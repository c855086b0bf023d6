--------------------------- MODULE StorageProofs ---------------------------
(***************************************************************************)
(* Proofs about storage.c for any tasks, calls and credentials.  Types     *)
(* hold whatever NVS does; that the last writer wins, and that a load      *)
(* reads it, assume that the namespace opens (nvs_backend_erase_key        *)
(* answers ESP_OK when it does not).                                       *)
(***************************************************************************)
EXTENDS Storage, TLAPS

Inside(t) == pc[t] \in {"ssid", "password", "unlock"}

\* Between its first and its last backend call a task holds the lock, and
\* what it saves has passed storage_validate_wifi.
CallOK(t) ==
    /\ Inside(t) => lock = t
    /\ pc[t] # "idle" /\ call[t].op = "save" => Valid(call[t].creds)

\* What a call that is half done has already achieved.
Halfway(t) ==
    /\ pc[t] = "password" /\ call[t].op = "save" =>
           last = Unknown /\ flash.ssid = call[t].creds.ssid
    /\ pc[t] = "password" /\ call[t].op = "erase" =>
           last = Unknown /\ flash.ssid = Missing
    /\ pc[t] = "password" /\ call[t].op = "load" =>
           out[t].ssid = flash.ssid
    /\ pc[t] = "unlock" /\ call[t].op = "load" /\ err[t] = "ok" => out[t] = flash

TypeInv == TypeOK /\ \A t \in Tasks : CallOK(t)

StorageInv == TypeInv /\ LastWriterWins /\ \A t \in Tasks : Halfway(t)

-----------------------------------------------------------------------------
\* Types and mutual exclusion.

\* Blank flash and idle tasks satisfy the type invariant.
LEMMA InitTypes == Init => TypeInv
  BY StorageAssumption
  DEF Init, TypeInv, TypeOK, CallOK, Inside, Creds, Call, Has, NoCreds, Erased

\* What one task inside the lock leaves alone keeps the others' invariant.
LEMMA OthersOutside ==
  ASSUME TypeInv, NEW t \in Tasks, Inside(t), NEW s \in Tasks, s # t
  PROVE  ~Inside(s)
  BY DEF TypeInv, CallOK

\* set_blob of a valid SSID leaves an SSID key of its type.
LEMMA SetSsidTypes ==
  ASSUME TypeInv, NEW t \in Tasks, SaveSsid(t)
  PROVE  TypeInv'
  <1>1. call[t].creds.ssid \in Ssids
    BY DEF TypeInv, TypeOK, CallOK, Call, Creds, Valid, SaveSsid
  <1>2. /\ flash' \in [ssid : Ssids \cup {Missing}, password : Passwords \cup {Empty, Missing}]
        /\ err' \in [Tasks -> {"ok", "not_found", "fail"}]
    BY <1>1 DEF SaveSsid, NvsSet, TypeInv, TypeOK
  <1>3. pc' \in [Tasks -> {"idle", "lock", "ssid", "password", "unlock"}]
    BY DEF SaveSsid, Goto, TypeInv, TypeOK
  <1>4. TypeOK'
    BY <1>2, <1>3 DEF SaveSsid, TypeInv, TypeOK
  <1>5. ASSUME NEW s \in Tasks PROVE CallOK(s)'
    BY <1>5 DEF SaveSsid, Goto, TypeInv, TypeOK, CallOK, Inside, Valid
  <1> QED BY <1>4, <1>5 DEF TypeInv

\* set_blob of a password leaves a password key of its type.
LEMMA SetPasswordTypes ==
  ASSUME TypeInv, NEW t \in Tasks, SavePassword(t)
  PROVE  TypeInv'
  <1>1. call[t].creds \in Creds
    BY DEF TypeInv, TypeOK, Call
  <1>2. /\ flash' \in [ssid : Ssids \cup {Missing}, password : Passwords \cup {Empty, Missing}]
        /\ err' \in [Tasks -> {"ok", "not_found", "fail"}]
    BY <1>1 DEF SavePassword, NvsSet, TypeInv, TypeOK, Creds
  <1>3. /\ pc' \in [Tasks -> {"idle", "lock", "ssid", "password", "unlock"}]
        /\ last' \in Creds \cup {Missing, Unknown}
    BY <1>1 DEF SavePassword, Goto, TypeInv, TypeOK
  <1>4. TypeOK'
    BY <1>2, <1>3 DEF SavePassword, TypeInv, TypeOK
  <1>5. ASSUME NEW s \in Tasks PROVE CallOK(s)'
    BY <1>5 DEF SavePassword, Goto, TypeInv, TypeOK, CallOK, Inside, Valid
  <1> QED BY <1>4, <1>5 DEF TypeInv

\* erase_key leaves keys and error codes of their types.
LEMMA EraseTypes ==
  ASSUME TypeInv, NEW t \in Tasks, EraseSsid(t) \/ ErasePassword(t)
  PROVE  TypeInv'
  <1>1. /\ flash' \in [ssid : Ssids \cup {Missing}, password : Passwords \cup {Empty, Missing}]
        /\ err' \in [Tasks -> {"ok", "not_found", "fail"}]
    BY DEF EraseSsid, ErasePassword, NvsErase, TypeInv, TypeOK
  <1>2. /\ pc' \in [Tasks -> {"idle", "lock", "ssid", "password", "unlock"}]
        /\ last' \in Creds \cup {Missing, Unknown}
    BY DEF EraseSsid, ErasePassword, Goto, TypeInv, TypeOK
  <1>3. TypeOK'
    BY <1>1, <1>2 DEF EraseSsid, ErasePassword, TypeInv, TypeOK
  <1>4. ASSUME NEW s \in Tasks PROVE CallOK(s)'
    BY <1>4 DEF EraseSsid, ErasePassword, Goto, TypeInv, TypeOK, CallOK, Inside, Valid
  <1> QED BY <1>3, <1>4 DEF TypeInv

\* get_blob fills the buffer with what the keys may hold.
LEMMA GetTypes ==
  ASSUME TypeInv, NEW t \in Tasks, LoadSsid(t) \/ LoadPassword(t) \/ HasSsid(t)
  PROVE  TypeInv'
  <1>1. ASSUME NEW key \in {"ssid", "password"}, NvsGet(t, key)
        PROVE  out' \in [Tasks -> Creds] /\ err' \in [Tasks -> {"ok", "not_found", "fail"}]
    <2>1. out[t] \in Creds
      BY DEF TypeInv, TypeOK
    <2>2. [out[t] EXCEPT ![key] = IF call[t].op = "load" /\ flash[key] # Missing
                                  THEN flash[key] ELSE @] \in Creds
      BY <2>1 DEF TypeInv, TypeOK, Creds
    <2> QED BY <1>1, <2>1, <2>2 DEF NvsGet, TypeInv, TypeOK
  <1>2. /\ out' \in [Tasks -> Creds]
        /\ err' \in [Tasks -> {"ok", "not_found", "fail"}]
    BY <1>1 DEF LoadSsid, LoadPassword, HasSsid
  <1>3. pc' \in [Tasks -> {"idle", "lock", "ssid", "password", "unlock"}]
    BY DEF LoadSsid, LoadPassword, HasSsid, Goto, TypeInv, TypeOK
  <1>4. TypeOK'
    BY <1>2, <1>3 DEF LoadSsid, LoadPassword, HasSsid, TypeInv, TypeOK
  <1>5. ASSUME NEW s \in Tasks PROVE CallOK(s)'
    BY <1>5 DEF LoadSsid, LoadPassword, HasSsid, Goto, TypeInv, TypeOK, CallOK, Inside, Valid
  <1> QED BY <1>4, <1>5 DEF TypeInv

\* Every step of a call keeps the type invariant.
LEMMA CallTypes ==
  ASSUME TypeInv, NEW t \in Tasks,
         (\E c \in Requests[t] : Invoke(t, c)) \/ Lock(t) \/ Unlock(t)
  PROVE  TypeInv'
  <1>0. Has \in Call /\ NoCreds \in Creds /\ Has.op = "has"
    BY DEF Has, Call, NoCreds, Creds
  <1>1. ASSUME NEW c \in Requests[t], Invoke(t, c) PROVE TypeInv'
    <2>1. c \in Call
      BY StorageAssumption
    <2>2. TypeOK'
      BY <1>1, <2>1 DEF Invoke, Goto, TypeInv, TypeOK
    <2>3. ASSUME NEW s \in Tasks PROVE CallOK(s)'
      BY <1>1, <2>3 DEF Invoke, Goto, TypeInv, TypeOK, CallOK, Inside, Valid
    <2> QED BY <2>2, <2>3 DEF TypeInv
  <1>2. CASE Lock(t)
    <2>1. TypeOK'
      BY <1>2 DEF Lock, Goto, TypeInv, TypeOK
    <2>2. ASSUME NEW s \in Tasks PROVE CallOK(s)'
      BY <1>2, <2>2, StorageAssumption DEF Lock, Goto, TypeInv, TypeOK, CallOK, Inside, Valid
    <2> QED BY <2>1, <2>2 DEF TypeInv
  <1>3. CASE Unlock(t)
    <2>1. TypeOK'
      BY <1>0, <1>3 DEF Unlock, Finish, Goto, TypeInv, TypeOK
    <2>2. ASSUME NEW s \in Tasks PROVE CallOK(s)'
      <3>1. CASE s = t
        BY <1>3, <3>1 DEF Unlock, Finish, Goto, TypeInv, TypeOK, CallOK, Inside
      <3>2. CASE s # t
        <4>1. ~Inside(s)
          BY <1>3, <3>2, OthersOutside DEF Unlock, Inside
        <4> QED BY <1>3, <3>2, <4>1
                DEF Unlock, Finish, Goto, TypeInv, TypeOK, CallOK, Inside, Valid
      <3> QED BY <3>1, <3>2
    <2> QED BY <2>1, <2>2 DEF TypeInv
  <1> QED BY <1>1, <1>2, <1>3

\* A restart keeps the type invariant.
LEMMA RestartTypes == TypeInv /\ Restart => TypeInv'
  BY DEF TypeInv, TypeOK, CallOK, Inside, Restart, Recover, Erased, Has, Call, NoCreds, Creds

\* A step of nobody keeps the type invariant.
LEMMA StutterTypes == TypeInv /\ UNCHANGED vars => TypeInv'
  BY DEF TypeInv, TypeOK, CallOK, Inside, Valid, vars

\* Every step keeps the type invariant.
LEMMA NextTypes == TypeInv /\ [Next]_vars => TypeInv'
  BY SetSsidTypes, SetPasswordTypes, EraseTypes, GetTypes, CallTypes, RestartTypes,
     StutterTypes DEF Next, Step

\* The type invariant holds in every reachable state.
LEMMA TypesHold == Spec => []TypeInv
  BY InitTypes, NextTypes, PTL DEF Spec

\* The keys and the tasks' buffers hold what their C types and the validation
\* allow: no SSID blob is ever empty, whatever NVS does.
THEOREM TypeCorrect == Spec => []TypeOK
  <1>1. TypeInv => TypeOK
    BY DEF TypeInv
  <1> QED BY <1>1, TypesHold, PTL

-----------------------------------------------------------------------------
\* The last writer wins.  From here on the namespace opens.

\* Blank flash and idle tasks satisfy the inductive invariant.
LEMMA InitStorage == Init => StorageInv
  BY InitTypes, StorageAssumption
  DEF Init, StorageInv, LastWriterWins, Halfway, Erased

\* A task that is neither at its second call nor has loaded is not halfway.
LEMMA NotHalfway ==
  ASSUME NEW t \in Tasks, pc[t] \notin {"password", "unlock"}
  PROVE  Halfway(t)
  BY DEF Halfway

\* Both halves of a save keep the invariant.
LEMMA SaveKeeps ==
  ASSUME StorageInv, NEW t \in Tasks, SaveSsid(t) \/ SavePassword(t)
  PROVE  StorageInv'
  <1>1. TypeInv'
    BY SetSsidTypes, SetPasswordTypes DEF StorageInv
  <1>2. \A s \in Tasks : s # t => pc[s] \notin {"password", "unlock"} /\ pc'[s] = pc[s]
    BY OthersOutside DEF StorageInv, SaveSsid, SavePassword, Inside, Goto, TypeInv, TypeOK
  <1>3. ASSUME NEW s \in Tasks, s # t PROVE Halfway(s)'
    BY <1>2, <1>3 DEF Halfway
  <1>4. CASE SaveSsid(t)
    <2>1. LastWriterWins'
      BY <1>4, StorageAssumption DEF SaveSsid, LastWriterWins
    <2>2. Halfway(t)'
      BY <1>4 DEF SaveSsid, NvsSet, Goto, Halfway, StorageInv, TypeInv, TypeOK
    <2> QED BY <1>1, <1>3, <2>1, <2>2 DEF StorageInv
  <1>5. CASE SavePassword(t)
    <2>1. Halfway(t)'
      BY <1>5 DEF SavePassword, Goto, Halfway, StorageInv, TypeInv, TypeOK
    <2>2. CASE err'[t] = "ok"
      <3>1. flash' = [flash EXCEPT !.password = call[t].creds.password]
        BY <1>5, <2>2 DEF SavePassword, NvsSet, StorageInv, TypeInv, TypeOK
      <3>2. flash.ssid = call[t].creds.ssid /\ call[t].creds \in Creds
        BY <1>5 DEF SavePassword, Halfway, StorageInv, TypeInv, TypeOK, Call
      <3>3. flash' = call[t].creds
        BY <3>1, <3>2 DEF StorageInv, TypeInv, TypeOK, Creds
      <3>4. last' = call[t].creds /\ last' # Missing
        BY <1>5, <2>2, <3>2, StorageAssumption DEF SavePassword
      <3> QED BY <1>1, <1>3, <2>1, <3>3, <3>4 DEF StorageInv, LastWriterWins
    <2>3. CASE err'[t] # "ok"
      <3>1. last' = Unknown
        BY <1>5, <2>3 DEF SavePassword
      <3> QED BY <1>1, <1>3, <2>1, <3>1, StorageAssumption DEF StorageInv, LastWriterWins
    <2> QED BY <2>2, <2>3
  <1> QED BY <1>4, <1>5

\* Both halves of an erase keep the invariant.
LEMMA EraseKeeps ==
  ASSUME StorageInv, ~OpenFails, NEW t \in Tasks, EraseSsid(t) \/ ErasePassword(t)
  PROVE  StorageInv'
  <1>1. TypeInv'
    BY EraseTypes DEF StorageInv
  <1>2. \A s \in Tasks : s # t => pc[s] \notin {"password", "unlock"} /\ pc'[s] = pc[s]
    BY OthersOutside DEF StorageInv, EraseSsid, ErasePassword, Inside, Goto, TypeInv, TypeOK
  <1>3. ASSUME NEW s \in Tasks, s # t PROVE Halfway(s)'
    BY <1>2, <1>3 DEF Halfway
  <1>4. CASE EraseSsid(t)
    <2>1. LastWriterWins'
      BY <1>4, StorageAssumption DEF EraseSsid, LastWriterWins
    <2>2. err'[t] \in {"ok", "not_found"} => flash'.ssid = Missing
      BY <1>4 DEF EraseSsid, NvsErase, StorageInv, TypeInv, TypeOK
    <2>3. Halfway(t)'
      BY <1>4, <2>2 DEF EraseSsid, Goto, Halfway, StorageInv, TypeInv, TypeOK
    <2> QED BY <1>1, <1>3, <2>1, <2>3 DEF StorageInv
  <1>5. CASE ErasePassword(t)
    <2>1. Halfway(t)'
      BY <1>5 DEF ErasePassword, Goto, Halfway, StorageInv, TypeInv, TypeOK
    <2>2. CASE err'[t] \in {"ok", "not_found"}
      <3>1. flash' = [flash EXCEPT !.password = Missing]
        BY <1>5, <2>2 DEF ErasePassword, NvsErase, StorageInv, TypeInv, TypeOK
      <3>2. flash.ssid = Missing
        BY <1>5 DEF ErasePassword, Halfway, StorageInv
      <3>3. flash' = Erased
        BY <3>1, <3>2 DEF StorageInv, TypeInv, TypeOK, Erased
      <3>4. last' = Missing
        BY <1>5, <2>2 DEF ErasePassword
      <3> QED BY <1>1, <1>3, <2>1, <3>3, <3>4, StorageAssumption
              DEF StorageInv, LastWriterWins
    <2>3. CASE err'[t] \notin {"ok", "not_found"}
      <3>1. last' = Unknown
        BY <1>5, <2>3 DEF ErasePassword
      <3> QED BY <1>1, <1>3, <2>1, <3>1, StorageAssumption DEF StorageInv, LastWriterWins
    <2> QED BY <2>2, <2>3
  <1> QED BY <1>4, <1>5

\* The reads of load and has keep the invariant.
LEMMA GetKeeps ==
  ASSUME StorageInv, ~OpenFails, NEW t \in Tasks,
         LoadSsid(t) \/ LoadPassword(t) \/ HasSsid(t)
  PROVE  StorageInv'
  <1>1. TypeInv'
    BY GetTypes DEF StorageInv
  <1>2. \A s \in Tasks : s # t => pc[s] \notin {"password", "unlock"} /\ pc'[s] = pc[s]
    BY OthersOutside
    DEF StorageInv, LoadSsid, LoadPassword, HasSsid, Inside, Goto, TypeInv, TypeOK
  <1>3. ASSUME NEW s \in Tasks, s # t PROVE Halfway(s)'
    BY <1>2, <1>3 DEF Halfway
  <1>4. LastWriterWins'
    BY DEF LoadSsid, LoadPassword, HasSsid, StorageInv, LastWriterWins
  <1>5. Halfway(t)'
    <2>1. CASE LoadSsid(t)
      BY <2>1 DEF LoadSsid, NvsGet, Goto, Halfway, StorageInv, TypeInv, TypeOK, Creds
    <2>2. CASE LoadPassword(t)
      <3>1. out[t].ssid = flash.ssid /\ out[t] \in Creds
        BY <2>2 DEF LoadPassword, Halfway, StorageInv, TypeInv, TypeOK
      <3>2. CASE err'[t] = "ok"
        <4>1. out'[t] = [out[t] EXCEPT !.password = flash.password]
          BY <2>2, <3>2 DEF LoadPassword, NvsGet, StorageInv, TypeInv, TypeOK
        <4>2. out'[t] = flash
          BY <3>1, <4>1 DEF StorageInv, TypeInv, TypeOK, Creds
        <4> QED BY <2>2, <4>2 DEF LoadPassword, Goto, Halfway, StorageInv, TypeInv, TypeOK
      <3>3. CASE err'[t] # "ok"
        BY <2>2, <3>3 DEF LoadPassword, Goto, Halfway, StorageInv, TypeInv, TypeOK
      <3> QED BY <3>2, <3>3
    <2>3. CASE HasSsid(t)
      BY <2>3 DEF HasSsid, Goto, Halfway, StorageInv, TypeInv, TypeOK
    <2> QED BY <2>1, <2>2, <2>3
  <1> QED BY <1>1, <1>3, <1>4, <1>5 DEF StorageInv

\* Calling, taking and giving back the lock keep the invariant.
LEMMA CallKeeps ==
  ASSUME StorageInv, NEW t \in Tasks,
         (\E c \in Requests[t] : Invoke(t, c)) \/ Lock(t) \/ Unlock(t)
  PROVE  StorageInv'
  <1>1. TypeInv'
    BY CallTypes DEF StorageInv
  <1>2. LastWriterWins'
    BY DEF Invoke, Lock, Unlock, Finish, StorageInv, LastWriterWins
  <1>3. pc'[t] \notin {"password", "unlock"}
    BY DEF Invoke, Lock, Unlock, Finish, Goto, StorageInv, TypeInv, TypeOK
  <1>4. ASSUME NEW s \in Tasks PROVE Halfway(s)'
    <2>1. CASE s = t
      BY <1>3, <2>1 DEF Halfway
    <2>2. CASE s # t
      BY <1>4, <2>2
      DEF Invoke, Lock, Unlock, Finish, Goto, Halfway, StorageInv, TypeInv, TypeOK
    <2> QED BY <2>1, <2>2
  <1> QED BY <1>1, <1>2, <1>4 DEF StorageInv

\* A restart between any two steps keeps the invariant.
LEMMA RestartKeeps == StorageInv /\ Restart => StorageInv'
  BY RestartTypes, StorageAssumption
  DEF StorageInv, Restart, Recover, Erased, LastWriterWins, Halfway

\* A step of nobody keeps the invariant.
LEMMA StutterKeeps == StorageInv /\ UNCHANGED vars => StorageInv'
  BY StutterTypes DEF StorageInv, LastWriterWins, Halfway, vars

\* Every step keeps the invariant when nvs_open succeeds.
LEMMA NextStorage == ~OpenFails /\ StorageInv /\ [Next]_vars => StorageInv'
  BY SaveKeeps, EraseKeeps, GetKeeps, CallKeeps, RestartKeeps, StutterKeeps DEF Next, Step

\* The invariant holds in every reachable state when nvs_open succeeds.
LEMMA StorageInvHolds == ASSUME ~OpenFails PROVE Spec => []StorageInv
  <1>1. StorageInv /\ [Next]_vars => StorageInv'
    BY NextStorage
  <1> QED BY <1>1, InitStorage, PTL DEF Spec

\* Flash holds what the last save or erase that answered ESP_OK left, across
\* restarts and failures of the calls in between.
THEOREM LastWriterWinsHolds == ASSUME ~OpenFails PROVE Spec => []LastWriterWins
  <1>1. StorageInv => LastWriterWins
    BY DEF StorageInv
  <1> QED BY <1>1, StorageInvHolds, PTL

\* A load that answers ESP_OK hands out what the last save that answered
\* ESP_OK stored, unless a later save or erase failed or was cut off.
THEOREM LoadReadsLastSaveHolds == ASSUME ~OpenFails PROVE Spec => []LoadReadsLastSave
  <1>1. ASSUME StorageInv, NEW t \in Tasks, Loaded(t) PROVE last \in {out[t], Unknown}
    <2>1. out[t] = flash /\ out[t] \in Creds
      BY <1>1 DEF StorageInv, TypeInv, TypeOK, Halfway, Loaded
    <2>2. flash # Erased
      BY <2>1, StorageAssumption DEF Creds, Erased
    <2>3. last \in Creds \cup {Missing, Unknown}
      BY <1>1 DEF StorageInv, TypeInv, TypeOK
    <2> QED BY <1>1, <2>1, <2>2, <2>3 DEF StorageInv, LastWriterWins
  <1>2. StorageInv => LoadReadsLastSave
    BY <1>1 DEF LoadReadsLastSave
  <1> QED BY <1>2, StorageInvHolds, PTL
=============================================================================
