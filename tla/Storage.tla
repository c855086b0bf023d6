------------------------------ MODULE Storage ------------------------------
(***************************************************************************)
(* components/storage: the WiFi credentials, two keys of one NVS namespace *)
(* that must change together.  Every public function takes s_lock, makes   *)
(* one or two backend calls and gives the lock back.  Flash is written one *)
(* key at a time and outlives a restart, which may come between any two    *)
(* steps (a power cut, or esp_restart from another task).                  *)
(***************************************************************************)
EXTENDS Naturals

CONSTANTS
    Ssids, Passwords,   \* names and passwords in play
    Empty,              \* the empty string: no network name, an open network
    Missing,            \* a key that holds no blob
    Unknown,            \* the last writer did not end with ESP_OK
    Tasks,              \* the tasks that call storage
    NoTask,             \* s_lock is free
    Requests,           \* the calls each of them makes
    IoFails,            \* nvs_set_blob, nvs_get_blob, nvs_erase_key or
                        \* nvs_commit may fail
    OpenFails           \* nvs_open may fail

\* storage_wifi_creds_t.
Creds == [ssid : Ssids \cup {Empty}, password : Passwords \cup {Empty}]

NoCreds == [ssid |-> Empty, password |-> Empty]

Save(c) == [op |-> "save", creds |-> c]
Load    == [op |-> "load", creds |-> NoCreds]
Erase   == [op |-> "erase", creds |-> NoCreds]
Has     == [op |-> "has", creds |-> NoCreds]

Call == [op : {"save", "load", "erase", "has"}, creds : Creds]

ASSUME StorageAssumption ==
    /\ Empty \notin Ssids /\ Missing \notin Ssids \cup Passwords \cup {Empty}
    /\ Unknown \notin Creds \cup {Missing} /\ Missing \notin Creds
    /\ NoTask \notin Tasks
    /\ Requests \in [Tasks -> SUBSET Call]
    /\ IoFails \in BOOLEAN /\ OpenFails \in BOOLEAN

VARIABLES
    flash,      \* the two NVS keys
    lock,       \* the task that holds s_lock, or NoTask
    pc,         \* where each task is in its call
    call,       \* the call it is in
    err,        \* its esp_err_t
    out,        \* the buffer a load fills
    last        \* history: what the last save or erase to end with ESP_OK
                \* left behind, Unknown while or after one that did not

vars == <<flash, lock, pc, call, err, out, last>>

Erased == [ssid |-> Missing, password |-> Missing]

Init ==
    /\ flash = Erased
    /\ lock = NoTask
    /\ pc = [t \in Tasks |-> "idle"]
    /\ call = [t \in Tasks |-> Has]
    /\ err = [t \in Tasks |-> "ok"]
    /\ out = [t \in Tasks |-> NoCreds]
    /\ last = Missing

Goto(t, l) == pc' = [pc EXCEPT ![t] = l]

\* Mutant of Valid: an empty SSID passes.
ValidAnySsid(c) == c \in Creds

\* storage_validate_wifi.  The lengths beyond the limits cannot occur: the
\* buffers are sized by them and always terminated.
Valid(c) == c.ssid # Empty

\* A public function is called; save refuses invalid credentials at once.
Invoke(t, c) ==
    /\ pc[t] = "idle"
    /\ c.op = "save" => Valid(c.creds)
    /\ Goto(t, "lock")
    /\ call' = [call EXCEPT ![t] = c]
    /\ UNCHANGED <<flash, lock, err, out, last>>

\* Mutant of Lock: load reads without the mutex.
LockNotForLoad(t) ==
    /\ pc[t] = "lock"
    /\ IF call[t].op = "load" THEN UNCHANGED lock
       ELSE lock = NoTask /\ lock' = t
    /\ Goto(t, "ssid")
    /\ UNCHANGED <<flash, call, err, out, last>>

Lock(t) ==
    /\ pc[t] = "lock"
    /\ lock = NoTask
    /\ lock' = t
    /\ Goto(t, "ssid")
    /\ UNCHANGED <<flash, call, err, out, last>>

(***************************************************************************)
(* The NVS backend.  An operation that fails may fail before or after the  *)
(* key has changed (nvs_commit is the last call).                          *)
(***************************************************************************)
NvsSet(t, key, value) ==
    \/ /\ flash' = [flash EXCEPT ![key] = value]
       /\ err' = [err EXCEPT ![t] = "ok"]
    \/ /\ IoFails
       /\ flash' \in {flash, [flash EXCEPT ![key] = value]}
       /\ err' = [err EXCEPT ![t] = "fail"]
    \/ OpenFails /\ err' = [err EXCEPT ![t] = "fail"] /\ UNCHANGED flash

\* nvs_backend_erase_key answers ESP_OK when it cannot open the namespace.
NvsErase(t, key) ==
    \/ /\ flash' = [flash EXCEPT ![key] = Missing]
       /\ err' = [err EXCEPT ![t] = IF flash[key] = Missing THEN "not_found" ELSE "ok"]
    \/ /\ IoFails
       /\ flash' \in {flash, [flash EXCEPT ![key] = Missing]}
       /\ err' = [err EXCEPT ![t] = "fail"]
    \/ OpenFails /\ err' = [err EXCEPT ![t] = "ok"] /\ UNCHANGED flash

\* get_blob answers NOT_FOUND when it cannot open the namespace; has_key takes
\* every failure for an absent key.
NvsGet(t, key) ==
    \/ /\ flash[key] # Missing
       /\ out' = [out EXCEPT ![t][key] = IF call[t].op = "load" THEN flash[key] ELSE @]
       /\ err' = [err EXCEPT ![t] = "ok"]
    \/ /\ flash[key] = Missing \/ OpenFails
       /\ err' = [err EXCEPT ![t] = "not_found"]
       /\ UNCHANGED out
    \/ IoFails /\ err' = [err EXCEPT ![t] = "fail"] /\ UNCHANGED out

\* The first backend call, on the SSID; what the next one is depends on err.
SaveSsid(t) ==
    /\ pc[t] = "ssid" /\ call[t].op = "save"
    /\ NvsSet(t, "ssid", call[t].creds.ssid)
    /\ Goto(t, IF err'[t] = "ok" THEN "password" ELSE "unlock")
    /\ last' = Unknown
    /\ UNCHANGED <<lock, call, out>>

EraseSsid(t) ==
    /\ pc[t] = "ssid" /\ call[t].op = "erase"
    /\ NvsErase(t, "ssid")
    /\ Goto(t, IF err'[t] \in {"ok", "not_found"} THEN "password" ELSE "unlock")
    /\ last' = Unknown
    /\ UNCHANGED <<lock, call, out>>

LoadSsid(t) ==
    /\ pc[t] = "ssid" /\ call[t].op = "load"
    /\ NvsGet(t, "ssid")
    /\ Goto(t, IF err'[t] = "ok" THEN "password" ELSE "unlock")
    /\ UNCHANGED <<flash, lock, call, last>>

HasSsid(t) ==
    /\ pc[t] = "ssid" /\ call[t].op = "has"
    /\ NvsGet(t, "ssid")
    /\ Goto(t, "unlock")
    /\ UNCHANGED <<flash, lock, call, last>>

\* Mutant of SavePassword: the second result is not returned.
SavePasswordUnchecked(t) ==
    /\ pc[t] = "password" /\ call[t].op = "save"
    /\ \E e \in {"ok", "fail"} :
           /\ flash' = IF e = "ok" THEN [flash EXCEPT !.password = call[t].creds.password]
                                   ELSE flash
           /\ e = "fail" => IoFails
    /\ err' = [err EXCEPT ![t] = "ok"]
    /\ Goto(t, "unlock")
    /\ last' = call[t].creds
    /\ UNCHANGED <<lock, call, out>>

SavePassword(t) ==
    /\ pc[t] = "password" /\ call[t].op = "save"
    /\ NvsSet(t, "password", call[t].creds.password)
    /\ Goto(t, "unlock")
    /\ last' = IF err'[t] = "ok" THEN call[t].creds ELSE Unknown
    /\ UNCHANGED <<lock, call, out>>

\* A missing key is no error.
ErasePassword(t) ==
    /\ pc[t] = "password" /\ call[t].op = "erase"
    /\ NvsErase(t, "password")
    /\ Goto(t, "unlock")
    /\ last' = IF err'[t] \in {"ok", "not_found"} THEN Missing ELSE Unknown
    /\ UNCHANGED <<lock, call, out>>

LoadPassword(t) ==
    /\ pc[t] = "password" /\ call[t].op = "load"
    /\ NvsGet(t, "password")
    /\ Goto(t, "unlock")
    /\ UNCHANGED <<flash, lock, call, last>>

\* The call gives the lock back and returns; load clears its buffer for the
\* next one.
Finish(t) ==
    /\ Goto(t, "idle")
    /\ call' = [call EXCEPT ![t] = Has]
    /\ err' = [err EXCEPT ![t] = "ok"]
    /\ out' = [out EXCEPT ![t] = NoCreds]
    /\ UNCHANGED <<flash, last>>

\* Mutant of Unlock: an error returns with the lock held.
UnlockNotOnError(t) ==
    /\ pc[t] = "unlock"
    /\ lock' = IF err[t] = "fail" THEN lock ELSE NoTask
    /\ Finish(t)

Unlock(t) ==
    /\ pc[t] = "unlock"
    /\ lock' = NoTask
    /\ Finish(t)

Step(t) ==
    \/ Lock(t) \/ Unlock(t)
    \/ SaveSsid(t) \/ SavePassword(t)
    \/ EraseSsid(t) \/ ErasePassword(t)
    \/ LoadSsid(t) \/ LoadPassword(t) \/ HasSsid(t)

\* storage_init and nvs_backend_init: a partition without free pages or of
\* another version is wiped; otherwise the keys are as they were.
Recover == \/ flash' = Erased /\ last' = Missing
           \/ UNCHANGED <<flash, last>>

\* The chip restarts: RAM is lost, the two keys are not.
Restart ==
    /\ lock' = NoTask
    /\ pc' = [t \in Tasks |-> "idle"]
    /\ call' = [t \in Tasks |-> Has]
    /\ err' = [t \in Tasks |-> "ok"]
    /\ out' = [t \in Tasks |-> NoCreds]
    /\ Recover

Next ==
    \/ \E t \in Tasks : \E c \in Requests[t] : Invoke(t, c)
    \/ \E t \in Tasks : Step(t)
    \/ Restart

\* A task that can go on does; NVS calls return.
Fairness == \A t \in Tasks : WF_vars(Step(t))

Spec == Init /\ [][Next]_vars /\ Fairness
-----------------------------------------------------------------------------

\* What each key can hold: no blob of an empty SSID is ever written.
TypeOK ==
    /\ flash \in [ssid : Ssids \cup {Missing},
                  password : Passwords \cup {Empty, Missing}]
    /\ lock \in Tasks \cup {NoTask}
    /\ pc \in [Tasks -> {"idle", "lock", "ssid", "password", "unlock"}]
    /\ call \in [Tasks -> Call]
    /\ err \in [Tasks -> {"ok", "not_found", "fail"}]
    /\ out \in [Tasks -> Creds]
    /\ last \in Creds \cup {Missing, Unknown}

\* A save or an erase that answered ESP_OK is what flash holds from then on,
\* across any number of restarts, until the next save or erase starts.
LastWriterWins ==
    /\ last \in Creds => flash = last
    /\ last = Missing => flash = Erased

\* What a load that succeeds hands out.
Loaded(t) == pc[t] = "unlock" /\ call[t].op = "load" /\ err[t] = "ok" /\ Valid(out[t])

\* A load that answers ESP_OK hands out the credentials of the last save that
\* answered ESP_OK, whatever the other tasks do meanwhile; only a save or an
\* erase that failed or was cut off lets it see anything else.
LoadReadsLastSave == \A t \in Tasks : Loaded(t) => last \in {out[t], Unknown}

\* "A missing namespace or key is treated as success" (storage_nvs.c): an
\* erase that answers ESP_OK has left no credentials behind.
EraseOkMeansGone ==
    \A t \in Tasks : pc[t] = "unlock" /\ call[t].op = "erase" /\ err[t] # "fail" =>
        flash = Erased

\* Every function gives the lock back, on its error paths too.
LockReleased == \A t \in Tasks : lock = t ~> lock # t
=============================================================================
