------------------------------ MODULE TimeSync ------------------------------
(***************************************************************************)
(* components/time_sync/time_sync.c: the flags that the SNTP callback      *)
(* shares with the HTTP task, and the system clock.  The SNTP client is    *)
(* external: once it runs, each reply steps the clock and then calls       *)
(* time_sync_on_sync.                                                      *)
(***************************************************************************)
EXTENDS Naturals

CONSTANTS
    ValidEpoch,     \* TIME_SYNC_VALID_EPOCH, 2021-01-01
    ServerTimes     \* what the server may answer, right or wrong

ASSUME TimeAssumption == ValidEpoch \in Nat \ {0} /\ ServerTimes \subseteq Nat

VARIABLES
    clock,          \* the system clock, 0 (1970) at boot
    synced,         \* s_synced
    started,        \* s_started
    sntp            \* external: the SNTP client

tvars == <<clock, synced, started, sntp>>

TInit == clock = 0 /\ synced = FALSE /\ started = FALSE /\ sntp = "off"

\* time_sync_start: the started flag is taken before esp_netif_sntp_init,
\* which may fail.
TimeSyncStart ==
    /\ started' = TRUE
    /\ sntp' \in IF started THEN {sntp} ELSE {"off", "running"}
    /\ UNCHANGED <<clock, synced>>

SntpReply ==
    /\ sntp = "running" /\ sntp' = "replied"
    /\ clock' \in ServerTimes
    /\ UNCHANGED <<synced, started>>

\* time_sync_on_sync.
OnSync ==
    /\ sntp = "replied" /\ sntp' = "running"
    /\ synced' = TRUE
    /\ UNCHANGED <<clock, started>>

\* Mutant of IsSynced: the flag alone.
IsSyncedFlag == synced

\* time_sync_is_synced.  Its two reads are one: the flag is never taken back.
IsSynced == synced /\ clock >= ValidEpoch
=============================================================================
