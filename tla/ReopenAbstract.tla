--------------------------- MODULE ReopenAbstract ---------------------------
(***************************************************************************)
(* What the reopen sequence of src/tcmur_device.c promises the rest of the *)
(* daemon, without threads, mutexes, queue drains or lock cancellation:    *)
(*                                                                         *)
(*   - at most one reopener owns the backend at a time, and only while it  *)
(*     owns it is the backend closed and reopened (tcmu_reopen_dev is      *)
(*     single-flight, __tcmu_reopen_dev closes then opens);                *)
(*   - a reopen gives ownership back either by having opened the backend  *)
(*     again or, only when the device is shutting down, with it closed;   *)
(*   - no reopen begins once removal has started, and removal closes the  *)
(*     backend only when no reopen owns it.                                *)
(***************************************************************************)
CONSTANTS Reopeners   \* threads that may call tcmu_reopen_dev

VARIABLES
    owner,      \* the reopener inside the sequence: {} or a singleton
    backend,    \* "open" or "closed": the handler's view of the device
    shutting    \* SHUTTING_DOWN has been set

vars == <<owner, backend, shutting>>

Init ==
    /\ owner = {}
    /\ backend = "open"
    /\ shutting = FALSE

\* A reopen passes the queue drain and the shutdown check (lines 53-63).
Begin(t) ==
    /\ owner = {} /\ ~shutting
    /\ owner' = {t}
    /\ UNCHANGED <<backend, shutting>>

\* rhandler->close(dev) of line 83.
Close(t) ==
    /\ owner = {t} /\ backend = "open"
    /\ backend' = "closed"
    /\ UNCHANGED <<owner, shutting>>

\* A successful rhandler->open(dev) ends the open loop (lines 88-102).
Open(t) ==
    /\ owner = {t} /\ backend = "closed"
    /\ backend' = "open"
    /\ owner' = {}
    /\ UNCHANGED shutting

\* The sequence ends with the backend closed: only on shutdown (line 88).
End(t) ==
    /\ owner = {t} /\ backend = "closed" /\ shutting
    /\ owner' = {}
    /\ UNCHANGED <<backend, shutting>>

\* Device removal sets SHUTTING_DOWN ...
Shut ==
    /\ ~shutting
    /\ shutting' = TRUE
    /\ UNCHANGED <<owner, backend>>

\* ... and, once no reopen is in progress, closes the backend.
RemovalClose ==
    /\ shutting /\ owner = {}
    /\ backend' = "closed"
    /\ UNCHANGED <<owner, shutting>>

Next ==
    \/ \E t \in Reopeners : Begin(t) \/ Close(t) \/ Open(t) \/ End(t)
    \/ Shut
    \/ RemovalClose

Spec == Init /\ [][Next]_vars
=============================================================================
