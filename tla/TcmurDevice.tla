---------------------------- MODULE TcmurDevice ----------------------------
(***************************************************************************)
(* The per-device recovery and lock state machine of src/tcmur_device.c.  *)
(*                                                                         *)
(* State guarded by rdev->state_lock: the flags IN_RECOVERY, SHUTTING_DOWN *)
(* and IS_OPEN, and lock_state.  Every critical section of the code (lock  *)
(* ... unlock) is one atomic step here; every call made without the mutex  *)
(* (the queue drain, pthread_join, handler close and open) is a step of    *)
(* its own, so that other threads interleave where the code lets them.     *)
(*                                                                         *)
(* Threads:                                                                *)
(*   Callers      threads calling tcmu_reopen_dev (reconfigure and the     *)
(*                like);                                                   *)
(*   LockThr      the lock-acquisition thread, which may itself reopen;    *)
(*   RecoveryThr  the thread tcmu_notify_conn_lost starts, which reopens   *)
(*                the device through __tcmu_reopen_dev;                    *)
(*   Teardown     the device-removal path that cancels recovery and the    *)
(*                lock thread and closes the device;                       *)
(* and, without a pc, backend notifications (tcmu_notify_conn_lost,        *)
(* tcmu_notify_lock_lost) and SCSI commands.                               *)
(***************************************************************************)
EXTENDS Integers, FiniteSets

CONSTANTS
    Callers,       \* threads that call tcmu_reopen_dev
    LockThr,       \* the lock thread
    RecoveryThr,   \* the connection-loss recovery thread
    Teardown,      \* the device-removal thread
    MaxCalls,      \* reopen calls each caller makes, recovery threads started
    MaxCmds,       \* commands outstanding at once
    MaxOpenFails   \* handler open() failures in a behaviour

ASSUME /\ LockThr \notin Callers /\ RecoveryThr \notin Callers \cup {LockThr}
       /\ Teardown \notin Callers \cup {LockThr, RecoveryThr}
       /\ MaxCalls \in Nat /\ MaxCmds \in Nat /\ MaxOpenFails \in Nat

Reopeners == Callers \cup {LockThr, RecoveryThr}
Threads   == Reopeners \cup {Teardown}

VARIABLES
    flags,            \* rdev->flags, a subset of Flags
    lock_state,       \* rdev->lock_state
    recovery_thread,  \* state of the pthread handle rdev->recovery_thread
    lock_thread,      \* state of the pthread handle rdev->lock_thread
    pc,               \* where each thread is
    outstanding,      \* SCSI commands in flight (the aio queue)
    handles,          \* handler-side open handles of the backend device
    open_fails,       \* handler open() failures so far
    calls             \* reopen calls made by each caller, and recovery
                      \* threads started by connection loss

vars == <<flags, lock_state, recovery_thread, lock_thread, pc, outstanding,
          handles, open_fails, calls>>

Flags      == {"IN_RECOVERY", "SHUTTING_DOWN", "IS_OPEN"}
LockStates == {"UNLOCKED", "LOCKING", "LOCKED"}
\* "none": never created; "joined": reaped by pthread_join.
ThreadHandles == {"none", "running", "exited", "joined"}

\* pc values of __tcmu_reopen_dev, from the queue drain to the open loop.
ReopenBody  == {"drain", "cancel_lock", "join_lock", "force_unlock",
                "close", "clear_open", "open"}
\* The part of the body that closes and reopens the backend.
BackendPhase == {"close", "clear_open", "open"}
TeardownPcs == {"td_idle", "td_drain", "td_cancel_recov", "td_join_recov", "td_poll",
                "td_cancel_lock", "td_join_lock", "td_close", "td_done",
                "td_crashed"}
LockPcs     == {"idle", "lk_acquire", "lk_finish"}

InRecovery   == "IN_RECOVERY" \in flags
ShuttingDown == "SHUTTING_DOWN" \in flags
Crashed      == pc[Teardown] = "td_crashed"

Goto(t, l) == pc' = [pc EXCEPT ![t] = l]

\* Where __tcmu_reopen_dev returns to: the caller's idle loop, the rest of
\* the lock thread, or the end of the recovery thread.
ReturnPc(t) == CASE t = LockThr     -> "lk_finish"
                 [] t = RecoveryThr -> "rc_idle"
                 [] OTHER           -> "idle"

(* The step in which __tcmu_reopen_dev returns; the recovery thread has    *)
(* nothing left to do after it and exits in the same step.                 *)
ReturnFrom(t) ==
    /\ Goto(t, ReturnPc(t))
    /\ recovery_thread' = IF t = RecoveryThr THEN "exited" ELSE recovery_thread

(* The handler's open and close as seen by its device: a count of open    *)
(* handles, kept within -1..2 since the properties tell apart only a       *)
(* closed device, an open one, and one closed or opened once too often.    *)
HandlerOpen(h)  == IF h < 2 THEN h + 1 ELSE h
HandlerClose(h) == IF h > -1 THEN h - 1 ELSE h

-----------------------------------------------------------------------------
(* Mutants: plausible slips in the code below, each named after the       *)
(* definition it replaces, used to show that a property can fail.          *)

\* tcmu_reopen_dev without the busy check.
ReopenDevNoBusy(t, from) ==
    /\ pc[t] = from
    /\ flags' = flags \cup {"IN_RECOVERY"}
    /\ Goto(t, "drain")
    /\ UNCHANGED <<lock_state, recovery_thread, lock_thread, outstanding,
                   handles, open_fails>>

\* __tcmu_reopen_dev without aio_wait_for_empty_queue.
ReopenDrainNoWait(t) ==
    /\ pc[t] = "drain"
    /\ \E drain_err \in BOOLEAN :
         IF drain_err \/ ShuttingDown
           THEN /\ flags' = flags \ {"IN_RECOVERY"}
                /\ ReturnFrom(t)
           ELSE /\ Goto(t, "cancel_lock")
                /\ UNCHANGED <<flags, recovery_thread>>
    /\ UNCHANGED <<lock_state, lock_thread, outstanding,
                   handles, open_fails, calls>>

\* __tcmu_reopen_dev without the SHUTTING_DOWN check of line 59.
ReopenDrainNoShutdownCheck(t) ==
    /\ pc[t] = "drain"
    /\ outstanding = 0
    /\ \E drain_err \in BOOLEAN :
         IF drain_err
           THEN /\ flags' = flags \ {"IN_RECOVERY"}
                /\ ReturnFrom(t)
           ELSE /\ Goto(t, "cancel_lock")
                /\ UNCHANGED <<flags, recovery_thread>>
    /\ UNCHANGED <<lock_state, lock_thread, outstanding,
                   handles, open_fails, calls>>

\* The open loop of line 88 without "ret != 0": it runs until shutdown.
ReopenOpenUntilShutdown(t) ==
    /\ pc[t] = "open"
    /\ \E ok \in BOOLEAN :
         /\ ~ok => open_fails < MaxOpenFails
         /\ open_fails' = IF ok THEN open_fails ELSE open_fails + 1
         /\ handles' = IF ok THEN HandlerOpen(handles) ELSE handles
         /\ LET opened == IF ok THEN flags \cup {"IS_OPEN"} ELSE flags
            IN IF ShuttingDown
                 THEN /\ flags' = opened \ {"IN_RECOVERY"}
                      /\ ReturnFrom(t)
                 ELSE /\ flags' = opened
                      /\ Goto(t, "open")
                      /\ UNCHANGED recovery_thread
    /\ UNCHANGED <<lock_state, lock_thread, outstanding,
                   calls>>

\* tcmu_notify_lock_lost without the LOCKING check.
NotifyLockLostAlways ==
    /\ lock_state' = "UNLOCKED"
    /\ UNCHANGED <<flags, recovery_thread, lock_thread, pc, outstanding,
                   handles, open_fails, calls>>

\* tcmu_cancel_recovery without the polling loop of lines 153-159.
CancelRecoveryPollOnce ==
    /\ pc[Teardown] = "td_poll"
    /\ Goto(Teardown, "td_cancel_lock")
    /\ UNCHANGED <<flags, lock_state, recovery_thread, lock_thread,
                   outstanding, handles, open_fails, calls>>

-----------------------------------------------------------------------------
(* tcmu_reopen_dev: single-flight entry.  Busy callers return at once.     *)
ReopenDev(t, from) ==
    /\ pc[t] = from
    /\ IF InRecovery
         THEN /\ Goto(t, ReturnPc(t))
              /\ UNCHANGED flags
         ELSE /\ flags' = flags \cup {"IN_RECOVERY"}
              /\ Goto(t, "drain")
    /\ UNCHANGED <<lock_state, recovery_thread, lock_thread, outstanding,
                   handles, open_fails>>

\* A caller thread calls tcmu_reopen_dev (at most MaxCalls times).
CallReopen(c) ==
    /\ calls[c] < MaxCalls
    /\ calls' = [calls EXCEPT ![c] = @ + 1]
    /\ ReopenDev(c, "idle")

(* __tcmu_reopen_dev, lines 53-63: wait for the queue to drain, then under *)
(* the mutex stop on a drain error or when the device is shutting down.    *)
(* The drain may fail (aio_wait_for_empty_queue returns non-zero).         *)
ReopenDrain(t) ==
    /\ pc[t] = "drain"
    /\ outstanding = 0
    /\ \E drain_err \in BOOLEAN :
         IF drain_err \/ ShuttingDown
           THEN /\ flags' = flags \ {"IN_RECOVERY"}
                /\ ReturnFrom(t)
           ELSE /\ Goto(t, "cancel_lock")
                /\ UNCHANGED <<flags, recovery_thread>>
    /\ UNCHANGED <<lock_state, lock_thread, outstanding,
                   handles, open_fails, calls>>

(* tcmu_cancel_lock_thread, first critical section: nothing to wait for   *)
(* unless the lock state is LOCKING.                                       *)
CancelLockCheck(t, from, joinPc, nextPc) ==
    /\ pc[t] = from
    /\ Goto(t, IF lock_state = "LOCKING" THEN joinPc ELSE nextPc)
    /\ UNCHANGED <<flags, lock_state, recovery_thread, lock_thread,
                   outstanding, handles, open_fails, calls>>

\* Mutant: pthread_join on the calling thread blocks instead of failing.
JoinOutcomeSelfBlocks(t, h, nextPc, self) ==
    \/ /\ h = "exited"
       /\ Goto(t, nextPc) /\ h' = "joined"
    \/ /\ h \in {"none", "joined"}
       /\ \/ Goto(t, nextPc)
          \/ pc' = [pc EXCEPT ![t] = nextPc, ![Teardown] = "td_crashed"]
       /\ UNCHANGED h

(* pthread_join, called without the mutex.  It blocks while the target    *)
(* runs, returns EDEADLK when a thread joins itself, and reaps an exited   *)
(* thread.  Joining a handle never created or already reaped is undefined  *)
(* behaviour: glibc either returns ESRCH or faults; the fault ends the     *)
(* daemon, modelled by the removal thread reaching td_crashed.             *)
JoinOutcome(t, h, nextPc, self) ==
    \/ /\ h = "running" /\ self
       /\ Goto(t, nextPc) /\ UNCHANGED h
    \/ /\ h = "exited"
       /\ Goto(t, nextPc) /\ h' = "joined"
    \/ /\ h \in {"none", "joined"}
       /\ \/ Goto(t, nextPc)
          \/ pc' = [pc EXCEPT ![t] = nextPc, ![Teardown] = "td_crashed"]
       /\ UNCHANGED h

\* tcmu_cancel_lock_thread, lines 243-246.
JoinLockThread(t, from, nextPc) ==
    /\ pc[t] = from
    /\ JoinOutcome(t, lock_thread, nextPc, t = LockThr)
    /\ UNCHANGED <<flags, lock_state, recovery_thread, outstanding, handles,
                   open_fails, calls>>

\* __tcmu_reopen_dev without the forced unlock of lines 77-80.
ReopenForceUnlockSkipped(t) ==
    /\ pc[t] = "force_unlock"
    /\ Goto(t, "close")
    /\ UNCHANGED <<flags, lock_state, recovery_thread, lock_thread, outstanding,
                   handles, open_fails, calls>>

(* Lines 77-80: force a lock reacquisition unless the lock path itself is  *)
(* reopening.                                                              *)
ReopenForceUnlock(t) ==
    /\ pc[t] = "force_unlock"
    /\ lock_state' = IF lock_state # "LOCKING" THEN "UNLOCKED" ELSE lock_state
    /\ Goto(t, "close")
    /\ UNCHANGED <<flags, recovery_thread, lock_thread, outstanding, handles,
                   open_fails, calls>>

\* Line 83: rhandler->close(dev), without the mutex.
ReopenClose(t) ==
    /\ pc[t] = "close"
    /\ handles' = HandlerClose(handles)
    /\ Goto(t, "clear_open")
    /\ UNCHANGED <<flags, lock_state, recovery_thread, lock_thread,
                   outstanding, open_fails, calls>>

(* Lines 85-88 and 100-102: clear IS_OPEN; if shutting down the open loop  *)
(* is not entered and the sequence ends, clearing IN_RECOVERY.             *)
ReopenClearOpen(t) ==
    /\ pc[t] = "clear_open"
    /\ IF ShuttingDown
         THEN /\ flags' = flags \ {"IS_OPEN", "IN_RECOVERY"}
              /\ ReturnFrom(t)
         ELSE /\ flags' = flags \ {"IS_OPEN"}
              /\ Goto(t, "open")
              /\ UNCHANGED recovery_thread
    /\ UNCHANGED <<lock_state, lock_thread, outstanding,
                   handles, open_fails, calls>>

(* Lines 88-102: one round of the open loop: rhandler->open(dev) without  *)
(* the mutex, then under it set IS_OPEN on success and leave the loop on   *)
(* success or shutdown, clearing IN_RECOVERY.  The handler fails at most   *)
(* MaxOpenFails times in a behaviour.                                      *)
ReopenOpen(t) ==
    /\ pc[t] = "open"
    /\ \E ok \in BOOLEAN :
         /\ ~ok => open_fails < MaxOpenFails
         /\ open_fails' = IF ok THEN open_fails ELSE open_fails + 1
         /\ handles' = IF ok THEN HandlerOpen(handles) ELSE handles
         /\ LET opened == IF ok THEN flags \cup {"IS_OPEN"} ELSE flags
            IN IF ok \/ ShuttingDown
                 THEN /\ flags' = opened \ {"IN_RECOVERY"}
                      /\ ReturnFrom(t)
                 ELSE /\ flags' = opened
                      /\ Goto(t, "open")
                      /\ UNCHANGED recovery_thread
    /\ UNCHANGED <<lock_state, lock_thread, outstanding,
                   calls>>

ReopenStep(t) ==
    \/ ReopenDrain(t)
    \/ CancelLockCheck(t, "cancel_lock", "join_lock", "force_unlock")
    \/ JoinLockThread(t, "join_lock", "force_unlock")
    \/ ReopenForceUnlock(t)
    \/ ReopenClose(t)
    \/ ReopenClearOpen(t)
    \/ ReopenOpen(t)

-----------------------------------------------------------------------------
\* tcmu_notify_conn_lost setting IN_RECOVERY whatever pthread_create returns.
NotifyConnLostFlagAlways ==
    /\ ~InRecovery
    /\ calls[RecoveryThr] < MaxCalls
    /\ flags' = flags \cup {"IN_RECOVERY"}
    /\ calls' = [calls EXCEPT ![RecoveryThr] = @ + 1]
    /\ \/ recovery_thread' = "running" /\ Goto(RecoveryThr, "drain")
       \/ UNCHANGED <<recovery_thread, pc>>
    /\ UNCHANGED <<lock_state, lock_thread, outstanding, handles, open_fails>>

(* tcmu_notify_conn_lost: unless already recovering, start the recovery   *)
(* thread and set IN_RECOVERY; if pthread_create fails nothing changes     *)
(* (a stuttering step, not written).  At most MaxCalls threads are started *)
(* in a behaviour.  A new thread overwrites rdev->recovery_thread.          *)
NotifyConnLost ==
    /\ ~InRecovery
    /\ calls[RecoveryThr] < MaxCalls
    /\ calls' = [calls EXCEPT ![RecoveryThr] = @ + 1]
    /\ recovery_thread' = "running"
    /\ flags' = flags \cup {"IN_RECOVERY"}
    /\ Goto(RecoveryThr, "drain")
    /\ UNCHANGED <<lock_state, lock_thread, outstanding, handles, open_fails>>

(* dev_recovery_thread_fn calls tcmu_reset_tpgs, which is not in src/.    *)
(* The comments at lines 43-45, 149-151 and 175-177 say the connection-    *)
(* loss recovery reopens the device with IN_RECOVERY already set, so the   *)
(* thread runs __tcmu_reopen_dev and exits when it returns (ReturnFrom).   *)
RecoveryStep == ReopenStep(RecoveryThr)

(* tcmu_notify_lock_lost: a possibly stale completion drops the lock      *)
(* unless a reacquisition is in progress.                                  *)
NotifyLockLost ==
    /\ lock_state' = IF lock_state # "LOCKING" THEN "UNLOCKED" ELSE lock_state
    /\ UNCHANGED <<flags, recovery_thread, lock_thread, pc, outstanding,
                   handles, open_fails, calls>>

-----------------------------------------------------------------------------
(* SCSI commands, outside src/.  The transport queues a command only when *)
(* tcmu_dev_in_recovery is false (the contract of tcmu_notify_conn_lost,   *)
(* lines 175-177) and the device is not being removed.                     *)
CmdStart ==
    /\ ~InRecovery /\ ~ShuttingDown
    /\ outstanding < MaxCmds
    /\ outstanding' = outstanding + 1
    /\ UNCHANGED <<flags, lock_state, recovery_thread, lock_thread, pc,
                   handles, open_fails, calls>>

(* An implicit ALUA transition of a queued command starts the lock thread *)
(* from UNLOCKED, setting LOCKING.                                         *)
CmdLock ==
    /\ outstanding > 0
    /\ lock_state = "UNLOCKED"
    /\ pc[LockThr] = "idle"
    /\ lock_state' = "LOCKING"
    /\ lock_thread' = "running"
    /\ Goto(LockThr, "lk_acquire")
    /\ UNCHANGED <<flags, recovery_thread, outstanding, handles, open_fails,
                   calls>>

CmdDone ==
    /\ outstanding > 0
    /\ outstanding' = outstanding - 1
    /\ UNCHANGED <<flags, lock_state, recovery_thread, lock_thread, pc,
                   handles, open_fails, calls>>

(* The lock thread, outside src/: it takes the lock or fails, or reopens  *)
(* the device first (the path lines 72-75 keep LOCKING for), then records  *)
(* the outcome in lock_state and exits.                                    *)
LockFinish(from) ==
    /\ pc[LockThr] = from
    /\ lock_state' \in {"LOCKED", "UNLOCKED"}
    /\ lock_thread' = "exited"
    /\ Goto(LockThr, "idle")
    /\ UNCHANGED <<flags, recovery_thread, outstanding, handles, open_fails,
                   calls>>

LockStep ==
    \/ LockFinish("lk_acquire")
    \/ /\ ReopenDev(LockThr, "lk_acquire") /\ UNCHANGED calls
    \/ LockFinish("lk_finish")
    \/ ReopenStep(LockThr)

-----------------------------------------------------------------------------
(* Device removal, outside src/: set SHUTTING_DOWN, let the commands in  *)
(* flight finish (no new ones are queued), tcmu_cancel_recovery,           *)
(* tcmu_cancel_lock_thread, then close the handler if IS_OPEN.            *)
TdStart ==
    /\ pc[Teardown] = "td_idle"
    /\ flags' = flags \cup {"SHUTTING_DOWN"}
    /\ Goto(Teardown, "td_drain")
    /\ UNCHANGED <<lock_state, recovery_thread, lock_thread, outstanding,
                   handles, open_fails, calls>>

TdDrain ==
    /\ pc[Teardown] = "td_drain"
    /\ outstanding = 0
    /\ Goto(Teardown, "td_cancel_recov")
    /\ UNCHANGED <<flags, lock_state, recovery_thread, lock_thread,
                   outstanding, handles, open_fails, calls>>

\* tcmu_cancel_recovery, lines 132-137.
CancelRecoveryCheck ==
    /\ pc[Teardown] = "td_cancel_recov"
    /\ Goto(Teardown, IF InRecovery THEN "td_join_recov" ELSE "td_cancel_lock")
    /\ UNCHANGED <<flags, lock_state, recovery_thread, lock_thread,
                   outstanding, handles, open_fails, calls>>

\* Line 145: pthread_join(rdev->recovery_thread).
CancelRecoveryJoin ==
    /\ pc[Teardown] = "td_join_recov"
    /\ JoinOutcome(Teardown, recovery_thread, "td_poll", FALSE)
    /\ UNCHANGED <<flags, lock_state, lock_thread, outstanding, handles,
                   open_fails, calls>>

(* Lines 153-159: poll, sleeping outside the mutex, until IN_RECOVERY     *)
(* clears.  A round that finds it set changes nothing, so only the round   *)
(* that finds it clear is a step.                                          *)
CancelRecoveryPoll ==
    /\ pc[Teardown] = "td_poll"
    /\ ~InRecovery
    /\ Goto(Teardown, "td_cancel_lock")
    /\ UNCHANGED <<flags, lock_state, recovery_thread, lock_thread,
                   outstanding, handles, open_fails, calls>>

TdClose ==
    /\ pc[Teardown] = "td_close"
    /\ flags' = flags \ {"IS_OPEN"}
    /\ handles' = IF "IS_OPEN" \in flags THEN HandlerClose(handles) ELSE handles
    /\ Goto(Teardown, "td_done")
    /\ UNCHANGED <<lock_state, recovery_thread, lock_thread, outstanding,
                   open_fails, calls>>

TeardownStep ==
    \/ TdDrain
    \/ CancelRecoveryCheck
    \/ CancelRecoveryJoin
    \/ CancelRecoveryPoll
    \/ CancelLockCheck(Teardown, "td_cancel_lock", "td_join_lock", "td_close")
    \/ JoinLockThread(Teardown, "td_join_lock", "td_close")
    \/ TdClose

-----------------------------------------------------------------------------
Init ==
    /\ flags = {"IS_OPEN"}
    /\ lock_state = "UNLOCKED"
    /\ recovery_thread = "none"
    /\ lock_thread = "none"
    /\ pc = [t \in Threads |->
               CASE t = Teardown    -> "td_idle"
                 [] t = RecoveryThr -> "rc_idle"
                 [] OTHER           -> "idle"]
    /\ outstanding = 0
    /\ handles = 1
    /\ open_fails = 0
    /\ calls = [c \in Callers \cup {RecoveryThr} |-> 0]

\* A fault in pthread_join ends the daemon: nothing moves afterwards.
Crash == Crashed /\ UNCHANGED vars

Alive == ~Crashed

Next ==
    \/ \E c \in Callers : Alive /\ CallReopen(c)
    \/ \E c \in Callers : Alive /\ ReopenStep(c)
    \/ Alive /\ LockStep
    \/ Alive /\ TdStart
    \/ Alive /\ TeardownStep
    \/ Alive /\ NotifyConnLost
    \/ Alive /\ RecoveryStep
    \/ Alive /\ NotifyLockLost
    \/ Alive /\ CmdStart
    \/ Alive /\ CmdLock
    \/ Alive /\ CmdDone
    \/ Crash

(* Every thread that can run eventually does: reopen bodies, the lock and *)
(* recovery threads, the removal path once started, and commands complete. *)
(* These are ordinary runnable pthreads.                                   *)
(* Calls, notifications, new commands and the start of removal are         *)
(* external events that need not happen.                                   *)
Fairness ==
    /\ \A c \in Callers : WF_vars(Alive /\ ReopenStep(c))
    /\ WF_vars(Alive /\ LockStep)
    /\ WF_vars(Alive /\ TeardownStep)
    /\ WF_vars(Alive /\ RecoveryStep)
    /\ WF_vars(Alive /\ CmdDone)

Spec == Init /\ [][Next]_vars /\ Fairness

-----------------------------------------------------------------------------
(* tcmu_reopen_dev is single-flight: at most one thread, caller or lock   *)
(* thread, is anywhere in __tcmu_reopen_dev, and while one is,             *)
(* IN_RECOVERY is set, so notify_conn_lost and other reopens stay out.     *)
ReopenSingleFlight ==
    /\ \A s, t \in Reopeners :
         (s # t /\ pc[s] \in ReopenBody) => pc[t] \notin ReopenBody
    /\ (\E t \in Reopeners : pc[t] \in ReopenBody) => InRecovery

(* The backend is closed and reopened only with the device quiet: no SCSI *)
(* command outstanding and no lock thread touching the device, unless it   *)
(* is the lock thread itself that reopens (__tcmu_reopen_dev waits for the *)
(* queue, then cancels the lock thread, before calling rhandler->close).   *)
QuiescentReopen ==
    \A t \in Reopeners :
        pc[t] \in BackendPhase =>
            /\ outstanding = 0
            /\ t # LockThr => pc[LockThr] = "idle"

(* lock_state is LOCKING exactly while the lock thread runs: notify_lock_ *)
(* lost and the forced unlock of a reopen never take LOCKING away from a   *)
(* running lock thread, so tcmu_cancel_lock_thread, which joins only when  *)
(* it reads LOCKING, neither misses a running lock thread nor joins one    *)
(* that has gone.                                                          *)
LockStateTracksLockThread ==
    lock_state = "LOCKING" <=> pc[LockThr] # "idle"

(* The handler's close is only called on an open device and its open only *)
(* on a closed one: the reopen sequence and device removal never close or  *)
(* open the backend twice, whatever order they run in.                     *)
BackendHandlesBalanced == handles \in {0, 1}

(* When device removal is done the backend is closed, no reopen is still  *)
(* closing or opening it, and the lock thread has stopped: the record can  *)
(* be freed (tcmu_cancel_recovery polls IN_RECOVERY for exactly this).     *)
RemovalQuiesces ==
    pc[Teardown] = "td_done" =>
        /\ handles = 0
        /\ pc[LockThr] = "idle"
        /\ \A t \in Reopeners : pc[t] \notin BackendPhase

(* tcmu_cancel_recovery joins rdev->recovery_thread only when it was      *)
(* created and not yet joined, although it joins whenever IN_RECOVERY is   *)
(* set.                                                                    *)
JoinsTargetCreatedThreads ==
    pc[Teardown] = "td_join_recov" => recovery_thread \in {"running", "exited"}

(* tcmu_cancel_lock_thread, called by device removal and by every reopen, *)
(* joins rdev->lock_thread only when it was created and not yet joined,    *)
(* and never from two threads at once: the LOCKING it reads before         *)
(* dropping the mutex still means a live lock thread when it joins, and    *)
(* removal and a reopen never both wait on the same lock thread.           *)
LockJoinTargetsLiveThread ==
    LET joiners == {t \in Threads \ {LockThr} : pc[t] \in {"join_lock", "td_join_lock"}}
    IN  /\ Cardinality(joiners) <= 1
        /\ joiners # {} => lock_thread \in {"running", "exited"}

(* IN_RECOVERY always has an owner that will clear it: a caller, the lock *)
(* thread or the recovery thread inside __tcmu_reopen_dev, which clears it *)
(* on every way out.  A failed pthread_create (line 191) must leave the    *)
(* flag clear, or commands stay refused, nothing ever clears it, and       *)
(* tcmu_cancel_recovery joins a thread that never existed.                 *)
RecoveryFlagOwned ==
    InRecovery => \E t \in Reopeners : pc[t] \in ReopenBody

(* A lock taken before a reopen never outlives it: while any reopener     *)
(* closes and reopens the backend, lock_state is not LOCKED, so the lock   *)
(* must be reacquired on the reopened device (the comment at lines 72-75). *)
(* The lock thread finishing LOCKED, a stale notify_lock_lost and the      *)
(* forced unlock all race with the reopen.                                 *)
LockDroppedByReopen ==
    \A t \in Reopeners : pc[t] \in BackendPhase => lock_state # "LOCKED"

(* Every tcmu_reopen_dev call that starts the sequence returns: the drain *)
(* ends, the lock thread is waited for, and the open loop ends because the *)
(* handler eventually opens or the device shuts down.                      *)
ReopenReturns ==
    \A c \in Callers : (pc[c] = "drain") ~> (pc[c] = "idle" \/ Crashed)

(* The lock thread finishes whatever it does, reopening the device        *)
(* included: its own tcmu_cancel_lock_thread joins the lock thread itself, *)
(* which returns EDEADLK instead of waiting, and LOCKING is not taken from *)
(* it by the forced unlock or a stale notify_lock_lost.                    *)
LockThreadFinishes ==
    (pc[LockThr] = "lk_acquire") ~> (pc[LockThr] = "idle" \/ Crashed)

(* Device removal, once it calls tcmu_cancel_recovery, finishes: the join *)
(* of the recovery thread returns because its reopen ends on SHUTTING_DOWN, *)
(* and the poll of lines 153-159 ends because every reopen in progress,    *)
(* the recovery thread's included, clears IN_RECOVERY.                     *)
TeardownCompletes ==
    (pc[Teardown] = "td_cancel_recov") ~> (pc[Teardown] \in {"td_done", "td_crashed"})

-----------------------------------------------------------------------------
(* Refinement: the reopener past the drain and shutdown check owns the    *)
(* backend; the backend is open when exactly one handler handle is open.   *)
ReopenOwner == {t \in Reopeners : pc[t] \in ReopenBody \ {"drain"}}
BackendView == IF handles = 1 THEN "open" ELSE "closed"

Abstract == INSTANCE ReopenAbstract
              WITH owner <- ReopenOwner, backend <- BackendView,
                   shutting <- ShuttingDown

(* The reopen sequence, the lock thread's reopen and device removal,      *)
(* interleaved as the code lets them, implement ReopenAbstract: one owner  *)
(* closes then reopens the backend, ends closed only on shutdown, and      *)
(* removal closes it only with no reopen in progress.                      *)
ReopenRefinesAbstract == Abstract!Spec
=============================================================================
