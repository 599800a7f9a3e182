----------------------------- MODULE SystemTask -----------------------------
(***************************************************************************)
(* The lease protocol of the system task runner (model/system_task.go and  *)
(* service/system_task.go).                                                *)
(*                                                                         *)
(* Every master node runs one runner.  A runner expires stale leases,      *)
(* schedules new task rows and claims pending ones; a claimed task is      *)
(* executed by a handler in a goroutine of its own, next to a heartbeat    *)
(* that renews the lease.  The nodes share only the database: the task     *)
(* rows, and one lock row for each task type.  Types do not interact, so   *)
(* this module describes one type.  Every statement is a step of its own.  *)
(*                                                                         *)
(* Time is relative: lock.left is locked_until minus the present time,     *)
(* and a lock is stale when it is 0.                                       *)
(***************************************************************************)
EXTENDS Integers

CONSTANTS
    Runners,     \* the runner ids; a restarted node gets a new one
    MaxTasks,    \* bound: how many task rows are ever created
    LegacyTasks, \* pending rows without an active_key that exist at the start
    TTL,         \* systemTaskLockTTL
    Immortal,    \* the runners that never crash
    Timely,      \* the holder of a lease never lets it run out while it works
    ShortClaims, \* no claim is under way when a lease runs out
    MayFail,     \* a database statement may return an error
    NoTask,      \* no task id
    NoRunner     \* no runner id

ASSUME SystemTaskAssumption ==
    /\ MaxTasks \in Nat
    /\ LegacyTasks \in 0 .. MaxTasks
    /\ TTL \in Nat \ {0}
    /\ Immortal \subseteq Runners
    /\ Timely \in BOOLEAN
    /\ ShortClaims \in BOOLEAN
    /\ MayFail \in BOOLEAN
    /\ NoTask \notin Nat
    /\ NoRunner \notin Runners

Tasks == 1 .. MaxTasks   \* row ids, in the order of creation

VARIABLES
    created,   \* the number of task rows
    status,    \* status of a row; "expired" is failed with the lease error
    activeKey, \* the row holds the unique active_key of its type
    lockedBy,  \* locked_by of a row
    lock,      \* the system_task_locks row of the type
    pc,        \* where the loop of a runner is
    claim,     \* the task a runner tries to claim
    seen,      \* the lock row a runner has read
    run,       \* where the handler of a runner for a task is
    starts     \* history: how often a task was handed to a handler

rowVars == <<created, status, activeKey, lockedBy>>
vars == <<created, status, activeKey, lockedBy, lock, pc, claim, seen, run,
          starts>>

Statuses == {"none", "pending", "running", "succeeded", "failed", "expired"}
Terminal == {"succeeded", "failed", "expired"}

NoLock == [task |-> NoTask, by |-> NoRunner, left |-> 0]

LockType ==
    [task: Tasks \cup {NoTask}, by: Runners \cup {NoRunner}, left: 0 .. TTL]

ExpirePC == {"expire", "expireMark", "expireDelete"}
HoldPC == {"displace", "mark", "reread"}
ClaimPC == HoldPC \cup {"acquire", "look", "takeover", "release"}
RunnerPC == {"idle", "schedule", "find", "crashed"} \cup ExpirePC \cup ClaimPC

RunPC == {"off", "running", "canceled", "finishing", "releasing", "over"}

-----------------------------------------------------------------------------
(* The statements on the two tables.                                       *)

Goto(r, label) == pc' = [pc EXCEPT ![r] = label]

(* The pass of a runner ends, and with it its local variables.             *)
EndPass(r, label) ==
    /\ Goto(r, label)
    /\ claim' = [claim EXCEPT ![r] = NoTask]
    /\ seen' = [seen EXCEPT ![r] = NoLock]

Stale == lock # NoLock /\ lock.left = 0

Owns(r, t) == lock.task = t /\ lock.by = r

(* The condition of Renew, UpdateSystemTaskState and FinishSystemTask.     *)
HoldsLease(r, t) == Owns(r, t) /\ lock.left > 0

(* locked_until is computed when the claim begins; a lease that is written *)
(* late is one of TTL followed by ticks.                                   *)
Lease(r, t) == [task |-> t, by |-> r, left |-> TTL]

(* Mutant: the lease of a finished task overwrites its outcome.            *)
MarkSystemTaskLeaseExpired_AnyStatus(t) ==
    /\ status' = [status EXCEPT ![t] = "expired"]
    /\ activeKey' = [activeKey EXCEPT ![t] = FALSE]

MarkSystemTaskLeaseExpired(t) ==
    IF status[t] = "running"
    THEN /\ status' = [status EXCEPT ![t] = "expired"]
         /\ activeKey' = [activeKey EXCEPT ![t] = FALSE]
    ELSE UNCHANGED <<status, activeKey>>

ReleaseSystemTaskLock(t, r) ==
    lock' = IF Owns(r, t) THEN NoLock ELSE lock

(* CreateSystemTask: the unique index on active_key admits one new row.    *)
CanCreate == created < MaxTasks /\ \A t \in Tasks : ~activeKey[t]

CreateSystemTask ==
    /\ CanCreate
    /\ created' = created + 1
    /\ status' = [status EXCEPT ![created + 1] = "pending"]
    /\ activeKey' = [activeKey EXCEPT ![created + 1] = TRUE]
    /\ UNCHANGED lockedBy

-----------------------------------------------------------------------------
Init ==
    /\ created = LegacyTasks
    /\ status = [t \in Tasks |-> IF t <= LegacyTasks THEN "pending" ELSE "none"]
    /\ activeKey = [t \in Tasks |-> FALSE]
    /\ lockedBy = [t \in Tasks |-> NoRunner]
    /\ lock = NoLock
    /\ pc = [r \in Runners |-> "idle"]
    /\ claim = [r \in Runners |-> NoTask]
    /\ seen = [r \in Runners |-> NoLock]
    /\ run = [r \in Runners |-> [t \in Tasks |-> "off"]]
    /\ starts = [t \in Tasks |-> 0]

-----------------------------------------------------------------------------
(* The environment.                                                        *)

(* StartLogCleanupTask and EnqueueSystemTask, on any node: they read the   *)
(* active row first, and again when the insert fails; neither read changes *)
(* anything, so the insert is the whole step.                              *)
EnqueueSystemTask ==
    /\ \A t \in Tasks : status[t] \notin {"pending", "running"}
    /\ CreateSystemTask
    /\ UNCHANGED <<lock, pc, claim, seen, run, starts>>

(* The node of the lease is between taking the lock and the dispatch, or   *)
(* runs a handler with its heartbeat.                                      *)
HolderWorks ==
    \E r \in Runners, t \in Tasks :
        /\ Owns(r, t)
        /\ \/ pc[r] \in HoldPC /\ claim[r] = t
           \/ run[r][t] = "running"

(* Time passes.  The last tick of a lease waits for a holder that works    *)
(* when Timely, and for every claim under way when ShortClaims.            *)
Tick ==
    /\ lock.left > 0
    /\ (Timely /\ lock.left = 1) => ~HolderWorks
    /\ (ShortClaims /\ lock.left = 1) => \A r \in Runners : pc[r] \notin ClaimPC
    /\ lock' = [lock EXCEPT !.left = @ - 1]
    /\ UNCHANGED <<rowVars, pc, claim, seen, run, starts>>

(* A node dies, and its goroutines with it.                                *)
Crash(r) ==
    /\ r \notin Immortal
    /\ pc[r] # "crashed"
    /\ EndPass(r, "crashed")
    /\ run' = [run EXCEPT ![r] =
                 [t \in Tasks |-> IF @[t] = "off" THEN "off" ELSE "over"]]
    /\ UNCHANGED <<rowVars, lock, starts>>

-----------------------------------------------------------------------------
(* The loop of a runner.                                                   *)

(* The ticker or a wakeup starts a pass; the throttles decide whether it   *)
(* begins with the stale locks, with the scheduler, or only claims.        *)
StartPass(r, label) ==
    /\ pc[r] = "idle"
    /\ label \in {"expire", "schedule", "find"}
    /\ Goto(r, label)
    /\ UNCHANGED <<rowVars, lock, claim, seen, run, starts>>

AfterExpire(r) == \E label \in {"schedule", "find"} : EndPass(r, label)

(* ExpireStaleSystemTaskLocks reads the stale locks,                       *)
ReadStaleLocks(r) ==
    /\ pc[r] = "expire"
    /\ \/ /\ Stale
          /\ seen' = [seen EXCEPT ![r] = lock]
          /\ Goto(r, "expireMark")
          /\ UNCHANGED claim
       \/ /\ ~Stale \/ MayFail
          /\ AfterExpire(r)
    /\ UNCHANGED <<rowVars, lock, run, starts>>

(* Mutant: the task of a stale lock is not failed.                         *)
ExpireTask_NoMark(r) ==
    /\ pc[r] = "expireMark"
    /\ Goto(r, "expireDelete")
    /\ UNCHANGED <<rowVars, lock, claim, seen, run, starts>>

(* fails the task of the lock it has read,                                 *)
ExpireTask(r) ==
    /\ pc[r] = "expireMark"
    /\ \/ /\ MarkSystemTaskLeaseExpired(seen[r].task)
          /\ Goto(r, "expireDelete")
          /\ UNCHANGED <<claim, seen>>
       \/ /\ MayFail
          /\ AfterExpire(r)
          /\ UNCHANGED <<status, activeKey>>
    /\ UNCHANGED <<created, lockedBy, lock, run, starts>>

(* and deletes the lock if it is still that lock and still stale.          *)
DeleteStaleLock(r) ==
    /\ pc[r] = "expireDelete"
    /\ \/ lock' = IF Stale /\ Owns(seen[r].by, seen[r].task) THEN NoLock ELSE lock
       \/ MayFail /\ UNCHANGED lock
    /\ AfterExpire(r)
    /\ UNCHANGED <<rowVars, run, starts>>

(* runSystemTaskScheduler: the latest row must be terminal and old enough. *)
(* Its read and the insert make one step: if another row is inserted in    *)
(* between, the insert fails and changes nothing.                          *)
Schedule(r) ==
    /\ pc[r] = "schedule"
    /\ \/ /\ created > 0 => status[created] \in Terminal
          /\ CreateSystemTask
       \/ UNCHANGED rowVars
    /\ Goto(r, "find")
    /\ UNCHANGED <<lock, claim, seen, run, starts>>

(* runSystemTaskClaimPass finds the earliest pending row, and              *)
(* ClaimSystemTask reads it again; a row that was the earliest and is      *)
(* still pending is still the earliest.                                    *)
FindPending(r) ==
    /\ pc[r] = "find"
    /\ \/ \E t \in Tasks :
            /\ status[t] = "pending"
            /\ \A u \in Tasks : status[u] = "pending" => t <= u
            /\ claim' = [claim EXCEPT ![r] = t]
            /\ Goto(r, "acquire")
            /\ UNCHANGED seen
       \/ /\ MayFail \/ \A t \in Tasks : status[t] # "pending"
          /\ EndPass(r, "idle")
    /\ UNCHANGED <<rowVars, lock, run, starts>>

(* acquireSystemTaskLock: insert the lock row,                             *)
InsertLock(r) ==
    /\ pc[r] = "acquire"
    /\ \/ /\ lock = NoLock
          /\ lock' = Lease(r, claim[r])
          /\ Goto(r, "mark")
       \/ /\ lock # NoLock \/ MayFail
          /\ Goto(r, "look")
          /\ UNCHANGED lock
    /\ UNCHANGED <<rowVars, claim, seen, run, starts>>

(* else look at the one that is there,                                     *)
LookAtLock(r) ==
    /\ pc[r] = "look"
    /\ \/ /\ Stale
          /\ seen' = [seen EXCEPT ![r] = lock]
          /\ Goto(r, "takeover")
          /\ UNCHANGED claim
       \/ /\ ~Stale \/ MayFail
          /\ EndPass(r, "idle")
    /\ UNCHANGED <<rowVars, lock, run, starts>>

(* Mutant: the takeover does not check again that the lock is stale.       *)
TakeOverLock_Unchecked(r) ==
    /\ pc[r] = "takeover"
    /\ lock # NoLock
    /\ lock' = Lease(r, claim[r])
    /\ Goto(r, IF seen[r].task # claim[r] THEN "displace" ELSE "mark")
    /\ UNCHANGED <<rowVars, claim, seen, run, starts>>

(* and take it over if it is stale.                                        *)
TakeOverLock(r) ==
    /\ pc[r] = "takeover"
    /\ \/ /\ Stale
          /\ lock' = Lease(r, claim[r])
          /\ Goto(r, IF seen[r].task # claim[r] THEN "displace" ELSE "mark")
          /\ UNCHANGED <<claim, seen>>
       \/ /\ ~Stale \/ MayFail
          /\ EndPass(r, "idle")
          /\ UNCHANGED lock
    /\ UNCHANGED <<rowVars, run, starts>>

(* ClaimSystemTask: fail the task of the lock that was displaced,          *)
ExpireDisplaced(r) ==
    /\ pc[r] = "displace"
    /\ \/ /\ MarkSystemTaskLeaseExpired(seen[r].task)
          /\ Goto(r, "mark")
       \/ /\ MayFail
          /\ Goto(r, "release")
          /\ UNCHANGED <<status, activeKey>>
    /\ UNCHANGED <<created, lockedBy, lock, claim, seen, run, starts>>

(* Mutant: the update to running also takes a row that is running.         *)
MarkRunning_AnyActive(r) ==
    /\ pc[r] = "mark"
    /\ \/ /\ status[claim[r]] \in {"pending", "running"}
          /\ status' = [status EXCEPT ![claim[r]] = "running"]
          /\ lockedBy' = [lockedBy EXCEPT ![claim[r]] = r]
          /\ Goto(r, "reread")
       \/ /\ status[claim[r]] \notin {"pending", "running"}
          /\ Goto(r, "release")
          /\ UNCHANGED <<status, lockedBy>>
    /\ UNCHANGED <<created, activeKey, lock, claim, seen, run, starts>>

(* mark the row running if it is still pending,                            *)
MarkRunning(r) ==
    /\ pc[r] = "mark"
    /\ \/ /\ status[claim[r]] = "pending"
          /\ status' = [status EXCEPT ![claim[r]] = "running"]
          /\ lockedBy' = [lockedBy EXCEPT ![claim[r]] = r]
          /\ Goto(r, "reread")
       \/ /\ status[claim[r]] # "pending" \/ MayFail
          /\ Goto(r, "release")
          /\ UNCHANGED <<status, lockedBy>>
    /\ UNCHANGED <<created, activeKey, lock, claim, seen, run, starts>>

(* else release the lock, whose error is ignored,                          *)
ReleaseClaim(r) ==
    /\ pc[r] = "release"
    /\ ReleaseSystemTaskLock(claim[r], r) \/ (MayFail /\ UNCHANGED lock)
    /\ EndPass(r, "idle")
    /\ UNCHANGED <<rowVars, run, starts>>

(* read the row back, and hand it to the handler of its type.              *)
Dispatch(r) ==
    /\ pc[r] = "reread"
    /\ \/ /\ run' = [run EXCEPT ![r][claim[r]] = "running"]
          /\ starts' = [starts EXCEPT ![claim[r]] = @ + 1]
       \/ MayFail /\ UNCHANGED <<run, starts>>
    /\ EndPass(r, "idle")
    /\ UNCHANGED <<rowVars, lock>>

-----------------------------------------------------------------------------
(* The handler of a claimed task and its heartbeat.                        *)

RunGoto(r, t, label) == run' = [run EXCEPT ![r][t] = label]

(* Mutant: a renewal adds to what is left of the lease.                    *)
Renew_Adds(r, t) ==
    /\ run[r][t] \in {"running", "finishing"}
    /\ HoldsLease(r, t)
    /\ lock' = [lock EXCEPT !.left = @ + TTL]
    /\ UNCHANGED <<rowVars, pc, claim, seen, run, starts>>

(* RenewSystemTaskLock by the heartbeat, which stops when fn has returned. *)
Renew(r, t) ==
    /\ run[r][t] \in {"running", "finishing"}
    /\ HoldsLease(r, t)
    /\ lock' = Lease(r, t)
    /\ UNCHANGED <<rowVars, pc, claim, seen, run, starts>>

(* A renewal that fails cancels the context and ends the heartbeat.        *)
LoseLease(r, t) ==
    /\ run[r][t] \in {"running", "finishing"}
    /\ ~HoldsLease(r, t) \/ MayFail
    /\ RunGoto(r, t, IF run[r][t] = "running" THEN "canceled" ELSE "releasing")
    /\ UNCHANGED <<rowVars, lock, pc, claim, seen, starts>>

(* UpdateSystemTaskState finds the lease lost: the log cleanup gives up    *)
(* and leaves the row as it is.                                            *)
Abandon(r, t) ==
    /\ run[r][t] \in {"running", "canceled"}
    /\ ~(status[t] = "running" /\ lockedBy[t] = r /\ HoldsLease(r, t)) \/ MayFail
    /\ RunGoto(r, t, "over")
    /\ UNCHANGED <<rowVars, lock, pc, claim, seen, starts>>

(* FinishSystemTask writes the outcome while the lease is held; otherwise  *)
(* its error is logged and the handler returns.                            *)
FinishSystemTask(r, t, outcome) ==
    /\ run[r][t] \in {"running", "canceled"}
    /\ \/ /\ status[t] = "running" /\ lockedBy[t] = r /\ HoldsLease(r, t)
          /\ status' = [status EXCEPT ![t] = outcome]
          /\ activeKey' = [activeKey EXCEPT ![t] = FALSE]
          /\ RunGoto(r, t, IF run[r][t] = "running" THEN "finishing" ELSE "releasing")
       \/ /\ ~(status[t] = "running" /\ lockedBy[t] = r /\ HoldsLease(r, t)) \/ MayFail
          /\ RunGoto(r, t, "over")
          /\ UNCHANGED <<status, activeKey>>
    /\ UNCHANGED <<created, lockedBy, lock, pc, claim, seen, starts>>

(* Its last statement releases the lock.                                   *)
ReleaseFinished(r, t) ==
    /\ run[r][t] \in {"finishing", "releasing"}
    /\ ReleaseSystemTaskLock(t, r) \/ (MayFail /\ UNCHANGED lock)
    /\ RunGoto(r, t, "over")
    /\ UNCHANGED <<rowVars, pc, claim, seen, starts>>

-----------------------------------------------------------------------------
RunnerStep(r) ==
    \/ ReadStaleLocks(r) \/ ExpireTask(r) \/ DeleteStaleLock(r)
    \/ Schedule(r) \/ FindPending(r)
    \/ InsertLock(r) \/ LookAtLock(r) \/ TakeOverLock(r)
    \/ ExpireDisplaced(r) \/ MarkRunning(r) \/ ReleaseClaim(r) \/ Dispatch(r)

HandlerStep(r, t) ==
    \/ Abandon(r, t) \/ ReleaseFinished(r, t)
    \/ \E outcome \in {"succeeded", "failed"} : FinishSystemTask(r, t, outcome)

Heartbeat(r, t) == Renew(r, t) \/ LoseLease(r, t)

Next ==
    \/ EnqueueSystemTask \/ Tick
    \/ \E r \in Runners :
         \/ Crash(r) \/ RunnerStep(r)
         \/ \E label \in {"expire", "schedule", "find"} : StartPass(r, label)
         \/ \E t \in Tasks : HandlerStep(r, t) \/ Heartbeat(r, t)

(* A pass that has begun runs to its end, a handler returns, and time      *)
(* passes.  The throttle of the stale lock cleanup looks only at the time  *)
(* of the last one, so no stream of wakeups keeps it from running.         *)
Fairness ==
    /\ SF_vars(Tick)
    /\ \A r \in Runners :
         /\ WF_vars(RunnerStep(r))
         /\ SF_vars(StartPass(r, "expire"))
         /\ \A t \in Tasks : WF_vars(HandlerStep(r, t))

Spec == Init /\ [][Next]_vars /\ Fairness

-----------------------------------------------------------------------------
(* Properties.                                                             *)

(* Every variable has its type.                                            *)
TypeOK ==
    /\ created \in 0 .. MaxTasks
    /\ status \in [Tasks -> Statuses]
    /\ activeKey \in [Tasks -> BOOLEAN]
    /\ lockedBy \in [Tasks -> Runners \cup {NoRunner}]
    /\ lock \in LockType
    /\ pc \in [Runners -> RunnerPC]
    /\ claim \in [Runners -> Tasks \cup {NoTask}]
    /\ seen \in [Runners -> LockType]
    /\ run \in [Runners -> [Tasks -> RunPC]]
    /\ starts \in [Tasks -> Nat]

(* No task row is ever handed to a handler twice, by whichever runners,    *)
(* however leases run out, nodes crash and statements fail: the comment of *)
(* runSystemTaskScheduler says that only one runner executes a task.       *)
ExecutedOnce == \A t \in Tasks : starts[t] <= 1

(* While claims are short and heartbeats in time, at most one handler of a *)
(* type runs with an uncancelled context in the whole cluster: the lease   *)
(* dedups execution (RegisterScheduledSystemTasks).                        *)
OneRunAtATime ==
    Timely =>
        \A r1, r2 \in Runners : \A t1, t2 \in Tasks :
            run[r1][t1] = "running" /\ run[r2][t2] = "running"
                => r1 = r2 /\ t1 = t2

KeepsOutcomes ==
    \A t \in Tasks : status[t] \in Terminal => status'[t] = status[t]

(* The outcome of a task is written once: neither a stale runner, nor an   *)
(* expiry pass that finds the lock of a task whose runner crashed between  *)
(* FinishSystemTask's update and its release, overwrites it.               *)
OutcomeIsFinal == [][KeepsOutcomes]_vars

ExpiresOnlyStale ==
    \A t \in Tasks :
        status'[t] = "expired" /\ status[t] = "running"
            => ~HoldsLease(lockedBy[t], t)

(* A task is failed with "task lease expired" only when its lease is not   *)
(* held: a handler stays alive as long as its heartbeat succeeds (comment  *)
(* of runWithLeaseHeartbeat).                                              *)
LiveRunsNotExpired == [][ExpiresOnlyStale]_vars

(* Every pending task reaches an outcome, whichever runners crash.         *)
EveryTaskEnds ==
    \A t \in Tasks : status[t] = "pending" ~> status[t] \in Terminal

=============================================================================
