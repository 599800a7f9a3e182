------------------------- MODULE SystemTask_proofs -------------------------
(* Theorems about SystemTask, for every set of runners and every bound.    *)
EXTENDS SystemTask, TLAPS

(* The values the lock row takes.                                          *)
LEMMA LockTypes ==
    /\ NoLock \in LockType
    /\ \A r \in Runners, t \in Tasks : Lease(r, t) \in LockType
  BY SystemTaskAssumption DEF NoLock, LockType, Lease, Tasks

(* A runner that claims has a task.                                        *)
ClaimsTask == \A r \in Runners : pc[r] \in ClaimPC => claim[r] \in Tasks

(* Moving one handler keeps the type of run.                               *)
LEMMA RunExcept ==
    ASSUME TypeOK, NEW r \in Runners, NEW t \in Tasks, NEW label \in RunPC
    PROVE  [run EXCEPT ![r][t] = label] \in [Runners -> [Tasks -> RunPC]]
  BY DEF TypeOK

(* The types, by what a step changes together.                             *)
RowTypes ==
    /\ created \in 0 .. MaxTasks
    /\ status \in [Tasks -> Statuses]
    /\ activeKey \in [Tasks -> BOOLEAN]
    /\ lockedBy \in [Tasks -> Runners \cup {NoRunner}]

LoopTypes ==
    /\ pc \in [Runners -> RunnerPC]
    /\ claim \in [Runners -> Tasks \cup {NoTask}]
    /\ seen \in [Runners -> LockType]

RunTypes ==
    /\ run \in [Runners -> [Tasks -> RunPC]]
    /\ starts \in [Tasks -> Nat]

(* The steps that write task rows.                                         *)
LEMMA RowFrame ==
    ASSUME [Next]_vars
    PROVE  \/ UNCHANGED rowVars
           \/ EnqueueSystemTask
           \/ \E r \in Runners : ExpireTask(r)
           \/ \E r \in Runners : Schedule(r)
           \/ \E r \in Runners : ExpireDisplaced(r)
           \/ \E r \in Runners : MarkRunning(r)
           \/ \E r \in Runners : \E t \in Tasks :
                \E outcome \in {"succeeded", "failed"} :
                    FinishSystemTask(r, t, outcome)
  BY DEF vars, rowVars, Next, RunnerStep, HandlerStep, Heartbeat, Tick,
    Crash, StartPass, ReadStaleLocks, DeleteStaleLock, FindPending,
    InsertLock, LookAtLock, TakeOverLock, ReleaseClaim, Dispatch, Renew,
    LoseLease, Abandon, ReleaseFinished

(* The steps that write the lock row.                                      *)
LEMMA LockFrame ==
    ASSUME [Next]_vars
    PROVE  \/ UNCHANGED lock
           \/ Tick
           \/ \E r \in Runners : DeleteStaleLock(r)
           \/ \E r \in Runners : InsertLock(r)
           \/ \E r \in Runners : TakeOverLock(r)
           \/ \E r \in Runners : ReleaseClaim(r)
           \/ \E r \in Runners : \E t \in Tasks : Renew(r, t)
           \/ \E r \in Runners : \E t \in Tasks : ReleaseFinished(r, t)
  BY DEF vars, rowVars, Next, RunnerStep, HandlerStep, Heartbeat,
    EnqueueSystemTask, Crash, StartPass, ReadStaleLocks, ExpireTask,
    Schedule, FindPending, LookAtLock, ExpireDisplaced, MarkRunning,
    Dispatch, LoseLease, Abandon, FinishSystemTask

(* The steps of handlers.                                                  *)
LEMMA RunFrame ==
    ASSUME [Next]_vars
    PROVE  \/ UNCHANGED <<run, starts>>
           \/ \E r \in Runners : Crash(r)
           \/ \E r \in Runners : Dispatch(r)
           \/ \E r \in Runners : \E t \in Tasks : LoseLease(r, t)
           \/ \E r \in Runners : \E t \in Tasks : Abandon(r, t)
           \/ \E r \in Runners : \E t \in Tasks :
                \E outcome \in {"succeeded", "failed"} :
                    FinishSystemTask(r, t, outcome)
           \/ \E r \in Runners : \E t \in Tasks : ReleaseFinished(r, t)
  BY DEF vars, rowVars, Next, RunnerStep, HandlerStep, Heartbeat,
    EnqueueSystemTask, Tick, StartPass, ReadStaleLocks, ExpireTask,
    DeleteStaleLock, Schedule, FindPending, InsertLock, LookAtLock,
    TakeOverLock, ExpireDisplaced, MarkRunning, ReleaseClaim, Renew

(* The steps of runner loops.                                              *)
LEMMA LoopFrame ==
    ASSUME [Next]_vars
    PROVE  \/ UNCHANGED <<pc, claim, seen>>
           \/ \E r \in Runners : Crash(r)
           \/ \E r \in Runners : \E label \in {"expire", "schedule", "find"} :
                StartPass(r, label)
           \/ \E r \in Runners : ReadStaleLocks(r)
           \/ \E r \in Runners : ExpireTask(r)
           \/ \E r \in Runners : DeleteStaleLock(r)
           \/ \E r \in Runners : Schedule(r)
           \/ \E r \in Runners : FindPending(r)
           \/ \E r \in Runners : InsertLock(r)
           \/ \E r \in Runners : LookAtLock(r)
           \/ \E r \in Runners : TakeOverLock(r)
           \/ \E r \in Runners : ExpireDisplaced(r)
           \/ \E r \in Runners : MarkRunning(r)
           \/ \E r \in Runners : ReleaseClaim(r)
           \/ \E r \in Runners : Dispatch(r)
  BY DEF vars, rowVars, Next, RunnerStep, HandlerStep, Heartbeat,
    EnqueueSystemTask, Tick, Renew, LoseLease, Abandon, FinishSystemTask,
    ReleaseFinished

(* Types of the task rows.                                                 *)
LEMMA RowTypeStep ==
    ASSUME TypeOK, ClaimsTask, [Next]_vars
    PROVE  RowTypes'
  <1>0. CASE UNCHANGED rowVars
    BY <1>0 DEF TypeOK, RowTypes, rowVars
  <1>1. CASE EnqueueSystemTask
    BY <1>1, SystemTaskAssumption DEF EnqueueSystemTask, CreateSystemTask,
      CanCreate, TypeOK, RowTypes, Tasks, Statuses
  <1>2. ASSUME NEW r \in Runners, ExpireTask(r) PROVE RowTypes'
    BY <1>2, SystemTaskAssumption DEF ExpireTask,
      MarkSystemTaskLeaseExpired, TypeOK, RowTypes, Tasks, Statuses
  <1>3. ASSUME NEW r \in Runners, Schedule(r) PROVE RowTypes'
    <2>1. created' \in 0 .. MaxTasks
      BY <1>3, SystemTaskAssumption DEF Schedule, CreateSystemTask,
        CanCreate, TypeOK, rowVars
    <2>2. status' \in [Tasks -> Statuses]
      BY <1>3 DEF Schedule, CreateSystemTask, TypeOK, rowVars, Statuses
    <2>3. activeKey' \in [Tasks -> BOOLEAN]
      BY <1>3 DEF Schedule, CreateSystemTask, TypeOK, rowVars
    <2>4. lockedBy' \in [Tasks -> Runners \cup {NoRunner}]
      BY <1>3 DEF Schedule, CreateSystemTask, TypeOK, rowVars
    <2>q. QED
      BY <2>1, <2>2, <2>3, <2>4 DEF RowTypes
  <1>4. ASSUME NEW r \in Runners, ExpireDisplaced(r) PROVE RowTypes'
    BY <1>4, SystemTaskAssumption DEF ExpireDisplaced,
      MarkSystemTaskLeaseExpired, TypeOK, RowTypes, Tasks, Statuses
  <1>5. ASSUME NEW r \in Runners, MarkRunning(r) PROVE RowTypes'
    <2>1. created' \in 0 .. MaxTasks
      BY <1>5 DEF MarkRunning, TypeOK
    <2>2. status' \in [Tasks -> Statuses]
      <3>1. status' = [status EXCEPT ![claim[r]] = "running"] \/ status' = status
        BY <1>5 DEF MarkRunning
      <3>q. QED
        BY <3>1 DEF TypeOK, Statuses
    <2>3. activeKey' \in [Tasks -> BOOLEAN]
      BY <1>5 DEF MarkRunning, TypeOK
    <2>4. lockedBy' \in [Tasks -> Runners \cup {NoRunner}]
      BY <1>5 DEF MarkRunning, TypeOK
    <2>q. QED
      BY <2>1, <2>2, <2>3, <2>4 DEF RowTypes
  <1>6. ASSUME NEW r \in Runners, NEW t \in Tasks,
               NEW outcome \in {"succeeded", "failed"},
               FinishSystemTask(r, t, outcome)
        PROVE  RowTypes'
    <2>1. created' \in 0 .. MaxTasks
      BY <1>6 DEF FinishSystemTask, TypeOK
    <2>2. status' \in [Tasks -> Statuses]
      BY <1>6 DEF FinishSystemTask, TypeOK, Statuses
    <2>3. activeKey' \in [Tasks -> BOOLEAN]
      BY <1>6 DEF FinishSystemTask, TypeOK
    <2>4. lockedBy' \in [Tasks -> Runners \cup {NoRunner}]
      BY <1>6 DEF FinishSystemTask, TypeOK
    <2>q. QED
      BY <2>1, <2>2, <2>3, <2>4 DEF RowTypes
  <1>q. QED
    BY <1>0, <1>1, <1>2, <1>3, <1>4, <1>5, <1>6, RowFrame

(* Type of the lock row.                                                   *)
LEMMA LockTypeStep ==
    ASSUME TypeOK, ClaimsTask, [Next]_vars
    PROVE  lock' \in LockType
  <1>0. CASE UNCHANGED lock
    BY <1>0 DEF TypeOK
  <1>1. CASE Tick
    <2>1. lock.left \in 0 .. TTL /\ lock.left > 0
      BY <1>1 DEF Tick, TypeOK, LockType
    <2>2. lock.left - 1 \in 0 .. TTL
      BY <2>1, SystemTaskAssumption
    <2>3. lock' = [lock EXCEPT !.left = lock.left - 1]
      BY <1>1 DEF Tick
    <2>q. QED
      BY <2>2, <2>3 DEF TypeOK, LockType
  <1>2. ASSUME NEW r \in Runners, DeleteStaleLock(r) PROVE lock' \in LockType
    BY <1>2, LockTypes DEF DeleteStaleLock, TypeOK
  <1>3. ASSUME NEW r \in Runners, InsertLock(r) PROVE lock' \in LockType
    BY <1>3, LockTypes DEF InsertLock, TypeOK, ClaimsTask, ClaimPC, HoldPC
  <1>4. ASSUME NEW r \in Runners, TakeOverLock(r) PROVE lock' \in LockType
    BY <1>4, LockTypes DEF TakeOverLock, TypeOK, ClaimsTask, ClaimPC,
      HoldPC
  <1>5. ASSUME NEW r \in Runners, ReleaseClaim(r) PROVE lock' \in LockType
    BY <1>5, LockTypes DEF ReleaseClaim, ReleaseSystemTaskLock, TypeOK,
      ClaimsTask, ClaimPC, HoldPC
  <1>6. ASSUME NEW r \in Runners, NEW t \in Tasks, Renew(r, t)
        PROVE  lock' \in LockType
    BY <1>6, LockTypes DEF Renew, TypeOK
  <1>7. ASSUME NEW r \in Runners, NEW t \in Tasks, ReleaseFinished(r, t)
        PROVE  lock' \in LockType
    BY <1>7, LockTypes DEF ReleaseFinished, ReleaseSystemTaskLock, TypeOK
  <1>q. QED
    BY <1>0, <1>1, <1>2, <1>3, <1>4, <1>5, <1>6, <1>7, LockFrame

(* Types of the runner loops.                                              *)
LEMMA LoopTypeStep ==
    ASSUME TypeOK, ClaimsTask, [Next]_vars
    PROVE  LoopTypes' /\ ClaimsTask'
  <1>0. CASE UNCHANGED <<pc, claim, seen>>
    BY <1>0 DEF TypeOK, LoopTypes, ClaimsTask
  <1>1. ASSUME NEW r \in Runners, Crash(r) PROVE LoopTypes' /\ ClaimsTask'
    BY <1>1, LockTypes DEF Crash, EndPass, Goto, TypeOK, ClaimsTask,
      LoopTypes, RunnerPC, ExpirePC, ClaimPC, HoldPC
  <1>2. ASSUME NEW r \in Runners,
               NEW label \in {"expire", "schedule", "find"},
               StartPass(r, label)
        PROVE  LoopTypes' /\ ClaimsTask'
    BY <1>2, LockTypes DEF StartPass, Goto, TypeOK, ClaimsTask, LoopTypes,
      RunnerPC, ExpirePC, ClaimPC, HoldPC
  <1>3. ASSUME NEW r \in Runners, ReadStaleLocks(r)
        PROVE  LoopTypes' /\ ClaimsTask'
    <2>1. pc' \in [Runners -> RunnerPC]
      BY <1>3 DEF ReadStaleLocks, AfterExpire, EndPass, Goto, TypeOK,
        RunnerPC, ExpirePC, ClaimPC, HoldPC
    <2>2. claim' \in [Runners -> Tasks \cup {NoTask}]
      BY <1>3 DEF ReadStaleLocks, AfterExpire, EndPass, TypeOK
    <2>3. seen' \in [Runners -> LockType]
      BY <1>3, LockTypes DEF ReadStaleLocks, AfterExpire, EndPass, TypeOK
    <2>4. ClaimsTask'
      BY <1>3 DEF ReadStaleLocks, AfterExpire, EndPass, Goto, TypeOK,
        ClaimsTask, ClaimPC, HoldPC
    <2>q. QED
      BY <2>1, <2>2, <2>3, <2>4 DEF LoopTypes
  <1>4. ASSUME NEW r \in Runners, ExpireTask(r) PROVE LoopTypes' /\ ClaimsTask'
    <2>1. pc' \in [Runners -> RunnerPC]
      BY <1>4 DEF ExpireTask, AfterExpire, EndPass, Goto, TypeOK,
        RunnerPC, ExpirePC, ClaimPC, HoldPC
    <2>2. claim' \in [Runners -> Tasks \cup {NoTask}]
      BY <1>4 DEF ExpireTask, AfterExpire, EndPass, TypeOK
    <2>3. seen' \in [Runners -> LockType]
      BY <1>4, LockTypes DEF ExpireTask, AfterExpire, EndPass, TypeOK
    <2>4. ClaimsTask'
      BY <1>4 DEF ExpireTask, AfterExpire, EndPass, Goto, TypeOK,
        ClaimsTask, ClaimPC, HoldPC
    <2>q. QED
      BY <2>1, <2>2, <2>3, <2>4 DEF LoopTypes
  <1>5. ASSUME NEW r \in Runners, DeleteStaleLock(r)
        PROVE  LoopTypes' /\ ClaimsTask'
    BY <1>5, LockTypes DEF DeleteStaleLock, AfterExpire, EndPass, Goto,
      TypeOK, ClaimsTask, LoopTypes, RunnerPC, ExpirePC, ClaimPC, HoldPC
  <1>6. ASSUME NEW r \in Runners, Schedule(r) PROVE LoopTypes' /\ ClaimsTask'
    BY <1>6, LockTypes DEF Schedule, Goto, TypeOK, ClaimsTask, LoopTypes,
      RunnerPC, ExpirePC, ClaimPC, HoldPC
  <1>7. ASSUME NEW r \in Runners, FindPending(r)
        PROVE  LoopTypes' /\ ClaimsTask'
    <2>1. pc' \in [Runners -> RunnerPC]
      BY <1>7 DEF FindPending, EndPass, Goto, TypeOK, RunnerPC, ExpirePC,
        ClaimPC, HoldPC
    <2>2. claim' \in [Runners -> Tasks \cup {NoTask}]
      BY <1>7 DEF FindPending, EndPass, TypeOK
    <2>3. seen' \in [Runners -> LockType]
      BY <1>7, LockTypes DEF FindPending, EndPass, TypeOK
    <2>4. ClaimsTask'
      BY <1>7 DEF FindPending, EndPass, Goto, TypeOK, ClaimsTask,
        ClaimPC, HoldPC
    <2>q. QED
      BY <2>1, <2>2, <2>3, <2>4 DEF LoopTypes
  <1>8. ASSUME NEW r \in Runners, InsertLock(r) PROVE LoopTypes' /\ ClaimsTask'
    BY <1>8, LockTypes DEF InsertLock, Goto, TypeOK, ClaimsTask, LoopTypes,
      RunnerPC, ExpirePC, ClaimPC, HoldPC
  <1>9. ASSUME NEW r \in Runners, LookAtLock(r) PROVE LoopTypes' /\ ClaimsTask'
    <2>1. pc' \in [Runners -> RunnerPC]
      BY <1>9 DEF LookAtLock, EndPass, Goto, TypeOK, RunnerPC, ExpirePC,
        ClaimPC, HoldPC
    <2>2. claim' \in [Runners -> Tasks \cup {NoTask}]
      BY <1>9 DEF LookAtLock, EndPass, TypeOK
    <2>3. seen' \in [Runners -> LockType]
      BY <1>9, LockTypes DEF LookAtLock, EndPass, TypeOK
    <2>4. ClaimsTask'
      BY <1>9 DEF LookAtLock, EndPass, Goto, TypeOK, ClaimsTask, ClaimPC,
        HoldPC
    <2>q. QED
      BY <2>1, <2>2, <2>3, <2>4 DEF LoopTypes
  <1>10. ASSUME NEW r \in Runners, TakeOverLock(r)
        PROVE  LoopTypes' /\ ClaimsTask'
    <2>1. pc' \in [Runners -> RunnerPC]
      BY <1>10 DEF TakeOverLock, EndPass, Goto, TypeOK, RunnerPC,
        ExpirePC, ClaimPC, HoldPC
    <2>2. claim' \in [Runners -> Tasks \cup {NoTask}]
      BY <1>10 DEF TakeOverLock, EndPass, TypeOK
    <2>3. seen' \in [Runners -> LockType]
      BY <1>10, LockTypes DEF TakeOverLock, EndPass, TypeOK
    <2>4. ClaimsTask'
      BY <1>10 DEF TakeOverLock, EndPass, Goto, TypeOK, ClaimsTask,
        ClaimPC, HoldPC
    <2>q. QED
      BY <2>1, <2>2, <2>3, <2>4 DEF LoopTypes
  <1>11. ASSUME NEW r \in Runners, ExpireDisplaced(r)
        PROVE  LoopTypes' /\ ClaimsTask'
    BY <1>11, LockTypes DEF ExpireDisplaced, Goto, TypeOK, ClaimsTask,
      LoopTypes, RunnerPC, ExpirePC, ClaimPC, HoldPC
  <1>12. ASSUME NEW r \in Runners, MarkRunning(r)
        PROVE  LoopTypes' /\ ClaimsTask'
    BY <1>12, LockTypes DEF MarkRunning, Goto, TypeOK, ClaimsTask,
      LoopTypes, RunnerPC, ExpirePC, ClaimPC, HoldPC
  <1>13. ASSUME NEW r \in Runners, ReleaseClaim(r)
        PROVE  LoopTypes' /\ ClaimsTask'
    BY <1>13, LockTypes DEF ReleaseClaim, EndPass, Goto, TypeOK,
      ClaimsTask, LoopTypes, RunnerPC, ExpirePC, ClaimPC, HoldPC
  <1>14. ASSUME NEW r \in Runners, Dispatch(r) PROVE LoopTypes' /\ ClaimsTask'
    BY <1>14, LockTypes DEF Dispatch, EndPass, Goto, TypeOK, ClaimsTask,
      LoopTypes, RunnerPC, ExpirePC, ClaimPC, HoldPC
  <1>q. QED
    BY <1>0, <1>1, <1>2, <1>3, <1>4, <1>5, <1>6, <1>7, <1>8, <1>9, <1>10,
      <1>11, <1>12, <1>13, <1>14, LoopFrame

(* Types of the handlers.                                                  *)
LEMMA RunTypeStep ==
    ASSUME TypeOK, ClaimsTask, [Next]_vars
    PROVE  RunTypes'
  <1>0. CASE UNCHANGED <<run, starts>>
    BY <1>0 DEF TypeOK, RunTypes
  <1>1. ASSUME NEW r \in Runners, Crash(r) PROVE RunTypes'
    BY <1>1 DEF Crash, TypeOK, RunTypes, RunPC
  <1>2. ASSUME NEW r \in Runners, Dispatch(r) PROVE RunTypes'
    <2>1. run' \in [Runners -> [Tasks -> RunPC]]
      <3>1. claim[r] \in Tasks
        BY <1>2 DEF Dispatch, ClaimsTask, ClaimPC, HoldPC
      <3>2. [run EXCEPT ![r][claim[r]] = "running"]
              \in [Runners -> [Tasks -> RunPC]]
        BY <3>1, RunExcept DEF RunPC
      <3>3. run' = [run EXCEPT ![r][claim[r]] = "running"] \/ run' = run
        BY <1>2 DEF Dispatch
      <3>q. QED
        BY <3>2, <3>3 DEF TypeOK
    <2>2. starts' \in [Tasks -> Nat]
      BY <1>2 DEF Dispatch, TypeOK, ClaimsTask, ClaimPC, HoldPC
    <2>q. QED
      BY <2>1, <2>2 DEF RunTypes
  <1>3. ASSUME NEW r \in Runners, NEW t \in Tasks, LoseLease(r, t)
        PROVE  RunTypes'
    BY <1>3 DEF LoseLease, RunGoto, TypeOK, RunTypes, RunPC
  <1>4. ASSUME NEW r \in Runners, NEW t \in Tasks, Abandon(r, t)
        PROVE  RunTypes'
    BY <1>4 DEF Abandon, RunGoto, TypeOK, RunTypes, RunPC
  <1>5. ASSUME NEW r \in Runners, NEW t \in Tasks,
               NEW outcome \in {"succeeded", "failed"},
               FinishSystemTask(r, t, outcome)
        PROVE  RunTypes'
    <2>1. run' \in [Runners -> [Tasks -> RunPC]]
      <3>1. PICK label \in RunPC : run' = [run EXCEPT ![r][t] = label]
        BY <1>5 DEF FinishSystemTask, RunGoto, RunPC
      <3>q. QED
        BY <3>1, RunExcept
    <2>2. starts' \in [Tasks -> Nat]
      BY <1>5 DEF FinishSystemTask, TypeOK
    <2>q. QED
      BY <2>1, <2>2 DEF RunTypes
  <1>6. ASSUME NEW r \in Runners, NEW t \in Tasks, ReleaseFinished(r, t)
        PROVE  RunTypes'
    BY <1>6 DEF ReleaseFinished, RunGoto, TypeOK, RunTypes, RunPC
  <1>q. QED
    BY <1>0, <1>1, <1>2, <1>3, <1>4, <1>5, <1>6, RunFrame

(* Rows are created in the order of their ids.                             *)
RowsInOrder == \A t \in Tasks : t > created => status[t] = "none"

(* A task that no runner has marked running was never handed out.          *)
Unstarted ==
    \A t \in Tasks : status[t] \in {"none", "pending"} =>
        /\ starts[t] = 0
        /\ \A r \in Runners : run[r][t] = "off"
        /\ \A r \in Runners : pc[r] = "reread" => claim[r] # t

(* A runner claims no task that it already runs.                           *)
ClaimsIdle == \A r \in Runners : pc[r] \in ClaimPC => run[r][claim[r]] = "off"

(* A task that is about to be handed out is handed out for the first time, *)
(* and by one runner.                                                      *)
FirstDispatch ==
    /\ \A r \in Runners : pc[r] = "reread" => starts[claim[r]] = 0
    /\ \A r, q \in Runners :
         pc[r] = "reread" /\ pc[q] = "reread" /\ claim[r] = claim[q] => r = q

(* A holder that works has its lease, if it is always in time.             *)
LeaseHeld ==
    Timely =>
        \A r \in Runners, t \in Tasks :
            (pc[r] \in HoldPC /\ claim[r] = t) \/ run[r][t] = "running"
                => HoldsLease(r, t)

Inv == TypeOK /\ ClaimsTask /\ RowsInOrder /\ Unstarted /\ ClaimsIdle
       /\ FirstDispatch /\ ExecutedOnce /\ LeaseHeld

(* The steps of a loop before it owns the lock.                            *)
QuietStep(r) ==
    \/ ReadStaleLocks(r) \/ ExpireTask(r) \/ FindPending(r) \/ LookAtLock(r)

(* They leave the runners that hold the lock where they are.               *)
LEMMA QuietLoop ==
    ASSUME TypeOK, NEW r \in Runners, QuietStep(r), NEW q \in Runners,
           pc'[q] \in HoldPC
    PROVE  pc'[q] = pc[q] /\ claim'[q] = claim[q]
  <1>1. CASE ReadStaleLocks(r)
    BY <1>1 DEF ReadStaleLocks, AfterExpire, EndPass, Goto, TypeOK, HoldPC
  <1>2. CASE ExpireTask(r)
    BY <1>2 DEF ExpireTask, AfterExpire, EndPass, Goto, TypeOK, HoldPC
  <1>3. CASE FindPending(r)
    BY <1>3 DEF FindPending, EndPass, Goto, TypeOK, HoldPC
  <1>4. CASE LookAtLock(r)
    BY <1>4 DEF LookAtLock, EndPass, Goto, TypeOK, HoldPC
  <1>q. QED
    BY <1>1, <1>2, <1>3, <1>4 DEF QuietStep

(* New rows get the next id.                                               *)
LEMMA RowsStep ==
    ASSUME Inv, [Next]_vars
    PROVE  RowsInOrder'
  <1>0. CASE UNCHANGED rowVars
    BY <1>0 DEF Inv, RowsInOrder, rowVars
  <1>1. CASE EnqueueSystemTask
    BY <1>1, SystemTaskAssumption DEF EnqueueSystemTask, CreateSystemTask,
      CanCreate, Inv, TypeOK, RowsInOrder, Tasks
  <1>2. ASSUME NEW r \in Runners, ExpireTask(r) PROVE RowsInOrder'
    BY <1>2, SystemTaskAssumption DEF ExpireTask,
      MarkSystemTaskLeaseExpired, Inv, TypeOK, RowsInOrder, Tasks
  <1>3. ASSUME NEW r \in Runners, Schedule(r) PROVE RowsInOrder'
    BY <1>3, SystemTaskAssumption DEF Schedule, CreateSystemTask,
      CanCreate, Inv, TypeOK, RowsInOrder, rowVars, Tasks
  <1>4. ASSUME NEW r \in Runners, ExpireDisplaced(r) PROVE RowsInOrder'
    BY <1>4, SystemTaskAssumption DEF ExpireDisplaced,
      MarkSystemTaskLeaseExpired, Inv, TypeOK, RowsInOrder, Tasks
  <1>5. ASSUME NEW r \in Runners, MarkRunning(r) PROVE RowsInOrder'
    BY <1>5, SystemTaskAssumption DEF MarkRunning, Inv, TypeOK,
      RowsInOrder, ClaimsTask, ClaimPC, HoldPC, Tasks
  <1>6. ASSUME NEW r \in Runners, NEW t \in Tasks,
               NEW outcome \in {"succeeded", "failed"},
               FinishSystemTask(r, t, outcome)
        PROVE  RowsInOrder'
    BY <1>6, SystemTaskAssumption DEF FinishSystemTask, Inv, TypeOK,
      RowsInOrder, Tasks
  <1>q. QED
    BY <1>0, <1>1, <1>2, <1>3, <1>4, <1>5, <1>6, RowFrame

(* Only a claim that marks a pending row running leads to a dispatch.      *)
LEMMA UnstartedStep ==
    ASSUME Inv, [Next]_vars
    PROVE  Unstarted'
  <1>0. CASE UNCHANGED vars
    BY <1>0 DEF vars, Inv, Unstarted
  <1>1. CASE EnqueueSystemTask
    BY <1>1, SystemTaskAssumption DEF EnqueueSystemTask, CreateSystemTask,
      CanCreate, Inv, TypeOK, Unstarted, RowsInOrder
  <1>2. CASE Tick
    BY <1>2, SystemTaskAssumption DEF Tick, Inv, TypeOK, Unstarted,
      RowsInOrder, rowVars
  <1>3. ASSUME NEW r \in Runners, Crash(r) PROVE Unstarted'
    BY <1>3, SystemTaskAssumption DEF Crash, EndPass, Goto, Inv, TypeOK,
      Unstarted, RowsInOrder, rowVars
  <1>4. ASSUME NEW r \in Runners,
               NEW label \in {"expire", "schedule", "find"},
               StartPass(r, label)
        PROVE  Unstarted'
    BY <1>4, SystemTaskAssumption DEF StartPass, Goto, Inv, TypeOK,
      Unstarted, RowsInOrder, rowVars
  <1>5. ASSUME NEW r \in Runners, ReadStaleLocks(r) PROVE Unstarted'
    BY <1>5, SystemTaskAssumption DEF ReadStaleLocks, AfterExpire, EndPass,
      Goto, Inv, TypeOK, Unstarted, RowsInOrder, rowVars
  <1>6. ASSUME NEW r \in Runners, ExpireTask(r) PROVE Unstarted'
    <2>1. \A q \in Runners :
              pc'[q] = "reread" => pc[q] = "reread" /\ claim'[q] = claim[q]
      BY <1>6, QuietLoop DEF Inv, QuietStep, HoldPC
    <2>2. \A t \in Tasks :
              status'[t] \in {"none", "pending"} => status'[t] = status[t]
      BY <1>6 DEF ExpireTask, MarkSystemTaskLeaseExpired, rowVars, Inv, TypeOK
    <2>3. run' = run /\ starts' = starts
      BY <1>6 DEF ExpireTask
    <2>q. QED
      BY <2>1, <2>2, <2>3 DEF Inv, Unstarted
  <1>7. ASSUME NEW r \in Runners, DeleteStaleLock(r) PROVE Unstarted'
    BY <1>7, SystemTaskAssumption DEF DeleteStaleLock, AfterExpire,
      EndPass, Goto, Inv, TypeOK, Unstarted, RowsInOrder, rowVars
  <1>8. ASSUME NEW r \in Runners, Schedule(r) PROVE Unstarted'
    BY <1>8, SystemTaskAssumption DEF Schedule, CreateSystemTask,
      CanCreate, Goto, Inv, TypeOK, Unstarted, RowsInOrder, rowVars
  <1>9. ASSUME NEW r \in Runners, FindPending(r) PROVE Unstarted'
    <2>1. \A q \in Runners :
              pc'[q] = "reread" => pc[q] = "reread" /\ claim'[q] = claim[q]
      BY <1>9, QuietLoop DEF Inv, QuietStep, HoldPC
    <2>2. \A t \in Tasks :
              status'[t] \in {"none", "pending"} => status'[t] = status[t]
      BY <1>9 DEF FindPending, rowVars, Inv, TypeOK
    <2>3. run' = run /\ starts' = starts
      BY <1>9 DEF FindPending
    <2>q. QED
      BY <2>1, <2>2, <2>3 DEF Inv, Unstarted
  <1>10. ASSUME NEW r \in Runners, InsertLock(r) PROVE Unstarted'
    BY <1>10, SystemTaskAssumption DEF InsertLock, Goto, Inv, TypeOK,
      Unstarted, RowsInOrder, ClaimsTask, ClaimPC, HoldPC, rowVars
  <1>11. ASSUME NEW r \in Runners, LookAtLock(r) PROVE Unstarted'
    BY <1>11, SystemTaskAssumption DEF LookAtLock, EndPass, Goto, Inv,
      TypeOK, Unstarted, RowsInOrder, rowVars
  <1>12. ASSUME NEW r \in Runners, TakeOverLock(r) PROVE Unstarted'
    BY <1>12, SystemTaskAssumption DEF TakeOverLock, EndPass, Goto, Inv,
      TypeOK, Unstarted, RowsInOrder, ClaimsTask, ClaimPC, HoldPC, rowVars
  <1>13. ASSUME NEW r \in Runners, ExpireDisplaced(r) PROVE Unstarted'
    BY <1>13, SystemTaskAssumption DEF ExpireDisplaced,
      MarkSystemTaskLeaseExpired, Goto, Inv, TypeOK, Unstarted, RowsInOrder
  <1>14. ASSUME NEW r \in Runners, MarkRunning(r) PROVE Unstarted'
    BY <1>14, SystemTaskAssumption DEF MarkRunning, Goto, Inv, TypeOK,
      Unstarted, RowsInOrder, ClaimsTask, ClaimPC, HoldPC
  <1>15. ASSUME NEW r \in Runners, ReleaseClaim(r) PROVE Unstarted'
    BY <1>15, SystemTaskAssumption DEF ReleaseClaim, EndPass, Goto, Inv,
      TypeOK, Unstarted, RowsInOrder, ClaimsTask, ClaimPC, HoldPC, rowVars
  <1>16. ASSUME NEW r \in Runners, Dispatch(r) PROVE Unstarted'
    BY <1>16, SystemTaskAssumption DEF Dispatch, EndPass, Goto, Inv,
      TypeOK, Unstarted, RowsInOrder, ClaimsTask, ClaimPC, HoldPC, rowVars
  <1>17. ASSUME NEW r \in Runners, NEW t \in Tasks, Renew(r, t)
        PROVE  Unstarted'
    BY <1>17, SystemTaskAssumption DEF Renew, Inv, TypeOK, Unstarted,
      RowsInOrder, rowVars
  <1>18. ASSUME NEW r \in Runners, NEW t \in Tasks, LoseLease(r, t)
        PROVE  Unstarted'
    BY <1>18, SystemTaskAssumption DEF LoseLease, RunGoto, Inv, TypeOK,
      Unstarted, RowsInOrder, rowVars
  <1>19. ASSUME NEW r \in Runners, NEW t \in Tasks, Abandon(r, t)
        PROVE  Unstarted'
    BY <1>19, SystemTaskAssumption DEF Abandon, RunGoto, Inv, TypeOK,
      Unstarted, RowsInOrder, rowVars
  <1>20. ASSUME NEW r \in Runners, NEW t \in Tasks,
               NEW outcome \in {"succeeded", "failed"},
               FinishSystemTask(r, t, outcome)
        PROVE  Unstarted'
    <2>1. PICK label \in RunPC : run' = [run EXCEPT ![r][t] = label]
      BY <1>20 DEF FinishSystemTask, RunGoto, RunPC
    <2>2. run[r][t] # "off"
      BY <1>20 DEF FinishSystemTask
    <2>3. \A u \in Tasks :
              status'[u] \in {"none", "pending"} => status'[u] = status[u]
      BY <1>20 DEF FinishSystemTask, Inv, TypeOK
    <2>4. pc' = pc /\ claim' = claim /\ starts' = starts
      BY <1>20 DEF FinishSystemTask
    <2>q. QED
      BY <2>1, <2>2, <2>3, <2>4 DEF Inv, TypeOK, Unstarted
  <1>21. ASSUME NEW r \in Runners, NEW t \in Tasks, ReleaseFinished(r, t)
        PROVE  Unstarted'
    BY <1>21, SystemTaskAssumption DEF ReleaseFinished, RunGoto, Inv,
      TypeOK, Unstarted, RowsInOrder, rowVars
  <1>q. QED
    BY <1>0, <1>1, <1>2, <1>3, <1>4, <1>5, <1>6, <1>7, <1>8, <1>9, <1>10,
      <1>11, <1>12, <1>13, <1>14, <1>15, <1>16, <1>17, <1>18, <1>19, <1>20,
      <1>21 DEF Next, RunnerStep, HandlerStep, Heartbeat

(* A runner looks for pending rows only, and those it does not run.        *)
LEMMA ClaimsIdleStep ==
    ASSUME Inv, [Next]_vars
    PROVE  ClaimsIdle'
  <1>0. CASE UNCHANGED vars
    BY <1>0 DEF vars, Inv, ClaimsIdle
  <1>1. CASE EnqueueSystemTask
    BY <1>1 DEF EnqueueSystemTask, Inv, TypeOK, Unstarted, ClaimsIdle,
      ClaimsTask, ClaimPC, HoldPC
  <1>2. CASE Tick
    BY <1>2 DEF Tick, Inv, TypeOK, Unstarted, ClaimsIdle, ClaimsTask,
      ClaimPC, HoldPC
  <1>3. ASSUME NEW r \in Runners, Crash(r) PROVE ClaimsIdle'
    BY <1>3 DEF Crash, EndPass, Goto, Inv, TypeOK, Unstarted, ClaimsIdle,
      ClaimsTask, ClaimPC, HoldPC
  <1>4. ASSUME NEW r \in Runners,
               NEW label \in {"expire", "schedule", "find"},
               StartPass(r, label)
        PROVE  ClaimsIdle'
    BY <1>4 DEF StartPass, Goto, Inv, TypeOK, Unstarted, ClaimsIdle,
      ClaimsTask, ClaimPC, HoldPC
  <1>5. ASSUME NEW r \in Runners, ReadStaleLocks(r) PROVE ClaimsIdle'
    BY <1>5 DEF ReadStaleLocks, AfterExpire, EndPass, Goto, Inv, TypeOK,
      Unstarted, ClaimsIdle, ClaimsTask, ClaimPC, HoldPC
  <1>6. ASSUME NEW r \in Runners, ExpireTask(r) PROVE ClaimsIdle'
    BY <1>6 DEF ExpireTask, AfterExpire, EndPass, Goto, Inv, TypeOK,
      Unstarted, ClaimsIdle, ClaimsTask, ClaimPC, HoldPC
  <1>7. ASSUME NEW r \in Runners, DeleteStaleLock(r) PROVE ClaimsIdle'
    BY <1>7 DEF DeleteStaleLock, AfterExpire, EndPass, Goto, Inv, TypeOK,
      Unstarted, ClaimsIdle, ClaimsTask, ClaimPC, HoldPC
  <1>8. ASSUME NEW r \in Runners, Schedule(r) PROVE ClaimsIdle'
    BY <1>8 DEF Schedule, Goto, Inv, TypeOK, Unstarted, ClaimsIdle,
      ClaimsTask, ClaimPC, HoldPC
  <1>9. ASSUME NEW r \in Runners, FindPending(r) PROVE ClaimsIdle'
    BY <1>9 DEF FindPending, EndPass, Goto, Inv, TypeOK, Unstarted,
      ClaimsIdle, ClaimsTask, ClaimPC, HoldPC
  <1>10. ASSUME NEW r \in Runners, InsertLock(r) PROVE ClaimsIdle'
    BY <1>10 DEF InsertLock, Goto, Inv, TypeOK, Unstarted, ClaimsIdle,
      ClaimsTask, ClaimPC, HoldPC
  <1>11. ASSUME NEW r \in Runners, LookAtLock(r) PROVE ClaimsIdle'
    BY <1>11 DEF LookAtLock, EndPass, Goto, Inv, TypeOK, Unstarted,
      ClaimsIdle, ClaimsTask, ClaimPC, HoldPC
  <1>12. ASSUME NEW r \in Runners, TakeOverLock(r) PROVE ClaimsIdle'
    BY <1>12 DEF TakeOverLock, EndPass, Goto, Inv, TypeOK, Unstarted,
      ClaimsIdle, ClaimsTask, ClaimPC, HoldPC
  <1>13. ASSUME NEW r \in Runners, ExpireDisplaced(r) PROVE ClaimsIdle'
    BY <1>13 DEF ExpireDisplaced, Goto, Inv, TypeOK, Unstarted, ClaimsIdle,
      ClaimsTask, ClaimPC, HoldPC
  <1>14. ASSUME NEW r \in Runners, MarkRunning(r) PROVE ClaimsIdle'
    BY <1>14 DEF MarkRunning, Goto, Inv, TypeOK, Unstarted, ClaimsIdle,
      ClaimsTask, ClaimPC, HoldPC
  <1>15. ASSUME NEW r \in Runners, ReleaseClaim(r) PROVE ClaimsIdle'
    BY <1>15 DEF ReleaseClaim, EndPass, Goto, Inv, TypeOK, Unstarted,
      ClaimsIdle, ClaimsTask, ClaimPC, HoldPC
  <1>16. ASSUME NEW r \in Runners, Dispatch(r) PROVE ClaimsIdle'
    BY <1>16 DEF Dispatch, EndPass, Goto, Inv, TypeOK, Unstarted,
      ClaimsIdle, ClaimsTask, ClaimPC, HoldPC
  <1>17. ASSUME NEW r \in Runners, NEW t \in Tasks, Renew(r, t)
        PROVE  ClaimsIdle'
    BY <1>17 DEF Renew, Inv, TypeOK, Unstarted, ClaimsIdle, ClaimsTask,
      ClaimPC, HoldPC
  <1>18. ASSUME NEW r \in Runners, NEW t \in Tasks, LoseLease(r, t)
        PROVE  ClaimsIdle'
    BY <1>18 DEF LoseLease, RunGoto, Inv, TypeOK, Unstarted, ClaimsIdle,
      ClaimsTask, ClaimPC, HoldPC
  <1>19. ASSUME NEW r \in Runners, NEW t \in Tasks, Abandon(r, t)
        PROVE  ClaimsIdle'
    BY <1>19 DEF Abandon, RunGoto, Inv, TypeOK, Unstarted, ClaimsIdle,
      ClaimsTask, ClaimPC, HoldPC
  <1>20. ASSUME NEW r \in Runners, NEW t \in Tasks,
               NEW outcome \in {"succeeded", "failed"},
               FinishSystemTask(r, t, outcome)
        PROVE  ClaimsIdle'
    BY <1>20 DEF FinishSystemTask, RunGoto, Inv, TypeOK, Unstarted,
      ClaimsIdle, ClaimsTask, ClaimPC, HoldPC
  <1>21. ASSUME NEW r \in Runners, NEW t \in Tasks, ReleaseFinished(r, t)
        PROVE  ClaimsIdle'
    BY <1>21 DEF ReleaseFinished, RunGoto, Inv, TypeOK, Unstarted,
      ClaimsIdle, ClaimsTask, ClaimPC, HoldPC
  <1>q. QED
    BY <1>0, <1>1, <1>2, <1>3, <1>4, <1>5, <1>6, <1>7, <1>8, <1>9, <1>10,
      <1>11, <1>12, <1>13, <1>14, <1>15, <1>16, <1>17, <1>18, <1>19, <1>20,
      <1>21 DEF Next, RunnerStep, HandlerStep, Heartbeat

(* The conditional update to running admits one runner to the dispatch.    *)
LEMMA FirstStep ==
    ASSUME Inv, [Next]_vars
    PROVE  FirstDispatch' /\ ExecutedOnce'
  <1>0. CASE UNCHANGED vars
    BY <1>0 DEF vars, Inv, FirstDispatch, ExecutedOnce
  <1>1. CASE EnqueueSystemTask
    BY <1>1 DEF EnqueueSystemTask, Inv, TypeOK, Unstarted, FirstDispatch,
      ExecutedOnce, ClaimsTask, ClaimPC, HoldPC
  <1>2. CASE Tick
    BY <1>2 DEF Tick, Inv, TypeOK, Unstarted, FirstDispatch, ExecutedOnce,
      ClaimsTask, ClaimPC, HoldPC
  <1>3. ASSUME NEW r \in Runners, Crash(r)
        PROVE  FirstDispatch' /\ ExecutedOnce'
    BY <1>3 DEF Crash, EndPass, Goto, Inv, TypeOK, Unstarted,
      FirstDispatch, ExecutedOnce, ClaimsTask, ClaimPC, HoldPC
  <1>4. ASSUME NEW r \in Runners,
               NEW label \in {"expire", "schedule", "find"},
               StartPass(r, label)
        PROVE  FirstDispatch' /\ ExecutedOnce'
    BY <1>4 DEF StartPass, Goto, Inv, TypeOK, Unstarted, FirstDispatch,
      ExecutedOnce, ClaimsTask, ClaimPC, HoldPC
  <1>5. ASSUME NEW r \in Runners, ReadStaleLocks(r)
        PROVE  FirstDispatch' /\ ExecutedOnce'
    <2>1. \A q \in Runners :
              pc'[q] = "reread" => pc[q] = "reread" /\ claim'[q] = claim[q]
      BY <1>5, QuietLoop DEF Inv, QuietStep, HoldPC
    <2>2. starts' = starts
      BY <1>5 DEF ReadStaleLocks
    <2>q. QED
      BY <2>1, <2>2 DEF Inv, FirstDispatch, ExecutedOnce
  <1>6. ASSUME NEW r \in Runners, ExpireTask(r)
        PROVE  FirstDispatch' /\ ExecutedOnce'
    <2>1. \A q \in Runners :
              pc'[q] = "reread" => pc[q] = "reread" /\ claim'[q] = claim[q]
      BY <1>6, QuietLoop DEF Inv, QuietStep, HoldPC
    <2>2. starts' = starts
      BY <1>6 DEF ExpireTask
    <2>q. QED
      BY <2>1, <2>2 DEF Inv, FirstDispatch, ExecutedOnce
  <1>7. ASSUME NEW r \in Runners, DeleteStaleLock(r)
        PROVE  FirstDispatch' /\ ExecutedOnce'
    BY <1>7 DEF DeleteStaleLock, AfterExpire, EndPass, Goto, Inv, TypeOK,
      Unstarted, FirstDispatch, ExecutedOnce, ClaimsTask, ClaimPC, HoldPC
  <1>8. ASSUME NEW r \in Runners, Schedule(r)
        PROVE  FirstDispatch' /\ ExecutedOnce'
    BY <1>8 DEF Schedule, Goto, Inv, TypeOK, Unstarted, FirstDispatch,
      ExecutedOnce, ClaimsTask, ClaimPC, HoldPC
  <1>9. ASSUME NEW r \in Runners, FindPending(r)
        PROVE  FirstDispatch' /\ ExecutedOnce'
    <2>1. \A q \in Runners :
              pc'[q] = "reread" => pc[q] = "reread" /\ claim'[q] = claim[q]
      BY <1>9, QuietLoop DEF Inv, QuietStep, HoldPC
    <2>2. starts' = starts
      BY <1>9 DEF FindPending
    <2>q. QED
      BY <2>1, <2>2 DEF Inv, FirstDispatch, ExecutedOnce
  <1>10. ASSUME NEW r \in Runners, InsertLock(r)
        PROVE  FirstDispatch' /\ ExecutedOnce'
    <2>1. \A q \in Runners :
              pc'[q] = "reread" => pc[q] = "reread" /\ claim'[q] = claim[q]
      BY <1>10 DEF InsertLock, Goto, Inv, TypeOK
    <2>2. starts' = starts
      BY <1>10 DEF InsertLock
    <2>q. QED
      BY <2>1, <2>2 DEF Inv, FirstDispatch, ExecutedOnce
  <1>11. ASSUME NEW r \in Runners, LookAtLock(r)
        PROVE  FirstDispatch' /\ ExecutedOnce'
    <2>1. \A q \in Runners :
              pc'[q] = "reread" => pc[q] = "reread" /\ claim'[q] = claim[q]
      BY <1>11, QuietLoop DEF Inv, QuietStep, HoldPC
    <2>2. starts' = starts
      BY <1>11 DEF LookAtLock
    <2>q. QED
      BY <2>1, <2>2 DEF Inv, FirstDispatch, ExecutedOnce
  <1>12. ASSUME NEW r \in Runners, TakeOverLock(r)
        PROVE  FirstDispatch' /\ ExecutedOnce'
    <2>1. \A q \in Runners :
              pc'[q] = "reread" => pc[q] = "reread" /\ claim'[q] = claim[q]
      BY <1>12 DEF TakeOverLock, EndPass, Goto, Inv, TypeOK
    <2>2. starts' = starts
      BY <1>12 DEF TakeOverLock
    <2>q. QED
      BY <2>1, <2>2 DEF Inv, FirstDispatch, ExecutedOnce
  <1>13. ASSUME NEW r \in Runners, ExpireDisplaced(r)
        PROVE  FirstDispatch' /\ ExecutedOnce'
    <2>1. \A q \in Runners :
              pc'[q] = "reread" => pc[q] = "reread" /\ claim'[q] = claim[q]
      BY <1>13 DEF ExpireDisplaced, Goto, Inv, TypeOK
    <2>2. starts' = starts
      BY <1>13 DEF ExpireDisplaced
    <2>q. QED
      BY <2>1, <2>2 DEF Inv, FirstDispatch, ExecutedOnce
  <1>14. ASSUME NEW r \in Runners, MarkRunning(r)
        PROVE  FirstDispatch' /\ ExecutedOnce'
    <2>1. claim' = claim /\ starts' = starts
      BY <1>14 DEF MarkRunning
    <2>2. \A q \in Runners : pc'[q] = "reread" => pc[q] = "reread" \/ q = r
      BY <1>14 DEF MarkRunning, Goto, Inv, TypeOK
    <2>3. claim[r] \in Tasks
      BY <1>14 DEF MarkRunning, Inv, ClaimsTask, ClaimPC, HoldPC
    <2>4. pc'[r] = "reread" => status[claim[r]] = "pending"
      BY <1>14 DEF MarkRunning, Goto, Inv, TypeOK
    <2>q. QED
      BY <2>1, <2>2, <2>3, <2>4 DEF Inv, Unstarted, FirstDispatch, ExecutedOnce
  <1>15. ASSUME NEW r \in Runners, ReleaseClaim(r)
        PROVE  FirstDispatch' /\ ExecutedOnce'
    BY <1>15 DEF ReleaseClaim, EndPass, Goto, Inv, TypeOK, Unstarted,
      FirstDispatch, ExecutedOnce, ClaimsTask, ClaimPC, HoldPC
  <1>16. ASSUME NEW r \in Runners, Dispatch(r)
        PROVE  FirstDispatch' /\ ExecutedOnce'
    BY <1>16 DEF Dispatch, EndPass, Goto, Inv, TypeOK, Unstarted,
      FirstDispatch, ExecutedOnce, ClaimsTask, ClaimPC, HoldPC
  <1>17. ASSUME NEW r \in Runners, NEW t \in Tasks, Renew(r, t)
        PROVE  FirstDispatch' /\ ExecutedOnce'
    BY <1>17 DEF Renew, Inv, TypeOK, Unstarted, FirstDispatch,
      ExecutedOnce, ClaimsTask, ClaimPC, HoldPC
  <1>18. ASSUME NEW r \in Runners, NEW t \in Tasks, LoseLease(r, t)
        PROVE  FirstDispatch' /\ ExecutedOnce'
    BY <1>18 DEF LoseLease, RunGoto, Inv, TypeOK, Unstarted, FirstDispatch,
      ExecutedOnce, ClaimsTask, ClaimPC, HoldPC
  <1>19. ASSUME NEW r \in Runners, NEW t \in Tasks, Abandon(r, t)
        PROVE  FirstDispatch' /\ ExecutedOnce'
    BY <1>19 DEF Abandon, RunGoto, Inv, TypeOK, Unstarted, FirstDispatch,
      ExecutedOnce, ClaimsTask, ClaimPC, HoldPC
  <1>20. ASSUME NEW r \in Runners, NEW t \in Tasks,
               NEW outcome \in {"succeeded", "failed"},
               FinishSystemTask(r, t, outcome)
        PROVE  FirstDispatch' /\ ExecutedOnce'
    BY <1>20 DEF FinishSystemTask, RunGoto, Inv, TypeOK, Unstarted,
      FirstDispatch, ExecutedOnce, ClaimsTask, ClaimPC, HoldPC
  <1>21. ASSUME NEW r \in Runners, NEW t \in Tasks, ReleaseFinished(r, t)
        PROVE  FirstDispatch' /\ ExecutedOnce'
    BY <1>21 DEF ReleaseFinished, RunGoto, Inv, TypeOK, Unstarted,
      FirstDispatch, ExecutedOnce, ClaimsTask, ClaimPC, HoldPC
  <1>q. QED
    BY <1>0, <1>1, <1>2, <1>3, <1>4, <1>5, <1>6, <1>7, <1>8, <1>9, <1>10,
      <1>11, <1>12, <1>13, <1>14, <1>15, <1>16, <1>17, <1>18, <1>19, <1>20,
      <1>21 DEF Next, RunnerStep, HandlerStep, Heartbeat

(* No one takes the lock row away from a holder that is in time.           *)
LEMMA LeaseStep ==
    ASSUME Inv, Timely, [Next]_vars
    PROVE  LeaseHeld'
  <1>0. CASE UNCHANGED vars
    BY <1>0 DEF vars, Inv, LeaseHeld, HoldsLease, Owns
  <1>1. CASE EnqueueSystemTask
    BY <1>1, SystemTaskAssumption DEF EnqueueSystemTask, Inv, TypeOK,
      LeaseHeld, HoldsLease, Owns, ClaimsTask, ClaimPC, HoldPC
  <1>2. CASE Tick
    BY <1>2, SystemTaskAssumption DEF Tick, LockType, Inv, TypeOK,
      LeaseHeld, HoldsLease, Owns, NoLock, HolderWorks, ClaimsTask, Tasks,
      ClaimPC, HoldPC
  <1>3. ASSUME NEW r \in Runners, Crash(r) PROVE LeaseHeld'
    BY <1>3, SystemTaskAssumption DEF Crash, EndPass, Goto, Inv, TypeOK,
      LeaseHeld, HoldsLease, Owns, ClaimsTask, ClaimPC, HoldPC
  <1>4. ASSUME NEW r \in Runners,
               NEW label \in {"expire", "schedule", "find"},
               StartPass(r, label)
        PROVE  LeaseHeld'
    BY <1>4, SystemTaskAssumption DEF StartPass, Goto, Inv, TypeOK,
      LeaseHeld, HoldsLease, Owns, ClaimsTask, ClaimPC, HoldPC
  <1>5. ASSUME NEW r \in Runners, ReadStaleLocks(r) PROVE LeaseHeld'
    <2>1. \A q \in Runners :
              pc'[q] \in HoldPC => pc[q] \in HoldPC /\ claim'[q] = claim[q]
      BY <1>5, QuietLoop DEF Inv, QuietStep
    <2>2. run' = run /\ lock' = lock
      BY <1>5 DEF ReadStaleLocks
    <2>q. QED
      BY <2>1, <2>2 DEF Inv, LeaseHeld, HoldsLease, Owns
  <1>6. ASSUME NEW r \in Runners, ExpireTask(r) PROVE LeaseHeld'
    <2>1. \A q \in Runners :
              pc'[q] \in HoldPC => pc[q] \in HoldPC /\ claim'[q] = claim[q]
      BY <1>6, QuietLoop DEF Inv, QuietStep
    <2>2. run' = run /\ lock' = lock
      BY <1>6 DEF ExpireTask
    <2>q. QED
      BY <2>1, <2>2 DEF Inv, LeaseHeld, HoldsLease, Owns
  <1>7. ASSUME NEW r \in Runners, DeleteStaleLock(r) PROVE LeaseHeld'
    BY <1>7, SystemTaskAssumption DEF DeleteStaleLock, AfterExpire,
      EndPass, Goto, Inv, TypeOK, LeaseHeld, HoldsLease, Owns, Stale,
      NoLock, ClaimsTask, Tasks, ClaimPC, HoldPC
  <1>8. ASSUME NEW r \in Runners, Schedule(r) PROVE LeaseHeld'
    BY <1>8, SystemTaskAssumption DEF Schedule, Goto, Inv, TypeOK,
      LeaseHeld, HoldsLease, Owns, ClaimsTask, ClaimPC, HoldPC
  <1>9. ASSUME NEW r \in Runners, FindPending(r) PROVE LeaseHeld'
    <2>1. \A q \in Runners :
              pc'[q] \in HoldPC => pc[q] \in HoldPC /\ claim'[q] = claim[q]
      BY <1>9, QuietLoop DEF Inv, QuietStep
    <2>2. run' = run /\ lock' = lock
      BY <1>9 DEF FindPending
    <2>q. QED
      BY <2>1, <2>2 DEF Inv, LeaseHeld, HoldsLease, Owns
  <1>10. ASSUME NEW r \in Runners, InsertLock(r) PROVE LeaseHeld'
    BY <1>10, SystemTaskAssumption DEF InsertLock, Goto, Inv, TypeOK,
      LeaseHeld, HoldsLease, Owns, NoLock, Lease, ClaimsTask, Tasks,
      ClaimPC, HoldPC
  <1>11. ASSUME NEW r \in Runners, LookAtLock(r) PROVE LeaseHeld'
    <2>1. \A q \in Runners :
              pc'[q] \in HoldPC => pc[q] \in HoldPC /\ claim'[q] = claim[q]
      BY <1>11, QuietLoop DEF Inv, QuietStep
    <2>2. run' = run /\ lock' = lock
      BY <1>11 DEF LookAtLock
    <2>q. QED
      BY <2>1, <2>2 DEF Inv, LeaseHeld, HoldsLease, Owns
  <1>12. ASSUME NEW r \in Runners, TakeOverLock(r) PROVE LeaseHeld'
    <2>1. run' = run
      BY <1>12 DEF TakeOverLock
    <2>2. CASE Stale /\ lock' = Lease(r, claim[r]) /\ claim' = claim
      <3>1. \A q \in Runners, t \in Tasks :
              ~(pc[q] \in HoldPC /\ claim[q] = t) /\ run[q][t] # "running"
        BY <2>2 DEF Inv, LeaseHeld, HoldsLease, Stale
      <3>2. \A q \in Runners : pc'[q] \in HoldPC => pc[q] \in HoldPC \/ q = r
        BY <1>12 DEF TakeOverLock, EndPass, Goto, Inv, TypeOK
      <3>3. \A q \in Runners :
              q = r \/ pc[q] \in HoldPC => claim[q] \in Tasks
        BY <1>12 DEF TakeOverLock, Inv, ClaimsTask, ClaimPC
      <3>4. HoldsLease(r, claim[r])'
        BY <2>2, SystemTaskAssumption DEF HoldsLease, Owns, Lease
      <3>q. QED
        BY <2>1, <2>2, <3>1, <3>2, <3>3, <3>4 DEF LeaseHeld, HoldsLease, Owns
    <2>3. CASE EndPass(r, "idle") /\ lock' = lock
      <3>1. \A q \in Runners :
                pc'[q] \in HoldPC => pc[q] \in HoldPC /\ claim'[q] = claim[q]
        BY <2>3 DEF EndPass, Goto, Inv, TypeOK, HoldPC
      <3>q. QED
        BY <2>1, <2>3, <3>1 DEF Inv, LeaseHeld, HoldsLease, Owns
    <2>q. QED
      BY <1>12, <2>2, <2>3 DEF TakeOverLock
  <1>13. ASSUME NEW r \in Runners, ExpireDisplaced(r) PROVE LeaseHeld'
    BY <1>13, SystemTaskAssumption DEF ExpireDisplaced, Goto, Inv, TypeOK,
      LeaseHeld, HoldsLease, Owns, ClaimsTask, ClaimPC, HoldPC
  <1>14. ASSUME NEW r \in Runners, MarkRunning(r) PROVE LeaseHeld'
    BY <1>14, SystemTaskAssumption DEF MarkRunning, Goto, Inv, TypeOK,
      LeaseHeld, HoldsLease, Owns, ClaimsTask, ClaimPC, HoldPC
  <1>15. ASSUME NEW r \in Runners, ReleaseClaim(r) PROVE LeaseHeld'
    BY <1>15, SystemTaskAssumption DEF ReleaseClaim, ReleaseSystemTaskLock,
      EndPass, Goto, Inv, TypeOK, ClaimsIdle, LeaseHeld, HoldsLease, Owns,
      NoLock, ClaimsTask, Tasks, ClaimPC, HoldPC
  <1>16. ASSUME NEW r \in Runners, Dispatch(r) PROVE LeaseHeld'
    BY <1>16, SystemTaskAssumption DEF Dispatch, EndPass, Goto, Inv,
      TypeOK, LeaseHeld, HoldsLease, Owns, ClaimsTask, ClaimPC, HoldPC
  <1>17. ASSUME NEW r \in Runners, NEW t \in Tasks, Renew(r, t)
        PROVE  LeaseHeld'
    BY <1>17, SystemTaskAssumption DEF Renew, Inv, TypeOK, LeaseHeld,
      HoldsLease, Owns, NoLock, Lease, ClaimsTask, Tasks, ClaimPC, HoldPC
  <1>18. ASSUME NEW r \in Runners, NEW t \in Tasks, LoseLease(r, t)
        PROVE  LeaseHeld'
    BY <1>18, SystemTaskAssumption DEF LoseLease, RunGoto, Inv, TypeOK,
      LeaseHeld, HoldsLease, Owns, ClaimsTask, ClaimPC, HoldPC
  <1>19. ASSUME NEW r \in Runners, NEW t \in Tasks, Abandon(r, t)
        PROVE  LeaseHeld'
    BY <1>19, SystemTaskAssumption DEF Abandon, RunGoto, Inv, TypeOK,
      LeaseHeld, HoldsLease, Owns, ClaimsTask, ClaimPC, HoldPC
  <1>20. ASSUME NEW r \in Runners, NEW t \in Tasks,
               NEW outcome \in {"succeeded", "failed"},
               FinishSystemTask(r, t, outcome)
        PROVE  LeaseHeld'
    <2>1. PICK label \in RunPC \ {"running"} : run' = [run EXCEPT ![r][t] = label]
      BY <1>20 DEF FinishSystemTask, RunGoto, RunPC
    <2>2. pc' = pc /\ claim' = claim /\ lock' = lock
      BY <1>20 DEF FinishSystemTask
    <2>q. QED
      BY <2>1, <2>2 DEF Inv, TypeOK, LeaseHeld, HoldsLease, Owns
  <1>21. ASSUME NEW r \in Runners, NEW t \in Tasks, ReleaseFinished(r, t)
        PROVE  LeaseHeld'
    BY <1>21, SystemTaskAssumption DEF ReleaseFinished,
      ReleaseSystemTaskLock, RunGoto, Inv, TypeOK, ClaimsIdle, LeaseHeld,
      HoldsLease, Owns, NoLock, ClaimsTask, Tasks, ClaimPC, HoldPC
  <1>q. QED
    BY <1>0, <1>1, <1>2, <1>3, <1>4, <1>5, <1>6, <1>7, <1>8, <1>9, <1>10,
      <1>11, <1>12, <1>13, <1>14, <1>15, <1>16, <1>17, <1>18, <1>19, <1>20,
      <1>21 DEF Next, RunnerStep, HandlerStep, Heartbeat

(* No statement writes a row that has its outcome.                         *)
LEMMA OutcomeStep ==
    ASSUME Inv, [Next]_vars
    PROVE  KeepsOutcomes
  <1>0. CASE UNCHANGED rowVars
    BY <1>0 DEF KeepsOutcomes, rowVars
  <1>1. CASE EnqueueSystemTask
    BY <1>1, SystemTaskAssumption DEF EnqueueSystemTask, CreateSystemTask,
      CanCreate, Inv, TypeOK, RowsInOrder, KeepsOutcomes, Terminal, Tasks
  <1>2. ASSUME NEW r \in Runners, ExpireTask(r) PROVE KeepsOutcomes
    BY <1>2, SystemTaskAssumption DEF ExpireTask,
      MarkSystemTaskLeaseExpired, Inv, TypeOK, RowsInOrder, KeepsOutcomes,
      Terminal, Tasks
  <1>3. ASSUME NEW r \in Runners, Schedule(r) PROVE KeepsOutcomes
    BY <1>3, SystemTaskAssumption DEF Schedule, CreateSystemTask,
      CanCreate, Inv, TypeOK, RowsInOrder, KeepsOutcomes, Terminal,
      rowVars, Tasks
  <1>4. ASSUME NEW r \in Runners, ExpireDisplaced(r) PROVE KeepsOutcomes
    BY <1>4, SystemTaskAssumption DEF ExpireDisplaced,
      MarkSystemTaskLeaseExpired, Inv, TypeOK, RowsInOrder, KeepsOutcomes,
      Terminal, Tasks
  <1>5. ASSUME NEW r \in Runners, MarkRunning(r) PROVE KeepsOutcomes
    BY <1>5, SystemTaskAssumption DEF MarkRunning, Inv, TypeOK,
      RowsInOrder, ClaimsTask, ClaimPC, HoldPC, KeepsOutcomes, Terminal,
      Tasks
  <1>6. ASSUME NEW r \in Runners, NEW t \in Tasks,
               NEW outcome \in {"succeeded", "failed"},
               FinishSystemTask(r, t, outcome)
        PROVE  KeepsOutcomes
    BY <1>6, SystemTaskAssumption DEF FinishSystemTask, Inv, TypeOK,
      RowsInOrder, KeepsOutcomes, Terminal, Tasks
  <1>q. QED
    BY <1>0, <1>1, <1>2, <1>3, <1>4, <1>5, <1>6, RowFrame

(* The invariant holds at the start.                                       *)
LEMMA InitInv == Init => Inv
  <1>. SUFFICES ASSUME Init PROVE Inv
    OBVIOUS
  <1>1. created \in 0 .. MaxTasks /\ lock \in LockType
    BY SystemTaskAssumption, LockTypes DEF Init
  <1>2. /\ status \in [Tasks -> Statuses]
        /\ activeKey \in [Tasks -> BOOLEAN]
        /\ lockedBy \in [Tasks -> Runners \cup {NoRunner}]
    BY DEF Init, Statuses
  <1>3. /\ pc \in [Runners -> RunnerPC]
        /\ claim \in [Runners -> Tasks \cup {NoTask}]
        /\ seen \in [Runners -> LockType]
    BY LockTypes DEF Init, RunnerPC
  <1>4. run \in [Runners -> [Tasks -> RunPC]] /\ starts \in [Tasks -> Nat]
    BY DEF Init, RunPC
  <1>5. TypeOK
    BY <1>1, <1>2, <1>3, <1>4 DEF TypeOK
  <1>6. \A r \in Runners : pc[r] = "idle"
    BY DEF Init
  <1>7. "idle" \notin ClaimPC /\ "idle" \notin HoldPC /\ "idle" # "reread"
    BY DEF ClaimPC, HoldPC
  <1>8. RowsInOrder
    BY SystemTaskAssumption DEF Init, RowsInOrder, Tasks
  <1>9. Unstarted /\ ExecutedOnce
    BY <1>6, <1>7 DEF Init, Unstarted, ExecutedOnce
  <1>10. ClaimsTask /\ ClaimsIdle /\ FirstDispatch
    BY <1>6, <1>7 DEF ClaimsTask, ClaimsIdle, FirstDispatch
  <1>11. LeaseHeld
    BY <1>6, <1>7 DEF Init, LeaseHeld
  <1>q. QED
    BY <1>5, <1>8, <1>9, <1>10, <1>11 DEF Inv

(* Every step keeps it.                                                    *)
LEMMA InvStep == Inv /\ [Next]_vars => Inv'
  <1>. SUFFICES ASSUME Inv, [Next]_vars PROVE Inv'
    OBVIOUS
  <1>0. TypeOK /\ ClaimsTask
    BY DEF Inv
  <1>1. TypeOK' /\ ClaimsTask'
    BY <1>0, RowTypeStep, LockTypeStep, LoopTypeStep, RunTypeStep
    DEF TypeOK, RowTypes, LoopTypes, RunTypes
  <1>2. RowsInOrder' /\ Unstarted'
    BY <1>1, RowsStep, UnstartedStep
  <1>3. ClaimsIdle' /\ FirstDispatch' /\ ExecutedOnce'
    BY <1>1, ClaimsIdleStep, FirstStep
  <1>4. LeaseHeld'
    <2>1. CASE Timely
      BY <1>1, <2>1, LeaseStep
    <2>2. CASE ~Timely
      BY <2>2 DEF LeaseHeld
    <2>q. QED
      BY <2>1, <2>2
  <1>q. QED
    BY <1>1, <1>2, <1>3, <1>4 DEF Inv

(* The invariant holds throughout every behaviour.                         *)
LEMMA Invariance == Spec => []Inv
  BY InitInv, InvStep, PTL DEF Spec

(* The variables keep their types.                                         *)
THEOREM TypeCorrect == Spec => []TypeOK
  <1>1. Inv => TypeOK
    BY DEF Inv
  <1>q. QED
    BY <1>1, Invariance, PTL

(* No task row is handed to a handler twice (ClaimSystemTask,              *)
(* runSystemTaskClaimPass), for any number of runners, any lease time and  *)
(* any crashes, pauses and database errors.                                *)
THEOREM ExecutesOnce == Spec => []ExecutedOnce
  <1>1. Inv => ExecutedOnce
    BY DEF Inv
  <1>q. QED
    BY <1>1, Invariance, PTL

(* At most one handler runs with an uncancelled context, if the holder of  *)
(* a lease is always in time (acquireSystemTaskLock,                       *)
(* runWithLeaseHeartbeat).                                                 *)
THEOREM ExclusiveRun == Spec => []OneRunAtATime
  <1>1. Inv => OneRunAtATime
    BY DEF Inv, LeaseHeld, HoldsLease, Owns, OneRunAtATime
  <1>q. QED
    BY <1>1, Invariance, PTL

(* The outcome of a task is written once (FinishSystemTask,                *)
(* MarkSystemTaskLeaseExpired).                                            *)
THEOREM OutcomesFinal == Spec => OutcomeIsFinal
  <1>1. Inv /\ [Next]_vars => [KeepsOutcomes]_vars
    BY OutcomeStep
  <1>q. QED
    BY <1>1, Invariance, PTL DEF Spec, OutcomeIsFinal

=============================================================================
