----------------------------- MODULE AsyncTask -----------------------------
(***************************************************************************)
(* Asynchronous tasks (video and Suno generation) and their billing.       *)
(*                                                                         *)
(* A task is paid for when it is submitted; its row then waits for the     *)
(* upstream.  Polling passes (service/task_polling.go) sweep the rows that *)
(* timed out, ask the upstream about the others and settle or refund them. *)
(* Passes of two processes may overlap when a lease of the system task     *)
(* runner is lost, and a user who looks at a Gemini or Vertex task writes  *)
(* its row as well (relay/relay_task.go, tryRealtimeFetch).  The rows do   *)
(* not depend on each other, so the work of one pass on one task is the    *)
(* unit that interleaves.                                                  *)
(***************************************************************************)
EXTENDS Integers

CONSTANTS
    Tasks,        \* the task rows
    Pollers,      \* the processes that may run a polling pass
    Fetchers,     \* the user requests that look at a task, each once
    Profiles,     \* the kinds of task explored: see ProfileType
    ActualQuotas, \* what a finished task may turn out to cost; 0: no change
    Stable,       \* the upstream never takes a final answer back
    SweepEnabled, \* TASK_TIMEOUT_MINUTES > 0
    Faults        \* the failures explored: see FaultKinds

(* realtime is a video task on a Gemini or Vertex channel.  held is what   *)
(* the request reserved before it was sent, quota what the submission costs*)
(* after AdjustBillingOnSubmit.  legacy rows were submitted before         *)
(* legacyTaskCutoff; noId rows have neither an upstream id nor a task id.  *)
ProfileType ==
    [kind: {"video", "realtime", "suno"}, held: Nat, quota: Nat,
     perCall: BOOLEAN, legacy: BOOLEAN, noId: BOOLEAN]

(* "op": a storage call returns an error and changes nothing; "crash": a   *)
(* process dies; "channel": the channel of a task has been deleted.        *)
FaultKinds == {"op", "crash", "channel"}

ASSUME AsyncTaskAssumption ==
    /\ Profiles \subseteq ProfileType
    /\ ActualQuotas \subseteq Nat
    /\ {Stable, SweepEnabled} \subseteq BOOLEAN
    /\ Faults \subseteq FaultKinds
    /\ Pollers \cap Fetchers = {}

VARIABLES
    row,      \* the columns of tasks: status, progress = "100%", quota and
              \* submit_time
    profile,  \* what was submitted; never changes
    verdict,  \* the final answer the upstream gave, if it is stable
    timedOut, \* the submit times that the cutoff of the sweep has passed
    pc,       \* where an actor is in its work on a task
    mine,     \* the actor's copy of the row, and what it read or decided
    fundNet,  \* history: net amount taken from the wallet or subscription
    tokenNet, \* history: net amount taken from the token
    waived    \* history: why the books of a task need not close

vars == <<row, profile, verdict, timedOut, pc, mine, fundNet, tokenNet, waived>>

Actors == Pollers \cup Fetchers

Final == {"SUCCESS", "FAILURE"}
Waiting == {"NOT_START", "SUBMITTED", "QUEUED", "IN_PROGRESS"}
\* ParseTaskResult of Gemini and Vertex: an error, done, or not done.
ThreeWay == {"IN_PROGRESS"} \cup Final
RowStatus == {"none"} \cup Waiting \cup Final

ActorPC == {"idle", "over", "sweep", "poll", "write", "save", "fetch",
            "fetchWrite", "settle", "settleToken", "settleQuota", "refund", "refundToken"}

\* Between the write that decided the task and the last storage call of its
\* settlement or refund.
BillingPC == {"settle", "settleToken", "settleQuota", "refund", "refundToken"}

(* The submit times a row can have: that of its insertion, a later one that*)
(* the upstream reported, or one before legacyTaskCutoff.                  *)
SubmitTimes == {"own", "later", "legacy"}

RowType == [status: RowStatus, full: BOOLEAN, quota: Nat, submit: SubmitTimes]

(* snap is the status the actor read; actual is the cost it settles to;    *)
(* saves is TRUE while a Suno refund is followed by task.Update().         *)
CopyType == [status: RowStatus, full: BOOLEAN, quota: Nat, submit: SubmitTimes,
             snap: RowStatus, actual: Nat, saves: BOOLEAN]

Reasons == {"legacy", "bulk", "user", "fault", "crash", "unsettled"}

NoRow == [status |-> "none", full |-> FALSE, quota |-> 0, submit |-> "own"]

NoCopy == [status |-> "none", full |-> FALSE, quota |-> 0, submit |-> "own",
           snap |-> "none", actual |-> 0, saves |-> FALSE]

-----------------------------------------------------------------------------
Goto(a, t, label) == pc' = [pc EXCEPT ![a][t] = label]

MayFail == "op" \in Faults

Waive(t, reason) == waived' = [waived EXCEPT ![t] = @ \cup {reason}]

money == <<fundNet, tokenNet>>
fixed == <<profile, timedOut, verdict>>

(* The upstream answers a question about t: anything, or what it finally   *)
(* answered before.                                                        *)
Answer(t, status) ==
    /\ verdict[t] \in {"none", status}
    /\ verdict' = IF Stable /\ status \in Final
                  THEN [verdict EXCEPT ![t] = status]
                  ELSE verdict

(* Mutant: the queries miss the tasks that have not started.               *)
Unfinished_Started(t) ==
    ~row[t].full /\ row[t].status \in Waiting \ {"NOT_START"}

\* The rows both queries select: GetTimedOutUnfinishedTasks and
\* GetAllUnFinishSyncTasks.
Unfinished(t) == ~row[t].full /\ row[t].status \in Waiting

Read(a, t) ==
    mine' = [mine EXCEPT ![a][t] =
                [status |-> row[t].status, full |-> row[t].full,
                 quota |-> row[t].quota, submit |-> row[t].submit,
                 snap |-> row[t].status, actual |-> 0, saves |-> FALSE]]

\* The columns that Save and Updates write: all of the actor's copy.
Columns(copy) ==
    [status |-> copy.status, full |-> copy.full, quota |-> copy.quota,
     submit |-> copy.submit]

(* Mutant: the update has no condition on the status.                      *)
WinsCAS_Unconditional(a, t) == TRUE

\* UpdateWithStatus finds the row still in the status the actor read.
WinsCAS(a, t) == row[t].status = mine[a][t].snap

\* RefundTaskQuota returns at once for a task that cost nothing.
AfterDecision(copy) ==
    CASE copy.status = "SUCCESS" -> "settle"
      [] copy.status = "FAILURE" /\ copy.quota # 0 -> "refund"
      [] OTHER -> "idle"

-----------------------------------------------------------------------------
Init ==
    /\ row = [t \in Tasks |-> NoRow]
    /\ profile \in [Tasks -> Profiles]
    /\ verdict = [t \in Tasks |-> "none"]
    /\ timedOut = [t \in Tasks |-> {}]
    /\ pc = [a \in Actors |-> [t \in Tasks |-> "idle"]]
    /\ mine = [a \in Actors |-> [t \in Tasks |-> NoCopy]]
    /\ fundNet = [t \in Tasks |-> 0]
    /\ tokenNet = [t \in Tasks |-> 0]
    /\ waived = [t \in Tasks |-> {}]

(* SettleBilling of the submission moves the funding source and then the   *)
(* token from what was held to the quota; an error of the first leaves both*)
(* as they are, an error of the second only the token.                     *)
SettledTo(t, fund, token) ==
    LET held == profile[t].held
        quota == profile[t].quota
    IN  \/ fund = quota /\ token = quota
        \/ MayFail /\ fund \in {held, quota} /\ token = held

(* RelayTask settles the request, then inserts a row that shows the quota  *)
(* of the submission; an error of either is only logged.                   *)
Submit(t) ==
    /\ row[t].status = "none"
    /\ waived[t] = {}
    /\ \E fund, token \in {profile[t].held, profile[t].quota} :
        /\ SettledTo(t, fund, token)
        /\ fundNet' = [fundNet EXCEPT ![t] = fund]
        /\ tokenNet' = [tokenNet EXCEPT ![t] = token]
        /\ \/ /\ row' = [row EXCEPT ![t] =
                    [status |-> "NOT_START", full |-> FALSE,
                     quota |-> profile[t].quota,
                     submit |-> IF profile[t].legacy THEN "legacy" ELSE "own"]]
              /\ IF fund = token /\ token = profile[t].quota
                 THEN UNCHANGED waived
                 ELSE Waive(t, "unsettled")
           \/ MayFail /\ Waive(t, "fault") /\ UNCHANGED row
    /\ UNCHANGED <<fixed, pc, mine>>

\* TASK_TIMEOUT_MINUTES pass since the submit time that the row shows.
Expire(t) ==
    /\ row[t].status # "none"
    /\ row[t].submit \notin timedOut[t]
    /\ timedOut' = [timedOut EXCEPT ![t] = @ \cup {row[t].submit}]
    /\ UNCHANGED <<row, profile, verdict, pc, mine, money, waived>>

-----------------------------------------------------------------------------
(* sweepTimedOutTasks *)

SweepRead(p, t) ==
    /\ pc[p][t] = "idle"
    /\ SweepEnabled
    /\ row[t].submit \in timedOut[t]
    /\ Unfinished(t)
    /\ Read(p, t)
    /\ Goto(p, t, "sweep")
    /\ UNCHANGED <<row, fixed, money, waived>>

SweepWrite(p, t) ==
    LET failed == [Columns(mine[p][t]) EXCEPT !.status = "FAILURE",
                                              !.full = TRUE]
    IN  /\ pc[p][t] = "sweep"
        /\ \/ /\ WinsCAS(p, t)
              /\ row' = [row EXCEPT ![t] = failed]
              /\ IF mine[p][t].submit = "legacy"
                 THEN Goto(p, t, "idle") /\ Waive(t, "legacy")
                 ELSE Goto(p, t, AfterDecision(failed)) /\ UNCHANGED waived
           \/ /\ ~WinsCAS(p, t) \/ MayFail
              /\ Goto(p, t, "idle")
              /\ UNCHANGED <<row, waived>>
        /\ UNCHANGED <<fixed, mine, money>>

-----------------------------------------------------------------------------
(* The polling pass proper *)

PollRead(p, t) ==
    /\ pc[p][t] = "idle"
    /\ Unfinished(t)
    /\ Read(p, t)
    /\ Goto(p, t, "poll")
    /\ UNCHANGED <<row, fixed, money, waived>>

(* TaskBulkUpdateByID fails the row whatever its status has become: for a  *)
(* task without any id, and when CacheGetChannel does not find the channel.*)
BulkFail(p, t) ==
    /\ pc[p][t] = "poll"
    /\ profile[t].noId \/ "channel" \in Faults
    /\ \/ /\ row' = [row EXCEPT ![t].status = "FAILURE", ![t].full = TRUE]
          /\ Waive(t, "bulk")
       \/ MayFail /\ UNCHANGED <<row, waived>>
    /\ Goto(p, t, "idle")
    /\ UNCHANGED <<fixed, mine, money>>

(* Nothing comes of this pass for the task: its context was cancelled, the *)
(* request failed, the answer was not understood or was a 429.             *)
NoReport(p, t) ==
    /\ pc[p][t] = "poll"
    /\ Goto(p, t, "idle")
    /\ UNCHANGED <<row, fixed, mine, money, waived>>

(* updateVideoSingleTask up to the write: the status the upstream reports  *)
(* (an unknown error counts as FAILURE) and its progress.  A failure is    *)
(* always complete; the progress of the other reports is the upstream's.   *)
VideoReport(p, t) ==
    /\ pc[p][t] = "poll"
    /\ profile[t].kind # "suno"
    /\ ~profile[t].noId
    /\ \E status \in (Waiting \ {"NOT_START"}) \cup Final, full \in BOOLEAN :
        /\ Answer(t, status)
        /\ status = "FAILURE" => full
        /\ profile[t].kind = "realtime" => status \in ThreeWay
        /\ mine' = [mine EXCEPT ![p][t].status = status, ![p][t].full = full]
    /\ Goto(p, t, "write")
    /\ UNCHANGED <<row, profile, timedOut, money, waived>>

(* Mutant: a report that does not decide the task is written with Update.  *)
VideoWrite_PlainProgress(p, t) ==
    /\ pc[p][t] = "write"
    /\ \/ /\ WinsCAS(p, t) \/ mine[p][t].status \notin Final
          /\ row' = [row EXCEPT ![t] = Columns(mine[p][t])]
          /\ Goto(p, t, AfterDecision(mine[p][t]))
       \/ /\ ~WinsCAS(p, t) \/ MayFail
          /\ Goto(p, t, "idle")
          /\ UNCHANGED row
    /\ UNCHANGED <<fixed, mine, money, waived>>

\* The write that decides or advances a video task, and whether it bills; a
\* report that changes nothing is not written.
VideoWrite(p, t) ==
    /\ pc[p][t] = "write"
    /\ \/ /\ WinsCAS(p, t)
          /\ row' = [row EXCEPT ![t] = Columns(mine[p][t])]
          /\ Goto(p, t, AfterDecision(mine[p][t]))
       \/ /\ ~WinsCAS(p, t) \/ MayFail \/ mine[p][t].status = mine[p][t].snap
          /\ Goto(p, t, "idle")
          /\ UNCHANGED row
    /\ UNCHANGED <<fixed, mine, money, waived>>

(* The copy after one item of the answer: an empty status keeps the status,*)
(* and a submit time that is not zero replaces that of the copy.           *)
SunoItem(copy, reported, reason, submit) ==
    LET status == IF reported = "none" THEN copy.status ELSE reported
    IN  [copy EXCEPT !.status = status,
                     !.full = \/ @ \/ reason \/ status = "FAILURE"
                              \/ reported = "SUCCESS",
                     !.submit = submit,
                     !.saves = TRUE]

(* updateSunoTasks for one item: a fail reason refunds whatever the status *)
(* is, and the refund comes before the row is saved.                       *)
SunoReport(p, t) ==
    /\ pc[p][t] = "poll"
    /\ profile[t].kind = "suno"
    /\ ~profile[t].noId
    /\ \E reported \in RowStatus, reason \in BOOLEAN, submit \in SubmitTimes :
        LET copy == SunoItem(mine[p][t], reported, reason, submit)
            refund == reason \/ copy.status = "FAILURE"
        IN  /\ Answer(t, copy.status)
            /\ mine' = [mine EXCEPT ![p][t] = copy]
            /\ Goto(p, t, IF refund /\ copy.quota # 0 THEN "refund" ELSE "save")
    /\ UNCHANGED <<row, profile, timedOut, money, waived>>

\* task.Update(): the whole copy, whatever the row has become.
SunoSave(p, t) ==
    /\ pc[p][t] = "save"
    /\ \/ row' = [row EXCEPT ![t] = Columns(mine[p][t])]
       \/ MayFail /\ UNCHANGED row
    /\ Goto(p, t, "idle")
    /\ UNCHANGED <<fixed, mine, money, waived>>

-----------------------------------------------------------------------------
(* Settlement and refund; every storage call is a step *)

\* Where RefundTaskQuota returns to.
AfterRefund(p, t) == IF mine[p][t].saves THEN "save" ELSE "idle"

(* settleTaskBillingOnComplete and the first storage call of               *)
(* RecalculateTaskQuota.                                                   *)
Settle(p, t) ==
    /\ pc[p][t] = "settle"
    /\ \/ /\ profile[t].perCall
          /\ Goto(p, t, "idle")
          /\ UNCHANGED <<mine, fundNet, waived>>
       \/ /\ ~profile[t].perCall
          /\ \E actual \in ActualQuotas :
              IF actual \in {0, mine[p][t].quota}
              THEN Goto(p, t, "idle") /\ UNCHANGED <<mine, fundNet, waived>>
              ELSE \/ /\ fundNet' = [fundNet EXCEPT
                                ![t] = @ + actual - mine[p][t].quota]
                      /\ mine' = [mine EXCEPT ![p][t].actual = actual]
                      /\ Goto(p, t, "settleToken")
                      /\ UNCHANGED waived
                   \/ /\ MayFail
                      /\ Waive(t, "fault")
                      /\ Goto(p, t, "idle")
                      /\ UNCHANGED <<mine, fundNet>>
    /\ UNCHANGED <<row, fixed, tokenNet>>

\* taskAdjustTokenQuota by n; an error, or a token deleted meanwhile, is
\* passed over.
AdjustToken(t, n) ==
    \/ tokenNet' = [tokenNet EXCEPT ![t] = @ + n] /\ UNCHANGED waived
    \/ MayFail /\ Waive(t, "fault") /\ UNCHANGED tokenNet

(* Mutant: only the funding source is settled.                             *)
SettleToken_Forgotten(p, t) ==
    /\ pc[p][t] = "settleToken"
    /\ Goto(p, t, "settleQuota")
    /\ UNCHANGED <<row, fixed, mine, money, waived>>

SettleToken(p, t) ==
    /\ pc[p][t] = "settleToken"
    /\ AdjustToken(t, mine[p][t].actual - mine[p][t].quota)
    /\ Goto(p, t, "settleQuota")
    /\ UNCHANGED <<row, fixed, mine, fundNet>>

(* Mutant: the difference is written in place of the cost.                 *)
SettleQuota_Delta(p, t) ==
    /\ pc[p][t] = "settleQuota"
    /\ row' = [row EXCEPT ![t].quota = mine[p][t].actual - @]
    /\ Goto(p, t, "idle")
    /\ UNCHANGED <<fixed, mine, money, waived>>

\* task.UpdateQuota()
SettleQuota(p, t) ==
    /\ pc[p][t] = "settleQuota"
    /\ \/ row' = [row EXCEPT ![t].quota = mine[p][t].actual] /\ UNCHANGED waived
       \/ MayFail /\ Waive(t, "fault") /\ UNCHANGED row
    /\ Goto(p, t, "idle")
    /\ UNCHANGED <<fixed, mine, money>>

(* Mutant: a refund that returned an error after its update is repeated.   *)
RefundFund_Retried(p, t) ==
    /\ pc[p][t] = "refund"
    /\ fundNet' = [fundNet EXCEPT ![t] = @ - mine[p][t].quota]
    /\ Goto(p, t, "refundToken") \/ (MayFail /\ UNCHANGED pc)
    /\ UNCHANGED <<row, fixed, mine, tokenNet, waived>>

\* RefundTaskQuota: the funding source; an error ends the refund.
RefundFund(p, t) ==
    /\ pc[p][t] = "refund"
    /\ \/ /\ fundNet' = [fundNet EXCEPT ![t] = @ - mine[p][t].quota]
          /\ Goto(p, t, "refundToken")
          /\ UNCHANGED waived
       \/ /\ MayFail
          /\ Waive(t, "fault")
          /\ Goto(p, t, AfterRefund(p, t))
          /\ UNCHANGED fundNet
    /\ UNCHANGED <<row, fixed, mine, tokenNet>>

RefundToken(p, t) ==
    /\ pc[p][t] = "refundToken"
    /\ AdjustToken(t, -mine[p][t].quota)
    /\ Goto(p, t, AfterRefund(p, t))
    /\ UNCHANGED <<row, fixed, mine, fundNet>>

-----------------------------------------------------------------------------
(* tryRealtimeFetch: a user looks at a task of a Gemini or Vertex channel. *)

FetchRead(u, t) ==
    /\ pc[u][t] = "idle"
    /\ profile[t].kind = "realtime"
    /\ row[t].status # "none"
    /\ Read(u, t)
    /\ Goto(u, t, "fetch")
    /\ UNCHANGED <<row, fixed, money, waived>>

(* What is not done is at 50%.  An unchanged snapshot is not written; an   *)
(* error of the request or of its answer ends the look.                    *)
FetchReport(u, t) ==
    /\ pc[u][t] = "fetch"
    /\ \E status \in ThreeWay :
        LET copy == [mine[u][t] EXCEPT !.status = status,
                                       !.full = status \in Final]
        IN  /\ Answer(t, status)
            /\ mine' = [mine EXCEPT ![u][t] = copy]
            /\ Goto(u, t, IF Columns(copy) = Columns(mine[u][t])
                          THEN "over" ELSE "fetchWrite")
    /\ UNCHANGED <<row, profile, timedOut, money, waived>>

FetchFails(u, t) ==
    /\ pc[u][t] = "fetch"
    /\ Goto(u, t, "over")
    /\ UNCHANGED <<row, fixed, mine, money, waived>>

\* The write, the result of which is ignored; nothing is billed.
FetchWrite(u, t) ==
    /\ pc[u][t] = "fetchWrite"
    /\ \/ /\ WinsCAS(u, t)
          /\ row' = [row EXCEPT ![t] = Columns(mine[u][t])]
          /\ Waive(t, "user")
       \/ /\ ~WinsCAS(u, t) \/ MayFail
          /\ UNCHANGED <<row, waived>>
    /\ Goto(u, t, "over")
    /\ UNCHANGED <<fixed, mine, money>>

-----------------------------------------------------------------------------
\* The process dies and all it was doing with it.
Crash(p) ==
    /\ "crash" \in Faults
    /\ \E t \in Tasks : pc[p][t] # "idle"
    /\ pc' = [pc EXCEPT ![p] = [t \in Tasks |-> "idle"]]
    /\ waived' = [t \in Tasks |-> IF pc[p][t] \in BillingPC
                                  THEN waived[t] \cup {"crash"}
                                  ELSE waived[t]]
    /\ UNCHANGED <<row, fixed, mine, money>>

PollerStep(p, t) ==
    \/ SweepRead(p, t) \/ SweepWrite(p, t) \/ PollRead(p, t)
    \/ BulkFail(p, t) \/ NoReport(p, t) \/ VideoReport(p, t)
    \/ VideoWrite(p, t) \/ SunoReport(p, t) \/ SunoSave(p, t)
    \/ Settle(p, t) \/ SettleToken(p, t) \/ SettleQuota(p, t)
    \/ RefundFund(p, t) \/ RefundToken(p, t)

FetcherStep(u, t) ==
    FetchRead(u, t) \/ FetchReport(u, t) \/ FetchFails(u, t) \/ FetchWrite(u, t)

Next ==
    \/ \E t \in Tasks : Submit(t) \/ Expire(t)
    \/ \E p \in Pollers, t \in Tasks : PollerStep(p, t)
    \/ \E u \in Fetchers, t \in Tasks : FetcherStep(u, t)
    \/ \E p \in Pollers : Crash(p)

Spec == Init /\ [][Next]_vars

(* Polling passes keep being started while a row is unfinished, each of    *)
(* them sweeps before it polls, and time passes.                           *)
Fairness ==
    /\ \A t \in Tasks : WF_vars(Expire(t))
    /\ \A p \in Pollers, t \in Tasks :
        WF_vars(PollerStep(p, t)) /\ SF_vars(SweepRead(p, t))

FairSpec == Spec /\ Fairness

-----------------------------------------------------------------------------
\* The state of the rows, the actors and the books has its type.
TypeOK ==
    /\ row \in [Tasks -> RowType]
    /\ profile \in [Tasks -> Profiles]
    /\ verdict \in [Tasks -> {"none"} \cup Final]
    /\ timedOut \in [Tasks -> SUBSET SubmitTimes]
    /\ pc \in [Actors -> [Tasks -> ActorPC]]
    /\ mine \in [Actors -> [Tasks -> CopyType]]
    /\ fundNet \in [Tasks -> Int]
    /\ tokenNet \in [Tasks -> Int]
    /\ waived \in [Tasks -> SUBSET Reasons]

\* No actor is between deciding the task and its last billing step.
Quiet(t) == \A a \in Actors : pc[a][t] \notin BillingPC

\* What a failed SettleBilling left uncollected although the row shows it.
Uncollected(t) ==
    IF "unsettled" \in waived[t] /\ profile[t].quota > profile[t].held
    THEN profile[t].quota - profile[t].held
    ELSE 0

(* RefundTaskQuota gives back what was taken: whatever two overlapping     *)
(* passes, the sweep, failed statements and crashes do, neither account of *)
(* a task goes below zero.  There is one exception, and it is bounded: the *)
(* row shows the full price even when SettleBilling failed to collect the  *)
(* part above the reservation, and at most that part comes back as well.   *)
NeverOverRefunded ==
    \A t \in Tasks : /\ fundNet[t] + Uncollected(t) >= 0
                     /\ tokenNet[t] + Uncollected(t) >= 0

(* The books of a finished task close: when its settlement or refund is    *)
(* over and no failure, bulk update or legacy rule interfered, a failed    *)
(* task has cost nothing and a successful one costs, on both accounts,     *)
(* exactly the quota its row shows.                                        *)
BooksClose ==
    \A t \in Tasks :
        row[t].status \in Final /\ Quiet(t) /\ waived[t] = {} =>
            LET due == IF row[t].status = "FAILURE" THEN 0 ELSE row[t].quota
            IN  fundNet[t] = due /\ tokenNet[t] = due

(* "When an asynchronous task fails, the quota consumed in advance is given*)
(* back" (RefundTaskQuota): every task of the new system that failed       *)
(* without a storage error or a crash has cost nothing.                    *)
FailedRefunded ==
    \A t \in Tasks :
        /\ row[t].status = "FAILURE"
        /\ Quiet(t)
        /\ waived[t] \cap {"legacy", "fault", "crash", "unsettled"} = {}
        => fundNet[t] = 0

(* A failed task stays failed: no late answer and no slower pass revives a *)
(* row that the sweep or another pass has failed and refunded.             *)
FailureIsFinal ==
    [][\A t \in Tasks :
        row[t].status = "FAILURE" => row'[t].status = "FAILURE"]_vars

(* One pass bills a task: of all that decided it at the same time, only    *)
(* the one that won the compare-and-set settles or refunds it.             *)
OneBiller ==
    \A t \in Tasks, a, b \in Actors :
        pc[a][t] \in BillingPC /\ pc[b][t] \in BillingPC => a = b

\* The row shows 100% in a status that is not final: neither query selects it.
OutOfReach(t) == row[t].full /\ row[t].status \in Waiting

(* Every submitted task ends, if only by the sweep, even if the upstream   *)
(* stays silent, takes answers back or moves the submit time of a Suno     *)
(* task to a later date, as long as that date passes.  The exception is the*)
(* row to which an upstream wrote 100%, or the reason of a failure, without*)
(* a final status.                                                         *)
TaskEnds ==
    \A t \in Tasks :
        row[t].status # "none" ~> row[t].status \in Final \/ OutOfReach(t)
============================================================================
