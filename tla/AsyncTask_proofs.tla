-------------------------- MODULE AsyncTask_proofs --------------------------
(***************************************************************************)
(* Proofs about AsyncTask, for every set of tasks and polling processes,   *)
(* every price and every combination of failures.                          *)
(***************************************************************************)
EXTENDS AsyncTask, TLAPS

(* Every write that decides a task goes through UpdateWithStatus: there is *)
(* no Suno task, and nobody looks at a task of a Gemini or Vertex channel. *)
Guarded ==
    \A p \in Profiles :
        p.kind # "suno" /\ (p.kind = "realtime" => Fetchers = {})

ReadingPC == {"sweep", "poll", "write"}
RefundPC == {"refund", "refundToken"}

(* A pass holds a copy that it read while the row was waiting, with the    *)
(* price of the submission.                                                *)
CopyOK(a, t) ==
    /\ pc[a][t] \in {"idle"} \cup ReadingPC \cup BillingPC
    /\ pc[a][t] # "idle" => /\ mine[a][t].quota = profile[t].quota
                            /\ ~mine[a][t].saves
    /\ pc[a][t] \in ReadingPC => mine[a][t].snap \in Waiting

(* How far an account may be from what the row shows: not at all, or, when *)
(* the submission could not be settled, by what the settlement would have  *)
(* moved.                                                                  *)
Gaps(t) == IF "unsettled" \in waived[t]
           THEN {0, profile[t].held - profile[t].quota}
           ELSE {0}

(* What the accounts show while a pass settles or refunds the task.        *)
FundDue(a, t) ==
    CASE pc[a][t] \in {"settle", "refund"} -> profile[t].quota
      [] pc[a][t] = "refundToken" -> 0
      [] OTHER -> mine[a][t].actual

TokenDue(a, t) ==
    IF pc[a][t] = "settleQuota" THEN mine[a][t].actual ELSE profile[t].quota

BillerOK(a, t) ==
    pc[a][t] \in BillingPC =>
        /\ row[t].status \in Final
        /\ row[t].quota = profile[t].quota
        /\ IF pc[a][t] \in RefundPC
           THEN row[t].status = "FAILURE"
           ELSE row[t].status = "SUCCESS" \/ waived[t] # {}
        /\ fundNet[t] - FundDue(a, t) \in Gaps(t)
        /\ \/ tokenNet[t] - TokenDue(a, t) \in Gaps(t)
           \/ /\ pc[a][t] = "settleQuota" /\ waived[t] # {}
              /\ tokenNet[t] - profile[t].quota \in Gaps(t)

(* Neither account is below zero by more than what was left uncollected.   *)
Bounded(t) ==
    /\ fundNet[t] + Uncollected(t) >= 0
    /\ tokenNet[t] + Uncollected(t) >= 0

(* A waiting row carries the price of the submission and was charged it, or*)
(* is on record as unsettled; a final one has closed books when nobody is  *)
(* at work on it.                                                          *)
RowOK(t) ==
    /\ Bounded(t)
    /\ row[t].status \in Waiting =>
         /\ row[t].quota = profile[t].quota
         /\ fundNet[t] - profile[t].quota \in Gaps(t)
         /\ tokenNet[t] - profile[t].quota \in Gaps(t)
    /\ row[t].status \in Final /\ Quiet(t) /\ waived[t] = {} =>
         LET due == IF row[t].status = "FAILURE" THEN 0 ELSE row[t].quota
         IN  fundNet[t] = due /\ tokenNet[t] = due

TaskOK(t) ==
    /\ \A a \in Actors : CopyOK(a, t) /\ BillerOK(a, t)
    /\ \A a, b \in Actors :
         pc[a][t] \in BillingPC /\ pc[b][t] \in BillingPC => a = b
    /\ RowOK(t)

AllTasks == \A t \in Tasks : TaskOK(t)
Inv == TypeOK /\ AllTasks

-----------------------------------------------------------------------------
(* Types.                                                                  *)

(* Goto moves one actor on one task and nothing else.                      *)
LEMMA GotoAt ==
    ASSUME TypeOK, NEW a \in Actors, NEW t \in Tasks, NEW label \in ActorPC,
           Goto(a, t, label)
    PROVE  /\ pc' \in [Actors -> [Tasks -> ActorPC]]
           /\ pc'[a][t] = label
           /\ \A b \in Actors, s \in Tasks :
                b # a \/ s # t => pc'[b][s] = pc[b][s]
  BY DEF TypeOK, Goto

(* So does an assignment to the copy of one actor.                         *)
LEMMA CopyAt ==
    ASSUME TypeOK, NEW a \in Actors, NEW t \in Tasks, NEW copy \in CopyType,
           mine' = [mine EXCEPT ![a][t] = copy]
    PROVE  /\ mine' \in [Actors -> [Tasks -> CopyType]]
           /\ mine'[a][t] = copy
           /\ \A b \in Actors, s \in Tasks :
                b # a \/ s # t => mine'[b][s] = mine[b][s]
  BY DEF TypeOK

(* The parts of a well-typed state.                                        *)
LEMMA Parts ==
    ASSUME TypeOK, NEW a \in Actors, NEW t \in Tasks
    PROVE  /\ row[t] \in RowType
           /\ profile[t] \in ProfileType
           /\ profile[t].quota \in Nat
           /\ profile[t].held \in Nat
           /\ mine[a][t] \in CopyType
           /\ pc[a][t] \in ActorPC
           /\ fundNet[t] \in Int
           /\ tokenNet[t] \in Int
           /\ waived[t] \in SUBSET Reasons
  BY AsyncTaskAssumption DEF TypeOK, ProfileType

(* Waiving adds one reason to one task.                                    *)
LEMMA WaiveAt ==
    ASSUME TypeOK, NEW t \in Tasks, NEW reason \in Reasons, Waive(t, reason)
    PROVE  /\ waived' \in [Tasks -> SUBSET Reasons]
           /\ waived'[t] = waived[t] \cup {reason}
           /\ waived'[t] # {}
           /\ \A s \in Tasks : s # t => waived'[s] = waived[s]
  BY DEF TypeOK, Waive

(* The copy a pass or a user takes of a row.                               *)
CopyOf(t) ==
    [status |-> row[t].status, full |-> row[t].full, quota |-> row[t].quota,
     submit |-> row[t].submit, snap |-> row[t].status, actual |-> 0, saves |-> FALSE]

LEMMA ReadAt ==
    ASSUME TypeOK, NEW a \in Actors, NEW t \in Tasks, Read(a, t)
    PROVE  /\ CopyOf(t) \in CopyType
           /\ mine' = [mine EXCEPT ![a][t] = CopyOf(t)]
  BY Parts DEF Read, CopyOf, CopyType, RowType

(* A write changes one row.                                                *)
LEMMA RowAt ==
    ASSUME TypeOK, NEW t \in Tasks, NEW r \in RowType,
           row' = [row EXCEPT ![t] = r]
    PROVE  /\ row' \in [Tasks -> RowType]
           /\ row'[t] = r
           /\ \A s \in Tasks : s # t => row'[s] = row[s]
  BY DEF TypeOK

(* The columns of a copy make a row.                                       *)
LEMMA ColumnsType ==
    ASSUME NEW copy \in CopyType
    PROVE  Columns(copy) \in RowType
  BY DEF Columns, RowType, CopyType

(* A row is its fields.                                                    *)
LEMMA RowFields ==
    ASSUME NEW r \in RowType
    PROVE  r = [status |-> r.status, full |-> r.full, quota |-> r.quota,
                submit |-> r.submit]
  BY DEF RowType

(* The row that the sweep writes.                                          *)
SweptRow(copy) == [status |-> "FAILURE", full |-> TRUE, quota |-> copy.quota,
                   submit |-> copy.submit]

LEMMA SweptRowType ==
    ASSUME NEW copy \in CopyType
    PROVE  /\ SweptRow(copy) \in RowType
           /\ [Columns(copy) EXCEPT !.status = "FAILURE", !.full = TRUE]
                = SweptRow(copy)
  <1>1. SweptRow(copy) \in RowType
    BY DEF RowType, CopyType, SweptRow, RowStatus, Final
  <1> DEFINE swept == [Columns(copy) EXCEPT !.status = "FAILURE", !.full = TRUE]
  <1>2. swept \in RowType
    BY ColumnsType DEF RowType, RowStatus, Final
  <1>3. /\ swept.status = "FAILURE"
        /\ swept.full = TRUE
        /\ swept.quota = copy.quota
        /\ swept.submit = copy.submit
    BY DEF Columns
  <1>4. swept = SweptRow(copy)
    <2> HIDE DEF swept
    <2> QED BY <1>2, <1>3, RowFields DEF SweptRow
  <1> QED BY <1>1, <1>4

(* The row after a bulk failure, and after its quota was settled.          *)
LEMMA RowFieldsType ==
    ASSUME TypeOK, NEW t \in Tasks, NEW n \in Nat
    PROVE  /\ [row[t] EXCEPT !.status = "FAILURE", !.full = TRUE] \in RowType
           /\ [row[t] EXCEPT !.quota = n] \in RowType
  <1>1. row[t] \in RowType
    BY DEF TypeOK
  <1> QED BY <1>1 DEF RowType, RowStatus, Final

(* The copy after a report of the upstream, and with the actual cost.      *)
LEMMA CopyFieldsType ==
    ASSUME NEW copy \in CopyType, NEW status \in RowStatus, NEW full \in BOOLEAN
    PROVE  [copy EXCEPT !.status = status, !.full = full] \in CopyType
  BY DEF CopyType

LEMMA CopyActualType ==
    ASSUME NEW copy \in CopyType, NEW n \in Nat
    PROVE  [copy EXCEPT !.actual = n] \in CopyType
  BY DEF CopyType

(* What updateSunoTasks puts into its copy of a task.                      *)
LEMMA SunoItemType ==
    ASSUME NEW copy \in CopyType, NEW reported \in RowStatus,
           NEW reason \in BOOLEAN, NEW submit \in SubmitTimes
    PROVE  SunoItem(copy, reported, reason, submit) \in CopyType
  <1> DEFINE status == IF reported = "none" THEN copy.status ELSE reported
             full == \/ copy.full \/ reason \/ status = "FAILURE"
                     \/ reported = "SUCCESS"
  <1>1. status \in RowStatus /\ full \in BOOLEAN
    BY DEF CopyType
  <1>2. SunoItem(copy, reported, reason, submit)
          = [copy EXCEPT !.status = status, !.full = full, !.submit = submit,
                         !.saves = TRUE]
    BY Zenon DEF SunoItem
  <1> HIDE DEF status, full
  <1> QED BY <1>1, <1>2 DEF CopyType

LEMMA PollerType ==
    ASSUME TypeOK, NEW p \in Pollers, NEW t \in Tasks, PollerStep(p, t)
    PROVE  TypeOK'
  <1> p \in Actors
    BY DEF Actors
  <1>p. /\ row[t] \in RowType
        /\ mine[p][t] \in CopyType
        /\ profile[t].quota \in Nat
    BY Parts
  <1> USE DEF TypeOK
  <1>1. CASE SweepRead(p, t)
    <2>1. pc' \in [Actors -> [Tasks -> ActorPC]]
      BY <1>1, GotoAt DEF SweepRead, ActorPC
    <2>2. mine' \in [Actors -> [Tasks -> CopyType]]
      <3>1. mine' = [mine EXCEPT ![p][t] = CopyOf(t)] /\ CopyOf(t) \in CopyType
        BY <1>1, ReadAt DEF SweepRead
      <3> QED BY <3>1, CopyAt
    <2> QED BY <1>1, <2>1, <2>2 DEF SweepRead, fixed, money
  <1>2. CASE SweepWrite(p, t)
    <2>1. pc' \in [Actors -> [Tasks -> ActorPC]]
      BY <1>2, GotoAt DEF SweepWrite, AfterDecision, ActorPC
    <2>2. row' \in [Tasks -> RowType]
      BY <1>2, <1>p, SweptRowType, RowAt DEF SweepWrite
    <2>3. waived' \in [Tasks -> SUBSET Reasons]
      BY <1>2, WaiveAt DEF SweepWrite, Reasons
    <2> QED BY <1>2, <2>1, <2>2, <2>3 DEF SweepWrite, fixed, money
  <1>3. CASE PollRead(p, t)
    <2>1. pc' \in [Actors -> [Tasks -> ActorPC]]
      BY <1>3, GotoAt DEF PollRead, ActorPC
    <2>2. mine' \in [Actors -> [Tasks -> CopyType]]
      <3>1. mine' = [mine EXCEPT ![p][t] = CopyOf(t)] /\ CopyOf(t) \in CopyType
        BY <1>3, ReadAt DEF PollRead
      <3> QED BY <3>1, CopyAt
    <2> QED BY <1>3, <2>1, <2>2 DEF PollRead, fixed, money
  <1>4. CASE BulkFail(p, t)
    <2>1. pc' \in [Actors -> [Tasks -> ActorPC]]
      BY <1>4, GotoAt DEF BulkFail, ActorPC
    <2>2. row' \in [Tasks -> RowType]
      <3>1. CASE row' = [row EXCEPT ![t].status = "FAILURE", ![t].full = TRUE]
        <4>1. row' = [row EXCEPT ![t] = [row[t] EXCEPT !.status = "FAILURE",
                                                       !.full = TRUE]]
          BY <3>1
        <4> QED BY <4>1, RowFieldsType, RowAt
      <3> QED BY <1>4, <3>1 DEF BulkFail
    <2>3. waived' \in [Tasks -> SUBSET Reasons]
      BY <1>4, WaiveAt DEF BulkFail, Reasons
    <2> QED BY <1>4, <2>1, <2>2, <2>3 DEF BulkFail, fixed, money
  <1>5. CASE NoReport(p, t)
    <2>1. pc' \in [Actors -> [Tasks -> ActorPC]]
      BY <1>5, GotoAt DEF NoReport, ActorPC
    <2> QED BY <1>5, <2>1 DEF NoReport, fixed, money
  <1>6. CASE VideoReport(p, t)
    <2>1. pc' \in [Actors -> [Tasks -> ActorPC]]
      BY <1>6, GotoAt DEF VideoReport, ActorPC
    <2>2. mine' \in [Actors -> [Tasks -> CopyType]]
      <3>1. PICK status \in RowStatus, full \in BOOLEAN :
              mine' = [mine EXCEPT ![p][t].status = status, ![p][t].full = full]
        BY <1>6 DEF VideoReport, RowStatus
      <3>2. mine' = [mine EXCEPT ![p][t] =
                        [mine[p][t] EXCEPT !.status = status, !.full = full]]
        BY <3>1
      <3> QED BY <1>p, <3>2, CopyFieldsType, CopyAt
    <2>3. verdict' \in [Tasks -> {"none"} \cup Final]
      BY <1>6 DEF VideoReport, Answer
    <2> QED BY <1>6, <2>1, <2>2, <2>3 DEF VideoReport, money
  <1>7. CASE VideoWrite(p, t)
    <2>1. pc' \in [Actors -> [Tasks -> ActorPC]]
      BY <1>7, GotoAt DEF VideoWrite, AfterDecision, ActorPC
    <2>2. row' \in [Tasks -> RowType]
      BY <1>7, <1>p, ColumnsType, RowAt DEF VideoWrite
    <2> QED BY <1>7, <2>1, <2>2 DEF VideoWrite, fixed, money
  <1>8. CASE SunoReport(p, t)
    <2>1. pc' \in [Actors -> [Tasks -> ActorPC]]
      BY <1>8, GotoAt DEF SunoReport, ActorPC
    <2>2. mine' \in [Actors -> [Tasks -> CopyType]]
      <3>1. PICK reported \in RowStatus, reason \in BOOLEAN,
                 submit \in SubmitTimes :
              mine' = [mine EXCEPT ![p][t] =
                          SunoItem(mine[p][t], reported, reason, submit)]
        BY <1>8 DEF SunoReport
      <3> QED BY <1>p, <3>1, SunoItemType, CopyAt
    <2>3. verdict' \in [Tasks -> {"none"} \cup Final]
      BY <1>8 DEF SunoReport, Answer
    <2> QED BY <1>8, <2>1, <2>2, <2>3 DEF SunoReport, money
  <1>9. CASE SunoSave(p, t)
    <2>1. pc' \in [Actors -> [Tasks -> ActorPC]]
      BY <1>9, GotoAt DEF SunoSave, ActorPC
    <2>2. row' \in [Tasks -> RowType]
      BY <1>9, <1>p, ColumnsType, RowAt DEF SunoSave
    <2> QED BY <1>9, <2>1, <2>2 DEF SunoSave, fixed, money
  <1>10. CASE Settle(p, t)
    <2>1. pc' \in [Actors -> [Tasks -> ActorPC]]
      BY <1>10, GotoAt DEF Settle, ActorPC
    <2>2. mine' \in [Actors -> [Tasks -> CopyType]]
      <3>1. CASE \E n \in Nat : mine' = [mine EXCEPT ![p][t].actual = n]
        <4>1. PICK n \in Nat : mine' = [mine EXCEPT ![p][t].actual = n]
          BY <3>1
        <4>2. mine' = [mine EXCEPT ![p][t] = [mine[p][t] EXCEPT !.actual = n]]
          BY <4>1
        <4> QED BY <1>p, <4>2, CopyActualType, CopyAt
      <3> QED BY <1>10, <3>1, AsyncTaskAssumption DEF Settle
    <2>3. waived' \in [Tasks -> SUBSET Reasons]
      BY <1>10, WaiveAt DEF Settle, Reasons
    <2>4. fundNet' \in [Tasks -> Int]
      BY <1>10, <1>p, AsyncTaskAssumption DEF Settle, CopyType
    <2> QED BY <1>10, <2>1, <2>2, <2>3, <2>4 DEF Settle, fixed
  <1>11. CASE SettleToken(p, t)
    <2>1. pc' \in [Actors -> [Tasks -> ActorPC]]
      BY <1>11, GotoAt DEF SettleToken, ActorPC
    <2>2. waived' \in [Tasks -> SUBSET Reasons]
      BY <1>11, WaiveAt DEF SettleToken, AdjustToken, Reasons
    <2>3. tokenNet' \in [Tasks -> Int]
      BY <1>11, <1>p DEF SettleToken, AdjustToken, CopyType
    <2> QED BY <1>11, <2>1, <2>2, <2>3 DEF SettleToken, fixed
  <1>12. CASE SettleQuota(p, t)
    <2>1. pc' \in [Actors -> [Tasks -> ActorPC]]
      BY <1>12, GotoAt DEF SettleQuota, ActorPC
    <2>2. waived' \in [Tasks -> SUBSET Reasons]
      BY <1>12, WaiveAt DEF SettleQuota, Reasons
    <2>3. row' \in [Tasks -> RowType]
      <3>1. CASE row' = [row EXCEPT ![t].quota = mine[p][t].actual]
        <4>1. row' = [row EXCEPT ![t] = [row[t] EXCEPT !.quota =
                                                       mine[p][t].actual]]
          BY <3>1
        <4>2. mine[p][t].actual \in Nat
          BY <1>p DEF CopyType
        <4> QED BY <4>1, <4>2, RowFieldsType, RowAt
      <3> QED BY <1>12, <3>1 DEF SettleQuota
    <2> QED BY <1>12, <2>1, <2>2, <2>3 DEF SettleQuota, fixed, money
  <1>13. CASE RefundFund(p, t)
    <2>1. pc' \in [Actors -> [Tasks -> ActorPC]]
      BY <1>13, GotoAt DEF RefundFund, AfterRefund, ActorPC
    <2>2. waived' \in [Tasks -> SUBSET Reasons]
      BY <1>13, WaiveAt DEF RefundFund, Reasons
    <2>3. fundNet' \in [Tasks -> Int]
      BY <1>13, <1>p DEF RefundFund, CopyType
    <2> QED BY <1>13, <2>1, <2>2, <2>3 DEF RefundFund, fixed
  <1>14. CASE RefundToken(p, t)
    <2>1. pc' \in [Actors -> [Tasks -> ActorPC]]
      BY <1>14, GotoAt DEF RefundToken, AfterRefund, ActorPC
    <2>2. waived' \in [Tasks -> SUBSET Reasons]
      BY <1>14, WaiveAt DEF RefundToken, AdjustToken, Reasons
    <2>3. tokenNet' \in [Tasks -> Int]
      BY <1>14, <1>p DEF RefundToken, AdjustToken, CopyType
    <2> QED BY <1>14, <2>1, <2>2, <2>3 DEF RefundToken, fixed
  <1> QED
    BY <1>1, <1>2, <1>3, <1>4, <1>5, <1>6, <1>7, <1>8, <1>9, <1>10, <1>11,
       <1>12, <1>13, <1>14 DEF PollerStep

(* Nor does a user's look at a task.                                       *)
LEMMA FetcherType ==
    ASSUME TypeOK, NEW u \in Fetchers, NEW t \in Tasks, FetcherStep(u, t)
    PROVE  TypeOK'
  <1> u \in Actors
    BY DEF Actors
  <1>p. row[t] \in RowType /\ mine[u][t] \in CopyType
    BY Parts
  <1> USE DEF TypeOK
  <1>1. CASE FetchRead(u, t)
    <2>1. pc' \in [Actors -> [Tasks -> ActorPC]]
      BY <1>1, GotoAt DEF FetchRead, ActorPC
    <2>2. mine' \in [Actors -> [Tasks -> CopyType]]
      <3>1. mine' = [mine EXCEPT ![u][t] = CopyOf(t)] /\ CopyOf(t) \in CopyType
        BY <1>1, ReadAt DEF FetchRead
      <3> QED BY <3>1, CopyAt
    <2> QED BY <1>1, <2>1, <2>2 DEF FetchRead, fixed, money
  <1>2. CASE FetchReport(u, t)
    <2>1. pc' \in [Actors -> [Tasks -> ActorPC]]
      BY <1>2, GotoAt DEF FetchReport, ActorPC
    <2>2. mine' \in [Actors -> [Tasks -> CopyType]]
      <3>1. PICK status \in ThreeWay :
              mine' = [mine EXCEPT ![u][t] =
                          [mine[u][t] EXCEPT !.status = status,
                                             !.full = status \in Final]]
        BY <1>2 DEF FetchReport
      <3>2. status \in RowStatus /\ (status \in Final) \in BOOLEAN
        BY DEF RowStatus, ThreeWay, Waiting
      <3>3. [mine[u][t] EXCEPT !.status = status, !.full = status \in Final]
              \in CopyType
        BY <1>p, <3>2, CopyFieldsType
      <3> QED BY <3>1, <3>3, CopyAt
    <2>3. verdict' \in [Tasks -> {"none"} \cup Final]
      BY <1>2 DEF FetchReport, Answer
    <2> QED BY <1>2, <2>1, <2>2, <2>3 DEF FetchReport, money
  <1>3. CASE FetchFails(u, t)
    <2>1. pc' \in [Actors -> [Tasks -> ActorPC]]
      BY <1>3, GotoAt DEF FetchFails, ActorPC
    <2> QED BY <1>3, <2>1 DEF FetchFails, fixed, money
  <1>4. CASE FetchWrite(u, t)
    <2>1. pc' \in [Actors -> [Tasks -> ActorPC]]
      BY <1>4, GotoAt DEF FetchWrite, ActorPC
    <2>2. row' \in [Tasks -> RowType]
      BY <1>4, <1>p, ColumnsType, RowAt DEF FetchWrite
    <2>3. waived' \in [Tasks -> SUBSET Reasons]
      BY <1>4, WaiveAt DEF FetchWrite, Reasons
    <2> QED BY <1>4, <2>1, <2>2, <2>3 DEF FetchWrite, fixed, money
  <1> QED BY <1>1, <1>2, <1>3, <1>4 DEF FetcherStep

(* The row that a submission inserts.                                      *)
NewRow(t) ==
    [status |-> "NOT_START", full |-> FALSE, quota |-> profile[t].quota,
     submit |-> IF profile[t].legacy THEN "legacy" ELSE "own"]

(* Submission, the passage of time and crashes keep the types too.         *)
LEMMA EnvironmentType ==
    ASSUME TypeOK,
           \/ \E t \in Tasks : Submit(t) \/ Expire(t)
           \/ \E p \in Pollers : Crash(p)
    PROVE  TypeOK'
  <1>1. ASSUME NEW t \in Tasks, Submit(t) PROVE TypeOK'
    <2>p. profile[t].quota \in Nat /\ profile[t].held \in Nat
      BY AsyncTaskAssumption DEF TypeOK, ProfileType
    <2>1. NewRow(t) \in RowType
      BY <2>p DEF NewRow, RowType, RowStatus, Waiting, SubmitTimes
    <2>2. row' \in [Tasks -> RowType]
      <3>1. CASE row' = [row EXCEPT ![t] = NewRow(t)]
        BY <2>1, <3>1, RowAt
      <3> QED BY <1>1, <3>1 DEF Submit, NewRow, TypeOK
    <2>3. waived' \in [Tasks -> SUBSET Reasons]
      BY <1>1, WaiveAt DEF Submit, Reasons, TypeOK
    <2>4. fundNet' \in [Tasks -> Int] /\ tokenNet' \in [Tasks -> Int]
      <3>1. PICK fund \in {profile[t].held, profile[t].quota},
                 token \in {profile[t].held, profile[t].quota} :
              /\ fundNet' = [fundNet EXCEPT ![t] = fund]
              /\ tokenNet' = [tokenNet EXCEPT ![t] = token]
        BY <1>1 DEF Submit
      <3> QED BY <2>p, <3>1 DEF TypeOK
    <2> QED BY <1>1, <2>2, <2>3, <2>4 DEF Submit, fixed, TypeOK
  <1>2. ASSUME NEW t \in Tasks, Expire(t) PROVE TypeOK'
    BY <1>2 DEF Expire, money, TypeOK, RowType
  <1>3. ASSUME NEW p \in Pollers, Crash(p) PROVE TypeOK'
    <2>1. pc' \in [Actors -> [Tasks -> ActorPC]]
      BY <1>3 DEF Crash, TypeOK, Actors, ActorPC
    <2>2. waived' \in [Tasks -> SUBSET Reasons]
      BY <1>3 DEF Crash, TypeOK, Reasons
    <2> QED BY <1>3, <2>1, <2>2 DEF Crash, fixed, money, TypeOK
  <1> QED BY <1>1, <1>2, <1>3

LEMMA InitType == Init => TypeOK
  BY AsyncTaskAssumption DEF Init, TypeOK, RowType, RowStatus, CopyType, NoCopy,
     NoRow, SubmitTimes, ActorPC

LEMMA TypeStep == TypeOK /\ [Next]_vars => TypeOK'
  <1> SUFFICES ASSUME TypeOK, [Next]_vars PROVE TypeOK'
    OBVIOUS
  <1>1. CASE UNCHANGED vars
    BY <1>1 DEF vars, TypeOK
  <1>2. CASE Next
    BY <1>2, PollerType, FetcherType, EnvironmentType DEF Next
  <1> QED BY <1>1, <1>2

(* Type correctness: rows, copies and books stay in their types whatever   *)
(* passes, looks of users and failures meet, for every kind of task.       *)
THEOREM TypeCorrect == Spec => []TypeOK
  BY InitType, TypeStep, PTL DEF Spec

-----------------------------------------------------------------------------
(* The rows do not depend on each other.                                   *)

(* Everything that TaskOK says about a task is left alone.                 *)
Untouched(s) ==
    /\ row'[s] = row[s]
    /\ profile'[s] = profile[s]
    /\ fundNet'[s] = fundNet[s]
    /\ tokenNet'[s] = tokenNet[s]
    /\ waived'[s] = waived[s]
    /\ \A b \in Actors : pc'[b][s] = pc[b][s] /\ mine'[b][s] = mine[b][s]

LEMMA UntouchedKeeps ==
    ASSUME NEW s \in Tasks, TaskOK(s), Untouched(s)
    PROVE  TaskOK(s)'
  <1>g. Gaps(s)' = Gaps(s) /\ Uncollected(s)' = Uncollected(s)
    BY DEF Untouched, Gaps, Uncollected
  <1>1. ASSUME NEW b \in Actors PROVE CopyOK(b, s)' /\ BillerOK(b, s)'
    BY <1>g DEF TaskOK, Untouched, CopyOK, BillerOK, FundDue, TokenDue
  <1>2. RowOK(s)'
    BY <1>g DEF TaskOK, Untouched, RowOK, Bounded, Quiet
  <1>3. \A b, c \in Actors :
          (pc[b][s] \in BillingPC /\ pc[c][s] \in BillingPC)' => b = c
    BY DEF TaskOK, Untouched
  <1> QED BY <1>1, <1>2, <1>3 DEF TaskOK

(* The three ways through Settle: nothing to settle, the funding source is *)
(* adjusted, or its storage call fails.                                    *)
LEMMA SettleCases ==
    ASSUME TypeOK, NEW p \in Actors, NEW t \in Tasks, Settle(p, t)
    PROVE  /\ UNCHANGED <<row, fixed, tokenNet>>
           /\ \/ Goto(p, t, "idle") /\ UNCHANGED <<mine, fundNet, waived>>
              \/ /\ Goto(p, t, "idle") /\ Waive(t, "fault")
                 /\ UNCHANGED <<mine, fundNet>>
              \/ /\ Goto(p, t, "settleToken") /\ UNCHANGED waived
                 /\ \E n \in Nat :
                      /\ mine' = [mine EXCEPT ![p][t] =
                                    [mine[p][t] EXCEPT !.actual = n]]
                      /\ fundNet' = [fundNet EXCEPT
                                       ![t] = @ + n - mine[p][t].quota]
  <1>1. CASE \E n \in ActualQuotas :
               /\ fundNet' = [fundNet EXCEPT ![t] = @ + n - mine[p][t].quota]
               /\ mine' = [mine EXCEPT ![p][t].actual = n]
               /\ Goto(p, t, "settleToken")
               /\ UNCHANGED waived
    <2>1. PICK n \in ActualQuotas :
               /\ fundNet' = [fundNet EXCEPT ![t] = @ + n - mine[p][t].quota]
               /\ mine' = [mine EXCEPT ![p][t].actual = n]
               /\ Goto(p, t, "settleToken")
               /\ UNCHANGED waived
      BY <1>1
    <2>2. mine' = [mine EXCEPT ![p][t] = [mine[p][t] EXCEPT !.actual = n]]
      BY <2>1
    <2>3. n \in Nat
      BY AsyncTaskAssumption
    <2> QED BY <2>1, <2>2, <2>3 DEF Settle
  <1> QED BY <1>1 DEF Settle

(* A step on one task leaves the others alone.                             *)
LEMMA OtherTasks ==
    ASSUME TypeOK, NEW t \in Tasks, NEW s \in Tasks, s # t,
           \/ Submit(t) \/ Expire(t)
           \/ \E p \in Pollers : PollerStep(p, t)
           \/ \E u \in Fetchers : FetcherStep(u, t)
    PROVE  Untouched(s)
  <1> USE DEF TypeOK, Untouched, Goto, Read, Waive, fixed, money, Actors
  <1>1. CASE Submit(t)
    BY <1>1 DEF Submit
  <1>2. CASE Expire(t)
    BY <1>2 DEF Expire
  <1>3. ASSUME NEW p \in Pollers, PollerStep(p, t) PROVE Untouched(s)
    <2>1. CASE SweepRead(p, t) \/ PollRead(p, t) \/ NoReport(p, t)
      BY <2>1 DEF SweepRead, PollRead, NoReport
    <2>2. CASE SweepWrite(p, t) \/ BulkFail(p, t)
      BY <2>2 DEF SweepWrite, BulkFail
    <2>3. CASE VideoReport(p, t)
      BY <2>3 DEF VideoReport
    <2>4. CASE VideoWrite(p, t) \/ SunoSave(p, t)
      BY <2>4 DEF VideoWrite, SunoSave
    <2>5. CASE SunoReport(p, t)
      BY <2>5 DEF SunoReport
    <2>6. CASE Settle(p, t)
      <3> HIDE DEF Untouched, TypeOK
      <3>t. /\ p \in Actors
            /\ pc \in [Actors -> [Tasks -> ActorPC]]
            /\ mine \in [Actors -> [Tasks -> CopyType]]
            /\ fundNet \in [Tasks -> Int]
            /\ waived \in [Tasks -> SUBSET Reasons]
        BY DEF TypeOK
      <3>1. UNCHANGED <<row, profile, tokenNet>>
        BY <2>6 DEF Settle
      <3>2. waived'[s] = waived[s]
        BY <2>6, <3>t, SettleCases
      <3>g. \E label \in {"idle", "settleToken"} : Goto(p, t, label)
        BY <2>6, <3>t, SettleCases
      <3>3. \A b \in Actors : pc'[b][s] = pc[b][s]
        BY <3>g, <3>t
      <3>m. \/ mine' = mine
            \/ \E n \in Nat : mine' = [mine EXCEPT ![p][t] =
                                           [mine[p][t] EXCEPT !.actual = n]]
        BY <2>6, <3>t, SettleCases
      <3>4. \A b \in Actors : mine'[b][s] = mine[b][s]
        BY <3>m, <3>t
      <3>5. fundNet'[s] = fundNet[s]
        BY <2>6, <3>t, SettleCases
      <3> QED BY <3>1, <3>2, <3>3, <3>4, <3>5 DEF Untouched
    <2>7. CASE SettleToken(p, t) \/ RefundToken(p, t)
      BY <2>7 DEF SettleToken, RefundToken, AdjustToken
    <2>8. CASE SettleQuota(p, t) \/ RefundFund(p, t)
      BY <2>8 DEF SettleQuota, RefundFund
    <2> QED
      BY <1>3, <2>1, <2>2, <2>3, <2>4, <2>5, <2>6, <2>7, <2>8 DEF PollerStep
  <1>4. ASSUME NEW u \in Fetchers, FetcherStep(u, t) PROVE Untouched(s)
    <2>1. CASE FetchReport(u, t)
      BY <2>1 DEF FetchReport
    <2>2. CASE FetchRead(u, t) \/ FetchFails(u, t) \/ FetchWrite(u, t)
      BY <2>2 DEF FetchRead, FetchFails, FetchWrite
    <2> QED BY <1>4, <2>1, <2>2 DEF FetcherStep
  <1> QED BY <1>1, <1>2, <1>3, <1>4

-----------------------------------------------------------------------------
(* The books of one task.                                                  *)

(* Only actor a is at work on task t in this step.                         *)
OthersKeep(a, t) ==
    /\ profile'[t] = profile[t]
    /\ \A b \in Actors :
         b # a => pc'[b][t] = pc[b][t] /\ mine'[b][t] = mine[b][t]

(* Only a submission makes a task unsettled.                               *)
LEMMA GapsKept ==
    ASSUME NEW t \in Tasks, profile'[t] = profile[t],
           \/ waived'[t] = waived[t]
           \/ \E reason \in Reasons \ {"unsettled"} :
                waived'[t] = waived[t] \cup {reason}
    PROVE  Gaps(t)' = Gaps(t) /\ Uncollected(t)' = Uncollected(t)
  <1>1. "unsettled" \in waived'[t] <=> "unsettled" \in waived[t]
    OBVIOUS
  <1> QED BY <1>1 DEF Gaps, Uncollected

(* No gap is wider than what was left uncollected.                         *)
LEMMA GapBound ==
    ASSUME TypeOK, NEW t \in Tasks
    PROVE  /\ Uncollected(t) \in Nat
           /\ \A d \in Gaps(t) : d \in Int /\ d + Uncollected(t) >= 0
  <1>1. profile[t].quota \in Nat /\ profile[t].held \in Nat
    BY AsyncTaskAssumption DEF TypeOK, ProfileType
  <1> QED BY <1>1 DEF Gaps, Uncollected

(* Accounts that show an amount up to a gap are bounded.                   *)
LEMMA BoundedNext ==
    ASSUME TypeOK, NEW t \in Tasks, NEW m \in Nat, NEW n \in Nat,
           Gaps(t)' = Gaps(t), Uncollected(t)' = Uncollected(t),
           fundNet'[t] \in Int, tokenNet'[t] \in Int,
           fundNet'[t] - m \in Gaps(t), tokenNet'[t] - n \in Gaps(t)
    PROVE  Bounded(t)'
  <1>1. /\ Uncollected(t) \in Nat
        /\ (fundNet'[t] - m) + Uncollected(t) >= 0
        /\ (tokenNet'[t] - n) + Uncollected(t) >= 0
    BY GapBound
  <1>2. fundNet'[t] + Uncollected(t) >= 0 /\ tokenNet'[t] + Uncollected(t) >= 0
    BY <1>1
  <1> QED BY <1>2 DEF Bounded

(* A step that neither writes the row nor bills.                           *)
LEMMA ReadingKeeps ==
    ASSUME NEW a \in Actors, NEW t \in Tasks, TaskOK(t), OthersKeep(a, t),
           pc[a][t] \notin BillingPC, (pc[a][t] \notin BillingPC)',
           row'[t] = row[t], fundNet'[t] = fundNet[t],
           tokenNet'[t] = tokenNet[t], waived'[t] = waived[t],
           CopyOK(a, t)'
    PROVE  TaskOK(t)'
  <1>g. Gaps(t)' = Gaps(t) /\ Uncollected(t)' = Uncollected(t)
    BY DEF OthersKeep, Gaps, Uncollected
  <1>1. ASSUME NEW b \in Actors PROVE CopyOK(b, t)' /\ BillerOK(b, t)'
    <2>1. CASE b = a
      BY <2>1 DEF BillerOK
    <2>2. CASE b # a
      BY <1>g, <2>2 DEF TaskOK, OthersKeep, CopyOK, BillerOK, FundDue, TokenDue
    <2> QED BY <2>1, <2>2
  <1>2. Quiet(t)' => Quiet(t)
    BY DEF Quiet, OthersKeep
  <1>3. RowOK(t)'
    BY <1>g, <1>2 DEF TaskOK, OthersKeep, RowOK, Bounded
  <1>4. \A b, c \in Actors :
          (pc[b][t] \in BillingPC /\ pc[c][t] \in BillingPC)' => b = c
    BY DEF TaskOK, OthersKeep
  <1> QED BY <1>1, <1>3, <1>4 DEF TaskOK

(* A step of the only actor that can be billing the task.                  *)
LEMMA AloneKeeps ==
    ASSUME NEW a \in Actors, NEW t \in Tasks, TaskOK(t), OthersKeep(a, t),
           \A b \in Actors : pc[b][t] \in BillingPC => b = a,
           CopyOK(a, t)', BillerOK(a, t)', RowOK(t)'
    PROVE  TaskOK(t)'
  <1>1. ASSUME NEW b \in Actors PROVE CopyOK(b, t)' /\ BillerOK(b, t)'
    <2>1. CASE b = a
      BY <2>1
    <2>2. CASE b # a
      BY <2>2 DEF TaskOK, OthersKeep, CopyOK, BillerOK
    <2> QED BY <2>1, <2>2
  <1>2. \A b, c \in Actors :
          (pc[b][t] \in BillingPC /\ pc[c][t] \in BillingPC)' => b = c
    BY DEF OthersKeep
  <1> QED BY <1>1, <1>2 DEF TaskOK

(* While a row is waiting nobody bills it.                                 *)
LEMMA WaitingIsQuiet ==
    ASSUME NEW t \in Tasks, TaskOK(t), row[t].status \in Waiting
    PROVE  \A b \in Actors : pc[b][t] \notin BillingPC
  BY DEF TaskOK, BillerOK, Waiting, Final

(* A pass leaves the other actors alone, whichever step it takes.          *)
LEMMA PollerAlone ==
    ASSUME TypeOK, NEW p \in Pollers, NEW t \in Tasks, PollerStep(p, t)
    PROVE  OthersKeep(p, t)
  <1> p \in Actors
    BY DEF Actors
  <1> USE DEF TypeOK, OthersKeep, Goto, Read, fixed
  <1>1. CASE SweepRead(p, t) \/ PollRead(p, t) \/ NoReport(p, t)
    BY <1>1 DEF SweepRead, PollRead, NoReport
  <1>2. CASE SweepWrite(p, t) \/ BulkFail(p, t)
    BY <1>2 DEF SweepWrite, BulkFail
  <1>3. CASE VideoReport(p, t)
    BY <1>3 DEF VideoReport
  <1>4. CASE VideoWrite(p, t) \/ SunoSave(p, t)
    BY <1>4 DEF VideoWrite, SunoSave
  <1>5. CASE SunoReport(p, t)
    BY <1>5 DEF SunoReport
  <1>6. CASE Settle(p, t)
    BY <1>6 DEF Settle
  <1>7. CASE SettleToken(p, t) \/ RefundToken(p, t)
    BY <1>7 DEF SettleToken, RefundToken
  <1>8. CASE SettleQuota(p, t) \/ RefundFund(p, t)
    BY <1>8 DEF SettleQuota, RefundFund
  <1> QED
    BY <1>1, <1>2, <1>3, <1>4, <1>5, <1>6, <1>7, <1>8 DEF PollerStep

(* The steps that only read the row or the upstream.                       *)
LEMMA ReadingSteps ==
    ASSUME Guarded, TypeOK, NEW p \in Pollers, NEW t \in Tasks, TaskOK(t),
           \/ SweepRead(p, t) \/ PollRead(p, t) \/ NoReport(p, t)
           \/ VideoReport(p, t)
    PROVE  TaskOK(t)'
  <1> p \in Actors
    BY DEF Actors
  <1>o. OthersKeep(p, t)
    BY PollerAlone DEF PollerStep
  <1>c. CopyOK(p, t) /\ RowOK(t)
    BY DEF TaskOK
  <1>1. CASE SweepRead(p, t) \/ PollRead(p, t)
    <2>1. CopyOf(t) \in CopyType /\ mine' = [mine EXCEPT ![p][t] = CopyOf(t)]
      BY <1>1, ReadAt DEF SweepRead, PollRead
    <2>2. mine'[p][t] = CopyOf(t)
      BY <2>1, CopyAt
    <2>3. pc'[p][t] \in ReadingPC
      BY <1>1, GotoAt DEF SweepRead, PollRead, ReadingPC, ActorPC
    <2>4. /\ UNCHANGED <<row, fundNet, tokenNet, waived, profile>>
          /\ row[t].status \in Waiting
          /\ pc[p][t] = "idle"
      BY <1>1 DEF SweepRead, PollRead, Unfinished, money, fixed
    <2>5. CopyOK(p, t)'
      BY <1>c, <2>2, <2>3, <2>4 DEF CopyOK, CopyOf, RowOK
    <2> QED BY <1>o, <2>3, <2>4, <2>5, ReadingKeeps DEF ReadingPC, BillingPC
  <1>2. CASE NoReport(p, t)
    <2>1. pc'[p][t] = "idle"
      BY <1>2, GotoAt DEF NoReport, ActorPC
    <2>2. UNCHANGED <<row, fundNet, tokenNet, waived>> /\ pc[p][t] = "poll"
      BY <1>2 DEF NoReport, money
    <2>3. CopyOK(p, t)'
      BY <2>1 DEF CopyOK, ReadingPC
    <2> QED BY <1>o, <2>1, <2>2, <2>3, ReadingKeeps DEF BillingPC
  <1>3. CASE VideoReport(p, t)
    <2>1. pc'[p][t] = "write"
      BY <1>3, GotoAt DEF VideoReport, ActorPC
    <2>2. /\ UNCHANGED <<row, fundNet, tokenNet, waived, profile>>
          /\ pc[p][t] = "poll"
      BY <1>3 DEF VideoReport, money
    <2>3. /\ mine'[p][t].quota = mine[p][t].quota
          /\ mine'[p][t].snap = mine[p][t].snap
          /\ mine'[p][t].saves = mine[p][t].saves
      <3>1. PICK status \in RowStatus, full \in BOOLEAN :
              mine' = [mine EXCEPT ![p][t].status = status, ![p][t].full = full]
        BY <1>3 DEF VideoReport, RowStatus
      <3>2. mine' = [mine EXCEPT ![p][t] =
                        [mine[p][t] EXCEPT !.status = status, !.full = full]]
        BY <3>1
      <3>3. mine[p][t] \in CopyType
        BY Parts
      <3>4. mine'[p][t] = [mine[p][t] EXCEPT !.status = status, !.full = full]
        BY <3>2, <3>3, CopyFieldsType, CopyAt
      <3> QED BY <3>3, <3>4 DEF CopyType
    <2>4. CopyOK(p, t)'
      BY <1>c, <2>1, <2>2, <2>3 DEF CopyOK, ReadingPC
    <2> QED BY <1>o, <2>1, <2>2, <2>4, ReadingKeeps DEF BillingPC
  <1> QED BY <1>1, <1>2, <1>3

(* The compare-and-set of a pass is won only while the row is waiting; the *)
(* winner is the only biller, and the books still show the price.          *)
LEMMA WinnerDecides ==
    ASSUME TypeOK, NEW p \in Pollers, NEW t \in Tasks, NEW r \in RowType,
           NEW label, TaskOK(t), OthersKeep(p, t),
           pc[p][t] \in {"sweep", "write"}, WinsCAS(p, t),
           row' = [row EXCEPT ![t] = r], r.quota = mine[p][t].quota,
           Goto(p, t, label),
           UNCHANGED <<mine, fundNet, tokenNet, profile>>,
           \/ label = AfterDecision(r) /\ waived'[t] = waived[t]
           \/ /\ label = "idle" /\ r.status \in Final
              /\ waived'[t] = waived[t] \cup {"legacy"}
    PROVE  TaskOK(t)'
  <1> p \in Actors
    BY DEF Actors
  <1>c. CopyOK(p, t) /\ RowOK(t)
    BY DEF TaskOK
  <1>t. /\ profile[t].quota \in Nat /\ fundNet[t] \in Int /\ tokenNet[t] \in Int
        /\ r.status \in RowStatus /\ r.quota \in Nat
    BY Parts DEF RowType
  <1>1. row[t].status \in Waiting
    BY <1>c DEF WinsCAS, CopyOK, ReadingPC
  <1>2. \A b \in Actors : pc[b][t] \notin BillingPC
    BY <1>1, WaitingIsQuiet
  <1>3. /\ fundNet'[t] = fundNet[t] /\ fundNet[t] - profile[t].quota \in Gaps(t)
        /\ tokenNet'[t] = tokenNet[t]
        /\ tokenNet[t] - profile[t].quota \in Gaps(t)
        /\ r.quota = profile[t].quota
        /\ profile'[t] = profile[t]
    BY <1>1, <1>c DEF RowOK, CopyOK, ReadingPC
  <1>g. Gaps(t)' = Gaps(t) /\ Uncollected(t)' = Uncollected(t)
    BY <1>3, GapsKept DEF Reasons
  <1>e. waived'[t] = {} => fundNet'[t] = profile[t].quota /\
                           tokenNet'[t] = profile[t].quota
    BY <1>t, <1>3 DEF Gaps
  <1>4. row'[t] = r
    BY RowAt
  <1>5. label \in {"idle", "settle", "refund"}
    BY DEF AfterDecision
  <1>6. pc'[p][t] = label
    BY <1>5, GotoAt DEF ActorPC
  <1>7. CopyOK(p, t)'
    BY <1>3, <1>5, <1>6, <1>c DEF CopyOK, BillingPC, ReadingPC
  <1>8. BillerOK(p, t)'
    <2>1. CASE label = "idle"
      BY <1>6, <2>1 DEF BillerOK, BillingPC
    <2>2. CASE label # "idle"
      <3>1. /\ FundDue(p, t)' = profile[t].quota
            /\ TokenDue(p, t)' = profile[t].quota
        BY <1>3, <1>5, <1>6, <2>2 DEF FundDue, TokenDue
      <3>2. IF label = "refund" THEN r.status = "FAILURE"
                                ELSE r.status = "SUCCESS"
        BY <1>5, <2>2 DEF AfterDecision
      <3> QED BY <1>3, <1>4, <1>5, <1>6, <1>g, <2>2, <3>1, <3>2
            DEF BillerOK, BillingPC, RefundPC, Final
    <2> QED BY <2>1, <2>2
  <1>9. RowOK(t)'
    <2>1. Bounded(t)'
      BY <1>3, <1>g, <1>t, BoundedNext
    <2>2. CASE r.status \in Waiting
      BY <2>1, <2>2, <1>3, <1>4, <1>g DEF RowOK, Waiting, Final
    <2>3. CASE r.status \in Final
      <3>1. CASE label = "idle"
        <4>1. waived'[t] # {} \/ (r.status = "FAILURE" /\ r.quota = 0)
          BY <2>3, <3>1 DEF AfterDecision, Final
        <4> QED BY <2>1, <2>3, <4>1, <1>3, <1>4, <1>e DEF RowOK, Waiting, Final
      <3>2. CASE label # "idle"
        <4>1. ~Quiet(t)'
          BY <1>5, <1>6, <3>2 DEF Quiet, BillingPC
        <4> QED BY <2>1, <2>3, <4>1, <1>4 DEF RowOK, Waiting, Final
      <3> QED BY <3>1, <3>2
    <2>4. CASE r.status \notin Waiting \cup Final
      BY <2>1, <2>4, <1>4 DEF RowOK
    <2> QED BY <2>2, <2>3, <2>4
  <1> QED BY <1>2, <1>7, <1>8, <1>9, AloneKeeps

(* A pass that goes back to idle without having written or billed.         *)
LEMMA LoserLeaves ==
    ASSUME TypeOK, NEW p \in Pollers, NEW t \in Tasks, TaskOK(t),
           OthersKeep(p, t), pc[p][t] \notin BillingPC, Goto(p, t, "idle"),
           UNCHANGED <<row, fundNet, tokenNet, waived>>
    PROVE  TaskOK(t)'
  <1> p \in Actors
    BY DEF Actors
  <1>1. pc'[p][t] = "idle"
    BY GotoAt DEF ActorPC
  <1>2. CopyOK(p, t)'
    BY <1>1 DEF CopyOK, ReadingPC
  <1> QED BY <1>1, <1>2, ReadingKeeps DEF BillingPC

(* The steps that decide the task: the sweep's write, the write after a    *)
(* report, and the bulk update, which asks for no status and bills nothing.*)
LEMMA DecidingSteps ==
    ASSUME Guarded, TypeOK, NEW p \in Pollers, NEW t \in Tasks, TaskOK(t),
           SweepWrite(p, t) \/ VideoWrite(p, t) \/ BulkFail(p, t)
    PROVE  TaskOK(t)'
  <1> p \in Actors
    BY DEF Actors
  <1>o. OthersKeep(p, t)
    BY PollerAlone DEF PollerStep
  <1>m. mine[p][t] \in CopyType /\ row[t] \in RowType
    BY Parts
  <1>1. CASE SweepWrite(p, t)
    <2>1. CASE /\ WinsCAS(p, t)
               /\ row' = [row EXCEPT ![t] = SweptRow(mine[p][t])]
               /\ IF mine[p][t].submit = "legacy"
                  THEN Goto(p, t, "idle") /\ Waive(t, "legacy")
                  ELSE /\ Goto(p, t, AfterDecision(SweptRow(mine[p][t])))
                       /\ UNCHANGED waived
      <3> DEFINE r == SweptRow(mine[p][t])
      <3>1. /\ r \in RowType
            /\ r.quota = mine[p][t].quota
            /\ r.status \in Final
        BY <1>m, SweptRowType DEF SweptRow, Final
      <3>2. /\ UNCHANGED <<mine, fundNet, tokenNet, profile>>
            /\ pc[p][t] \in {"sweep", "write"}
        BY <1>1 DEF SweepWrite, money, fixed
      <3> HIDE DEF r
      <3>3. CASE mine[p][t].submit = "legacy"
        <4>1. Goto(p, t, "idle") /\ waived'[t] = waived[t] \cup {"legacy"}
          BY <2>1, <3>3, WaiveAt DEF Reasons
        <4> QED BY <1>o, <2>1, <3>1, <3>2, <4>1, WinnerDecides DEF r
      <3>4. CASE mine[p][t].submit # "legacy"
        <4>1. Goto(p, t, AfterDecision(r)) /\ waived'[t] = waived[t]
          BY <2>1, <3>4 DEF r
        <4> QED BY <1>o, <2>1, <3>1, <3>2, <4>1, WinnerDecides DEF r
      <3> QED BY <3>3, <3>4
    <2>2. CASE Goto(p, t, "idle") /\ UNCHANGED <<row, waived>>
      BY <1>1, <1>o, <2>2, LoserLeaves DEF SweepWrite, BillingPC, money
    <2> QED BY <1>1, <1>m, <2>1, <2>2, SweptRowType DEF SweepWrite
  <1>2. CASE VideoWrite(p, t)
    <2>1. CASE /\ WinsCAS(p, t)
               /\ row' = [row EXCEPT ![t] = Columns(mine[p][t])]
               /\ Goto(p, t, AfterDecision(mine[p][t]))
      <3> DEFINE r == Columns(mine[p][t])
      <3>1. /\ r \in RowType
            /\ r.quota = mine[p][t].quota
            /\ AfterDecision(mine[p][t]) = AfterDecision(r)
        BY <1>m, ColumnsType DEF Columns, AfterDecision
      <3>2. /\ UNCHANGED <<mine, fundNet, tokenNet, profile, waived>>
            /\ pc[p][t] \in {"sweep", "write"}
        BY <1>2 DEF VideoWrite, money, fixed
      <3> HIDE DEF r
      <3> QED BY <1>o, <2>1, <3>1, <3>2, WinnerDecides DEF r
    <2>2. CASE Goto(p, t, "idle") /\ UNCHANGED row
      BY <1>2, <1>o, <2>2, LoserLeaves DEF VideoWrite, BillingPC, money
    <2> QED BY <1>2, <2>1, <2>2 DEF VideoWrite
  <1>3. CASE BulkFail(p, t)
    <2>1. /\ pc[p][t] = "poll" /\ pc'[p][t] = "idle"
          /\ UNCHANGED <<mine, profile, fundNet, tokenNet>>
      BY <1>3, GotoAt DEF BulkFail, ActorPC, money, fixed
    <2>2. CASE /\ row' = [row EXCEPT ![t].status = "FAILURE", ![t].full = TRUE]
               /\ Waive(t, "bulk")
      <3>1. row'[t].status = "FAILURE" /\ row'[t].quota = row[t].quota
        BY <1>m, <2>2 DEF RowType, TypeOK
      <3>2. /\ waived'[t] # {}
            /\ Gaps(t)' = Gaps(t) /\ Uncollected(t)' = Uncollected(t)
        BY <2>1, <2>2, WaiveAt, GapsKept DEF Reasons
      <3>3. ASSUME NEW b \in Actors PROVE CopyOK(b, t)' /\ BillerOK(b, t)'
        <4>1. CASE b = p
          BY <2>1, <4>1 DEF CopyOK, BillerOK, ReadingPC, BillingPC
        <4>2. CASE b # p
          <5>1. /\ pc'[b][t] = pc[b][t] /\ mine'[b][t] = mine[b][t]
                /\ CopyOK(b, t) /\ BillerOK(b, t)
            BY <1>o, <4>2 DEF OthersKeep, TaskOK
          <5>2. CopyOK(b, t)'
            BY <2>1, <5>1 DEF CopyOK
          <5>3. BillerOK(b, t)'
            BY <2>1, <5>1, <3>1, <3>2 DEF BillerOK, FundDue, TokenDue, Final
          <5> QED BY <5>2, <5>3
        <4> QED BY <4>1, <4>2
      <3>4. RowOK(t)'
        BY <2>1, <3>1, <3>2 DEF TaskOK, RowOK, Bounded, Waiting
      <3>5. \A b, c \in Actors :
              (pc[b][t] \in BillingPC /\ pc[c][t] \in BillingPC)' => b = c
        BY <1>o, <2>1 DEF TaskOK, OthersKeep, BillingPC
      <3> QED BY <3>3, <3>4, <3>5 DEF TaskOK
    <2>3. CASE UNCHANGED <<row, waived>>
      BY <1>3, <1>o, <2>3, LoserLeaves DEF BulkFail, BillingPC, money
    <2> QED BY <1>3, <2>2, <2>3 DEF BulkFail
  <1> QED BY <1>1, <1>2, <1>3

(* The biller is done: nothing of what it kept for itself matters, and the *)
(* books close or a reason was noted why they do not.                      *)
LEMMA BillerEnds ==
    ASSUME TypeOK, NEW p \in Pollers, NEW t \in Tasks, TaskOK(t),
           OthersKeep(p, t), pc[p][t] \in BillingPC, pc'[p][t] = "idle",
           row'[t].status = row[t].status, Bounded(t)',
           \/ waived'[t] # {}
           \/ LET due == IF row[t].status = "FAILURE" THEN 0 ELSE row'[t].quota
              IN  fundNet'[t] = due /\ tokenNet'[t] = due
    PROVE  TaskOK(t)'
  <1> p \in Actors
    BY DEF Actors
  <1>1. row[t].status \in Final /\ row[t].status \notin Waiting
    BY DEF TaskOK, BillerOK, Final, Waiting
  <1>2. \A b \in Actors : pc[b][t] \in BillingPC => b = p
    BY DEF TaskOK
  <1>3. CopyOK(p, t)' /\ BillerOK(p, t)'
    BY DEF CopyOK, BillerOK, ReadingPC, BillingPC
  <1>4. RowOK(t)'
    BY <1>1 DEF RowOK
  <1> QED BY <1>2, <1>3, <1>4, AloneKeeps

(* The biller goes on, with the books as its next step expects them.       *)
LEMMA BillerGoesOn ==
    ASSUME TypeOK, NEW p \in Pollers, NEW t \in Tasks, TaskOK(t),
           OthersKeep(p, t), pc[p][t] \in BillingPC, (pc[p][t] \in BillingPC)',
           row'[t] = row[t], Bounded(t)',
           CopyOK(p, t)', BillerOK(p, t)'
    PROVE  TaskOK(t)'
  <1> p \in Actors
    BY DEF Actors
  <1>1. row[t].status \notin Waiting
    BY DEF TaskOK, BillerOK, Final, Waiting
  <1>2. \A b \in Actors : pc[b][t] \in BillingPC => b = p
    BY DEF TaskOK
  <1>3. ~Quiet(t)'
    BY DEF Quiet
  <1>4. RowOK(t)'
    BY <1>1, <1>3 DEF RowOK
  <1> QED BY <1>2, <1>4, AloneKeeps

(* The steps of the settlement, one per storage call.                      *)
LEMMA SettlingSteps ==
    ASSUME Guarded, TypeOK, NEW p \in Pollers, NEW t \in Tasks, TaskOK(t),
           Settle(p, t) \/ SettleToken(p, t) \/ SettleQuota(p, t)
    PROVE  TaskOK(t)'
  <1> p \in Actors
    BY DEF Actors
  <1>o. OthersKeep(p, t)
    BY PollerAlone DEF PollerStep
  <1>t. /\ mine[p][t] \in CopyType /\ row[t] \in RowType
        /\ mine[p][t].actual \in Nat /\ mine[p][t].quota \in Nat
        /\ profile[t].quota \in Nat
        /\ fundNet[t] \in Int /\ tokenNet[t] \in Int
    BY Parts DEF CopyType
  <1>b. pc[p][t] \in BillingPC \ RefundPC
    BY DEF Settle, SettleToken, SettleQuota, BillingPC, RefundPC
  <1>k. /\ row[t].quota = profile[t].quota
        /\ mine[p][t].quota = profile[t].quota
        /\ row[t].status \in Final
        /\ row[t].status = "SUCCESS" \/ waived[t] # {}
        /\ ~mine[p][t].saves
        /\ profile'[t] = profile[t]
    BY <1>b, <1>o DEF TaskOK, CopyOK, BillerOK, BillingPC, OthersKeep
  <1>f. ASSUME Waive(t, "fault")
        PROVE  /\ waived'[t] # {}
               /\ Gaps(t)' = Gaps(t) /\ Uncollected(t)' = Uncollected(t)
    BY <1>f, <1>k, WaiveAt, GapsKept DEF Reasons
  <1>u. ASSUME UNCHANGED waived
        PROVE  Gaps(t)' = Gaps(t) /\ Uncollected(t)' = Uncollected(t)
    BY <1>u, <1>k, GapsKept
  <1>1. CASE Settle(p, t)
    <2>1. /\ fundNet[t] - profile[t].quota \in Gaps(t)
          /\ tokenNet[t] - profile[t].quota \in Gaps(t)
      BY <1>1, <1>b DEF Settle, TaskOK, BillerOK, FundDue, TokenDue
    <2>2. UNCHANGED <<row, profile, tokenNet>>
      BY <1>1 DEF Settle, fixed
    <2>3. CASE Goto(p, t, "idle") /\ UNCHANGED <<mine, fundNet, waived>>
      <3>1. pc'[p][t] = "idle"
        BY <2>3, GotoAt DEF ActorPC
      <3>2. Bounded(t)'
        BY <1>t, <1>u, <2>1, <2>2, <2>3, BoundedNext
      <3>3. waived[t] = {} => /\ fundNet[t] = row[t].quota
                              /\ tokenNet[t] = row[t].quota
        BY <1>k, <1>t, <2>1 DEF Gaps
      <3> QED BY <1>o, <1>b, <1>k, <2>2, <2>3, <3>1, <3>2, <3>3, BillerEnds
                DEF Final
    <2>4. CASE /\ Goto(p, t, "idle") /\ Waive(t, "fault")
               /\ UNCHANGED <<mine, fundNet>>
      <3>1. pc'[p][t] = "idle"
        BY <2>4, GotoAt DEF ActorPC
      <3>2. Bounded(t)'
        BY <1>t, <1>f, <2>1, <2>2, <2>4, BoundedNext
      <3> QED BY <1>o, <1>b, <1>f, <2>2, <2>4, <3>1, <3>2, BillerEnds
    <2>5. CASE /\ Goto(p, t, "settleToken") /\ UNCHANGED waived
               /\ \E n \in Nat :
                    /\ mine' = [mine EXCEPT ![p][t] =
                                  [mine[p][t] EXCEPT !.actual = n]]
                    /\ fundNet' = [fundNet EXCEPT
                                     ![t] = @ + n - mine[p][t].quota]
      <3>1. PICK n \in Nat :
              /\ mine' = [mine EXCEPT ![p][t] = [mine[p][t] EXCEPT !.actual = n]]
              /\ fundNet' = [fundNet EXCEPT ![t] = @ + n - mine[p][t].quota]
        BY <2>5
      <3>2. pc'[p][t] = "settleToken" /\ UNCHANGED waived
        BY <2>5, GotoAt DEF ActorPC
      <3>g. Gaps(t)' = Gaps(t) /\ Uncollected(t)' = Uncollected(t)
        BY <1>u, <3>2
      <3>3. mine'[p][t] = [mine[p][t] EXCEPT !.actual = n]
        BY <1>t, <3>1, CopyActualType, CopyAt
      <3>4. /\ mine'[p][t].actual = n
            /\ mine'[p][t].quota = mine[p][t].quota
            /\ mine'[p][t].saves = mine[p][t].saves
        BY <1>t, <3>3 DEF CopyType
      <3>5. /\ fundNet'[t] \in Int
            /\ fundNet'[t] - n = fundNet[t] - profile[t].quota
        <4>1. fundNet'[t] = fundNet[t] + n - profile[t].quota
          BY <1>k, <3>1 DEF TypeOK
        <4> QED BY <1>t, <4>1
      <3>6. CopyOK(p, t)'
        BY <1>k, <2>2, <3>2, <3>4 DEF CopyOK, ReadingPC, BillingPC
      <3>7. BillerOK(p, t)'
        <4>1. FundDue(p, t)' = n /\ TokenDue(p, t)' = profile[t].quota
          BY <1>k, <3>2, <3>4 DEF FundDue, TokenDue
        <4> QED BY <1>k, <2>1, <2>2, <3>2, <3>5, <3>g, <4>1
              DEF BillerOK, RefundPC, BillingPC
      <3>8. Bounded(t)'
        BY <1>t, <2>1, <2>2, <3>5, <3>g, BoundedNext
      <3> QED BY <1>o, <1>b, <2>2, <3>2, <3>6, <3>7, <3>8, BillerGoesOn
                DEF BillingPC
    <2> QED BY <1>1, <2>3, <2>4, <2>5, SettleCases
  <1>2. CASE SettleToken(p, t)
    <2> DEFINE n == mine[p][t].actual
    <2>1. /\ fundNet[t] - n \in Gaps(t)
          /\ tokenNet[t] - profile[t].quota \in Gaps(t)
      BY <1>2, <1>b DEF SettleToken, TaskOK, BillerOK, FundDue, TokenDue
    <2>2. /\ pc'[p][t] = "settleQuota"
          /\ UNCHANGED <<row, profile, mine, fundNet>>
      BY <1>2, GotoAt DEF SettleToken, ActorPC, fixed
    <2>3. /\ tokenNet'[t] \in Int
          /\ Gaps(t)' = Gaps(t) /\ Uncollected(t)' = Uncollected(t)
          /\ waived[t] # {} => waived'[t] # {}
          /\ \/ tokenNet'[t] - n \in Gaps(t)
             \/ tokenNet'[t] - profile[t].quota \in Gaps(t) /\ waived'[t] # {}
      <3>1. CASE /\ tokenNet' = [tokenNet EXCEPT ![t] = @ + (n - mine[p][t].quota)]
                 /\ UNCHANGED waived
        <4>1. tokenNet'[t] = tokenNet[t] + (n - profile[t].quota)
          BY <1>k, <3>1 DEF TypeOK
        <4>2. /\ tokenNet'[t] \in Int
              /\ tokenNet'[t] - n = tokenNet[t] - profile[t].quota
          BY <1>t, <4>1
        <4> QED BY <1>u, <2>1, <3>1, <4>2
      <3>2. CASE Waive(t, "fault") /\ UNCHANGED tokenNet
        BY <1>f, <1>t, <2>1, <3>2
      <3> QED BY <1>2, <3>1, <3>2 DEF SettleToken, AdjustToken
    <2>4. CopyOK(p, t)'
      BY <1>k, <2>2 DEF CopyOK, ReadingPC, BillingPC
    <2>5. BillerOK(p, t)'
      <3>1. FundDue(p, t)' = n /\ TokenDue(p, t)' = n
        BY <2>2 DEF FundDue, TokenDue
      <3> QED BY <1>k, <2>1, <2>2, <2>3, <3>1 DEF BillerOK, RefundPC, BillingPC
    <2>6. Bounded(t)'
      BY <1>t, <2>1, <2>2, <2>3, BoundedNext
    <2> QED BY <1>o, <1>b, <2>2, <2>4, <2>5, <2>6, BillerGoesOn DEF BillingPC
  <1>3. CASE SettleQuota(p, t)
    <2> DEFINE n == mine[p][t].actual
    <2>1. /\ fundNet[t] - n \in Gaps(t)
          /\ \/ tokenNet[t] - n \in Gaps(t)
             \/ waived[t] # {} /\ tokenNet[t] - profile[t].quota \in Gaps(t)
      BY <1>3, <1>b DEF SettleQuota, TaskOK, BillerOK, FundDue, TokenDue
    <2>2. /\ pc'[p][t] = "idle"
          /\ UNCHANGED <<profile, mine, fundNet, tokenNet>>
      BY <1>3, GotoAt DEF SettleQuota, ActorPC, fixed, money
    <2>4. CASE row' = [row EXCEPT ![t].quota = n] /\ UNCHANGED waived
      <3>1. row'[t].quota = n /\ row'[t].status = row[t].status
        BY <1>t, <2>4 DEF TypeOK, RowType
      <3>2. Bounded(t)'
        BY <1>t, <1>u, <2>1, <2>2, <2>4, BoundedNext
      <3>3. waived[t] = {} => fundNet[t] = n /\ tokenNet[t] = n
        BY <1>t, <2>1 DEF Gaps
      <3> QED BY <1>o, <1>b, <1>k, <2>2, <2>4, <3>1, <3>2, <3>3, BillerEnds
    <2>5. CASE Waive(t, "fault") /\ UNCHANGED row
      <3>1. Bounded(t)'
        BY <1>t, <1>f, <2>1, <2>2, <2>5, BoundedNext
      <3> QED BY <1>o, <1>b, <1>f, <2>2, <2>5, <3>1, BillerEnds
    <2> QED BY <1>3, <2>4, <2>5 DEF SettleQuota
  <1> QED BY <1>1, <1>2, <1>3

(* The two steps of the refund.                                            *)
LEMMA RefundingSteps ==
    ASSUME Guarded, TypeOK, NEW p \in Pollers, NEW t \in Tasks, TaskOK(t),
           RefundFund(p, t) \/ RefundToken(p, t)
    PROVE  TaskOK(t)'
  <1> p \in Actors
    BY DEF Actors
  <1>o. OthersKeep(p, t)
    BY PollerAlone DEF PollerStep
  <1>t. /\ mine[p][t].quota \in Nat /\ profile[t].quota \in Nat
        /\ fundNet[t] \in Int /\ tokenNet[t] \in Int
    BY Parts DEF CopyType
  <1>b. pc[p][t] \in BillingPC /\ pc[p][t] \in RefundPC
    BY DEF RefundFund, RefundToken, BillingPC, RefundPC
  <1>k. /\ row[t].quota = profile[t].quota
        /\ mine[p][t].quota = profile[t].quota
        /\ row[t].status = "FAILURE"
        /\ AfterRefund(p, t) = "idle"
        /\ ~mine[p][t].saves
        /\ tokenNet[t] - profile[t].quota \in Gaps(t)
        /\ profile'[t] = profile[t]
    BY <1>b, <1>o DEF TaskOK, CopyOK, BillerOK, TokenDue, BillingPC, RefundPC,
                      AfterRefund, OthersKeep
  <1>f. ASSUME Waive(t, "fault")
        PROVE  /\ waived'[t] # {}
               /\ Gaps(t)' = Gaps(t) /\ Uncollected(t)' = Uncollected(t)
    BY <1>f, <1>k, WaiveAt, GapsKept DEF Reasons
  <1>u. ASSUME UNCHANGED waived
        PROVE  Gaps(t)' = Gaps(t) /\ Uncollected(t)' = Uncollected(t)
    BY <1>u, <1>k, GapsKept
  <1>1. CASE RefundFund(p, t)
    <2>1. fundNet[t] - profile[t].quota \in Gaps(t)
      BY <1>1, <1>b DEF RefundFund, TaskOK, BillerOK, FundDue
    <2>2. UNCHANGED <<row, profile, mine, tokenNet>>
      BY <1>1 DEF RefundFund, fixed
    <2>3. CASE /\ fundNet' = [fundNet EXCEPT ![t] = @ - mine[p][t].quota]
               /\ Goto(p, t, "refundToken")
               /\ UNCHANGED waived
      <3>1. pc'[p][t] = "refundToken"
        BY <2>3, GotoAt DEF ActorPC
      <3>g. Gaps(t)' = Gaps(t) /\ Uncollected(t)' = Uncollected(t)
        BY <1>u, <2>3
      <3>2. /\ fundNet'[t] \in Int
            /\ fundNet'[t] - 0 = fundNet[t] - profile[t].quota
        <4>1. fundNet'[t] = fundNet[t] - profile[t].quota
          BY <1>k, <2>3 DEF TypeOK
        <4> QED BY <1>t, <4>1
      <3>3. CopyOK(p, t)'
        BY <1>k, <2>2, <3>1 DEF CopyOK, ReadingPC, BillingPC
      <3>4. BillerOK(p, t)'
        <4>1. FundDue(p, t)' = 0 /\ TokenDue(p, t)' = profile[t].quota
          BY <1>k, <3>1 DEF FundDue, TokenDue
        <4> QED BY <1>k, <2>1, <2>2, <3>1, <3>2, <3>g, <4>1
              DEF BillerOK, RefundPC, BillingPC, Final
      <3>5. Bounded(t)'
        BY <1>k, <1>t, <2>1, <2>2, <3>2, <3>g, BoundedNext
      <3> QED BY <1>o, <1>b, <2>2, <3>1, <3>3, <3>4, <3>5, BillerGoesOn
                DEF BillingPC
    <2>4. CASE Waive(t, "fault") /\ Goto(p, t, "idle") /\ UNCHANGED fundNet
      <3>1. pc'[p][t] = "idle"
        BY <2>4, GotoAt DEF ActorPC
      <3>2. Bounded(t)'
        BY <1>k, <1>t, <1>f, <2>1, <2>2, <2>4, BoundedNext
      <3> QED BY <1>o, <1>b, <1>f, <2>2, <2>4, <3>1, <3>2, BillerEnds
    <2> QED BY <1>1, <1>k, <2>3, <2>4 DEF RefundFund
  <1>2. CASE RefundToken(p, t)
    <2>1. fundNet[t] - 0 \in Gaps(t)
      BY <1>2, <1>b DEF RefundToken, TaskOK, BillerOK, FundDue
    <2>2. /\ pc'[p][t] = "idle"
          /\ UNCHANGED <<row, profile, mine, fundNet>>
      BY <1>2, <1>k, GotoAt DEF RefundToken, ActorPC, fixed
    <2>3. CASE /\ tokenNet' = [tokenNet EXCEPT ![t] = @ + (-mine[p][t].quota)]
               /\ UNCHANGED waived
      <3>1. /\ tokenNet'[t] \in Int
            /\ tokenNet'[t] - 0 = tokenNet[t] - profile[t].quota
        <4>1. tokenNet'[t] = tokenNet[t] + (-profile[t].quota)
          BY <1>k, <2>3 DEF TypeOK
        <4> QED BY <1>t, <4>1
      <3>2. Bounded(t)'
        BY <1>k, <1>t, <1>u, <2>1, <2>2, <2>3, <3>1, BoundedNext
      <3>3. waived[t] = {} => fundNet[t] = 0 /\ tokenNet'[t] = 0
        BY <1>k, <1>t, <2>1, <3>1 DEF Gaps
      <3> QED BY <1>o, <1>b, <1>k, <2>2, <2>3, <3>2, <3>3, BillerEnds
    <2>4. CASE Waive(t, "fault") /\ UNCHANGED tokenNet
      <3>1. Bounded(t)'
        BY <1>k, <1>t, <1>f, <2>1, <2>2, <2>4, BoundedNext
      <3> QED BY <1>o, <1>b, <1>f, <2>2, <2>4, <3>1, BillerEnds
    <2> QED BY <1>2, <2>3, <2>4 DEF RefundToken, AdjustToken
  <1> QED BY <1>1, <1>2

(* No pass saves a Suno task, and no user looks at a task.                 *)
LEMMA NoOtherWriter ==
    ASSUME Guarded, TypeOK, NEW t \in Tasks, TaskOK(t)
    PROVE  /\ \A p \in Pollers : ~SunoReport(p, t) /\ ~SunoSave(p, t)
           /\ \A u \in Fetchers : ~FetcherStep(u, t)
  <1>1. profile[t] \in Profiles
    BY DEF TypeOK
  <1>2. ASSUME NEW a \in Actors
        PROVE  pc[a][t] \in {"idle"} \cup ReadingPC \cup BillingPC
    BY DEF TaskOK, CopyOK
  <1>3. \A p \in Pollers : ~SunoReport(p, t) /\ ~SunoSave(p, t)
    BY <1>1, <1>2
      DEF Guarded, SunoReport, SunoSave, Actors, ReadingPC, BillingPC
  <1>4. \A u \in Fetchers : ~FetcherStep(u, t)
    BY <1>1, <1>2
      DEF Guarded, FetcherStep, FetchRead, FetchReport, FetchFails, FetchWrite,
          Actors, ReadingPC, BillingPC
  <1> QED BY <1>3, <1>4

(* Submission: nobody is billing a task that does not exist yet.           *)
LEMMA SubmitKeeps ==
    ASSUME TypeOK, NEW t \in Tasks, TaskOK(t), Submit(t)
    PROVE  TaskOK(t)'
  <1>t. profile[t].quota \in Nat /\ profile[t].held \in Nat
    BY AsyncTaskAssumption DEF TypeOK, ProfileType
  <1>p. PICK fund \in {profile[t].held, profile[t].quota},
             token \in {profile[t].held, profile[t].quota} :
          /\ fundNet' = [fundNet EXCEPT ![t] = fund]
          /\ tokenNet' = [tokenNet EXCEPT ![t] = token]
          /\ \/ /\ row' = [row EXCEPT ![t] = NewRow(t)]
                /\ IF fund = token /\ token = profile[t].quota
                   THEN UNCHANGED waived
                   ELSE Waive(t, "unsettled")
             \/ UNCHANGED row
    BY DEF Submit, NewRow
  <1>1. /\ row[t].status = "none"
        /\ waived[t] = {}
        /\ UNCHANGED <<profile, pc, mine>>
        /\ fundNet'[t] = fund
        /\ tokenNet'[t] = token
    BY <1>p DEF Submit, fixed, TypeOK
  <1>2. \A b \in Actors : pc[b][t] \notin BillingPC
    BY <1>1 DEF TaskOK, BillerOK, Final
  <1>3. \A b \in Actors : CopyOK(b, t)' /\ BillerOK(b, t)'
    BY <1>1, <1>2 DEF TaskOK, CopyOK, BillerOK
  <1>4. \A b, c \in Actors :
          (pc[b][t] \in BillingPC /\ pc[c][t] \in BillingPC)' => b = c
    BY <1>1, <1>2
  <1>5. Bounded(t)'
    BY <1>t, <1>1 DEF Bounded, Uncollected
  <1>6. CASE /\ row' = [row EXCEPT ![t] = NewRow(t)]
             /\ IF fund = token /\ token = profile[t].quota
                THEN UNCHANGED waived
                ELSE Waive(t, "unsettled")
    <2>1. /\ row'[t].status = "NOT_START"
          /\ row'[t].quota = profile[t].quota
      BY <1>6 DEF TypeOK, NewRow
    <2>2. /\ fund - profile[t].quota \in Gaps(t)'
          /\ token - profile[t].quota \in Gaps(t)'
      <3>1. CASE fund = token /\ token = profile[t].quota
        BY <1>t, <3>1 DEF Gaps
      <3>2. CASE "unsettled" \in waived'[t]
        BY <1>t, <1>1, <3>2 DEF Gaps
      <3> QED BY <1>6, <3>1, <3>2, WaiveAt DEF Reasons
    <2>3. RowOK(t)'
      BY <1>1, <1>5, <2>1, <2>2 DEF RowOK, Final, Waiting
    <2> QED BY <1>3, <1>4, <2>3 DEF TaskOK
  <1>7. CASE UNCHANGED row
    <2>1. RowOK(t)'
      BY <1>1, <1>5, <1>7 DEF RowOK, Final, Waiting
    <2> QED BY <1>3, <1>4, <2>1 DEF TaskOK
  <1> QED BY <1>p, <1>6, <1>7

(* A crash: what the process was billing is noted, the rest is forgotten.  *)
LEMMA CrashKeeps ==
    ASSUME TypeOK, NEW p \in Pollers, NEW t \in Tasks, TaskOK(t), Crash(p)
    PROVE  TaskOK(t)'
  <1> p \in Actors
    BY DEF Actors
  <1>1. /\ UNCHANGED <<row, profile, mine, fundNet, tokenNet>>
        /\ pc'[p][t] = "idle"
        /\ \A b \in Actors : b # p => pc'[b][t] = pc[b][t]
        /\ waived'[t] = IF pc[p][t] \in BillingPC THEN waived[t] \cup {"crash"}
                                                  ELSE waived[t]
    BY DEF Crash, fixed, money, TypeOK
  <1>2. OthersKeep(p, t)
    BY <1>1 DEF OthersKeep
  <1>3. CASE pc[p][t] \in BillingPC
    <2>1. waived'[t] # {}
      BY <1>1, <1>3
    <2>2. Bounded(t)'
      <3>1. Gaps(t)' = Gaps(t) /\ Uncollected(t)' = Uncollected(t)
        BY <1>1, <1>3, GapsKept DEF Reasons
      <3> QED BY <1>1, <3>1 DEF TaskOK, RowOK, Bounded
    <2> QED BY <1>1, <1>2, <1>3, <2>1, <2>2, BillerEnds
  <1>4. CASE pc[p][t] \notin BillingPC
    <2>1. CopyOK(p, t)'
      BY <1>1 DEF CopyOK, ReadingPC
    <2> QED BY <1>1, <1>2, <1>4, <2>1, ReadingKeeps DEF BillingPC
  <1> QED BY <1>3, <1>4

-----------------------------------------------------------------------------
(* The invariant, and what follows from it.                                *)

LEMMA InitInv == Init => Inv
  <1> SUFFICES ASSUME Init, NEW t \in Tasks PROVE TaskOK(t)
    BY InitType DEF Inv, AllTasks
  <1>1. /\ \A a \in Actors : pc[a][t] = "idle"
        /\ row[t].status = "none" /\ fundNet[t] = 0 /\ tokenNet[t] = 0
        /\ Uncollected(t) = 0
    BY DEF Init, NoRow, Uncollected
  <1> QED BY <1>1 DEF Bounded, TaskOK, CopyOK, BillerOK, RowOK, ReadingPC, BillingPC,
                      Waiting, Final

(* One step per action: the task at hand, then all the others.             *)
LEMMA InvStep ==
    ASSUME Guarded, Inv, [Next]_vars
    PROVE  Inv'
  <1> USE DEF Inv
  <1>t. TypeOK'
    BY TypeStep
  <1> SUFFICES ASSUME NEW s \in Tasks PROVE TaskOK(s)'
    BY <1>t DEF AllTasks
  <1>s. TaskOK(s)
    BY DEF AllTasks
  <1>1. ASSUME NEW t \in Tasks, Submit(t) PROVE TaskOK(s)'
    BY <1>1, <1>s, SubmitKeeps, OtherTasks, UntouchedKeeps
  <1>2. ASSUME NEW t \in Tasks, Expire(t) PROVE TaskOK(s)'
    <2>1. Untouched(s)
      BY <1>2 DEF Expire, Untouched, money
    <2> QED BY <2>1, <1>s, UntouchedKeeps
  <1>3. ASSUME NEW p \in Pollers, NEW t \in Tasks, PollerStep(p, t)
        PROVE  TaskOK(s)'
    <2>1. CASE s # t
      BY <1>3, <2>1, <1>s, OtherTasks, UntouchedKeeps
    <2>2. CASE s = t
      <3>1. CASE \/ SweepRead(p, s) \/ PollRead(p, s) \/ NoReport(p, s)
                 \/ VideoReport(p, s)
        BY <3>1, <1>s, ReadingSteps
      <3>2. CASE SweepWrite(p, s) \/ VideoWrite(p, s) \/ BulkFail(p, s)
        BY <3>2, <1>s, DecidingSteps
      <3>3. CASE Settle(p, s) \/ SettleToken(p, s) \/ SettleQuota(p, s)
        BY <3>3, <1>s, SettlingSteps
      <3>4. CASE RefundFund(p, s) \/ RefundToken(p, s)
        BY <3>4, <1>s, RefundingSteps
      <3>5. ~SunoReport(p, s) /\ ~SunoSave(p, s)
        BY <1>s, NoOtherWriter
      <3> QED BY <1>3, <2>2, <3>1, <3>2, <3>3, <3>4, <3>5 DEF PollerStep
    <2> QED BY <2>1, <2>2
  <1>4. ASSUME NEW u \in Fetchers, NEW t \in Tasks, FetcherStep(u, t)
        PROVE  TaskOK(s)'
    BY <1>4, NoOtherWriter DEF AllTasks
  <1>5. ASSUME NEW p \in Pollers, Crash(p) PROVE TaskOK(s)'
    BY <1>5, <1>s, CrashKeeps
  <1>6. CASE UNCHANGED vars
    <2>1. Untouched(s)
      BY <1>6 DEF vars, Untouched
    <2> QED BY <2>1, <1>s, UntouchedKeeps
  <1> QED BY <1>1, <1>2, <1>3, <1>4, <1>5, <1>6 DEF Next

LEMMA Invariance ==
    ASSUME Guarded
    PROVE  Spec => []Inv
  <1>1. Inv /\ [Next]_vars => Inv'
    BY InvStep
  <1> QED BY <1>1, InitInv, PTL DEF Spec

(* A refund gives back what was taken (RefundTaskQuota,                    *)
(* RecalculateTaskQuota): for any number of overlapping passes, with every *)
(* storage error, crash and deleted channel, and whatever the upstream     *)
(* answers, neither account of a task goes below zero, except by the part  *)
(* of the price that a failed SettleBilling of the submission did not      *)
(* collect (RelayTask), and never by more than that part.                  *)
THEOREM NoOverRefund ==
    ASSUME Guarded
    PROVE  Spec => []NeverOverRefunded
  <1>1. Inv => NeverOverRefunded
    BY DEF Inv, AllTasks, TaskOK, RowOK, Bounded, NeverOverRefunded
  <1> QED BY <1>1, Invariance, PTL

(* The books of a finished task close (settleTaskBillingOnComplete,        *)
(* RefundTaskQuota, sweepTimedOutTasks): a failed task has cost nothing and*)
(* a successful one exactly what its row shows, unless a storage error (of *)
(* the submission too), a crash, a bulk update or the legacy rule is on    *)
(* record for it.                                                          *)
THEOREM BooksAreClosed ==
    ASSUME Guarded
    PROVE  Spec => []BooksClose
  <1>1. Inv => BooksClose
    BY DEF Inv, AllTasks, TaskOK, RowOK, BooksClose
  <1> QED BY <1>1, Invariance, PTL

(* One pass bills a task (UpdateWithStatus): two passes that decided it at *)
(* the same time never both settle or refund it.                           *)
THEOREM SingleBiller ==
    ASSUME Guarded
    PROVE  Spec => []OneBiller
  <1>1. Inv => OneBiller
    BY DEF Inv, AllTasks, TaskOK, OneBiller
  <1> QED BY <1>1, Invariance, PTL

KeepsFailures ==
    \A t \in Tasks : row[t].status = "FAILURE" => row'[t].status = "FAILURE"

(* Only a write that wins its compare-and-set could replace FAILURE, and it*)
(* is won while the row is waiting.                                        *)
LEMMA FailureStep ==
    ASSUME Guarded, Inv, [Next]_vars
    PROVE  KeepsFailures
  <1> USE DEF Inv
  <1> SUFFICES ASSUME NEW s \in Tasks, row[s].status = "FAILURE"
               PROVE  row'[s].status = "FAILURE"
    BY DEF KeepsFailures
  <1>s. TaskOK(s)
    BY DEF AllTasks
  <1>1. ASSUME NEW t \in Tasks, Submit(t) PROVE row'[s].status = "FAILURE"
    BY <1>1 DEF Submit, TypeOK
  <1>2. ASSUME NEW p \in Pollers, NEW t \in Tasks, PollerStep(p, t)
        PROVE  row'[s].status = "FAILURE"
    <2>1. CASE s # t
      BY <1>2, <2>1, OtherTasks DEF Untouched
    <2>2. CASE s = t
      <3>a. p \in Actors
        BY DEF Actors
      <3>1. CASE pc[p][s] \in ReadingPC /\ WinsCAS(p, s)
        BY <3>a, <3>1, <1>s DEF TaskOK, CopyOK, WinsCAS, Waiting
      <3>2. CASE UNCHANGED row
        BY <3>2
      <3>3. CASE BulkFail(p, s)
        BY <3>3 DEF BulkFail, TypeOK, RowType
      <3>4. CASE SettleQuota(p, s)
        BY <3>4 DEF SettleQuota, TypeOK, RowType
      <3>5. ~SunoReport(p, s) /\ ~SunoSave(p, s)
        BY <1>s, NoOtherWriter
      <3>6. CASE SweepWrite(p, s) \/ VideoWrite(p, s)
        BY <3>1, <3>2, <3>6 DEF SweepWrite, VideoWrite, ReadingPC
      <3> QED
        BY <1>2, <2>2, <3>2, <3>3, <3>4, <3>5, <3>6
          DEF PollerStep, SweepRead, PollRead, NoReport, VideoReport, Settle,
              SettleToken, RefundFund, RefundToken
    <2> QED BY <2>1, <2>2
  <1>3. ASSUME NEW u \in Fetchers, NEW t \in Tasks, FetcherStep(u, t)
        PROVE  FALSE
    BY <1>3, NoOtherWriter DEF AllTasks
  <1>4. CASE \/ UNCHANGED row
             \/ \E t \in Tasks : Expire(t)
             \/ \E p \in Pollers : Crash(p)
    BY <1>4 DEF Expire, Crash
  <1> QED BY <1>1, <1>2, <1>3, <1>4 DEF Next, vars

(* A failed task stays failed (UpdateWithStatus, TaskBulkUpdateByID): no   *)
(* slower pass revives a row that was failed and refunded.                 *)
THEOREM FailuresStay ==
    ASSUME Guarded
    PROVE  Spec => FailureIsFinal
  <1>1. Inv /\ [Next]_vars => [KeepsFailures]_vars
    BY FailureStep
  <1>2. [][KeepsFailures]_vars => FailureIsFinal
    BY DEF FailureIsFinal, KeepsFailures
  <1> QED BY <1>1, <1>2, Invariance, PTL DEF Spec

=============================================================================
