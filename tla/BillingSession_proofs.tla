----------------------- MODULE BillingSession_proofs -----------------------
(***************************************************************************)
(* Proofs about BillingSession, for every set of requests, every profile   *)
(* and every balance.                                                      *)
(***************************************************************************)
EXTENDS BillingSession, TLAPS

(* The handler's steps before anything is taken from the funding source,   *)
(* and the steps a request can be in while its refund goroutine runs.      *)
BeforeToken == {"idle", "checkSub", "tryWallet", "trySub", "tokenRead",
                "tokenDec", "overflow", "rejected"}
Untaken == BeforeToken \cup {"fund", "rollback"}
AfterFailurePC == {"postFund", "postToken", "done"}

(* The session's own figures agree with the step the handler is at.        *)
SessionShape(r) ==
    /\ pc[r] = "idle" => session[r].funding = "none"
    /\ pc[r] \in BeforeToken => session[r].tokenConsumed = 0
    /\ pc[r] = "fund" => session[r].tokenConsumed = session[r].amount
    /\ pc[r] \in Untaken =>
         /\ session[r].consumed = 0
         /\ session[r].preConsumed = 0
    /\ pc[r] \notin Untaken =>
         /\ session[r].preConsumed = session[r].tokenConsumed
         /\ session[r].consumed = session[r].tokenConsumed
    /\ pc[r] \in Untaken \cup {"serving"} =>
         /\ owed[r] = 0
         /\ ~session[r].settled
         /\ ~session[r].refunded
         /\ ~session[r].fundingSettled
    /\ ~profile[r].billed =>
         /\ session[r].tokenConsumed = 0
         /\ pc[r] \in {"idle", "serving"} \cup AfterFailurePC
    /\ pc[r] \in {"tokenDec", "settleToken", "postToken"} =>
         ~profile[r].playground

(* The refund goroutine runs only for a failed request, and a subscription *)
(* record stays "consumed" until the goroutine has marked it.              *)
RefundShape(r) ==
    /\ rpc[r] # "off" => pc[r] \in AfterFailurePC
    /\ session[r].fundingSettled =>
         pc[r] \in {"settleToken", "done"} /\ rpc[r] = "off"
    /\ rpc[r] \in {"off", "fund", "mark"} => attempts[r] < maxRefundAttempts
    /\ pc[r] \notin Untaken /\ session[r].funding = "subscription"
         /\ rpc[r] \in {"off", "fund", "mark"} => preRecord[r] = "consumed"

(* What a request still holds on a ledger and could get back ...           *)
FundHold(r) ==
    IF pc[r] \in {"serving", "settleFund"} \/ rpc[r] = "fund"
    THEN session[r].consumed
    ELSE 0

TokenHold(r) ==
    IF ~profile[r].playground /\
       (\/ pc[r] \in {"fund", "rollback", "serving", "settleFund", "settleToken"}
        \/ rpc[r] \in {"fund", "mark", "token"})
    THEN session[r].tokenConsumed
    ELSE 0

(* ... and what it has paid for good.                                      *)
FundPaid(r) ==
    IF pc[r] \in {"settleToken", "postToken", "done"} THEN owed[r] ELSE 0

TokenPaid(r) == IF pc[r] = "done" THEN TokenShare(r) ELSE 0

(* The books of a request: exact until an error is swallowed, and never    *)
(* below what it may still claim back.                                     *)
Books(r) ==
    /\ fundNet[r] >= FundHold(r)
    /\ tokenNet[r] >= TokenHold(r)
    /\ ~logged[r] => /\ fundNet[r] = FundHold(r) + FundPaid(r)
                     /\ tokenNet[r] = TokenHold(r) + TokenPaid(r)

Shape == \A r \in Requests : SessionShape(r) /\ RefundShape(r)
AllBooks == \A r \in Requests : Books(r)

(* Everything the books of request q depend on is left alone.              *)
Untouched(q) ==
    /\ preRecord'[q] = preRecord[q]
    /\ pc'[q] = pc[q]
    /\ rpc'[q] = rpc[q]
    /\ attempts'[q] = attempts[q]
    /\ profile'[q] = profile[q]
    /\ session'[q] = session[q]
    /\ owed'[q] = owed[q]
    /\ fundNet'[q] = fundNet[q]
    /\ tokenNet'[q] = tokenNet[q]
    /\ logged'[q] = logged[q]

-----------------------------------------------------------------------------
(* Types.                                                                  *)

(* A new BillingSession is a session.                                      *)
LEMMA NewSessionType ==
    ASSUME NEW source \in Sources, NEW quota \in Nat
    PROVE  NewSession(source, quota) \in SessionType
  BY DEF NewSession, SessionType

(* The components of a request have their types.                           *)
LEMMA RequestTypes ==
    ASSUME TypeOK, NEW r \in Requests
    PROVE  /\ session[r] \in SessionType
           /\ profile[r] \in ProfileType
  BY BillingAssumption DEF TypeOK

(* No step takes a variable out of its type.                               *)
LEMMA TypeStep ==
    ASSUME TypeOK, Shape, NEW r \in Requests,
           Begin(r) \/ Handler(r) \/ Refunder(r)
    PROVE  TypeOK'
  <1> USE DEF TypeOK
  <1>s. session[r] \in SessionType /\ profile[r] \in ProfileType
    BY RequestTypes
  <1>1. ASSUME Begin(r) PROVE TypeOK'
    <2>1. FirstTry(profile[r].pref) \in HandlerPC
      BY <1>1, <1>s DEF FirstTry, ProfileType, Preferences, HandlerPC,
         PreparePC
    <2>2. pc' \in [Requests -> HandlerPC]
      BY <1>1, <2>1 DEF Begin, Goto, HandlerPC
    <2>3. tokenQuota' \in [Requests -> Int]
      BY <1>1 DEF Begin
    <2> QED
      BY <1>1, <2>1, <2>2, <2>3 DEF Begin, money, refundVars, requestVars
  <1>2. ASSUME CheckSubscription(r) PROVE TypeOK'
    <2>1. pc' \in [Requests -> HandlerPC]
      BY <1>2 DEF CheckSubscription, Goto, HandlerPC, PreparePC
    <2> QED
      BY <1>2, <2>1 DEF CheckSubscription, money, refundVars, requestVars
  <1>3. ASSUME TryWallet(r) PROVE TypeOK'
    <2>1. (IF ShouldTrust(r, wallet) THEN 0 ELSE profile[r].quota) \in Nat
      BY <1>3, <1>s DEF ProfileType
    <2>2. session' \in [Requests -> SessionType]
      BY <1>3, <1>s, NewSessionType, <2>1 DEF TryWallet, Sources
    <2>3. pc' \in [Requests -> HandlerPC]
      BY <1>3 DEF TryWallet, Goto, HandlerPC, PreparePC
    <2> QED
      BY <1>3, <2>1, <2>2, <2>3 DEF TryWallet, money, refundVars, requestVars
  <1>4. ASSUME TrySubscription(r) PROVE TypeOK'
    <2>1. SubscriptionAmount(profile[r].quota) \in Nat
      BY <1>4, <1>s DEF SubscriptionAmount, ProfileType
    <2>2. session' \in [Requests -> SessionType]
      BY <1>4, NewSessionType, <2>1 DEF TrySubscription, Sources
    <2>3. pc' \in [Requests -> HandlerPC]
      BY <1>4 DEF TrySubscription, Goto, HandlerPC, PreparePC
    <2> QED
      BY <1>4, <2>1, <2>2, <2>3 DEF TrySubscription, money, refundVars,
         requestVars
  <1>5. ASSUME ReadToken(r) PROVE TypeOK'
    <2>1. session' \in [Requests -> SessionType]
      BY <1>5, <1>s DEF ReadToken, SessionType
    <2>2. pc' \in [Requests -> HandlerPC]
      BY <1>5 DEF ReadToken, Goto, HandlerPC, PreparePC
    <2> QED
      BY <1>5, <2>1, <2>2 DEF ReadToken, money, refundVars, requestVars
  <1>6. ASSUME TakeToken(r) PROVE TypeOK'
    <2>1. session' \in [Requests -> SessionType]
      <3>1. \/ UNCHANGED session
            \/ session' = [session EXCEPT ![r] =
                  [session[r] EXCEPT !.tokenConsumed = session[r].amount]]
        BY <1>6 DEF TakeToken
      <3>2. [session[r] EXCEPT !.tokenConsumed = session[r].amount]
              \in SessionType
        BY <1>s DEF SessionType
      <3>3. session \in [Requests -> SessionType]
        BY DEF TypeOK
      <3> QED BY <3>1, <3>2, <3>3
    <2>2. pc' \in [Requests -> HandlerPC]
      BY <1>6 DEF TakeToken, Goto, HandlerPC, PreparePC
    <2>3. tokenRemain' \in Int /\ tokenNet' \in [Requests -> Int]
      BY <1>6, <1>s DEF TakeToken, MoveToken, SessionType
    <2> QED
      BY <1>6, <2>1, <2>2, <2>3 DEF TakeToken, money, refundVars, requestVars
  <1>7. ASSUME TakeWallet(r) PROVE TypeOK'
    <2>1. session' \in [Requests -> SessionType]
      BY <1>7, <1>s DEF TakeWallet, SessionType, FundingTaken
    <2>2. pc' \in [Requests -> HandlerPC]
      BY <1>7 DEF TakeWallet, Goto, HandlerPC, PreparePC
    <2>3. wallet' \in Int /\ subUsed' \in Nat /\ fundNet' \in [Requests -> Int]
      BY <1>7, <1>s DEF TakeWallet, SessionType, MoveWallet
    <2> QED
      BY <1>7, <2>1, <2>2, <2>3 DEF TakeWallet, money, refundVars, requestVars
  <1>8. ASSUME TakeSubscription(r) PROVE TypeOK'
    <2>1. session' \in [Requests -> SessionType]
      BY <1>8, <1>s DEF TakeSubscription, SessionType, FundingTaken
    <2>2. pc' \in [Requests -> HandlerPC]
      BY <1>8 DEF TakeSubscription, Goto, HandlerPC, PreparePC
    <2>3. wallet' \in Int /\ subUsed' \in Nat /\ fundNet' \in [Requests -> Int]
      BY <1>8, <1>s DEF TakeSubscription, SessionType
    <2>4. preRecord' \in [Requests -> {"none", "consumed", "refunded"}]
      BY <1>8 DEF TakeSubscription
    <2> QED
      BY <1>8, <2>1, <2>2, <2>3, <2>4 DEF TakeSubscription, money, refundVars,
         requestVars
  <1>9. ASSUME FundingFails(r) PROVE TypeOK'
    <2>1. pc' \in [Requests -> HandlerPC]
      BY <1>9 DEF FundingFails, Goto, HandlerPC, PreparePC
    <2>2. insufficient' \in [Requests -> BOOLEAN]
      BY <1>9 DEF FundingFails
    <2> QED
      BY <1>9, <2>1, <2>2 DEF FundingFails, money, refundVars, requestVars
  <1>10. ASSUME RollbackToken(r) PROVE TypeOK'
    <2>1. session' \in [Requests -> SessionType]
      BY <1>10, NewSessionType DEF RollbackToken, Sources
    <2>2. pc' \in [Requests -> HandlerPC]
      BY <1>10 DEF RollbackToken, Goto, HandlerPC, PreparePC, AfterFailure
    <2>3. tokenRemain' \in Int /\ tokenNet' \in [Requests -> Int]
      BY <1>10, <1>s DEF RollbackToken, MoveToken, SessionType
    <2>4. logged' \in [Requests -> BOOLEAN]
      BY <1>10 DEF RollbackToken, LogError
    <2> QED
      BY <1>10, <2>1, <2>2, <2>3, <2>4 DEF RollbackToken, money, refundVars,
         requestVars
  <1>11. ASSUME CheckOverflow(r) PROVE TypeOK'
    <2>1. pc' \in [Requests -> HandlerPC]
      BY <1>11 DEF CheckOverflow, Goto, HandlerPC, PreparePC
    <2> QED
      BY <1>11, <2>1 DEF CheckOverflow, money, refundVars, requestVars
  <1>12. ASSUME Succeed(r) PROVE TypeOK'
    <2>1. pc' \in [Requests -> HandlerPC]
      BY <1>12 DEF Succeed, Goto, HandlerPC, PreparePC
    <2>2. owed' \in [Requests -> Nat]
      BY <1>12, BillingAssumption DEF Succeed
    <2> QED
      BY <1>12, <2>1, <2>2 DEF Succeed, money, refundVars, requestVars
  <1>13. ASSUME Fail(r) PROVE TypeOK'
    <2>1. session' = session \/ session' = [session EXCEPT ![r].refunded = TRUE]
      BY <1>13 DEF Fail
    <2>2. [session EXCEPT ![r].refunded = TRUE] \in [Requests -> SessionType]
      BY <1>13, <1>s DEF SessionType
    <2>3. session' \in [Requests -> SessionType]
      BY <1>13, <2>1, <2>2
    <2>4. pc' \in [Requests -> HandlerPC]
      BY <1>13 DEF Fail, Goto, HandlerPC, PreparePC
    <2>5. rpc' \in [Requests -> RefundPC]
      BY <1>13 DEF Fail, NeedsRefund, RefundPC
    <2>6. owed' \in [Requests -> Nat]
      BY <1>13, BillingAssumption DEF Fail
    <2> QED
      BY <1>13, <2>1, <2>2, <2>3, <2>4, <2>5, <2>6 DEF Fail, money,
         refundVars, requestVars
  <1>14. ASSUME SettleNothing(r) PROVE TypeOK'
    <2>1. session' \in [Requests -> SessionType]
      BY <1>14, <1>s DEF SettleNothing, SessionType
    <2>2. pc' \in [Requests -> HandlerPC]
      BY <1>14 DEF SettleNothing, Goto, HandlerPC, PreparePC
    <2> QED
      BY <1>14, <2>1, <2>2 DEF SettleNothing, money, refundVars, requestVars
  <1>15. ASSUME SettleFunding(r) PROVE TypeOK'
    <2>1. profile[r].playground \in BOOLEAN
      BY <1>15, <1>s DEF ProfileType
    <2>2. session' \in [Requests -> SessionType]
      BY <1>15, <1>s, <2>1 DEF SettleFunding, SessionType
    <2>3. pc' \in [Requests -> HandlerPC]
      BY <1>15 DEF SettleFunding, Goto, HandlerPC, PreparePC
    <2>4. wallet' \in Int /\ subUsed' \in Nat /\ fundNet' \in [Requests -> Int]
      BY <1>15, <1>s DEF SettleFunding, SessionType, MoveFunding, MoveWallet,
         MoveSubscription, ClampedUse, SettleDelta
    <2> QED
      BY <1>15, <2>1, <2>2, <2>3, <2>4 DEF SettleFunding, money, refundVars,
         requestVars
  <1>16. ASSUME SettleFundingFails(r) PROVE TypeOK'
    <2>1. pc' \in [Requests -> HandlerPC]
      BY <1>16 DEF SettleFundingFails, Goto, HandlerPC, PreparePC
    <2>2. logged' \in [Requests -> BOOLEAN]
      BY <1>16 DEF SettleFundingFails, LogError
    <2> QED
      BY <1>16, <2>1, <2>2 DEF SettleFundingFails, money, refundVars,
         requestVars
  <1>17. ASSUME SettleToken(r) PROVE TypeOK'
    <2>1. session' \in [Requests -> SessionType]
      BY <1>17, <1>s DEF SettleToken, SessionType
    <2>2. pc' \in [Requests -> HandlerPC]
      BY <1>17 DEF SettleToken, Goto, HandlerPC, PreparePC
    <2>3. tokenRemain' \in Int /\ tokenNet' \in [Requests -> Int]
      BY <1>17, <1>s DEF SettleToken, MoveToken, SessionType, SettleDelta
    <2>4. logged' \in [Requests -> BOOLEAN]
      BY <1>17 DEF SettleToken, LogError
    <2> QED
      BY <1>17, <2>1, <2>2, <2>3, <2>4 DEF SettleToken, money, refundVars,
         requestVars
  <1>18. ASSUME PostConsumeFunding(r) PROVE TypeOK'
    <2>1. pc' \in [Requests -> HandlerPC]
      BY <1>18 DEF PostConsumeFunding, Goto, HandlerPC, PreparePC
    <2>2. wallet' \in Int /\ subUsed' \in Nat /\ fundNet' \in [Requests -> Int]
      BY <1>18, <1>s DEF PostConsumeFunding, SessionType, MoveFunding,
         MoveWallet, MoveSubscription, ClampedUse
    <2> QED
      BY <1>18, <2>1, <2>2 DEF PostConsumeFunding, money, refundVars,
         requestVars
  <1>19. ASSUME PostConsumeFundingFails(r) PROVE TypeOK'
    <2>1. pc' \in [Requests -> HandlerPC]
      BY <1>19 DEF PostConsumeFundingFails, Goto, HandlerPC, PreparePC
    <2>2. logged' \in [Requests -> BOOLEAN]
      BY <1>19 DEF PostConsumeFundingFails, LogError
    <2> QED
      BY <1>19, <2>1, <2>2 DEF PostConsumeFundingFails, money, refundVars,
         requestVars
  <1>20. ASSUME PostConsumeToken(r) PROVE TypeOK'
    <2>1. pc' \in [Requests -> HandlerPC]
      BY <1>20 DEF PostConsumeToken, Goto, HandlerPC, PreparePC
    <2>2. tokenRemain' \in Int /\ tokenNet' \in [Requests -> Int]
      BY <1>20, <1>s DEF PostConsumeToken, MoveToken, SessionType
    <2>3. logged' \in [Requests -> BOOLEAN]
      BY <1>20 DEF PostConsumeToken, LogError
    <2> QED
      BY <1>20, <2>1, <2>2, <2>3 DEF PostConsumeToken, money, refundVars,
         requestVars
  <1>21. ASSUME RefundWallet(r) PROVE TypeOK'
    <2>1. rpc' \in [Requests -> RefundPC]
      BY <1>21 DEF RefundWallet, RefundGoto, RefundPC
    <2>2. wallet' \in Int /\ subUsed' \in Nat /\ fundNet' \in [Requests -> Int]
      BY <1>21, <1>s DEF RefundWallet, SessionType, MoveWallet
    <2>3. logged' \in [Requests -> BOOLEAN]
      BY <1>21 DEF RefundWallet, LogError
    <2> QED
      BY <1>21, <2>1, <2>2, <2>3 DEF RefundWallet, money, refundVars,
         requestVars
  <1>22. ASSUME RefundSubscription(r) PROVE TypeOK'
    <2>1. rpc' \in [Requests -> RefundPC]
      BY <1>22 DEF RefundSubscription, RefundGoto, RefundPC
    <2>2. wallet' \in Int /\ subUsed' \in Nat /\ fundNet' \in [Requests -> Int]
      BY <1>22, <1>s DEF RefundSubscription, SessionType, MoveSubscription,
         ClampedUse
    <2> QED
      BY <1>22, <2>1, <2>2 DEF RefundSubscription, money, refundVars,
         requestVars
  <1>23. ASSUME MarkRefunded(r) PROVE TypeOK'
    <2>1. rpc' \in [Requests -> RefundPC]
      BY <1>23 DEF MarkRefunded, RefundGoto, RefundPC
    <2>2. preRecord' \in [Requests -> {"none", "consumed", "refunded"}]
      BY <1>23 DEF MarkRefunded
    <2> QED
      BY <1>23, <2>1, <2>2 DEF MarkRefunded, money, refundVars, requestVars
  <1>24. ASSUME RetryRefund(r) PROVE TypeOK'
    <2>1. rpc' \in [Requests -> RefundPC]
      BY <1>24 DEF RetryRefund, RefundGoto, RefundPC
    <2>2. logged' \in [Requests -> BOOLEAN]
      BY <1>24 DEF RetryRefund, LogError
    <2>3. attempts' \in [Requests -> 0 .. maxRefundAttempts]
      BY <1>24 DEF RetryRefund, Shape, RefundShape, maxRefundAttempts
    <2> QED
      BY <1>24, <2>1, <2>2, <2>3 DEF RetryRefund, money, refundVars,
         requestVars
  <1>25. ASSUME RefundToken(r) PROVE TypeOK'
    <2>1. rpc' \in [Requests -> RefundPC]
      BY <1>25 DEF RefundToken, RefundGoto, RefundPC
    <2>2. tokenRemain' \in Int /\ tokenNet' \in [Requests -> Int]
      BY <1>25, <1>s DEF RefundToken, MoveToken, SessionType
    <2>3. logged' \in [Requests -> BOOLEAN]
      BY <1>25 DEF RefundToken, LogError
    <2> QED
      BY <1>25, <2>1, <2>2, <2>3 DEF RefundToken, money, refundVars,
         requestVars
  <1> QED
    BY <1>1, <1>2, <1>3, <1>4, <1>5, <1>6, <1>7, <1>8, <1>9, <1>10, <1>11,
       <1>12, <1>13, <1>14, <1>15, <1>16, <1>17, <1>18, <1>19, <1>20, <1>21,
       <1>22, <1>23, <1>24, <1>25
       DEF Handler, Prepare, Charge, Refunder

-----------------------------------------------------------------------------
(* Frames.                                                                 *)

(* A step of one request leaves every other request untouched.             *)
LEMMA OtherRequests ==
    ASSUME TypeOK, NEW r \in Requests, NEW q \in Requests, q # r,
           Begin(r) \/ Handler(r) \/ Refunder(r)
    PROVE  Untouched(q)
  <1> USE DEF TypeOK, Untouched, Goto, LogError, RefundGoto, MoveWallet,
        MoveToken, MoveSubscription, MoveFunding, FundingTaken, money,
        refundVars, requestVars
  <1>1. CASE Begin(r) BY <1>1 DEF Begin
  <1>2. CASE CheckSubscription(r) BY <1>2 DEF CheckSubscription
  <1>3. CASE TryWallet(r) BY <1>3 DEF TryWallet
  <1>4. CASE TrySubscription(r) BY <1>4 DEF TrySubscription
  <1>5. CASE ReadToken(r) BY <1>5 DEF ReadToken
  <1>6. CASE TakeToken(r) BY <1>6 DEF TakeToken
  <1>7. CASE TakeWallet(r) BY <1>7 DEF TakeWallet
  <1>8. CASE TakeSubscription(r) BY <1>8 DEF TakeSubscription
  <1>9. CASE FundingFails(r) BY <1>9 DEF FundingFails
  <1>10. CASE RollbackToken(r) BY <1>10 DEF RollbackToken
  <1>11. CASE CheckOverflow(r) BY <1>11 DEF CheckOverflow
  <1>12. CASE Succeed(r) BY <1>12 DEF Succeed
  <1>13. CASE Fail(r) BY <1>13 DEF Fail
  <1>14. CASE SettleNothing(r) BY <1>14 DEF SettleNothing
  <1>15. CASE SettleFunding(r) BY <1>15 DEF SettleFunding
  <1>16. CASE SettleFundingFails(r) BY <1>16 DEF SettleFundingFails
  <1>17. CASE SettleToken(r) BY <1>17 DEF SettleToken
  <1>18. CASE PostConsumeFunding(r) BY <1>18 DEF PostConsumeFunding
  <1>19. CASE PostConsumeFundingFails(r) BY <1>19 DEF PostConsumeFundingFails
  <1>20. CASE PostConsumeToken(r) BY <1>20 DEF PostConsumeToken
  <1>21. CASE RefundWallet(r) BY <1>21 DEF RefundWallet
  <1>22. CASE RefundSubscription(r) BY <1>22 DEF RefundSubscription
  <1>23. CASE MarkRefunded(r) BY <1>23 DEF MarkRefunded
  <1>24. CASE RetryRefund(r) BY <1>24 DEF RetryRefund
  <1>25. CASE RefundToken(r) BY <1>25 DEF RefundToken
  <1> QED
    BY <1>1, <1>2, <1>3, <1>4, <1>5, <1>6, <1>7, <1>8, <1>9, <1>10, <1>11,
       <1>12, <1>13, <1>14, <1>15, <1>16, <1>17, <1>18, <1>19, <1>20, <1>21,
       <1>22, <1>23, <1>24, <1>25
       DEF Handler, Prepare, Charge, Refunder

(* An untouched request keeps its shape and its books.                     *)
LEMMA UntouchedKeeps ==
    ASSUME NEW q \in Requests, Untouched(q)
    PROVE  /\ SessionShape(q) /\ RefundShape(q)
                => (SessionShape(q) /\ RefundShape(q))'
           /\ Books(q) => Books(q)'
  <1>1. SessionShape(q) => SessionShape(q)'
    BY DEF Untouched, SessionShape
  <1>2. RefundShape(q) => RefundShape(q)'
    BY DEF Untouched, RefundShape
  <1>3. Books(q) => Books(q)'
    BY DEF Untouched, Books, FundHold, TokenHold, FundPaid, TokenPaid,
           TokenShare
  <1> QED BY <1>1, <1>2, <1>3

-----------------------------------------------------------------------------
(* The shape of sessions and refunds.                                      *)

(* A step of a request preserves its own shape.                            *)
LEMMA OwnShape ==
    ASSUME TypeOK, Shape, NEW r \in Requests,
           Begin(r) \/ Handler(r) \/ Refunder(r)
    PROVE  (SessionShape(r) /\ RefundShape(r))'
  <1>s. session[r] \in SessionType /\ profile[r] \in ProfileType
    BY RequestTypes
  <1>h. SessionShape(r) /\ RefundShape(r)
    BY DEF Shape
  <1> USE <1>s, <1>h DEF TypeOK, SessionShape, RefundShape, SessionType, Goto,
        LogError, requestVars, refundVars, money, BeforeToken, Untaken,
        AfterFailurePC
  <1>1. CASE Begin(r)
    <2>1. FirstTry(profile[r].pref) \in {"trySub", "tryWallet", "checkSub"}
      BY DEF FirstTry, ProfileType, Preferences
    <2> QED BY <1>1, <2>1 DEF Begin
  <1>2. CASE CheckSubscription(r)
    BY <1>2 DEF CheckSubscription
  <1>3. CASE TryWallet(r)
    <2> DEFINE amount == IF ShouldTrust(r, wallet) THEN 0 ELSE profile[r].quota
    <2>1. amount \in Nat
      BY DEF ProfileType
    <2> HIDE DEF amount
    <2>2. \/ /\ session' = [session EXCEPT ![r] = NewSession("wallet", amount)]
             /\ pc' = [pc EXCEPT ![r] = IF amount > 0 THEN "tokenRead" ELSE "fund"]
          \/ /\ session' = session
             /\ pc'[r] \in {"trySub", "rejected"}
      BY <1>3 DEF TryWallet, amount
    <2> QED BY <1>3, <2>1, <2>2 DEF TryWallet, NewSession
  <1>4. CASE TrySubscription(r)
    BY <1>4 DEF TrySubscription, NewSession, SubscriptionAmount
  <1>5. CASE ReadToken(r)
    <2>1. \/ /\ session'[r] = [session[r] EXCEPT !.tokenConsumed = session[r].amount]
             /\ pc'[r] = "fund"
          \/ /\ session' = session
             /\ pc'[r] \in {"tokenDec", "rejected"}
             /\ ~profile[r].playground
      BY <1>5 DEF ReadToken
    <2>2. /\ pc[r] = "tokenRead"
          /\ UNCHANGED <<fundNet, owed, profile, rpc, logged,
                       preRecord, attempts, tokenNet>>
      BY <1>5 DEF ReadToken
    <2> QED BY <2>1, <2>2
  <1>6. CASE TakeToken(r)
    <2>1. \/ /\ session'[r] = [session[r] EXCEPT !.tokenConsumed = session[r].amount]
             /\ pc'[r] = "fund"
             /\ tokenNet' = [tokenNet EXCEPT ![r] = @ + session[r].amount]
          \/ /\ session' = session
             /\ pc'[r] = "rejected"
             /\ tokenNet' = tokenNet
      BY <1>6 DEF TakeToken, MoveToken
    <2>2. /\ pc[r] = "tokenDec"
          /\ UNCHANGED <<fundNet, owed, profile, rpc, logged,
                       preRecord, attempts>>
      BY <1>6 DEF TakeToken
    <2> QED BY <2>1, <2>2
  <1>7. CASE TakeWallet(r)
    BY <1>7 DEF TakeWallet, MoveWallet, FundingTaken
  <1>8. CASE TakeSubscription(r)
    BY <1>8 DEF TakeSubscription, FundingTaken, SubscriptionHasRoom
  <1>9. CASE FundingFails(r)
    BY <1>9 DEF FundingFails
  <1>10. CASE RollbackToken(r)
    BY <1>10 DEF RollbackToken, MoveToken, NewSession, AfterFailure
  <1>11. CASE CheckOverflow(r)
    BY <1>11 DEF CheckOverflow
  <1>12. CASE Succeed(r)
    BY <1>12 DEF Succeed
  <1>13. CASE Fail(r)
    BY <1>13 DEF Fail, NeedsRefund
  <1>14. CASE SettleNothing(r)
    BY <1>14 DEF SettleNothing, SettleDelta
  <1>15. CASE SettleFunding(r)
    BY <1>15 DEF SettleFunding, SettleDelta, MoveFunding, MoveWallet,
       MoveSubscription, ClampedUse
  <1>16. CASE SettleFundingFails(r)
    BY <1>16 DEF SettleFundingFails
  <1>17. CASE SettleToken(r)
    BY <1>17 DEF SettleToken, SettleDelta, MoveToken
  <1>18. CASE PostConsumeFunding(r)
    BY <1>18 DEF PostConsumeFunding, MoveFunding, MoveWallet,
       MoveSubscription, ClampedUse
  <1>19. CASE PostConsumeFundingFails(r)
    BY <1>19 DEF PostConsumeFundingFails
  <1>20. CASE PostConsumeToken(r)
    BY <1>20 DEF PostConsumeToken, MoveToken
  <1>21. CASE RefundWallet(r)
    BY <1>21 DEF RefundWallet, MoveWallet, RefundGoto
  <1>22. CASE RefundSubscription(r)
    BY <1>22 DEF RefundSubscription, MoveSubscription, ClampedUse, RefundGoto
  <1>23. CASE MarkRefunded(r)
    BY <1>23 DEF MarkRefunded, RefundGoto
  <1>24. CASE RetryRefund(r)
    BY <1>24 DEF RetryRefund, RefundGoto, maxRefundAttempts
  <1>25. CASE RefundToken(r)
    BY <1>25 DEF RefundToken, MoveToken, RefundGoto
  <1> QED
    BY <1>1, <1>2, <1>3, <1>4, <1>5, <1>6, <1>7, <1>8, <1>9, <1>10, <1>11,
       <1>12, <1>13, <1>14, <1>15, <1>16, <1>17, <1>18, <1>19, <1>20, <1>21,
       <1>22, <1>23, <1>24, <1>25
       DEF Handler, Prepare, Charge, Refunder

(* The inductive invariant behind the types.                               *)
TypeAndShape == TypeOK /\ Shape

(* It holds at the start.                                                  *)
LEMMA InitShape == Init => TypeAndShape /\ AllBooks
  <1> SUFFICES ASSUME Init PROVE TypeAndShape /\ AllBooks
    OBVIOUS
  <1>1. NewSession("none", 0) \in SessionType
    BY NewSessionType DEF Sources
  <1>2. TypeOK
    BY <1>1, BillingAssumption DEF Init, TypeOK, HandlerPC, PreparePC,
       RefundPC, maxRefundAttempts
  <1>3. ASSUME NEW q \in Requests
        PROVE  SessionShape(q) /\ RefundShape(q) /\ Books(q)
    <2>1. /\ pc[q] = "idle" /\ rpc[q] = "off" /\ attempts[q] = 0
          /\ session[q] = NewSession("none", 0) /\ owed[q] = 0
          /\ fundNet[q] = 0 /\ tokenNet[q] = 0
      BY DEF Init
    <2>2. /\ session[q].funding = "none" /\ session[q].tokenConsumed = 0
          /\ session[q].consumed = 0 /\ session[q].preConsumed = 0
          /\ ~session[q].settled /\ ~session[q].refunded
          /\ ~session[q].fundingSettled
      BY <2>1 DEF NewSession
    <2>3. SessionShape(q)
      BY <2>1, <2>2 DEF SessionShape, BeforeToken, Untaken, AfterFailurePC
    <2>4. RefundShape(q)
      BY <2>1, <2>2 DEF RefundShape, BeforeToken, Untaken, AfterFailurePC,
         maxRefundAttempts
    <2>5. Books(q)
      BY <2>1, <2>2 DEF Books, FundHold, TokenHold, FundPaid, TokenPaid,
         TokenShare
    <2> QED BY <2>3, <2>4, <2>5
  <1> QED BY <1>2, <1>3 DEF TypeAndShape, Shape, AllBooks

(* Every step preserves it.                                                *)
LEMMA ShapeStep == TypeAndShape /\ [Next]_vars => TypeAndShape'
  <1> SUFFICES ASSUME TypeOK, Shape, [Next]_vars
               PROVE  TypeOK' /\ Shape'
    BY DEF TypeAndShape
  <1>1. ASSUME NEW r \in Requests, Begin(r) \/ Handler(r) \/ Refunder(r)
        PROVE  TypeOK' /\ Shape'
    <2>1. TypeOK'
      BY <1>1, TypeStep
    <2>2. ASSUME NEW q \in Requests
          PROVE  (SessionShape(q) /\ RefundShape(q))'
      <3>1. CASE q = r
        BY <1>1, <3>1, OwnShape
      <3>2. CASE q # r
        <4>1. Untouched(q)
          BY <1>1, <3>2, OtherRequests
        <4> QED BY <4>1, UntouchedKeeps DEF Shape
      <3> QED BY <3>1, <3>2
    <2> QED BY <2>1, <2>2 DEF Shape
  <1>2. CASE EndSubscription
    <2>1. TypeOK'
      BY <1>2 DEF EndSubscription, TypeOK, money, refundVars, requestVars
    <2>2. \A q \in Requests : Untouched(q)
      BY <1>2 DEF EndSubscription, Untouched, money, refundVars, requestVars
    <2> QED BY <2>1, <2>2, UntouchedKeeps DEF Shape
  <1>3. CASE ResetSubscription
    <2>1. TypeOK'
      BY <1>3 DEF ResetSubscription, TypeOK, refundVars, requestVars
    <2>2. \A q \in Requests : Untouched(q)
      BY <1>3 DEF ResetSubscription, Untouched, refundVars, requestVars
    <2> QED BY <2>1, <2>2, UntouchedKeeps DEF Shape
  <1>4. CASE UNCHANGED vars
    <2>1. TypeOK'
      BY <1>4 DEF vars, TypeOK
    <2>2. \A q \in Requests : Untouched(q)
      BY <1>4 DEF vars, Untouched
    <2> QED BY <2>1, <2>2, UntouchedKeeps DEF Shape
  <1> QED BY <1>1, <1>2, <1>3, <1>4 DEF Next

(* Type correctness: every reachable state of the billing life cycle is    *)
(* well typed; in particular amount_used never becomes negative and the    *)
(* refund is attempted at most maxRefundAttempts times.                    *)
THEOREM TypeCorrect == Spec => []TypeOK
  <1>1. Init => TypeAndShape
    BY InitShape
  <1>2. TypeAndShape /\ [Next]_vars => TypeAndShape'
    BY ShapeStep
  <1>3. TypeAndShape => TypeOK
    BY DEF TypeAndShape
  <1> QED BY <1>1, <1>2, <1>3, PTL DEF Spec

-----------------------------------------------------------------------------
(* The books.                                                              *)

(* A step of a request keeps its books, unless saving the refunded mark    *)
(* can fail after the nested transaction has committed.                    *)
LEMMA OwnBooks ==
    ASSUME TypeOK, Shape, NEW r \in Requests, Books(r),
           "recordSave" \notin Faults,
           Begin(r) \/ Handler(r) \/ Refunder(r)
    PROVE  Books(r)'
  <1>s. session[r] \in SessionType /\ profile[r] \in ProfileType
    BY RequestTypes
  <1>h. SessionShape(r) /\ RefundShape(r)
    BY DEF Shape
  <1> USE <1>s, <1>h DEF TypeOK, SessionShape, RefundShape, SessionType,
        ProfileType, Goto, LogError, requestVars, refundVars, money,
        BeforeToken, Untaken, AfterFailurePC, Books, FundHold, TokenHold,
        FundPaid, TokenPaid, TokenShare
  <1>1. CASE Begin(r)
    BY <1>1 DEF Begin
  <1>2. CASE CheckSubscription(r)
    BY <1>2 DEF CheckSubscription
  <1>3. CASE TryWallet(r)
    BY <1>3 DEF TryWallet, NewSession, ShouldTrust
  <1>4. CASE TrySubscription(r)
    BY <1>4 DEF TrySubscription, NewSession, SubscriptionAmount
  <1>5. CASE ReadToken(r)
    BY <1>5 DEF ReadToken
  <1>6. CASE TakeToken(r)
    <2>1. \/ /\ session'[r] = [session[r] EXCEPT !.tokenConsumed = session[r].amount]
             /\ pc'[r] = "fund"
             /\ tokenNet' = [tokenNet EXCEPT ![r] = @ + session[r].amount]
          \/ /\ session' = session
             /\ pc'[r] = "rejected"
             /\ tokenNet' = tokenNet
      BY <1>6 DEF TakeToken, MoveToken
    <2>2. /\ pc[r] = "tokenDec"
          /\ UNCHANGED <<fundNet, owed, profile, rpc, logged,
                       preRecord, attempts>>
      BY <1>6 DEF TakeToken
    <2> QED BY <2>1, <2>2
  <1>7. CASE TakeWallet(r)
    BY <1>7 DEF TakeWallet, MoveWallet, FundingTaken
  <1>8. CASE TakeSubscription(r)
    BY <1>8 DEF TakeSubscription, FundingTaken, SubscriptionHasRoom
  <1>9. CASE FundingFails(r)
    BY <1>9 DEF FundingFails
  <1>10. CASE RollbackToken(r)
    BY <1>10 DEF RollbackToken, MoveToken, NewSession, AfterFailure
  <1>11. CASE CheckOverflow(r)
    BY <1>11 DEF CheckOverflow
  <1>12. CASE Succeed(r)
    <2>1. /\ pc[r] = "serving" /\ pc'[r] \in {"settleFund", "postFund", "done"}
          /\ pc'[r] = "settleFund" <=> profile[r].billed
          /\ pc'[r] = "done" => owed'[r] = 0
          /\ UNCHANGED <<fundNet, tokenNet, logged, profile, session, rpc>>
      BY <1>12, BillingAssumption DEF Succeed
    <2> QED BY <2>1
  <1>13. CASE Fail(r)
    <2>1. /\ pc[r] = "serving" /\ pc'[r] \in {"postFund", "done"}
          /\ pc'[r] = "done" => owed'[r] = 0
          /\ UNCHANGED <<fundNet, tokenNet, logged, profile>>
      BY <1>13, BillingAssumption DEF Fail
    <2>2. CASE NeedsRefund(r)
      BY <1>13, <2>1, <2>2 DEF Fail
    <2>3. CASE ~NeedsRefund(r)
      BY <1>13, <2>1, <2>3 DEF Fail, NeedsRefund
    <2> QED BY <2>2, <2>3
  <1>14. CASE SettleNothing(r)
    BY <1>14 DEF SettleNothing, SettleDelta
  <1>15. CASE SettleFunding(r)
    BY <1>15 DEF SettleFunding, SettleDelta, MoveFunding, MoveWallet,
       MoveSubscription, ClampedUse
  <1>16. CASE SettleFundingFails(r)
    BY <1>16 DEF SettleFundingFails
  <1>17. CASE SettleToken(r)
    BY <1>17 DEF SettleToken, SettleDelta, MoveToken
  <1>18. CASE PostConsumeFunding(r)
    BY <1>18 DEF PostConsumeFunding, MoveFunding, MoveWallet,
       MoveSubscription, ClampedUse
  <1>19. CASE PostConsumeFundingFails(r)
    BY <1>19 DEF PostConsumeFundingFails
  <1>20. CASE PostConsumeToken(r)
    BY <1>20 DEF PostConsumeToken, MoveToken
  <1>21. CASE RefundWallet(r)
    BY <1>21 DEF RefundWallet, MoveWallet, RefundGoto
  <1>22. CASE RefundSubscription(r)
    BY <1>22 DEF RefundSubscription, MoveSubscription, ClampedUse, RefundGoto
  <1>23. CASE MarkRefunded(r)
    BY <1>23 DEF MarkRefunded, RefundGoto
  <1>24. CASE RetryRefund(r)
    BY <1>24 DEF RetryRefund, RefundGoto, maxRefundAttempts
  <1>25. CASE RefundToken(r)
    BY <1>25 DEF RefundToken, MoveToken, RefundGoto
  <1> QED
    BY <1>1, <1>2, <1>3, <1>4, <1>5, <1>6, <1>7, <1>8, <1>9, <1>10, <1>11,
       <1>12, <1>13, <1>14, <1>15, <1>16, <1>17, <1>18, <1>19, <1>20, <1>21,
       <1>22, <1>23, <1>24, <1>25
       DEF Handler, Prepare, Charge, Refunder

(* The inductive invariant behind the books.                               *)
Inv == TypeAndShape /\ AllBooks

(* Every step preserves it.                                                *)
LEMMA InvStep ==
    ASSUME "recordSave" \notin Faults
    PROVE  Inv /\ [Next]_vars => Inv'
  <1> SUFFICES ASSUME TypeOK, Shape, AllBooks, [Next]_vars
               PROVE  Inv'
    BY DEF Inv, TypeAndShape
  <1>1. TypeAndShape'
    BY ShapeStep DEF TypeAndShape
  <1>2. ASSUME NEW q \in Requests
        PROVE  Books(q)'
    <2>1. Books(q)
      BY DEF AllBooks
    <2>2. ASSUME NEW r \in Requests, Begin(r) \/ Handler(r) \/ Refunder(r)
          PROVE  Books(q)'
      <3>1. CASE q = r
        BY <2>1, <2>2, <3>1, OwnBooks
      <3>2. CASE q # r
        <4>1. Untouched(q)
          BY <2>2, <3>2, OtherRequests
        <4> QED BY <2>1, <4>1, UntouchedKeeps
      <3> QED BY <3>1, <3>2
    <2>3. CASE EndSubscription
      <3>1. Untouched(q)
        BY <2>3 DEF EndSubscription, Untouched, money, refundVars, requestVars
      <3> QED BY <2>1, <3>1, UntouchedKeeps
    <2>4. CASE ResetSubscription
      <3>1. Untouched(q)
        BY <2>4 DEF ResetSubscription, Untouched, refundVars, requestVars
      <3> QED BY <2>1, <3>1, UntouchedKeeps
    <2>5. CASE UNCHANGED vars
      <3>1. Untouched(q)
        BY <2>5 DEF vars, Untouched
      <3> QED BY <2>1, <3>1, UntouchedKeeps
    <2> QED BY <2>2, <2>3, <2>4, <2>5 DEF Next
  <1> QED BY <1>1, <1>2 DEF Inv, AllBooks

(* The books imply the two properties of a request.                        *)
LEMMA InvImplies == Inv => ChargedExactly /\ NeverOverRefunded
  <1> SUFFICES ASSUME Inv, NEW r \in Requests
               PROVE  /\ Ended(r) /\ ~logged[r] =>
                            /\ fundNet[r] = owed[r]
                            /\ tokenNet[r] = TokenShare(r)
                      /\ fundNet[r] >= 0 /\ tokenNet[r] >= 0
    BY DEF ChargedExactly, NeverOverRefunded
  <1>1. TypeOK /\ Books(r) /\ SessionShape(r)
    BY DEF Inv, TypeAndShape, AllBooks, Shape
  <1>2. session[r] \in SessionType
    BY <1>1, RequestTypes
  <1>3. FundHold(r) \in Nat /\ TokenHold(r) \in Nat
    BY <1>2 DEF FundHold, TokenHold, SessionType
  <1>4. fundNet[r] >= 0 /\ tokenNet[r] >= 0
    BY <1>1, <1>3 DEF Books, TypeOK
  <1>5. ASSUME Ended(r), ~logged[r]
        PROVE  fundNet[r] = owed[r] /\ tokenNet[r] = TokenShare(r)
    <2>1. FundHold(r) = 0 /\ TokenHold(r) = 0
      BY <1>5 DEF Ended, FundHold, TokenHold
    <2>2. owed[r] \in Nat /\ TokenShare(r) \in Nat
      BY <1>1 DEF TypeOK, TokenShare
    <2>3. FundPaid(r) = owed[r] /\ TokenPaid(r) = TokenShare(r)
      BY <1>1, <1>5 DEF Ended, FundPaid, TokenPaid, TokenShare, SessionShape,
         Untaken, BeforeToken
    <2> QED BY <1>1, <1>5, <2>1, <2>2, <2>3 DEF Books
  <1> QED BY <1>4, <1>5

(* Unless the refunded mark can fail to be saved after the nested          *)
(* transaction of RefundSubscriptionPreConsume committed, every request    *)
(* that ends without a logged error has paid exactly what it owed, on both *)
(* ledgers, whatever the other requests do.                                *)
THEOREM ExactCharge ==
    ASSUME "recordSave" \notin Faults
    PROVE  Spec => []ChargedExactly
  <1>1. Init => Inv
    BY InitShape DEF Inv
  <1>2. Inv /\ [Next]_vars => Inv'
    BY InvStep
  <1>3. Inv => ChargedExactly
    BY InvImplies
  <1> QED BY <1>1, <1>2, <1>3, PTL DEF Spec

(* Under the same condition, and however many storage calls fail, no       *)
(* request is ever given back more than was taken for it.                  *)
THEOREM NoOverRefund ==
    ASSUME "recordSave" \notin Faults
    PROVE  Spec => []NeverOverRefunded
  <1>1. Init => Inv
    BY InitShape DEF Inv
  <1>2. Inv /\ [Next]_vars => Inv'
    BY InvStep
  <1>3. Inv => NeverOverRefunded
    BY InvImplies
  <1> QED BY <1>1, <1>2, <1>3, PTL DEF Spec

-----------------------------------------------------------------------------
(* The subscription and settled funding.                                   *)

(* amount_used never exceeds amount_total, for any number of concurrent    *)
(* requests, surcharges, fees and repeated refunds.                        *)
THEOREM SubscriptionNeverOverused == Spec => []SubscriptionCap
  <1> DEFINE CapInv == TypeAndShape /\ SubscriptionCap
  <1>1. Init => CapInv
    BY InitShape, BillingAssumption DEF Init, SubscriptionCap
  <1>2. CapInv /\ [Next]_vars => CapInv'
    <2> SUFFICES ASSUME TypeOK, Shape, SubscriptionCap, [Next]_vars
                 PROVE  SubscriptionCap'
      BY ShapeStep DEF TypeAndShape
    <2> USE BillingAssumption DEF TypeOK, SubscriptionCap
    <2>1. ASSUME NEW r \in Requests, Begin(r) \/ Handler(r) \/ Refunder(r)
          PROVE  SubscriptionCap'
      <3>s. session[r] \in SessionType
        BY RequestTypes
      <3>1. CASE TakeSubscription(r)
        BY <3>1, <3>s DEF TakeSubscription, SubscriptionHasRoom, SessionType
      <3>2. CASE SettleFunding(r)
        BY <3>2, <3>s DEF SettleFunding, Adjustable, ExceedsTotal, MoveFunding,
           MoveWallet, MoveSubscription, ClampedUse, SettleDelta, SessionType
      <3>3. CASE PostConsumeFunding(r)
        BY <3>3, <3>s DEF PostConsumeFunding, Adjustable, ExceedsTotal,
           MoveFunding, MoveWallet, MoveSubscription, ClampedUse
      <3>4. CASE RefundSubscription(r)
        BY <3>4, <3>s DEF RefundSubscription, MoveSubscription, ClampedUse,
           SessionType
      <3>5. CASE UNCHANGED subUsed
        BY <3>5
      <3> QED
        BY <2>1, <3>1, <3>2, <3>3, <3>4, <3>5
           DEF Begin, Handler, Prepare, Charge, Refunder, CheckSubscription,
           TryWallet, TrySubscription, ReadToken, TakeToken, TakeWallet,
           FundingFails, RollbackToken, CheckOverflow, Succeed, Fail,
           SettleNothing, SettleFundingFails, SettleToken,
           PostConsumeFundingFails, PostConsumeToken, RefundWallet,
           MarkRefunded, RetryRefund, RefundToken, MoveWallet, money
    <2>2. CASE EndSubscription
      BY <2>2 DEF EndSubscription, money
    <2>3. CASE ResetSubscription
      BY <2>3, BillingAssumption DEF ResetSubscription
    <2>4. CASE UNCHANGED vars
      BY <2>4 DEF vars
    <2> QED BY <2>1, <2>2, <2>3, <2>4 DEF Next
  <1>3. CapInv => SubscriptionCap
    OBVIOUS
  <1> QED BY <1>1, <1>2, <1>3, PTL DEF Spec

(* After the funding source of a session is settled, no later step of any  *)
(* request changes what that session paid, whatever fails.                 *)
THEOREM SettledIsFinal == Spec => SettlementIsFinal
  <1>1. Init => TypeAndShape
    BY InitShape
  <1>2. TypeAndShape /\ [Next]_vars => TypeAndShape'
    BY ShapeStep
  <1>3. TypeAndShape /\ [Next]_vars =>
          [KeepsSettledFunding]_vars
    <2> SUFFICES ASSUME TypeOK, Shape, Next, NEW q \in Requests,
                        session[q].fundingSettled
                 PROVE  fundNet'[q] = fundNet[q]
      BY DEF TypeAndShape, KeepsSettledFunding
    <2>s. SessionShape(q) /\ RefundShape(q)
      BY DEF Shape
    <2>1. ASSUME NEW r \in Requests, Begin(r) \/ Handler(r) \/ Refunder(r)
          PROVE  fundNet'[q] = fundNet[q]
      <3>1. CASE q = r
        <4>1. pc[r] \in {"settleToken", "done"} /\ rpc[r] = "off"
          BY <2>s, <3>1 DEF RefundShape
        <4>2. SettleToken(r)
          BY <2>1, <4>1 DEF Begin, Handler, Prepare, Charge, Refunder,
             CheckSubscription, TryWallet, TrySubscription, ReadToken,
             TakeToken, TakeWallet, TakeSubscription, FundingFails,
             RollbackToken, CheckOverflow, Succeed, Fail, SettleNothing,
             SettleFunding, SettleFundingFails, PostConsumeFunding,
             PostConsumeFundingFails, PostConsumeToken, RefundWallet,
             RefundSubscription, MarkRefunded, RetryRefund, RefundToken
        <4> QED BY <4>2 DEF SettleToken
      <3>2. CASE q # r
        BY <2>1, <3>2, OtherRequests DEF Untouched
      <3> QED BY <3>1, <3>2
    <2>2. CASE EndSubscription
      BY <2>2 DEF EndSubscription, money
    <2>3. CASE ResetSubscription
      BY <2>3 DEF ResetSubscription
    <2> QED BY <2>1, <2>2, <2>3 DEF Next
  <1> QED BY <1>1, <1>2, <1>3, PTL DEF Spec, SettlementIsFinal

=============================================================================
