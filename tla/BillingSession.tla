--------------------------- MODULE BillingSession ---------------------------
(***************************************************************************)
(* The billing life cycle of relay requests: pre-consume, settle, refund.  *)
(*                                                                         *)
(* Every request of one user and one API token opens a BillingSession      *)
(* (service/billing_session.go) that holds quota on two ledgers at once:   *)
(* the token's remain_quota and a funding source, which is either the      *)
(* user's wallet (users.quota) or a subscription                           *)
(* (user_subscriptions.amount_used).  No transaction spans the ledgers, so *)
(* every storage call is a step of its own and may fail on its own.  The   *)
(* refund runs in a goroutine of its own, next to the handler.             *)
(***************************************************************************)
EXTENDS Integers

CONSTANTS
    Requests,        \* the requests; each is one run of the relay handler
    Profiles,        \* the request kinds explored: see ProfileType
    ActualQuotas,    \* what a request may turn out to cost
    FeeQuotas,       \* violation fees charged on failure; 0 is no fee
    InitWallet,      \* users.quota at the start
    InitToken,       \* tokens.remain_quota at the start
    SubTotal,        \* amount_total of the subscription; 0 is unlimited
    HasSubscription, \* the user starts with an active subscription
    WalletOverflow,  \* the subscription allows falling back to the wallet
    TrustQuota,      \* common.GetTrustQuota(); 0 switches the bypass off
    Faults           \* the storage failures explored: see FaultKinds

Preferences == {"subscription_only", "wallet_only", "wallet_first",
                "subscription_first"}

(* The fields of RelayInfo the session reads.  billed is FALSE for a free  *)
(* model and for upstream-usage settlement, which open no session.         *)
ProfileType ==
    [pref: Preferences, quota: Nat, playground: BOOLEAN, force: BOOLEAN,
     unlimited: BOOLEAN, billed: BOOLEAN]

(* "op": any single storage call may return an error and change nothing.   *)
(* "recordSave": saving the refunded mark may fail after the nested        *)
(* transaction that gave the quota back has committed.                     *)
FaultKinds == {"op", "recordSave"}

ASSUME BillingAssumption ==
    /\ Profiles \subseteq ProfileType
    /\ \A p \in Profiles : p.playground => ~p.unlimited
    /\ ActualQuotas \subseteq Nat
    /\ FeeQuotas \subseteq Nat
    /\ 0 \in FeeQuotas
    /\ InitWallet \in Int
    /\ InitToken \in Int
    /\ SubTotal \in Nat
    /\ HasSubscription \in BOOLEAN
    /\ WalletOverflow \in BOOLEAN
    /\ TrustQuota \in Nat
    /\ Faults \subseteq FaultKinds

VARIABLES
    wallet,      \* users.quota
    tokenRemain, \* tokens.remain_quota
    subUsed,     \* user_subscriptions.amount_used
    subActive,   \* the subscription is active and not past its end time
    preRecord,   \* status of the request's subscription_pre_consume_records row
    pc,          \* where the handler of a request is
    rpc,         \* where its refund goroutine is
    attempts,    \* failed attempts of refundWithRetry
    profile,     \* the request's RelayInfo; never changes
    tokenQuota,  \* the context's token_quota, read at authentication
    session,     \* the BillingSession
    insufficient,\* the last preConsume error was InsufficientUserQuota
    owed,        \* what the request has to pay: its cost, or the fee
    fundNet,     \* history: net amount taken from the funding source
    tokenNet,    \* history: net amount taken from the token
    logged       \* history: a billing error was logged and swallowed

money == <<wallet, tokenRemain, subUsed, fundNet, tokenNet>>
refundVars == <<preRecord, rpc, attempts>>
requestVars == <<profile, tokenQuota, owed>>
vars == <<wallet, tokenRemain, subUsed, subActive, preRecord, pc, rpc,
          attempts, profile, tokenQuota, session, insufficient, owed, fundNet,
          tokenNet, logged>>

PreparePC == {"checkSub", "tryWallet", "trySub", "tokenRead", "tokenDec",
              "fund", "rollback", "overflow"}
HandlerPC == PreparePC \cup
             {"idle", "serving", "settleFund", "settleToken", "postFund",
              "postToken", "done", "rejected"}
RefundPC == {"off", "fund", "mark", "token", "finished"}

Sources == {"none", "wallet", "subscription"}

(* amount is the quota preConsume works with (effectiveQuota); consumed is *)
(* WalletFunding.consumed or SubscriptionFunding.preConsumed.              *)
SessionType ==
    [funding: Sources, amount: Nat, preConsumed: Nat, tokenConsumed: Nat,
     consumed: Nat, fundingSettled: BOOLEAN, settled: BOOLEAN,
     refunded: BOOLEAN]

NewSession(source, quota) ==
    [funding |-> source, amount |-> quota, preConsumed |-> 0,
     tokenConsumed |-> 0, consumed |-> 0, fundingSettled |-> FALSE,
     settled |-> FALSE, refunded |-> FALSE]

maxRefundAttempts == 3

-----------------------------------------------------------------------------
(* Storage calls.  Each is one atomic statement or transaction of model/.  *)

Goto(r, label) == pc' = [pc EXCEPT ![r] = label]

MayFail == "op" \in Faults

\* An error that the code only logs.
LogError(r) == logged' = [logged EXCEPT ![r] = TRUE]

\* DecreaseUserQuota for n > 0, IncreaseUserQuota for n < 0.
MoveWallet(r, n) ==
    /\ wallet' = wallet - n
    /\ fundNet' = [fundNet EXCEPT ![r] = @ + n]
    /\ UNCHANGED subUsed

\* DecreaseTokenQuota for n > 0, IncreaseTokenQuota for n < 0.
MoveToken(r, n) ==
    /\ tokenRemain' = tokenRemain - n
    /\ tokenNet' = [tokenNet EXCEPT ![r] = @ + n]

\* The amount_used that PostConsumeUserSubscriptionDelta stores.
ClampedUse(n) == IF subUsed + n < 0 THEN 0 ELSE subUsed + n

ExceedsTotal(n) == SubTotal > 0 /\ ClampedUse(n) > SubTotal

\* fundNet counts the amount that was asked for, also when a reset in between
\* leaves less to take off amount_used.
MoveSubscription(r, n) ==
    /\ subUsed' = ClampedUse(n)
    /\ fundNet' = [fundNet EXCEPT ![r] = @ + n]
    /\ UNCHANGED wallet

\* Adjusting the session's funding source by n; FALSE when it must fail.
Adjustable(r, n) == session[r].funding = "subscription" => ~ExceedsTotal(n)

MoveFunding(r, n) ==
    IF session[r].funding = "subscription"
    THEN MoveSubscription(r, n)
    ELSE MoveWallet(r, n)

-----------------------------------------------------------------------------
Init ==
    /\ wallet = InitWallet
    /\ tokenRemain = InitToken
    /\ subUsed = 0
    /\ subActive = HasSubscription
    /\ preRecord = [r \in Requests |-> "none"]
    /\ pc = [r \in Requests |-> "idle"]
    /\ rpc = [r \in Requests |-> "off"]
    /\ attempts = [r \in Requests |-> 0]
    /\ profile \in [Requests -> Profiles]
    /\ tokenQuota = [r \in Requests |-> 0]
    /\ session = [r \in Requests |-> NewSession("none", 0)]
    /\ insufficient = [r \in Requests |-> FALSE]
    /\ owed = [r \in Requests |-> 0]
    /\ fundNet = [r \in Requests |-> 0]
    /\ tokenNet = [r \in Requests |-> 0]
    /\ logged = [r \in Requests |-> FALSE]

-----------------------------------------------------------------------------
(* PreConsumeBilling and NewBillingSession: choosing a funding source.     *)

FirstTry(pref) ==
    CASE pref = "subscription_only" -> "trySub"
      [] pref \in {"wallet_only", "wallet_first"} -> "tryWallet"
      [] pref = "subscription_first" -> "checkSub"

(* ValidateUserToken lets a limited token in only while it has quota; the  *)
(* playground carries no stored token.                                     *)
TokenUsable(r) ==
    profile[r].playground \/ profile[r].unlimited \/ tokenRemain > 0

(* PrepareRelayAccounting, after authentication has put the token's quota  *)
(* into the context (0 for the playground).                                *)
Begin(r) ==
    /\ pc[r] = "idle"
    /\ TokenUsable(r)
    /\ tokenQuota' =
         [tokenQuota EXCEPT ![r] = IF profile[r].playground THEN 0 ELSE tokenRemain]
    /\ Goto(r, IF profile[r].billed THEN FirstTry(profile[r].pref) ELSE "serving")
    /\ UNCHANGED <<money, subActive, refundVars, profile, session,
                   insufficient, owed, logged>>

(* subscription_first: HasActiveUserSubscription.                          *)
CheckSubscription(r) ==
    /\ pc[r] = "checkSub"
    /\ \/ Goto(r, IF subActive THEN "trySub" ELSE "tryWallet")
       \/ MayFail /\ Goto(r, "rejected")
    /\ UNCHANGED <<money, subActive, refundVars, requestVars, session,
                   insufficient, logged>>

(* shouldTrust for a wallet-funded session that has read userQuota.        *)
ShouldTrust(r, userQuota) ==
    /\ ~profile[r].force
    /\ TrustQuota > 0
    /\ profile[r].unlimited \/ tokenQuota[r] > TrustQuota
    /\ userQuota > TrustQuota

(* tryWallet up to the pre-consume: the balance is read and checked here,  *)
(* and taken some steps later.                                             *)
TryWallet(r) ==
    LET quota == profile[r].quota
        enough == wallet > 0 /\ wallet >= quota
        amount == IF ShouldTrust(r, wallet) THEN 0 ELSE quota
    IN  /\ pc[r] = "tryWallet"
        /\ \/ /\ enough
              /\ session' = [session EXCEPT ![r] = NewSession("wallet", amount)]
              /\ Goto(r, IF amount > 0 THEN "tokenRead" ELSE "fund")
           \/ /\ ~enough
              /\ Goto(r, IF profile[r].pref = "wallet_first"
                         THEN "trySub" ELSE "rejected")
              /\ UNCHANGED session
           \/ /\ MayFail
              /\ Goto(r, "rejected")
              /\ UNCHANGED session
        /\ UNCHANGED <<money, subActive, refundVars, requestVars,
                       insufficient, logged>>

(* trySubscription: at least 1 is pre-consumed, and never on trust.        *)
SubscriptionAmount(quota) == IF quota <= 0 THEN 1 ELSE quota

TrySubscription(r) ==
    /\ pc[r] = "trySub"
    /\ session' = [session EXCEPT ![r] =
                     NewSession("subscription", SubscriptionAmount(profile[r].quota))]
    /\ Goto(r, "tokenRead")
    /\ UNCHANGED <<money, subActive, refundVars, requestVars, insufficient,
                   logged>>

-----------------------------------------------------------------------------
(* preConsume: the token first, then the funding source.                   *)

(* PreConsumeTokenQuota reads the token and checks it ...                  *)
ReadToken(r) ==
    LET amount == session[r].amount
        enough == profile[r].unlimited \/ tokenRemain >= amount
    IN  /\ pc[r] = "tokenRead"
        /\ \/ /\ profile[r].playground
              /\ session' = [session EXCEPT ![r].tokenConsumed = amount]
              /\ Goto(r, "fund")
           \/ /\ ~profile[r].playground
              /\ \/ Goto(r, IF enough THEN "tokenDec" ELSE "rejected")
                 \/ MayFail /\ Goto(r, "rejected")
              /\ UNCHANGED session
        /\ UNCHANGED <<money, subActive, refundVars, requestVars,
                       insufficient, logged>>

(* ... and takes the quota in a statement of its own.                      *)
TakeToken(r) ==
    /\ pc[r] = "tokenDec"
    /\ \/ /\ MoveToken(r, session[r].amount)
          /\ session' = [session EXCEPT ![r].tokenConsumed = session[r].amount]
          /\ Goto(r, "fund")
       \/ /\ MayFail
          /\ Goto(r, "rejected")
          /\ UNCHANGED <<tokenRemain, tokenNet, session>>
    /\ UNCHANGED <<wallet, subUsed, fundNet, subActive, refundVars,
                   requestVars, insufficient, logged>>

(* Mutant: the room of the subscription is not looked at.                  *)
SubscriptionHasRoom_NoTotal(amount) == subActive

(* PreConsumeUserSubscription finds an active subscription with room.      *)
SubscriptionHasRoom(amount) ==
    subActive /\ (SubTotal > 0 => SubTotal - subUsed >= amount)

FundingTaken(r) ==
    [session EXCEPT ![r].consumed = session[r].amount,
                    ![r].preConsumed = session[r].amount]

(* WalletFunding.PreConsume does not look at the balance again.            *)
TakeWallet(r) ==
    /\ pc[r] = "fund"
    /\ session[r].funding = "wallet"
    /\ MoveWallet(r, session[r].amount)
    /\ session' = FundingTaken(r)
    /\ Goto(r, "serving")
    /\ UNCHANGED <<tokenRemain, tokenNet, subActive, refundVars, requestVars,
                   insufficient, logged>>

TakeSubscription(r) ==
    /\ pc[r] = "fund"
    /\ session[r].funding = "subscription"
    /\ SubscriptionHasRoom(session[r].amount)
    /\ subUsed' = subUsed + session[r].amount
    /\ fundNet' = [fundNet EXCEPT ![r] = @ + session[r].amount]
    /\ preRecord' = [preRecord EXCEPT ![r] = "consumed"]
    /\ session' = FundingTaken(r)
    /\ Goto(r, "serving")
    /\ UNCHANGED <<wallet, tokenRemain, tokenNet, subActive, rpc, attempts,
                   requestVars, insufficient, logged>>

(* The pre-consume of the funding source fails: for want of quota, or      *)
(* because the storage call did.  A failed query for the subscriptions is  *)
(* reported as "no active subscription", that is, as insufficient quota.   *)
FundingFails(r) ==
    LET bySub == session[r].funding = "subscription"
        noRoom == bySub /\ ~SubscriptionHasRoom(session[r].amount)
    IN  /\ pc[r] = "fund"
        /\ \/ /\ noRoom
              /\ insufficient' = [insufficient EXCEPT ![r] = TRUE]
           \/ /\ MayFail /\ session[r].amount > 0
              /\ \E masked \in {FALSE, bySub} :
                   insufficient' = [insufficient EXCEPT ![r] = masked]
        /\ Goto(r, "rollback")
        /\ UNCHANGED <<money, subActive, refundVars, requestVars, session,
                       logged>>

(* Where NewBillingSession goes after a failed preConsume.                 *)
AfterFailure(r) ==
    IF /\ profile[r].pref = "subscription_first"
       /\ session[r].funding = "subscription"
       /\ insufficient[r]
    THEN "overflow"
    ELSE "rejected"

(* The token is given back; an error of this call is only logged.  The     *)
(* factory drops the session.                                              *)
RollbackToken(r) ==
    LET held == IF profile[r].playground THEN 0 ELSE session[r].tokenConsumed
    IN  /\ pc[r] = "rollback"
        /\ \/ /\ MoveToken(r, -held)
              /\ UNCHANGED logged
           \/ /\ MayFail /\ held > 0
              /\ LogError(r)
              /\ UNCHANGED <<tokenRemain, tokenNet>>
        /\ Goto(r, AfterFailure(r))
        /\ session' = [session EXCEPT ![r] = NewSession("none", 0)]
        /\ UNCHANGED <<wallet, subUsed, fundNet, subActive, refundVars,
                       requestVars, insufficient>>

(* UserActiveSubscriptionsAllowWalletOverflow: only an active subscription *)
(* can forbid the fallback.                                                *)
CheckOverflow(r) ==
    /\ pc[r] = "overflow"
    /\ \/ Goto(r, IF subActive /\ ~WalletOverflow THEN "rejected" ELSE "tryWallet")
       \/ MayFail /\ Goto(r, "rejected")
    /\ UNCHANGED <<money, subActive, refundVars, requestVars, session,
                   insufficient, logged>>

-----------------------------------------------------------------------------
(* The relay attempt ends.  The retry loop of the handler keeps the one    *)
(* session, so only its final outcome reaches billing.                     *)

Succeed(r) ==
    /\ pc[r] = "serving"
    /\ \E quota \in ActualQuotas :
         /\ owed' = [owed EXCEPT ![r] = quota]
         /\ Goto(r, IF profile[r].billed THEN "settleFund"
                    ELSE IF quota > 0 THEN "postFund" ELSE "done")
    /\ UNCHANGED <<money, subActive, refundVars, profile, tokenQuota, session,
                   insufficient, logged>>

(* Mutant: a hold is refunded only when a subscription pays for it.        *)
NeedsRefund_SubscriptionOnly(r) ==
    /\ ~session[r].settled
    /\ ~session[r].refunded
    /\ ~session[r].fundingSettled
    /\ session[r].funding = "subscription" /\ session[r].consumed > 0

NeedsRefund(r) ==
    /\ ~session[r].settled
    /\ ~session[r].refunded
    /\ ~session[r].fundingSettled
    /\ \/ session[r].tokenConsumed > 0
       \/ session[r].funding = "subscription" /\ session[r].consumed > 0

(* The deferred function of Relay: Refund starts its goroutine, then       *)
(* ChargeViolationFeeIfNeeded runs in the handler.  RelayTask has no fee.  *)
Fail(r) ==
    /\ pc[r] = "serving"
    /\ \E fee \in (IF profile[r].force THEN {0} ELSE FeeQuotas) :
         /\ owed' = [owed EXCEPT ![r] = fee]
         /\ Goto(r, IF fee > 0 THEN "postFund" ELSE "done")
    /\ IF NeedsRefund(r)
       THEN /\ session' = [session EXCEPT ![r].refunded = TRUE]
            /\ rpc' = [rpc EXCEPT ![r] = "fund"]
       ELSE UNCHANGED <<session, rpc>>
    /\ UNCHANGED <<money, subActive, preRecord, attempts, profile, tokenQuota,
                   insufficient, logged>>

-----------------------------------------------------------------------------
(* Settle: the funding source, then the token.                             *)

SettleDelta(r) == owed[r] - session[r].preConsumed

SettleNothing(r) ==
    /\ pc[r] = "settleFund"
    /\ SettleDelta(r) = 0
    /\ session' = [session EXCEPT ![r].settled = TRUE]
    /\ Goto(r, "done")
    /\ UNCHANGED <<money, subActive, refundVars, requestVars, insufficient,
                   logged>>

SettleFunding(r) ==
    /\ pc[r] = "settleFund"
    /\ SettleDelta(r) # 0
    /\ Adjustable(r, SettleDelta(r))
    /\ MoveFunding(r, SettleDelta(r))
    /\ session' = [session EXCEPT ![r].fundingSettled = TRUE,
                                  ![r].settled = profile[r].playground]
    /\ Goto(r, IF profile[r].playground THEN "done" ELSE "settleToken")
    /\ UNCHANGED <<tokenRemain, tokenNet, subActive, refundVars, requestVars,
                   insufficient, logged>>

(* funding.Settle returns an error: the caller logs it, and the request    *)
(* stays charged what was pre-consumed.                                    *)
SettleFundingFails(r) ==
    /\ pc[r] = "settleFund"
    /\ SettleDelta(r) # 0
    /\ MayFail \/ ~Adjustable(r, SettleDelta(r))
    /\ LogError(r)
    /\ Goto(r, "done")
    /\ UNCHANGED <<money, subActive, refundVars, requestVars, session,
                   insufficient>>

(* Mutant: a token error after the funding was settled starts a refund.    *)
SettleToken_RefundsOnError(r) ==
    /\ pc[r] = "settleToken"
    /\ \/ /\ MoveToken(r, SettleDelta(r))
          /\ session' = [session EXCEPT ![r].settled = TRUE]
          /\ UNCHANGED <<logged, rpc>>
       \/ /\ MayFail
          /\ LogError(r)
          /\ rpc' = [rpc EXCEPT ![r] = "fund"]
          /\ UNCHANGED <<tokenRemain, tokenNet, session>>
    /\ Goto(r, "done")
    /\ UNCHANGED <<wallet, subUsed, fundNet, subActive, preRecord, attempts,
                   requestVars, insufficient>>

SettleToken(r) ==
    /\ pc[r] = "settleToken"
    /\ \/ /\ MoveToken(r, SettleDelta(r))
          /\ UNCHANGED logged
       \/ /\ MayFail
          /\ LogError(r)
          /\ UNCHANGED <<tokenRemain, tokenNet>>
    /\ session' = [session EXCEPT ![r].settled = TRUE]
    /\ Goto(r, "done")
    /\ UNCHANGED <<wallet, subUsed, fundNet, subActive, refundVars,
                   requestVars, insufficient>>

-----------------------------------------------------------------------------
(* PostConsumeQuota: a charge without a session (settlement when none was  *)
(* opened) or next to it (the violation fee).                              *)

PostConsumeFunding(r) ==
    /\ pc[r] = "postFund"
    /\ Adjustable(r, owed[r])
    /\ MoveFunding(r, owed[r])
    /\ Goto(r, IF profile[r].playground THEN "done" ELSE "postToken")
    /\ UNCHANGED <<tokenRemain, tokenNet, subActive, refundVars, requestVars,
                   session, insufficient, logged>>

PostConsumeFundingFails(r) ==
    /\ pc[r] = "postFund"
    /\ MayFail \/ ~Adjustable(r, owed[r])
    /\ LogError(r)
    /\ Goto(r, "done")
    /\ UNCHANGED <<money, subActive, refundVars, requestVars, session,
                   insufficient>>

PostConsumeToken(r) ==
    /\ pc[r] = "postToken"
    /\ \/ /\ MoveToken(r, owed[r])
          /\ UNCHANGED logged
       \/ /\ MayFail
          /\ LogError(r)
          /\ UNCHANGED <<tokenRemain, tokenNet>>
    /\ Goto(r, "done")
    /\ UNCHANGED <<wallet, subUsed, fundNet, subActive, refundVars,
                   requestVars, session, insufficient>>

-----------------------------------------------------------------------------
(* The refund goroutine.                                                   *)

RefundGoto(r, label) == rpc' = [rpc EXCEPT ![r] = label]

(* Mutant: the wallet refund is retried after an error whose update had    *)
(* been applied.                                                           *)
RefundWallet_Retried(r) ==
    /\ rpc[r] = "fund"
    /\ session[r].funding = "wallet"
    /\ MoveWallet(r, -session[r].consumed)
    /\ \E label \in {"fund", "token"} : RefundGoto(r, label)
    /\ UNCHANGED <<tokenRemain, tokenNet, subActive, preRecord, pc, attempts,
                   requestVars, session, insufficient, logged>>

(* WalletFunding.Refund is tried once.                                     *)
RefundWallet(r) ==
    /\ rpc[r] = "fund"
    /\ session[r].funding = "wallet"
    /\ \/ /\ MoveWallet(r, -session[r].consumed)
          /\ UNCHANGED logged
       \/ /\ MayFail
          /\ LogError(r)
          /\ UNCHANGED <<wallet, subUsed, fundNet>>
    /\ RefundGoto(r, "token")
    /\ UNCHANGED <<tokenRemain, tokenNet, subActive, preRecord, pc, attempts,
                   requestVars, session, insufficient>>

(* RefundSubscriptionPreConsume does nothing for a refunded record;        *)
(* otherwise it gives the quota back in a nested transaction, which        *)
(* commits on its own ...                                                  *)
RefundSubscription(r) ==
    /\ rpc[r] = "fund"
    /\ session[r].funding = "subscription"
    /\ IF preRecord[r] = "consumed"
       THEN /\ MoveSubscription(r, -session[r].consumed)
            /\ RefundGoto(r, "mark")
       ELSE /\ RefundGoto(r, "token")
            /\ UNCHANGED <<wallet, subUsed, fundNet>>
    /\ UNCHANGED <<tokenRemain, tokenNet, subActive, preRecord, pc, attempts,
                   requestVars, session, insufficient, logged>>

(* ... and then marks the record.                                          *)
MarkRefunded(r) ==
    /\ rpc[r] = "mark"
    /\ preRecord' = [preRecord EXCEPT ![r] = "refunded"]
    /\ RefundGoto(r, "token")
    /\ UNCHANGED <<money, subActive, pc, attempts, requestVars, session,
                   insufficient, logged>>

(* Mutants: one attempt too many, and attempts that are not counted.       *)
RetryRefund_OneMore(r) ==
    /\ rpc[r] = "fund" /\ session[r].funding = "subscription" /\ MayFail
    /\ attempts' = [attempts EXCEPT ![r] = @ + 1]
    /\ IF attempts[r] < maxRefundAttempts
       THEN RefundGoto(r, "fund") /\ UNCHANGED logged
       ELSE RefundGoto(r, "token") /\ LogError(r)
    /\ UNCHANGED <<money, subActive, preRecord, pc, requestVars, session,
                   insufficient>>

RetryRefund_Uncounted(r) ==
    /\ rpc[r] = "fund" /\ session[r].funding = "subscription" /\ MayFail
    /\ RefundGoto(r, "fund")
    /\ attempts' = [attempts EXCEPT ![r] = 1 - @]
    /\ UNCHANGED <<money, subActive, preRecord, pc, requestVars, session,
                   insufficient, logged>>

(* refundWithRetry: any error starts the whole function again, up to       *)
(* maxRefundAttempts times.                                                *)
RetryRefund(r) ==
    /\ \/ rpc[r] = "fund" /\ session[r].funding = "subscription" /\ MayFail
       \/ rpc[r] = "mark" /\ "recordSave" \in Faults
    /\ attempts' = [attempts EXCEPT ![r] = @ + 1]
    /\ IF attempts[r] + 1 < maxRefundAttempts
       THEN RefundGoto(r, "fund") /\ UNCHANGED logged
       ELSE RefundGoto(r, "token") /\ LogError(r)
    /\ UNCHANGED <<money, subActive, preRecord, pc, requestVars, session,
                   insufficient>>

RefundToken(r) ==
    LET held == IF profile[r].playground THEN 0 ELSE session[r].tokenConsumed
    IN  /\ rpc[r] = "token"
        /\ \/ /\ MoveToken(r, -held)
              /\ UNCHANGED logged
           \/ /\ MayFail /\ held > 0
              /\ LogError(r)
              /\ UNCHANGED <<tokenRemain, tokenNet>>
        /\ RefundGoto(r, "finished")
        /\ UNCHANGED <<wallet, subUsed, fundNet, subActive, preRecord, pc,
                       attempts, requestVars, session, insufficient>>

-----------------------------------------------------------------------------
(* The subscription ends, by its end time or by an administrator.  Later   *)
(* settlements and refunds still reach it by its id.                       *)
EndSubscription ==
    /\ subActive
    /\ subActive' = FALSE
    /\ UNCHANGED <<money, refundVars, pc, requestVars, session, insufficient,
                   logged>>

(* maybeResetUserSubscriptionWithPlanTx, called before the room is looked  *)
(* at and by ResetDueSubscriptions: a new period of the plan starts.       *)
(* Requests that hold quota of the old period settle and refund against    *)
(* the new one.  A row past its end time is still reset when a period was  *)
(* due before the end, until it is marked expired.                         *)
ResetSubscription ==
    /\ subUsed > 0
    /\ subUsed' = 0
    /\ UNCHANGED <<wallet, tokenRemain, fundNet, tokenNet, subActive,
                   refundVars, pc, requestVars, session, insufficient, logged>>

Prepare(r) ==
    \/ CheckSubscription(r) \/ TryWallet(r) \/ TrySubscription(r)
    \/ ReadToken(r) \/ TakeToken(r)
    \/ TakeWallet(r) \/ TakeSubscription(r)
    \/ FundingFails(r) \/ RollbackToken(r) \/ CheckOverflow(r)

Charge(r) ==
    \/ SettleNothing(r) \/ SettleFunding(r) \/ SettleFundingFails(r)
    \/ SettleToken(r)
    \/ PostConsumeFunding(r) \/ PostConsumeFundingFails(r)
    \/ PostConsumeToken(r)

Handler(r) == Prepare(r) \/ Succeed(r) \/ Fail(r) \/ Charge(r)

Refunder(r) ==
    \/ RefundWallet(r) \/ RefundSubscription(r) \/ MarkRefunded(r)
    \/ RetryRefund(r) \/ RefundToken(r)

Next ==
    \/ \E r \in Requests : Begin(r) \/ Handler(r) \/ Refunder(r)
    \/ EndSubscription
    \/ ResetSubscription

(* A handler that has started runs to its end, and so does the goroutine   *)
(* of the pool; a client may never send a request.                         *)
Fairness ==
    \A r \in Requests : WF_vars(Handler(r)) /\ WF_vars(Refunder(r))

Spec == Init /\ [][Next]_vars /\ Fairness

-----------------------------------------------------------------------------
(* Properties.                                                             *)

(* Every variable has its type.                                            *)
TypeOK ==
    /\ wallet \in Int
    /\ tokenRemain \in Int
    /\ subUsed \in Nat
    /\ subActive \in BOOLEAN
    /\ preRecord \in [Requests -> {"none", "consumed", "refunded"}]
    /\ pc \in [Requests -> HandlerPC]
    /\ rpc \in [Requests -> RefundPC]
    /\ attempts \in [Requests -> 0 .. maxRefundAttempts]
    /\ profile \in [Requests -> Profiles]
    /\ tokenQuota \in [Requests -> Int]
    /\ session \in [Requests -> SessionType]
    /\ insufficient \in [Requests -> BOOLEAN]
    /\ owed \in [Requests -> Nat]
    /\ fundNet \in [Requests -> Int]
    /\ tokenNet \in [Requests -> Int]
    /\ logged \in [Requests -> BOOLEAN]

Ended(r) ==
    /\ pc[r] \in {"done", "rejected"}
    /\ rpc[r] \in {"off", "finished"}

TokenShare(r) == IF profile[r].playground THEN 0 ELSE owed[r]

(* A request that has ended, and whose billing logged no error, paid what  *)
(* it owed on both ledgers: its actual cost when it was served, the        *)
(* violation fee when it failed with one, nothing when it failed or was    *)
(* rejected.  This is what Settle, Refund and the rollback of preConsume   *)
(* achieve together, with every fallback between funding sources.          *)
ChargedExactly ==
    \A r \in Requests :
        Ended(r) /\ ~logged[r] =>
            /\ fundNet[r] = owed[r]
            /\ tokenNet[r] = TokenShare(r)

(* No ledger gives a request more than it took for it, whatever calls fail *)
(* and are retried: WalletFunding.Refund, RefundSubscriptionPreConsume,    *)
(* the token refund and the negative delta of Settle never add up.         *)
NeverOverRefunded ==
    \A r \in Requests : fundNet[r] >= 0 /\ tokenNet[r] >= 0

(* The subscription is never used beyond its total, although requests read *)
(* its room, settle surcharges and pay fees concurrently.                  *)
SubscriptionCap == SubTotal > 0 => subUsed <= SubTotal

(* What a step may do to the funding of a session that was settled.        *)
KeepsSettledFunding ==
    \A r \in Requests :
        session[r].fundingSettled => fundNet'[r] = fundNet[r]

(* Once the funding source of a session has been settled, what it paid is  *)
(* final: no refund or rollback touches it (the fundingSettled mark).      *)
SettlementIsFinal == [][KeepsSettledFunding]_vars

(* Every request that starts reaches its end: preConsume and its           *)
(* fallbacks, settlement, and the refund with its retries all stop.        *)
EveryRequestEnds ==
    \A r \in Requests : pc[r] # "idle" ~> Ended(r)

-----------------------------------------------------------------------------
(* A promise the code does not keep, and so no part of a passing run (see  *)
(* the README).                                                            *)

(* The violation fee is charged after the refund of the failed request, as *)
(* the comment of ChargeViolationFeeIfNeeded says.                         *)
FeeAfterRefund ==
    \A r \in Requests :
        pc[r] = "postToken" => rpc[r] \in {"off", "finished"}

=============================================================================
