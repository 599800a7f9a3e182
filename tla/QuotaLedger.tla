---------------------------- MODULE QuotaLedger ----------------------------
(***************************************************************************)
(* What the quota store promises its callers: an abstract ledger.          *)
(*                                                                         *)
(* A change that was acknowledged counts in the balance at once and once.  *)
(* It is firm when it was asked for with db = true, and otherwise soft     *)
(* until it is stored; only soft changes can be lost.                      *)
(***************************************************************************)
EXTENDS Integers, FiniteSetsExt

CONSTANTS
    Ops,       \* the calls that change a quota
    Accounts,  \* users.quota and tokens.remain_quota
    InitQuota  \* the quotas at the start

VARIABLES
    call,    \* what each call asks for: account, amount, direct
    balance, \* the quota of an account as its callers may count on it
    acked,   \* the calls that returned without an error
    soft,    \* the acknowledged calls that are not stored yet
    lost     \* the acknowledged calls that never will be

vars == <<call, balance, acked, soft, lost>>

\* What the calls of S add to account a.
Total(S, a) ==
    MapThenSumSet(LAMBDA o : call[o].amount,
                  {o \in S : call[o].account = a})

Init ==
    /\ balance = [a \in Accounts |-> InitQuota]
    /\ acked = {} /\ soft = {} /\ lost = {}

Apply(o) ==
    /\ o \notin acked
    /\ balance' = [balance EXCEPT ![call[o].account] = @ + call[o].amount]
    /\ acked' = acked \cup {o}
    /\ \/ soft' = soft
       \/ ~call[o].direct /\ soft' = soft \cup {o}
    /\ UNCHANGED <<call, lost>>

Store ==
    /\ \E S \in SUBSET soft : soft' = soft \ S
    /\ UNCHANGED <<call, balance, acked, lost>>

Lose ==
    \E S \in SUBSET soft :
        /\ soft' = soft \ S
        /\ lost' = lost \cup S
        /\ balance' = [a \in Accounts |-> balance[a] - Total(S, a)]
        /\ UNCHANGED <<call, acked>>

Next == (\E o \in Ops : Apply(o)) \/ Store \/ Lose

Spec == Init /\ [][Next]_vars

(* The balance is the sum of what was acknowledged and not lost: no change *)
(* counts twice, and none vanishes without being soft when it did.         *)
Balanced ==
    /\ \A a \in Accounts : balance[a] = InitQuota + Total(acked \ lost, a)
    /\ \A o \in lost : ~call[o].direct
============================================================================
