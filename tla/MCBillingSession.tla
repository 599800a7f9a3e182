-------------------------- MODULE MCBillingSession --------------------------
(***************************************************************************)
(* Instances of BillingSession for TLC.                                    *)
(***************************************************************************)
EXTENDS BillingSession, TLC

CONSTANTS r1, r2

P(pref, quota, playground, force, unlimited, billed) ==
    [pref |-> pref, quota |-> quota, playground |-> playground,
     force |-> force, unlimited |-> unlimited, billed |-> billed]

(* Both funding sources, every preference, the trust bypass and free       *)
(* models.                                                                 *)
MixedProfiles ==
    {P("subscription_only", 0, FALSE, FALSE, FALSE, TRUE),
     P("subscription_first", 2, FALSE, FALSE, FALSE, TRUE),
     P("wallet_first", 2, FALSE, TRUE, FALSE, TRUE),
     P("wallet_only", 1, FALSE, FALSE, TRUE, TRUE),
     P("wallet_only", 1, TRUE, FALSE, FALSE, TRUE),
     P("wallet_only", 0, FALSE, FALSE, FALSE, FALSE)}

RequestSymmetry == Permutations(Requests)
=============================================================================
