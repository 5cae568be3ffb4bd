---------------------------- MODULE MCBranchRun -----------------------------
(* BranchRun for TLC: three branches, one of them with two nodes of which  *)
(* the policy gate refuses the first, under every wait policy and the       *)
(* cancellation policies that act on it.                                    *)
EXTENDS BranchRun

CONSTANTS a, b, c

MCDeclared == <<a, b, c>>
MCLength == [x \in Branches |-> IF x = a THEN 2 ELSE 1]
MCRefused == {<<a, 1>>}

Plain(wait, policy) ==
    [wait |-> wait, policy |-> policy, after |-> "cancel", count |-> 0,
     num |-> 0, den |-> 1]

Quorum(after, count, num, den) ==
    [wait |-> "quorum", policy |-> "allow_all", after |-> after,
     count |-> count, num |-> num, den |-> den]

MCConfigs ==
    {Plain("all", "allow_all"), Plain("any", "ignore_late"),
     Plain("first", "allow_all"), Plain("any", "cancel_on_first"),
     Quorum("cancel", 2, 0, 1), Quorum("ignore_late", 1, 0, 1),
     Quorum("allow_all", 0, 1, 2), Quorum("ignore_late", 0, 2, 3),
     Plain("all", "cancel_on_first"),
     [Quorum("cancel", 2, 0, 1) EXCEPT !.policy = "cancel_on_first"]}
=============================================================================
