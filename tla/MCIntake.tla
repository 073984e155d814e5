------------------------------ MODULE MCIntake ------------------------------
(* What the forge and the review runs feed, for TLC: deliveries, findings   *)
(* and the checks of a repository share no variable, so a behaviour         *)
(* exercises one of the three.                                              *)
EXTENDS Webhook, Findings, Checks, TLC

VARIABLE part

MCSettings == {[curator |-> "bootstrap", auto_review |-> TRUE],
               [curator |-> "auto", auto_review |-> FALSE]}
MCContexts == {[threshold |-> NoPolicy, drift |-> FALSE], [threshold |-> 0, drift |-> FALSE]}

Policy(pr, fix, c, d) == [checks |-> c, pr_policy |-> pr, auto_fix |-> fix, due |-> d]
MCPolicies == {NoPolicyDoc, Policy("on_green", TRUE, TRUE, 2), Policy("never", FALSE, FALSE, 1),
               Policy("always", FALSE, FALSE, 3)}

Init ==
    /\ part \in {"webhook", "findings", "checks"}
    /\ WebhookInit /\ FindingsInit /\ ChecksInit
    /\ part # "webhook" => imported /\ settings = CHOOSE s \in Settings : TRUE
    /\ part # "checks" => tree.policy = NoPolicyDoc /\ tree.tests = "" /\ tree.makefile = ""
Next ==
    /\ \/ part = "webhook" /\ WebhookNext /\ UNCHANGED <<findingsVars, checksVars>>
       \/ part = "findings" /\ FindingsNext /\ UNCHANGED <<webhookVars, checksVars>>
       \/ part = "checks" /\ ChecksNext /\ UNCHANGED <<webhookVars, findingsVars>>
    /\ UNCHANGED part
=============================================================================
