------------------------------ MODULE MCRollup ------------------------------
(* Two pull requests that may be batched, one approved on each provider; and *)
(* one that is approved on GitHub, withdrawn on Forgejo and retried on GitHub *)
(* before the queue knows that both are the same.                            *)
EXTENDS Rollup

CONSTANTS p1, p2

Cmd(p, s, k, t) == [pr |-> p, side |-> s, kind |-> k, time |-> t]
MCCommands == {Cmd(p1, "github", "approveRollup", 1), Cmd(p2, "forgejo", "approveRollup", 2),
               Cmd(p1, "forgejo", "reject", 1), Cmd(p1, "forgejo", "reject", 2),
               Cmd(p1, "github", "retry", 2)}
LateCommands == {Cmd(p1, "github", "approve", 1), Cmd(p1, "forgejo", "reject", 2),
                 Cmd(p1, "github", "retry", 3)}
MCHome == [p \in PRs |-> IF p = p1 THEN "github" ELSE "forgejo"]
=============================================================================
