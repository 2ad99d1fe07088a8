----------------------------- MODULE MCServices -----------------------------
(***************************************************************************)
(* Services that run beside the queues: comment commands on Forgejo, the   *)
(* copying of refs, the configuration cache.  They share no state, so the  *)
(* first state chooses the one a behaviour is about and the others stand   *)
(* still.                                                                  *)
(***************************************************************************)
EXTENDS ForgejoCommands, ForgejoSync, ConfigCache

CONSTANTS alice, bob, pull, issue, main, topic, tag
VARIABLE part

\* A writer and a contributor on a pull request and an issue.
Says(i, at, user, says, explicit) ==
    [issue |-> i, at |-> at, user |-> user, says |-> says, explicit |-> explicit]
MCJobs == {Says(pull, 1, alice, "r+", TRUE), Says(pull, 2, alice, "author", FALSE),
           Says(pull, 3, alice, "ready", TRUE), Says(issue, 1, bob, "claim", TRUE)}
\* Pull requests from Forgejo, one of them from the default branch.
MCPulls == {[head |-> topic, base |-> main, origin |-> "forgejo"],
            [head |-> main, base |-> topic, origin |-> "forgejo"]}

vars == <<commandsVars, syncVars, cacheVars, part>>

Init ==
    /\ part \in {"commands", "sync", "config"}
    /\ CommandsInit /\ SyncInit /\ CacheInit
    /\ part = "sync" \/ ~mirror
    \* A bound: only the copies between ordinary repositories start with the topic.
    /\ part # "sync" \/ mirror => refs["github"][topic] = <<>>
    /\ defaults = <<main>>

Comments(step) == part = "commands" /\ step /\ UNCHANGED <<syncVars, cacheVars, part>>
Copying(step) == part = "sync" /\ step /\ UNCHANGED <<commandsVars, cacheVars, part>>
Loading(step) == part = "config" /\ step /\ UNCHANGED <<commandsVars, syncVars, part>>
Next == Comments(CommandsNext) \/ Copying(SyncNext) \/ Loading(CacheNext)

Spec == Init /\ [][Next]_vars

\* The fairness of each service.  Only one of them takes steps, so the weak
\* fairness of a disjunction over the services is that of each.
Working == Comments(Work) \/ Copying(Steps) \/ Loading(Loads)
Restarting == Comments(Open) \/ Copying(Sweep) \/ Loading(Age)
Waiting == Copying(Interval) \/ Loading(Retry)
FairSpec ==
    /\ Spec /\ WF_vars(Working) /\ WF_vars(Restarting) /\ WF_vars(Waiting)
    /\ \A c \in Jobs : WF_vars(Comments(Due(c)))

\* Loads come to serve the policy of a repository that stands still, in the
\* behaviours that are about loads (Current).
LoadsServeCurrent == <>[](part = "config" => Current)
=============================================================================
