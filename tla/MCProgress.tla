----------------------------- MODULE MCProgress -----------------------------
(***************************************************************************)
(* Liveness of the rollup queue, of the merge queue and of the comment     *)
(* worker.  They share no state, so the first state chooses the one a      *)
(* behaviour is about and the others stand still.                          *)
(***************************************************************************)
EXTENDS MCRollup

\* Two pull requests in the merge queue.
CONSTANTS NoBranch, MaxTroubles
VARIABLES method, pull, revision, queued, testing, trunk, staging, checks, absorbed, advance,
          tick, admitting, removing, asks, motions, disturbed, passed
TwoPRs == {1, 2}
Q == INSTANCE MergeQueue WITH
        pr <- pull, head <- revision, main <- trunk, ci <- checks, driver <- tick,
        moves <- motions, faults <- disturbed,
        PRs <- TwoPRs, Methods <- {"pr"}, ReviewRequired <- FALSE, MaxBatch <- 2,
        Cleanup <- TRUE, Disturbances <- {"crash", "call", "delete", "rename", "rerun"},
        MaxHead <- 2, MaxAsks <- 1, MaxMoves <- 0, MaxFaults <- 1

\* One comment with one command that writes one reply.
CONSTANTS command, reply, scope, d1, h1, None
VARIABLES inbox, ops, slots, owner, pump, worker, snapshot, flights, applied, troubles
TwoKeys == {command, reply}
KindOf == [k \in TwoKeys |-> IF k = command THEN "command" ELSE "comment"]
ParentOf == [k \in TwoKeys |-> IF k = command THEN None ELSE command]
ScopeOf == [k \in TwoKeys |-> scope]
FourAttempts == [k \in TwoKeys |-> 4]
CommandsOf == [d \in {d1} |-> <<command>>]
WritesOf == [c \in {command} |-> <<reply>>]
T == INSTANCE TriggerRuntime WITH
        head <- snapshot, wire <- flights, faults <- troubles, MaxFaults <- MaxTroubles,
        Keys <- TwoKeys, Deliveries <- {d1}, Heads <- {h1}, Scopes <- {scope},
        Logins <- {}, BudgetCap <- 0, MaxLeases <- 2, MaxWorkers <- 1, MaxEffects <- 2,
        MaxAttempts <- FourAttempts, Refusable <- {command}

VARIABLE part

queueVars == <<method, pull, revision, queued, testing, trunk, staging, checks, absorbed, advance,
               tick, admitting, removing, asks, motions, disturbed, passed>>
commentVars == <<inbox, ops, slots, owner, pump, worker, snapshot, flights, applied, troubles>>
MCVars == <<vars, queueVars, commentVars, part>>
MCInit == part \in {"rollup", "queue", "comment"} /\ Init /\ Q!Init /\ T!Init
RollingUp(step) == part = "rollup" /\ step /\ UNCHANGED <<queueVars, commentVars, part>>
Queueing(step) == part = "queue" /\ step /\ UNCHANGED <<vars, commentVars, part>>
Commenting(step) == part = "comment" /\ step /\ UNCHANGED <<vars, queueVars, part>>
MCNext == RollingUp(Next) \/ Queueing(Q!Next) \/ Commenting(T!Next)

\* The fairness of each FairSpec, or less.  Only one of the three takes steps,
\* so the fairness of a disjunction over them is that of each; that of a
\* disjunction over pull requests or requests is weaker than that of each.
Serving == RollingUp(Drive) \/ Queueing(Q!DriverStep) \/ Commenting(T!ProcessStep)
Expiring == RollingUp(Pauses) \/ Queueing(Q!TimeOut) \/ Commenting(T!OpenStore("server"))
Starting == RollingUp(Freezes) \/ Commenting(T!StartWorker(d1))
Ending == \/ RollingUp(\E b \in DOMAIN repo.batches : Land(b))
          \/ Queueing(Q!CiEnds) \/ Commenting(T!GitHubStep)
Handling == \/ RollingUp(\E p \in PRs : Mirror(p)) \/ Queueing(\E p \in TwoPRs : Q!AddQueued(p))
            \/ Commenting(T!WorkerStep(d1))
Settling == \/ RollingUp(\E p \in PRs : Pair(p)) \/ Queueing(\E p \in TwoPRs : Q!Dequeue(p))
            \/ Commenting(T!BackoffExpires)
MCSpec ==
    /\ MCInit /\ [][MCNext]_MCVars
    /\ SF_MCVars(Expiring) /\ SF_MCVars(Starting)
    /\ WF_MCVars(Serving) /\ WF_MCVars(Ending) /\ WF_MCVars(Handling) /\ WF_MCVars(Settling)
    /\ WF_MCVars(Commenting(T!CloseCli))

\* Every queued pull request leaves the merge queue.
QueuedResolves == Q!QueuedResolves

\* Every accepted delivery is finished in the end or waits for the operator.
EnvelopeFinishes == T!EnvelopeFinishes
=============================================================================
