---------------------------- MODULE ForgejoSync ----------------------------
(***************************************************************************)
(* Copying Git refs between a GitHub repository and the Forgejo repository *)
(* bound to it: src/forgejo/sync.rs (pushes, the periodic sweep, native    *)
(* mirrors) and src/forgejo/refs.rs (ordinary repositories and the         *)
(* branches of bridged pull requests).  A branch is the sequence of its    *)
(* commits; a commit is named by the side it was written on.  Every        *)
(* transfer holds the lock of its destination, people push at any time.    *)
(***************************************************************************)
EXTENDS Naturals, SequencesExt, FiniteSetsExt

CONSTANTS
    RefNames, Default, \* branches and tags, the default branch at first
    Tags,
    Internal,   \* branches of the rollup queue
    Pulls,      \* branch pairs of bridged pull requests: [head, base, origin]
    MaxCommits, \* bound: commits on a branch
    MaxSyncMoves,   \* bound: pushes, rewrites and deletions by people
    MaxSyncFaults   \* bound: lost webhooks, failed calls, crashes

Sides == {"github", "forgejo"}

ASSUME SyncAssumption ==
    /\ IsFiniteSet(RefNames) /\ Internal \subseteq RefNames /\ Tags \subseteq RefNames
    /\ Default \in RefNames \ (Internal \cup Tags)
    /\ \A p \in Pulls : {p.head, p.base} \subseteq RefNames /\ p.origin \in Sides
    /\ MaxCommits \in Nat \ {0} /\ MaxSyncMoves \in Nat /\ MaxSyncFaults \in Nat

VARIABLES
    refs,     \* each side's branches; an empty sequence is no branch
    defaultBranch, \* GitHub's default branch
    mirror,   \* whether the Forgejo repository is a native pull mirror
    policy,   \* the bridge policy both repositories agree on, if any
    wanted,   \* synchronizations that have been asked for
    sync,     \* the one that holds the lock
    gate,     \* the sweep's
    syncMoves, syncFaults

syncVars == <<refs, defaultBranch, mirror, policy, wanted, sync, gate, syncMoves, syncFaults>>

Policies == {"refs", "mirror", "off"}
Requests == {[kind |-> k] : k \in {"push", "sweep"}}
                \cup {[kind |-> "pull", pull |-> p] : p \in Pulls}
NoRefs == [b \in RefNames |-> <<>>]
NoSync == [pc |-> "free", job |-> [kind |-> "push"], from |-> "github", only |-> {},
         known |-> Default, source |-> NoRefs, target |-> NoRefs]

SyncTypeOK ==
    /\ \A s \in Sides, b \in RefNames :
          refs[s][b] \in Seq(Sides) /\ Len(refs[s][b]) <= MaxCommits
    /\ defaultBranch \in RefNames
    /\ mirror \in BOOLEAN /\ policy \in Policies /\ wanted \subseteq Requests
    /\ sync.pc \in {"free", "fetch", "compare", "push", "mirror"}
    /\ sync.job \in Requests /\ sync.from \in Sides /\ sync.only \subseteq RefNames
    /\ sync.known \in RefNames
    /\ gate \in {"open", "scanning", "throttled"}
    /\ gate = "scanning" <=> \/ [kind |-> "sweep"] \in wanted
                             \/ sync.pc # "free" /\ sync.job.kind = "sweep"
    /\ syncMoves \in 0..MaxSyncMoves /\ syncFaults \in 0..MaxSyncFaults

Other(s) == IF s = "github" THEN "forgejo" ELSE "github"
\* At first both sides have the default branch alone, or every ordinary branch.
First(open) == [b \in RefNames |-> IF b \in open THEN <<"github">> ELSE <<>>]

SyncInit ==
    /\ \E open \in {{Default}, RefNames \ (Internal \cup Tags)} : refs = [s \in Sides |-> First(open)]
    /\ defaultBranch = Default /\ mirror \in BOOLEAN
    /\ policy = IF mirror THEN "mirror" ELSE "refs"
    /\ wanted = {} /\ sync = NoSync /\ gate = "open"
    /\ syncMoves = 0 /\ syncFaults = 0

----------------------------------------------------------------------------
(* People.                                                                 *)

Move == syncMoves < MaxSyncMoves /\ syncMoves' = syncMoves + 1
\* A push to GitHub is reported, unless its webhook is lost.
Reported(s) ==
    \/ wanted' = (IF s = "github" THEN wanted \cup {[kind |-> "push"]} ELSE wanted)
       /\ UNCHANGED syncFaults
    \/ /\ s = "github" /\ syncFaults < MaxSyncFaults /\ syncFaults' = syncFaults + 1
       /\ UNCHANGED wanted

PushRef(s, b) ==
    /\ Move /\ Len(refs[s][b]) < MaxCommits /\ (mirror => s = "github")
    /\ \E base \in {refs[s][b], refs["github"][defaultBranch]} :
          /\ refs[s][b] = <<>> \/ base = refs[s][b]
          /\ Len(base) < MaxCommits
          /\ refs' = [refs EXCEPT ![s][b] = Append(base, s)]
    /\ Reported(s)
    /\ UNCHANGED <<defaultBranch, mirror, policy, sync, gate>>

\* A forced push or a deletion on GitHub.
Rewrite(b) ==
    /\ Move /\ Len(refs["github"][b]) > (IF b = defaultBranch THEN 1 ELSE 0)
    /\ refs' = [refs EXCEPT !["github"][b] = Front(@)]
    /\ Reported("github")
    /\ UNCHANGED <<defaultBranch, mirror, policy, sync, gate>>

\* Another branch of GitHub becomes the default one.
SetDefault(b) ==
    /\ Move /\ b \notin Internal \cup Tags /\ refs["github"][b] # <<>>
    /\ b # defaultBranch /\ defaultBranch' = b
    /\ UNCHANGED <<refs, mirror, policy, wanted, sync, gate, syncFaults>>

SetPolicy ==
    /\ Move /\ policy' \in Policies \ {policy}
    /\ UNCHANGED <<refs, defaultBranch, mirror, wanted, sync, gate, syncFaults>>

\* Forgejo's conversion of a mirror into an ordinary repository.
Convert ==
    /\ mirror /\ Move /\ mirror' = FALSE
    /\ UNCHANGED <<refs, defaultBranch, policy, wanted, sync, gate, syncFaults>>

\* prepare_refs of the bridge, for a pull request of one of the repositories.
Prepare(p) ==
    /\ policy = "refs" /\ refs[p.origin][p.head] # <<>>
    /\ Move /\ wanted' = wanted \cup {[kind |-> "pull", pull |-> p]}
    /\ UNCHANGED <<refs, defaultBranch, mirror, policy, sync, gate, syncFaults>>

----------------------------------------------------------------------------
(* The sweep's gate is reserved before the scan and closed after it.       *)

Sweep ==
    /\ gate = "open" /\ gate' = "scanning"
    /\ wanted' = wanted \cup {[kind |-> "sweep"]}
    /\ UNCHANGED <<refs, defaultBranch, mirror, policy, sync, syncMoves, syncFaults>>
Interval ==
    /\ gate = "throttled" /\ gate' = "open"
    /\ UNCHANGED <<refs, defaultBranch, mirror, policy, wanted, sync, syncMoves, syncFaults>>

----------------------------------------------------------------------------
(* One synchronization.                                                    *)

SyncWell == UNCHANGED <<syncMoves, syncFaults>>
SyncFails == syncFaults < MaxSyncFaults /\ syncFaults' = syncFaults + 1 /\ UNCHANGED syncMoves
Closing(job) == IF job.kind = "sweep" THEN "throttled" ELSE gate
Stop == sync' = NoSync /\ gate' = Closing(sync.job)

\* sync_repository, sync_pr: the policy and the kind of repository decide.
BeginSync ==
    /\ sync.pc = "free" /\ UNCHANGED <<refs, defaultBranch, mirror, policy>>
    /\ \E job \in wanted :
          LET Start(pc, only) == sync' = [NoSync EXCEPT !.pc = pc, !.job = job, !.only = only]
                                 /\ UNCHANGED gate
          IN
          /\ wanted' = wanted \ {job}
          /\ \/ /\ SyncWell
                /\ CASE job.kind = "pull" /\ ~mirror /\ job.pull.head # job.pull.base ->
                          Start("fetch", {job.pull.base})
                     [] job.kind # "pull" /\ policy = "refs" /\ ~mirror -> Start("fetch", RefNames)
                     [] job.kind # "pull" /\ policy = "mirror" -> Start("mirror", {})
                     [] OTHER -> UNCHANGED sync /\ gate' = Closing(job)
             \/ SyncFails /\ UNCHANGED sync /\ gate' = Closing(job)

\* The native mirror fetches everything, also what was rewritten or deleted.
Native ==
    /\ sync.pc = "mirror" /\ UNCHANGED <<defaultBranch, mirror, policy, wanted>> /\ Stop
    /\ \/ SyncWell /\ refs' = (IF mirror THEN [refs EXCEPT !["forgejo"] = refs["github"]] ELSE refs)
       \/ SyncFails /\ UNCHANGED refs

Fetch ==
    /\ sync.pc = "fetch" /\ UNCHANGED <<refs, defaultBranch, mirror, policy, wanted>>
    /\ \/ /\ SyncWell /\ UNCHANGED gate
          /\ sync' = [sync EXCEPT !.pc = "compare", !.source = refs[sync.from]]
       \/ SyncFails /\ Stop
Compare ==
    /\ sync.pc = "compare" /\ UNCHANGED <<refs, defaultBranch, mirror, policy, wanted>>
    /\ \/ /\ SyncWell /\ UNCHANGED gate
          /\ sync' = [sync EXCEPT !.pc = "push", !.target = refs[Other(sync.from)]]
       \/ SyncFails /\ Stop

\* Only one branch is meant for a pull request, and then it must arrive.
Whole == sync.only = RefNames
Candidates == {b \in sync.only \ Internal :
    sync.source[b] # <<>> /\ sync.source[b] # sync.target[b]}
Forward(b) ==
    \/ sync.target[b] = <<>>
    \/ b \notin Tags /\ IsPrefix(sync.target[b], sync.source[b])
Behind(b) == b \notin Tags /\ IsPrefix(sync.source[b], sync.target[b])
Conflicts == {b \in Candidates : ~Forward(b) /\ ~(Whole /\ Behind(b))}
UpdatesUnlessConflict == IF Conflicts = {} THEN {b \in Candidates : Forward(b)} ELSE {}
Updates == {b \in Candidates : Forward(b)}
\* The receiving side takes no push that is not a fast-forward.
TakenForced(b) == TRUE
Taken(b) == LET there == refs[Other(sync.from)][b] IN
    \/ there = <<>>
    \/ b \notin Tags /\ IsPrefix(there, sync.source[b])
Moved(set) == refs' = [refs EXCEPT ![Other(sync.from)] =
    [b \in RefNames |-> IF b \in set THEN sync.source[b] ELSE @[b]]]

NextLegUnchecked == LET p == sync.job.pull IN
    IF sync.job.kind = "pull" /\ sync.only = {p.base}
    THEN /\ sync' = [NoSync EXCEPT !.pc = "fetch", !.job = sync.job, !.from = p.origin,
                                   !.only = {p.head}, !.known = defaultBranch]
         /\ UNCHANGED gate
    ELSE Stop

\* After the base the head of a pull request, which comes from its own side
\* and must not be GitHub's default branch as it is read here.
NextLeg == LET p == sync.job.pull IN
    IF /\ sync.job.kind = "pull" /\ sync.only = {p.base}
       /\ ~(p.origin = "forgejo" /\ p.head = defaultBranch)
    THEN /\ sync' = [NoSync EXCEPT !.pc = "fetch", !.job = sync.job, !.from = p.origin,
                                   !.only = {p.head}, !.known = defaultBranch]
         /\ UNCHANGED gate
    ELSE Stop
PushRefs ==
    /\ sync.pc = "push" /\ UNCHANGED <<defaultBranch, mirror, policy, wanted>>
    /\ LET accepted == {b \in Updates : Taken(b)} IN
       \/ /\ SyncWell /\ Moved(accepted)
          /\ IF /\ accepted = Updates /\ Conflicts = {}
                /\ \A b \in sync.only : Whole \/ sync.source[b] # <<>>
             THEN NextLeg ELSE Stop
       \/ SyncFails /\ Moved(accepted) /\ Stop
       \/ SyncFails /\ Moved({}) /\ Stop

SyncCrash ==
    /\ SyncFails /\ wanted' = {} /\ sync' = NoSync /\ gate' = "open"
    /\ UNCHANGED <<refs, defaultBranch, mirror, policy>>

Steps == BeginSync \/ Native \/ Fetch \/ Compare \/ PushRefs

SyncNext ==
    \/ \E b \in RefNames : Rewrite(b) \/ SetDefault(b) \/ \E s \in Sides : PushRef(s, b)
    \/ \E p \in Pulls : Prepare(p)
    \/ SetPolicy \/ Convert \/ Sweep \/ Interval \/ Steps \/ SyncCrash

SyncSpec == SyncInit /\ [][SyncNext]_syncVars

\* The sweep is called again and again; calls answer or time out.
SyncFairSpec == SyncSpec /\ WF_syncVars(Steps) /\ WF_syncVars(Sweep) /\ WF_syncVars(Interval)

----------------------------------------------------------------------------
(* Properties.                                                             *)

Extends(b, before, after) ==
    \/ before \in {<<>>, after}
    \/ b \notin Tags /\ IsPrefix(before, after)

\* No copy between ordinary repositories loses a commit of anyone, also of
\* one who pushes between the fetches and the push (transfer_inner).
NothingOverwritten == [][sync' # sync /\ ~mirror => \A s \in Sides, b \in RefNames :
    Extends(b, refs[s][b], refs'[s][b])]_syncVars

\* The bot changes GitHub only for a pull request from Forgejo, and there only
\* its head, never an internal branch, and never the default one unless that became
\* the default after this leg of the transfer had read which it is (sync_pr).
GithubKept == [][sync' # sync => \A b \in RefNames :
    refs'["github"][b] # refs["github"][b] =>
        /\ b \notin Internal /\ (b = defaultBranch => sync.known # b)
        /\ \E p \in Pulls : p.origin = "forgejo" /\ p.head = b]_syncVars

\* After people stop, what GitHub has reaches Forgejo, also past a branch that
\* diverged and past lost webhooks, failures and restarts; the branches of the
\* rollup queue stay where they are.
Carried(b) ==
    \/ refs["github"][b] = <<>> \/ b \in Internal
    \/ IF mirror THEN refs["github"][b] = refs["forgejo"][b]
       ELSE /\ refs["forgejo"][b] # <<>>
            /\ b \in Tags \/ IsPrefix(refs["github"][b], refs["forgejo"][b])
    \/ ~mirror /\ ~IsPrefix(refs["forgejo"][b], refs["github"][b])
AllCarried == <>[](policy = (IF mirror THEN "mirror" ELSE "refs") =>
    \A b \in RefNames : Carried(b))
=============================================================================
