------------------------------- MODULE Rollup -------------------------------
(***************************************************************************)
(* The rollup queue of src/rollup/: decisions arrive as comments on GitHub *)
(* or Forgejo and edit one durable document per repository; a worker turns *)
(* waiting entries into one candidate commit at a time, has it tested by   *)
(* either provider, and fast-forwards main to exactly that commit.         *)
(*                                                                         *)
(* `repo' is the document in the worker's memory, `saved' the row in       *)
(* SQLite; they differ only while a drive is under way.  The repository    *)
(* lock keeps commands out of a drive, nothing keeps people, the bridge,   *)
(* CI or a crash out.  An action ends where the code awaits an answer.     *)
(*                                                                         *)
(* Commits are numbered: batch id's candidate is commit id, and a push by  *)
(* somebody else to main is a number above MaxBatches.                     *)
(***************************************************************************)
EXTENDS Naturals, SequencesExt, FiniteSetsExt

CONSTANTS
    PRs,          \* pull requests; each has a twin on the other provider
    Unpaired,     \* those whose pairing the bridge has not recorded yet
    Commands,     \* the comments people may write, each with the time of writing
    Home,         \* the provider whose branch authors push to
    Broken,       \* pull requests no candidate passes CI with
    BatchSize,    \* rollup.max_batch
    Moves,        \* what people may do, see Move
    MaxHead,      \* bound: revisions of a pull request
    MaxComments,  \* bound: comments
    MaxTime,      \* bound: points in time
    MaxBatches,   \* bound: candidates
    MaxMoves,     \* bound: moves by people
    MaxFaults     \* bound: crashes, lost calls, lost receipts

Sides == {"github", "forgejo"}
Approvals == {"approve", "approveRollup", "try"}
Kinds == Approvals \cup {"reject", "retry", "rollup", "never"}

ASSUME RollupAssumption ==
    /\ IsFiniteSet(PRs) /\ Unpaired \subseteq PRs /\ Broken \subseteq PRs
    /\ Commands \subseteq [pr : PRs, side : Sides, kind : Kinds, time : 1..MaxTime]
    /\ \A c, d \in Commands : c # d /\ c.pr = d.pr /\ c.side = d.side => c.time # d.time
    /\ Home \in [PRs -> Sides]
    /\ BatchSize \in 1..16 /\ MaxHead \in Nat \ {0}
    /\ Moves \subseteq {"push", "close", "object", "main", "audit", "branch"}
    /\ MaxComments \in Nat /\ MaxTime \in Nat \ {0} /\ MaxBatches \in Nat /\ MaxMoves \in Nat /\ MaxFaults \in Nat

VARIABLES
    comments,   \* the comments that reached the queue, in order of arrival
    repo,       \* the queue document the worker holds
    saved,      \* the queue document in the database
    driver,     \* one pump_repository
    pr,         \* open, closed or merged
    head,       \* each provider's head of each pull request
    paired,     \* pull requests whose twin the bridge has recorded
    objection,  \* when a writer last requested changes, 0 for never
    main,       \* the commits of the default branch
    branch,     \* candidate branches on GitHub
    auditPR,    \* audit pull requests
    ci,         \* what each provider reports for each candidate
    wire,       \* the fast-forward request for each candidate
    moves, faults

people == <<comments, pr, head, paired, objection, moves>>
candidates == <<branch, auditPR, ci>>
vars == <<people, repo, saved, driver, main, candidates, wire, faults>>

Ids == 1..MaxBatches
Keys == Sides \X PRs
EntryStates == {"queued", "waiting", "testing", "merged", "passed", "failed", "stale",
                "cancelled", "superseded"}
Entry == [key : Keys, side : Sides, numbered : BOOLEAN, head : 1..MaxHead, rollup : BOOLEAN,
          try : BOOLEAN, granted : Nat, decision : Nat, state : EntryStates, batch : 0..MaxBatches]
Batch == [members : Seq(Keys), heads : Seq(1..MaxHead), base : Nat, try : BOOLEAN,
          state : {"building", "publishing", "testing", "advancing",
                   "merged", "passed", "failed", "cancelled", "paused"},
          attempted : BOOLEAN, audit : BOOLEAN, fallback : BOOLEAN,
          recorded : BOOLEAN, cleaned : BOOLEAN]
Document == [entries : Seq(Entry), batches : Seq(Batch), active : 0..MaxBatches,
             split : Seq(Seq(Keys)), commands : SUBSET Nat]
Places == {"idle", "members", "inspect", "create", "ci", "fallback", "recheck",
           "confirm", "answer", "admit", "prepare", "publish"}
Idle == [pc |-> "idle", i |-> 1, base |-> 0, eligible |-> {}, failed |-> FALSE]
Driver == [pc : Places, i : Nat, base : Nat, eligible : SUBSET Keys, failed : BOOLEAN]

RollupTypeOK ==
    /\ comments \in Seq(Commands)
    /\ repo \in Document /\ saved \in Document
    /\ driver \in Driver
    /\ pr \in [PRs -> {"open", "closed", "merged"}]
    /\ head \in [Sides -> [PRs -> 1..MaxHead]]
    /\ paired \subseteq PRs
    /\ objection \in [PRs -> Nat]
    /\ main \in Seq(Nat)
    /\ branch \in [Ids -> {"absent", "tip", "other"}]
    /\ auditPR \in [Ids -> {"none", "open", "closed"}]
    /\ ci \in [Sides -> [Ids -> {"none", "pending", "green", "failed"}]]
    /\ wire \in [Ids -> {"none", "sent", "accepted", "refused"}]
    /\ moves \in 0..MaxMoves /\ faults \in 0..MaxFaults

Init ==
    /\ comments = <<>>
    /\ repo = [entries |-> <<>>, batches |-> <<>>, active |-> 0, split |-> <<>>, commands |-> {}]
    /\ saved = repo
    /\ driver = Idle
    /\ pr = [p \in PRs |-> "open"]
    /\ head = [s \in Sides |-> [p \in PRs |-> 1]]
    /\ paired = PRs \ Unpaired
    /\ objection = [p \in PRs |-> 0]
    /\ main = <<0>>
    /\ branch = [b \in Ids |-> "absent"]
    /\ auditPR = [b \in Ids |-> "none"]
    /\ ci = [s \in Sides |-> [b \in Ids |-> "none"]]
    /\ wire = [b \in Ids |-> "none"]
    /\ moves = 0 /\ faults = 0

----------------------------------------------------------------------------
(* The document. *)

First(S) == {i \in S : \A j \in S : i <= j}
TimeOf(c) == comments[c].time
Position(r, key) == CHOOSE i \in DOMAIN r.entries : r.entries[i].key = key
EntryOf(r, key) == r.entries[Position(r, key)]
IsWaiting(e) == e.state \in {"queued", "waiting"}
WithEntry(r, i, e) == [r EXCEPT !.entries[i] = e]
WithBatch(r, b) == [r EXCEPT !.batches[r.active] = b]
Active(r) == r.batches[r.active]

FinishBatchByMember(r, outcome) ==
    [r EXCEPT !.batches[r.active].state = outcome, !.active = 0,
              !.entries = [i \in DOMAIN @ |->
                 IF @[i].key = Active(r).members[1] /\ @[i].state = "testing"
                 THEN [@[i] EXCEPT !.state = IF outcome = "cancelled" THEN "queued" ELSE "failed"]
                 ELSE @[i]]]
\* finish: close the active batch; a failed one of several members is split in
\* two halves that go to the front of the line.
FinishBatch(r, outcome) ==
    LET b == Active(r)
        n == Len(b.members)
        after == CASE outcome \in {"merged", "passed"} -> outcome
                   [] outcome = "paused" \/ (outcome = "failed" /\ (n = 1 \/ b.try)) -> "failed"
                   [] OTHER -> "queued"
        member(e) == e.key \in Range(b.members) /\ e.batch = r.active /\ e.state = "testing"
    IN [r EXCEPT
        !.batches[r.active].state = outcome,
        !.split = IF outcome = "failed" /\ n > 1 /\ ~b.try
                  THEN <<SubSeq(b.members, 1, n \div 2), SubSeq(b.members, n \div 2 + 1, n)>> \o @
                  ELSE @,
        !.entries = [i \in DOMAIN @ |->
                       IF member(@[i]) THEN [@[i] EXCEPT !.state = after] ELSE @[i]],
        !.active = 0]

\* Two decisions for one pull request: the newest one stays, whatever it says.
Newer(e, f) ==
    LET te == TimeOf(e.decision) tf == TimeOf(f.decision) IN
    \/ te > tf
    \/ te = tf /\ e.state = "cancelled" /\ f.state # "cancelled"
    \/ te = tf /\ (e.state = "cancelled" <=> f.state = "cancelled") /\ e.decision > f.decision
Rivals(r, i) == {j \in DOMAIN r.entries \ {i} :
    LET e == r.entries[i] f == r.entries[j] IN
    e.key[2] = f.key[2] /\ e.numbered /\ f.numbered /\ "superseded" \notin {e.state, f.state}}
ReconcileDuplicates(r) ==
    [r EXCEPT !.entries = [i \in DOMAIN @ |->
        IF \E j \in Rivals(r, i) : Newer(r.entries[j], r.entries[i])
        THEN [@[i] EXCEPT !.state = "superseded"] ELSE @[i]]]

\* select_group: the rest of an earlier split first, then a fresh batch, oldest
\* approval first; an entry that is only tried or must not be batched runs alone.
Batchable(r, key) == EntryOf(r, key).rollup /\ ~EntryOf(r, key).try
Lines(keys) == {s \in [1..Cardinality(keys) -> keys] : IsInjective(s)}
Before(r, k, l) ==
    LET tk == TimeOf(EntryOf(r, k).granted) tl == TimeOf(EntryOf(r, l).granted) IN
    tk < tl \/ (tk = tl /\ Position(r, k) < Position(r, l))
Candidates(r, eligible) ==
    LET live == {k \in eligible : IsWaiting(EntryOf(r, k))}
        part == Head(r.split)
    IN IF r.split = <<>>
       THEN {s \in Lines(live) : \A m, n \in DOMAIN s : m < n => Before(r, s[m], s[n])}
       ELSE {s \in Lines(live \cap Range(part)) : \A m, n \in DOMAIN s : m < n =>
                \E i, j \in DOMAIN part : i < j /\ part[i] = s[m] /\ part[j] = s[n]}
Sizes(r, line) ==
    IF line = <<>> THEN {0}
    ELSE IF ~Batchable(r, line[1]) THEN {1}
    ELSE {n \in 1..Len(line) :
            /\ n <= BatchSize /\ \A j \in 1..n : Batchable(r, line[j])
            /\ n \in {BatchSize, Len(line)} \/ ~Batchable(r, line[n + 1])}
Remaining(r, line, n) ==
    IF r.split = <<>> THEN <<>>
    ELSE IF n = Len(line) THEN Tail(r.split)
    ELSE <<SubSeq(line, n + 1, Len(line))>> \o Tail(r.split)

----------------------------------------------------------------------------
(* Commands: one webhook task under the repository lock.  Comments arrive  *)
(* in any order; each carries the time it was written at.  A provider's own *)
(* comment numbers break ties, so times tie only across providers.          *)

\* The queue knows a Forgejo pull request's number on GitHub once the bridge
\* has recorded the pair.
Numbered(cmd) == cmd.side = "github" \/ cmd.pr \in paired
MatchesOwnSide(r, cmd) == {i \in DOMAIN r.entries :
    r.entries[i].state # "superseded" /\ r.entries[i].key = <<cmd.side, cmd.pr>>}
Matches(r, cmd) == {i \in DOMAIN r.entries :
    LET e == r.entries[i] IN
    /\ e.state # "superseded" /\ e.key[2] = cmd.pr
    /\ e.side = cmd.side \/ (Numbered(cmd) /\ e.numbered)}

\* An entry already carries a newer decision than a comment of that time.
Overtaken(e, time) ==
    \/ time < TimeOf(e.decision)
    \/ time = TimeOf(e.decision) /\ e.state = "cancelled"

\* The entry that comment c leaves behind; old is the one it found, if any.
Decided(c, cmd, old) ==
    LET fresh == [key |-> IF old = <<>> THEN <<cmd.side, cmd.pr>> ELSE old[1].key,
                  side |-> cmd.side, numbered |-> Numbered(cmd),
                  head |-> head[cmd.side][cmd.pr],
                  rollup |-> cmd.kind = "approveRollup" \/ (old # <<>> /\ old[1].rollup),
                  try |-> cmd.kind = "try", granted |-> c, decision |-> c, batch |-> 0,
                  state |-> CASE cmd.kind = "reject" -> "cancelled"
                              [] cmd.kind # "reject" /\ Numbered(cmd) -> "queued"
                              [] OTHER -> "waiting"]
    IN CASE cmd.kind \in Approvals \/ old = <<>> -> fresh
         [] old # <<>> /\ cmd.kind = "reject" ->
                [old[1] EXCEPT !.state = "cancelled", !.granted = c, !.decision = c]
         [] old # <<>> /\ cmd.kind = "retry" ->
                [old[1] EXCEPT !.state = IF @ = "testing" THEN @ ELSE "queued",
                               !.batch = IF old[1].state = "testing" THEN @ ELSE 0,
                               !.decision = c]
         [] OTHER -> [old[1] EXCEPT !.rollup = cmd.kind = "rollup", !.decision = c]

\* What apply refuses, or answers without recording anything.
Declined(c, cmd, old) ==
    \/ pr[cmd.pr] # "open" \/ c \in repo.commands
    \/ old = <<>> /\ cmd.kind \in {"retry", "rollup", "never"}
    \/ old # <<>> /\ \/ Overtaken(old[1], cmd.time)
                     \/ /\ old[1].state = "testing"
                        /\ \/ cmd.kind \in Approvals /\ old[1].head = head[cmd.side][cmd.pr]
                           \/ cmd.kind \in {"rollup", "never"}
                     \/ /\ cmd.kind = "retry"
                        /\ \/ old[1].head # head[cmd.side][cmd.pr]
                           \/ old[1].state \in {"cancelled", "stale", "merged"}

\* github, forgejo and apply.
Apply(c, cmd) ==
    LET found == Matches(repo, cmd)
        noted(es) == [repo EXCEPT !.commands = @ \cup {c}, !.entries = es]
    IN \/ /\ found = {}
          /\ repo' = IF Declined(c, cmd, <<>>) THEN repo
                     ELSE noted(Append(repo.entries, Decided(c, cmd, <<>>)))
          /\ saved' = repo'
       \/ \E i \in First(found) : LET old == <<repo.entries[i]>> IN
          /\ repo' = IF Declined(c, cmd, old) THEN repo
                     ELSE noted([repo.entries EXCEPT ![i] = Decided(c, cmd, old)])
          /\ saved' = repo'

Handle(cmd) ==
    /\ driver.pc = "idle" /\ Len(comments) < MaxComments
    /\ cmd \notin Range(comments)
    /\ comments' = Append(comments, cmd)
    /\ Apply(Len(comments) + 1, cmd)
    /\ UNCHANGED <<pr, head, paired, objection, moves, driver, main, candidates, wire, faults>>

\* A command whose receipt was lost runs again.
HandleAgain(c) ==
    /\ driver.pc = "idle" /\ faults < MaxFaults /\ faults' = faults + 1
    /\ Apply(c, comments[c])
    /\ UNCHANGED <<people, driver, main, candidates, wire>>

----------------------------------------------------------------------------
(* People, the bridge, CI and GitHub. *)

Move(kind) == kind \in Moves /\ moves < MaxMoves /\ moves' = moves + 1
World == <<comments, repo, saved, driver, wire, faults>>

Push(p) ==
    /\ Move("push") /\ pr[p] = "open" /\ head[Home[p]][p] < MaxHead
    /\ head' = [head EXCEPT ![Home[p]][p] = @ + 1]
    /\ UNCHANGED <<World, pr, paired, objection, main, candidates>>

ClosePR(p) ==
    /\ Move("close") /\ pr[p] = "open"
    /\ pr' = [pr EXCEPT ![p] = "closed"]
    /\ UNCHANGED <<World, head, paired, objection, main, candidates>>

RequestChanges(p) ==
    /\ Move("object") /\ pr[p] = "open"
    /\ \E t \in 1..MaxTime :
          /\ \A c \in DOMAIN comments : TimeOf(c) <= t
          /\ objection' = [objection EXCEPT ![p] = t]
    /\ UNCHANGED <<World, pr, head, paired, main, candidates>>

PushMain ==
    /\ Move("main")
    /\ main' = Append(main, MaxBatches + 1 + moves)
    /\ UNCHANGED <<World, pr, head, paired, objection, candidates>>

CloseAudit(b) ==
    /\ Move("audit") /\ auditPR[b] = "open"
    /\ auditPR' = [auditPR EXCEPT ![b] = "closed"]
    /\ UNCHANGED <<World, pr, head, paired, objection, main, branch, ci>>

RewriteBranch(b) ==
    /\ Move("branch") /\ branch[b] = "tip"
    /\ branch' = [branch EXCEPT ![b] = "other"]
    /\ UNCHANGED <<World, pr, head, paired, objection, main, auditPR, ci>>

\* The bridge copies a source branch to the twin and records the pair.
Mirror(p) ==
    /\ \E s \in Sides : head[s][p] # head[Home[p]][p]
    /\ head' = [s \in Sides |-> [head[s] EXCEPT ![p] = head[Home[p]][p]]]
    /\ UNCHANGED <<comments, pr, paired, objection, moves, repo, saved, driver, main,
                   candidates, wire, faults>>

Pair(p) ==
    /\ p \notin paired /\ paired' = paired \cup {p}
    /\ UNCHANGED <<comments, pr, head, objection, moves, repo, saved, driver, main,
                   candidates, wire, faults>>

\* A fast-forward is refused unless main is where the candidate starts.  A
\* pull request whose head lands is marked merged.
Land(b) ==
    LET t == repo.batches[b]
        lands == Last(main) = t.base
        within(p) == \E j \in DOMAIN t.members :
                        t.members[j][2] = p /\ t.heads[j] = head["github"][p]
    IN /\ wire[b] = "sent"
       /\ wire' = [wire EXCEPT ![b] = IF lands THEN "accepted" ELSE "refused"]
       /\ main' = IF lands THEN Append(main, b) ELSE main
       /\ pr' = [p \in PRs |-> IF lands /\ pr[p] = "open" /\ within(p) THEN "merged" ELSE pr[p]]
       /\ UNCHANGED <<comments, head, paired, objection, moves, repo, saved, driver,
                      candidates, faults>>

----------------------------------------------------------------------------
(* The worker: pump_repository and drive. *)

Idling == UNCHANGED <<people, main, candidates, wire, faults>>
Calm == UNCHANGED <<people, main, wire, faults>>
At(pc) == driver.pc = pc
Go(pc) == driver' = [driver EXCEPT !.pc = pc]
\* Save in passing, or only remember.
Save(r) == repo' = r /\ saved' = r
Remember(r) == repo' = r /\ UNCHANGED saved
Same == UNCHANGED <<repo, saved>>
\* drive returns, and pump_repository saves whatever it left.
Done(r) == Save(r) /\ driver' = Idle
Finish(outcome) == Done(FinishBatch(repo, outcome))

\* validate_member: both sources, read again.
Verdict(e) ==
    LET p == e.key[2] IN
    IF e.side = "forgejo" /\ p \notin paired THEN "wait"
    ELSE IF pr[p] # "open" \/ head[e.side][p] # e.head THEN "stale"
    ELSE IF e.side = "forgejo" /\ head["github"][p] # e.head THEN "wait"
    ELSE IF ~e.try /\ objection[p] # 0 /\ objection[p] >= TimeOf(e.granted) THEN "stale"
    ELSE IF p \notin paired \/ head["forgejo"][p] # e.head THEN "wait"
    ELSE "valid"

\* The first finished batch that is not cleaned up, and what has to be done
\* for it: record the merges on Forgejo, then close, delete, delete.
Uncleaned(r) == {b \in DOMAIN r.batches : b # r.active /\ LET t == r.batches[b] IN
    ~t.cleaned \/ (t.state = "merged" /\ ~t.recorded)}
Recordable(t) == \A j \in DOMAIN t.members : head["forgejo"][t.members[j][2]] = t.heads[j]

\* cleanup comes first in a tick; a failing call stops it but not the drive,
\* and it starts over at the next tick.
Cleanup ==
    /\ At("idle") /\ UNCHANGED <<people, driver, main, wire>>
    /\ \E b \in First(Uncleaned(repo)) :
       LET t == repo.batches[b]
           owed == t.state = "merged" /\ ~t.recorded
           closed == [auditPR EXCEPT ![b] = IF @ = "open" /\ t.audit THEN "closed" ELSE @]
           deleted == [branch EXCEPT ![b] = "absent"]
       IN \/ /\ owed => Recordable(t)
             /\ Save([repo EXCEPT !.batches[b].recorded = owed \/ @,
                                  !.batches[b].cleaned = TRUE])
             /\ auditPR' = closed /\ branch' = deleted
             /\ ci' = [s \in Sides |-> [ci[s] EXCEPT ![b] = "none"]]
             /\ UNCHANGED faults
          \/ /\ faults < MaxFaults /\ faults' = faults + 1
             /\ \E noted \in {t.recorded, t.recorded \/ (owed /\ Recordable(t))} :
                   Save([repo EXCEPT !.batches[b].recorded = noted])
             /\ auditPR' \in {auditPR, closed}
             /\ branch' \in {branch, deleted}
             /\ UNCHANGED ci

\* The number of a Forgejo pull request is filled in once its pair is known.
WithNumbers(r) == [r EXCEPT !.entries = [i \in DOMAIN @ |->
    IF @[i].state # "superseded" /\ @[i].key[2] \in paired
    THEN [@[i] EXCEPT !.numbered = TRUE] ELSE @[i]]]

\* A tick takes the lock, reads the document and main.
Survey ==
    /\ At("idle") /\ Idling
    /\ IF repo.active = 0
       THEN /\ repo' = ReconcileDuplicates(WithNumbers(repo)) /\ saved' = repo
            /\ driver' = [driver EXCEPT !.pc = "admit", !.base = Last(main)]
       ELSE LET b == Active(repo) IN
            IF b.state = "advancing" /\ Last(main) = repo.active THEN Finish("merged")
            ELSE IF b.base # Last(main) THEN Finish("cancelled")
            ELSE Save(repo) /\ Go("members")

CheckMember ==
    /\ At("members") /\ Idling
    /\ LET b == Active(repo)
           e == EntryOf(repo, b.members[driver.i])
           stale == WithEntry(repo, Position(repo, e.key), [e EXCEPT !.state = "stale"])
       IN IF e.state # "testing" \/ e.head # b.heads[driver.i] \/ e.batch # repo.active
          THEN Finish("cancelled")
          ELSE CASE Verdict(e) = "stale" -> Done(FinishBatch(stale, "cancelled"))
                 [] Verdict(e) = "wait" -> Done(repo)
                 [] OTHER -> /\ Same
                             /\ driver' = IF driver.i < Len(b.members)
                                          THEN [driver EXCEPT !.i = @ + 1]
                                          ELSE [driver EXCEPT !.pc = "inspect", !.i = 1]

\* The candidate branch must still be the candidate.
BranchLost(b) == b.state = "building" \/ branch[repo.active] # "tip"
\* Its audit pull request is found or created.  A creation whose outcome is
\* unknown is looked up, never repeated.
Inspect ==
    /\ At("inspect") /\ Idling
    /\ LET b == Active(repo)
           tested == [b EXCEPT !.state = "testing"]
       IN CASE BranchLost(b) ->
                  IF b.state \notin {"building", "publishing"} /\ branch[repo.active] = "absent"
                  THEN Done(repo) ELSE Finish("cancelled")
            [] ~BranchLost(b) /\ (b.audit \/ auditPR[repo.active] # "none") ->
                  Save(WithBatch(repo, [tested EXCEPT !.audit = TRUE])) /\ Go("ci")
            [] ~BranchLost(b) /\ ~b.audit /\ auditPR[repo.active] = "none" /\ b.attempted ->
                  Done(WithBatch(repo, tested))
            [] OTHER -> Save(WithBatch(repo, [tested EXCEPT !.attempted = TRUE])) /\ Go("create")

\* The creation succeeds, is refused, or succeeds without an answer.
CreateAudit ==
    /\ At("create") /\ UNCHANGED <<people, main, wire, branch, ci>>
    /\ \/ /\ auditPR' = [auditPR EXCEPT ![repo.active] = "open"]
          /\ \/ /\ Save(WithBatch(repo, [Active(repo) EXCEPT !.audit = TRUE]))
                /\ Go("ci") /\ UNCHANGED faults
             \/ faults < MaxFaults /\ faults' = faults + 1 /\ Done(repo)
       \/ /\ faults < MaxFaults /\ faults' = faults + 1 /\ UNCHANGED auditPR
          /\ Done(WithBatch(repo, [Active(repo) EXCEPT !.attempted = FALSE]))

\* A batch whose audit pull request is closed loses every approval.
Unapproved(r) == [r EXCEPT !.entries = [i \in DOMAIN @ |->
    IF @[i].batch = r.active /\ @[i].state = "testing"
    THEN [@[i] EXCEPT !.state = "cancelled"] ELSE @[i]]]
\* All jobs passed: a trial ends here, members are checked once more.
Passed == IF Active(repo).try THEN Finish("passed")
          ELSE Same /\ driver' = [driver EXCEPT !.pc = "recheck", !.i = 1]
WaitForCI == Done(repo)
Wait == Done(repo) \/ Finish("paused")

\* What a provider reports for the active candidate: a run that has ended
\* stays as it is, and none is green with a broken member.
Reports(s, v) ==
    /\ IF ci[s][repo.active] = "pending"
       THEN v = "green" => \A k \in Range(Active(repo).members) : k[2] \notin Broken
       ELSE v = ci[s][repo.active]
    /\ ci' = [ci EXCEPT ![s][repo.active] = v]
    /\ UNCHANGED <<branch, auditPR>> /\ Calm

\* github_ci; the fallback starts on failure, an unavailable API, or age.
ReadGitHub ==
    /\ At("ci")
    /\ \/ /\ auditPR[repo.active] = "closed" /\ Idling
          /\ Done(FinishBatch(Unapproved(repo), "cancelled"))
       \/ /\ auditPR[repo.active] # "closed"
          /\ \E v \in {"pending", "green", "failed"} :
                /\ Reports("github", v)
                /\ IF v = "green" THEN Passed
                   ELSE \/ Same /\ driver' = [driver EXCEPT !.pc = "fallback",
                                                            !.failed = v = "failed"]
                        \/ v # "failed" /\ ~Active(repo).fallback /\ Wait
       \/ /\ auditPR[repo.active] # "closed"
          /\ faults < MaxFaults /\ faults' = faults + 1 /\ Same
          /\ UNCHANGED <<people, main, candidates, wire>>
          /\ driver' = [driver EXCEPT !.pc = "fallback", !.failed = FALSE]

\* git::fallback pushes the same commit to Forgejo; if the answer is lost it
\* does so again.
Fallback ==
    /\ At("fallback") /\ ~Active(repo).fallback
    /\ ci' = [ci EXCEPT !["forgejo"][repo.active] = IF @ = "none" THEN "pending" ELSE @]
    /\ \/ /\ Save(WithBatch(repo, [Active(repo) EXCEPT !.fallback = TRUE]))
          /\ UNCHANGED <<driver, faults>>
       \/ faults < MaxFaults /\ faults' = faults + 1 /\ Done(repo)
    /\ UNCHANGED <<people, main, wire, branch, auditPR>>

\* forgejo_ci; only two complete failures fail the batch.
ReadForgejo ==
    /\ At("fallback") /\ Active(repo).fallback
    /\ \E v \in {"pending", "green", "failed"} :
          /\ Reports("forgejo", v)
          /\ IF v = "green" THEN Passed
             ELSE IF v = "failed" /\ driver.failed THEN Finish("failed")
             ELSE Wait

RecheckMember ==
    /\ At("recheck") /\ Idling
    /\ LET b == Active(repo) IN
       IF Verdict(EntryOf(repo, b.members[driver.i])) # "valid" THEN Done(repo)
       ELSE Same /\ driver' = IF driver.i < Len(b.members) THEN [driver EXCEPT !.i = @ + 1]
                              ELSE [driver EXCEPT !.pc = "confirm", !.i = 1]

\* Main is read once more, the status posted, the intent saved and the
\* fast-forward sent.
Advance ==
    /\ At("confirm") /\ UNCHANGED <<people, main, candidates, faults>>
    /\ LET b == Active(repo) IN
       IF Last(main) # b.base THEN Finish("cancelled") /\ UNCHANGED wire
       ELSE /\ Save(WithBatch(repo, [b EXCEPT !.state = "advancing"]))
            /\ wire' = [wire EXCEPT ![repo.active] = "sent"]
            /\ Go("answer")

AnsweredAnyhow ==
    /\ At("answer") /\ wire[repo.active] \in {"accepted", "refused"} /\ Idling
    /\ Finish("merged")

Answered ==
    /\ At("answer") /\ wire[repo.active] \in {"accepted", "refused"} /\ Idling
    /\ IF wire[repo.active] = "accepted" THEN Finish("merged") ELSE Done(repo)

Later(i) == {j \in DOMAIN repo.entries : j >= i /\ IsWaiting(repo.entries[j])}
Admit ==
    /\ At("admit") /\ Idling
    /\ \E i \in First(Later(driver.i)) :
       LET e == repo.entries[i]
           v == Verdict(e)
       IN /\ Remember(WithEntry(repo, i,
                CASE v = "valid" -> [e EXCEPT !.state = "queued", !.numbered = TRUE]
                  [] v = "stale" -> [e EXCEPT !.state = "stale"]
                  [] OTHER -> [e EXCEPT !.state = "waiting"]))
          /\ driver' = [driver EXCEPT !.i = i + 1,
                !.eligible = IF v = "valid" THEN @ \cup {e.key} ELSE @]

\* A group is frozen as the next batch.
Frozen(r, group, split) ==
    LET id == Len(r.batches) + 1
        batch == [members |-> group, base |-> driver.base,
                  heads |-> [j \in DOMAIN group |-> EntryOf(r, group[j]).head],
                  try |-> EntryOf(r, group[1]).try,
                  state |-> "building", attempted |-> FALSE, audit |-> FALSE,
                  fallback |-> FALSE, recorded |-> FALSE, cleaned |-> FALSE]
    IN [r EXCEPT !.split = split, !.active = id, !.batches = Append(@, batch),
                 !.entries = [i \in DOMAIN @ |-> IF @[i].key \in Range(group)
                                THEN [@[i] EXCEPT !.state = "testing", !.batch = id]
                                ELSE @[i]]]

Select ==
    /\ At("admit") /\ Later(driver.i) = {} /\ Idling
    /\ LET r == ReconcileDuplicates(repo) IN
       \E line \in Candidates(r, driver.eligible) : \E n \in Sizes(r, line) :
          \/ n = 0 /\ Done([r EXCEPT !.split = Remaining(r, line, n)])
          \/ n # 0 /\ r.split = <<>> /\ Done(r)  \* still collecting
          \/ /\ n # 0 /\ Len(r.batches) < MaxBatches
             /\ Save(Frozen(r, SubSeq(line, 1, n), Remaining(r, line, n)))
             /\ Go("prepare")

\* git::prepare merges the fetched heads; the members must still be there, and
\* the merge may conflict.
Prepare ==
    /\ At("prepare") /\ Idling
    /\ LET b == Active(repo) IN
       IF \E j \in DOMAIN b.members : head["github"][b.members[j][2]] # b.heads[j]
       THEN Finish("cancelled")
       ELSE \/ Save(WithBatch(repo, [b EXCEPT !.state = "publishing"])) /\ Go("publish")
            \/ Finish("failed")

\* The pushed ref starts CI; the answer to the push may be lost.
Publish ==
    /\ At("publish")
    /\ branch' = [branch EXCEPT ![repo.active] = "tip"]
    /\ ci' = [ci EXCEPT !["github"][repo.active] = "pending"]
    /\ \/ Done(WithBatch(repo, [Active(repo) EXCEPT !.state = "testing"])) /\ UNCHANGED faults
       \/ faults < MaxFaults /\ faults' = faults + 1 /\ Done(repo)
    /\ UNCHANGED <<people, main, wire, auditPR>>

\* A call fails, its answer is lost, or the drive passes its 300 seconds: the
\* future is dropped and the document saved as it is.
Abandon ==
    /\ ~At("idle") /\ faults < MaxFaults /\ faults' = faults + 1
    /\ IF At("prepare") THEN \/ Finish("cancelled") \/ Done(repo) ELSE Done(repo)
    /\ UNCHANGED <<people, main, candidates, wire>>

Crash ==
    /\ ~At("idle") /\ faults < MaxFaults /\ faults' = faults + 1
    /\ repo' = saved /\ UNCHANGED saved /\ driver' = Idle
    /\ UNCHANGED <<people, main, candidates, wire>>

Drive ==
    \/ Survey \/ CheckMember \/ Inspect \/ CreateAudit \/ ReadGitHub \/ Fallback \/ ReadForgejo
    \/ RecheckMember \/ Advance \/ Answered \/ Admit \/ Select \/ Prepare \/ Publish

Next ==
    \/ \E cmd \in Commands : Handle(cmd)
    \/ \E c \in DOMAIN comments : HandleAgain(c)
    \/ \E p \in PRs : Push(p) \/ ClosePR(p) \/ RequestChanges(p) \/ Mirror(p) \/ Pair(p)
    \/ PushMain
    \/ \E b \in Ids : CloseAudit(b) \/ RewriteBranch(b) \/ Land(b)
    \/ Cleanup \/ Drive \/ Abandon \/ Crash

Spec == Init /\ [][Next]_vars

\* The worker ticks every 15 seconds and its calls return; waits pass: the
\* collection window, and the batch's own timeout even if no CI ever answers.
\* Comments are handled, the bridge copies and pairs, requests are resolved.
Pauses == Drive /\ repo.active # 0 /\ repo' = FinishBatch(repo, "paused")
Freezes == Select /\ repo'.active # 0
FairSpec ==
    /\ Spec
    /\ WF_vars(Drive) /\ SF_vars(Pauses) /\ SF_vars(Freezes)
    /\ \A p \in PRs : WF_vars(Mirror(p)) /\ WF_vars(Pair(p))
    /\ \A b \in Ids : WF_vars(b \in DOMAIN repo.batches /\ Land(b))

----------------------------------------------------------------------------
(* Properties. *)

\* A pull request can have two entries, one recorded on each provider before
\* the bridge knew the pair.  Its other entry is astray while the queue does not
\* know that they belong together, or finds that one first.
Twins(i) == {j \in DOMAIN repo.entries : j # i /\ repo.entries[j].key[2] = repo.entries[i].key[2]}
Astray(i) == \E j \in Twins(i) :
    repo.entries[j].state # "superseded" /\ (~repo.entries[j].numbered \/ j < i)
\* The queue has recorded a withdrawal of the pull request newer than a decision.
Withdrawn(p, decision) == \E c \in repo.commands :
    comments[c].pr = p /\ comments[c].kind = "reject" /\ TimeOf(c) > TimeOf(decision)

\* The fast-forward is requested only for a candidate that one provider has
\* passed completely, built on main as it is, whose every member still carries
\* the approval of exactly the head that was built in, with no newer
\* withdrawal from either provider (drive, after any crash, cut or reordering).
\* Of two entries the one that stayed carries a decision as new as any.
AdvancesApproved ==
    [][\A b \in Ids : wire[b] # "sent" /\ wire'[b] = "sent" =>
         LET t == repo.batches[b] IN
         /\ \E s \in Sides : ci[s][b] = "green"
         /\ t.base = Last(main) /\ ~t.try
         /\ \A j \in DOMAIN t.members :
               LET i == Position(repo, t.members[j]) e == repo.entries[i] IN
               /\ e.state = "testing" /\ e.batch = b /\ e.head = t.heads[j]
               /\ comments[e.granted].kind \in {"approve", "approveRollup"}
               /\ Twins(i) = {} => ~Withdrawn(e.key[2], e.granted)
               /\ Astray(i) \/ ~Withdrawn(e.key[2], e.decision)]_vars

\* "A delayed bridge mapping must not let a second origin's older approval
\* survive a newer cancellation" (engine.rs 572): once its two entries are
\* reconciled, no pull request lands whose approval is older than a withdrawal.
OlderApprovalDies ==
    [][\A b \in Ids : wire[b] # "sent" /\ wire'[b] = "sent" =>
         \A k \in Range(repo.batches[b].members) : LET i == Position(repo, k) IN
            Astray(i) \/ ~Withdrawn(k[2], repo.entries[i].granted)]_vars

\* Between drives every entry under test belongs to the active batch, at the
\* head the batch was built from: nothing is left testing by a finished,
\* crashed or cut batch (finish, select_group, apply).
NoStrandedEntry ==
    driver.pc = "idle" => \A i \in DOMAIN repo.entries : LET e == repo.entries[i] IN
        e.state = "testing" => /\ repo.active # 0 /\ e.batch = repo.active
                               /\ \E j \in DOMAIN Active(repo).members :
                                     /\ Active(repo).members[j] = e.key
                                     /\ Active(repo).heads[j] = e.head

\* The stored queue is well formed and its entries belong to its batches.
RollupInv == RollupTypeOK /\ NoStrandedEntry

\* No revision of a pull request lands twice, also when the answer to the fast-forward was
\* lost or somebody pushed on top of it (the advancing state of drive); and
\* what the queue calls merged is in main.
LandsOnce ==
    /\ \A b, c \in Range(main) \cap Ids : b # c =>
          \A j \in DOMAIN repo.batches[b].members, k \in DOMAIN repo.batches[c].members :
             repo.batches[b].members[j][2] = repo.batches[c].members[k][2] =>
                repo.batches[b].heads[j] # repo.batches[c].heads[k]
    /\ \A i \in DOMAIN repo.entries :
          repo.entries[i].state = "merged" => repo.entries[i].batch \in Range(main)

\* A batch whose audit pull request may or may not have been created waits for
\* it to appear.
AuditUnknown == repo.active # 0 /\ Active(repo).attempted /\ ~Active(repo).audit
                    /\ auditPR[repo.active] = "none"
Outstanding(p) == \E i \in DOMAIN repo.entries : LET e == repo.entries[i] IN
    e.key[2] = p /\ e.state \in {"queued", "waiting", "testing"}

\* What is queued is eventually merged, failed, passed, stale or withdrawn,
\* even if no CI run ever ends, unless the creation of an audit pull request is
\* in doubt (drive, finish) or candidates are used up.
QueueResolves == \A p \in PRs :
    Outstanding(p) ~> ~Outstanding(p) \/ AuditUnknown \/ Len(repo.batches) = MaxBatches
=============================================================================
