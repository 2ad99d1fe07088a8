----------------------------- MODULE MergeQueue -----------------------------
(***************************************************************************)
(* The merge queue of src/merge_queue.rs: webhooks that label pull         *)
(* requests, and the driver that folds a batch into the staging branch,    *)
(* reads CI on its tip, drops or rebuilds, and advances main.              *)
(*                                                                         *)
(* There is no database: labels, branches and pull requests live at GitHub *)
(* and survive a crash, the driver record and the webhook handlers do not. *)
(* An action is one GitHub call with the decision that follows it (reads   *)
(* that nobody else can disturb are joined), so everything else happens    *)
(* between any two calls of the driver.                                    *)
(*                                                                         *)
(* A branch is its first-parent history.  A commit records what it adds:   *)
(* <<pr, head>> for a pull request's head, <<0, n>> for a direct push.     *)
(***************************************************************************)
EXTENDS Naturals, SequencesExt, FiniteSetsExt

CONSTANTS
    PRs,            \* pull request numbers
    NoBranch,       \* the staging ref is absent
    Methods,        \* merge_queue_advance_method: subset of {"pr", "ref"}
    ReviewRequired, \* main's branch protection wants a human approval
    MaxBatch,       \* merge_queue_max_batch
    Cleanup,        \* merge_queue_cleanup_staging
    Disturbances,   \* what may go wrong: see Disturb
    MaxHead,        \* bound: head versions of one pull request
    MaxAsks,        \* bound: approvals of one pull request
    MaxMoves,       \* bound: pushes, withdrawals and closings by people
    MaxFaults       \* bound: disturbances

ASSUME QueueAssumption ==
    /\ PRs \subseteq Nat \ {0} /\ IsFiniteSet(PRs)
    /\ Methods # {} /\ Methods \subseteq {"pr", "ref"}
    /\ MaxBatch \in Nat \ {0} /\ MaxHead \in Nat \ {0}
    /\ Cleanup \in BOOLEAN /\ ReviewRequired \in BOOLEAN
    /\ Disturbances \subseteq {"crash", "call", "delete", "rerun", "rename"}
    /\ MaxAsks \in Nat /\ MaxMoves \in Nat /\ MaxFaults \in Nat

VARIABLES
    method,     \* the configured way main is advanced
    pr,         \* open, closed or merged
    head,       \* the head version of each pull request
    queued,     \* pull requests labelled "merge queue: queued"
    testing,    \* pull requests labelled "merge queue: testing"
    main,       \* history of the default branch
    staging,    \* history of the staging branch, or NoBranch
    ci,         \* what GitHub reports for the staging tip
    absorbed,   \* staging histories that a merged advance PR made part of main
    advance,    \* the pull request that merges staging into main
    driver,     \* one pump_one tick
    admitting,  \* approvals between the label check and the label write
    removing,   \* withdrawals whose handler has not finished
    asks, moves, faults,
    passed      \* the contents CI has reported green (history variable)

labels == <<queued, testing>>
tip == <<staging, ci>>
mainline == <<main, absorbed, advance>>
github == <<pr, head, labels, tip, mainline>>
vars == <<method, github, driver, admitting, removing, asks, moves, faults, passed>>

NoAdvance == [open |-> FALSE, approved |-> NoBranch]

\* What a commit may carry: heads of pull requests and direct pushes.  Only a
\* fold is marked.
Changes == (PRs \cup {0}) \X Nat
Commit == {c \in [pr : PRs \cup {0}, was : 0..MaxHead, marked : BOOLEAN, adds : SUBSET Changes] :
              c.marked => c.pr \in PRs}
History == Seq(Commit)

\* An absent ref is no history.
ASSUME BranchAssumption == NoBranch \notin History

Entry == [pr : PRs, was : 0..MaxHead, at : History \cup {NoBranch}]
Places == {"idle", "check", "ci", "rebuild", "expel", "refold", "expelLater", "list", "reset",
           "read", "fold", "swap", "mark", "refuse", "advance", "merge", "complete", "timeout"}
Idle == [pc |-> "idle", tip |-> NoBranch, chain |-> <<>>, i |-> 1, todo |-> <<>>, was |-> 0,
         good |-> <<>>, bad |-> {}]
Driver == [pc : Places, tip : History \cup {NoBranch}, chain : Seq(Entry), i : Nat,
           todo : Seq(PRs), was : 0..MaxHead, good : Seq(PRs), bad : SUBSET PRs]

QueueTypeOK ==
    /\ method \in Methods
    /\ pr \in [PRs -> {"open", "closed", "merged"}]
    /\ head \in [PRs -> 1..MaxHead]
    /\ queued \subseteq PRs /\ testing \subseteq PRs
    /\ main \in History
    /\ staging \in History \cup {NoBranch}
    /\ ci \in {"none", "pending", "green", "failed"}
    /\ absorbed \subseteq History
    /\ advance \in [open : BOOLEAN, approved : History \cup {NoBranch}]
    /\ driver \in Driver
    /\ admitting \subseteq PRs /\ removing \subseteq PRs
    /\ asks \in [PRs -> 0..MaxAsks] /\ moves \in 0..MaxMoves /\ faults \in 0..MaxFaults

Contents(history) == UNION {history[j].adds : j \in DOMAIN history}
FoldOf(p, was, marked) == [pr |-> p, was |-> was, marked |-> marked, adds |-> {<<p, head[p]>>}]
Plain(adds) == [pr |-> 0, was |-> 0, marked |-> FALSE, adds |-> adds]

Init ==
    /\ method \in Methods
    /\ pr = [p \in PRs |-> "open"]
    /\ head = [p \in PRs |-> 1]
    /\ queued = {} /\ testing = {}
    /\ main = <<Plain({}), Plain({<<0, 0>>})>>
    /\ staging = NoBranch
    /\ ci = "none"
    /\ absorbed = {}
    /\ advance = NoAdvance
    /\ driver = Idle
    /\ admitting = {} /\ removing = {}
    /\ asks = [p \in PRs |-> 0] /\ moves = 0 /\ faults = 0
    /\ passed = {}

\* crash: the process dies; call: a GitHub call fails; delete: somebody deletes
\* the staging branch; rerun: a check is run again; rename: GitHub words the
\* merge commit itself.
Disturb(kind) == kind \in Disturbances /\ faults < MaxFaults /\ faults' = faults + 1

\* What no step of the driver touches.
Others == UNCHANGED <<method, head, admitting, removing, asks, moves, passed>>
\* What a webhook or a person leaves alone.
Rest == UNCHANGED <<method, faults, passed>>
Move == moves < MaxMoves /\ moves' = moves + 1
At(pc) == driver.pc = pc
Go(d) == driver' = d

\* Moving the branch to another commit starts CI over.
MoveStaging(history) ==
    /\ staging' = history
    /\ ci' = IF history = staging THEN ci ELSE "none"

\* The live head of p is merged into staging, worded as asked unless GitHub
\* words the commit itself.
Worded(p, was) == \E marked \in BOOLEAN :
    /\ IF marked THEN UNCHANGED faults ELSE Disturb("rename")
    /\ MoveStaging(Append(staging, FoldOf(p, was, marked)))

\* A pull request whose head branch goes away is closed.
DeleteBranch == staging' = NoBranch /\ advance' = NoAdvance /\ UNCHANGED ci

\* GitHub marks a pull request merged once its head is part of main.
MoveMain(history) ==
    /\ main' = history
    /\ pr' = [p \in PRs |-> IF pr[p] = "open" /\ <<p, head[p]>> \in Contents(history)
                            THEN "merged" ELSE pr[p]]

-----------------------------------------------------------------------------
(* Webhooks: enqueue, dequeue_pr, handle_pr_closed. *)

\* enqueue validates the pull request and reads its labels ...
Approve(p) ==
    /\ pr[p] = "open" /\ p \notin queued \cup testing \cup admitting
    /\ asks[p] < MaxAsks
    /\ asks' = [asks EXCEPT ![p] = @ + 1]
    /\ admitting' = admitting \cup {p}
    /\ UNCHANGED <<github, driver, removing, moves>> /\ Rest

\* ... and labels it afterwards, whatever has happened in between.
AddQueued(p) ==
    /\ p \in admitting
    /\ admitting' = admitting \ {p}
    /\ queued' = queued \cup {p}
    /\ UNCHANGED <<pr, head, testing, tip, mainline, driver, removing, asks, moves>> /\ Rest

Withdraw(p) ==
    /\ p \in queued \cup testing
    /\ Move
    /\ removing' = removing \cup {p}
    /\ UNCHANGED <<github, driver, admitting, asks>> /\ Rest

Close(p) ==
    /\ pr[p] = "open"
    /\ Move
    /\ pr' = [pr EXCEPT ![p] = "closed"]
    /\ removing' = removing \cup {p}
    /\ UNCHANGED <<head, labels, tip, mainline, driver, admitting, asks>> /\ Rest

\* dequeue_pr removes both labels, queued first; an error ends it early.
Unlabel(p) ==
    \/ queued' = queued \ {p} /\ testing' = testing \ {p} /\ UNCHANGED faults
    \/ Disturb("call") /\ queued' \in {queued, queued \ {p}} /\ UNCHANGED testing

Dequeue(p) ==
    /\ p \in removing
    /\ removing' = removing \ {p}
    /\ Unlabel(p)
    /\ UNCHANGED <<method, pr, head, tip, mainline, driver, admitting, asks, moves, passed>>

-----------------------------------------------------------------------------
(* pump_one: look, reconcile and check the batch. *)

\* parse_chain: the marked commits at the end of the history, oldest first.
ParseChain(history) ==
    LET base == SelectLastInSeq(history, LAMBDA c : ~c.marked)
    IN  [j \in 1..(Len(history) - base) |->
            [pr |-> history[base + j].pr, was |-> history[base + j].was,
             at |-> SubSeq(history, 1, base + j)]]

Members(chain) == {chain[j].pr : j \in DOMAIN chain}
Orders(ps) == [1..Cardinality(ps) -> ps]
\* GitHub lists the most recent first; the code keeps that order.
Descending(ps) == CHOOSE s \in Orders(ps) : \A j, k \in DOMAIN s : j < k => s[j] > s[k]
\* start_batch sorts.
Ascending(ps) == CHOOSE s \in Orders(ps) : \A j, k \in DOMAIN s : j < k => s[j] < s[k]

\* Labels decide who is in the batch, the commits in which order.
Tick ==
    LET marked == IF staging = NoBranch THEN <<>> ELSE ParseChain(staging)
        labeled == {p \in testing : pr[p] = "open"}
        unmarked == Descending(labeled \ Members(marked))
        chain == marked \o [j \in DOMAIN unmarked |->
                               [pr |-> unmarked[j], was |-> 0, at |-> staging]]
        stripped == {j \in DOMAIN marked : marked[j].pr \notin labeled}
    IN  /\ At("idle")
        /\ Go(IF stripped # {}
              THEN [Idle EXCEPT !.pc = "rebuild", !.chain = marked, !.i = Min(stripped)]
              ELSE IF chain = <<>> THEN [Idle EXCEPT !.pc = "list", !.tip = staging]
              ELSE [Idle EXCEPT !.pc = "check", !.chain = chain, !.tip = staging])
        /\ UNCHANGED <<pr, labels, tip, mainline, faults>> /\ Others

\* Faulty variant: a push to a member under test goes unnoticed.
UnhealthyIfClosed(entry) == pr[entry.pr] # "open"

\* check_members: every member still open at the head that was folded.
Unhealthy(entry) ==
    \/ pr[entry.pr] # "open"
    \/ entry.was # 0 /\ head[entry.pr] # entry.was

CheckMember ==
    LET entry == driver.chain[driver.i] IN
    /\ At("check")
    /\ \/ /\ Unhealthy(entry) /\ UNCHANGED faults
          /\ Go([driver EXCEPT !.pc = "rebuild"])
       \/ /\ Disturb("call")
          /\ Go([driver EXCEPT !.pc = "rebuild"])
       \/ /\ ~Unhealthy(entry) /\ UNCHANGED faults
          /\ Go(IF driver.i < Len(driver.chain) THEN [driver EXCEPT !.i = @ + 1]
                ELSE [driver EXCEPT !.pc = IF driver.tip = NoBranch THEN "list" ELSE "ci"])
    /\ UNCHANGED <<pr, labels, tip, mainline>> /\ Others

\* Faulty variant: only a red verdict holds the batch back.
ReadCIUnlessFailed ==
    /\ At("ci")
    /\ Go(IF ci = "failed" THEN [driver EXCEPT !.pc = "rebuild", !.i = Len(driver.chain)]
          ELSE [driver EXCEPT !.pc = "advance"])
    /\ UNCHANGED <<pr, labels, tip, mainline, faults>> /\ Others

\* Faulty variant: a red batch is left as it is.
ReadCIKeepsCulprit ==
    /\ At("ci")
    /\ Go(IF ci = "green" THEN [driver EXCEPT !.pc = "advance"] ELSE Idle)
    /\ UNCHANGED <<pr, labels, tip, mainline, faults>> /\ Others

\* Green advances; red drops the newest member; pending waits for as long as it
\* takes, and no CI at all may have waited long enough.
ReadCI ==
    LET chain == driver.chain IN
    /\ At("ci")
    /\ Go(CASE ci = "green" -> [driver EXCEPT !.pc = "advance"]
            [] ci = "failed" -> [driver EXCEPT !.pc = "rebuild", !.i = Len(chain)]
            [] OTHER -> Idle)
    /\ UNCHANGED <<pr, labels, tip, mainline, faults>> /\ Others

TimeOut ==
    /\ At("ci") /\ ci = "none"
    /\ Go([driver EXCEPT !.pc = "timeout",
                         !.todo = [j \in DOMAIN driver.chain |-> driver.chain[j].pr]])
    /\ UNCHANGED <<pr, labels, tip, mainline, faults>> /\ Others

\* timeout_batch takes both labels off every member and leaves staging alone.
ExpireMember ==
    /\ At("timeout")
    /\ IF driver.todo = <<>>
       THEN Go(Idle) /\ UNCHANGED <<queued, testing, faults>>
       ELSE Unlabel(Head(driver.todo)) /\ Go([driver EXCEPT !.todo = Tail(@)])
    /\ UNCHANGED <<pr, tip, mainline>> /\ Others

-----------------------------------------------------------------------------
(* rebuild_from and drop_culprit: reset to just before one member, drop it, *)
(* fold the later ones again (there are none behind a culprit).             *)

ResetTarget(chain, i) ==
    IF i > 1 THEN chain[i - 1].at
    ELSE IF chain[1].at = NoBranch \/ Len(chain[1].at) = 1 THEN NoBranch
    ELSE Front(chain[1].at)

Rebuild ==
    LET target == ResetTarget(driver.chain, driver.i) IN
    /\ At("rebuild")
    /\ IF target = NoBranch \/ staging = NoBranch
       THEN Go(Idle) /\ UNCHANGED tip
       ELSE MoveStaging(target) /\ Go([driver EXCEPT !.pc = "expel"])
    /\ UNCHANGED <<pr, labels, mainline, faults>> /\ Others

Expel ==
    /\ driver.pc \in {"expel", "expelLater"}
    /\ Unlabel(driver.chain[driver.i].pr)
    /\ Go([driver EXCEPT !.pc = "refold", !.i = @ + 1])
    /\ UNCHANGED <<pr, tip, mainline>> /\ Others

\* Faulty variant: a member that cannot be merged again keeps its label.
RefoldKeepsLabel ==
    LET entry == driver.chain[driver.i]
        p == entry.pr IN
    /\ At("refold")
    /\ IF driver.i > Len(driver.chain) THEN Go(Idle) /\ UNCHANGED tip
       ELSE /\ Go([driver EXCEPT !.i = @ + 1])
            /\ \/ UNCHANGED tip
               \/ /\ staging # NoBranch /\ <<p, head[p]>> \notin Contents(staging)
                  /\ MoveStaging(Append(staging, FoldOf(p, entry.was, TRUE)))
    /\ UNCHANGED <<pr, labels, mainline, faults>> /\ Others

\* The live branch is merged again, under the head recorded before; a conflict
\* or an error drops the member.
Refold ==
    LET entry == driver.chain[driver.i]
        p == entry.pr IN
    /\ At("refold")
    /\ \/ /\ driver.i > Len(driver.chain)
          /\ Go(Idle) /\ UNCHANGED <<tip, faults>>
       \/ /\ driver.i <= Len(driver.chain) /\ staging # NoBranch
          /\ \/ <<p, head[p]>> \in Contents(staging) /\ UNCHANGED <<tip, faults>>
             \/ /\ <<p, head[p]>> \notin Contents(staging)
                /\ Worded(p, entry.was)
          /\ Go([driver EXCEPT !.i = @ + 1])
       \/ /\ driver.i <= Len(driver.chain)
          /\ Go([driver EXCEPT !.pc = "expelLater"]) /\ UNCHANGED <<tip, faults>>
    /\ UNCHANGED <<pr, labels, mainline>> /\ Others

-----------------------------------------------------------------------------
(* start_batch. *)

Waiting == {p \in queued : pr[p] = "open"}
NextBatch == LET all == Ascending(Waiting)
             IN  SubSeq(all, 1, IF Len(all) < MaxBatch THEN Len(all) ELSE MaxBatch)

\* Nothing queued: a leftover staging is deleted, or reset to main.
ListQueued ==
    /\ At("list")
    /\ IF Waiting # {}
       THEN Go([driver EXCEPT !.pc = "reset", !.todo = NextBatch]) /\ UNCHANGED <<tip, advance>>
       ELSE /\ Go(Idle)
            /\ IF driver.tip = NoBranch \/ staging = NoBranch \/ ~Cleanup
               THEN UNCHANGED <<tip, advance>>
               ELSE IF driver.tip = main THEN DeleteBranch
               ELSE MoveStaging(main) /\ UNCHANGED advance
    /\ UNCHANGED <<pr, labels, main, absorbed, faults>> /\ Others

\* The batch is built on what main is now.
ResetStaging ==
    LET absent == driver.tip = NoBranch IN
    /\ At("reset")
    /\ IF absent = (staging = NoBranch)
       THEN MoveStaging(main) /\ Go([driver EXCEPT !.pc = "read", !.tip = main,
                                                   !.chain = <<>>])
       ELSE Go(Idle) /\ UNCHANGED tip
    /\ UNCHANGED <<pr, labels, mainline, faults>> /\ Others

\* The head that goes into the marker is read one call before the merge.
ReadMember ==
    LET p == Head(driver.todo)
        refused == [driver EXCEPT !.todo = Tail(@), !.bad = @ \cup {p}] IN
    /\ At("read")
    /\ IF driver.todo = <<>>
       THEN Go([driver EXCEPT !.pc = "swap", !.todo = driver.good]) /\ UNCHANGED faults
       ELSE \/ pr[p] # "open" /\ Go(refused) /\ UNCHANGED faults
            \/ Disturb("call") /\ Go(refused)
            \/ /\ pr[p] = "open" /\ UNCHANGED faults
               /\ Go([driver EXCEPT !.pc = "fold", !.was = head[p]])
    /\ UNCHANGED <<pr, labels, tip, mainline>> /\ Others

\* Merged; or refused as a conflict or as contained already.
FoldMember ==
    LET p == Head(driver.todo)
        next == [driver EXCEPT !.pc = "read", !.todo = Tail(@), !.was = 0]
        contained == staging # NoBranch /\ <<p, head[p]>> \in Contents(staging) IN
    /\ At("fold")
    /\ \/ /\ staging # NoBranch /\ ~contained
          /\ Worded(p, driver.was)
          /\ Go([next EXCEPT !.good = Append(@, p)])
       \/ /\ staging # NoBranch
          /\ Go([next EXCEPT !.bad = @ \cup {p}])
          /\ UNCHANGED <<tip, faults>>
       \/ /\ staging = NoBranch
          /\ Go(Idle)
          /\ UNCHANGED <<tip, faults>>
    /\ UNCHANGED <<pr, labels, mainline>> /\ Others

\* Label writes of the swap are best effort, one call each.
SwapQueued ==
    /\ At("swap")
    /\ IF driver.todo = <<>>
       THEN Go([driver EXCEPT !.pc = "refuse"]) /\ UNCHANGED <<queued, faults>>
       ELSE /\ \/ queued' = queued \ {Head(driver.todo)} /\ UNCHANGED faults
               \/ Disturb("call") /\ UNCHANGED queued
            /\ Go([driver EXCEPT !.pc = "mark"])
    /\ UNCHANGED <<pr, testing, tip, mainline>> /\ Others

MarkTesting ==
    /\ At("mark")
    /\ \/ testing' = testing \cup {Head(driver.todo)} /\ UNCHANGED faults
       \/ Disturb("call") /\ UNCHANGED testing
    /\ Go([driver EXCEPT !.pc = "swap", !.todo = Tail(@)])
    /\ UNCHANGED <<pr, queued, tip, mainline>> /\ Others

RefuseMember ==
    /\ At("refuse")
    /\ \/ /\ \E p \in driver.bad : Unlabel(p) /\ Go([driver EXCEPT !.bad = @ \ {p}])
          /\ UNCHANGED tip
       \/ /\ driver.bad = {}
          /\ IF driver.good = <<>> /\ staging # NoBranch THEN MoveStaging(driver.tip)
             ELSE UNCHANGED tip
          /\ Go(Idle)
          /\ UNCHANGED <<queued, testing, faults>>
    /\ UNCHANGED <<pr, mainline>> /\ Others

-----------------------------------------------------------------------------
(* advance_main and complete_batch. *)

Merged == [driver EXCEPT !.pc = "complete",
                         !.todo = [j \in DOMAIN driver.chain |-> driver.chain[j].pr]]

\* main already contains the staging tip, or there is no staging tip.
NothingToMerge ==
    staging # NoBranch => \E history \in {main} \cup absorbed : IsPrefix(staging, history)

\* "ref" moves main itself and never backwards; "pr" closes the advance PR of
\* an earlier tick and opens one, and takes GitHub's "no commits" for a batch
\* that is merged already.
Advance ==
    LET target == Last(driver.chain).at IN
    /\ At("advance")
    /\ \/ /\ method = "ref" /\ IsPrefix(main, target)
          /\ MoveMain(target) /\ Go(Merged) /\ UNCHANGED advance
       \/ /\ method = "ref" /\ ~IsPrefix(main, target)
          /\ Go(Idle) /\ UNCHANGED <<main, pr, advance>>
       \/ /\ method = "pr" /\ NothingToMerge
          /\ advance' = NoAdvance
          /\ Go(Merged) /\ UNCHANGED <<main, pr>>
       \/ /\ method = "pr" /\ ~NothingToMerge
          /\ advance' = [NoAdvance EXCEPT !.open = TRUE]
          /\ Go([driver EXCEPT !.pc = "merge"]) /\ UNCHANGED <<main, pr>>
    /\ UNCHANGED <<labels, tip, absorbed, faults>> /\ Others

\* GitHub merges whatever the two branches are by then, if main's protection
\* lets it; otherwise the batch stays and the next tick tries again.
MergeAdvance ==
    LET allowed == advance.open /\ (ReviewRequired => advance.approved # NoBranch) IN
    /\ At("merge")
    /\ \/ /\ allowed
          /\ MoveMain(Append(main, Plain(Contents(staging) \ Contents(main))))
          /\ absorbed' = absorbed \cup {staging}
          /\ advance' = NoAdvance
          /\ Go(Merged)
       \/ ~allowed /\ Go(Idle) /\ UNCHANGED <<pr, mainline>>
    /\ UNCHANGED <<labels, tip, faults>> /\ Others

\* Announce, take the label off (best effort) and delete staging (likewise).
CompleteMember ==
    /\ At("complete") /\ driver.todo # <<>>
    /\ \/ testing' = testing \ {Head(driver.todo)} /\ UNCHANGED faults
       \/ Disturb("call") /\ UNCHANGED testing
    /\ Go([driver EXCEPT !.todo = Tail(@)])
    /\ UNCHANGED <<pr, queued, tip, mainline>> /\ Others

DeleteStaging ==
    /\ At("complete") /\ driver.todo = <<>>
    /\ \/ Cleanup /\ staging # NoBranch /\ DeleteBranch /\ UNCHANGED faults
       \/ (~Cleanup \/ staging = NoBranch) /\ UNCHANGED <<tip, advance, faults>>
       \/ Cleanup /\ Disturb("call") /\ UNCHANGED <<tip, advance>>
    /\ Go(Idle)
    /\ UNCHANGED <<pr, labels, main, absorbed>> /\ Others

-----------------------------------------------------------------------------
(* Everybody else. *)

\* Reads and ref writes that return an error give the tick up.
CallFails ==
    /\ driver.pc \in {"rebuild", "list", "reset", "fold", "advance", "merge"}
    /\ Disturb("call")
    /\ Go(Idle)
    /\ UNCHANGED <<pr, labels, tip, mainline>> /\ Others

Crash ==
    /\ Disturb("crash")
    /\ Go(Idle)
    /\ admitting' = {} /\ removing' = {}
    /\ UNCHANGED <<method, github, asks, moves, passed>>

StagingDeleted ==
    /\ staging # NoBranch
    /\ Disturb("delete")
    /\ DeleteBranch
    /\ UNCHANGED <<pr, labels, main, absorbed, driver>> /\ Others

PushHead(p) ==
    /\ pr[p] = "open" /\ head[p] < MaxHead
    /\ Move
    /\ head' = [head EXCEPT ![p] = @ + 1]
    /\ UNCHANGED <<pr, labels, tip, mainline, driver, admitting, removing, asks>> /\ Rest

\* A direct push to main, or another pull request merged there by hand.
PushMain ==
    /\ Move
    /\ \E c \in {<<0, moves + 1>>} \cup {<<p, head[p]>> : p \in {q \in PRs : pr[q] = "open"}} :
          MoveMain(Append(main, Plain({c})))
    /\ UNCHANGED <<head, labels, tip, absorbed, advance, driver, admitting, removing, asks>> /\ Rest

\* A person approves the advance pull request for the staging it shows.
ApproveAdvance ==
    /\ ReviewRequired /\ advance.open /\ advance.approved # staging
    /\ advance' = [advance EXCEPT !.approved = staging]
    /\ UNCHANGED <<pr, labels, tip, main, absorbed, driver, faults>> /\ Others

CiChanges(state) ==
    /\ staging # NoBranch
    /\ ci' = state
    /\ UNCHANGED <<method, pr, head, labels, staging, mainline, driver, admitting, removing,
                   asks, moves>>
CiStarts == ci = "none" /\ CiChanges("pending") /\ UNCHANGED <<faults, passed>>
CiEnds ==
    /\ ci = "pending"
    /\ \/ CiChanges("green") /\ passed' = passed \cup {Contents(staging)}
       \/ CiChanges("failed") /\ UNCHANGED passed
    /\ UNCHANGED faults
CiReruns ==
    /\ ci \in {"green", "failed"} /\ Disturb("rerun")
    /\ CiChanges("pending") /\ UNCHANGED passed

DriverStep ==
    \/ Tick \/ CheckMember \/ ReadCI \/ TimeOut \/ ExpireMember
    \/ Rebuild \/ Expel \/ Refold
    \/ ListQueued \/ ResetStaging \/ ReadMember \/ FoldMember \/ SwapQueued \/ MarkTesting
    \/ RefuseMember
    \/ Advance \/ MergeAdvance \/ CompleteMember \/ DeleteStaging

Next ==
    \/ DriverStep
    \/ \E p \in PRs : \/ Approve(p) \/ AddQueued(p) \/ Withdraw(p) \/ Close(p) \/ Dequeue(p)
                      \/ PushHead(p)
    \/ PushMain \/ ApproveAdvance \/ CiStarts \/ CiEnds \/ CiReruns
    \/ CallFails \/ Crash \/ StagingDeleted

Spec == Init /\ [][Next]_vars

\* The server pumps every 30 s; a handler that started runs on; the timeout of
\* a batch nobody tests expires; a check that started ends.
Fairness ==
    /\ WF_vars(DriverStep) /\ SF_vars(TimeOut)
    /\ WF_vars(CiEnds)
    /\ \A p \in PRs : WF_vars(AddQueued(p)) /\ WF_vars(Dequeue(p))
FairSpec == Spec /\ Fairness

-----------------------------------------------------------------------------
\* The driver, not a person, moves main.
Landing == driver.pc \in {"advance", "merge"} /\ driver' # driver /\ main' # main

\* pump_one only ever moves main to a combination of changes that CI reported
\* green as a whole.  The one exception is the advance PR: GitHub merges it
\* into a main that somebody else has moved since the batch was built.
AdvancesGreen ==
    [][Landing => \/ Contents(main') \in passed
                  \/ method = "pr" /\ ~(Contents(main) \subseteq Contents(staging))]_vars

\* Every marked commit an advance brings into main belongs to a member of the
\* batch the driver checked, at the very head its marker records: a pull
\* request pushed to, closed or withdrawn under test does not slip in.  (After
\* a disturbance one may: a merge commit GitHub words itself has no marker.)
LandsRecordedHeads ==
    [][Landing /\ faults = 0 =>
         LET tested == Last(driver.chain).at IN
         \A c \in ToSet(tested) :
            c.marked /\ ~(c.adds \subseteq Contents(main)) =>
                c.pr \in Members(driver.chain) /\ c.adds = {<<c.pr, c.was>>}]_vars

\* complete_batch thanks only pull requests whose change is in main, as long
\* as no call failed, nothing crashed and nobody deleted staging.
AnnouncedAreMerged ==
    At("complete") /\ faults = 0 => \A p \in ToSet(driver.todo) :
                         \E h \in 1..head[p] : <<p, h>> \in Contents(main)

\* Labels, branches and the tick in flight are well formed, and what the
\* tick announces has landed.
QueueInv == QueueTypeOK /\ AnnouncedAreMerged

\* A queued pull request does not wait for ever: the batches before it end, and
\* it is taken into one, dropped, closed, or withdrawn, whatever failed once.
QueuedResolves ==
    \A p \in PRs : p \in queued /\ pr[p] = "open" ~> p \notin queued \/ pr[p] # "open"

\* pump_one's comment: the batch whose staging branch was deleted is rebuilt from
\* scratch, re-folding every member.  So no member stays under test for ever.
BatchResolves ==
    \A p \in PRs : p \in testing /\ pr[p] = "open" ~> p \notin testing \/ pr[p] # "open"

\* README: a write+ user approving the advance PR approves the whole batch.
\* While staging is still what was approved, the approval is not thrown away.
ApprovalStands ==
    [][advance.approved # NoBranch /\ staging' = advance.approved /\ advance' # advance
         => main' # main]_vars

\* README: a restart mid-batch resumes exactly where it left off.  An open pull
\* request still labelled queued is not expelled from the queue.
RestartKeepsPlace ==
    [][\A p \in queued : At("expel") /\ pr[p] = "open" /\ p \notin removing => p \in queued']_vars
=============================================================================
