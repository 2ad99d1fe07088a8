--------------------------- MODULE TriggerEvents ---------------------------
(***************************************************************************)
(* Automatic actions on a pull request: trigger_state/events.rs and        *)
(* path_notifications.rs.  A webhook is processed until nothing of it is   *)
(* left to do: the report of the rule for new pull requests, and the       *)
(* labels and the mention comment of the path rule.  Each is frozen as a   *)
(* plan before anything is written and kept in rows of the trigger ledger, *)
(* whose transactions appear as functions of the rows.  One pull request,  *)
(* one rule in force or none; the labels of a rule exist.  Webhooks are    *)
(* processed one at a time (path_lock; only one of them has the report).   *)
(***************************************************************************)
EXTENDS Naturals, FiniteSetsExt

CONSTANTS
    Rules,     \* versions of the repository's rule
    Cc,        \* the logins each version mentions
    Limit,     \* max_cc_users_per_pr
    MaxHeads,  \* bound: heads of the pull request
    MaxMoves,  \* bound: pushes, edits of the rule, removals of labels
    MaxFaults  \* bound: failed calls, lost answers and webhooks, crashes

Off == "off"
Unset == "unset"

ASSUME EventsAssumption ==
    /\ Off \notin Rules /\ Unset \notin Rules
    /\ \A r \in Rules : IsFiniteSet(Cc[r])
    /\ Limit \in Nat /\ MaxHeads \in Nat \ {0} /\ MaxMoves \in Nat /\ MaxFaults \in Nat

Policies == Rules \cup {Off}
Heads == 1..MaxHeads
Users == UNION {Cc[r] : r \in Rules}

VARIABLES
    head, policy,  \* of the pull request, of the repository
    inbox,         \* webhooks by action and head
    subs,          \* per webhook, the frozen path subscription
    plans,         \* the frozen plans
    ops, slots,    \* the ledger: rows, and the row each mention is reserved by
    remote,        \* what GitHub shows
    pass,          \* the webhook in process
    first, vetoed, \* observers: the rule a webhook first met, plans found revoked
    moves, faults

ledger == <<subs, plans, ops, slots>>
vars == <<head, policy, inbox, ledger, remote, pass, first, vetoed, moves, faults>>

\* A pull request's first webhook and those of its pushes.
Events == {[action |-> IF h = 1 THEN "opened" ELSE "synchronize", head |-> h] : h \in Heads}

\* Rows.  The report and the labels are planned by one and written by another.
K(kind, action, h) == [kind |-> kind, action |-> action, head |-> h]
Report == K("opened", "opened", 1)
PathPlans == {K("path", "opened", h) : h \in Heads}
                 \cup {K("path", "synchronize", h) : h \in Heads \ {1}}
Plans == {Report} \cup PathPlans
ChildOf(p) == [p EXCEPT !.kind = IF p = Report THEN "report" ELSE "labels"]
CcOf(p) == K("cc", "any", p.head)
CcRows == {CcOf(p) : p \in PathPlans}
Keys == Plans \cup {ChildOf(p) : p \in Plans} \cup CcRows
Nobody == K("none", "any", 1)

\* deferred: pending with a time to come; claimed: running and not sent;
\* unsent: unknown and not sent.
States == {"absent", "pending", "deferred", "claimed", "running", "unsent", "unknown",
           "succeeded", "failed", "superseded"}
Final == {"succeeded", "failed", "superseded"}
Places == {"idle", "opened", "subscribe", "revoke", "snapshot", "each", "plan", "settle",
           "reconcile", "fence", "compute", "wire", "cc", "claim", "preflight", "send", "close"}
Free == [pc |-> "idle", event |-> CHOOSE e \in Events : e.head = 1, snap |-> 1, todo |-> {},
         loop |-> "new", needs |-> FALSE, plan |-> Report, fits |-> FALSE, revoked |-> FALSE,
         error |-> FALSE]

EventsTypeOK ==
    /\ head \in Heads /\ policy \in Policies
    /\ inbox \in [Events -> {"absent", "waiting", "done"}]
    /\ subs \in [Events -> Policies \cup {Unset}] /\ plans \in [Plans -> Policies \cup {Unset}]
    /\ ops \in [Keys -> States] /\ slots \in [Users -> CcRows \cup {Nobody}]
    /\ remote.labelled \in BOOLEAN /\ remote.computed \in Nat /\ remote.reports \in Nat
    /\ remote.comments \subseteq CcRows /\ remote.mentions \in [Users -> Nat]
    /\ pass.pc \in Places /\ pass.event \in Events /\ pass.snap \in Heads
    /\ pass.todo \subseteq PathPlans /\ pass.loop \in {"revoked", "saved", "new"}
    /\ pass.plan \in Plans /\ {pass.needs, pass.fits, pass.revoked, pass.error} \subseteq BOOLEAN
    /\ first \in [Plans \cup Events -> Policies \cup {Unset}] /\ vetoed \subseteq Plans
    /\ moves \in 0..MaxMoves /\ faults \in 0..MaxFaults

Init ==
    /\ head = 1 /\ policy \in Policies
    /\ inbox = [e \in Events |-> IF e.head = 1 THEN "waiting" ELSE "absent"]
    /\ subs = [e \in Events |-> Unset] /\ plans = [p \in Plans |-> Unset]
    /\ ops = [k \in Keys |-> "absent"] /\ slots = [u \in Users |-> Nobody]
    /\ remote = [labelled |-> FALSE, computed |-> 0, reports |-> 0,
                 comments |-> {}, mentions |-> [u \in Users |-> 0]]
    /\ pass = Free /\ first = [x \in Plans \cup Events |-> Unset] /\ vetoed = {}
    /\ moves = 0 /\ faults = 0

----------------------------------------------------------------------------
(* People.                                                                 *)

Move == moves < MaxMoves /\ moves' = moves + 1
Push ==
    /\ Move /\ head < MaxHeads /\ head' = head + 1
    /\ \/ inbox' = [inbox EXCEPT ![[action |-> "synchronize", head |-> head + 1]] = "waiting"]
          /\ UNCHANGED faults
       \/ faults < MaxFaults /\ faults' = faults + 1 /\ UNCHANGED inbox
    /\ UNCHANGED <<policy, ledger, remote, pass, first, vetoed>>
Edit ==
    /\ Move /\ policy' \in Policies \ {policy}
    /\ UNCHANGED <<head, inbox, ledger, remote, pass, first, vetoed, faults>>
Unlabel ==
    /\ Move /\ remote.labelled /\ remote' = [remote EXCEPT !.labelled = FALSE]
    /\ UNCHANGED <<head, policy, inbox, ledger, pass, first, vetoed, faults>>

----------------------------------------------------------------------------
(* The ledger's transactions, as functions of its rows.                    *)

Set(o, k, s) == [o EXCEPT ![k] = s]
Freed(k) == [u \in Users |-> IF slots[u] = k THEN Nobody ELSE slots[u]]
\* revoke_opened: a write that may have been sent stays unknown.
RevokePending(o, p) ==
    IF o[p] = "pending" THEN Set(o, p, "superseded") ELSE o
Revoke(o, p) ==
    LET own == IF o[p] \in {"pending", "unknown"} THEN Set(o, p, "superseded") ELSE o
    IN IF own[p] \in Final /\ own[ChildOf(p)] \in {"pending", "deferred"}
       THEN Set(own, ChildOf(p), "superseded") ELSE own
\* recover_running, recover_delivery.
RecoverUnsent == [k \in Keys |->
    IF ops[k] \in {"claimed", "running"} THEN IF k \in CcRows THEN "unsent" ELSE "unknown"
    ELSE ops[k]]
Recover == [k \in Keys |->
    IF ops[k] = "claimed" THEN "unsent" ELSE IF ops[k] = "running" THEN "unknown" ELSE ops[k]]

----------------------------------------------------------------------------
(* Which plans a webhook makes and meets.                                  *)

At(pc) == pass.pc = pc
World == <<head, policy>>
Well == UNCHANGED <<World, moves, faults>>
Fails == faults < MaxFaults /\ faults' = faults + 1 /\ UNCHANGED <<World, moves>>
Go(pc) == pass' = [pass EXCEPT !.pc = pc]
Err(pc) == pass' = [pass EXCEPT !.pc = pc, !.error = TRUE]
Execute(p, fits, loop) ==
    pass' = [pass EXCEPT !.pc = "settle", !.plan = p, !.fits = fits, !.loop = loop]

Begin(e) ==
    /\ At("idle") /\ inbox[e] = "waiting"
    /\ pass' = [Free EXCEPT !.pc = IF e.action = "opened" THEN "opened" ELSE "subscribe",
                            !.event = e]
    /\ Well /\ UNCHANGED <<inbox, ledger, remote, first, vetoed>>

\* process_opened: the first look decides, also that there is nothing to do.
OpenedPlan ==
    /\ At("opened") /\ UNCHANGED <<subs, ops, slots, inbox, remote, vetoed>>
    /\ \/ /\ Well
          /\ LET rule == IF plans[Report] = Unset THEN policy ELSE plans[Report] IN
             /\ plans' = [plans EXCEPT ![Report] = rule]
             /\ first' = [first EXCEPT ![Report] = IF @ = Unset THEN policy ELSE @]
             /\ IF rule = Off THEN Go("subscribe") ELSE Execute(Report, rule = policy, "new")
       \/ Fails /\ Err("subscribe") /\ UNCHANGED <<plans, first>>

\* path_subscription: later looks only take away.
Subscription(e) == IF subs[e] \in {Unset, policy} THEN policy ELSE Off
Saved == {p \in PathPlans : plans[p] \in Rules}
Subscribe ==
    /\ At("subscribe") /\ UNCHANGED <<plans, ops, slots, inbox, remote, vetoed>>
    /\ \/ /\ Well
          /\ LET e == pass.event
                 gone == {p \in Saved : plans[p] # policy}
             IN /\ subs' = [subs EXCEPT ![e] = Subscription(e)]
                /\ first' = [first EXCEPT ![e] = IF @ = Unset THEN policy ELSE @]
                /\ pass' = [pass EXCEPT !.pc = "revoke", !.todo = gone, !.needs =
                       Subscription(e) # Off \/ \E p \in Saved \ gone : p.action = e.action]
       \/ Fails /\ Err("close") /\ UNCHANGED <<subs, first>>

\* First the saved plans whose rule is gone.
NextRevoked ==
    /\ At("revoke") /\ Well /\ UNCHANGED <<inbox, ledger, remote, first, vetoed>>
    /\ IF pass.todo = {} THEN Go(IF pass.needs THEN "snapshot" ELSE "close")
       ELSE \E p \in pass.todo : pass' = [pass EXCEPT !.todo = @ \ {p}, !.pc = "settle",
                                              !.plan = p, !.fits = FALSE, !.loop = "revoked"]

\* Then all of them, against the pull request as it is; a plan of the other
\* kind of webhook that still fits is left to it.
Snapshot ==
    /\ At("snapshot") /\ UNCHANGED <<inbox, ledger, remote, first, vetoed>>
    /\ \/ Well /\ pass' = [pass EXCEPT !.pc = "each", !.snap = head, !.todo = Saved]
       \/ Fails /\ Err("close")
NextSaved ==
    /\ At("each") /\ UNCHANGED <<inbox, ledger, remote, first, vetoed>>
    /\ \/ pass.todo = {} /\ Well /\ Go("plan")
       \/ /\ Well
          /\ \E p \in pass.todo :
             LET fits == plans[p] = policy /\ p.head = pass.snap IN
             pass' = [pass EXCEPT !.todo = @ \ {p}, !.plan = p, !.fits = fits, !.loop = "saved",
                          !.pc = IF fits /\ p.action # pass.event.action THEN "each" ELSE "settle"]
       \/ pass.todo # {} /\ Fails /\ Err("close")

\* Last a new plan for the files of the newest head, frozen before it is used.
Freeze ==
    /\ At("plan") /\ UNCHANGED <<subs, ops, slots, inbox, remote, first, vetoed>>
    /\ \/ /\ Well
          /\ LET e == pass.event
                 p == K("path", e.action, head)
             IN IF policy # subs[e] \/ subs[e] = Off
                   \/ plans[K("path", e.action, pass.snap)] # Unset
                THEN Go("close") /\ UNCHANGED plans
                ELSE \E matched \in {Off, subs[e]} :
                     LET kept == IF plans[p] = Unset THEN matched ELSE plans[p] IN
                     /\ plans' = [plans EXCEPT ![p] = kept]
                     /\ IF kept = Off THEN Go("close") ELSE Execute(p, kept = policy, "new")
       \/ Fails /\ Err("close") /\ UNCHANGED plans
Done ==
    /\ At("close") /\ Well /\ UNCHANGED <<ledger, remote, first, vetoed>> /\ pass' = Free
    /\ inbox' = IF pass.error THEN inbox ELSE [inbox EXCEPT ![pass.event] = "done"]

----------------------------------------------------------------------------
(* The report, or the labels, of one plan.                                 *)

P == pass.plan
\* After its labels comes the plan's comment.
Ended(error) ==
    pass' = [pass EXCEPT !.error = @ \/ error, !.pc = IF P = Report THEN "subscribe" ELSE "cc"]
Start == Go(IF P = Report THEN "compute" ELSE "fence")
Pays == UNCHANGED <<subs, plans, inbox, first>>

\* What the rows say before anything new is started.
JudgeAgain(o, revoked) ==
    LET c == o[ChildOf(P)] IN
    IF c = "unknown" THEN ops' = o /\ Ended(TRUE)
    ELSE IF revoked \/ o[P] \in Final THEN ops' = o /\ Ended(FALSE)
    ELSE IF o[P] = "unknown" /\ c = "succeeded" THEN ops' = Set(o, P, "succeeded") /\ Ended(FALSE)
    ELSE ops' = Set(o, P, "pending") /\ Start
Judge(o, revoked) ==
    LET c == o[ChildOf(P)] IN
    IF c = "unknown" THEN ops' = o /\ Ended(TRUE)
    ELSE IF revoked \/ o[P] \in Final THEN ops' = o /\ Ended(FALSE)
    ELSE IF o[P] = "unknown" /\ c = "succeeded" THEN ops' = Set(o, P, "succeeded") /\ Ended(FALSE)
    ELSE IF o[P] = "unknown" /\ P = Report THEN ops' = o /\ Ended(TRUE)
    ELSE ops' = Set(o, P, "pending") /\ Start

\* execute, execute_path_labels: the veto is kept before the network is asked.
Settle ==
    /\ At("settle") /\ Well /\ Pays /\ UNCHANGED <<slots, remote>>
    /\ vetoed' = IF pass.fits THEN vetoed ELSE vetoed \cup {P}
    /\ LET revoked == ~pass.fits \/ ops[P] = "superseded"
           o == IF revoked THEN Revoke(ops, P) ELSE ops
       IN
       IF ops[P] = "absent"
       THEN IF pass.fits THEN Start /\ UNCHANGED ops
            ELSE ops' = Set(ops, P, "superseded") /\ Ended(FALSE)
       ELSE IF o[ChildOf(P)] = "unknown"
       THEN ops' = o /\ pass' = [pass EXCEPT !.pc = "reconcile", !.revoked = revoked]
       ELSE Judge(o, revoked)

\* reconcile: labels that are missing may be added again, later; a report that
\* is not found stays unknown.
Reconcile ==
    /\ At("reconcile") /\ Pays /\ UNCHANGED <<slots, remote, vetoed>>
    /\ \/ /\ Well
          /\ LET c == ChildOf(P)
                 found == IF P = Report THEN remote.reports > 0 ELSE remote.labelled
                 o == Set(ops, c, IF found THEN "succeeded"
                                  ELSE IF P = Report THEN "unknown" ELSE "deferred")
             IN Judge(IF pass.revoked THEN Revoke(o, P) ELSE o, pass.revoked)
       \/ Fails /\ Ended(TRUE) /\ UNCHANGED ops
\* The pull request is read and the row claimed before an engine starts.
Compute ==
    /\ At("compute") /\ Pays /\ UNCHANGED <<slots, vetoed>>
    /\ \/ /\ Well /\ Go("wire")
          /\ ops' = Set(ops, P, "running")
          /\ remote' = [remote EXCEPT !.computed = @ + 1]
       \/ Fails /\ Ended(FALSE) /\ ops' = Set(ops, P, "failed")
          /\ remote' = [remote EXCEPT !.computed = @ + 1]
       \/ Fails /\ Ended(TRUE) /\ UNCHANGED remote
          /\ ops' \in {ops, Set(ops, P, "pending")}

\* The head and the policy once more, then the row is claimed.
Fence ==
    /\ At("fence") /\ Pays /\ UNCHANGED <<slots, remote>>
    /\ \/ /\ Well
          /\ IF head # P.head \/ plans[P] # policy
             THEN /\ ops' = Revoke(Set(ops, P, "superseded"), P) /\ vetoed' = vetoed \cup {P}
                  /\ Ended(head # P.head)
             ELSE /\ UNCHANGED vetoed
                  /\ IF ops[ChildOf(P)] = "deferred"
                     THEN ops' = Set(ops, P, "unknown") /\ Ended(TRUE)
                     ELSE /\ ops' = Set(ops, P, "running")
                          /\ Go("wire")
       \/ Fails /\ Ended(TRUE) /\ UNCHANGED <<ops, vetoed>>

Both(s) == ops' = Set(Set(ops, P, s), ChildOf(P), s)
Written == IF P = Report THEN [remote EXCEPT !.reports = @ + 1]
                         ELSE [remote EXCEPT !.labelled = TRUE]
Wire ==
    /\ At("wire") /\ Pays /\ UNCHANGED <<slots, vetoed>>
    /\ \/ Well /\ remote' = Written /\ Both("succeeded") /\ Ended(FALSE)
       \/ Fails /\ remote' \in {remote, Written} /\ Both("unknown") /\ Ended(TRUE)
       \/ Fails /\ UNCHANGED remote /\ Both("failed") /\ Ended(FALSE)

----------------------------------------------------------------------------
(* The comment of a plan; the plans of one head share it.                  *)

C == CcOf(P)
EndCc(error) ==
    pass' = [pass EXCEPT !.error = @ \/ error,
        !.pc = CASE pass.loop = "revoked" -> "revoke" [] pass.loop = "saved" -> "each"
                 [] OTHER -> "close"]
Row(s) == ops' = Set(ops, C, s)
Fits == plans[P] = policy /\ P.head = head

\* notifications::execute: what the row says; a comment that is not found
\* stays unknown and keeps its mentions.
CcSettle ==
    /\ At("cc") /\ Pays /\ UNCHANGED <<remote, vetoed>>
    /\ \/ /\ Well
          /\ IF Cc[plans[P]] = {} \/ ops[C] \in Final THEN EndCc(FALSE) /\ UNCHANGED <<ops, slots>>
             ELSE IF ops[C] = "unsent" THEN Row("pending") /\ slots' = Freed(C) /\ Go("claim")
             ELSE IF ops[C] # "unknown" THEN Go("claim") /\ UNCHANGED <<ops, slots>>
             ELSE UNCHANGED slots /\ IF C \in remote.comments THEN Row("succeeded") /\ EndCc(FALSE)
                                     ELSE UNCHANGED ops /\ EndCc(TRUE)
       \/ ops[C] = "unknown" /\ Fails /\ EndCc(TRUE) /\ UNCHANGED <<ops, slots>>

\* The mentions are reserved with the claim, as far as the limit goes.
Fresh(u) == slots[u] = Nobody
Least(a, b) == IF a < b THEN a ELSE b
Claim ==
    /\ At("claim") /\ Pays /\ UNCHANGED <<remote, vetoed>>
    /\ \/ /\ Well
          /\ LET fresh == {u \in Cc[plans[P]] : Fresh(u)}
                 room == Limit - Cardinality({u \in Users : slots[u] # Nobody})
             IN
             IF ~pass.fits \/ plans[P] # policy
             THEN Row("superseded") /\ EndCc(FALSE) /\ UNCHANGED slots
             ELSE IF head # P.head THEN Row("superseded") /\ EndCc(TRUE) /\ UNCHANGED slots
             ELSE IF fresh = {} \/ room = 0
             THEN Row("succeeded") /\ EndCc(FALSE) /\ UNCHANGED slots
             ELSE /\ Row("claimed") /\ Go("preflight")
                  /\ \E take \in kSubset(Least(room, Cardinality(fresh)), fresh) :
                     slots' = [u \in Users |-> IF u \in take THEN C ELSE slots[u]]
       \/ Fails /\ EndCc(TRUE) /\ UNCHANGED <<ops, slots>>

\* Recipients, rules and pull request are read again; nothing was sent yet.
Preflight ==
    /\ At("preflight") /\ Pays /\ UNCHANGED <<remote, vetoed>>
    /\ \/ /\ Well
          /\ IF Fits
             THEN Row("running") /\ Go("send") /\ UNCHANGED slots
             ELSE Row("superseded") /\ slots' = Freed(C) /\ EndCc(TRUE)
       \/ Fails /\ Row("pending") /\ slots' = Freed(C) /\ EndCc(TRUE)
       \/ Fails /\ Row("failed") /\ slots' = Freed(C) /\ EndCc(FALSE)

Posted == [remote EXCEPT !.comments = @ \cup {C},
    !.mentions = [u \in Users |-> @[u] + (IF slots[u] = C THEN 1 ELSE 0)]]
Send ==
    /\ At("send") /\ Pays /\ UNCHANGED vetoed
    /\ \/ Well /\ remote' = Posted /\ Row("succeeded") /\ EndCc(FALSE) /\ UNCHANGED slots
       \/ Fails /\ remote' \in {remote, Posted} /\ Row("unknown") /\ EndCc(TRUE) /\ UNCHANGED slots
       \/ Fails /\ UNCHANGED remote /\ Row("failed") /\ EndCc(TRUE) /\ slots' = Freed(C)

----------------------------------------------------------------------------

\* The process stops, perhaps with a request under way: what it had claimed is
\* recovered.
Crash ==
    /\ ~At("idle") /\ Fails /\ pass' = Free
    /\ UNCHANGED <<inbox, subs, plans, slots, first, vetoed>>
    /\ \/ ops' = Recover /\ UNCHANGED remote
       \/ At("wire") /\ remote' \in {remote, Written} /\ ops' = Set(Recover, ChildOf(P), "unknown")
       \/ At("send") /\ ops' = Recover /\ remote' = Posted

\* The time of a labels' retry comes.
Due(k) ==
    /\ ops[k] = "deferred" /\ ops' = Set(ops, k, "pending")
    /\ Well /\ UNCHANGED <<inbox, subs, plans, slots, remote, pass, first, vetoed>>

Work ==
    \/ OpenedPlan \/ Subscribe \/ NextRevoked \/ Snapshot \/ NextSaved \/ Freeze \/ Done
    \/ Settle \/ Reconcile \/ Compute \/ Fence \/ Wire
    \/ CcSettle \/ Claim \/ Preflight \/ Send
Next ==
    \/ Push \/ Edit \/ Unlabel \/ Crash \/ Work
    \/ (\E e \in Events : Begin(e)) \/ (\E k \in Keys : Due(k))

Spec == Init /\ [][Next]_vars

----------------------------------------------------------------------------
(* Properties.                                                             *)

\* Whatever is lost or interrupted, nobody is mentioned twice on a pull
\* request and no more people than the limit (claim_notification, finish,
\* recover_running), and each mention is still reserved by its row.
RecipientsOnce ==
    /\ \A u \in Users : remote.mentions[u] <= 1 /\ (remote.mentions[u] > 0 => slots[u] # Nobody)
    /\ Cardinality({u \in Users : slots[u] # Nobody}) <= Limit

\* Rows, plans and the webhook in process are well formed, and mentions are
\* accounted for.
EventsInv == EventsTypeOK /\ RecipientsOnce

\* A report is computed once and posted at most once, also when its rule goes
\* and comes back (execute).
ReportedOnce == remote.computed <= 1 /\ remote.reports <= 1

\* Nothing is written for a rule that came after the webhook was first looked
\* at, nor for a plan that was once found revoked, though its rule be restored
\* (opened_plan, path_subscription, revoke_opened).
WritesAuthorized == [][At("wire") /\ remote' # remote =>
    /\ P \notin vetoed
    /\ IF P = Report THEN plans[P] = first[P]
       ELSE \E e \in Events : e.action = P.action /\ plans[P] = first[e]]_vars
=============================================================================
