--------------------------- MODULE IdleWorkflows ---------------------------
(***************************************************************************)
(* The idle-time workflow scheduler of src/idle_workflows/: when a         *)
(* repository has been quiet, it dispatches or re-runs a workflow for the  *)
(* latest commit of a branch, a limited number of times.  One pass at a    *)
(* time reconciles; what it is about to request is stored before it is     *)
(* sent, because the answer, the pass or the server may be lost.  One      *)
(* repository, one workflow and one branch; commits are numbered.  Clocks  *)
(* are flags: a period has passed or not, judged when a pass starts.       *)
(***************************************************************************)
EXTENDS Naturals, SequencesExt, FiniteSetsExt

CONSTANTS
    max_retries, \* of the task
    MaxHeads,    \* bound: commits
    MaxRuns,     \* bound: runs on GitHub
    MaxMoves,    \* bound: pushes, runs started, stopped or deleted by people
    MaxFaults    \* bound: failed calls, lost answers, aborted passes, crashes

ASSUME IdleAssumption ==
    /\ max_retries \in Nat /\ MaxHeads \in Nat \ {0}
    /\ MaxRuns \in Nat \ {0} /\ MaxMoves \in Nat /\ MaxFaults \in Nat

Shas == 1..MaxHeads
Ids == 1..MaxRuns

VARIABLES
    head,     \* the branch on GitHub
    pushed,   \* commits there are
    runs,     \* runs of the workflow, least recently updated first
    used,     \* run numbers given out
    builds,   \* per commit: what is known of its runs
    pending,  \* the stored request
    seen,     \* the branch in the last stored snapshot
    quiet,    \* the idle period has passed since the last stored activity
    recent,   \* commits whose retry interval has not passed
    grace,    \* the confirmation grace of the pending request has passed
    pass,     \* the reconciling pass
    made,     \* observer: attempts the scheduler started, per commit
    unseen,   \* observer: commits a run of which was deleted before it was counted
    hidden,   \* observer: commits a run of which was deleted while GitHub did not list another
    returned, \* observer: commits the branch went back to while another was being requested
    up, moves, faults

github == <<head, pushed, runs, used, made, unseen, hidden, returned>>
stored == <<builds, pending, seen>>
clocks == <<quiet, recent, grace>>
vars == <<github, stored, clocks, pass, up, moves, faults>>

Ends == {"success", "failure", "cancelled", "attention"}
Run == [id : Ids, sha : Shas, tries : Nat, state : Ends \cup {"active"},
        by : {"bot", "people", "cron"}, listed : BOOLEAN]
Pending == [run : Ids \cup {0}, tries : Nat, known : SUBSET Ids, since : 0..MaxRuns]
None == [run |-> 0, tries |-> 0, known |-> {0}, since |-> 0]
Unbuilt == [terminal |-> "none", attempts |-> 0, run |-> 0]
Pass == [pc : {"idle", "pending", "read", "gate", "fresh", "send", "answer", "refused"}, sha : Shas,
         before : SUBSET Run, target : Ids \cup {0}, since : 0..MaxRuns, settled : SUBSET Ids]
Free == [pc |-> "idle", sha |-> 1, before |-> {}, target |-> 0, since |-> 0, settled |-> {}]

IdleTypeOK ==
    /\ head \in Shas /\ pushed \in Shas /\ head <= pushed /\ runs \in Seq(Run) /\ used \in 0..MaxRuns
    /\ \A r, q \in DOMAIN runs : runs[r].id = runs[q].id => r = q
    /\ builds \in [Shas -> [terminal : {"none", "success", "cancelled"},
                            attempts : Nat, run : Ids \cup {0}]]
    /\ pending \in Pending \cup {None}
    /\ seen \in Shas \cup {0} /\ quiet \in BOOLEAN /\ grace \in BOOLEAN /\ recent \subseteq Shas
    /\ pass \in Pass /\ (pass.pc \in {"send", "answer", "refused"} => pending # None)
    /\ made \in [Shas -> Nat] /\ unseen \subseteq Shas /\ hidden \subseteq Shas
    /\ returned \subseteq Shas
    /\ up \in BOOLEAN /\ moves \in 0..MaxMoves /\ faults \in 0..MaxFaults

Init ==
    /\ pushed \in Shas /\ head = pushed
    /\ \/ runs = <<>> /\ used = 0
       \/ /\ used = 1
          /\ \E end \in {"failure", "cancelled"}, by \in {"people", "cron"} :
               runs = <<[id |-> 1, sha |-> 1, tries |-> 1, state |-> end, by |-> by, listed |-> TRUE]>>
    /\ builds = [s \in Shas |-> Unbuilt] /\ pending = None /\ seen = 0
    /\ quiet = FALSE /\ recent = {} /\ grace = FALSE
    /\ pass = Free /\ made = [s \in Shas |-> 0]
    /\ unseen = {} /\ hidden = {} /\ returned = {}
    /\ up = TRUE /\ moves = 0 /\ faults = 0

----------------------------------------------------------------------------
(* GitHub and people.                                                      *)

\* An updated run becomes the last.
Put(r, run) == Append(RemoveAt(runs, r), run)
Move == moves < MaxMoves /\ moves' = moves + 1 /\ UNCHANGED <<up, faults>>

\* A push; its webhook may never arrive (observe_webhook).
Push ==
    /\ Move /\ pushed < MaxHeads /\ pushed' = pushed + 1 /\ head' = pushed'
    /\ quiet' \in {quiet, FALSE}
    /\ UNCHANGED <<runs, used, made, unseen, hidden, returned, stored, recent, grace, pass>>

\* A forced push of a commit there is.
Rewind(s) ==
    /\ Move /\ s \in 1..pushed /\ s # head /\ head' = s
    /\ quiet' \in {quiet, FALSE}
    /\ returned' = IF pass.pc \in {"fresh", "send"} /\ s # pass.sha THEN returned \cup {s}
                   ELSE returned
    /\ UNCHANGED <<pushed, runs, used, made, unseen, hidden, stored, recent, grace, pass>>

StartRun(by) ==
    /\ Move /\ used < MaxRuns /\ used' = used + 1
    /\ runs' = Append(runs, [id |-> used + 1, sha |-> head, tries |-> 1, state |-> "active",
                             by |-> by, listed |-> TRUE])
    /\ UNCHANGED <<head, pushed, made, unseen, hidden, returned, stored, clocks, pass>>

Cancel(r) ==
    /\ Move /\ runs[r].state = "active"
    /\ runs' = Put(r, [runs[r] EXCEPT !.state = "cancelled", !.listed = TRUE])
    /\ recent' = recent \cup {runs[r].sha}
    /\ UNCHANGED <<head, pushed, used, made, unseen, hidden, returned, stored, quiet, grace, pass>>

Delete(r) ==
    /\ Move /\ runs[r].state # "active"
    /\ runs' = RemoveAt(runs, r)
    /\ unseen' = IF runs[r].tries > builds[runs[r].sha].attempts
                 THEN unseen \cup {runs[r].sha} ELSE unseen
    /\ hidden' = IF \E q \in ToSet(runs) : q.sha = runs[r].sha /\ ~q.listed
                 THEN hidden \cup {runs[r].sha} ELSE hidden
    /\ UNCHANGED <<head, pushed, used, made, returned, stored, clocks, pass>>

Appear(r) ==
    /\ ~runs[r].listed /\ runs' = [runs EXCEPT ![r].listed = TRUE]
    /\ UNCHANGED <<head, pushed, used, made, unseen, hidden, returned, stored, clocks, pass, up, moves,
                   faults>>

Complete(r) ==
    /\ runs[r].state = "active"
    /\ \E end \in Ends \ {"cancelled"} : runs' = Put(r, [runs[r] EXCEPT !.state = end, !.listed = TRUE])
    /\ recent' = recent \cup {runs[r].sha}
    /\ UNCHANGED <<head, pushed, used, made, unseen, hidden, returned, stored, quiet, grace, pass, up,
                   moves, faults>>

\* Time passes between two passes; GitHub lists a run within the grace.
Elapse == pass = Free /\ UNCHANGED <<github, stored, pass, up, moves, faults>>
IdlePasses == Elapse /\ ~quiet /\ quiet' = TRUE /\ UNCHANGED <<recent, grace>>
RetryPasses == Elapse /\ recent # {} /\ recent' = {} /\ UNCHANGED <<quiet, grace>>
GracePasses ==
    /\ Elapse /\ pending # None /\ ~grace /\ grace' = TRUE /\ UNCHANGED <<quiet, recent>>
    /\ \A r \in DOMAIN runs : runs[r].listed

----------------------------------------------------------------------------
(* A pass.                                                                 *)

At(pc) == up /\ pass.pc = pc
Well == UNCHANGED <<up, moves, faults>>
Fails == faults < MaxFaults /\ faults' = faults + 1 /\ UNCHANGED <<up, moves>>
Go(pc) == pass' = [pass EXCEPT !.pc = pc]
End == pass' = Free
\* An error counts as activity.
Fail == Fails /\ End /\ quiet' = FALSE /\ UNCHANGED <<recent, grace>>
Activity(sha) == quiet' = (quiet /\ sha = seen) /\ UNCHANGED <<recent, grace>>

Find(id) == {r \in ToSet(runs) : r.id = id}
Listed(sha) == {r \in ToSet(runs) :
    r.sha = sha /\ (r.listed \/ r.id = builds[sha].run)}
Equivalent(r) == r.by # "cron"
Decided(r) == r.listed /\ r.state \in {"cancelled"} \cup (IF Equivalent(r) THEN {"success"} ELSE {})

\* load_rules and the snapshot of the monitored repository.
Start ==
    /\ At("idle") /\ UNCHANGED <<github, builds, pending>>
    /\ \/ /\ Well /\ seen' = head /\ Activity(head)
          /\ pass' = [Free EXCEPT !.pc = "pending", !.since = used,
                         !.settled = {r.id : r \in {q \in ToSet(runs) : Decided(q)}}]
       \/ Fail /\ UNCHANGED seen

\* What recording some runs, run last of them, leaves of what is known.
RecordIgnoringEnd(b, noted, run) ==
    [b EXCEPT !.run = run, !.attempts = Max({@} \cup {r.tries : r \in noted})]
Record(b, noted, run) == [b EXCEPT
    !.run = run, !.attempts = Max({@} \cup {r.tries : r \in noted}),
    !.terminal = IF @ = "success" \/ \E r \in noted : r.state = "success" THEN "success"
                 ELSE IF \E r \in noted : r.state = "cancelled" THEN "cancelled" ELSE @]

\* reconcile_pending: the run it asked for by number, or the newest unknown run
\* the bot dispatched.
Asked == IF pending.run # 0 THEN Find(pending.run)
         ELSE LET mine == {r \in ToSet(runs) : 
                   r.by = "bot" /\ r.listed /\ r.id > pending.since /\ r.id \notin pending.known}
              IN {r \in mine : \A q \in mine : q.id <= r.id}
Confirmed(r) == pending.tries = 0 \/ r.tries > pending.tries \/ r.state = "cancelled"
ReconcileAtOnce ==
    /\ At("pending") /\ UNCHANGED <<github, seen, clocks>> /\ Well
    /\ pending' = None /\ Go("read")
    /\ builds' = IF pending # None /\ \E r \in Asked : Confirmed(r)
                 THEN LET r == CHOOSE r \in Asked : TRUE
                      IN [builds EXCEPT ![r.sha] = Record(@, {r}, r.id)]
                 ELSE builds
ReconcileWaiting ==
    /\ At("pending") /\ UNCHANGED <<github, seen, clocks>> /\ Well
    /\ IF pending = None THEN Go("read") /\ UNCHANGED <<builds, pending>>
       ELSE IF \E r \in Asked : Confirmed(r)
       THEN /\ \E r \in Asked : builds' = [builds EXCEPT ![r.sha] = Record(@, {r}, r.id)]
            /\ pending' = None /\ Go("read")
       ELSE End /\ UNCHANGED <<builds, pending>>
Reconcile ==
    /\ At("pending") /\ UNCHANGED <<github, seen>>
    /\ \/ /\ Well /\ UNCHANGED clocks
          /\ IF pending = None THEN Go("read") /\ UNCHANGED <<builds, pending>>
             ELSE IF \E r \in Asked : Confirmed(r)
             THEN /\ \E r \in Asked : builds' = [builds EXCEPT ![r.sha] = Record(@, {r}, r.id)]
                  /\ pending' = None /\ Go("read")
             ELSE /\ IF grace THEN pending' = None /\ Go("read") ELSE UNCHANGED pending /\ End
                  /\ UNCHANGED builds
       \/ Fail /\ UNCHANGED <<builds, pending>>

\* The equivalent runs of a commit, the one updated last, and their attempts.
Matching(sha) == {r \in Listed(sha) : Equivalent(r)}
Latest(sha) == LET i == Max({i \in DOMAIN runs : runs[i] \in Matching(sha)}) IN runs[i]
Attempts(sha) == UNION {{r.id} \X (1..r.tries) : r \in Matching(sha)}
\* Cancelled runs of any kind are recorded, then the equivalent ones; people's
\* attempts count too.
Known(sha) ==
    LET mine == Matching(sha)
        noted == mine \cup {r \in Listed(sha) : r.state = "cancelled"}
        run == IF mine # {} THEN Latest(sha).id ELSE Max({r.id : r \in noted})
        b == IF noted = {} THEN builds[sha] ELSE Record(builds[sha], noted, run)
    IN [b EXCEPT !.attempts = Max({@, Cardinality(Attempts(sha))})]

\* reconcile_task up to the retry interval.
Read ==
    /\ At("read") /\ UNCHANGED <<github, pending>>
    /\ \/ /\ Well /\ Activity(head) /\ seen' = head
          /\ LET sha == head
                 known == Known(sha)
                 mine == Matching(sha)
                 stop == \/ known.terminal # "none"
                         \/ \E r \in Listed(sha) : r.state = "active"
                         \/ mine # {} /\ Latest(sha).state # "failure"
                         \/ known.attempts > max_retries
                         \/ sha \in recent
             IN
             /\ builds' = IF builds[sha].terminal = "success" THEN builds
                          ELSE [builds EXCEPT ![sha] = known]
             /\ IF stop THEN End
                ELSE pass' = [pass EXCEPT !.pc = "gate", !.sha = sha, !.before = Listed(sha),
                                 !.target = IF mine = {} THEN 0 ELSE Latest(sha).id]
       \/ Fail /\ UNCHANGED <<builds, seen>>

\* The idle period, running checks of the workflows the monitors select, and
\* whether the branch moved meanwhile.
Gate ==
    /\ At("gate") /\ UNCHANGED <<github, stored>>
    /\ \/ /\ Well
          /\ \E selected \in BOOLEAN :
             LET busy == selected /\ \E r \in ToSet(runs) : r.state = "active" /\ r.listed IN
             IF ~quiet \/ busy THEN End /\ UNCHANGED clocks
             ELSE IF head # pass.sha THEN End /\ quiet' = FALSE /\ UNCHANGED <<recent, grace>>
             ELSE Go("fresh") /\ UNCHANGED clocks
       \/ Fail

\* Nothing changed since: the request is stored.
Reserve ==
    /\ At("fresh") /\ UNCHANGED <<github, seen>>
    /\ \/ /\ Well /\ UNCHANGED quiet
          /\ IF Listed(pass.sha) # pass.before \/ ~quiet
             THEN End /\ UNCHANGED <<builds, pending, recent, grace>>
             ELSE /\ pending' = [run |-> pass.target,
                        tries |-> IF pass.target = 0 THEN 0 ELSE (CHOOSE r \in pass.before : r.id = pass.target).tries,
                        known |-> ({builds[s].run : s \in Shas} \ {0})
                                  \cup {r.id : r \in {q \in pass.before : Equivalent(q)}},
                        since |-> pass.since]
                  /\ builds' = [builds EXCEPT ![pass.sha].attempts = @ + 1]
                  /\ recent' = recent \cup {pass.sha} /\ grace' = FALSE /\ Go("send")
       \/ Fail /\ UNCHANGED <<builds, pending>>

\* A dispatch runs the branch as it is when GitHub takes it; a run that is
\* active or gone is not run again.
Sent(id) ==
    \/ Well /\ UNCHANGED clocks /\ pass' = [pass EXCEPT !.pc = "answer", !.target = id]
    \/ Fail
Lands ==
    IF pass.target = 0
    THEN /\ used < MaxRuns /\ used' = used + 1
         /\ \E listed \in BOOLEAN : runs' = Append(runs, [id |-> used + 1, sha |-> head,
                tries |-> 1, state |-> "active", by |-> "bot", listed |-> listed])
         /\ made' = [made EXCEPT ![head] = @ + 1] /\ Sent(used + 1)
    ELSE \E r \in DOMAIN runs :
         /\ runs[r].id = pass.target /\ runs[r].state # "active"
         /\ runs' = Put(r, [runs[r] EXCEPT !.tries = @ + 1, !.state = "active"])
         /\ made' = [made EXCEPT ![runs[r].sha] = @ + 1] /\ UNCHANGED used
         /\ Sent(pass.target)
Send ==
    /\ At("send") /\ UNCHANGED <<head, pushed, unseen, hidden, returned, stored>>
    /\ \/ Lands
       \/ UNCHANGED <<runs, used, made>> /\ Fail
       \/ UNCHANGED <<runs, used, made>> /\ Fails /\ UNCHANGED clocks /\ Go("refused")
       \/ /\ pass.target # 0 /\ ~\E r \in Find(pass.target) : r.state # "active"
          /\ UNCHANGED <<runs, used, made>> /\ Well /\ UNCHANGED clocks /\ Go("refused")

\* The answer may name the dispatched run; a refusal gives the attempt back.
Answer ==
    /\ At("answer") /\ UNCHANGED <<github, builds, seen, clocks>> /\ Well /\ End
    /\ pending' \in {[pending EXCEPT !.run = id] : id \in
                        IF pending.run = 0 THEN {0, pass.target} ELSE {pass.target}}
Refused ==
    /\ At("refused") /\ UNCHANGED <<github, seen, recent, grace>> /\ Well /\ End
    /\ pending' = None /\ builds' = [builds EXCEPT ![pass.sha].attempts = @ - 1]
    /\ quiet' = FALSE

Steps == Start \/ Reconcile \/ Read \/ Gate \/ Reserve \/ Send \/ Answer \/ Refused

\* The deadline of a pass, a crash, and the restart.
Abort ==
    /\ up /\ pass.pc \in {"pending", "read", "gate", "fresh", "send"} /\ Fails /\ End
    /\ UNCHANGED <<github, stored, clocks>>
Crash ==
    /\ up /\ faults < MaxFaults /\ faults' = faults + 1 /\ up' = FALSE /\ End
    /\ UNCHANGED <<github, stored, clocks, moves>>
Boot ==
    /\ ~up /\ up' = TRUE /\ quiet' = FALSE
    /\ UNCHANGED <<github, stored, recent, grace, pass, moves, faults>>

Next ==
    \/ Push \/ (\E s \in Shas : Rewind(s)) \/ (\E by \in {"people", "cron"} : StartRun(by))
    \/ IdlePasses \/ RetryPasses \/ GracePasses
    \/ \E r \in DOMAIN runs : Cancel(r) \/ Delete(r) \/ Appear(r) \/ Complete(r)
    \/ Steps \/ Abort \/ Crash \/ Boot

Spec == Init /\ [][Next]_vars

\* The timer keeps starting passes, time passes between them, runs end.
FairSpec ==
    /\ Spec
    /\ WF_vars(Steps) /\ WF_vars(Boot)
    /\ SF_vars(IdlePasses) /\ SF_vars(RetryPasses) /\ SF_vars(GracePasses)
    /\ WF_vars(\E r \in DOMAIN runs : Complete(r)) /\ WF_vars(\E r \in DOMAIN runs : Appear(r))

----------------------------------------------------------------------------
(* Properties.                                                             *)

\* A commit gets at most one attempt and the allowed retries from the
\* scheduler, whatever is lost or restarted (builds.attempts, Pending), unless
\* people delete a run of it before the scheduler has seen it, or force the branch
\* back to it while another commit is being requested: a dispatch names a branch.
AttemptsBounded == \A s \in Shas \ (unseen \cup returned) : made[s] <= max_retries + 1

\* The scheduler never has two runs of one commit going: a request whose
\* answer was lost is searched for before another is made; unless people delete
\* a run of that commit while GitHub does not list the scheduler's, or force the
\* branch back to it while another commit is being requested.
OneAtATime == \A r, q \in ToSet(runs) :
    r.by = "bot" /\ q.by = "bot" /\ r.sha = q.sha /\ r.state = "active" /\ q.state = "active" =>
        r.id = q.id \/ r.sha \in hidden \cup returned

\* Stored state and runs are well formed, and the scheduler's runs are few and
\* one at a time.
IdleInv == IdleTypeOK /\ AttemptsBounded /\ OneAtATime

\* A commit that was built or cancelled is not started: not when an earlier
\* pass saw it, though the run be deleted since, nor when this pass could; only
\* a branch forced back to it while another commit is being requested starts it.
DecisionsKept == [][\A s \in Shas :
    made'[s] # made[s] /\ ~(s \in returned /\ s # pass.sha) =>
        /\ builds[s].terminal = "none"
        /\ ~\E r \in ToSet(runs) : r.sha = s /\ r.id \in pass.settled /\ Decided(r)]_vars

\* When people stop, the latest commit is built or a stated reason keeps the
\* scheduler from it for good.
Settled(s) ==
    \/ builds[s].terminal # "none" \/ builds[s].attempts > max_retries
    \/ Matching(s) # {} /\ Latest(s).state = "attention"
    \/ used = MaxRuns
LatestBuilt == <>[]Settled(head)
=============================================================================
