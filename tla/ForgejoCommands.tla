-------------------------- MODULE ForgejoCommands --------------------------
(***************************************************************************)
(* Comment commands on Forgejo: the durable inbox of src/forgejo/inbox.rs  *)
(* and the handlers of src/forgejo/commands.rs.  Comments are stored when  *)
(* their webhook arrives and one consumer carries them out.  A write that  *)
(* may have happened is never sent again: its comment, and with it the     *)
(* issue, waits for the operator.  A comment holds one command here.       *)
(***************************************************************************)
EXTENDS Naturals, SequencesExt, FiniteSetsExt

CONSTANTS
    Jobs,         \* comments: [issue, at, user, says, explicit]
    MentionOnce,  \* commands that need an explicit mention once
    AlwaysMention, \* commands that need one every time
    Writers,      \* users with write access
    Author,       \* the author of the pull requests
    MaxAttempts,  \* MAX_ATTEMPTS of the inbox
    MaxFaults     \* bound: failed calls, lost answers, crashes

Status == {"ready", "author", "blocked"}
Commands == Status \cup {"claim", "unclaim", "r+", "r-", "ping"}

\* at stands for the pair of source time and comment number.
ASSUME CommandsAssumption ==
    /\ IsFiniteSet(Jobs)
    /\ \A c \in Jobs : c.at \in Nat \ {0} /\ c.says \in Commands /\ c.explicit \in BOOLEAN
    /\ \A c, d \in Jobs : c.issue = d.issue /\ c.at = d.at => c = d
    /\ MentionOnce \subseteq Commands /\ AlwaysMention \subseteq Commands \ MentionOnce
    /\ MaxAttempts \in Nat \ {0} /\ MaxFaults \in Nat

Issues == {c.issue : c \in Jobs}
Users == {c.user : c \in Jobs}

VARIABLES
    inbox,     \* the comments table
    statuses,  \* per issue, the newest status command carried out
    sessions,  \* comments recorded as wakes
    labels, assignees, approvals, \* the issues on Forgejo
    posts,     \* observer: what each comment made appear
    worker,    \* the consumer
    up, faults

rows == <<inbox, statuses, sessions>>
remote == <<labels, assignees, approvals, posts>>
commandsVars == <<rows, remote, worker, up, faults>>

Row == [state : {"absent", "pending", "running", "unknown", "failed", "succeeded"},
        due : BOOLEAN, attempts : Nat, wrote : BOOLEAN, failed : BOOLEAN, uncertain : BOOLEAN]
Fresh == [state |-> "absent", due |-> TRUE, attempts |-> 0, wrote |-> FALSE,
          failed |-> FALSE, uncertain |-> FALSE]

\* Requests to Forgejo that change something.
Writes ==
    [op : {"add", "drop"}, label : Status] \cup [op : {"assign"}, users : SUBSET Users]
        \cup [op : {"dismiss"}, review : Jobs] \cup [op : {"approve", "reply"}]
Idle == [pc |-> "idle", job |-> {}, todo |-> <<>>, landed |-> FALSE, error |-> FALSE]

Nothing == [review |-> 0, reply |-> 0, changes |-> FALSE]

CommandsTypeOK ==
    /\ inbox \in [Jobs -> Row]
    /\ statuses \in [Issues -> Nat] /\ sessions \subseteq Jobs
    /\ labels \in [Issues -> SUBSET Status] /\ assignees \in [Issues -> SUBSET Users]
    /\ approvals \in [Issues -> SUBSET Jobs]
    /\ posts \in [Jobs -> [review : Nat, reply : Nat, changes : BOOLEAN]]
    /\ worker.pc \in {"idle", "gate", "act", "send", "answer", "finish"}
    /\ IF worker.pc = "idle" THEN worker = Idle
       ELSE worker.job \in Jobs /\ inbox[worker.job].state = "running"
    /\ worker.todo \in Seq(Writes) /\ worker.landed \in BOOLEAN /\ worker.error \in BOOLEAN
    /\ up \in BOOLEAN /\ faults \in 0..MaxFaults

CommandsInit ==
    /\ inbox = [c \in Jobs |-> Fresh]
    /\ statuses = [i \in Issues |-> 0] /\ sessions = {}
    /\ labels = [i \in Issues |-> {}] /\ assignees = [i \in Issues |-> {}]
    /\ approvals = [i \in Issues |-> {}]
    /\ posts = [c \in Jobs |-> Nothing]
    /\ worker = Idle /\ up = TRUE /\ faults = 0

----------------------------------------------------------------------------
(* The inbox.                                                              *)

SetState(c, s) == inbox' = [inbox EXCEPT ![c].state = s]

\* A redelivered comment is found in the table and changes nothing.
Enqueue(c) ==
    /\ up /\ inbox[c].state = "absent" /\ SetState(c, "pending")
    /\ UNCHANGED <<statuses, sessions, remote, worker, up, faults>>

Due(c) ==
    /\ inbox[c].state = "pending" /\ ~inbox[c].due
    /\ inbox' = [inbox EXCEPT ![c].due = TRUE]
    /\ UNCHANGED <<statuses, sessions, remote, worker, up, faults>>

\* The oldest due comment of an issue where nothing is unknown.
EligibleThough == {c \in Jobs : inbox[c].state = "pending" /\ inbox[c].due}
Eligible == {c \in Jobs :
    /\ inbox[c].state = "pending" /\ inbox[c].due
    /\ \A d \in Jobs : d.issue = c.issue => inbox[d].state \notin {"unknown", "running"}}
Claim ==
    /\ up /\ worker = Idle
    /\ \E c \in Eligible :
          /\ \A d \in Eligible : c.at <= d.at
          /\ inbox' = [inbox EXCEPT ![c].state = "running", ![c].attempts = @ + 1]
          /\ worker' = [Idle EXCEPT !.pc = "gate", !.job = c]
    /\ UNCHANGED <<statuses, sessions, remote, up, faults>>

\* finish: only a comment that wrote nothing is tried again.
Finish(c, error) == inbox' = [inbox EXCEPT ![c].due = FALSE, ![c].state =
    IF inbox[c].uncertain THEN "unknown"
    ELSE IF error /\ ~inbox[c].wrote /\ inbox[c].attempts < MaxAttempts THEN "pending"
    ELSE IF error \/ inbox[c].failed THEN "failed" ELSE "succeeded"]

----------------------------------------------------------------------------
(* The handler of the claimed comment.                                     *)

Job == worker.job
At(pc) == up /\ worker.pc = pc
Fails == faults < MaxFaults /\ faults' = faults + 1 /\ UNCHANGED up
Well == UNCHANGED <<up, faults>>
Reply == [op |-> "reply"]
Send(todo) == worker' = [worker EXCEPT !.pc = "send", !.todo = todo]
Done(error) == Finish(Job, error) /\ worker' = Idle

\* session_before_at: an earlier wake of the same user on the issue.
SessionOpen(c) == \E w \in sessions : w.issue = c.issue /\ w.user = c.user /\ w.at < c.at
Authorized(c) ==
    CASE c.says = "r-" -> c.user \in Writers
      [] c.says = "r+" -> c.user \in Writers /\ c.user # Author
      [] OTHER -> TRUE

\* Identity, policy, gate and authorization.  A wake may have expired.  An
\* unreadable policy is answered and fails the comment, an unreadable permission
\* is answered as a refusal; other failed reads are tried again.
Gate ==
    /\ At("gate") /\ UNCHANGED <<statuses, remote>>
    /\ \E expired \in BOOLEAN :
       LET waits == Job.says \in MentionOnce /\ ~Job.explicit /\ (expired \/ ~SessionOpen(Job))
           barred == waits \/ (Job.says \in AlwaysMention /\ ~Job.explicit)
           refused == barred \/ ~Authorized(Job)
           wakes == ~refused /\ Job.explicit /\ Job.says \notin AlwaysMention
       IN
       \/ /\ Well
          /\ sessions' = IF wakes THEN sessions \cup {Job} ELSE sessions
          /\ IF waits /\ inbox[Job].attempts < MaxAttempts THEN Done(TRUE)
             ELSE /\ UNCHANGED inbox
                  /\ IF refused THEN Send(<<Reply>>) ELSE worker' = [worker EXCEPT !.pc = "act"]
       \/ Fails /\ UNCHANGED sessions /\ Done(TRUE)
       \/ /\ Fails /\ UNCHANGED <<sessions, inbox>>
          /\ \/ worker' = [worker EXCEPT !.pc = "send", !.todo = <<Reply>>, !.error = TRUE]
             \/ ~barred /\ Job.says \in {"r+", "r-"} /\ Send(<<Reply>>)

\* change_labels: the label is added before its siblings are removed.
StatusWrites(l) == <<[op |-> "add", label |-> l]>> \o
    SetToSeq({[op |-> "drop", label |-> s] : s \in Status \ {l}})
Withdrawals == SetToSeq({[op |-> "dismiss", review |-> r] : r \in approvals[Job.issue]})
Membership == IF Job.says = "claim" THEN assignees[Job.issue] \cup {Job.user}
              ELSE assignees[Job.issue] \ {Job.user}

\* handle_one up to its first write: what it reads decides what it sends.
ActLate ==
    /\ At("act") /\ UNCHANGED <<inbox, sessions, remote>> /\ Well
    /\ LET i == Job.issue IN
       /\ statuses' = IF Job.says \in Status THEN [statuses EXCEPT ![i] = Job.at] ELSE statuses
       /\ CASE Job.says \in Status -> Send(StatusWrites(Job.says) \o <<Reply>>)
            [] Job.says \in {"claim", "unclaim"} ->
                 Send(<<[op |-> "assign", users |-> Membership], Reply>>)
            [] Job.says = "r+" -> Send(<<[op |-> "approve"], Reply>>)
            [] Job.says = "r-" -> Send(Withdrawals \o <<Reply>>)
            [] OTHER -> Send(<<Reply>>)
Act ==
    /\ At("act") /\ UNCHANGED <<inbox, sessions, remote>>
    /\ LET i == Job.issue
           late == Job.says \in Status /\ Job.at < statuses[i]
       IN
       /\ statuses' = IF Job.says \in Status /\ ~late
                      THEN [statuses EXCEPT ![i] = Job.at] ELSE statuses
       /\ \/ /\ Well
             /\ CASE late -> worker' = [worker EXCEPT !.pc = "finish"]
                  [] Job.says \in Status /\ ~late ->
                       Send(StatusWrites(Job.says) \o <<Reply>>)
                  [] Job.says \in {"claim", "unclaim"} ->
                       Send(<<[op |-> "assign", users |-> Membership], Reply>>)
                  [] Job.says = "r+" -> Send(<<[op |-> "approve"], Reply>>)
                  [] Job.says = "r-" -> Send(Withdrawals \o <<Reply>>)
                  [] Job.says = "ping" -> Send(<<Reply>>)
          \/ ~late /\ Job.says \notin {"r+", "ping"} /\ Fails /\ Send(<<Reply>>)

\* What a request changes when it takes effect.
Lands(w) == LET i == Job.issue IN
    /\ labels' = CASE w.op = "add" -> [labels EXCEPT ![i] = @ \cup {w.label}]
                   [] w.op = "drop" -> [labels EXCEPT ![i] = @ \ {w.label}]
                   [] OTHER -> labels
    /\ assignees' = IF w.op = "assign" THEN [assignees EXCEPT ![i] = w.users] ELSE assignees
    /\ approvals' = CASE w.op = "approve" -> [approvals EXCEPT ![i] = @ \cup {Job}]
                      [] w.op = "dismiss" -> [approvals EXCEPT ![i] = @ \ {w.review}]
                      [] OTHER -> approvals
    /\ posts' = CASE w.op = "approve" -> [posts EXCEPT ![Job].review = @ + 1]
                  [] w.op = "reply" -> [posts EXCEPT ![Job].reply = @ + 1]
                  [] OTHER -> [posts EXCEPT ![Job].changes = TRUE]

BeforeWriteUnmarked(c) == ~inbox[c].uncertain /\ UNCHANGED inbox
\* before_write: nothing is sent any more once an outcome is unknown.
BeforeWrite(c) == ~inbox[c].uncertain /\ inbox' = [inbox EXCEPT ![c].wrote = TRUE]

SendNext ==
    /\ At("send") /\ worker.todo # <<>> /\ BeforeWrite(Job)
    /\ UNCHANGED <<statuses, sessions>> /\ Well
    /\ \E landed \in BOOLEAN :
          /\ worker' = [worker EXCEPT !.pc = "answer", !.landed = landed]
          /\ landed \/ faults < MaxFaults
          /\ IF landed THEN Lands(Head(worker.todo)) ELSE UNCHANGED remote

\* after_write and the handler's error paths: an error ends a change of labels
\* and is answered, while the other withdrawals are still tried.
Answer ==
    /\ At("answer") /\ UNCHANGED <<statuses, sessions, remote>>
    /\ LET rest == Tail(worker.todo)
           after == IF Head(worker.todo).op \in {"dismiss", "reply"} THEN rest ELSE <<Reply>>
           Mark(unknown) == inbox' = [inbox EXCEPT ![Job].failed = TRUE,
                                                   ![Job].uncertain = @ \/ unknown]
       IN
       \/ worker.landed /\ Well /\ UNCHANGED inbox /\ Send(rest)
       \/ ~worker.landed /\ Fails /\ Mark(FALSE) /\ Send(after)
       \/ Fails /\ Mark(TRUE) /\ Send(after)

\* The handler returns, also when its further writes are paused.
Return ==
    /\ up /\ \/ worker.pc = "finish"
             \/ worker.pc = "send" /\ (worker.todo = <<>> \/ inbox[Job].uncertain)
    /\ Done(worker.error)
    /\ UNCHANGED <<statuses, sessions, remote, up, faults>>

Work == Claim \/ Gate \/ Act \/ SendNext \/ Answer \/ Return

----------------------------------------------------------------------------
(* Restarts and the operator.                                              *)

Crash ==
    /\ up /\ worker # Idle /\ faults < MaxFaults /\ faults' = faults + 1
    /\ up' = FALSE /\ worker' = Idle
    /\ UNCHANGED <<rows, remote>>

OpenKeeping ==
    /\ ~up /\ up' = TRUE /\ UNCHANGED <<rows, remote, worker, faults>>
\* Inbox::open.
Open ==
    /\ ~up /\ up' = TRUE
    /\ inbox' = [c \in Jobs |-> [inbox[c] EXCEPT !.state =
          IF @ = "running" THEN IF inbox[c].wrote THEN "unknown" ELSE "pending" ELSE @]]
    /\ UNCHANGED <<statuses, sessions, remote, worker, faults>>

\* resolve, with the server stopped between two comments, by an operator who
\* looked: a comment is queued again only when nothing of it took effect.
Resolve(c, decision) ==
    /\ up /\ worker = Idle /\ inbox[c].state \in {"unknown", "failed"}
    /\ decision = "not-sent" => posts[c] = Nothing
    /\ inbox' = [inbox EXCEPT ![c] = [Fresh EXCEPT !.state =
          IF decision = "done" THEN "succeeded" ELSE "pending"]]
    /\ UNCHANGED <<statuses, sessions, remote, worker, up, faults>>

CommandsNext ==
    \/ \E c \in Jobs : \/ Enqueue(c) \/ Due(c)
                       \/ \E decision \in {"done", "not-sent"} : Resolve(c, decision)
    \/ Work \/ Crash \/ Open

CommandsSpec == CommandsInit /\ [][CommandsNext]_commandsVars

\* The consumer runs every few seconds, waits pass, the server is restarted.
CommandsFairSpec ==
    /\ CommandsSpec
    /\ WF_commandsVars(Work) /\ WF_commandsVars(Open)
    /\ \A c \in Jobs : WF_commandsVars(Due(c))

----------------------------------------------------------------------------
(* Properties.                                                             *)

\* However the server is interrupted, a comment posts at most one review and
\* is answered at most once (before_write, finish, Inbox::open, resolve).
PostedOnce == \A c \in Jobs : posts[c].review <= 1 /\ posts[c].reply <= 1

\* Rows, issues and the consumer are well formed, and nobody is answered twice.
CommandsInv == CommandsTypeOK /\ PostedOnce

\* While the outcome of a write is unknown, no command changes anything on its
\* issue: not the comment's own further writes, not the comments after it.
ThreadPaused == [][\A c \in Jobs :
    inbox[c].state = "unknown" \/ inbox[c].uncertain =>
        UNCHANGED <<labels[c.issue], assignees[c.issue], approvals[c.issue]>>]_commandsVars

\* A status command that comes late, waited or was queued again changes no
\* label after a newer one did (status_is_current).
NewerStatusStands == [][\A d \in Jobs :
    d.says \in Status /\ posts[d].changes /\ labels'[d.issue] # labels[d.issue] =>
        worker.job.at >= d.at]_commandsVars

\* Every stored comment comes to an end, or its issue waits for the operator.
AllAnswered == \A c \in Jobs : inbox[c].state = "pending" ~>
    \/ inbox[c].state \in {"succeeded", "failed"}
    \/ \E d \in Jobs : d.issue = c.issue /\ inbox[d].state = "unknown"
=============================================================================
