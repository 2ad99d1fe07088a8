--------------------------- MODULE ServicesProofs ---------------------------
(***************************************************************************)
(* Theorems about the services beside the queues: comment commands, the    *)
(* copying of refs and the configuration cache.  They share no state; each *)
(* part below speaks of the specification of one of them.                  *)
(***************************************************************************)
EXTENDS ForgejoCommands, ForgejoSync, ConfigCache, SequenceTheorems, FiniteSetTheorems, TLAPS

-----------------------------------------------------------------------------
(***************************************************************************)
(* Theorems about comment commands for every set of comments, issues and   *)
(* users, every authorization and mention policy, and any number of faults *)
(* and attempts: nobody is answered twice, nothing changes on an issue     *)
(* while the outcome of a write there is unknown, and a late status        *)
(* command changes no label after a newer one did.                         *)
(*                                                                         *)
(* CommandsIInv says that a comment that wrote nothing may be carried out  *)
(* again because nothing of it appeared (RowsClean), that the running      *)
(* comment is alone on its issue (Alone), that what the worker still has   *)
(* to send was not sent before (Remaining), and that the newest status is  *)
(* recorded before its labels change (StatusKept, Labelling).              *)
(***************************************************************************)

\* A worker with a comment.
Busy == [pc : {"gate", "act", "send", "answer", "finish"}, job : Jobs,
         todo : Seq(Writes), landed : BOOLEAN, error : BOOLEAN]
\* A worker with a comment is well formed, and only while the server runs.
WorkerShape == worker.pc # "idle" => worker \in Busy /\ up

\* The comment waits or runs and has not come to its first write.
Untouched(c) ==
    \/ inbox[c].state \in {"absent", "pending"}
    \/ inbox[c].state = "running" /\ ~inbox[c].wrote

\* Such a comment made nothing appear, so that carrying it out again is safe.
RowsClean == \A c \in Jobs : Untouched(c) =>
    posts[c] = Nothing /\ ~inbox[c].wrote /\ ~inbox[c].uncertain

\* A write with an unknown outcome keeps the comment running or unknown.
Doubtful == \A c \in Jobs : inbox[c].uncertain => inbox[c].state \in {"running", "unknown"}

\* No other comment of the issue runs or is unknown while a comment is carried out.
Alone == worker.pc # "idle" => \A d \in Jobs :
    d # Job /\ d.issue = Job.issue => inbox[d].state \notin {"running", "unknown"}

\* A reply, if any, is the last write, and a review the first.
Orderly(todo) == \A n \in DOMAIN todo :
    (todo[n].op = "reply" <=> n = Len(todo)) /\ (todo[n].op = "approve" => n = 1)

\* What is still to be sent was not sent before: until the reply is sent the
\* comment has none, and a review is only ever the first write.
Remaining ==
    /\ worker.pc \in {"gate", "act"} => ~inbox[Job].wrote
    /\ worker.pc \in {"send", "answer"} => Orderly(worker.todo)
    /\ worker.pc = "send" /\ worker.todo # <<>> =>
          /\ posts[Job].reply = 0
          /\ Head(worker.todo).op = "approve" => posts[Job].review = 0
    /\ worker.pc = "answer" =>
          /\ inbox[Job].wrote /\ worker.todo # <<>>
          /\ Head(worker.todo).op # "reply" => posts[Job].reply = 0

\* No status command that changed labels is newer than the status recorded.
StatusKept == \A d \in Jobs :
    d.says \in Status /\ posts[d].changes => d.at <= statuses[d.issue]

\* Labels are written for status commands only, and while they are written
\* the status recorded is that of the comment.
Labelling == worker.pc \in {"send", "answer"} =>
    \A n \in DOMAIN worker.todo :
        /\ worker.todo[n].op \in {"add", "drop"} => Job.says \in Status
        /\ worker.todo[n].op # "reply" /\ Job.says \in Status => statuses[Job.issue] = Job.at

\* The inductive invariant.
CommandsIInv ==
    /\ CommandsTypeOK /\ WorkerShape /\ RowsClean /\ Doubtful /\ Alone
    /\ Remaining /\ PostedOnce /\ StatusKept /\ Labelling

-----------------------------------------------------------------------------
(* What is sent. *)

\* SetToSeq of a finite set is a sequence over it.
LEMMA SetAsSequence ==
    ASSUME NEW S, IsFiniteSet(S)
    PROVE  SetToSeq(S) \in Seq(S)
  <1>1. Cardinality(S) \in Nat /\ ExistsBijection(1..Cardinality(S), S)
    BY FS_CardinalityType
  <1>2. PICK f \in [1..Cardinality(S) -> S] : IsInjective(f)
    BY <1>1 DEF ExistsBijection, Bijection, Injection
  <1>3. SetToSeq(S) \in [1..Cardinality(S) -> S]
    BY <1>2 DEF SetToSeq
  <1> QED
    BY <1>1, <1>3

\* What a function makes of a finite set is finite.
LEMMA ImageFinite ==
    ASSUME NEW S, NEW T, NEW f \in [S -> T], \A t \in T : \E s \in S : f[s] = t, IsFiniteSet(S)
    PROVE  IsFiniteSet(T)
  <1>1. f \in Surjection(S, T)
    BY DEF Surjection
  <1> QED
    BY <1>1, FS_Surjection

\* change_labels only adds and removes labels.
LEMMA StatusWritesShape ==
    ASSUME NEW l \in Status
    PROVE  /\ StatusWrites(l) \in Seq(Writes)
           /\ \A n \in DOMAIN StatusWrites(l) : StatusWrites(l)[n].op \in {"add", "drop"}
  <1> DEFINE S == Status \ {l}
             T == {[op |-> "drop", label |-> s] : s \in S}
             f == [s \in S |-> [op |-> "drop", label |-> s]]
  <1>1. IsFiniteSet(Status)
    <2>1. IsFiniteSet({}) 
      BY FS_EmptySet
    <2>2. IsFiniteSet({} \cup {"ready"})
      BY <2>1, FS_AddElement
    <2>3. IsFiniteSet(({} \cup {"ready"}) \cup {"author"})
      BY <2>2, FS_AddElement
    <2>4. IsFiniteSet((({} \cup {"ready"}) \cup {"author"}) \cup {"blocked"})
      BY <2>3, FS_AddElement
    <2>5. Status = (({} \cup {"ready"}) \cup {"author"}) \cup {"blocked"}
      BY DEF Status
    <2> QED
      BY <2>4, <2>5
  <1>2. IsFiniteSet(S)
    BY <1>1, FS_Subset
  <1>3. f \in [S -> T] /\ \A t \in T : \E s \in S : f[s] = t
    OBVIOUS
  <1>4. IsFiniteSet(T)
    <2> HIDE DEF S, T, f
    <2> QED
      BY <1>2, <1>3, ImageFinite
  <1>5. SetToSeq(T) \in Seq(T)
    BY <1>4, SetAsSequence
  <1>6. \A t \in T : t \in Writes /\ t.op = "drop"
    BY DEF Writes
  <1>7. [op |-> "add", label |-> l] \in Writes
    BY DEF Writes
  <1>8. StatusWrites(l) = <<[op |-> "add", label |-> l]>> \o SetToSeq(T)
    BY DEF StatusWrites
  <1> QED
    <2> HIDE DEF S, T, f
    <2> DEFINE a == [op |-> "add", label |-> l]
               s == SetToSeq(T)
    <2>1. a.op = "add" /\ a \in Writes
      BY <1>7
    <2>2. s \in Seq(T)
      BY <1>5
    <2>3. StatusWrites(l) = <<a>> \o s
      BY <1>8
    <2> HIDE DEF a, s
    <2> DEFINE w == <<a>> \o s
    <2>4. s \in Seq(Writes) /\ \A n \in DOMAIN s : s[n].op = "drop"
      BY <2>2, <1>6
    <2>5. w \in Seq(Writes)
      BY <2>1, <2>4
    <2>6. \A n \in DOMAIN w : w[n].op \in {"add", "drop"}
      <3> SUFFICES ASSUME NEW n \in DOMAIN w
                   PROVE  w[n].op \in {"add", "drop"}
        OBVIOUS
      <3>1. n = 1 \/ (n - 1 \in DOMAIN s /\ w[n] = s[n - 1])
        BY <2>4
      <3>2. w[1] = a
        BY <2>4
      <3> QED
        BY <3>1, <3>2, <2>1, <2>4
    <2> QED
      BY <2>3, <2>5, <2>6

\* A withdrawal dismisses reviews and does nothing else.
LEMMA WithdrawalsShape ==
    ASSUME CommandsTypeOK, Job \in Jobs
    PROVE  /\ Withdrawals \in Seq(Writes)
           /\ \A n \in DOMAIN Withdrawals : Withdrawals[n].op = "dismiss"
  <1> DEFINE S == approvals[Job.issue]
             T == {[op |-> "dismiss", review |-> r] : r \in S}
             f == [r \in S |-> [op |-> "dismiss", review |-> r]]
  <1>1. S \subseteq Jobs
    BY DEF CommandsTypeOK, Issues
  <1>2. IsFiniteSet(S)
    BY <1>1, FS_Subset, CommandsAssumption
  <1>3. f \in [S -> T] /\ \A t \in T : \E s \in S : f[s] = t
    OBVIOUS
  <1>4. IsFiniteSet(T)
    <2> HIDE DEF S, T, f
    <2> QED
      BY <1>2, <1>3, ImageFinite
  <1>5. SetToSeq(T) \in Seq(T)
    BY <1>4, SetAsSequence
  <1>6. \A t \in T : t \in Writes /\ t.op = "dismiss"
    BY <1>1 DEF Writes
  <1>7. Withdrawals = SetToSeq(T)
    BY DEF Withdrawals
  <1> HIDE DEF S, T, f
  <1> QED
    BY <1>5, <1>6, <1>7

\* Changes followed by the reply are in order.
LEMMA AnsweredLast ==
    ASSUME NEW s \in Seq(Writes), \A n \in DOMAIN s : s[n].op \notin {"reply", "approve"}
    PROVE  LET t == s \o <<Reply>> IN
           /\ t \in Seq(Writes) /\ t # <<>> /\ Orderly(t) /\ Head(t).op # "approve"
           /\ \A n \in DOMAIN t : t[n].op = "reply" \/ \E m \in DOMAIN s : t[n] = s[m]
  <1> DEFINE t == s \o <<Reply>>
  <1>1. Reply \in Writes /\ Reply.op = "reply"
    BY DEF Reply, Writes
  <1> HIDE DEF Reply
  <1>2. t \in Seq(Writes) /\ t # <<>> /\ Len(t) = Len(s) + 1
    BY <1>1
  <1>3. \A n \in DOMAIN t : IF n = Len(t) THEN t[n] = Reply ELSE n \in DOMAIN s /\ t[n] = s[n]
    BY <1>1
  <1>4. Orderly(t)
    BY <1>1, <1>2, <1>3 DEF Orderly
  <1>5. Head(t).op # "approve"
    BY <1>1, <1>2, <1>3
  <1> QED
    BY <1>1, <1>2, <1>3, <1>4, <1>5

\* What is left after one write is in order, has no review in it, and is empty
\* exactly after the reply.
LEMMA TailOrderly ==
    ASSUME NEW s \in Seq(Writes), s # <<>>, Orderly(s)
    PROVE  /\ Tail(s) \in Seq(Writes) /\ Orderly(Tail(s))
           /\ Head(s) \in Writes /\ Head(s) = s[1] /\ 1 \in DOMAIN s
           /\ Head(s).op = "reply" <=> Tail(s) = <<>>
           /\ \A n \in DOMAIN Tail(s) : n + 1 \in DOMAIN s /\ Tail(s)[n] = s[n + 1]
           /\ \A n \in DOMAIN Tail(s) : Tail(s)[n].op # "approve"
  <1>1. Tail(s) \in Seq(Writes) /\ Len(Tail(s)) = Len(s) - 1 /\ Head(s) \in Writes
        /\ Head(s) = s[1] /\ 1 \in DOMAIN s
    OBVIOUS
  <1>2. \A n \in DOMAIN Tail(s) : n + 1 \in DOMAIN s /\ Tail(s)[n] = s[n + 1] /\ n + 1 # 1
    OBVIOUS
  <1>3. \A n \in DOMAIN Tail(s) : n \in Nat /\ (n = Len(Tail(s)) <=> n + 1 = Len(s))
    BY <1>1
  <1>4. \A n \in DOMAIN Tail(s) : Tail(s)[n].op # "approve"
    BY <1>2 DEF Orderly
  <1>5. Orderly(Tail(s))
    BY <1>2, <1>3, <1>4 DEF Orderly
  <1>6. Head(s).op = "reply" <=> Len(s) = 1
    BY <1>1 DEF Orderly
  <1>7. Tail(s) = <<>> <=> Len(s) = 1
    BY <1>1
  <1> QED
    BY <1>1, <1>2, <1>4, <1>5, <1>6, <1>7

\* The states of a row.
States == {"absent", "pending", "running", "unknown", "failed", "succeeded"}

-----------------------------------------------------------------------------
(* Rows of the inbox. *)

\* Setting the state of a row leaves its marks alone.
LEMMA RowState ==
    ASSUME NEW r \in Row, NEW st \in States
    PROVE  LET q == [r EXCEPT !.state = st] IN
           /\ q \in Row /\ q.state = st /\ q.wrote = r.wrote /\ q.uncertain = r.uncertain
  BY DEF Row, States

\* So does claiming it, ...
LEMMA RowClaimed ==
    ASSUME NEW r \in Row
    PROVE  LET q == [r EXCEPT !.state = "running", !.attempts = @ + 1] IN
           /\ q \in Row /\ q.state = "running" /\ q.wrote = r.wrote /\ q.uncertain = r.uncertain
  <1> DEFINE q == [r EXCEPT !.state = "running", !.attempts = @ + 1]
  <1>1. q = [[r EXCEPT !.state = "running"] EXCEPT !.attempts = r.attempts + 1]
    BY DEF Row
  <1>2. r.attempts + 1 \in Nat
    BY DEF Row
  <1>3. [r EXCEPT !.state = "running"] \in Row
    BY RowState DEF States
  <1> QED
    BY <1>1, <1>2, <1>3 DEF Row

\* ... setting it aside, ...
LEMMA RowDue ==
    ASSUME NEW r \in Row, NEW st \in States
    PROVE  LET q == [r EXCEPT !.due = FALSE, !.state = st] IN
           /\ q \in Row /\ q.state = st /\ q.wrote = r.wrote /\ q.uncertain = r.uncertain
  BY DEF Row, States

\* ... and letting its wait pass.
LEMMA RowWaited ==
    ASSUME NEW r \in Row
    PROVE  LET q == [r EXCEPT !.due = TRUE] IN
           /\ q \in Row /\ q.state = r.state /\ q.wrote = r.wrote /\ q.uncertain = r.uncertain
  BY DEF Row

\* before_write marks the row and changes nothing else of it.
LEMMA RowWrote ==
    ASSUME NEW r \in Row
    PROVE  LET q == [r EXCEPT !.wrote = TRUE] IN
           /\ q \in Row /\ q.state = r.state /\ q.wrote /\ q.uncertain = r.uncertain
  BY DEF Row

\* A failed write marks the row and keeps its state.
LEMMA RowMarked ==
    ASSUME NEW r \in Row, NEW u \in BOOLEAN
    PROVE  LET q == [r EXCEPT !.failed = TRUE, !.uncertain = @ \/ u] IN
           /\ q \in Row /\ q.state = r.state /\ q.wrote = r.wrote
           /\ q.uncertain = (r.uncertain \/ u)
  BY DEF Row

\* A row the operator resolved has no marks.
LEMMA RowFresh ==
    ASSUME NEW st \in States
    PROVE  LET q == [Fresh EXCEPT !.state = st] IN
           /\ q \in Row /\ q.state = st /\ ~q.wrote /\ ~q.uncertain
  BY DEF Row, States, Fresh

\* One row changes.
LEMMA RowPut ==
    ASSUME CommandsTypeOK, NEW c \in Jobs, NEW r \in Row, inbox' = [inbox EXCEPT ![c] = r]
    PROVE  /\ inbox' \in [Jobs -> Row]
           /\ \A d \in Jobs : inbox'[d] = IF d = c THEN r ELSE inbox[d]
  BY DEF CommandsTypeOK

-----------------------------------------------------------------------------
(* Steps that do not carry a comment out. *)

\* A row the worker does not hold changes, and is clean if it is to be carried out.
LEMMA OtherRow ==
    ASSUME CommandsIInv, NEW c \in Jobs, NEW r \in Row, inbox' = [inbox EXCEPT ![c] = r],
           inbox[c].state # "running",
           r.state \in {"pending", "succeeded"}, ~r.uncertain,
           r.state = "pending" => posts[c] = Nothing /\ ~r.wrote,
           UNCHANGED <<statuses, sessions, remote, worker, up, faults>>
    PROVE  CommandsIInv'
  <1> USE DEF CommandsIInv, remote
  <1>1. /\ inbox' \in [Jobs -> Row]
        /\ \A d \in Jobs : inbox'[d] = IF d = c THEN r ELSE inbox[d]
    BY RowPut
  <1>2. worker.pc # "idle" => Job \in Jobs /\ Job # c /\ inbox'[Job] = inbox[Job]
    BY <1>1 DEF CommandsTypeOK, Job
  <1>3. CommandsTypeOK'
    BY <1>1, <1>2 DEF CommandsTypeOK, Job
  <1>4. WorkerShape'
    BY DEF WorkerShape
  <1>5. RowsClean'
    BY <1>1 DEF RowsClean, Untouched
  <1>6. Doubtful'
    BY <1>1 DEF Doubtful
  <1>7. Alone'
    BY <1>1 DEF Alone, Job
  <1>8. Remaining'
    BY <1>2 DEF Remaining, Job, WorkerShape
  <1>9. PostedOnce' /\ StatusKept' /\ Labelling'
    BY DEF PostedOnce, StatusKept, Labelling, Job
  <1> QED
    BY <1>3, <1>4, <1>5, <1>6, <1>7, <1>8, <1>9

\* A comment arrives.
LEMMA EnqueueStep ==
    ASSUME CommandsIInv, NEW c \in Jobs, Enqueue(c)
    PROVE  CommandsIInv'
  <1>1. inbox[c] \in Row
    BY DEF CommandsIInv, CommandsTypeOK
  <1>2. PICK r \in Row : /\ r = [inbox[c] EXCEPT !.state = "pending"]
                         /\ r.state = "pending" /\ r.wrote = inbox[c].wrote
                         /\ r.uncertain = inbox[c].uncertain
    BY <1>1, RowState, ZenonT(60) DEF States
  <1>3. inbox' = [inbox EXCEPT ![c] = r]
    BY <1>2 DEF Enqueue, SetState
  <1>4. posts[c] = Nothing /\ ~r.wrote /\ ~r.uncertain
    BY <1>2 DEF Enqueue, CommandsIInv, RowsClean, Untouched
  <1> QED
    BY <1>2, <1>3, <1>4, OtherRow DEF Enqueue

\* A wait passes.
LEMMA DueStep ==
    ASSUME CommandsIInv, NEW c \in Jobs, Due(c)
    PROVE  CommandsIInv'
  <1>1. inbox[c] \in Row
    BY DEF CommandsIInv, CommandsTypeOK
  <1>2. PICK r \in Row : /\ r = [inbox[c] EXCEPT !.due = TRUE]
                         /\ r.state = inbox[c].state /\ r.wrote = inbox[c].wrote
                         /\ r.uncertain = inbox[c].uncertain
    BY <1>1, RowWaited
  <1>3. inbox' = [inbox EXCEPT ![c] = r]
    BY <1>2 DEF Due
  <1>4. posts[c] = Nothing /\ ~r.wrote /\ ~r.uncertain
    BY <1>2 DEF Due, CommandsIInv, RowsClean, Untouched
  <1> QED
    BY <1>2, <1>3, <1>4, OtherRow DEF Due

\* The operator resolves a comment.
LEMMA ResolveStep ==
    ASSUME CommandsIInv, NEW c \in Jobs, NEW decision \in {"done", "not-sent"},
           Resolve(c, decision)
    PROVE  CommandsIInv'
  <1> DEFINE st == IF decision = "done" THEN "succeeded" ELSE "pending"
  <1>1. st \in States
    BY DEF States
  <1>2. PICK r \in Row : /\ r = [Fresh EXCEPT !.state = st]
                         /\ r.state = st /\ ~r.wrote /\ ~r.uncertain
    <2> HIDE DEF st
    <2> QED
      BY <1>1, RowFresh
  <1>3. inbox' = [inbox EXCEPT ![c] = r]
    BY <1>2 DEF Resolve
  <1> QED
    <2>1. r.state \in {"pending", "succeeded"} /\ (r.state = "pending" => decision = "not-sent")
      BY <1>2
    <2>2. /\ inbox[c].state # "running" /\ (r.state = "pending" => posts[c] = Nothing)
          /\ UNCHANGED <<statuses, sessions, remote, worker, up, faults>>
      BY <2>1 DEF Resolve
    <2> QED
      BY <1>2, <1>3, <2>1, <2>2, OtherRow

\* What holds when the worker lets go of its comment.
LEMMA NobodyWorks ==
    ASSUME worker' = Idle, inbox' \in [Jobs -> Row], RowsClean', Doubtful',
           CommandsIInv, up' \in BOOLEAN, faults' \in 0..MaxFaults, sessions' \subseteq Jobs,
           UNCHANGED <<statuses, remote>>
    PROVE  CommandsIInv'
  <1>1. worker'.pc = "idle" /\ worker'.todo = <<>> /\ worker'.landed = FALSE
        /\ worker'.error = FALSE
    BY DEF Idle
  <1>2. CommandsTypeOK'
    <2>1. CommandsTypeOK
      BY DEF CommandsIInv
    <2>2. (worker.pc \in {"idle", "gate", "act", "send", "answer", "finish"})'
          /\ (IF worker.pc = "idle" THEN worker = Idle
              ELSE worker.job \in Jobs /\ inbox[worker.job].state = "running")'
      BY <1>1 DEF Idle
    <2>3. (worker.todo \in Seq(Writes) /\ worker.landed \in BOOLEAN /\ worker.error \in BOOLEAN)'
      <3>1. <<>> \in Seq(Writes)
        OBVIOUS
      <3> QED
        BY <1>1, <3>1, Zenon
    <2>4. UNCHANGED <<statuses, labels, assignees, approvals, posts>>
      BY DEF remote
    <2> QED
      BY <2>1, <2>2, <2>3, <2>4 DEF CommandsTypeOK
  <1>3. WorkerShape' /\ Alone' /\ Remaining' /\ Labelling'
    BY <1>1 DEF WorkerShape, Alone, Remaining, Labelling
  <1>4. PostedOnce' /\ StatusKept'
    BY DEF CommandsIInv, PostedOnce, StatusKept, remote
  <1> QED
    BY <1>2, <1>3, <1>4 DEF CommandsIInv

\* finish settles the row of the worker, which lets go of it.
LEMMA DoneStep ==
    ASSUME CommandsIInv, worker.pc # "idle", NEW error \in BOOLEAN, Done(error),
           up' = up, faults' \in 0..MaxFaults, sessions' \subseteq Jobs,
           UNCHANGED <<statuses, remote>>
    PROVE  CommandsIInv'
  <1>1. Job \in Jobs /\ inbox[Job].state = "running" /\ inbox[Job] \in Row
    BY DEF CommandsIInv, CommandsTypeOK, Job
  <1> DEFINE st == IF inbox[Job].uncertain THEN "unknown"
                   ELSE IF error /\ ~inbox[Job].wrote /\ inbox[Job].attempts < MaxAttempts
                        THEN "pending"
                        ELSE IF error \/ inbox[Job].failed THEN "failed" ELSE "succeeded"
  <1>2. st \in States
    BY DEF States
  <1>3. PICK r \in Row : /\ r = [inbox[Job] EXCEPT !.due = FALSE, !.state = st]
                         /\ r.state = st /\ r.wrote = inbox[Job].wrote
                         /\ r.uncertain = inbox[Job].uncertain
    <2> HIDE DEF st
    <2> DEFINE q == [inbox[Job] EXCEPT !.due = FALSE, !.state = st]
    <2>1. q \in Row /\ q.state = st
      BY <1>1, <1>2, RowDue
    <2>2. q.wrote = inbox[Job].wrote /\ q.uncertain = inbox[Job].uncertain
      BY <1>1, <1>2, RowDue
    <2> QED
      BY <2>1, <2>2, Zenon
  <1>4. inbox' = [inbox EXCEPT ![Job] = r]
    BY <1>3 DEF Done, Finish
  <1>5. /\ inbox' \in [Jobs -> Row]
        /\ \A d \in Jobs : inbox'[d] = IF d = Job THEN r ELSE inbox[d]
    BY <1>1, <1>4, RowPut DEF CommandsIInv
  <1>6. posts' = posts
    BY DEF remote
  <1>7. RowsClean'
    <2>1. st \in {"pending", "running", "absent"} => ~inbox[Job].wrote /\ ~inbox[Job].uncertain
      OBVIOUS
    <2> HIDE DEF st
    <2> QED
      BY <1>1, <1>3, <1>5, <1>6, <2>1 DEF CommandsIInv, RowsClean, Untouched
  <1>8. Doubtful'
    BY <1>3, <1>5 DEF CommandsIInv, Doubtful
  <1>9. worker' = Idle /\ up' \in BOOLEAN
    BY DEF Done, CommandsIInv, CommandsTypeOK
  <1> QED
    BY <1>5, <1>7, <1>8, <1>9, NobodyWorks

\* The fault counter stays within its bound.
LEMMA FaultCounted ==
    ASSUME CommandsTypeOK, faults < MaxFaults, faults' = faults + 1
    PROVE  faults' \in 0..MaxFaults
  BY CommandsAssumption DEF CommandsTypeOK

\* The handler returns.
LEMMA ReturnStep ==
    ASSUME CommandsIInv, Return
    PROVE  CommandsIInv'
  <1>1. worker.pc # "idle" /\ worker.error \in BOOLEAN /\ Done(worker.error)
    BY DEF Return, CommandsIInv, CommandsTypeOK
  <1>2. up' = up /\ faults' \in 0..MaxFaults /\ sessions' \subseteq Jobs
        /\ UNCHANGED <<statuses, remote>>
    BY DEF Return, CommandsIInv, CommandsTypeOK
  <1> QED
    BY <1>1, <1>2, DoneStep

\* The server crashes: the row stays as it is and the worker is gone.
LEMMA CommandsCrashStep ==
    ASSUME CommandsIInv, Crash
    PROVE  CommandsIInv'
  <1>1. worker' = Idle /\ inbox' = inbox /\ UNCHANGED <<statuses, remote>> /\ up' \in BOOLEAN
    BY DEF Crash, rows
  <1>2. faults' \in 0..MaxFaults
    BY FaultCounted DEF Crash, CommandsIInv
  <1>3. inbox' \in [Jobs -> Row] /\ sessions' \subseteq Jobs
    BY DEF Crash, rows, CommandsIInv, CommandsTypeOK
  <1>4. posts' = posts
    BY <1>1 DEF remote
  <1>5. RowsClean' /\ Doubtful'
    BY <1>1, <1>4 DEF CommandsIInv, RowsClean, Doubtful, Untouched
  <1> QED
    BY <1>1, <1>2, <1>3, <1>5, NobodyWorks

\* Inbox::open: a comment that wrote becomes unknown, the others are queued again.
LEMMA OpenStep ==
    ASSUME CommandsIInv, Open
    PROVE  CommandsIInv'
  <1> DEFINE st(c) == IF inbox[c].state = "running"
                      THEN IF inbox[c].wrote THEN "unknown" ELSE "pending" ELSE inbox[c].state
             r(c) == [inbox[c] EXCEPT !.state = st(c)]
  <1>1. inbox \in [Jobs -> Row]
    BY DEF CommandsIInv, CommandsTypeOK
  <1>2. \A c \in Jobs : inbox[c] \in Row /\ st(c) \in States
    BY <1>1 DEF Row, States
  <1>3. \A c \in Jobs : /\ r(c) \in Row /\ r(c).state = st(c)
                        /\ r(c).wrote = inbox[c].wrote /\ r(c).uncertain = inbox[c].uncertain
    <2> HIDE DEF st
    <2> QED
      BY <1>2, RowState
  <1>4. inbox' = [c \in Jobs |-> r(c)]
    BY <1>1 DEF Open
  <1> HIDE DEF r
  <1>5. inbox' \in [Jobs -> Row] /\ \A c \in Jobs : inbox'[c] = r(c)
    BY <1>3, <1>4
  <1>6. worker.pc = "idle" /\ worker' = Idle
    BY DEF CommandsIInv, WorkerShape, CommandsTypeOK, Open
  <1>7. posts' = posts /\ up' \in BOOLEAN /\ faults' \in 0..MaxFaults /\ sessions' \subseteq Jobs
        /\ UNCHANGED <<statuses, remote>>
    BY DEF Open, remote, CommandsIInv, CommandsTypeOK
  <1>8. RowsClean'
    <2> SUFFICES ASSUME NEW c \in Jobs, Untouched(c)'
                 PROVE  posts'[c] = Nothing /\ ~inbox'[c].wrote /\ ~inbox'[c].uncertain
      BY DEF RowsClean
    <2>1. st(c) \in {"absent", "pending"} \/ (st(c) = "running" /\ ~inbox[c].wrote)
      BY <1>3, <1>5 DEF Untouched
    <2>2. Untouched(c)
      BY <2>1 DEF Untouched
    <2> QED
      BY <2>2, <1>3, <1>5, <1>7 DEF CommandsIInv, RowsClean
  <1>9. Doubtful'
    <2> SUFFICES ASSUME NEW c \in Jobs, inbox'[c].uncertain
                 PROVE  inbox'[c].state \in {"running", "unknown"}
      BY DEF Doubtful
    <2>1. inbox[c].uncertain
      BY <1>3, <1>5
    <2>2. /\ inbox[c].state \in {"running", "unknown"}
          /\ inbox[c].state = "running" => inbox[c].wrote
      BY <2>1 DEF CommandsIInv, Doubtful, RowsClean, Untouched
    <2> QED
      BY <2>2, <1>3, <1>5
  <1> QED
    BY <1>5, <1>6, <1>7, <1>8, <1>9, NobodyWorks

-----------------------------------------------------------------------------
(* The worker. *)

\* Claim gives the worker its comment.
LEMMA WorkerStarted ==
    ASSUME NEW c \in Jobs
    PROVE  LET w == [Idle EXCEPT !.pc = "gate", !.job = c] IN
           w \in Busy /\ w.pc = "gate" /\ w.job = c
  <1> DEFINE R == [pc : {"idle", "gate"}, job : Jobs \cup {{}}, todo : Seq(Writes),
                   landed : BOOLEAN, error : BOOLEAN]
  <1>1. Idle \in R
    <2>1. <<>> \in Seq(Writes)
      OBVIOUS
    <2> QED
      BY <2>1, Zenon DEF Idle
  <1>2. \A i \in R : LET w == [i EXCEPT !.pc = "gate", !.job = c] IN
          w \in Busy /\ w.pc = "gate" /\ w.job = c
    BY DEF Busy
  <1> QED
    BY <1>1, <1>2

\* The worker goes on to act or to finish.
LEMMA WorkerMoved ==
    ASSUME NEW w \in Busy, NEW p \in {"act", "finish"}
    PROVE  LET v == [w EXCEPT !.pc = p] IN
           v \in Busy /\ v.pc = p /\ v.job = w.job
  BY DEF Busy

\* The worker comes to send t, ...
LEMMA WorkerSends ==
    ASSUME NEW w \in Busy, NEW t \in Seq(Writes)
    PROVE  LET v == [w EXCEPT !.pc = "send", !.todo = t] IN
           v \in Busy /\ v.pc = "send" /\ v.job = w.job /\ v.todo = t
  BY DEF Busy

\* ... also when it will report an error.
LEMMA WorkerSendsError ==
    ASSUME NEW w \in Busy, NEW t \in Seq(Writes)
    PROVE  LET v == [w EXCEPT !.pc = "send", !.todo = t, !.error = TRUE] IN
           v \in Busy /\ v.pc = "send" /\ v.job = w.job /\ v.todo = t
  <1> DEFINE v == [w EXCEPT !.pc = "send", !.todo = t]
  <1>1. [w EXCEPT !.pc = "send", !.todo = t, !.error = TRUE] = [v EXCEPT !.error = TRUE]
    OBVIOUS
  <1>2. v \in Busy /\ v.pc = "send" /\ v.job = w.job /\ v.todo = t
    BY WorkerSends
  <1> HIDE DEF v
  <1>3. [v EXCEPT !.error = TRUE] \in Busy /\ [v EXCEPT !.error = TRUE].pc = v.pc
        /\ [v EXCEPT !.error = TRUE].job = v.job /\ [v EXCEPT !.error = TRUE].todo = v.todo
    BY <1>2 DEF Busy
  <1> QED
    BY <1>1, <1>2, <1>3

\* The worker waits for the answer to a write.
LEMMA WorkerWaits ==
    ASSUME NEW w \in Busy, NEW b \in BOOLEAN
    PROVE  LET v == [w EXCEPT !.pc = "answer", !.landed = b] IN
           v \in Busy /\ v.pc = "answer" /\ v.job = w.job /\ v.todo = w.todo
  <1> DEFINE v == [w EXCEPT !.pc = "answer"]
  <1>1. [w EXCEPT !.pc = "answer", !.landed = b] = [v EXCEPT !.landed = b]
    OBVIOUS
  <1>2. v \in Busy /\ v.pc = "answer" /\ v.job = w.job /\ v.todo = w.todo
    BY DEF Busy
  <1> HIDE DEF v
  <1>3. [v EXCEPT !.landed = b] \in Busy /\ [v EXCEPT !.landed = b].pc = v.pc
        /\ [v EXCEPT !.landed = b].job = v.job /\ [v EXCEPT !.landed = b].todo = v.todo
    BY <1>2 DEF Busy
  <1> QED
    BY <1>1, <1>2, <1>3

\* The row of the comment that is carried out is running.
LEMMA Holds ==
    ASSUME CommandsIInv, worker.pc # "idle"
    PROVE  /\ worker \in Busy /\ up /\ Job \in Jobs /\ inbox[Job].state = "running"
           /\ inbox[Job] \in Row
  BY DEF CommandsIInv, CommandsTypeOK, WorkerShape, Job

\* The worker keeps its comment.
LEMMA WorkGoesOn ==
    ASSUME CommandsIInv, worker.pc # "idle",
           worker' \in Busy, worker'.job = Job, up' = up,
           inbox' \in [Jobs -> Row], \A d \in Jobs : inbox'[d].state = inbox[d].state
    PROVE  /\ WorkerShape' /\ Alone'
           /\ worker'.pc \in {"gate", "act", "send", "answer", "finish"}
           /\ worker'.job \in Jobs /\ inbox'[worker'.job].state = "running"
           /\ worker'.todo \in Seq(Writes) /\ worker'.landed \in BOOLEAN
           /\ worker'.error \in BOOLEAN
  <1>1. worker \in Busy /\ up /\ Job \in Jobs /\ inbox[Job].state = "running"
    BY Holds
  <1>2. WorkerShape'
    BY <1>1 DEF WorkerShape, Busy
  <1>3. Job' = Job
    BY DEF Job
  <1>4. Alone'
    BY <1>3 DEF CommandsIInv, Alone
  <1>5. worker'.pc \in {"gate", "act", "send", "answer", "finish"}
        /\ worker'.job \in Jobs /\ inbox'[worker'.job].state = "running"
    BY <1>1 DEF Busy
  <1>6. worker'.todo \in Seq(Writes) /\ worker'.landed \in BOOLEAN /\ worker'.error \in BOOLEAN
    BY DEF Busy
  <1> QED
    BY <1>2, <1>4, <1>5, <1>6

-----------------------------------------------------------------------------
(* Steps up to the first write. *)

\* The consumer claims the oldest due comment of an issue where nothing is unknown.
LEMMA ClaimStep ==
    ASSUME CommandsIInv, Claim
    PROVE  CommandsIInv'
  <1>1. PICK c \in Eligible :
          /\ inbox' = [inbox EXCEPT ![c].state = "running", ![c].attempts = @ + 1]
          /\ worker' = [Idle EXCEPT !.pc = "gate", !.job = c]
    BY DEF Claim
  <1>2. c \in Jobs /\ inbox[c].state = "pending" /\ inbox[c] \in Row
        /\ \A d \in Jobs : d.issue = c.issue => inbox[d].state \notin {"unknown", "running"}
    BY DEF Eligible, CommandsIInv, CommandsTypeOK
  <1> DEFINE r == [inbox[c] EXCEPT !.state = "running", !.attempts = @ + 1]
  <1>3. r \in Row /\ r.state = "running" /\ r.wrote = inbox[c].wrote
        /\ r.uncertain = inbox[c].uncertain
    BY <1>2, RowClaimed
  <1>4. inbox' = [inbox EXCEPT ![c] = r]
    BY <1>1
  <1> HIDE DEF r
  <1>5. /\ inbox' \in [Jobs -> Row]
        /\ \A d \in Jobs : inbox'[d] = IF d = c THEN r ELSE inbox[d]
    BY <1>2, <1>3, <1>4, RowPut DEF CommandsIInv
  <1>6. worker' \in Busy /\ worker'.pc = "gate" /\ worker'.job = c
    BY <1>1, <1>2, WorkerStarted
  <1>7. up /\ UNCHANGED <<statuses, sessions, labels, assignees, approvals, posts, up, faults>>
    BY DEF Claim, remote
  <1>8. posts[c] = Nothing /\ ~inbox[c].wrote /\ ~inbox[c].uncertain
    BY <1>2 DEF CommandsIInv, RowsClean, Untouched
  <1>9. Job' = c
    BY <1>6 DEF Job
  <1>10. CommandsTypeOK'
    <2>1. worker'.todo \in Seq(Writes) /\ worker'.landed \in BOOLEAN /\ worker'.error \in BOOLEAN
      BY <1>6 DEF Busy
    <2>2. worker'.pc \in {"idle", "gate", "act", "send", "answer", "finish"}
          /\ (IF worker'.pc = "idle" THEN worker' = Idle
              ELSE worker'.job \in Jobs /\ inbox'[worker'.job].state = "running")
      BY <1>2, <1>3, <1>5, <1>6
    <2>3. CommandsTypeOK
      BY DEF CommandsIInv
    <2> QED
      BY <1>5, <1>7, <2>1, <2>2, <2>3 DEF CommandsTypeOK
  <1>11. WorkerShape'
    BY <1>6, <1>7 DEF WorkerShape
  <1>12. RowsClean'
    BY <1>3, <1>5, <1>7, <1>8 DEF CommandsIInv, RowsClean, Untouched
  <1>13. Doubtful'
    BY <1>3, <1>5, <1>8 DEF CommandsIInv, Doubtful
  <1>14. Alone'
    BY <1>2, <1>5, <1>9 DEF Alone
  <1>15. Remaining'
    BY <1>3, <1>5, <1>6, <1>8, <1>9, <1>2 DEF Remaining
  <1>16. PostedOnce' /\ StatusKept'
    BY <1>7 DEF CommandsIInv, PostedOnce, StatusKept
  <1>17. Labelling'
    BY <1>6 DEF Labelling
  <1> QED
    BY <1>10, <1>11, <1>12, <1>13, <1>14, <1>15, <1>16, <1>17 DEF CommandsIInv

\* The worker goes on and touches neither rows nor what is on Forgejo.
LEMMA QuietStep ==
    ASSUME CommandsIInv, worker.pc # "idle",
           worker' \in Busy, worker'.job = Job, UNCHANGED <<inbox, remote, up>>,
           statuses' \in [Issues -> Nat], sessions' \subseteq Jobs, faults' \in 0..MaxFaults,
           Remaining', StatusKept', Labelling'
    PROVE  CommandsIInv'
  <1>1. /\ WorkerShape' /\ Alone'
        /\ worker'.pc \in {"gate", "act", "send", "answer", "finish"}
        /\ worker'.job \in Jobs /\ inbox'[worker'.job].state = "running"
        /\ worker'.todo \in Seq(Writes) /\ worker'.landed \in BOOLEAN
        /\ worker'.error \in BOOLEAN
    <2>1. inbox' \in [Jobs -> Row] /\ \A d \in Jobs : inbox'[d].state = inbox[d].state
      BY DEF CommandsIInv, CommandsTypeOK
    <2> QED
      BY <2>1, WorkGoesOn
  <1>2. CommandsTypeOK'
    BY <1>1 DEF CommandsIInv, CommandsTypeOK, remote
  <1>3. RowsClean' /\ Doubtful' /\ PostedOnce'
    BY DEF CommandsIInv, RowsClean, Untouched, Doubtful, PostedOnce, remote
  <1> QED
    BY <1>1, <1>2, <1>3 DEF CommandsIInv

\* From before its first write the worker comes to send t.
LEMMA FirstSend ==
    ASSUME CommandsIInv, worker.pc \in {"gate", "act"},
           NEW t \in Seq(Writes), t # <<>>, Orderly(t),
           worker' \in Busy, worker'.job = Job, worker'.pc = "send", worker'.todo = t,
           UNCHANGED <<inbox, remote, up>>,
           statuses' \in [Issues -> Nat], sessions' \subseteq Jobs, faults' \in 0..MaxFaults,
           \A i \in Issues : statuses[i] <= statuses'[i],
           \A n \in DOMAIN t :
              /\ t[n].op \in {"add", "drop"} => Job.says \in Status
              /\ t[n].op # "reply" /\ Job.says \in Status => statuses'[Job.issue] = Job.at
    PROVE  CommandsIInv'
  <1>1. Job' = Job /\ Job \in Jobs /\ inbox[Job].state = "running"
    BY Holds DEF Job
  <1>2. ~inbox[Job].wrote
    BY DEF CommandsIInv, Remaining
  <1>3. posts[Job].review = 0 /\ posts[Job].reply = 0
    BY <1>1, <1>2 DEF CommandsIInv, RowsClean, Untouched, Nothing
  <1>4. Remaining'
    BY <1>1, <1>3 DEF Remaining, remote
  <1>5. Labelling'
    BY <1>1 DEF Labelling
  <1>6. StatusKept'
    <2> SUFFICES ASSUME NEW d \in Jobs, d.says \in Status, posts[d].changes
                 PROVE  d.at <= statuses'[d.issue]
      BY DEF StatusKept, remote
    <2>1. d.issue \in Issues /\ d.at \in Nat /\ d.at <= statuses[d.issue]
      BY CommandsAssumption DEF CommandsIInv, StatusKept, Issues
    <2>2. statuses[d.issue] \in Nat /\ statuses'[d.issue] \in Nat
      BY <2>1 DEF CommandsIInv, CommandsTypeOK
    <2> QED
      BY <2>1, <2>2
  <1> QED
    <2>1. worker.pc # "idle"
      OBVIOUS
    <2> QED
      BY <1>4, <1>5, <1>6, <2>1, QuietStep

\* The reply alone is in order.
LEMMA OnlyReply ==
    /\ <<Reply>> \in Seq(Writes) /\ <<Reply>> # <<>> /\ Orderly(<<Reply>>)
    /\ Head(<<Reply>>) = Reply
    /\ \A n \in DOMAIN <<Reply>> : <<Reply>>[n].op = "reply"
  <1>1. Reply \in Writes /\ Reply.op = "reply"
    BY DEF Reply, Writes
  <1> HIDE DEF Reply
  <1>2. <<Reply>> \in Seq(Writes) /\ <<Reply>> # <<>> /\ Len(<<Reply>>) = 1
        /\ DOMAIN <<Reply>> = {1} /\ <<Reply>>[1] = Reply /\ Head(<<Reply>>) = Reply
    BY <1>1
  <1>3. Orderly(<<Reply>>)
    BY <1>1, <1>2 DEF Orderly
  <1> QED
    BY <1>1, <1>2, <1>3

\* The worker comes to send the reply alone.
LEMMA FirstReply ==
    ASSUME CommandsIInv, worker.pc \in {"gate", "act"},
           worker' \in {[worker EXCEPT !.pc = "send", !.todo = <<Reply>>],
                        [worker EXCEPT !.pc = "send", !.todo = <<Reply>>, !.error = TRUE]},
           UNCHANGED <<inbox, remote, up>>,
           statuses' \in [Issues -> Nat], sessions' \subseteq Jobs, faults' \in 0..MaxFaults,
           \A i \in Issues : statuses[i] <= statuses'[i]
    PROVE  CommandsIInv'
  <1>1. worker \in Busy
    BY Holds
  <1> DEFINE t == <<Reply>>
  <1>2. t \in Seq(Writes) /\ t # <<>> /\ Orderly(t) /\ \A n \in DOMAIN t : t[n].op = "reply"
    BY OnlyReply
  <1> HIDE DEF t
  <1>3. worker' \in Busy /\ worker'.pc = "send" /\ worker'.job = Job /\ worker'.todo = t
    <2>1. CASE worker' = [worker EXCEPT !.pc = "send", !.todo = t]
      BY <1>1, <1>2, <2>1, WorkerSends DEF Job
    <2>2. CASE worker' = [worker EXCEPT !.pc = "send", !.todo = t, !.error = TRUE]
      BY <1>1, <1>2, <2>2, WorkerSendsError, ZenonT(60) DEF Job
    <2> QED
      BY <2>1, <2>2 DEF t
  <1> QED
    BY <1>2, <1>3, FirstSend

\* Identity, policy, gate and authorization.
LEMMA CommandsGateStep ==
    ASSUME CommandsIInv, Gate
    PROVE  CommandsIInv'
  <1>1. worker.pc = "gate" /\ up /\ worker \in Busy /\ Job \in Jobs /\ CommandsTypeOK
    BY Holds DEF Gate, At, CommandsIInv
  <1>2. UNCHANGED <<statuses, remote, up>> /\ sessions' \subseteq Jobs
        /\ faults' \in 0..MaxFaults
    <2>1. sessions' = sessions \/ sessions' = sessions \cup {Job}
      BY DEF Gate
    <2>2. faults' = faults \/ (faults < MaxFaults /\ faults' = faults + 1)
      BY DEF Gate, Well, Fails
    <2>3. faults' \in 0..MaxFaults
      BY <1>1, <2>2, FaultCounted DEF CommandsTypeOK
    <2> QED
      BY <1>1, <2>1, <2>3 DEF Gate, Well, Fails, CommandsTypeOK
  <1>3. \/ Done(TRUE)
        \/ UNCHANGED inbox /\ worker' = [worker EXCEPT !.pc = "send", !.todo = <<Reply>>]
        \/ UNCHANGED inbox /\ worker' = [worker EXCEPT !.pc = "act"]
        \/ /\ UNCHANGED inbox
           /\ worker' = [worker EXCEPT !.pc = "send", !.todo = <<Reply>>, !.error = TRUE]
    BY DEF Gate, Send
  <1>4. statuses' \in [Issues -> Nat] /\ \A i \in Issues : statuses[i] <= statuses'[i]
    BY <1>1, <1>2 DEF CommandsTypeOK
  <1>5. CASE Done(TRUE)
    <2>1. worker.pc # "idle" /\ TRUE \in BOOLEAN
      BY <1>1
    <2> QED
      BY <1>2, <1>5, <2>1, DoneStep
  <1>6. CASE UNCHANGED inbox /\ worker' = [worker EXCEPT !.pc = "send", !.todo = <<Reply>>]
    BY <1>1, <1>2, <1>4, <1>6, FirstReply
  <1>7. CASE /\ UNCHANGED inbox
             /\ worker' = [worker EXCEPT !.pc = "send", !.todo = <<Reply>>, !.error = TRUE]
    BY <1>1, <1>2, <1>4, <1>7, FirstReply
  <1>8. CASE UNCHANGED inbox /\ worker' = [worker EXCEPT !.pc = "act"]
    <2>1. worker' \in Busy /\ worker'.pc = "act" /\ worker'.job = Job
      BY <1>1, <1>8, WorkerMoved DEF Job
    <2>2. Remaining'
      BY <1>1, <1>8, <2>1 DEF CommandsIInv, Remaining, Job
    <2>3. StatusKept' /\ Labelling'
      BY <1>2, <2>1 DEF CommandsIInv, StatusKept, Labelling, remote
    <2> QED
      BY <1>1, <1>2, <1>4, <1>8, <2>1, <2>2, <2>3, QuietStep
  <1> QED
    BY <1>3, <1>5, <1>6, <1>7, <1>8

\* What the worker may plan to send: in order, and for a status command labels only.
Plans(t) ==
    /\ t \in Seq(Writes) /\ t # <<>> /\ Orderly(t)
    /\ \A n \in DOMAIN t :
          /\ t[n].op \in {"add", "drop"} => Job.says \in Status
          /\ t[n].op # "reply" /\ Job.says \in Status => t[n].op \in {"add", "drop"}

\* What each command plans is so.
LEMMA ActPlans ==
    ASSUME CommandsIInv, worker.pc = "act"
    PROVE  /\ Job.says \in Status => Plans(StatusWrites(Job.says) \o <<Reply>>)
           /\ Job.says \in {"claim", "unclaim"} =>
                Plans(<<[op |-> "assign", users |-> Membership], Reply>>)
           /\ Job.says = "r+" => Plans(<<[op |-> "approve"], Reply>>)
           /\ Job.says = "r-" => Plans(Withdrawals \o <<Reply>>)
           /\ Plans(<<Reply>>)
  <1>1. Job \in Jobs /\ CommandsTypeOK
    BY Holds DEF CommandsIInv
  <1>2. ASSUME Job.says \in Status
        PROVE  Plans(StatusWrites(Job.says) \o <<Reply>>)
    <2> DEFINE s == StatusWrites(Job.says)
    <2>1. s \in Seq(Writes) /\ \A n \in DOMAIN s : s[n].op \in {"add", "drop"}
      BY <1>2, StatusWritesShape
    <2> HIDE DEF s
    <2> DEFINE t == s \o <<Reply>>
    <2>2. /\ t \in Seq(Writes) /\ t # <<>> /\ Orderly(t)
          /\ \A n \in DOMAIN t : t[n].op = "reply" \/ \E m \in DOMAIN s : t[n] = s[m]
      BY <2>1, AnsweredLast
    <2> HIDE DEF t
    <2>3. Plans(t)
      BY <1>2, <2>1, <2>2 DEF Plans
    <2> QED
      BY <2>3 DEF s, t
  <1>3. ASSUME Job.says = "r-"
        PROVE  Plans(Withdrawals \o <<Reply>>)
    <2> DEFINE s == Withdrawals
    <2>1. s \in Seq(Writes) /\ \A n \in DOMAIN s : s[n].op = "dismiss"
      BY <1>1, WithdrawalsShape
    <2> HIDE DEF s
    <2> DEFINE t == s \o <<Reply>>
    <2>2. /\ t \in Seq(Writes) /\ t # <<>> /\ Orderly(t)
          /\ \A n \in DOMAIN t : t[n].op = "reply" \/ \E m \in DOMAIN s : t[n] = s[m]
      BY <2>1, AnsweredLast
    <2>3. Job.says \notin Status
      BY <1>3 DEF Status
    <2> HIDE DEF t
    <2>4. Plans(t)
      BY <2>1, <2>2, <2>3 DEF Plans
    <2> QED
      BY <2>4 DEF s, t
  <1>4. ASSUME NEW w \in Writes, w.op \in {"assign", "approve"}, Job.says \notin Status
        PROVE  Plans(<<w, Reply>>)
    <2>1. Reply \in Writes /\ Reply.op = "reply"
      BY DEF Reply, Writes
    <2> DEFINE t == <<w, Reply>>
    <2>2. t \in Seq(Writes) /\ t # <<>> /\ Len(t) = 2 /\ DOMAIN t = {1, 2}
          /\ t[1] = w /\ t[2] = Reply
      BY <2>1
    <2> HIDE DEF t
    <2>3. Plans(t)
      BY <1>4, <2>1, <2>2 DEF Plans, Orderly
    <2> QED
      BY <2>3 DEF t
  <1>5. ASSUME Job.says \in {"claim", "unclaim"}
        PROVE  Plans(<<[op |-> "assign", users |-> Membership], Reply>>)
    <2>1. Membership \subseteq Users
      BY <1>1 DEF Membership, CommandsTypeOK, Issues, Users
    <2> DEFINE w == [op |-> "assign", users |-> Membership]
    <2>2. w \in Writes /\ w.op = "assign"
      BY <2>1 DEF Writes
    <2>3. Job.says \notin Status
      BY <1>5 DEF Status
    <2> HIDE DEF w
    <2>4. Plans(<<w, Reply>>)
      BY <1>4, <2>2, <2>3
    <2> QED
      BY <2>4 DEF w
  <1>6. ASSUME Job.says = "r+"
        PROVE  Plans(<<[op |-> "approve"], Reply>>)
    <2> DEFINE w == [op |-> "approve"]
    <2>2. w \in Writes /\ w.op = "approve"
      BY DEF Writes
    <2>3. Job.says \notin Status
      BY <1>6 DEF Status
    <2> HIDE DEF w
    <2>4. Plans(<<w, Reply>>)
      BY <1>4, <2>2, <2>3
    <2> QED
      BY <2>4 DEF w
  <1>7. Plans(<<Reply>>)
    BY OnlyReply DEF Plans
  <1> QED
    BY <1>2, <1>3, <1>5, <1>6, <1>7

\* handle_one up to its first write; a late status command plans nothing.
LEMMA ActStep ==
    ASSUME CommandsIInv, Act
    PROVE  CommandsIInv'
  <1> DEFINE i == Job.issue
             late == Job.says \in Status /\ Job.at < statuses[i]
  <1>1. worker.pc = "act" /\ up /\ worker \in Busy /\ Job \in Jobs /\ CommandsTypeOK
    BY Holds DEF Act, At, CommandsIInv
  <1>2. UNCHANGED <<inbox, sessions, remote, up>> /\ sessions' \subseteq Jobs
        /\ faults' \in 0..MaxFaults
    <2>2. faults' = faults \/ (faults < MaxFaults /\ faults' = faults + 1)
      BY DEF Act, Well, Fails
    <2>3. faults' \in 0..MaxFaults
      BY <1>1, <2>2, FaultCounted DEF CommandsTypeOK
    <2> QED
      BY <1>1, <2>3 DEF Act, Well, Fails, CommandsTypeOK
  <1>3. /\ i \in Issues /\ Job.at \in Nat /\ statuses \in [Issues -> Nat]
        /\ Job.says \in Commands
    BY <1>1, CommandsAssumption DEF Issues, CommandsTypeOK
  <1>4. statuses' = IF Job.says \in Status /\ ~late
                    THEN [statuses EXCEPT ![i] = Job.at] ELSE statuses
    BY DEF Act
  <1>5. /\ statuses' \in [Issues -> Nat] /\ \A k \in Issues : statuses[k] <= statuses'[k]
        /\ Job.says \in Status /\ ~late => statuses'[i] = Job.at
    BY <1>3, <1>4
  <1>6. \/ late /\ worker' = [worker EXCEPT !.pc = "finish"]
        \/ ~late /\ \E t : Plans(t) /\ Send(t)
    <2> DEFINE done == worker' = [worker EXCEPT !.pc = "finish"]
               labelling == Send(StatusWrites(Job.says) \o <<Reply>>)
               assigning == Send(<<[op |-> "assign", users |-> Membership], Reply>>)
               approving == Send(<<[op |-> "approve"], Reply>>)
               withdrawing == Send(Withdrawals \o <<Reply>>)
               answering == Send(<<Reply>>)
    <2>1. \/ CASE late -> done
               [] Job.says \in Status /\ ~late -> labelling
               [] Job.says \in {"claim", "unclaim"} -> assigning
               [] Job.says = "r+" -> approving
               [] Job.says = "r-" -> withdrawing
               [] Job.says = "ping" -> answering
          \/ ~late /\ answering
      BY DEF Act
    <2>2. Job.says \in Status \cup {"claim", "unclaim", "r+", "r-", "ping"}
          /\ (late => Job.says \in Status)
      BY <1>3 DEF Commands
    <2> HIDE DEF late, done, labelling, assigning, approving, withdrawing, answering
    <2>3. \/ late /\ done
          \/ ~late /\ Job.says \in Status /\ labelling
          \/ ~late /\ Job.says \in {"claim", "unclaim"} /\ assigning
          \/ ~late /\ Job.says = "r+" /\ approving
          \/ ~late /\ Job.says = "r-" /\ withdrawing
          \/ ~late /\ answering
      BY <2>1, <2>2 DEF Status
    <2> USE DEF done, labelling, assigning, approving, withdrawing, answering
    <2> QED
      BY <1>1, <2>3, ActPlans
  <1>7. CASE worker' = [worker EXCEPT !.pc = "finish"]
    <2>1. worker' \in Busy /\ worker'.pc = "finish" /\ worker'.job = Job
      BY <1>1, <1>7, WorkerMoved DEF Job
    <2>2. Remaining' /\ Labelling'
      BY <2>1 DEF Remaining, Labelling
    <2>3. StatusKept'
      <3> SUFFICES ASSUME NEW d \in Jobs, d.says \in Status, posts[d].changes
                   PROVE  d.at <= statuses'[d.issue]
        BY <1>2 DEF StatusKept, remote
      <3>1. d.issue \in Issues /\ d.at \in Nat /\ d.at <= statuses[d.issue]
        BY CommandsAssumption DEF CommandsIInv, StatusKept, Issues
      <3>2. statuses[d.issue] \in Nat /\ statuses'[d.issue] \in Nat
        BY <1>3, <1>5, <3>1
      <3> QED
        BY <1>5, <3>1, <3>2
    <2> QED
      BY <1>1, <1>2, <1>5, <2>1, <2>2, <2>3, QuietStep
  <1>8. ASSUME ~late, NEW t, Plans(t), Send(t)
        PROVE  CommandsIInv'
    <2>1. t \in Seq(Writes) /\ t # <<>> /\ Orderly(t)
      BY <1>8 DEF Plans
    <2>2. worker' \in Busy /\ worker'.pc = "send" /\ worker'.job = Job /\ worker'.todo = t
      BY <1>1, <1>8, <2>1, WorkerSends DEF Send, Job
    <2>3. \A n \in DOMAIN t :
            /\ t[n].op \in {"add", "drop"} => Job.says \in Status
            /\ t[n].op # "reply" /\ Job.says \in Status => statuses'[Job.issue] = Job.at
      BY <1>5, <1>8 DEF Plans
    <2> QED
      BY <1>1, <1>2, <1>5, <2>1, <2>2, <2>3, FirstSend
  <1> QED
    BY <1>6, <1>7, <1>8

-----------------------------------------------------------------------------
(* Writes. *)

\* What a comment made appear.
Post == [review : Nat, reply : Nat, changes : BOOLEAN]

\* One more review, reply or change.
LEMMA PostMade ==
    ASSUME NEW p \in Post
    PROVE  /\ LET q == [p EXCEPT !.review = @ + 1] IN
              /\ q \in Post /\ q.review = p.review + 1 /\ q.reply = p.reply
              /\ q.changes = p.changes
           /\ LET q == [p EXCEPT !.reply = @ + 1] IN
              /\ q \in Post /\ q.review = p.review /\ q.reply = p.reply + 1
              /\ q.changes = p.changes
           /\ LET q == [p EXCEPT !.changes = TRUE] IN
              /\ q \in Post /\ q.review = p.review /\ q.reply = p.reply
  <1>1. ASSUME NEW n \in Nat
        PROVE  /\ [p EXCEPT !.review = n] \in Post /\ [p EXCEPT !.review = n].review = n
               /\ [p EXCEPT !.review = n].reply = p.reply
               /\ [p EXCEPT !.review = n].changes = p.changes
    BY DEF Post
  <1>2. ASSUME NEW n \in Nat
        PROVE  /\ [p EXCEPT !.reply = n] \in Post /\ [p EXCEPT !.reply = n].reply = n
               /\ [p EXCEPT !.reply = n].review = p.review
               /\ [p EXCEPT !.reply = n].changes = p.changes
    BY DEF Post
  <1>3. /\ [p EXCEPT !.changes = TRUE] \in Post
        /\ [p EXCEPT !.changes = TRUE].review = p.review
        /\ [p EXCEPT !.changes = TRUE].reply = p.reply
    BY DEF Post
  <1>4. p.review + 1 \in Nat /\ p.reply + 1 \in Nat
    BY DEF Post
  <1> QED
    BY <1>1, <1>2, <1>3, <1>4

\* What a request makes appear when it takes effect.
LEMMA PostsAfter ==
    ASSUME CommandsTypeOK, Job \in Jobs, NEW w \in Writes, Lands(w)
    PROVE  /\ posts' \in [Jobs -> Post]
           /\ \A c \in Jobs : c # Job => posts'[c] = posts[c]
           /\ posts'[Job].review = posts[Job].review + (IF w.op = "approve" THEN 1 ELSE 0)
           /\ posts'[Job].reply = posts[Job].reply + (IF w.op = "reply" THEN 1 ELSE 0)
           /\ w.op \in {"approve", "reply"} => posts'[Job].changes = posts[Job].changes
  <1>1. posts \in [Jobs -> Post] /\ posts[Job] \in Post
    BY DEF CommandsTypeOK, Post
  <1>2. posts[Job].review \in Nat /\ posts[Job].reply \in Nat
    BY <1>1 DEF Post
  <1>3. ASSUME NEW q \in Post, posts' = [posts EXCEPT ![Job] = q]
        PROVE  /\ posts' \in [Jobs -> Post] /\ posts'[Job] = q
               /\ \A c \in Jobs : c # Job => posts'[c] = posts[c]
    BY <1>1, <1>3
  <1>4. CASE w.op = "approve"
    <2> DEFINE q == [posts[Job] EXCEPT !.review = @ + 1]
    <2>1. posts' = [posts EXCEPT ![Job] = q]
      BY <1>4 DEF Lands
    <2>2. q \in Post /\ q.review = posts[Job].review + 1 /\ q.reply = posts[Job].reply
          /\ q.changes = posts[Job].changes
      BY <1>1, PostMade
    <2> HIDE DEF q
    <2>3. /\ posts' \in [Jobs -> Post] /\ posts'[Job] = q
          /\ \A c \in Jobs : c # Job => posts'[c] = posts[c]
      BY <1>3, <2>1, <2>2
    <2> QED
      BY <1>2, <1>4, <2>2, <2>3
  <1>5. CASE w.op = "reply"
    <2> DEFINE q == [posts[Job] EXCEPT !.reply = @ + 1]
    <2>1. posts' = [posts EXCEPT ![Job] = q]
      BY <1>5 DEF Lands
    <2>2. q \in Post /\ q.review = posts[Job].review /\ q.reply = posts[Job].reply + 1
          /\ q.changes = posts[Job].changes
      BY <1>1, PostMade
    <2> HIDE DEF q
    <2>3. /\ posts' \in [Jobs -> Post] /\ posts'[Job] = q
          /\ \A c \in Jobs : c # Job => posts'[c] = posts[c]
      BY <1>3, <2>1, <2>2
    <2> QED
      BY <1>2, <1>5, <2>2, <2>3
  <1>6. CASE w.op \notin {"approve", "reply"}
    <2> DEFINE q == [posts[Job] EXCEPT !.changes = TRUE]
    <2>1. posts' = [posts EXCEPT ![Job] = q]
      BY <1>6 DEF Lands
    <2>2. q \in Post /\ q.review = posts[Job].review /\ q.reply = posts[Job].reply
      BY <1>1, PostMade
    <2> HIDE DEF q
    <2>3. /\ posts' \in [Jobs -> Post] /\ posts'[Job] = q
          /\ \A c \in Jobs : c # Job => posts'[c] = posts[c]
      BY <1>3, <2>1, <2>2
    <2> QED
      BY <1>2, <1>6, <2>2, <2>3
  <1> QED
    BY <1>4, <1>5, <1>6

\* A request changes the issue of its comment only, and labels by add and drop.
LEMMA IssueAfter ==
    ASSUME CommandsTypeOK, Job \in Jobs, NEW w \in Writes, Lands(w)
    PROVE  /\ labels' \in [Issues -> SUBSET Status] /\ assignees' \in [Issues -> SUBSET Users]
           /\ approvals' \in [Issues -> SUBSET Jobs]
           /\ \A i \in Issues : i # Job.issue =>
                UNCHANGED <<labels[i], assignees[i], approvals[i]>>
           /\ w.op \notin {"add", "drop"} => labels' = labels
  <1> USE DEF CommandsTypeOK
  <1>1. Job.issue \in Issues
    BY DEF Issues
  <1>2. /\ w.op \in {"add", "drop"} => w.label \in Status
        /\ w.op = "assign" => w.users \in SUBSET Users
    BY DEF Writes
  <1>3. labels' \in [Issues -> SUBSET Status]
        /\ (\A i \in Issues : i # Job.issue => labels'[i] = labels[i])
        /\ (w.op \notin {"add", "drop"} => labels' = labels)
    <2>1. CASE w.op = "add"
      BY <1>1, <1>2, <2>1 DEF Lands
    <2>2. CASE w.op = "drop"
      BY <1>1, <1>2, <2>2 DEF Lands
    <2>3. CASE w.op \notin {"add", "drop"}
      BY <2>3 DEF Lands
    <2> QED
      BY <2>1, <2>2, <2>3
  <1>4. assignees' \in [Issues -> SUBSET Users]
        /\ (\A i \in Issues : i # Job.issue => assignees'[i] = assignees[i])
    BY <1>1, <1>2 DEF Lands
  <1>5. approvals' \in [Issues -> SUBSET Jobs]
        /\ (\A i \in Issues : i # Job.issue => approvals'[i] = approvals[i])
    <2>1. CASE w.op = "approve"
      BY <1>1, <2>1 DEF Lands
    <2>2. CASE w.op = "dismiss"
      BY <1>1, <2>2 DEF Lands
    <2>3. CASE w.op \notin {"approve", "dismiss"}
      BY <2>3 DEF Lands
    <2> QED
      BY <2>1, <2>2, <2>3
  <1> QED
    BY <1>3, <1>4, <1>5

\* What SendNext does: the row is marked, and the request may take effect.
LEMMA Sent ==
    ASSUME CommandsIInv, SendNext
    PROVE  /\ worker.pc = "send" /\ up /\ worker \in Busy /\ Job \in Jobs
           /\ worker.todo \in Seq(Writes) /\ worker.todo # <<>> /\ Orderly(worker.todo)
           /\ Head(worker.todo) \in Writes /\ 1 \in DOMAIN worker.todo
           /\ Head(worker.todo) = worker.todo[1]
           /\ ~inbox[Job].uncertain
           /\ inbox' \in [Jobs -> Row]
           /\ \A d \in Jobs : /\ inbox'[d].state = inbox[d].state
                              /\ inbox'[d].uncertain = inbox[d].uncertain
                              /\ d # Job => inbox'[d] = inbox[d]
           /\ inbox'[Job].wrote
           /\ worker' \in Busy /\ worker'.pc = "answer" /\ worker'.job = Job
           /\ worker'.todo = worker.todo
           /\ Lands(Head(worker.todo)) \/ UNCHANGED remote
  <1>1. worker.pc = "send" /\ up /\ worker \in Busy /\ Job \in Jobs /\ CommandsTypeOK
        /\ inbox[Job] \in Row
    BY Holds DEF SendNext, At, CommandsIInv
  <1>2. worker.todo # <<>> /\ Orderly(worker.todo) /\ ~inbox[Job].uncertain
    BY <1>1 DEF SendNext, BeforeWrite, CommandsIInv, Remaining
  <1>3. worker.todo \in Seq(Writes)
    BY <1>1 DEF Busy
  <1>4. Head(worker.todo) \in Writes /\ 1 \in DOMAIN worker.todo
        /\ Head(worker.todo) = worker.todo[1]
    BY <1>2, <1>3, TailOrderly
  <1> DEFINE r == [inbox[Job] EXCEPT !.wrote = TRUE]
  <1>5. inbox' = [inbox EXCEPT ![Job] = r]
    BY DEF SendNext, BeforeWrite
  <1>6. r \in Row /\ r.state = inbox[Job].state /\ r.wrote /\ r.uncertain = inbox[Job].uncertain
    BY <1>1, RowWrote
  <1> HIDE DEF r
  <1>7. /\ inbox' \in [Jobs -> Row]
        /\ \A d \in Jobs : inbox'[d] = IF d = Job THEN r ELSE inbox[d]
    BY <1>1, <1>5, <1>6, RowPut
  <1>8. PICK b \in BOOLEAN : worker' = [worker EXCEPT !.pc = "answer", !.landed = b]
    BY DEF SendNext
  <1>9. worker' \in Busy /\ worker'.pc = "answer" /\ worker'.job = Job
        /\ worker'.todo = worker.todo
    BY <1>1, <1>8, WorkerWaits DEF Job
  <1>10. Lands(Head(worker.todo)) \/ UNCHANGED remote
    BY DEF SendNext
  <1> QED
    BY <1>1, <1>2, <1>3, <1>4, <1>6, <1>7, <1>9, <1>10

\* before_write and the request.
LEMMA SendNextStep ==
    ASSUME CommandsIInv, SendNext
    PROVE  CommandsIInv'
  <1> DEFINE w == Head(worker.todo)
  <1>1. /\ worker.pc = "send" /\ up /\ worker \in Busy /\ Job \in Jobs
        /\ worker.todo \in Seq(Writes) /\ worker.todo # <<>> /\ Orderly(worker.todo)
        /\ w \in Writes /\ 1 \in DOMAIN worker.todo /\ w = worker.todo[1]
        /\ ~inbox[Job].uncertain
    BY Sent
  <1>2. /\ inbox' \in [Jobs -> Row]
        /\ \A d \in Jobs : /\ inbox'[d].state = inbox[d].state
                           /\ inbox'[d].uncertain = inbox[d].uncertain
                           /\ d # Job => inbox'[d] = inbox[d]
        /\ inbox'[Job].wrote
    BY Sent
  <1>3. /\ worker' \in Busy /\ worker'.pc = "answer" /\ worker'.job = Job
        /\ worker'.todo = worker.todo
        /\ Lands(w) \/ UNCHANGED remote
    BY Sent
  <1>4. CommandsTypeOK
    BY DEF CommandsIInv
  <1>5. UNCHANGED <<statuses, sessions, up, faults>>
    BY DEF SendNext, Well
  <1> HIDE DEF w
  <1>6. /\ posts' \in [Jobs -> Post]
        /\ \A c \in Jobs : c # Job => posts'[c] = posts[c]
        /\ w.op # "approve" => posts'[Job].review <= posts[Job].review
        /\ posts'[Job].review <= posts[Job].review + 1
        /\ w.op # "reply" => posts'[Job].reply <= posts[Job].reply
        /\ posts'[Job].reply <= posts[Job].reply + 1
        /\ w.op \in {"approve", "reply"} => posts'[Job].changes = posts[Job].changes
    <2>1. posts \in [Jobs -> Post] /\ posts[Job] \in Post
      BY <1>1, <1>4 DEF CommandsTypeOK, Post
    <2>2. posts[Job].review \in Nat /\ posts[Job].reply \in Nat
      BY <2>1 DEF Post
    <2>3. CASE UNCHANGED remote
      BY <2>1, <2>2, <2>3 DEF remote
    <2>4. CASE Lands(w)
      BY <1>1, <1>4, <2>2, <2>4, PostsAfter
    <2> QED
      BY <1>3, <2>3, <2>4
  <1>7. /\ labels' \in [Issues -> SUBSET Status] /\ assignees' \in [Issues -> SUBSET Users]
        /\ approvals' \in [Issues -> SUBSET Jobs]
    <2>1. CASE UNCHANGED remote
      BY <1>4, <2>1 DEF remote, CommandsTypeOK
    <2>2. CASE Lands(w)
      BY <1>1, <1>4, <2>2, IssueAfter
    <2> QED
      BY <1>3, <2>1, <2>2
  <1>8. /\ WorkerShape' /\ Alone'
        /\ worker'.pc \in {"gate", "act", "send", "answer", "finish"}
        /\ worker'.job \in Jobs /\ inbox'[worker'.job].state = "running"
        /\ worker'.todo \in Seq(Writes) /\ worker'.landed \in BOOLEAN
        /\ worker'.error \in BOOLEAN
    <2>1. worker.pc # "idle"
      BY <1>1
    <2> QED
      BY <1>2, <1>3, <1>5, <2>1, WorkGoesOn
  <1>9. Job' = Job
    BY <1>3 DEF Job
  <1>10. CommandsTypeOK'
    BY <1>2, <1>4, <1>5, <1>6, <1>7, <1>8 DEF CommandsTypeOK, Post
  <1>11. RowsClean'
    <2> SUFFICES ASSUME NEW c \in Jobs, Untouched(c)'
                 PROVE  posts'[c] = Nothing /\ ~inbox'[c].wrote /\ ~inbox'[c].uncertain
      BY DEF RowsClean
    <2>1. c # Job
      <3>1. inbox[Job].state = "running"
        BY <1>1, Holds
      <3> QED
        BY <1>1, <1>2, <3>1 DEF Untouched
    <2>2. Untouched(c)
      BY <1>2, <2>1 DEF Untouched
    <2> QED
      BY <1>2, <1>6, <2>1, <2>2 DEF CommandsIInv, RowsClean
  <1>12. Doubtful'
    BY <1>2 DEF CommandsIInv, Doubtful
  <1>13. posts[Job].reply = 0 /\ (w.op = "approve" => posts[Job].review = 0)
    BY <1>1 DEF CommandsIInv, Remaining, w
  <1>14. posts'[Job].reply \in Nat /\ posts'[Job].review \in Nat /\ posts[Job].review \in Nat
         /\ posts[Job].review <= 1
    BY <1>1, <1>4, <1>6 DEF Post, CommandsTypeOK, CommandsIInv, PostedOnce
  <1>15. Remaining'
    <2>1. w.op # "reply" => posts'[Job].reply = 0
      BY <1>6, <1>13, <1>14
    <2> QED
      BY <1>1, <1>2, <1>3, <1>9, <2>1 DEF Remaining, w
  <1>16. PostedOnce'
    <2>1. posts'[Job].review <= 1 /\ posts'[Job].reply <= 1
      BY <1>6, <1>13, <1>14
    <2> QED
      BY <1>6, <2>1 DEF CommandsIInv, PostedOnce
  <1>17. StatusKept'
    <2> SUFFICES ASSUME NEW d \in Jobs, d.says \in Status, posts'[d].changes
                 PROVE  d.at <= statuses'[d.issue]
      BY DEF StatusKept
    <2>1. CASE posts[d].changes
      BY <1>5, <2>1 DEF CommandsIInv, StatusKept
    <2>2. CASE ~posts[d].changes
      <3>1. d = Job /\ w.op \notin {"approve", "reply"}
        BY <1>6, <2>2
      <3>2. statuses[d.issue] = d.at
        BY <1>1, <3>1 DEF CommandsIInv, Labelling
      <3>3. d.at \in Nat
        BY CommandsAssumption
      <3> QED
        BY <1>5, <3>2, <3>3
    <2> QED
      BY <2>1, <2>2
  <1>18. Labelling'
    BY <1>1, <1>3, <1>5, <1>9 DEF CommandsIInv, Labelling
  <1> QED
    BY <1>8, <1>10, <1>11, <1>12, <1>15, <1>16, <1>17, <1>18 DEF CommandsIInv

\* after_write and the error paths of the handlers.
LEMMA AnswerStep ==
    ASSUME CommandsIInv, Answer
    PROVE  CommandsIInv'
  <1> DEFINE rest == Tail(worker.todo)
             after == IF Head(worker.todo).op \in {"dismiss", "reply"} THEN rest ELSE <<Reply>>
  <1>1. worker.pc = "answer" /\ up /\ worker \in Busy /\ Job \in Jobs /\ CommandsTypeOK
        /\ inbox[Job] \in Row /\ inbox[Job].state = "running"
    BY Holds DEF Answer, At, CommandsIInv
  <1>2. /\ inbox[Job].wrote /\ worker.todo # <<>> /\ Orderly(worker.todo)
        /\ Head(worker.todo).op # "reply" => posts[Job].reply = 0
    BY <1>1 DEF CommandsIInv, Remaining
  <1>3. worker.todo \in Seq(Writes)
    BY <1>1 DEF Busy
  <1>4. /\ rest \in Seq(Writes) /\ Orderly(rest)
        /\ Head(worker.todo).op = "reply" <=> rest = <<>>
        /\ \A n \in DOMAIN rest : n + 1 \in DOMAIN worker.todo /\ rest[n] = worker.todo[n + 1]
        /\ \A n \in DOMAIN rest : rest[n].op # "approve"
    BY <1>2, <1>3, TailOrderly
  <1>5. UNCHANGED <<statuses, sessions, labels, assignees, approvals, posts, up>>
        /\ faults' \in 0..MaxFaults
    <2>1. faults' = faults \/ (faults < MaxFaults /\ faults' = faults + 1)
      BY DEF Answer, Well, Fails
    <2>2. faults' \in 0..MaxFaults
      BY <1>1, <2>1, FaultCounted DEF CommandsTypeOK
    <2> QED
      BY <2>2 DEF Answer, Well, Fails, remote
  <1>6. PICK t \in {rest, after} : worker' = [worker EXCEPT !.pc = "send", !.todo = t]
    BY DEF Answer, Send
  <1>7. /\ t \in Seq(Writes) /\ Orderly(t)
        /\ t # <<>> => posts[Job].reply = 0
        /\ t # <<>> => Head(t).op # "approve"
        /\ \A n \in DOMAIN t :
              t[n].op = "reply" \/ \E m \in DOMAIN worker.todo : t[n] = worker.todo[m]
    <2>1. CASE t = rest
      <3>1. rest # <<>> => 1 \in DOMAIN rest /\ Head(rest) = rest[1]
        BY <1>4
      <3> QED
        BY <1>2, <1>4, <2>1, <3>1
    <2>2. CASE t # rest
      <3>1. t = <<Reply>> /\ Head(worker.todo).op # "reply"
        BY <1>6, <2>2
      <3>2. Reply.op # "approve"
        BY DEF Reply
      <3> QED
        BY <1>2, <3>1, <3>2, OnlyReply
    <2> QED
      BY <2>1, <2>2
  <1> HIDE DEF rest, after
  <1>8. worker' \in Busy /\ worker'.pc = "send" /\ worker'.job = Job /\ worker'.todo = t
    BY <1>1, <1>6, <1>7, WorkerSends DEF Job
  <1>9. /\ inbox' \in [Jobs -> Row]
        /\ \A d \in Jobs : /\ inbox'[d].state = inbox[d].state
                           /\ inbox'[d].wrote = inbox[d].wrote
                           /\ d # Job => inbox'[d] = inbox[d]
    <2>1. CASE UNCHANGED inbox
      BY <1>1, <2>1 DEF CommandsTypeOK
    <2>2. CASE \E u \in BOOLEAN : inbox' = [inbox EXCEPT ![Job].failed = TRUE,
                                                         ![Job].uncertain = @ \/ u]
      <3>1. PICK u \in BOOLEAN : inbox' = [inbox EXCEPT ![Job].failed = TRUE,
                                                        ![Job].uncertain = @ \/ u]
        BY <2>2
      <3> DEFINE r == [inbox[Job] EXCEPT !.failed = TRUE, !.uncertain = @ \/ u]
      <3>2. inbox' = [inbox EXCEPT ![Job] = r]
        BY <1>1, <3>1 DEF CommandsTypeOK
      <3>3. r \in Row /\ r.state = inbox[Job].state /\ r.wrote = inbox[Job].wrote
        BY <1>1, RowMarked
      <3> HIDE DEF r
      <3>4. /\ inbox' \in [Jobs -> Row]
            /\ \A d \in Jobs : inbox'[d] = IF d = Job THEN r ELSE inbox[d]
        BY <1>1, <3>2, <3>3, RowPut
      <3> QED
        BY <3>3, <3>4
    <2>3. UNCHANGED inbox \/ \E u \in BOOLEAN :
            inbox' = [inbox EXCEPT ![Job].failed = TRUE, ![Job].uncertain = @ \/ u]
      BY DEF Answer
    <2> QED
      BY <2>1, <2>2, <2>3
  <1>10. Job' = Job
    BY <1>8 DEF Job
  <1>11. /\ WorkerShape' /\ Alone'
         /\ worker'.pc \in {"gate", "act", "send", "answer", "finish"}
         /\ worker'.job \in Jobs /\ inbox'[worker'.job].state = "running"
         /\ worker'.todo \in Seq(Writes) /\ worker'.landed \in BOOLEAN
         /\ worker'.error \in BOOLEAN
    <2>1. worker.pc # "idle"
      BY <1>1
    <2> QED
      BY <1>5, <1>8, <1>9, <2>1, WorkGoesOn
  <1>12. CommandsTypeOK'
    BY <1>1, <1>5, <1>9, <1>11 DEF CommandsTypeOK
  <1>13. RowsClean'
    <2> SUFFICES ASSUME NEW c \in Jobs, Untouched(c)'
                 PROVE  posts'[c] = Nothing /\ ~inbox'[c].wrote /\ ~inbox'[c].uncertain
      BY DEF RowsClean
    <2>1. c # Job
      BY <1>1, <1>2, <1>9 DEF Untouched
    <2>2. Untouched(c)
      BY <1>9 DEF Untouched
    <2> QED
      BY <1>5, <1>9, <2>1, <2>2 DEF CommandsIInv, RowsClean
  <1>14. Doubtful'
    BY <1>1, <1>9 DEF CommandsIInv, Doubtful
  <1>15. Remaining'
    BY <1>5, <1>7, <1>8, <1>10 DEF Remaining
  <1>16. PostedOnce' /\ StatusKept'
    BY <1>5 DEF CommandsIInv, PostedOnce, StatusKept
  <1>17. Labelling'
    <2> SUFFICES ASSUME NEW n \in DOMAIN t
                 PROVE  /\ t[n].op \in {"add", "drop"} => Job.says \in Status
                        /\ t[n].op # "reply" /\ Job.says \in Status =>
                             statuses[Job.issue] = Job.at
      BY <1>5, <1>8, <1>10 DEF Labelling
    <2> QED
      BY <1>1, <1>7 DEF CommandsIInv, Labelling
  <1> QED
    BY <1>11, <1>12, <1>13, <1>14, <1>15, <1>16, <1>17 DEF CommandsIInv

-----------------------------------------------------------------------------
(* The theorems. *)

\* The empty inbox.
LEMMA CommandsInitHolds ==
    ASSUME CommandsInit
    PROVE  CommandsIInv
  <1>1. Fresh \in Row /\ Fresh.state = "absent" /\ ~Fresh.wrote /\ ~Fresh.uncertain
    <2>1. Fresh \in Row
      <3>1. /\ 0 \in Nat
            /\ "absent" \in {"absent", "pending", "running", "unknown", "failed", "succeeded"}
        OBVIOUS
      <3> QED
        BY <3>1, Zenon DEF Fresh, Row
    <2> QED
      BY <2>1 DEF Fresh
  <1>2. Nothing \in Post /\ Nothing.review = 0 /\ Nothing.reply = 0 /\ ~Nothing.changes
    <2>1. Nothing \in Post
      <3>1. 0 \in Nat
        OBVIOUS
      <3> QED
        BY <3>1, Zenon DEF Nothing, Post
    <2> QED
      BY <2>1 DEF Nothing
  <1>3. Idle.pc = "idle" /\ Idle.todo = <<>> /\ Idle.landed = FALSE /\ Idle.error = FALSE
    BY DEF Idle
  <1>4. /\ inbox \in [Jobs -> Row] /\ posts \in [Jobs -> Post]
        /\ \A c \in Jobs : inbox[c] = Fresh /\ posts[c] = Nothing
    BY <1>1, <1>2 DEF CommandsInit
  <1>5. worker = Idle /\ worker.pc = "idle"
    BY <1>3 DEF CommandsInit
  <1>6. CommandsTypeOK
    <2>1. worker.todo \in Seq(Writes) /\ worker.landed \in BOOLEAN /\ worker.error \in BOOLEAN
      <3>1. <<>> \in Seq(Writes)
        OBVIOUS
      <3> QED
        BY <1>3, <1>5, <3>1, Zenon
    <2>2. statuses \in [Issues -> Nat] /\ sessions \subseteq Jobs
          /\ labels \in [Issues -> SUBSET Status] /\ assignees \in [Issues -> SUBSET Users]
          /\ approvals \in [Issues -> SUBSET Jobs]
      BY DEF CommandsInit
    <2>3. up \in BOOLEAN /\ faults \in 0..MaxFaults
      BY CommandsAssumption DEF CommandsInit
    <2> QED
      BY <1>4, <1>5, <2>1, <2>2, <2>3 DEF CommandsTypeOK, Post
  <1>7. WorkerShape /\ Alone /\ Remaining /\ Labelling
    BY <1>5 DEF WorkerShape, Alone, Remaining, Labelling
  <1>8. RowsClean /\ Doubtful
    BY <1>1, <1>4 DEF RowsClean, Doubtful
  <1>9. PostedOnce /\ StatusKept
    BY <1>2, <1>4 DEF PostedOnce, StatusKept
  <1> QED
    BY <1>6, <1>7, <1>8, <1>9 DEF CommandsIInv

\* Nothing happens.
LEMMA CommandsStutterHolds ==
    ASSUME CommandsIInv, UNCHANGED commandsVars
    PROVE  CommandsIInv'
  <1> USE DEF commandsVars, rows, remote
  <1>1. CommandsTypeOK' /\ WorkerShape'
    BY DEF CommandsIInv, CommandsTypeOK, WorkerShape
  <1>2. RowsClean' /\ Doubtful' /\ Alone' /\ Remaining'
    BY DEF CommandsIInv, RowsClean, Untouched, Doubtful, Alone, Remaining, Job
  <1>3. PostedOnce' /\ StatusKept' /\ Labelling'
    BY DEF CommandsIInv, PostedOnce, StatusKept, Labelling, Job
  <1> QED
    BY <1>1, <1>2, <1>3 DEF CommandsIInv

\* The invariant is inductive.
LEMMA CommandsNextHolds ==
    ASSUME CommandsIInv, [CommandsNext]_commandsVars
    PROVE  CommandsIInv'
  <1>1. CASE UNCHANGED commandsVars
    BY <1>1, CommandsStutterHolds
  <1>2. ASSUME NEW c \in Jobs, Enqueue(c)
        PROVE  CommandsIInv'
    BY <1>2, EnqueueStep
  <1>3. ASSUME NEW c \in Jobs, Due(c)
        PROVE  CommandsIInv'
    BY <1>3, DueStep
  <1>4. ASSUME NEW c \in Jobs, NEW decision \in {"done", "not-sent"}, Resolve(c, decision)
        PROVE  CommandsIInv'
    BY <1>4, ResolveStep
  <1>5. CASE Work
    BY <1>5, ClaimStep, CommandsGateStep, ActStep, SendNextStep, AnswerStep, ReturnStep DEF Work
  <1>6. CASE Crash
    BY <1>6, CommandsCrashStep
  <1>7. CASE Open
    BY <1>7, OpenStep
  <1> QED
    BY <1>1, <1>2, <1>3, <1>4, <1>5, <1>6, <1>7 DEF CommandsNext

\* Only a write of the worker changes what is on Forgejo.
LEMMA RemoteChanges ==
    ASSUME [CommandsNext]_commandsVars
    PROVE  SendNext \/ UNCHANGED remote
  BY DEF CommandsNext, Work, Enqueue, Due, Resolve, Claim, Gate, Act, Answer, Return, Crash, Open,
         commandsVars

\* The issue of a comment with an unknown outcome is left alone: the worker's own
\* outcome is known when it sends, and other comments of its issue are settled.
LEMMA PausedStep ==
    ASSUME CommandsIInv, [CommandsNext]_commandsVars, NEW c \in Jobs,
           inbox[c].state = "unknown" \/ inbox[c].uncertain
    PROVE  UNCHANGED <<labels[c.issue], assignees[c.issue], approvals[c.issue]>>
  <1>1. CASE UNCHANGED remote
    BY <1>1 DEF remote
  <1>2. CASE SendNext /\ ~UNCHANGED remote
    <2>1. /\ worker.pc = "send" /\ Job \in Jobs /\ ~inbox[Job].uncertain
          /\ Head(worker.todo) \in Writes /\ Lands(Head(worker.todo))
      BY <1>2, Sent
    <2>2. inbox[Job].state = "running"
      BY <2>1, Holds
    <2>3. c.issue # Job.issue
      BY <2>1, <2>2 DEF CommandsIInv, Alone, Doubtful
    <2>4. c.issue \in Issues
      BY DEF Issues
    <2> QED
      BY <2>1, <2>3, <2>4, IssueAfter DEF CommandsIInv
  <1> QED
    BY <1>1, <1>2, RemoteChanges

\* Labels change only for the newest status command recorded.
LEMMA NewerStep ==
    ASSUME CommandsIInv, [CommandsNext]_commandsVars, NEW d \in Jobs,
           d.says \in Status, posts[d].changes, labels'[d.issue] # labels[d.issue]
    PROVE  worker.job.at >= d.at
  <1>1. SendNext
    BY RemoteChanges DEF remote
  <1>2. /\ worker.pc = "send" /\ Job \in Jobs /\ 1 \in DOMAIN worker.todo
        /\ Head(worker.todo) \in Writes /\ Head(worker.todo) = worker.todo[1]
        /\ Lands(Head(worker.todo)) \/ UNCHANGED remote
    BY <1>1, Sent
  <1>3. Lands(Head(worker.todo))
    BY <1>2 DEF remote
  <1>4. d.issue \in Issues
    BY DEF Issues
  <1>5. d.issue = Job.issue /\ Head(worker.todo).op \in {"add", "drop"}
    BY <1>2, <1>3, <1>4, IssueAfter DEF CommandsIInv
  <1>6. statuses[Job.issue] = Job.at
    BY <1>2, <1>5 DEF CommandsIInv, Labelling
  <1>7. d.at <= statuses[d.issue]
    BY DEF CommandsIInv, StatusKept
  <1>8. d.at \in Nat /\ Job.at \in Nat
    BY <1>2, CommandsAssumption
  <1> QED
    BY <1>5, <1>6, <1>7, <1>8 DEF Job

\* The inductive invariant is an invariant of comment commands.
THEOREM CommandsInvariant == CommandsSpec => []CommandsIInv
  <1>1. CommandsInit => CommandsIInv
    BY CommandsInitHolds
  <1>2. CommandsIInv /\ [CommandsNext]_commandsVars => CommandsIInv'
    BY CommandsNextHolds
  <1> QED
    BY <1>1, <1>2, PTL DEF CommandsSpec

\* However the server is interrupted, a comment posts at most one review and is
\* answered at most once (before_write, finish, Inbox::open, resolve).
THEOREM NobodyAnsweredTwice == CommandsSpec => []CommandsInv
  <1>1. CommandsIInv => CommandsInv
    BY DEF CommandsIInv, CommandsInv
  <1> QED
    BY <1>1, CommandsInvariant, PTL

\* While the outcome of a write is unknown no command changes anything on its issue.
THEOREM UnknownPauses == CommandsSpec => ThreadPaused
  <1> DEFINE A == \A c \in Jobs :
        inbox[c].state = "unknown" \/ inbox[c].uncertain =>
          UNCHANGED <<labels[c.issue], assignees[c.issue], approvals[c.issue]>>
  <1>1. CommandsIInv /\ [CommandsNext]_commandsVars => A
    BY PausedStep
  <1>2. ThreadPaused <=> [][A]_commandsVars
    BY DEF ThreadPaused
  <1> HIDE DEF A
  <1> QED
    BY <1>1, <1>2, CommandsInvariant, PTL DEF CommandsSpec

\* A late status command changes no label after a newer one did (status_is_current).
THEOREM StatusesStayInOrder == CommandsSpec => NewerStatusStands
  <1> DEFINE A == \A d \in Jobs :
        d.says \in Status /\ posts[d].changes /\ labels'[d.issue] # labels[d.issue] =>
          worker.job.at >= d.at
  <1>1. CommandsIInv /\ [CommandsNext]_commandsVars => A
    BY NewerStep
  <1>2. NewerStatusStands <=> [][A]_commandsVars
    BY DEF NewerStatusStands
  <1> HIDE DEF A
  <1> QED
    BY <1>1, <1>2, CommandsInvariant, PTL DEF CommandsSpec

-----------------------------------------------------------------------------
(***************************************************************************)
(* Theorems about the copying of refs for every set of branches and of     *)
(* bridged pull requests and any number of pushes, rewrites and faults:    *)
(* the bot loses nobody's commit, and GitHub receives only the head of a   *)
(* pull request that came from Forgejo.                                    *)
(*                                                                         *)
(* What a synchronization fetched is old when it pushes; that the push is  *)
(* taken only as a fast-forward of what is there now (TakenExtends) makes  *)
(* it safe.  For GitHub the invariant follows the direction of a transfer  *)
(* through the legs of one request (Legs).                                 *)
(***************************************************************************)

\* What a branch may hold.
Histories == {h \in Seq(Sides) : Len(h) <= MaxCommits}
\* What one side shows.
Views == [RefNames -> Histories]
\* The request of the periodic sweep.
SweepJob == [kind |-> "sweep"]

\* The synchronization that holds the lock, and the refs.
Syncs == [pc : {"free", "fetch", "compare", "push", "mirror"}, job : Requests, from : Sides,
          only : SUBSET RefNames, known : RefNames,
          source : Views, target : Views]
Shape == refs \in [Sides -> Views] /\ sync \in Syncs

\* What comes from Forgejo is the head of a pull request from there, and not
\* the default branch as it was read.
Legs == sync.from = "forgejo" =>
    /\ sync.job.kind = "pull" /\ sync.job.pull.origin = "forgejo"
    /\ sync.only = {sync.job.pull.head} /\ sync.job.pull.head # sync.known

\* A sweep that runs has left the queue.
OneScan == sync.pc # "free" /\ sync.job.kind = "sweep" => SweepJob \notin wanted

\* The inductive invariant.
SyncIInv == SyncTypeOK /\ Shape /\ Legs /\ OneScan

\* A request is a push, the sweep or a pull request.
LEMMA JobKinds ==
    /\ \A r \in Requests : r.kind \in {"push", "sweep", "pull"}
    /\ \A r \in Requests : r.kind = "pull" => r.pull \in Pulls
    /\ \A r \in Requests : r.kind = "sweep" <=> r = SweepJob
    /\ [kind |-> "push"] \in Requests /\ SweepJob \in Requests
    /\ [kind |-> "push"].kind = "push" /\ SweepJob.kind = "sweep"
    /\ \A p \in Pulls : /\ [kind |-> "pull", pull |-> p] \in Requests
                        /\ [kind |-> "pull", pull |-> p] # SweepJob
  <1>1. [kind |-> "push"] \in Requests /\ SweepJob \in Requests
    BY DEF Requests, SweepJob
  <1>2. [kind |-> "push"].kind = "push" /\ SweepJob.kind = "sweep"
    BY DEF SweepJob
  <1>3. \A p \in Pulls : [kind |-> "pull", pull |-> p] \in Requests
    BY Zenon DEF Requests
  <1>4. \A p : [kind |-> "pull", pull |-> p].kind = "pull" /\ [kind |-> "pull", pull |-> p].pull = p
    OBVIOUS
  <1>5. ASSUME NEW r \in Requests
        PROVE  \/ r = [kind |-> "push"] \/ r = SweepJob
               \/ \E p \in Pulls : r = [kind |-> "pull", pull |-> p]
    BY Zenon DEF Requests, SweepJob
  <1>6. \A p : [kind |-> "pull", pull |-> p] # SweepJob
    BY <1>2, <1>4
  <1>7. \A r \in Requests : r.kind \in {"push", "sweep", "pull"}
    BY <1>2, <1>4, <1>5
  <1>8. \A r \in Requests : r.kind = "pull" => r.pull \in Pulls
    BY <1>2, <1>4, <1>5
  <1>9. \A r \in Requests : r.kind = "sweep" <=> r = SweepJob
    BY <1>2, <1>4, <1>5
  <1> QED
    BY <1>1, <1>2, <1>3, <1>6, <1>7, <1>8, <1>9

\* The free lock is well formed.
LEMMA FreeFacts ==
    /\ NoSync \in Syncs /\ NoSync.pc = "free" /\ NoSync.from = "github"
    /\ NoSync.job.kind = "push" /\ NoSync.only = {}
  <1>1. NoRefs \in Views
    BY SyncAssumption DEF NoRefs, Views, Histories
  <1>2. [kind |-> "push"] \in Requests
    BY JobKinds
  <1> QED
    BY <1>1, <1>2, SyncAssumption DEF NoSync, Syncs, Sides

\* What the invariant says of the types.
LEMMA LaneFacts ==
    ASSUME SyncIInv
    PROVE  /\ sync.pc \in {"free", "fetch", "compare", "push", "mirror"}
           /\ sync.job \in Requests /\ sync.from \in Sides /\ sync.only \in SUBSET RefNames
           /\ sync.source \in Views /\ sync.target \in Views
           /\ \A s \in Sides, b \in RefNames : refs[s][b] \in Histories
           /\ refs \in [Sides -> Views] /\ defaultBranch \in RefNames
    BY DEF SyncIInv, SyncTypeOK, Shape, Syncs, Views

\* The type follows from the shape and the gate, in the next state.
LEMMA TypeKept ==
    ASSUME Shape', defaultBranch' \in RefNames, mirror' \in BOOLEAN, policy' \in Policies,
           wanted' \subseteq Requests,
           gate' \in {"open", "scanning", "throttled"},
           gate' = "scanning" <=> \/ SweepJob \in wanted'
                                  \/ sync'.pc # "free" /\ sync'.job.kind = "sweep",
           syncMoves' \in 0..MaxSyncMoves, syncFaults' \in 0..MaxSyncFaults
    PROVE  SyncTypeOK'
  <1>1. \A s \in Sides, b \in RefNames : refs'[s][b] \in Histories
    BY DEF Shape, Views
  <1>2. \A s \in Sides, b \in RefNames :
            refs'[s][b] \in Seq(Sides) /\ Len(refs'[s][b]) <= MaxCommits
    BY <1>1 DEF Histories
  <1>3. /\ sync'.pc \in {"free", "fetch", "compare", "push", "mirror"}
        /\ sync'.job \in Requests /\ sync'.from \in Sides /\ sync'.only \subseteq RefNames
        /\ sync'.known \in RefNames
    BY DEF Shape, Syncs
  <1> QED
    BY <1>2, <1>3 DEF SyncTypeOK, SweepJob

-----------------------------------------------------------------------------
(* What people do. *)

\* The invariant holds at first.
LEMMA SyncInitHolds ==
    ASSUME SyncInit
    PROVE  SyncIInv
  <1>1. ASSUME NEW open
        PROVE  First(open) \in Views
    <2>1. <<"github">> \in Histories
      <3>1. <<"github">> \in Seq(Sides) /\ Len(<<"github">>) = 1
        BY DEF Sides
      <3>2. 1 <= MaxCommits
        BY SyncAssumption
      <3> QED
        BY <3>1, <3>2 DEF Histories
    <2>2. <<>> \in Histories
      BY SyncAssumption DEF Histories
    <2> QED
      BY <2>1, <2>2 DEF First, Views
  <1>2. Shape
    BY <1>1, FreeFacts DEF SyncInit, Shape
  <1>3. SyncTypeOK
    <2>1. policy \in Policies
      BY DEF SyncInit, Policies
    <2>2. 0 \in 0..MaxSyncMoves /\ 0 \in 0..MaxSyncFaults
      BY SyncAssumption
    <2>3. \A s \in Sides, b \in RefNames : refs[s][b] \in Histories
      BY <1>2 DEF Shape, Views
    <2>4. \A s \in Sides, b \in RefNames :
              refs[s][b] \in Seq(Sides) /\ Len(refs[s][b]) <= MaxCommits
      BY <2>3 DEF Histories
    <2>5. /\ sync.job \in Requests /\ sync.from \in Sides /\ sync.only \subseteq RefNames
          /\ sync.known \in RefNames
      BY <1>2 DEF Shape, Syncs
    <2> QED
      BY <2>1, <2>2, <2>4, <2>5, FreeFacts, SyncAssumption DEF SyncInit, SyncTypeOK
  <1>4. Legs /\ OneScan
    BY FreeFacts DEF SyncInit, Legs, OneScan
  <1> QED
    BY <1>2, <1>3, <1>4 DEF SyncIInv

\* What people do to the refs leaves the bot's state alone.
LEMMA PeopleStep ==
    ASSUME SyncIInv, Move, refs' \in [Sides -> Views],
           UNCHANGED <<sync, gate>>, defaultBranch' \in RefNames, mirror' \in BOOLEAN, policy' \in Policies,
           syncFaults' \in 0..MaxSyncFaults,
           wanted' \subseteq Requests, SweepJob \in wanted' <=> SweepJob \in wanted
    PROVE  SyncIInv'
  <1>1. syncMoves' \in 0..MaxSyncMoves
    BY SyncAssumption DEF Move, SyncIInv, SyncTypeOK
  <1>2. Shape'
    BY DEF SyncIInv, Shape
  <1>3. gate' = "scanning" <=> \/ SweepJob \in wanted'
                               \/ sync'.pc # "free" /\ sync'.job.kind = "sweep"
    BY DEF SyncIInv, SyncTypeOK, SweepJob
  <1>4. gate' \in {"open", "scanning", "throttled"}
    BY DEF SyncIInv, SyncTypeOK
  <1>5. SyncTypeOK'
    BY <1>1, <1>2, <1>3, <1>4, TypeKept
  <1>6. Legs' /\ OneScan'
    BY DEF SyncIInv, Legs, OneScan
  <1> QED
    BY <1>2, <1>5, <1>6 DEF SyncIInv

\* The report of a push asks for no sweep.
LEMMA ReportedKeeps ==
    ASSUME SyncIInv, NEW s \in Sides, Reported(s)
    PROVE  /\ wanted' \subseteq Requests /\ (SweepJob \in wanted' <=> SweepJob \in wanted)
           /\ syncFaults' \in 0..MaxSyncFaults
  <1>1. [kind |-> "push"] # SweepJob
    BY JobKinds
  <1>2. wanted \subseteq Requests /\ syncFaults \in 0..MaxSyncFaults
    BY DEF SyncIInv, SyncTypeOK
  <1> QED
    BY <1>1, <1>2, JobKinds, SyncAssumption DEF Reported

\* One branch of one side changed.
LEMMA BranchSet ==
    ASSUME NEW r \in [Sides -> Views], NEW s \in Sides, NEW b \in RefNames, NEW h \in Histories
    PROVE  [r EXCEPT ![s][b] = h] \in [Sides -> Views]
    BY DEF Views

\* Somebody pushes.
LEMMA SyncPushStep ==
    ASSUME SyncIInv, NEW s \in Sides, NEW b \in RefNames, PushRef(s, b)
    PROVE  SyncIInv'
  <1>1. PICK base \in {refs[s][b], refs["github"][defaultBranch]} :
            Len(base) < MaxCommits /\ refs' = [refs EXCEPT ![s][b] = Append(base, s)]
    BY DEF PushRef
  <1>2. base \in Histories
    BY <1>1, LaneFacts DEF Sides
  <1>3. Append(base, s) \in Histories
    BY <1>1, <1>2, SyncAssumption DEF Histories
  <1>4. refs' \in [Sides -> Views]
    BY <1>1, <1>3, LaneFacts, BranchSet
  <1>5. defaultBranch' \in RefNames /\ mirror' \in BOOLEAN /\ policy' \in Policies
    BY DEF PushRef, SyncIInv, SyncTypeOK
  <1> QED
    BY <1>4, <1>5, ReportedKeeps, PeopleStep DEF PushRef

\* Somebody rewrites or deletes a branch of GitHub.
LEMMA RewriteStep ==
    ASSUME SyncIInv, NEW b \in RefNames, Rewrite(b)
    PROVE  SyncIInv'
  <1> DEFINE h == refs["github"][b]
  <1>1. h \in Histories /\ "github" \in Sides
    BY LaneFacts DEF Sides
  <1>2. Len(h) > 0
    BY <1>1 DEF Rewrite, Histories
  <1>3. Front(h) \in Histories
    BY <1>1, <1>2, SyncAssumption DEF Histories, Front
  <1>4. refs' \in [Sides -> Views]
    <2>1. refs' = [refs EXCEPT !["github"][b] = Front(h)]
      BY LaneFacts DEF Rewrite, Views
    <2> QED
      BY <2>1, <1>1, <1>3, LaneFacts, BranchSet
  <1>5. defaultBranch' \in RefNames /\ mirror' \in BOOLEAN /\ policy' \in Policies
    BY DEF Rewrite, SyncIInv, SyncTypeOK
  <1> QED
    BY <1>1, <1>4, <1>5, ReportedKeeps, PeopleStep DEF Rewrite

\* The bridge asks for the branches of a pull request.
LEMMA PrepareStep ==
    ASSUME SyncIInv, NEW p \in Pulls, Prepare(p)
    PROVE  SyncIInv'
  <1>1. /\ wanted' = wanted \cup {[kind |-> "pull", pull |-> p]}
        /\ Move /\ UNCHANGED <<refs, defaultBranch, mirror, policy, sync, gate, syncFaults>>
    BY DEF Prepare
  <1>2. /\ wanted \subseteq Requests /\ mirror \in BOOLEAN /\ policy \in Policies
        /\ syncFaults \in 0..MaxSyncFaults
    BY DEF SyncIInv, SyncTypeOK
  <1>3. wanted' \subseteq Requests /\ (SweepJob \in wanted' <=> SweepJob \in wanted)
    BY <1>1, <1>2, JobKinds
  <1> QED
    BY <1>1, <1>2, <1>3, LaneFacts, PeopleStep

\* The default branch, the policy or the kind of the repository changes.
LEMMA SettingStep ==
    ASSUME SyncIInv, SetPolicy \/ Convert \/ \E b \in RefNames : SetDefault(b)
    PROVE  SyncIInv'
  <1>1. /\ wanted \subseteq Requests /\ mirror \in BOOLEAN /\ policy \in Policies
        /\ syncFaults \in 0..MaxSyncFaults
    BY DEF SyncIInv, SyncTypeOK
  <1> QED
    BY <1>1, LaneFacts, PeopleStep DEF SetPolicy, Convert, SetDefault

\* A sweep is asked for, or the interval passes.
LEMMA SyncGateStep ==
    ASSUME SyncIInv, Sweep \/ Interval
    PROVE  SyncIInv'
  <1>1. /\ wanted \subseteq Requests /\ mirror \in BOOLEAN /\ policy \in Policies
        /\ syncFaults \in 0..MaxSyncFaults /\ syncMoves \in 0..MaxSyncMoves
        /\ gate = "scanning" <=> \/ SweepJob \in wanted
                                 \/ sync.pc # "free" /\ sync.job.kind = "sweep"
    BY DEF SyncIInv, SyncTypeOK, SweepJob
  <1>2. Shape' /\ Legs'
    BY DEF SyncIInv, Shape, Legs, Sweep, Interval
  <1>3. OneScan'
    BY <1>1 DEF SyncIInv, OneScan, Sweep, Interval
  <1>4. wanted' \subseteq Requests
    BY <1>1, JobKinds DEF Sweep, Interval, SweepJob
  <1>5. gate' = "scanning" <=> \/ SweepJob \in wanted'
                               \/ sync'.pc # "free" /\ sync'.job.kind = "sweep"
    BY <1>1 DEF Sweep, Interval, SweepJob
  <1>6. /\ gate' \in {"open", "scanning", "throttled"}
        /\ defaultBranch' \in RefNames /\ mirror' \in BOOLEAN /\ policy' \in Policies
        /\ syncFaults' \in 0..MaxSyncFaults /\ syncMoves' \in 0..MaxSyncMoves
    BY <1>1, LaneFacts DEF Sweep, Interval
  <1>7. SyncTypeOK'
    BY <1>2, <1>4, <1>5, <1>6, TypeKept
  <1> QED
    BY <1>2, <1>3, <1>7 DEF SyncIInv

-----------------------------------------------------------------------------
(* What the bot does. *)

\* What a synchronization's step keeps, whatever it does to the lock.
LEMMA WorkStep ==
    ASSUME SyncIInv, UNCHANGED <<defaultBranch, mirror, policy>>,
           refs' \in [Sides -> Views], sync' \in Syncs, Legs',
           syncMoves' = syncMoves, syncFaults' \in 0..MaxSyncFaults, wanted' \subseteq wanted,
           gate' \in {"open", "scanning", "throttled"},
           gate' = "scanning" <=> \/ SweepJob \in wanted'
                                  \/ sync'.pc # "free" /\ sync'.job.kind = "sweep",
           OneScan'
    PROVE  SyncIInv'
  <1>1. Shape'
    BY DEF Shape
  <1>2. /\ wanted' \subseteq Requests /\ defaultBranch' \in RefNames
        /\ mirror' \in BOOLEAN /\ policy' \in Policies
        /\ syncMoves' \in 0..MaxSyncMoves
    BY DEF SyncIInv, SyncTypeOK
  <1>3. SyncTypeOK'
    BY <1>1, <1>2, TypeKept
  <1> QED
    BY <1>1, <1>3 DEF SyncIInv

\* Faults stay within their bound.
LEMMA Budget ==
    ASSUME SyncIInv, SyncWell \/ SyncFails
    PROVE  syncMoves' = syncMoves /\ syncFaults' \in 0..MaxSyncFaults
  <1>1. syncFaults \in 0..MaxSyncFaults
    BY DEF SyncIInv, SyncTypeOK
  <1> QED
    BY <1>1, SyncAssumption DEF SyncWell, SyncFails

\* What the invariant says of the gate.
LEMMA Gates ==
    ASSUME SyncIInv
    PROVE  /\ gate \in {"open", "scanning", "throttled"}
           /\ gate = "scanning" <=> \/ SweepJob \in wanted
                                    \/ sync.pc # "free" /\ sync.job.kind = "sweep"
           /\ wanted \subseteq Requests
    BY DEF SyncIInv, SyncTypeOK, SweepJob

\* The lock is taken or the request dropped.
LEMMA BeginStep ==
    ASSUME SyncIInv, BeginSync
    PROVE  SyncIInv'
  <1>1. PICK job \in wanted :
          /\ wanted' = wanted \ {job} /\ (SyncWell \/ SyncFails)
          /\ \/ sync' = sync /\ gate' = Closing(job)
             \/ \E pc \in {"fetch", "mirror"}, only \in SUBSET RefNames :
                   sync' = [NoSync EXCEPT !.pc = pc, !.job = job, !.only = only] /\ gate' = gate
    <2>1. PICK job \in wanted : /\ wanted' = wanted \ {job}
            /\ \/ /\ SyncWell
                  /\ CASE job.kind = "pull" /\ ~mirror /\ job.pull.head # job.pull.base ->
                            sync' = [NoSync EXCEPT !.pc = "fetch", !.job = job,
                                                 !.only = {job.pull.base}]
                                /\ UNCHANGED gate
                       [] job.kind # "pull" /\ policy = "refs" /\ ~mirror ->
                            sync' = [NoSync EXCEPT !.pc = "fetch", !.job = job, !.only = RefNames]
                                /\ UNCHANGED gate
                       [] job.kind # "pull" /\ policy = "mirror" ->
                            sync' = [NoSync EXCEPT !.pc = "mirror", !.job = job, !.only = {}]
                                /\ UNCHANGED gate
                       [] OTHER -> UNCHANGED sync /\ gate' = Closing(job)
               \/ SyncFails /\ UNCHANGED sync /\ gate' = Closing(job)
      BY DEF BeginSync
    <2>2. job \in Requests
      BY Gates
    <2>3. job.kind = "pull" => {job.pull.base} \in SUBSET RefNames
      BY <2>2, JobKinds, SyncAssumption
    <2> QED
      BY <2>1, <2>3
  <1>2. job \in Requests /\ (job.kind = "sweep" <=> job = SweepJob)
    BY Gates, JobKinds
  <1>3. sync.pc = "free" /\ UNCHANGED <<refs, defaultBranch, mirror, policy>>
    BY DEF BeginSync
  <1>4. syncMoves' = syncMoves /\ syncFaults' \in 0..MaxSyncFaults
    BY <1>1, Budget
  <1>5. CASE sync' = sync /\ gate' = Closing(job)
    <2>1. OneScan' /\ Legs' /\ sync' \in Syncs
      BY <1>3, <1>5 DEF OneScan, Legs, SyncIInv, Shape
    <2>2. /\ gate' \in {"open", "scanning", "throttled"}
          /\ gate' = "scanning" <=> SweepJob \in wanted'
      BY <1>1, <1>2, <1>3, <1>5, Gates DEF Closing
    <2> QED
      BY <1>1, <1>3, <1>4, <1>5, <2>1, <2>2, LaneFacts, WorkStep
  <1>6. ASSUME NEW pc \in {"fetch", "mirror"}, NEW only \in SUBSET RefNames,
               sync' = [NoSync EXCEPT !.pc = pc, !.job = job, !.only = only], gate' = gate
        PROVE  SyncIInv'
    <2>1. /\ sync' \in Syncs /\ sync'.pc = pc /\ sync'.job = job /\ sync'.from = "github"
      BY <1>2, <1>6, FreeFacts DEF Syncs
    <2>2. Legs'
      BY <2>1 DEF Legs
    <2>3. OneScan'
      BY <1>1, <1>2, <2>1 DEF OneScan
    <2>4. gate' = "scanning" <=> \/ SweepJob \in wanted'
                                 \/ sync'.pc # "free" /\ sync'.job.kind = "sweep"
      BY <1>1, <1>2, <1>3, <1>6, <2>1, Gates
    <2> QED
      BY <1>1, <1>3, <1>4, <1>6, <2>1, <2>2, <2>3, <2>4, LaneFacts, Gates, WorkStep
  <1> QED
    BY <1>1, <1>5, <1>6

\* A synchronization ends; the sweep's gate closes with its own.
LEMMA StopStep ==
    ASSUME SyncIInv, sync.pc # "free", Stop, SyncWell \/ SyncFails,
           UNCHANGED <<defaultBranch, mirror, policy, wanted>>, refs' \in [Sides -> Views]
    PROVE  SyncIInv'
  <1>1. sync' = NoSync /\ gate' = Closing(sync.job)
    BY DEF Stop
  <1>2. Legs' /\ OneScan' /\ sync' \in Syncs
    BY <1>1, FreeFacts DEF Legs, OneScan
  <1>3. /\ gate' \in {"open", "scanning", "throttled"}
        /\ gate' = "scanning" <=> SweepJob \in wanted
    BY <1>1, Gates DEF Closing, SyncIInv, OneScan
  <1>4. gate' = "scanning" <=> \/ SweepJob \in wanted'
                               \/ sync'.pc # "free" /\ sync'.job.kind = "sweep"
    BY <1>1, <1>3, FreeFacts
  <1> QED
    BY <1>2, <1>3, <1>4, Budget, WorkStep

\* The native mirror fetches.
LEMMA NativeStep ==
    ASSUME SyncIInv, Native
    PROVE  SyncIInv'
  <1>1. refs' \in [Sides -> Views]
    <2>1. refs["github"] \in Views /\ "forgejo" \in Sides
      BY LaneFacts DEF Sides
    <2> QED
      BY <2>1, LaneFacts DEF Native
  <1> QED
    BY <1>1, StopStep DEF Native

\* The lock's holder goes on with the same job.
LEMMA SameJob ==
    ASSUME SyncIInv, sync.pc # "free", sync' \in Syncs, sync'.pc # "free",
           sync'.job = sync.job, Legs', SyncWell \/ SyncFails,
           UNCHANGED <<defaultBranch, mirror, policy, wanted, gate>>, refs' \in [Sides -> Views]
    PROVE  SyncIInv'
  <1>1. OneScan'
    BY DEF SyncIInv, OneScan
  <1>2. gate' = "scanning" <=> \/ SweepJob \in wanted'
                               \/ sync'.pc # "free" /\ sync'.job.kind = "sweep"
    BY Gates
  <1> QED
    BY <1>1, <1>2, Gates, Budget, WorkStep

\* The two sides.
LEMMA OtherSide ==
    ASSUME NEW s \in Sides
    PROVE  /\ Other(s) \in Sides
           /\ Other(s) = "github" <=> s = "forgejo"
           /\ Other(s) = "forgejo" <=> s = "github"
    BY DEF Other, Sides

\* The source is fetched.
LEMMA FetchStep ==
    ASSUME SyncIInv, Fetch
    PROVE  SyncIInv'
  <1>1. CASE SyncFails /\ Stop
    BY <1>1, LaneFacts, StopStep DEF Fetch
  <1>2. CASE /\ SyncWell /\ UNCHANGED gate
             /\ sync' = [sync EXCEPT !.pc = "compare", !.source = refs[sync.from]]
    <2>1. sync \in Syncs /\ refs[sync.from] \in Views
      BY LaneFacts DEF SyncIInv, Shape
    <2>2. /\ sync' \in Syncs /\ sync'.pc = "compare" /\ sync'.job = sync.job
          /\ sync'.from = sync.from /\ sync'.only = sync.only /\ sync'.known = sync.known
      BY <1>2, <2>1 DEF Syncs
    <2>3. Legs'
      BY <2>2 DEF SyncIInv, Legs
    <2> QED
      BY <1>2, <2>2, <2>3, LaneFacts, SameJob DEF Fetch
  <1> QED
    BY <1>1, <1>2 DEF Fetch

\* The target is fetched.
LEMMA CompareStep ==
    ASSUME SyncIInv, Compare
    PROVE  SyncIInv'
  <1>1. CASE SyncFails /\ Stop
    BY <1>1, LaneFacts, StopStep DEF Compare
  <1>2. CASE /\ SyncWell /\ UNCHANGED gate
             /\ sync' = [sync EXCEPT !.pc = "push", !.target = refs[Other(sync.from)]]
    <2>1. sync \in Syncs /\ refs[Other(sync.from)] \in Views
      BY LaneFacts, OtherSide DEF SyncIInv, Shape
    <2>2. /\ sync' \in Syncs /\ sync'.pc = "push" /\ sync'.job = sync.job
          /\ sync'.from = sync.from /\ sync'.only = sync.only /\ sync'.known = sync.known
      BY <1>2, <2>1 DEF Syncs
    <2>3. Legs'
      BY <2>2 DEF SyncIInv, Legs
    <2> QED
      BY <1>2, <2>2, <2>3, LaneFacts, SameJob DEF Compare
  <1> QED
    BY <1>1, <1>2 DEF Compare

\* The branches that moved have what was fetched, the others what they had.
LEMMA MovedRefs ==
    ASSUME SyncIInv, NEW set, Moved(set)
    PROVE  /\ refs' \in [Sides -> Views]
           /\ \A s \in Sides, b \in RefNames : refs'[s][b] =
                 IF s = Other(sync.from) /\ b \in set THEN sync.source[b] ELSE refs[s][b]
  <1> DEFINE o == Other(sync.from)
             v == [b \in RefNames |-> IF b \in set THEN sync.source[b] ELSE refs[o][b]]
  <1>1. o \in Sides
    BY LaneFacts, OtherSide
  <1>2. refs' = [refs EXCEPT ![o] = v]
    BY DEF Moved
  <1>3. v \in Views
    BY <1>1, LaneFacts DEF Views
  <1>4. \A b \in RefNames : v[b] = IF b \in set THEN sync.source[b] ELSE refs[o][b]
    OBVIOUS
  <1> HIDE DEF o, v
  <1>5. refs' \in [Sides -> Views]
    BY <1>1, <1>2, <1>3, LaneFacts
  <1>6. \A s \in Sides : refs'[s] = IF s = o THEN v ELSE refs[s]
    BY <1>1, <1>2, LaneFacts
  <1> QED
    BY <1>4, <1>5, <1>6 DEF o

\* The refs are pushed; a pull request may have another leg.
LEMMA PushRefsStep ==
    ASSUME SyncIInv, PushRefs
    PROVE  SyncIInv'
  <1>1. sync.pc = "push" /\ UNCHANGED <<defaultBranch, mirror, policy, wanted>>
    BY DEF PushRefs
  <1>2. PICK set : Moved(set) /\ (SyncWell \/ SyncFails) /\ (NextLeg \/ Stop)
    BY DEF PushRefs
  <1>3. refs' \in [Sides -> Views]
    BY <1>2, MovedRefs
  <1> DEFINE p == sync.job.pull
  <1>4. CASE /\ sync.job.kind = "pull" /\ ~(p.origin = "forgejo" /\ p.head = defaultBranch)
             /\ sync' = [NoSync EXCEPT !.pc = "fetch", !.job = sync.job,
                                     !.from = p.origin, !.only = {p.head},
                                     !.known = defaultBranch]
             /\ UNCHANGED gate
    <2>1. p \in Pulls /\ p.origin \in Sides /\ {p.head} \in SUBSET RefNames
      BY <1>4, LaneFacts, JobKinds, SyncAssumption
    <2>2. /\ sync' \in Syncs /\ sync'.pc = "fetch" /\ sync'.job = sync.job
          /\ sync'.from = p.origin /\ sync'.only = {p.head} /\ sync'.known = defaultBranch
      BY <1>4, <2>1, FreeFacts, LaneFacts DEF Syncs
    <2>3. Legs'
      BY <1>4, <2>2 DEF Legs
    <2> QED
      BY <1>1, <1>2, <1>3, <1>4, <2>2, <2>3, SameJob
  <1>5. CASE Stop
    BY <1>1, <1>2, <1>3, <1>5, StopStep
  <1> QED
    BY <1>2, <1>4, <1>5 DEF NextLeg

\* The server stops.
LEMMA SyncCrashStep ==
    ASSUME SyncIInv, SyncCrash
    PROVE  SyncIInv'
  <1>1. /\ sync' = NoSync /\ wanted' = {} /\ gate' = "open" /\ SyncFails
        /\ UNCHANGED <<refs, defaultBranch, mirror, policy>>
    BY DEF SyncCrash
  <1>2. Legs' /\ OneScan' /\ sync' \in Syncs
    BY <1>1, FreeFacts DEF Legs, OneScan
  <1>3. sync'.pc = "free"
    BY <1>1, FreeFacts
  <1> QED
    BY <1>1, <1>2, <1>3, Budget, LaneFacts, WorkStep

\* The invariant is inductive.
LEMMA SyncNextHolds ==
    ASSUME SyncIInv, [SyncNext]_syncVars
    PROVE  SyncIInv'
  <1>1. ASSUME NEW b \in RefNames, Rewrite(b) \/ \E s \in Sides : PushRef(s, b)
        PROVE  SyncIInv'
    BY <1>1, RewriteStep, SyncPushStep
  <1>2. ASSUME NEW p \in Pulls, Prepare(p)
        PROVE  SyncIInv'
    BY <1>2, PrepareStep
  <1>3. CASE SetPolicy \/ Convert \/ \E b \in RefNames : SetDefault(b)
    BY <1>3, SettingStep
  <1>4. CASE Sweep \/ Interval
    BY <1>4, SyncGateStep
  <1>5. CASE Steps
    BY <1>5, BeginStep, NativeStep, FetchStep, CompareStep, PushRefsStep DEF Steps
  <1>6. CASE SyncCrash
    BY <1>6, SyncCrashStep
  <1>7. CASE UNCHANGED syncVars
    BY <1>7 DEF syncVars, SyncIInv, SyncTypeOK, Shape, Legs, OneScan
  <1> QED
    BY <1>1, <1>2, <1>3, <1>4, <1>5, <1>6, <1>7 DEF SyncNext

\* The inductive invariant is an invariant of the synchronization.
THEOREM SyncInvariant == SyncSpec => []SyncIInv
  <1>1. SyncInit => SyncIInv
    BY SyncInitHolds
  <1>2. SyncIInv /\ [SyncNext]_syncVars => SyncIInv'
    BY SyncNextHolds
  <1> QED
    BY <1>1, <1>2, PTL DEF SyncSpec

-----------------------------------------------------------------------------
(* The properties. *)

\* What the bot takes for its update is a fast-forward of what is there now.
LEMMA TakenExtends ==
    ASSUME NEW b, Taken(b)
    PROVE  Extends(b, refs[Other(sync.from)][b], sync.source[b])
    BY DEF Taken, Extends

\* Only a push of refs and a native mirror change a repository in the bot's step.
LEMMA BotSteps ==
    ASSUME SyncIInv, [SyncNext]_syncVars, sync' # sync
    PROVE  \/ refs' = refs
           \/ mirror /\ refs' = [refs EXCEPT !["forgejo"] = refs["github"]]
           \/ sync.pc = "push" /\ \E set \in SUBSET {b \in Updates : Taken(b)} : Moved(set)
  <1>1. ASSUME NEW b \in RefNames, Rewrite(b) \/ \E s \in Sides : PushRef(s, b)
        PROVE  FALSE
    BY <1>1 DEF Rewrite, PushRef
  <1>2. ASSUME NEW p \in Pulls, Prepare(p)
        PROVE  FALSE
    BY <1>2 DEF Prepare
  <1>3. CASE \/ SetPolicy \/ Convert \/ Sweep \/ Interval \/ UNCHANGED syncVars
             \/ \E b \in RefNames : SetDefault(b)
    BY <1>3 DEF SetPolicy, Convert, SetDefault, Sweep, Interval, syncVars
  <1>4. CASE BeginSync \/ Fetch \/ Compare \/ SyncCrash
    BY <1>4 DEF BeginSync, Fetch, Compare, SyncCrash
  <1>5. CASE Native
    BY <1>5 DEF Native
  <1>6. CASE PushRefs
    BY <1>6 DEF PushRefs
  <1> QED
    BY <1>1, <1>2, <1>3, <1>4, <1>5, <1>6 DEF SyncNext, Steps

\* No copy between ordinary repositories loses a commit of anyone, also of one
\* who pushes between the fetches and the push (transfer_inner).
THEOREM NobodyIsOverwritten == SyncSpec => NothingOverwritten
  <1> DEFINE A == sync' # sync /\ ~mirror => \A s \in Sides, b \in RefNames :
                Extends(b, refs[s][b], refs'[s][b])
  <1>1. ASSUME SyncIInv, [SyncNext]_syncVars, sync' # sync, ~mirror
        PROVE  \A s \in Sides, b \in RefNames : Extends(b, refs[s][b], refs'[s][b])
    <2>1. CASE refs' = refs
      BY <2>1 DEF Extends
    <2>2. ASSUME NEW set \in SUBSET {b \in Updates : Taken(b)}, Moved(set)
          PROVE  \A s \in Sides, b \in RefNames : Extends(b, refs[s][b], refs'[s][b])
      <3>1. TAKE s \in Sides, b \in RefNames
      <3>2. CASE s = Other(sync.from) /\ b \in set
        <4>1. refs'[s][b] = sync.source[b]
          BY <1>1, <2>2, <3>2, MovedRefs
        <4> QED
          BY <3>2, <4>1, TakenExtends
      <3>3. CASE ~(s = Other(sync.from) /\ b \in set)
        <4>1. refs'[s][b] = refs[s][b]
          BY <1>1, <2>2, <3>3, MovedRefs
        <4> QED
          BY <4>1 DEF Extends
      <3> QED
        BY <3>2, <3>3
    <2> QED
      BY <1>1, <2>1, <2>2, BotSteps
  <1>2. SyncIInv /\ [SyncNext]_syncVars => A
    BY <1>1
  <1>3. NothingOverwritten <=> [][A]_syncVars
    BY DEF NothingOverwritten
  <1> HIDE DEF A
  <1> QED
    BY <1>2, <1>3, SyncInvariant, PTL DEF SyncSpec

\* The bot changes GitHub only for a pull request from Forgejo, and there only its
\* head, never an internal branch, and never the default one unless that became the
\* default after this leg of the transfer had read which it is (sync_pr).
THEOREM GithubIsKept == SyncSpec => GithubKept
  <1> DEFINE A == sync' # sync => \A b \in RefNames :
                refs'["github"][b] # refs["github"][b] =>
                    /\ b \notin Internal /\ (b = defaultBranch => sync.known # b)
                    /\ \E p \in Pulls : p.origin = "forgejo" /\ p.head = b
  <1>1. ASSUME SyncIInv, [SyncNext]_syncVars, sync' # sync,
               NEW b \in RefNames, refs'["github"][b] # refs["github"][b]
        PROVE  /\ b \notin Internal /\ (b = defaultBranch => sync.known # b)
               /\ \E p \in Pulls : p.origin = "forgejo" /\ p.head = b
    <2>1. "github" \in Sides /\ "github" # "forgejo"
      BY DEF Sides
    <2>2. refs' # [refs EXCEPT !["forgejo"] = refs["github"]]
      BY <1>1, <2>1, LaneFacts
    <2>3. PICK set \in SUBSET {c \in Updates : Taken(c)} : Moved(set)
      BY <1>1, <2>2, BotSteps
    <2>4. Other(sync.from) = "github" /\ b \in set
      BY <1>1, <2>1, <2>3, MovedRefs
    <2>5. sync.from = "forgejo"
      BY <1>1, <2>4, LaneFacts, OtherSide
    <2>6. /\ sync.job.kind = "pull" /\ sync.job.pull.origin = "forgejo"
          /\ sync.only = {sync.job.pull.head} /\ sync.job.pull.head # sync.known
      BY <1>1, <2>5 DEF SyncIInv, Legs
    <2>7. b \in sync.only /\ b \notin Internal
      BY <2>3, <2>4 DEF Updates, Candidates
    <2>8. sync.job.pull \in Pulls
      BY <1>1, <2>6, LaneFacts, JobKinds
    <2> QED
      BY <2>6, <2>7, <2>8
  <1>2. SyncIInv /\ [SyncNext]_syncVars => A
    BY <1>1
  <1>3. GithubKept <=> [][A]_syncVars
    BY DEF GithubKept
  <1> HIDE DEF A
  <1> QED
    BY <1>2, <1>3, SyncInvariant, PTL DEF SyncSpec

-----------------------------------------------------------------------------
(***************************************************************************)
(* Theorems about the configuration cache for every set of branches and    *)
(* any number of pushes, renames and faults: a load never serves a policy  *)
(* older than a change the bot had been told of.                           *)
(*                                                                         *)
(* The property speaks of what the last load served.  CacheIInv follows it *)
(* back through the load: what was read is as new as what the load had     *)
(* been told when it began, and while the generation is still the one the  *)
(* load began with it is as new as what the bot was told since (Fence).    *)
(* Webhooks may arrive in any order; that none of them tells of a later    *)
(* commit at an earlier epoch (ReadAt) is what makes the fence sufficient. *)
(***************************************************************************)

\* A load between its requests.
Fetches ==
    [pc : {"metadata"}, generation : Nat, told : Told]
        \cup [pc : {"head"}, generation : Nat, told : Told, branch : Branches, epoch : Nat]
        \cup [pc : {"file", "commit"}, generation : Nat, told : Told, policy : Policy]
\* A load began with a generation of the past.
FetchOK == fetch = Free \/ (fetch \in Fetches /\ fetch.generation <= generation)

\* t tells of nothing that did not happen.
Happened(t) ==
    /\ t.epoch \in 1..epoch /\ t.default = defaults[t.epoch]
    /\ \A b \in Branches : t.heads[b] <= heads[b]
\* The bot was told the truth.
Truthful ==
    /\ Happened(told)
    /\ fetch # Free => Happened(fetch.told)
    /\ served.state = "ready" => Happened(served.told)

\* So were the webhooks on the way.
MailTrue == \A m \in mail :
    /\ m.epoch \in 1..epoch /\ m.default = defaults[m.epoch] /\ m.commit \in Nat
    /\ m.ref \in Branches \cup {None} /\ (m.ref \in Branches => m.commit <= heads[m.ref])

\* Branch b was the default one at one of the epochs up to last.
WasDefault(b, last) == \E e \in 1..last : defaults[e] = b
\* The branch the entry knows was the default one.
Learned == known # None => WasDefault(known, epoch)

\* A policy of the branch that was the default one at epoch e honours what t tells.
BranchHonours(branch, e, t) == branch = t.default \/ e >= t.epoch

\* Unless the generation moved on, what is being read is as new as what is known.
Fence(branch, e) == generation = fetch.generation =>
    /\ known # None => WasDefault(known, e)
    /\ ~Returned(told) => BranchHonours(branch, e, told)

\* The policy p was read at a point of the past; what tells of a later commit
\* tells of a later epoch too.
ReadAt(p) ==
    /\ p.epoch \in 1..epoch /\ p.branch = defaults[p.epoch] /\ p.commit <= heads[p.branch]
    /\ \A m \in mail : m.ref = p.branch /\ m.commit > p.commit => m.epoch >= p.epoch
    /\ told.heads[p.branch] > p.commit => told.epoch >= p.epoch

\* What a load has read so far is as new as what the bot had been told when it
\* began, and behind the fence as new as what it was told since.
Reading ==
    /\ fetch.pc = "head" =>
          /\ fetch.epoch \in 1..epoch /\ fetch.branch = defaults[fetch.epoch]
          /\ fetch.told.epoch <= fetch.epoch
          /\ Fence(fetch.branch, fetch.epoch)
    /\ fetch.pc \in {"file", "commit"} => LET p == fetch.policy IN
          /\ ReadAt(p)
          /\ fetch.told.epoch <= p.epoch /\ fetch.told.heads[p.branch] <= p.commit
          /\ Fence(p.branch, p.epoch)
          /\ generation = fetch.generation /\ ~Returned(told) =>
                told.heads[p.branch] <= p.commit

\* So is the policy of the entry while the generation is the one it was confirmed at.
Confirmed == LET p == cached.policy IN p # NoPolicy =>
    /\ ReadAt(p)
    /\ cached.generation = generation =>
          /\ known = p.branch
          /\ ~Returned(told) => BranchHonours(p.branch, p.epoch, told)
                                /\ told.heads[p.branch] <= p.commit

\* A policy is kept in an entry.
Kept == cached.policy # NoPolicy => cached.exists

\* The inductive invariant.
CacheIInv ==
    /\ CacheTypeOK /\ FetchOK /\ Truthful /\ MailTrue /\ Learned
    /\ Reading /\ Kept /\ Confirmed /\ ToldChangesHonoured

-----------------------------------------------------------------------------
(* Records. *)

\* Making the entry changes nothing else of it.
LEMMA CachedChanged ==
    ASSUME NEW c \in Cached
    PROVE  /\ [c EXCEPT !.exists = TRUE] \in Cached
           /\ [c EXCEPT !.exists = TRUE].exists
           /\ [c EXCEPT !.exists = TRUE].policy = c.policy
           /\ [c EXCEPT !.exists = TRUE].generation = c.generation
           /\ [c EXCEPT !.exists = TRUE].young = c.young
           /\ [c EXCEPT !.exists = TRUE].failed = c.failed
           /\ [c EXCEPT !.exists = TRUE].blocked = c.blocked
  <1>1. [c EXCEPT !.exists = TRUE] \in Cached
    BY DEF Cached
  <1> QED
    BY <1>1 DEF Cached

\* Neither does the policy getting old, ...
LEMMA CachedAged ==
    ASSUME NEW c \in Cached
    PROVE  /\ [c EXCEPT !.young = FALSE] \in Cached
           /\ ~[c EXCEPT !.young = FALSE].young
           /\ [c EXCEPT !.young = FALSE].policy = c.policy
           /\ [c EXCEPT !.young = FALSE].generation = c.generation
           /\ [c EXCEPT !.young = FALSE].exists = c.exists
           /\ [c EXCEPT !.young = FALSE].failed = c.failed
           /\ [c EXCEPT !.young = FALSE].blocked = c.blocked
  <1>1. [c EXCEPT !.young = FALSE] \in Cached
    BY DEF Cached
  <1> QED
    BY <1>1 DEF Cached

\* ... nor the time of a retry coming, ...
LEMMA CachedRetried ==
    ASSUME NEW c \in Cached
    PROVE  /\ [c EXCEPT !.blocked = FALSE] \in Cached
           /\ ~[c EXCEPT !.blocked = FALSE].blocked
           /\ [c EXCEPT !.blocked = FALSE].policy = c.policy
           /\ [c EXCEPT !.blocked = FALSE].generation = c.generation
           /\ [c EXCEPT !.blocked = FALSE].exists = c.exists
           /\ [c EXCEPT !.blocked = FALSE].failed = c.failed
           /\ [c EXCEPT !.blocked = FALSE].young = c.young
  <1>1. [c EXCEPT !.blocked = FALSE] \in Cached
    BY DEF Cached
  <1> QED
    BY <1>1 DEF Cached

\* ... and a failure keeps the policy and its generation.
LEMMA CachedFailed ==
    ASSUME NEW c \in Cached, NEW d, NEW b \in BOOLEAN,
           d = [c EXCEPT !.failed = TRUE, !.blocked = b]
    PROVE  /\ d \in Cached /\ d.failed /\ d.policy = c.policy
           /\ d.generation = c.generation /\ d.exists = c.exists /\ d.young = c.young
  <1> DEFINE e == [c EXCEPT !.failed = TRUE]
  <1>1. e \in Cached /\ e.failed /\ e.policy = c.policy /\ e.generation = c.generation
        /\ e.exists = c.exists /\ e.young = c.young
    BY DEF Cached
  <1>2. d = [e EXCEPT !.blocked = b]
    OBVIOUS
  <1> HIDE DEF e
  <1>3. [e EXCEPT !.blocked = b] \in Cached
    BY <1>1 DEF Cached
  <1>4. /\ [e EXCEPT !.blocked = b].failed = e.failed
        /\ [e EXCEPT !.blocked = b].policy = e.policy
        /\ [e EXCEPT !.blocked = b].generation = e.generation
        /\ [e EXCEPT !.blocked = b].exists = e.exists
        /\ [e EXCEPT !.blocked = b].young = e.young
    BY <1>1 DEF Cached
  <1> QED
    BY <1>1, <1>2, <1>3, <1>4

\* A confirmed entry.
LEMMA CachedConfirmed ==
    ASSUME NEW p \in Policy, NEW g \in Nat,
           NEW d, d = [exists |-> TRUE, policy |-> p, generation |-> g,
                       young |-> TRUE, failed |-> FALSE, blocked |-> FALSE]
    PROVE  /\ d \in Cached /\ d.policy = p /\ d.generation = g /\ d.exists /\ ~d.blocked
  <1>1. d \in Cached
    BY Zenon DEF Cached
  <1>2. d.policy = p /\ d.generation = g /\ d.exists = TRUE /\ d.blocked = FALSE
    BY Zenon
  <1> QED
    BY <1>1, <1>2

\* The entry nobody asked for.
LEMMA EmptyCached ==
    /\ Empty \in Cached /\ Empty.policy = NoPolicy /\ Empty.generation = 0
    /\ ~Empty.exists /\ ~Empty.young /\ ~Empty.blocked
  <1>1. 0 \in Nat
    OBVIOUS
  <1>2. Empty \in Cached
    BY <1>1, Zenon DEF Empty, Cached
  <1>3. Empty.policy = NoPolicy /\ Empty.generation = 0 /\ Empty.exists = FALSE
        /\ Empty.young = FALSE /\ Empty.blocked = FALSE
    BY Zenon DEF Empty
  <1> QED
    BY <1>2, <1>3

\* A policy is not the absence of one.
LEMMA PolicyIsOne ==
    ASSUME NEW p \in Policy
    PROVE  p # NoPolicy
  <1>1. "commit" \in DOMAIN p /\ "commit" \notin DOMAIN NoPolicy
    BY DEF Policy, NoPolicy
  <1> QED
    BY <1>1

-----------------------------------------------------------------------------
(* Types. *)

\* What the type invariant says of the parts of the state.
LEMMA Typed ==
    ASSUME CacheTypeOK
    PROVE  /\ heads \in [Branches -> Nat] /\ defaults \in Seq(Branches)
           /\ epoch \in Nat /\ epoch >= 1
           /\ \A e \in 1..epoch : defaults[e] \in Branches
           /\ told.epoch \in Nat /\ told.default \in Branches /\ told.heads \in [Branches -> Nat]
           /\ generation \in Nat /\ cached.generation \in Nat
           /\ cached.policy \in Policy \cup {NoPolicy} /\ cached \in Cached
  <1>1. heads \in [Branches -> Nat] /\ defaults \in Seq(Branches) /\ defaults # <<>>
    BY DEF CacheTypeOK
  <1>2. epoch \in Nat /\ epoch >= 1
    BY <1>1 DEF epoch
  <1>3. \A e \in 1..epoch : defaults[e] \in Branches
    BY <1>1 DEF epoch
  <1>4. told.epoch \in Nat /\ told.default \in Branches /\ told.heads \in [Branches -> Nat]
    BY DEF CacheTypeOK, Told
  <1>5. generation \in Nat /\ cached.generation \in Nat
        /\ cached.policy \in Policy \cup {NoPolicy} /\ cached \in Cached
    BY DEF CacheTypeOK, Cached
  <1> QED
    BY <1>1, <1>2, <1>3, <1>4, <1>5

\* What a load between its requests carries.
LEMMA FetchTyped ==
    ASSUME FetchOK
    PROVE  /\ fetch # Free => /\ fetch.pc \in {"metadata", "head", "file", "commit"}
                              /\ fetch.generation \in Nat /\ fetch.generation <= generation
                              /\ fetch.told \in Told
           /\ fetch.pc = "head" => fetch.branch \in Branches /\ fetch.epoch \in Nat
           /\ fetch.pc \in {"file", "commit"} => fetch.policy \in Policy
           /\ fetch = Free => fetch.pc = "free"
  BY DEF FetchOK, Fetches, Free

-----------------------------------------------------------------------------
(* The repository. *)

\* What was told stays true when the repository moves on.
LEMMA StaysTrue ==
    ASSUME CacheTypeOK, CacheTypeOK', epoch <= epoch',
           \A e \in 1..epoch : defaults'[e] = defaults[e],
           \A b \in Branches : heads[b] <= heads'[b],
           NEW t \in Told, Happened(t)
    PROVE  /\ t.epoch \in 1..epoch' /\ t.default = defaults'[t.epoch]
           /\ \A b \in Branches : t.heads[b] <= heads'[b]
           /\ (\E e \in 1..t.epoch - 1 : defaults'[e] = t.default) => Returned(t)
  <1>1. epoch \in Nat /\ epoch' \in Nat
    BY Typed, SMTT(60) DEF CacheTypeOK, epoch
  <1>2. t.epoch \in Nat /\ t.heads \in [Branches -> Nat]
    BY DEF Told
  <1>3. heads \in [Branches -> Nat] /\ heads' \in [Branches -> Nat]
    BY DEF CacheTypeOK
  <1>4. t.epoch \in 1..epoch /\ t.default = defaults[t.epoch]
        /\ \A b \in Branches : t.heads[b] <= heads[b]
    BY DEF Happened
  <1>5. \A b \in Branches : t.heads[b] <= heads'[b]
    BY <1>2, <1>3, <1>4
  <1>6. t.epoch \in 1..epoch' /\ t.default = defaults'[t.epoch]
    BY <1>1, <1>2, <1>4
  <1>7. (\E e \in 1..t.epoch - 1 : defaults'[e] = t.default) => Returned(t)
    BY <1>1, <1>2, <1>4 DEF Returned
  <1> QED
    BY <1>5, <1>6, <1>7

\* The repository moves on and a webhook of its present is sent or lost.
LEMMA WorldMoves ==
    ASSUME CacheIInv, CacheTypeOK', NEW m,
           mail' = mail \/ mail' = mail \cup {m},
           m.epoch \in 1..epoch', m.default = defaults'[m.epoch], m.commit \in Nat,
           m.ref \in Branches \cup {None}, m.ref \in Branches => m.commit <= heads'[m.ref],
           m.epoch >= epoch,
           epoch <= epoch', \A e \in 1..epoch : defaults'[e] = defaults[e],
           \A b \in Branches : heads[b] <= heads'[b],
           UNCHANGED <<told, entry, fetch, served>>
    PROVE  CacheIInv'
  <1>1. /\ CacheTypeOK /\ FetchOK /\ Truthful /\ MailTrue /\ Learned
        /\ Reading /\ Kept /\ Confirmed /\ ToldChangesHonoured
    BY DEF CacheIInv
  <1>2. epoch \in Nat /\ epoch' \in Nat /\ epoch >= 1 /\ epoch' >= 1
    <2>1. epoch \in Nat /\ epoch >= 1
      BY <1>1, Typed
    <2>2. epoch' \in Nat
      BY DEF CacheTypeOK, epoch
    <2> QED
      BY <2>1, <2>2
  <1>3. heads \in [Branches -> Nat] /\ heads' \in [Branches -> Nat]
    BY <1>1 DEF CacheTypeOK
  <1>4. UNCHANGED <<told, generation, known, cached, fetch, served>>
    BY DEF entry
  <1>5. FetchOK'
    BY <1>1, <1>4 DEF FetchOK
  <1>6. told \in Told /\ (fetch # Free => fetch.told \in Told)
        /\ (served.state = "ready" => served.told \in Told /\ served.policy \in Policy)
    <2>1. told \in Told /\ served \in Result
      BY <1>1 DEF CacheTypeOK
    <2>2. fetch # Free => fetch.told \in Told
      BY <1>1, FetchTyped
    <2>3. served.state = "ready" => served.told \in Told /\ served.policy \in Policy
      BY <2>1 DEF Result, None
    <2> QED
      BY <2>1, <2>2, <2>3
  <1>7. Truthful'
    <2>1. Happened(told)'
      BY <1>1, <1>4, <1>6, StaysTrue DEF Truthful, Happened
    <2>2. (fetch # Free => Happened(fetch.told))'
      BY <1>1, <1>4, <1>6, StaysTrue DEF Truthful, Happened
    <2>3. (served.state = "ready" => Happened(served.told))'
      BY <1>1, <1>4, <1>6, StaysTrue DEF Truthful, Happened
    <2> QED
      BY <2>1, <2>2, <2>3 DEF Truthful
  <1>8. MailTrue'
    <2> SUFFICES ASSUME NEW n \in mail'
                 PROVE  /\ n.epoch \in 1..epoch' /\ n.default = defaults'[n.epoch]
                        /\ n.commit \in Nat /\ n.ref \in Branches \cup {None}
                        /\ n.ref \in Branches => n.commit <= heads'[n.ref]
      BY DEF MailTrue
    <2>1. CASE n \in mail
      <3>1. /\ n.epoch \in 1..epoch /\ n.default = defaults[n.epoch] /\ n.commit \in Nat
            /\ n.ref \in Branches \cup {None} /\ (n.ref \in Branches => n.commit <= heads[n.ref])
        BY <1>1, <2>1 DEF MailTrue
      <3> QED
        BY <1>2, <1>3, <3>1
    <2>2. CASE n = m
      BY <2>2
    <2> QED
      BY <2>1, <2>2
  <1>9. \A b, last : last \in Nat /\ last <= epoch =>
          (WasDefault(b, last)' <=> WasDefault(b, last))
    BY <1>2 DEF WasDefault
  <1>10. Learned'
    BY <1>1, <1>2, <1>4 DEF Learned, WasDefault
  <1>11. Returned(told)' <=> Returned(told)
    <2>1. told.epoch \in 1..epoch /\ told.epoch \in Nat
      BY <1>1, Typed DEF Truthful, Happened
    <2> QED
      BY <1>2, <1>4, <2>1 DEF Returned
  <1>12. ASSUME NEW p \in Policy, ReadAt(p)
         PROVE  /\ ReadAt(p)' /\ p.epoch \in Nat /\ p.epoch <= epoch
    <2>1. p.epoch \in 1..epoch /\ p.branch \in Branches /\ p.commit \in Nat
          /\ p.branch = defaults[p.epoch] /\ p.commit <= heads[p.branch]
      BY <1>12 DEF ReadAt, Policy
    <2>2. p.epoch \in 1..epoch' /\ p.branch = defaults'[p.epoch] /\ p.commit <= heads'[p.branch]
      BY <1>2, <1>3, <2>1
    <2>3. \A n \in mail' : n.ref = p.branch /\ n.commit > p.commit => n.epoch >= p.epoch
      BY <1>2, <1>12, <2>1 DEF ReadAt
    <2>4. told'.heads[p.branch] > p.commit => told'.epoch >= p.epoch
      BY <1>4, <1>12 DEF ReadAt
    <2> QED
      BY <1>2, <2>1, <2>2, <2>3, <2>4 DEF ReadAt
  <1>13. ASSUME NEW b, NEW e \in Nat, e <= epoch, Fence(b, e)
         PROVE  Fence(b, e)'
    BY <1>4, <1>9, <1>11, <1>13 DEF Fence, BranchHonours
  <1>14. Reading'
    <2>1. CASE fetch.pc = "head"
      <3>1. /\ fetch.epoch \in 1..epoch /\ fetch.branch = defaults[fetch.epoch]
            /\ fetch.told.epoch <= fetch.epoch /\ Fence(fetch.branch, fetch.epoch)
        BY <1>1, <2>1 DEF Reading
      <3>2. fetch.epoch \in 1..epoch' /\ fetch.branch = defaults'[fetch.epoch]
            /\ fetch.epoch \in Nat /\ fetch.epoch <= epoch
        BY <1>2, <3>1
      <3>3. Fence(fetch.branch, fetch.epoch)'
        BY <1>4, <1>9, <1>11, <3>1, <3>2 DEF Fence, BranchHonours
      <3> QED
        BY <1>4, <2>1, <3>1, <3>2, <3>3 DEF Reading
    <2>2. CASE fetch.pc \in {"file", "commit"}
      <3> DEFINE p == fetch.policy
      <3>1. /\ ReadAt(p) /\ p \in Policy
            /\ fetch.told.epoch <= p.epoch /\ fetch.told.heads[p.branch] <= p.commit
            /\ Fence(p.branch, p.epoch)
            /\ generation = fetch.generation /\ ~Returned(told) => told.heads[p.branch] <= p.commit
        BY <1>1, <2>2, FetchTyped DEF Reading
      <3>2. ReadAt(p)'
        BY <1>4, <1>12, <3>1 DEF ReadAt
      <3>3. Fence(p.branch, p.epoch)'
        BY <1>4, <1>9, <1>11, <1>12, <3>1 DEF Fence, BranchHonours
      <3> QED
        BY <1>4, <1>11, <2>2, <3>1, <3>2, <3>3 DEF Reading
    <2>3. CASE fetch.pc \notin {"head", "file", "commit"}
      BY <1>4, <2>3 DEF Reading
    <2> QED
      BY <2>1, <2>2, <2>3
  <1>15. Confirmed'
    <2>1. CASE cached.policy = NoPolicy
      BY <1>4, <2>1 DEF Confirmed
    <2>2. CASE cached.policy # NoPolicy
      <3> DEFINE p == cached.policy
      <3>1. p \in Policy /\ ReadAt(p)
        BY <1>1, <2>2, Typed DEF Confirmed
      <3>2. ReadAt(p)'
        BY <1>4, <1>12, <3>1 DEF ReadAt
      <3> QED
        BY <1>1, <1>4, <1>11, <2>2, <3>2 DEF Confirmed, BranchHonours
    <2> QED
      BY <2>1, <2>2
  <1>16. ToldChangesHonoured'
    <2> SUFFICES ASSUME served.state = "ready", ~Returned(served.told)'
                 PROVE  /\ served.policy.branch = served.told.default
                              \/ served.policy.epoch >= served.told.epoch
                        /\ served.policy.commit >= served.told.heads[served.policy.branch]
      BY <1>4 DEF ToldChangesHonoured
    <2>1. served.told.epoch \in 1..epoch /\ served.told.epoch \in Nat
      BY <1>1 DEF Truthful, Happened
    <2>2. ~Returned(served.told)
      BY <1>2, <1>4, <2>1 DEF Returned
    <2> QED
      BY <1>1, <2>2 DEF ToldChangesHonoured
  <1>17. Kept'
    BY <1>1, <1>4 DEF Kept
  <1> QED
    BY <1>5, <1>7, <1>8, <1>10, <1>14, <1>15, <1>16, <1>17 DEF CacheIInv

\* What a change does to the bounds and to the mail.
LEMMA ChangeTyped ==
    ASSUME CacheTypeOK, NEW m, Change(m)
    PROVE  /\ cacheMoves' \in 0..MaxCacheMoves /\ cacheFaults' \in 0..MaxCacheFaults
           /\ mail' = mail \/ mail' = mail \cup {m}
           /\ UNCHANGED <<told, entry, fetch, served>>
  <1>1. cacheMoves \in 0..MaxCacheMoves /\ cacheFaults \in 0..MaxCacheFaults
    BY DEF CacheTypeOK
  <1> QED
    BY <1>1, CacheAssumption DEF Change

\* A push.
LEMMA CachePushStep ==
    ASSUME CacheIInv, NEW b \in Branches, Push(b)
    PROVE  CacheIInv'
  <1> DEFINE m == [ref |-> b, commit |-> heads'[b], default |-> default, epoch |-> epoch]
  <1>1. CacheTypeOK /\ Change(m) /\ heads' = [heads EXCEPT ![b] = @ + 1] /\ defaults' = defaults
    BY DEF CacheIInv, Push
  <1>2. /\ cacheMoves' \in 0..MaxCacheMoves /\ cacheFaults' \in 0..MaxCacheFaults
        /\ mail' = mail \/ mail' = mail \cup {m}
        /\ UNCHANGED <<told, entry, fetch, served>>
    <2> HIDE DEF m
    <2> QED
      BY <1>1, ChangeTyped
  <1>3. heads \in [Branches -> Nat] /\ epoch \in Nat /\ epoch >= 1
    BY <1>1, Typed
  <1>4. heads' \in [Branches -> Nat] /\ \A c \in Branches : heads[c] <= heads'[c]
    BY <1>1, <1>3
  <1>5. CacheTypeOK'
    BY <1>1, <1>2, <1>4 DEF CacheTypeOK, entry
  <1>6. epoch' = epoch
    BY <1>1 DEF epoch
  <1>7. m.epoch \in 1..epoch' /\ m.epoch >= epoch
    BY <1>3, <1>6
  <1>8. m.default = defaults'[m.epoch]
    BY <1>1 DEF default, epoch
  <1>9. m.commit \in Nat /\ m.ref \in Branches /\ m.commit <= heads'[m.ref]
    BY <1>4
  <1> HIDE DEF m
  <1> QED
    BY <1>1, <1>2, <1>3, <1>4, <1>5, <1>6, <1>7, <1>8, <1>9, WorldMoves

\* The default branch is renamed or changed.
LEMMA SwitchStep ==
    ASSUME CacheIInv, NEW b \in Branches, Switch(b)
    PROVE  CacheIInv'
  <1> DEFINE m == [ref |-> None, commit |-> 0, default |-> b, epoch |-> epoch + 1]
  <1>1. CacheTypeOK /\ Change(m) /\ heads' = heads /\ defaults' = Append(defaults, b)
    BY DEF CacheIInv, Switch
  <1>2. /\ cacheMoves' \in 0..MaxCacheMoves /\ cacheFaults' \in 0..MaxCacheFaults
        /\ mail' = mail \/ mail' = mail \cup {m}
        /\ UNCHANGED <<told, entry, fetch, served>>
    <2> HIDE DEF m
    <2> QED
      BY <1>1, ChangeTyped
  <1>3. heads \in [Branches -> Nat] /\ epoch \in Nat /\ epoch >= 1
        /\ defaults \in Seq(Branches)
    BY <1>1, Typed
  <1>4. /\ defaults' \in Seq(Branches) /\ defaults' # <<>>
        /\ epoch' = epoch + 1 /\ defaults'[epoch + 1] = b
        /\ \A e \in 1..epoch : defaults'[e] = defaults[e]
    BY <1>1, <1>3 DEF epoch
  <1>5. CacheTypeOK'
    BY <1>1, <1>2, <1>4 DEF CacheTypeOK, entry
  <1>6. m.epoch \in 1..epoch' /\ m.epoch >= epoch /\ epoch <= epoch'
    BY <1>3, <1>4
  <1>7. m.default = defaults'[m.epoch]
    BY <1>4
  <1>8. m.commit \in Nat /\ m.ref \in {None} /\ m.ref \notin Branches
    BY CacheAssumption
  <1>9. \A c \in Branches : heads[c] <= heads'[c]
    BY <1>1, <1>3
  <1> HIDE DEF m
  <1> QED
    BY <1>1, <1>2, <1>4, <1>5, <1>6, <1>7, <1>8, <1>9, WorldMoves

-----------------------------------------------------------------------------
(* Webhooks. *)

\* What a webhook tells is merged with what was told.
LEMMA ToldMore ==
    ASSUME CacheIInv, NEW m \in mail, Observe(m)
    PROVE  /\ told' \in Told
           /\ told'.epoch = (IF told.epoch < m.epoch THEN m.epoch ELSE told.epoch)
           /\ told'.default = (IF told.epoch < m.epoch THEN m.default ELSE told.default)
           /\ \A b \in Branches : told'.heads[b] =
                IF b = m.ref /\ told.heads[b] < m.commit THEN m.commit ELSE told.heads[b]
           /\ Happened(told)'
           /\ m.epoch \in Nat /\ m.epoch \in 1..epoch /\ m.default \in Branches
           /\ m.default = defaults[m.epoch] /\ m.commit \in Nat
           /\ UNCHANGED <<heads, broken, defaults, cached, fetch, served>>
  <1>1. CacheTypeOK /\ Truthful /\ MailTrue
    BY DEF CacheIInv
  <1>2. /\ m.epoch \in 1..epoch /\ m.default = defaults[m.epoch] /\ m.commit \in Nat
        /\ m.ref \in Branches \cup {None} /\ (m.ref \in Branches => m.commit <= heads[m.ref])
    BY <1>1 DEF MailTrue
  <1>3. epoch \in Nat /\ m.epoch \in Nat /\ m.default \in Branches
        /\ told.epoch \in Nat /\ told.default \in Branches /\ told.heads \in [Branches -> Nat]
        /\ heads \in [Branches -> Nat]
    BY <1>1, <1>2, Typed, SMTT(60)
  <1> DEFINE h == [b \in Branches |->
        IF b = m.ref /\ told.heads[b] < m.commit THEN m.commit ELSE told.heads[b]]
      e == IF told.epoch < m.epoch THEN m.epoch ELSE told.epoch
      d == IF told.epoch < m.epoch THEN m.default ELSE told.default
  <1>4. h \in [Branches -> Nat] /\ e \in Nat /\ d \in Branches
    BY <1>2, <1>3
  <1>5. told' = [epoch |-> e, default |-> d, heads |-> h]
    BY DEF Observe
  <1>6. told' \in Told /\ told'.epoch = e /\ told'.default = d /\ told'.heads = h
    <2> HIDE DEF e, d, h
    <2> QED
      BY <1>4, <1>5 DEF Told
  <1>7. UNCHANGED <<heads, broken, defaults, cached, fetch, served>>
    BY DEF Observe, github
  <1>8. Happened(told)'
    <2>1. told.epoch \in 1..epoch /\ told.default = defaults[told.epoch]
          /\ \A b \in Branches : told.heads[b] <= heads[b]
      BY <1>1 DEF Truthful, Happened
    <2>2. e \in 1..epoch /\ d = defaults[e]
      BY <1>2, <2>1
    <2>3. \A b \in Branches : h[b] <= heads[b]
      BY <1>2, <1>3, <2>1
    <2>4. epoch' = epoch
      BY <1>7 DEF epoch
    <2> HIDE DEF e, d, h
    <2> QED
      BY <1>6, <1>7, <2>2, <2>3, <2>4 DEF Happened
  <1> QED
    BY <1>2, <1>3, <1>6, <1>7, <1>8

\* A webhook that does not move the generation leaves the commit of the policy as
\* new as what the bot was told: it names the same branch and not a push to it.
LEMMA Unnoticed ==
    ASSUME CacheIInv, NEW m \in mail, Observe(m),
           NEW p \in Policy, ReadAt(p),
           WasDefault(m.default, p.epoch), m.ref # m.default,
           ~Returned(told) => BranchHonours(p.branch, p.epoch, told),
           ~Returned(told) => told.heads[p.branch] <= p.commit,
           ~Returned(told)'
    PROVE  told'.heads[p.branch] <= p.commit
  <1>1. CacheTypeOK /\ Truthful
    BY DEF CacheIInv
  <1>2. /\ told'.epoch = (IF told.epoch < m.epoch THEN m.epoch ELSE told.epoch)
        /\ told'.default = (IF told.epoch < m.epoch THEN m.default ELSE told.default)
        /\ \A b \in Branches : told'.heads[b] =
             IF b = m.ref /\ told.heads[b] < m.commit THEN m.commit ELSE told.heads[b]
        /\ m.epoch \in Nat /\ m.epoch \in 1..epoch /\ m.default = defaults[m.epoch]
        /\ m.commit \in Nat /\ defaults' = defaults
    BY ToldMore
  <1>3. /\ p.epoch \in 1..epoch /\ p.branch = defaults[p.epoch] /\ p.branch \in Branches
        /\ p.commit \in Nat /\ p.epoch \in Nat
        /\ m.ref = p.branch /\ m.commit > p.commit => m.epoch >= p.epoch
        /\ told.heads[p.branch] > p.commit => told.epoch >= p.epoch
    BY DEF ReadAt, Policy
  <1>4. told.epoch \in Nat /\ told.heads \in [Branches -> Nat] /\ epoch \in Nat
        /\ told.epoch \in 1..epoch /\ told.default = defaults[told.epoch]
    BY <1>1, Typed DEF Truthful, Happened
  <1>5. PICK k \in 1..p.epoch : defaults[k] = m.default
    BY DEF WasDefault
  <1>6. k \in Nat /\ k <= p.epoch
    BY <1>3
  \* No epoch before the one told of had its default branch.
  <1>7. \A e \in 1..told'.epoch - 1 : defaults[e] # told'.default
    BY <1>2 DEF Returned
  <1>8. CASE told.epoch < m.epoch
    <2>1. m.epoch <= k
      BY <1>2, <1>5, <1>6, <1>7, <1>8, <1>3
    <2>2. told.heads[p.branch] <= p.commit
      BY <1>2, <1>3, <1>4, <1>6, <1>8, <2>1
    <2>3. ~(m.ref = p.branch /\ m.commit > p.commit)
      <3> SUFFICES ASSUME m.ref = p.branch, m.commit > p.commit
                   PROVE  FALSE
        OBVIOUS
      <3>1. m.epoch >= p.epoch
        BY <1>3
      <3>2. m.epoch = p.epoch
        BY <1>2, <1>3, <1>6, <2>1, <3>1
      <3> QED
        BY <1>2, <1>3, <3>2
    <2> QED
      BY <1>2, <1>3, <1>4, <2>2, <2>3
  <1>9. CASE ~(told.epoch < m.epoch)
    <2>1. told'.epoch = told.epoch /\ told'.default = told.default
      BY <1>2, <1>9
    <2>2. ~Returned(told)
      BY <1>7, <2>1 DEF Returned
    <2>3. p.branch = told.default \/ p.epoch >= told.epoch
      BY <2>2 DEF BranchHonours
    <2>4. p.epoch >= told.epoch
      <3>1. CASE p.branch = told.default /\ p.epoch < told.epoch
        <4>1. p.epoch \in 1..told'.epoch - 1
          BY <1>3, <1>4, <2>1, <3>1
        <4>2. defaults[p.epoch] # told'.default
          BY <1>7, <4>1
        <4> QED
          BY <1>3, <2>1, <3>1, <4>2
      <3> QED
        BY <1>3, <1>4, <2>3, <3>1
    <2>5. ~(m.ref = p.branch /\ m.commit > p.commit)
      <3> SUFFICES ASSUME m.ref = p.branch, m.commit > p.commit
                   PROVE  FALSE
        OBVIOUS
      <3>1. m.epoch >= p.epoch
        BY <1>3
      <3>2. m.epoch = p.epoch
        BY <1>2, <1>3, <1>4, <1>9, <2>4, <3>1
      <3> QED
        BY <1>2, <1>3, <3>2
    <2> QED
      BY <1>2, <1>3, <1>4, <2>2, <2>5
  <1> QED
    BY <1>8, <1>9

\* It leaves the branch of the policy as new as well.
LEMMA UnnoticedBranch ==
    ASSUME CacheIInv, NEW m \in mail, Observe(m),
           NEW b \in Branches, NEW last \in 1..epoch,
           WasDefault(m.default, last), b = defaults[last],
           ~Returned(told) => BranchHonours(b, last, told),
           ~Returned(told)'
    PROVE  b = told'.default \/ last >= told'.epoch
  <1>1. CacheTypeOK /\ Truthful
    BY DEF CacheIInv
  <1>2. /\ told'.epoch = (IF told.epoch < m.epoch THEN m.epoch ELSE told.epoch)
        /\ told'.default = (IF told.epoch < m.epoch THEN m.default ELSE told.default)
        /\ m.epoch \in Nat /\ m.epoch \in 1..epoch /\ m.default = defaults[m.epoch]
        /\ defaults' = defaults
    BY ToldMore
  <1>3. told.epoch \in Nat /\ epoch \in Nat /\ last \in Nat
    BY <1>1, Typed
  <1>4. PICK k \in 1..last : defaults[k] = m.default
    BY DEF WasDefault
  <1>5. \A e \in 1..told'.epoch - 1 : defaults[e] # told'.default
    BY <1>2 DEF Returned
  <1>6. CASE told.epoch < m.epoch
    BY <1>2, <1>3, <1>4, <1>5, <1>6
  <1>7. CASE ~(told.epoch < m.epoch)
    <2>1. told'.epoch = told.epoch /\ told'.default = told.default
      BY <1>2, <1>7
    <2>2. ~Returned(told)
      BY <1>5, <2>1 DEF Returned
    <2> QED
      BY <2>1, <2>2 DEF BranchHonours
  <1> QED
    BY <1>6, <1>7

\* observe_webhook.
LEMMA ObserveStep ==
    ASSUME CacheIInv, NEW m \in mail, Observe(m)
    PROVE  CacheIInv'
  <1>1. /\ CacheTypeOK /\ FetchOK /\ Truthful /\ MailTrue /\ Learned
        /\ Reading /\ Kept /\ Confirmed /\ ToldChangesHonoured
    BY DEF CacheIInv
  <1>2. /\ told' \in Told /\ Happened(told)'
        /\ told'.epoch = (IF told.epoch < m.epoch THEN m.epoch ELSE told.epoch)
        /\ \A b \in Branches : told'.heads[b] =
             IF b = m.ref /\ told.heads[b] < m.commit THEN m.commit ELSE told.heads[b]
        /\ m.epoch \in Nat /\ m.epoch \in 1..epoch /\ m.default \in Branches
        /\ m.default = defaults[m.epoch] /\ m.commit \in Nat
        /\ UNCHANGED <<heads, broken, defaults, cached, fetch, served>>
    BY ToldMore
  <1>3. mail' = mail \ {m} /\ UNCHANGED <<cacheMoves, cacheFaults>> /\ epoch' = epoch
    BY <1>2 DEF Observe, CacheWell, epoch
  <1>4. /\ generation \in Nat /\ generation' \in Nat /\ generation <= generation'
        /\ known' \in Branches \cup {None}
        /\ generation' = generation /\ cached.exists =>
             known = m.default /\ m.ref # m.default /\ known' = known
        /\ ~cached.exists => known' = known /\ generation' = generation
        /\ cached.exists => known' = m.default
    <2>1. generation \in Nat /\ known \in Branches \cup {None}
      BY <1>1 DEF CacheTypeOK
    <2>2. CASE ~cached.exists
      BY <2>1, <2>2 DEF Observe
    <2>3. CASE cached.exists
      <3>1. known' = m.default
            /\ generation' = generation + (IF known # m.default THEN 1 ELSE 0)
                                        + (IF m.ref = m.default THEN 1 ELSE 0)
        BY <2>3 DEF Observe
      <3> QED
        BY <1>2, <2>1, <2>3, <3>1
    <2> QED
      BY <2>2, <2>3
  <1>5. CacheTypeOK'
    <2>1. cached.generation \in Nat
      BY <1>1, Typed
    <2> QED
      BY <1>1, <1>2, <1>3, <1>4, <2>1 DEF CacheTypeOK
  <1>6. fetch # Free => cached.exists /\ fetch.generation \in Nat
                        /\ fetch.generation <= generation
    BY <1>1, FetchTyped DEF CacheTypeOK
  <1>7. FetchOK'
    BY <1>1, <1>2, <1>4, <1>6 DEF FetchOK
  <1>8. Truthful'
    BY <1>1, <1>2, <1>3 DEF Truthful, Happened
  <1>9. MailTrue'
    BY <1>1, <1>2, <1>3 DEF MailTrue
  <1>10. Learned'
    BY <1>1, <1>2, <1>3, <1>4 DEF Learned, WasDefault
  <1>11. epoch \in Nat /\ told.epoch \in Nat
         /\ heads \in [Branches -> Nat] /\ told.heads \in [Branches -> Nat]
    BY <1>1, Typed
  <1>12. ASSUME NEW p \in Policy, ReadAt(p)
         PROVE  ReadAt(p)'
    <2>1. /\ p.epoch \in 1..epoch /\ p.branch = defaults[p.epoch] /\ p.commit <= heads[p.branch]
          /\ \A n \in mail : n.ref = p.branch /\ n.commit > p.commit => n.epoch >= p.epoch
          /\ told.heads[p.branch] > p.commit => told.epoch >= p.epoch
          /\ p.branch \in Branches /\ p.commit \in Nat /\ p.epoch \in Nat
      BY <1>12 DEF ReadAt, Policy
    <2>2. told'.heads[p.branch] > p.commit => told'.epoch >= p.epoch
      BY <1>2, <1>11, <2>1
    <2> QED
      BY <1>2, <1>3, <2>1, <2>2 DEF ReadAt
  <1>14. Reading'
    <2>1. CASE fetch.pc = "head"
      <3>1. /\ fetch.epoch \in 1..epoch /\ fetch.branch = defaults[fetch.epoch]
            /\ fetch.told.epoch <= fetch.epoch /\ Fence(fetch.branch, fetch.epoch)
            /\ fetch.branch \in Branches /\ fetch # Free
        BY <1>1, <2>1, FetchTyped DEF Reading
      <3> DEFINE b == fetch.branch
                 e == fetch.epoch
      <3>2. Fence(fetch.branch, fetch.epoch)'
        <4>1. SUFFICES ASSUME generation' = fetch.generation
                       PROVE  /\ known' # None => WasDefault(known, e)'
                              /\ ~Returned(told)' => BranchHonours(b, e, told)'
          BY <1>2, <3>1 DEF Fence
        <4>2. generation' = generation /\ known = m.default /\ m.ref # m.default /\ known' = known
          BY <1>4, <1>6, <3>1, <4>1
        <4>3. known # None
          BY <1>2, <4>2, CacheAssumption
        <4>4. WasDefault(m.default, e) /\ (~Returned(told) => BranchHonours(b, e, told))
          BY <3>1, <4>1, <4>2, <4>3 DEF Fence
        <4>5. WasDefault(known, e)'
          BY <1>2, <4>2, <4>4 DEF WasDefault
        <4>6. ~Returned(told)' => b = told'.default \/ e >= told'.epoch
          BY <3>1, <4>4, UnnoticedBranch
        <4>7. ~Returned(told)' => BranchHonours(b, e, told)'
          BY <1>2, <4>6 DEF BranchHonours
        <4> QED
          BY <4>5, <4>7
      <3> QED
        BY <1>2, <1>3, <2>1, <3>1, <3>2 DEF Reading
    <2>2. CASE fetch.pc \in {"file", "commit"}
      <3> DEFINE p == fetch.policy
      <3>1. /\ ReadAt(p) /\ p \in Policy /\ fetch # Free
            /\ fetch.told.epoch <= p.epoch /\ fetch.told.heads[p.branch] <= p.commit
            /\ Fence(p.branch, p.epoch)
            /\ generation = fetch.generation /\ ~Returned(told) => told.heads[p.branch] <= p.commit
        BY <1>1, <2>2, FetchTyped DEF Reading
      <3>2. ReadAt(p)'
        <4>1. \A q \in Policy : ReadAt(q) => ReadAt(q)'
          BY <1>12
        <4> QED
          BY <1>2, <3>1, <4>1 DEF ReadAt
      <3>3. p.epoch \in 1..epoch /\ p.branch \in Branches /\ p.branch = defaults[p.epoch]
        BY <3>1 DEF ReadAt, Policy
      <3>4. ASSUME generation' = fetch.generation
            PROVE  /\ known' # None => WasDefault(known, p.epoch)'
                   /\ ~Returned(told)' => BranchHonours(p.branch, p.epoch, told)'
                   /\ ~Returned(told)' => told'.heads[p.branch] <= p.commit
        <4>2. generation' = generation /\ known = m.default /\ m.ref # m.default /\ known' = known
          BY <1>4, <1>6, <3>1, <3>4
        <4>3. known # None
          BY <1>2, <4>2, CacheAssumption
        <4>4. /\ WasDefault(m.default, p.epoch)
              /\ ~Returned(told) => BranchHonours(p.branch, p.epoch, told)
              /\ ~Returned(told) => told.heads[p.branch] <= p.commit
          BY <3>1, <3>4, <4>2, <4>3 DEF Fence
        <4>5. WasDefault(known, p.epoch)'
          BY <1>2, <4>2, <4>4 DEF WasDefault
        <4>6. ~Returned(told)' => p.branch = told'.default \/ p.epoch >= told'.epoch
          BY <3>3, <4>4, UnnoticedBranch
        <4>7. ~Returned(told)' => BranchHonours(p.branch, p.epoch, told)'
          BY <1>2, <4>6 DEF BranchHonours
        <4>8. ~Returned(told)' => told'.heads[p.branch] <= p.commit
          BY <3>1, <4>2, <4>4, Unnoticed
        <4> QED
          BY <4>5, <4>7, <4>8
      <3>5. Fence(p.branch, p.epoch)'
        BY <1>2, <3>4 DEF Fence
      <3> QED
        BY <1>2, <2>2, <3>1, <3>2, <3>4, <3>5 DEF Reading
    <2>3. CASE fetch.pc \notin {"head", "file", "commit"}
      BY <1>2, <2>3 DEF Reading
    <2> QED
      BY <2>1, <2>2, <2>3
  <1>15. Confirmed'
    <2>1. CASE cached.policy = NoPolicy
      BY <1>2, <2>1 DEF Confirmed
    <2>2. CASE cached.policy # NoPolicy
      <3> DEFINE p == cached.policy
      <3>1. p \in Policy /\ ReadAt(p)
            /\ (cached.generation = generation =>
                  /\ known = p.branch
                  /\ ~Returned(told) => BranchHonours(p.branch, p.epoch, told)
                                        /\ told.heads[p.branch] <= p.commit)
        BY <1>1, <2>2, Typed DEF Confirmed
      <3>2. ReadAt(p)'
        <4>1. \A q \in Policy : ReadAt(q) => ReadAt(q)'
          BY <1>12
        <4> QED
          BY <1>2, <3>1, <4>1 DEF ReadAt
      <3>3. p.epoch \in 1..epoch /\ p.branch \in Branches /\ p.branch = defaults[p.epoch]
            /\ p.epoch \in Nat
        BY <3>1 DEF ReadAt, Policy
      <3>4. ASSUME cached.generation = generation'
            PROVE  /\ known' = p.branch
                   /\ ~Returned(told)' => BranchHonours(p.branch, p.epoch, told)'
                                          /\ told'.heads[p.branch] <= p.commit
        <4>1. cached.generation \in Nat /\ cached.generation <= generation
          BY <1>1, Typed DEF CacheTypeOK
        <4>2. generation' = generation /\ cached.generation = generation
          BY <1>4, <3>4, <4>1
        <4>3. known = p.branch /\ (~Returned(told) =>
                BranchHonours(p.branch, p.epoch, told) /\ told.heads[p.branch] <= p.commit)
          BY <3>1, <4>2
        <4>4. cached.exists
          BY <1>1, <2>2 DEF Kept
        <4>5. known = m.default /\ m.ref # m.default /\ known' = known
          BY <1>4, <4>2, <4>4
        <4>6. WasDefault(m.default, p.epoch)
          <5>1. p.epoch \in 1..p.epoch /\ defaults[p.epoch] = m.default
            BY <3>3, <4>3, <4>5
          <5> HIDE DEF p
          <5> QED
            BY <5>1 DEF WasDefault
        <4>7. ~Returned(told)' => p.branch = told'.default \/ p.epoch >= told'.epoch
          BY <3>3, <4>3, <4>6, UnnoticedBranch
        <4>8. ~Returned(told)' => told'.heads[p.branch] <= p.commit
          BY <3>1, <4>3, <4>5, <4>6, Unnoticed
        <4>9. ~Returned(told)' => BranchHonours(p.branch, p.epoch, told)'
          BY <1>2, <4>7 DEF BranchHonours
        <4> QED
          BY <4>3, <4>5, <4>8, <4>9
      <3> QED
        BY <1>2, <3>2, <3>4 DEF Confirmed
    <2> QED
      BY <2>1, <2>2
  <1>16. ToldChangesHonoured'
    BY <1>1, <1>2 DEF ToldChangesHonoured, Returned
  <1>17. Kept'
    BY <1>1, <1>2 DEF Kept
  <1> QED
    BY <1>5, <1>7, <1>8, <1>9, <1>10, <1>14, <1>15, <1>16, <1>17 DEF CacheIInv

-----------------------------------------------------------------------------
(* Loads. *)

\* A step of a load or of time that keeps the policy, its generation and its fence.
LEMMA EntryStep ==
    ASSUME CacheIInv, CacheTypeOK', FetchOK', Reading',
           UNCHANGED <<heads, broken, defaults, mail, told, generation, known>>,
           cached'.policy = cached.policy, cached'.generation = cached.generation,
           cached.exists => cached'.exists,
           fetch' # Free => Happened(fetch.told)',
           served' = served \/ ~(served'.state = "ready")
             \/ (Happened(served.told)' /\ ToldChangesHonoured')
    PROVE  CacheIInv'
  <1>1. /\ CacheTypeOK /\ FetchOK /\ Truthful /\ MailTrue /\ Learned
        /\ Reading /\ Kept /\ Confirmed /\ ToldChangesHonoured
    BY DEF CacheIInv
  <1>2. epoch' = epoch
    BY DEF epoch
  <1>3. Happened(told)'
    BY <1>1, <1>2 DEF Truthful, Happened
  <1>4. (served.state = "ready" => Happened(served.told))'
    BY <1>1, <1>2 DEF Truthful, Happened
  <1>5. Truthful'
    BY <1>3, <1>4 DEF Truthful
  <1>6. MailTrue'
    BY <1>1, <1>2 DEF MailTrue
  <1>7. Learned'
    BY <1>1, <1>2 DEF Learned, WasDefault
  <1>8. Kept'
    BY <1>1 DEF Kept
  <1>9. Confirmed'
    BY <1>1, <1>2 DEF Confirmed, ReadAt, Returned, BranchHonours
  <1>10. ToldChangesHonoured'
    BY <1>1 DEF ToldChangesHonoured, Returned
  <1> QED
    BY <1>1, <1>5, <1>6, <1>7, <1>8, <1>9, <1>10 DEF CacheIInv

\* A load serves, is refused or begins.
LEMMA LoadStep ==
    ASSUME CacheIInv, Load
    PROVE  CacheIInv'
  <1>1. /\ CacheTypeOK /\ FetchOK /\ Truthful /\ MailTrue /\ Learned
        /\ Reading /\ Kept /\ Confirmed /\ ToldChangesHonoured
    BY DEF CacheIInv
  <1>2. /\ UNCHANGED <<heads, broken, defaults, mail, told, generation, known, cacheMoves,
                       cacheFaults>>
        /\ cached' = [cached EXCEPT !.exists = TRUE]
    BY DEF Load, CacheWell, github
  <1>3. fetch = Free
    BY <1>1, FetchTyped DEF Load, FetchAt
  <1>4. /\ cached' \in Cached /\ cached'.exists /\ cached'.policy = cached.policy
        /\ cached'.generation = cached.generation /\ cached'.young = cached.young
        /\ cached'.failed = cached.failed /\ cached'.blocked = cached.blocked
    <2>1. cached \in Cached
      BY <1>1, Typed
    <2> QED
      BY <1>2, <2>1, CachedChanged
  <1>5. told \in Told /\ Happened(told) /\ generation \in Nat
    BY <1>1 DEF CacheTypeOK, Truthful
  <1>6. Happened(told)'
    BY <1>2, <1>5 DEF Happened, epoch
  <1>7. ASSUME Valid, Serve, UNCHANGED fetch
        PROVE  CacheIInv'
    <2>1. cached.generation = generation /\ cached.policy # NoPolicy
      BY <1>1, <1>7 DEF Valid, CacheTypeOK
    <2>2. cached.policy \in Policy
      BY <1>1, <2>1, Typed
    <2>3. /\ served' \in Result /\ served'.state = "ready"
          /\ served'.policy = cached.policy /\ served'.told = told
      BY <1>5, <1>7, <2>2 DEF Serve, Result
    <2>4. ~Returned(told) => BranchHonours(cached.policy.branch, cached.policy.epoch, told)
                             /\ told.heads[cached.policy.branch] <= cached.policy.commit
      BY <1>1, <2>1 DEF Confirmed
    <2>5. told.heads[cached.policy.branch] \in Nat /\ cached.policy.commit \in Nat
      BY <1>5, <2>2 DEF Told, Policy
    <2>6. ToldChangesHonoured'
      BY <1>2, <2>3, <2>4, <2>5 DEF ToldChangesHonoured, Returned, BranchHonours
    <2>7. CacheTypeOK'
      BY <1>1, <1>2, <1>4, <1>7, <2>3 DEF CacheTypeOK
    <2>8. FetchOK' /\ Reading' /\ fetch' = Free
      BY <1>1, <1>2, <1>3, <1>7 DEF FetchOK, Reading, Free
    <2>9. Happened(served.told)'
      BY <1>2, <1>6, <2>3 DEF Happened
    <2> QED
      BY <1>2, <1>4, <2>6, <2>7, <2>8, <2>9, EntryStep
  <1>8. ASSUME Unavailable, UNCHANGED fetch
        PROVE  CacheIInv'
    <2>1. served' \in Result /\ ~(served'.state = "ready")
      BY <1>8 DEF Unavailable, Result
    <2>2. CacheTypeOK'
      BY <1>1, <1>2, <1>4, <1>8, <2>1 DEF CacheTypeOK
    <2>3. FetchOK' /\ Reading' /\ fetch' = Free
      BY <1>1, <1>2, <1>3, <1>8 DEF FetchOK, Reading, Free
    <2> QED
      BY <1>2, <1>4, <2>1, <2>2, <2>3, EntryStep
  <1>9. ASSUME Begin, UNCHANGED served
        PROVE  CacheIInv'
    <2>1. /\ fetch'.pc = "metadata" /\ fetch' \in Fetches
          /\ fetch'.generation = generation /\ fetch'.told = told
      BY <1>5, <1>9 DEF Begin, Fetches
    <2>2. CacheTypeOK'
      BY <1>1, <1>2, <1>4, <1>9, <2>1 DEF CacheTypeOK
    <2>3. FetchOK' /\ Reading'
      BY <1>2, <1>5, <2>1 DEF FetchOK, Reading
    <2>4. Happened(fetch.told)'
      BY <1>2, <1>6, <2>1 DEF Happened
    <2> QED
      BY <1>2, <1>4, <1>9, <2>2, <2>3, <2>4, EntryStep
  <1> QED
    BY <1>7, <1>8, <1>9 DEF Load

\* The load fails.
LEMMA FailStep ==
    ASSUME CacheIInv, NEW blocked \in BOOLEAN, Fail(blocked),
           UNCHANGED <<heads, broken, defaults, mail, told>>,
           cacheMoves' = cacheMoves, cacheFaults' \in 0..MaxCacheFaults
    PROVE  CacheIInv'
  <1>1. CacheTypeOK /\ FetchOK /\ Reading /\ Kept
    BY DEF CacheIInv
  <1>2. /\ cached' \in Cached /\ cached'.failed /\ cached'.policy = cached.policy
        /\ cached'.generation = cached.generation /\ cached'.exists = cached.exists
        /\ cached'.young = cached.young
    <2>1. cached \in Cached
      BY <1>1, Typed
    <2> QED
      BY <2>1, CachedFailed DEF Fail
  <1>3. fetch' = Free /\ UNCHANGED <<generation, known>>
    BY DEF Fail
  <1>4. served' \in Result /\ ~(served'.state = "ready")
    BY DEF Fail, Unavailable, Result
  <1>5. CacheTypeOK'
    BY <1>1, <1>2, <1>3, <1>4 DEF CacheTypeOK
  <1>6. FetchOK' /\ Reading'
    BY <1>3 DEF FetchOK, Reading, Free
  <1> QED
    BY <1>1, <1>2, <1>3, <1>4, <1>5, <1>6, EntryStep

\* The load goes on to its next request.
LEMMA LoadGoesOn ==
    ASSUME CacheIInv, fetch # Free, FetchOK', Reading',
           fetch' # Free, fetch'.pc \in {"metadata", "head", "file", "commit"},
           fetch'.told = fetch.told,
           UNCHANGED <<heads, broken, defaults, mail, told, generation, known, cached, served,
                       cacheMoves, cacheFaults>>
    PROVE  CacheIInv'
  <1>1. CacheTypeOK /\ Truthful
    BY DEF CacheIInv
  <1>2. CacheTypeOK'
    BY <1>1 DEF CacheTypeOK
  <1>3. Happened(fetch.told)'
    BY <1>1 DEF Truthful, Happened, epoch
  <1> QED
    BY <1>2, <1>3, EntryStep

\* A request fails.
LEMMA StepFails ==
    ASSUME CacheIInv, CacheFails, Fail(TRUE), UNCHANGED <<github, mail, told>>
    PROVE  CacheIInv'
  <1>1. cacheFaults \in 0..MaxCacheFaults
    BY DEF CacheIInv, CacheTypeOK
  <1>2. cacheMoves' = cacheMoves /\ cacheFaults' \in 0..MaxCacheFaults
    BY <1>1, CacheAssumption DEF CacheFails
  <1> QED
    BY <1>2, FailStep DEF github

\* The default branch is read: the newest there is.
LEMMA MetadataStep ==
    ASSUME CacheIInv, Metadata
    PROVE  CacheIInv'
  <1> DEFINE n == [pc |-> "head", generation |-> fetch.generation, told |-> fetch.told,
                   branch |-> default, epoch |-> epoch]
  <1>1. /\ CacheTypeOK /\ FetchOK /\ Truthful /\ Learned
    BY DEF CacheIInv
  <1>2. FetchAt("metadata") /\ UNCHANGED <<github, mail, told>>
        /\ \/ CacheWell /\ fetch' = n /\ UNCHANGED <<entry, served>>
           \/ CacheFails /\ Fail(TRUE)
    BY DEF Metadata, Step
  <1>3. CASE CacheFails /\ Fail(TRUE)
    BY <1>2, <1>3, StepFails
  <1>4. CASE CacheWell /\ fetch' = n /\ UNCHANGED <<entry, served>>
    <2>1. /\ fetch # Free /\ fetch.generation \in Nat /\ fetch.generation <= generation
          /\ fetch.told \in Told
      BY <1>1, <1>2, FetchTyped DEF FetchAt, Free
    <2>2. /\ epoch \in Nat /\ epoch >= 1 /\ default \in Branches /\ default = defaults[epoch]
      BY <1>1, Typed DEF default, epoch
    <2>3. /\ fetch' \in Fetches /\ fetch'.pc = "head" /\ fetch'.generation = fetch.generation
          /\ fetch'.told = fetch.told /\ fetch'.branch = default /\ fetch'.epoch = epoch
      BY <1>4, <2>1, <2>2 DEF Fetches
    <2>4. UNCHANGED <<heads, broken, defaults, mail, told, generation, known, cached, served,
                       cacheMoves, cacheFaults>>
      BY <1>2, <1>4 DEF github, entry, CacheWell
    <2>5. FetchOK'
      BY <2>1, <2>3, <2>4 DEF FetchOK
    <2>6. fetch'.epoch \in 1..epoch' /\ fetch'.branch = defaults'[fetch'.epoch]
      BY <2>2, <2>3, <2>4 DEF epoch
    <2>7. fetch'.told.epoch <= fetch'.epoch
      BY <1>1, <2>1, <2>2, <2>3 DEF Truthful, Happened
    <2>8. /\ known # None => WasDefault(known, epoch)
          /\ BranchHonours(default, epoch, told)
      BY <1>1, <2>2 DEF Learned, Truthful, Happened, BranchHonours
    <2>9. Fence(fetch.branch, fetch.epoch)'
      BY <2>3, <2>4, <2>8 DEF Fence, WasDefault, BranchHonours
    <2>10. Reading'
      BY <2>3, <2>6, <2>7, <2>9 DEF Reading
    <2> QED
      BY <2>1, <2>3, <2>4, <2>5, <2>10, LoadGoesOn DEF Free
  <1> QED
    BY <1>2, <1>3, <1>4

\* The commit of the branch is read: the newest there is.
LEMMA ReadHeadStep ==
    ASSUME CacheIInv, ReadHead
    PROVE  CacheIInv'
  <1> DEFINE p == [branch |-> fetch.branch, commit |-> heads[fetch.branch], epoch |-> fetch.epoch]
             n == [pc |-> "file", generation |-> fetch.generation, told |-> fetch.told,
                   policy |-> p]
  <1>1. /\ CacheTypeOK /\ FetchOK /\ Truthful /\ MailTrue /\ Reading
    BY DEF CacheIInv
  <1>2. FetchAt("head") /\ UNCHANGED <<github, mail, told>>
        /\ \/ CacheWell /\ fetch' = n /\ UNCHANGED <<entry, served>>
           \/ CacheFails /\ Fail(TRUE)
    BY DEF ReadHead, Step
  <1>3. CASE CacheFails /\ Fail(TRUE)
    BY <1>2, <1>3, StepFails
  <1>4. CASE CacheWell /\ fetch' = n /\ UNCHANGED <<entry, served>>
    <2>1. /\ fetch # Free /\ fetch.generation \in Nat /\ fetch.generation <= generation
          /\ fetch.told \in Told /\ fetch.branch \in Branches /\ fetch.epoch \in Nat
          /\ fetch.pc = "head"
      BY <1>1, <1>2, FetchTyped DEF FetchAt, Free
    <2>2. heads \in [Branches -> Nat] /\ epoch \in Nat
          /\ told.heads \in [Branches -> Nat] /\ fetch.told.heads \in [Branches -> Nat]
      BY <1>1, <2>1, Typed DEF Told
    <2>3. p \in Policy /\ p.branch = fetch.branch /\ p.commit = heads[fetch.branch]
          /\ p.epoch = fetch.epoch
      BY <2>1, <2>2 DEF Policy
    <2> HIDE DEF p
    <2>4. /\ fetch' \in Fetches /\ fetch'.pc = "file" /\ fetch'.generation = fetch.generation
          /\ fetch'.told = fetch.told /\ fetch'.policy = p
      BY <1>4, <2>1, <2>3 DEF Fetches
    <2>5. UNCHANGED <<heads, broken, defaults, mail, told, generation, known, cached, served,
                       cacheMoves, cacheFaults>>
      BY <1>2, <1>4 DEF github, entry, CacheWell
    <2>6. FetchOK'
      BY <2>1, <2>4, <2>5 DEF FetchOK
    <2>7. /\ fetch.epoch \in 1..epoch /\ fetch.branch = defaults[fetch.epoch]
          /\ fetch.told.epoch <= fetch.epoch /\ Fence(fetch.branch, fetch.epoch)
      BY <1>1, <2>1 DEF Reading
    <2>8. \A m \in mail : ~(m.ref = p.branch /\ m.commit > p.commit)
      BY <1>1, <2>1, <2>2, <2>3 DEF MailTrue
    <2>9. told.heads[p.branch] <= p.commit /\ fetch.told.heads[p.branch] <= p.commit
      BY <1>1, <2>1, <2>3 DEF Truthful, Happened
    <2>10. ~(told.heads[p.branch] > p.commit) /\ p.commit <= heads[p.branch]
      BY <2>1, <2>2, <2>3, <2>9
    <2>11. ReadAt(p)
      BY <2>3, <2>7, <2>8, <2>10 DEF ReadAt
    <2>12. ReadAt(fetch.policy)'
      BY <2>4, <2>5, <2>11 DEF ReadAt, epoch
    <2>13. Fence(fetch.policy.branch, fetch.policy.epoch)'
      BY <2>3, <2>4, <2>5, <2>7 DEF Fence, WasDefault, BranchHonours, Returned
    <2>14. Reading'
      BY <2>3, <2>4, <2>5, <2>7, <2>9, <2>12, <2>13 DEF Reading
    <2> QED
      BY <2>1, <2>4, <2>5, <2>6, <2>14, LoadGoesOn DEF Free
  <1> QED
    BY <1>2, <1>3, <1>4

\* The file is read; the commit does not change any more.
LEMMA FileStep ==
    ASSUME CacheIInv, File
    PROVE  CacheIInv'
  <1> DEFINE n == [fetch EXCEPT !.pc = "commit"]
  <1>1. /\ CacheTypeOK /\ FetchOK /\ Reading
    BY DEF CacheIInv
  <1>2. CASE Fail(TRUE) /\ CacheWell /\ UNCHANGED <<github, mail, told>>
    <2>1. cacheMoves' = cacheMoves /\ cacheFaults' \in 0..MaxCacheFaults
      BY <1>1, <1>2 DEF CacheWell, CacheTypeOK
    <2> QED
      BY <1>2, <2>1, FailStep DEF github
  <1>3. CASE Step("file", n)
    <2>1. FetchAt("file") /\ UNCHANGED <<github, mail, told>>
          /\ \/ CacheWell /\ fetch' = n /\ UNCHANGED <<entry, served>>
             \/ CacheFails /\ Fail(TRUE)
      BY <1>3 DEF Step
    <2>2. CASE CacheFails /\ Fail(TRUE)
      BY <2>1, <2>2, StepFails
    <2>3. CASE CacheWell /\ fetch' = n /\ UNCHANGED <<entry, served>>
      <3>1. /\ fetch # Free /\ fetch.pc = "file" /\ fetch \in Fetches
            /\ fetch.generation <= generation
        BY <1>1, <2>1, FetchTyped DEF FetchAt, Free, FetchOK
      <3>2. /\ fetch' \in Fetches /\ fetch'.pc = "commit"
            /\ fetch'.generation = fetch.generation
            /\ fetch'.told = fetch.told /\ fetch'.policy = fetch.policy
        BY <2>3, <3>1 DEF Fetches
      <3>3. UNCHANGED <<heads, broken, defaults, mail, told, generation, known, cached, served,
                       cacheMoves, cacheFaults>>
        BY <2>1, <2>3 DEF github, entry, CacheWell
      <3>4. FetchOK'
        BY <3>1, <3>2, <3>3 DEF FetchOK
      <3>5. Reading'
        BY <1>1, <3>1, <3>2, <3>3
           DEF Reading, ReadAt, Fence, WasDefault, BranchHonours, Returned, epoch
      <3> QED
        BY <3>1, <3>2, <3>3, <3>4, <3>5, LoadGoesOn DEF Free
    <2> QED
      BY <2>1, <2>2, <2>3
  <1> QED
    BY <1>2, <1>3 DEF File

\* The policy is confirmed unless a change was observed meanwhile.
LEMMA CommitStep ==
    ASSUME CacheIInv, Commit
    PROVE  CacheIInv'
  <1> DEFINE p == fetch.policy
  <1>1. /\ CacheTypeOK /\ FetchOK /\ Truthful /\ MailTrue /\ Learned
        /\ Reading /\ Kept /\ Confirmed /\ ToldChangesHonoured
    BY DEF CacheIInv
  <1>2. /\ UNCHANGED <<heads, broken, defaults, mail, told, cacheMoves, cacheFaults>>
        /\ fetch.pc = "commit" /\ epoch' = epoch
    BY DEF Commit, CacheWell, github, FetchAt, epoch
  <1>3. CASE generation # fetch.generation
    <2>1. Fail(FALSE)
      BY <1>3 DEF Commit
    <2>2. cacheFaults' \in 0..MaxCacheFaults
      BY <1>1, <1>2 DEF CacheTypeOK
    <2> QED
      BY <1>2, <2>1, <2>2, FailStep
  <1>4. CASE generation = fetch.generation
    <2>1. /\ fetch # Free /\ p \in Policy /\ fetch.told \in Told /\ generation \in Nat
          /\ p.branch \in Branches /\ p.commit \in Nat
      BY <1>1, <1>2, FetchTyped DEF CacheTypeOK, Free, Policy
    <2>2. /\ ReadAt(p) /\ fetch.told.epoch <= p.epoch /\ fetch.told.heads[p.branch] <= p.commit
          /\ Fence(p.branch, p.epoch)
          /\ ~Returned(told) => told.heads[p.branch] <= p.commit
      BY <1>1, <1>2, <1>4 DEF Reading
    <2>3. /\ known' = p.branch /\ generation' = generation /\ fetch' = Free
          /\ cached' = [exists |-> TRUE, policy |-> p, generation |-> generation,
                        young |-> TRUE, failed |-> FALSE, blocked |-> FALSE]
          /\ served' = [state |-> "ready", policy |-> p, told |-> fetch.told]
      BY <1>4 DEF Commit
    <2> HIDE DEF p
    <2>4. /\ cached' \in Cached /\ cached'.policy = p /\ cached'.generation = generation
          /\ cached'.exists /\ ~cached'.blocked
      BY <2>1, <2>3, CachedConfirmed
    <2>5. /\ served' \in Result /\ served'.state = "ready"
          /\ served'.policy = p /\ served'.told = fetch.told
      BY <2>1, <2>3 DEF Result
    <2>6. p # NoPolicy
      BY <2>1, PolicyIsOne
    <2>7. CacheTypeOK'
      BY <1>1, <1>2, <2>1, <2>3, <2>4, <2>5, <2>6 DEF CacheTypeOK
    <2>8. FetchOK' /\ Reading'
      BY <2>3 DEF FetchOK, Reading, Free
    <2>9. Truthful'
      BY <1>1, <1>2, <2>1, <2>3, <2>5 DEF Truthful, Happened
    <2>10. MailTrue' /\ Kept'
      BY <1>1, <1>2, <2>4 DEF MailTrue, Kept
    <2>11. WasDefault(p.branch, epoch)
      <3>1. p.epoch \in 1..epoch /\ defaults[p.epoch] = p.branch
        BY <2>2 DEF ReadAt
      <3> QED
        BY <3>1 DEF WasDefault
    <2>12. Learned'
      BY <1>2, <2>3, <2>11 DEF Learned, WasDefault
    <2>14. ReadAt(cached.policy)'
      BY <1>2, <2>2, <2>4 DEF ReadAt
    <2>15. ~Returned(told)' =>
             /\ BranchHonours(p.branch, p.epoch, told')
             /\ told'.heads[p.branch] <= p.commit
      BY <1>2, <1>4, <2>2 DEF Fence, BranchHonours, Returned
    <2>16. Confirmed'
      BY <1>2, <2>3, <2>4, <2>14, <2>15 DEF Confirmed, BranchHonours
    <2>17. ToldChangesHonoured'
      <3>1. p.epoch \in Nat /\ fetch.told.epoch \in Nat
            /\ fetch.told.heads[p.branch] \in Nat
        BY <2>1 DEF Policy, Told
      <3> QED
        BY <2>1, <2>2, <2>5, <3>1 DEF ToldChangesHonoured
    <2> QED
      BY <2>7, <2>8, <2>9, <2>10, <2>12, <2>16, <2>17 DEF CacheIInv
  <1> QED
    BY <1>3, <1>4

-----------------------------------------------------------------------------
(* Faults and time. *)

\* The caller goes away.
LEMMA DropStep ==
    ASSUME CacheIInv, Drop
    PROVE  CacheIInv'
  <1>1. CacheTypeOK /\ Kept
    BY DEF CacheIInv
  <1>2. /\ fetch' = Free /\ cacheMoves' = cacheMoves /\ cacheFaults' \in 0..MaxCacheFaults
        /\ UNCHANGED <<heads, broken, defaults, mail, told, generation, known, cached, served>>
    <2>1. cacheFaults \in 0..MaxCacheFaults
      BY <1>1 DEF CacheTypeOK
    <2> QED
      BY <2>1, CacheAssumption DEF Drop, CacheFails, github, entry
  <1>3. CacheTypeOK'
    BY <1>1, <1>2 DEF CacheTypeOK
  <1>4. FetchOK' /\ Reading'
    BY <1>2 DEF FetchOK, Reading, Free
  <1> QED
    BY <1>2, <1>3, <1>4, EntryStep

\* The process restarts.
LEMMA RestartStep ==
    ASSUME CacheIInv, Restart
    PROVE  CacheIInv'
  <1>1. /\ CacheTypeOK /\ Truthful /\ MailTrue /\ ToldChangesHonoured
    BY DEF CacheIInv
  <1>2. /\ fetch' = Free /\ cacheMoves' = cacheMoves /\ cacheFaults' \in 0..MaxCacheFaults
        /\ UNCHANGED <<heads, broken, defaults, mail, told, served>>
        /\ generation' = 0 /\ known' = None /\ cached' = Empty
    <2>1. cacheFaults \in 0..MaxCacheFaults
      BY <1>1 DEF CacheTypeOK
    <2> QED
      BY <2>1, CacheAssumption DEF Restart, CacheFails, github
  <1>3. /\ cached' \in Cached /\ cached'.policy = NoPolicy /\ cached'.generation = 0
        /\ ~cached'.young /\ ~cached'.blocked
    BY <1>2, EmptyCached
  <1>4. CacheTypeOK'
    BY <1>1, <1>2, <1>3 DEF CacheTypeOK
  <1>5. FetchOK' /\ Reading'
    BY <1>2 DEF FetchOK, Reading, Free
  <1>6. Truthful'
    BY <1>1, <1>2 DEF Truthful, Happened, epoch
  <1>7. MailTrue' /\ Learned' /\ Kept' /\ Confirmed'
    BY <1>1, <1>2, <1>3 DEF MailTrue, Learned, Kept, Confirmed, epoch
  <1>8. ToldChangesHonoured'
    BY <1>1, <1>2 DEF ToldChangesHonoured, Returned
  <1> QED
    BY <1>4, <1>5, <1>6, <1>7, <1>8 DEF CacheIInv

\* A flag of the entry is taken back.
LEMMA TimePasses ==
    ASSUME CacheIInv, cached' \in Cached, cached'.policy = cached.policy,
           cached'.generation = cached.generation, cached'.exists = cached.exists,
           cached'.young => cached.young, cached'.blocked => cached.blocked,
           cached'.failed = cached.failed,
           UNCHANGED <<heads, broken, defaults, mail, told, generation, known, fetch, served,
                       cacheMoves, cacheFaults>>
    PROVE  CacheIInv'
  <1>1. CacheTypeOK /\ FetchOK /\ Reading /\ Truthful
    BY DEF CacheIInv
  <1>2. CacheTypeOK'
    BY <1>1 DEF CacheTypeOK
  <1>3. FetchOK' /\ (fetch' # Free => Happened(fetch.told)')
    BY <1>1 DEF FetchOK, Truthful, Happened, epoch
  <1>4. Reading'
    BY <1>1 DEF Reading, ReadAt, Fence, WasDefault, BranchHonours, Returned, epoch
  <1> QED
    BY <1>2, <1>3, <1>4, EntryStep

\* The policy gets old.
LEMMA AgeStep ==
    ASSUME CacheIInv, Age
    PROVE  CacheIInv'
  <1>1. cached \in Cached
    BY DEF CacheIInv, CacheTypeOK
  <1>2. /\ cached' = [cached EXCEPT !.young = FALSE]
        /\ UNCHANGED <<heads, broken, defaults, mail, told, generation, known, fetch, served,
                       cacheMoves, cacheFaults>>
    BY DEF Age, CacheWell, github
  <1> QED
    BY <1>1, <1>2, CachedAged, TimePasses

\* The time of a retry comes.
LEMMA RetryStep ==
    ASSUME CacheIInv, Retry
    PROVE  CacheIInv'
  <1>1. cached \in Cached
    BY DEF CacheIInv, CacheTypeOK
  <1>2. /\ cached' = [cached EXCEPT !.blocked = FALSE]
        /\ UNCHANGED <<heads, broken, defaults, mail, told, generation, known, fetch, served,
                       cacheMoves, cacheFaults>>
    BY DEF Retry, CacheWell, github
  <1> QED
    BY <1>1, <1>2, CachedRetried, TimePasses

\* Nothing happens.
LEMMA CacheStutterHolds ==
    ASSUME CacheIInv, UNCHANGED cacheVars
    PROVE  CacheIInv'
  <1>1. /\ cached \in Cached
        /\ UNCHANGED <<heads, broken, defaults, mail, told, generation, known, cached, fetch,
                       served, cacheMoves, cacheFaults>>
    BY DEF CacheIInv, CacheTypeOK, cacheVars, github, entry
  <1> QED
    BY <1>1, TimePasses

-----------------------------------------------------------------------------
(* The theorems. *)

\* No entry.
LEMMA CacheInitHolds ==
    ASSUME CacheInit
    PROVE  CacheIInv
  <1>1. /\ heads = [b \in Branches |-> 1] /\ broken = {} /\ defaults \in [1..1 -> Branches]
        /\ mail = {} /\ told = [epoch |-> 1, default |-> default, heads |-> heads]
        /\ generation = 0 /\ known = None /\ cached = Empty
        /\ fetch = Free /\ served = [state |-> None]
        /\ cacheMoves = 0 /\ cacheFaults = 0
    BY DEF CacheInit
  <1>2. /\ defaults \in Seq(Branches) /\ Len(defaults) = 1 /\ defaults # <<>>
        /\ defaults[1] \in Branches
    <2>1. DOMAIN defaults = 1..1 /\ defaults[1] \in Branches
      BY <1>1
    <2>2. defaults \in Seq(Branches)
      BY <1>1, SeqDef
    <2>3. DOMAIN defaults = 1..Len(defaults) /\ Len(defaults) \in Nat
      BY <2>2
    <2>4. Len(defaults) = 1
      BY <2>1, <2>3
    <2>5. defaults # <<>>
      <3>1. Len(<<>>) = 0
        OBVIOUS
      <3> QED
        BY <2>4, <3>1
    <2> QED
      BY <2>1, <2>2, <2>4, <2>5
  <1>3. heads \in [Branches -> Nat] /\ default \in Branches /\ default = defaults[1] /\ epoch = 1
    BY <1>1, <1>2 DEF default, epoch
  <1>4. told \in Told /\ told.epoch = 1 /\ told.default = default /\ told.heads = heads
    BY <1>1, <1>3 DEF Told
  <1>5. /\ cached \in Cached /\ cached.policy = NoPolicy /\ cached.generation = 0
        /\ ~cached.young /\ ~cached.blocked
    BY <1>1, EmptyCached
  <1>6. served \in Result /\ ~(served.state = "ready")
    BY <1>1 DEF Result, None
  <1>7. CacheTypeOK
    BY <1>1, <1>2, <1>3, <1>4, <1>5, <1>6, CacheAssumption DEF CacheTypeOK
  <1>8. FetchOK /\ Reading
    BY <1>1 DEF FetchOK, Reading, Free
  <1>9. Truthful
    BY <1>1, <1>3, <1>4, <1>6 DEF Truthful, Happened
  <1>10. MailTrue /\ Learned /\ Kept /\ Confirmed
    BY <1>1, <1>5 DEF MailTrue, Learned, Kept, Confirmed
  <1>11. ToldChangesHonoured
    BY <1>6 DEF ToldChangesHonoured
  <1> QED
    BY <1>7, <1>8, <1>9, <1>10, <1>11 DEF CacheIInv

\* The invariant is inductive.
LEMMA CacheNextHolds ==
    ASSUME CacheIInv, [CacheNext]_cacheVars
    PROVE  CacheIInv'
  <1>1. ASSUME NEW b \in Branches, Push(b) \/ Switch(b)
        PROVE  CacheIInv'
    BY <1>1, CachePushStep, SwitchStep
  <1>2. ASSUME NEW m \in mail, Observe(m)
        PROVE  CacheIInv'
    BY <1>2, ObserveStep
  <1>3. CASE Loads
    BY <1>3, LoadStep, MetadataStep, ReadHeadStep, FileStep, CommitStep DEF Loads
  <1>4. CASE Drop \/ Restart
    BY <1>4, DropStep, RestartStep
  <1>5. CASE Age \/ Retry
    BY <1>5, AgeStep, RetryStep
  <1>6. CASE UNCHANGED cacheVars
    BY <1>6, CacheStutterHolds
  <1> QED
    BY <1>1, <1>2, <1>3, <1>4, <1>5, <1>6 DEF CacheNext

\* The inductive invariant is an invariant of the cache.
THEOREM CacheInvariant == CacheSpec => []CacheIInv
  <1>1. CacheInit => CacheIInv
    BY CacheInitHolds
  <1>2. CacheIInv /\ [CacheNext]_cacheVars => CacheIInv'
    BY CacheNextHolds
  <1> QED
    BY <1>1, <1>2, PTL DEF CacheSpec

\* A load never serves a policy older than a change the bot had been told of when
\* the load began (observe_webhook, the fence in load).
THEOREM ChangesAreHonoured == CacheSpec => []ToldChangesHonoured
  <1>1. CacheIInv => ToldChangesHonoured
    BY DEF CacheIInv
  <1> QED
    BY <1>1, CacheInvariant, PTL

=============================================================================
