------------------------ MODULE TriggerRuntimeProofs ------------------------
(***************************************************************************)
(* Theorems about the comment-command worker for every set of deliveries,  *)
(* commands and writes, any number of workers, faults, attempts and        *)
(* leases: the rows a worker acts on stay its own, nothing stays claimed   *)
(* without a worker, every step is a step of the ledger and of the promise *)
(* about external writes, a write takes effect at most once, and a request *)
(* leaves only under the snapshot its command was planned for.             *)
(*                                                                         *)
(* There are four invariants.  RuntimeIInv says what a worker at each      *)
(* place holds (Fits), that workers run only while the server pumps        *)
(* (Process) and that the pump knows the worker of every claim (Tended).   *)
(* OnceIInv says which states of a row leave its write untouched (Once)    *)
(* and that a claim is newer than every request before its send mark       *)
(* (Sequel).  Snapshots says that a write has the snapshot of its command. *)
(* Both follow from what every step does to a row (Orderly).  Landed says  *)
(* that what GitHub carried out had its effect, which is what a receipt    *)
(* must tell for the worker to implement the promise of DurableWrite.      *)
(***************************************************************************)
EXTENDS TriggerRuntime, TriggerStoreProofs, SequenceTheorems

\* The places of a worker that carries a command out.
InCommand == {"claim", "children", "stale", "supersede", "write", "lookup", "claimWrite",
              "mark", "http", "finish"}
\* The places of a worker at one of the writes of its handler.
InWrite == {"lookup", "claimWrite", "mark", "http"}

\* What is left to do is there.
Shape(w) ==
    /\ w.pc \in InCommand => w.queue # <<>>
    /\ w.pc \in InCommand \cup {"command"} /\ w.queue # <<>> => w.head \in Heads
    /\ w.pc \in InWrite => w.step <= Len(WritesOf[Head(w.queue)])
    /\ w.pc \in InWrite \cup {"write"} => w.step >= 1

\* What was read of an uncertain write holds until the write is claimed again.
Seen(w) == \A r \in w.todo : LET k == r.key IN
    /\ r.attempt <= ops[k].attempts
    /\ r.attempt = ops[k].attempts =>
          /\ ops[k].state # "running"
          /\ ops[k].state = "unknown" => ops[k].sent = r.sent

\* The claim of an attempt of k by the delivery d stands.
Holds(d, k, attempt) == Owns(k, attempt) /\ ops[k].lease = d
\* What a worker at each place has claimed; nothing of its delivery is left running
\* when the envelope is released.
Leases(d, w) ==
    /\ w.pc \in {"write", "lookup", "claimWrite", "mark", "http", "finish", "stale"}
          => Holds(d, Head(w.queue), w.run)
    /\ w.pc \in {"write", "lookup", "claimWrite", "mark", "http"}
          => ops[Head(w.queue)].head = w.head
    /\ w.pc \in {"mark", "http"} => Holds(d, WriteOf(w), w.try)
    /\ w.pc = "mark" => ~ops[WriteOf(w)].sent
    /\ w.pc # "idle" => inbox[d].state = "running" /\ inbox[d].attempts = w.lease
    /\ w.pc = "release" => \A k \in Keys : ~(ops[k].state = "running" /\ ops[k].lease = d)

Fits(d, w) == Shape(w) /\ Seen(w) /\ Leases(d, w)

\* Workers run only while the server pumps.
Process ==
    /\ owner # "server" => pump = "off"
    /\ pump \in {"off", "resuming"} => Active = {}

\* From its recovery pass on, the pump knows the worker of every claim.
Tended == pump \in {"resuming", "on"} =>
    /\ \A k \in Keys : ops[k].state = "running" => ops[k].lease \in Active
    /\ \A d \in Deliveries : inbox[d].state = "running" => d \in Active

\* Attempts and leases are counted: what runs or ran has one.
Counted ==
    /\ \A k \in Keys : /\ ops[k].attempts <= MaxAttempts[k]
                       /\ ops[k].state \in {"running", "unknown"} => ops[k].attempts >= 1
    /\ \A d \in Deliveries : /\ inbox[d].attempts <= MaxLeases
                             /\ inbox[d].state = "running" => inbox[d].attempts >= 1

\* The inductive invariant of the worker.
RuntimeIInv ==
    /\ StoreTypeOK /\ RuntimeTypeOK /\ Process /\ Tended /\ Counted
    /\ \A d \in Deliveries : Fits(d, worker[d])

\* A write has the snapshot of its command.
Snapshots == \A k \in Keys : ParentOf[k] # None /\ ops[k].state # "absent" =>
    ops[ParentOf[k]].state # "absent" /\ ops[k].head = ops[ParentOf[k]].head

\* A claim before its send mark is newer than every request.
Sequel == \A r \in wire :
    /\ r.attempt <= ops[r.key].attempts
    /\ ops[r.key].state = "running" /\ ~ops[r.key].sent => r.attempt < ops[r.key].attempts

\* The write has had no effect and no request of it can have one.
Quiet(k) == applied[k] = 0 /\ Flying(k) = {}
\* At most one effect, counting the request on the wire; none of a row nobody sent,
\* of one that was refused, or of one whose refusal is about to be read.
Once(k) ==
    /\ applied[k] <= 1 /\ (applied[k] = 1 => Flying(k) = {})
    /\ \A r, s \in Flying(k) : r = s
    /\ ops[k].state \in {"absent", "pending", "failed"} => Quiet(k)
    /\ ops[k].state \in {"running", "unknown"} /\ ~ops[k].sent => Quiet(k)
    /\ \A r \in wire : /\ r.key = k /\ r.fate = "refused"
                       /\ ops[k].state = "running" /\ ops[k].attempts = r.attempt
                       => Quiet(k)
\* The inductive invariant of the effects.
OnceIInv == Sequel /\ \A k \in Writes \ Labels : Once(k)

-----------------------------------------------------------------------------
(* Records. *)

\* The idle worker.
LEMMA IdleFields ==
    /\ IdleWorker \in Worker /\ IdleWorker.pc = "idle" /\ IdleWorker.todo = {}
    /\ IdleWorker.queue = <<>>
  <1>1. <<>> \in Seq(CommandKeys) /\ 0 \in Nat
    OBVIOUS
  <1>2. IdleWorker \in Worker
    BY <1>1, Zenon DEF IdleWorker, Worker, Places
  <1> QED
    BY <1>2, Zenon DEF IdleWorker

\* The updates of a worker, field by field: it starts, ...
LEMMA ToGate ==
    ASSUME NEW a \in Nat, NEW g \in Seq(CommandKeys)
    PROVE  LET v == [IdleWorker EXCEPT !.pc = "gate", !.lease = a, !.gate = g] IN
           v \in Worker /\ v.pc = "gate" /\ v.lease = a /\ v.todo = {}
  <1>1. IdleWorker \in Worker /\ IdleWorker.todo = {}
    BY IdleFields
  <1> QED
    BY <1>1 DEF Worker, Places

\* ... moves to another place, ...
LEMMA ToPlace ==
    ASSUME NEW w \in Worker, NEW p \in Places
    PROVE  LET v == [w EXCEPT !.pc = p] IN
           /\ v \in Worker /\ v.pc = p /\ v.lease = w.lease /\ v.queue = w.queue /\ v.head = w.head
           /\ v.todo = w.todo /\ v.run = w.run /\ v.step = w.step /\ v.try = w.try /\ v.old = w.old
  BY DEF Worker

\* ... passes a candidate, ...
LEMMA ToPass ==
    ASSUME NEW w \in Worker, NEW g \in Seq(CommandKeys), NEW q \in Seq(CommandKeys)
    PROVE  LET v == [w EXCEPT !.gate = g, !.queue = q] IN
           v \in Worker /\ v.pc = w.pc /\ v.lease = w.lease /\ v.todo = w.todo
  BY DEF Worker

\* ... drops one, ...
LEMMA ToRefuse ==
    ASSUME NEW w \in Worker, NEW g \in Seq(CommandKeys)
    PROVE  LET v == [w EXCEPT !.gate = g] IN
           v \in Worker /\ v.pc = w.pc /\ v.lease = w.lease /\ v.todo = w.todo
  BY DEF Worker

\* ... discards the envelope, ...
LEMMA ToDiscard ==
    ASSUME NEW w \in Worker
    PROVE  LET v == [w EXCEPT !.pc = "settle", !.gate = <<>>] IN
           v \in Worker /\ v.pc = "settle" /\ v.lease = w.lease /\ v.todo = w.todo
  <1> DEFINE v == [w EXCEPT !.pc = "settle", !.gate = <<>>]
             g == <<>>
  <1>1. g \in Seq(CommandKeys) /\ v = [w EXCEPT !.pc = "settle", !.gate = g]
    OBVIOUS
  <1> HIDE DEF g
  <1> QED
    BY <1>1 DEF Worker, Places

\* ... reads the snapshot, ...
LEMMA ToHead ==
    ASSUME NEW w \in Worker, NEW h \in Heads \cup {None}
    PROVE  LET v == [w EXCEPT !.pc = "command", !.head = h] IN
           /\ v \in Worker /\ v.pc = "command" /\ v.lease = w.lease /\ v.queue = w.queue
           /\ v.head = h /\ v.todo = w.todo
  BY DEF Worker, Places

\* ... turns to the uncertain writes of its command, ...
LEMMA ToChildren ==
    ASSUME NEW w \in Worker, NEW o \in Nat, NEW t \in SUBSET Child
    PROVE  LET v == [w EXCEPT !.pc = "children", !.old = o, !.todo = t] IN
           /\ v \in Worker /\ v.pc = "children" /\ v.lease = w.lease /\ v.queue = w.queue
           /\ v.head = w.head /\ v.todo = t /\ v.old = o
  BY DEF Worker, Places

\* ... has looked at one of them, ...
LEMMA ToTodo ==
    ASSUME NEW w \in Worker, NEW t \in SUBSET Child
    PROVE  LET v == [w EXCEPT !.todo = t] IN
           /\ v \in Worker /\ v.pc = w.pc /\ v.lease = w.lease /\ v.queue = w.queue
           /\ v.head = w.head /\ v.todo = t /\ v.old = w.old /\ v.run = w.run /\ v.step = w.step
           /\ v.try = w.try
  BY DEF Worker

\* ... turns to the claim of the command, ...
LEMMA ToClaim ==
    ASSUME NEW w \in Worker
    PROVE  LET v == [w EXCEPT !.pc = "claim", !.old = 0] IN
           /\ v \in Worker /\ v.pc = "claim" /\ v.lease = w.lease /\ v.queue = w.queue
           /\ v.head = w.head /\ v.todo = w.todo
  BY DEF Worker, Places

\* ... has claimed it, ...
LEMMA ToRun ==
    ASSUME NEW w \in Worker, NEW p \in Places, NEW a \in Nat
    PROVE  LET v == [w EXCEPT !.pc = p, !.run = a, !.step = 1] IN
           /\ v \in Worker /\ v.pc = p /\ v.lease = w.lease /\ v.queue = w.queue
           /\ v.head = w.head /\ v.todo = w.todo /\ v.run = a /\ v.step = 1
  BY DEF Worker

\* ... has claimed a write or looks an uncertain one up, ...
LEMMA ToTry ==
    ASSUME NEW w \in Worker, NEW p \in Places, NEW a \in Nat
    PROVE  LET v == [w EXCEPT !.pc = p, !.try = a] IN
           /\ v \in Worker /\ v.pc = p /\ v.lease = w.lease /\ v.queue = w.queue
           /\ v.head = w.head /\ v.todo = w.todo /\ v.run = w.run /\ v.step = w.step /\ v.try = a
  BY DEF Worker

\* ... comes back from the handler, ...
LEMMA ToFinish ==
    ASSUME NEW w \in Worker, NEW s \in {"ok", "error"}
    PROVE  LET v == [w EXCEPT !.pc = "finish", !.status = s] IN
           /\ v \in Worker /\ v.pc = "finish" /\ v.lease = w.lease /\ v.queue = w.queue
           /\ v.head = w.head /\ v.todo = w.todo /\ v.run = w.run
  BY DEF Worker, Places

\* ... goes on to its next write, ...
LEMMA ToNextWrite ==
    ASSUME NEW w \in Worker, NEW b \in BOOLEAN
    PROVE  LET v == NextWrite(w, b) IN
           /\ v \in Worker /\ v.pc = "write" /\ v.lease = w.lease /\ v.queue = w.queue
           /\ v.head = w.head /\ v.todo = w.todo /\ v.run = w.run /\ v.step = w.step + 1
  <1> DEFINE v == NextWrite(w, b)
             n == w.step + 1
             e == [w EXCEPT !.pc = "write", !.step = n, !.try = 0]
  <1>1. n \in Nat
    BY DEF Worker
  <1>2. /\ e \in Worker /\ e.pc = "write" /\ e.lease = w.lease /\ e.queue = w.queue
        /\ e.head = w.head /\ e.todo = w.todo /\ e.run = w.run /\ e.step = n
    <2> HIDE DEF n
    <2> QED
      BY <1>1 DEF Worker, Places
  <1>3. v = [e EXCEPT !.blocked = b]
    BY DEF NextWrite
  <1> HIDE DEF e
  <1>4. v \in Worker
    BY <1>2, <1>3 DEF Worker
  <1>5. v.pc = e.pc /\ v.lease = e.lease /\ v.queue = e.queue
        /\ v.head = e.head /\ v.todo = e.todo /\ v.run = e.run /\ v.step = e.step
    BY <1>2, <1>3 DEF Worker
  <1> QED
    BY <1>2, <1>4, <1>5

\* ... to its next command, ...
LEMMA ToNextCommand ==
    ASSUME NEW w \in Worker, w.queue # <<>>, NEW b \in BOOLEAN
    PROVE  LET v == NextCommand(w, b) IN
           /\ v \in Worker /\ v.pc = "command" /\ v.lease = w.lease /\ v.queue = Tail(w.queue)
           /\ v.head = w.head /\ v.todo = {}
  <1> DEFINE v == NextCommand(w, b)
             e == [IdleWorker EXCEPT !.pc = "command", !.lease = w.lease, !.head = w.head,
                       !.queue = Tail(w.queue)]
             o == w.outer \/ b
  <1>1. IdleWorker \in Worker /\ IdleWorker.todo = {} /\ Tail(w.queue) \in Seq(CommandKeys)
        /\ w.lease \in Nat /\ w.head \in Heads \cup {None} /\ o \in BOOLEAN
    BY IdleFields DEF Worker
  <1>2. /\ e \in Worker /\ e.pc = "command" /\ e.lease = w.lease /\ e.queue = Tail(w.queue)
        /\ e.head = w.head /\ e.todo = {}
    BY <1>1 DEF Worker, Places
  <1>3. v = [e EXCEPT !.outer = o]
    BY DEF NextCommand
  <1> HIDE DEF e, o
  <1>4. v \in Worker
    BY <1>1, <1>2, <1>3 DEF Worker
  <1>5. v.pc = e.pc /\ v.lease = e.lease /\ v.queue = e.queue /\ v.head = e.head /\ v.todo = e.todo
    BY <1>2, <1>3 DEF Worker
  <1> QED
    BY <1>2, <1>4, <1>5

\* ... to the end of the comment, ...
LEMMA ToEnd ==
    ASSUME NEW a \in Nat, NEW b \in BOOLEAN
    PROVE  LET v == [IdleWorker EXCEPT !.pc = "settle", !.lease = a, !.problem = b] IN
           v \in Worker /\ v.pc = "settle" /\ v.lease = a /\ v.todo = {}
  <1> DEFINE v == [IdleWorker EXCEPT !.pc = "settle", !.lease = a, !.problem = b]
             e == [IdleWorker EXCEPT !.pc = "settle", !.lease = a]
  <1>1. IdleWorker \in Worker /\ IdleWorker.todo = {}
    BY IdleFields
  <1>2. e \in Worker /\ e.pc = "settle" /\ e.lease = a /\ e.todo = {}
    BY <1>1 DEF Worker, Places
  <1>3. v = [e EXCEPT !.problem = b]
    OBVIOUS
  <1> HIDE DEF e
  <1>4. v \in Worker
    BY <1>2, <1>3 DEF Worker
  <1>5. v.pc = e.pc /\ v.lease = e.lease /\ v.todo = e.todo
    BY <1>2, <1>3 DEF Worker
  <1> QED
    BY <1>2, <1>4, <1>5

\* ... and to the release of the envelope.
LEMMA ToRelease ==
    ASSUME NEW w \in Worker, NEW b \in BOOLEAN
    PROVE  LET v == [w EXCEPT !.pc = "release", !.problem = @ \/ b] IN
           v \in Worker /\ v.pc = "release" /\ v.lease = w.lease /\ v.todo = w.todo
  <1> DEFINE v == [w EXCEPT !.pc = "release", !.problem = @ \/ b]
             e == [w EXCEPT !.pc = "release"]
             o == w.problem \/ b
  <1>1. e \in Worker /\ e.pc = "release" /\ e.lease = w.lease /\ e.todo = w.todo /\ o \in BOOLEAN
    BY DEF Worker, Places
  <1>2. v = [e EXCEPT !.problem = o]
    OBVIOUS
  <1> HIDE DEF e, o
  <1>3. v \in Worker
    BY <1>1, <1>2 DEF Worker
  <1>4. v.pc = e.pc /\ v.lease = e.lease /\ v.todo = e.todo
    BY <1>1, <1>2 DEF Worker
  <1> QED
    BY <1>1, <1>3, <1>4

\* What every step of the runtime does to a row: attempts only grow, and a row
\* is claimed by counting an attempt.
Later(k) ==
    /\ ops[k].attempts <= ops'[k].attempts
    /\ ops'[k].attempts = ops[k].attempts \/ ops'[k].attempts <= MaxAttempts[k]
    /\ ops'[k].attempts = ops[k].attempts =>
          /\ ops'[k].state = "running" =>
                ops[k].state = "running" /\ (ops[k].sent => ops'[k].sent)
          /\ ops'[k].state = "unknown" =>
                ops[k].state \in {"running", "unknown"} /\ ops'[k].sent = ops[k].sent
    /\ ops[k].state # "absent" => ops'[k].state # "absent" /\ ops'[k].head = ops[k].head

\* A row changes but for its fence, its lease and its snapshot.
Same(k) == /\ ops'[k].attempts = ops[k].attempts /\ ops'[k].lease = ops[k].lease
           /\ ops'[k].head = ops[k].head

-----------------------------------------------------------------------------
(* The rows. *)

\* A row that does not change.
LEMMA LaterSame ==
    ASSUME StoreTypeOK, NEW k \in Keys, ops'[k] = ops[k]
    PROVE  Later(k)
  BY DEF Later, StoreTypeOK, Operation

\* What each operation of the ledger does to the rows: a claim, ...
LEMMA ClaimRows ==
    ASSUME StoreTypeOK, NEW k \in Keys, NEW d, NEW h, Claim(k, d, h)
    PROVE  /\ Available(k) /\ ops[k].attempts < MaxAttempts[k]
           /\ ops'[k].state = "running" /\ ops'[k].attempts = ops[k].attempts + 1
           /\ ~ops'[k].sent /\ ops'[k].lease = d
           /\ ops'[k].head = IF ops[k].state = "absent" THEN h ELSE ops[k].head
           /\ ops[k].state \in {"absent", "pending"}
           /\ \A j \in Keys \ {k} : ops'[j] = ops[j]
           /\ \A j \in Keys : Later(j)
           /\ inbox' = inbox
  <1>1. ops \in [Keys -> Operation]
    BY DEF StoreTypeOK
  <1> DEFINE s == FALSE
             dl == IF ops[k].state = "absent" THEN d ELSE ops[k].delivery
             hd == IF ops[k].state = "absent" THEN h ELSE ops[k].head
             r == [state |-> "running", attempts |-> ops[k].attempts + 1, sent |-> s,
                   lease |-> d, delivery |-> dl, due |-> TRUE, head |-> hd]
  <1>2. ops' = [ops EXCEPT ![k] = r]
    BY DEF Claim, ClaimRow
  <1>3. /\ Available(k) /\ ops[k].attempts < MaxAttempts[k] /\ inbox' = inbox
        /\ ops[k].state \in {"absent", "pending"}
    BY DEF Claim, Claimable, Available
  <1>4. r.state = "running" /\ r.attempts = ops[k].attempts + 1 /\ r.sent = FALSE
        /\ r.lease = d /\ r.head = hd
    BY Zenon
  <1>5. hd = IF ops[k].state = "absent" THEN h ELSE ops[k].head
    OBVIOUS
  <1> HIDE DEF r, hd
  <1>6. ops'[k] = r /\ \A j \in Keys \ {k} : ops'[j] = ops[j]
    BY <1>1, <1>2
  <1>7. ops[k].attempts \in Nat
    BY <1>1 DEF Operation
  <1>8. Later(k)
    BY <1>3, <1>4, <1>5, <1>6, <1>7, BoundAssumption DEF Later
  <1>9. \A j \in Keys : Later(j)
    BY <1>6, <1>8, LaterSame
  <1> QED
    BY <1>3, <1>4, <1>5, <1>6, <1>9

\* ... a receipt, ...
LEMMA FinishRows ==
    ASSUME StoreTypeOK, NEW k \in Keys, NEW a, NEW s, Finish(k, a, s)
    PROVE  /\ Owns(k, a) /\ s \in {"succeeded", "failed", "unknown", "superseded"}
           /\ s = "superseded" => ~ops[k].sent
           /\ ops'[k].state = s /\ Same(k) /\ ops'[k].sent = ops[k].sent
           /\ \A j \in Keys \ {k} : ops'[j] = ops[j]
           /\ \A j \in Keys : Later(j)
           /\ inbox' = inbox
  <1>1. ops \in [Keys -> Operation]
    BY DEF StoreTypeOK
  <1>2. /\ Owns(k, a) /\ s \in {"succeeded", "failed", "unknown", "superseded"}
        /\ s = "superseded" => ~ops[k].sent
        /\ ops' = [ops EXCEPT ![k].state = s] /\ inbox' = inbox
    BY DEF Finish
  <1>3. /\ ops'[k].state = s /\ Same(k) /\ ops'[k].sent = ops[k].sent
        /\ \A j \in Keys \ {k} : ops'[j] = ops[j]
    BY <1>1, <1>2 DEF Operation, Same
  <1>4. Later(k)
    BY <1>1, <1>2, <1>3 DEF Later, Same, Owns, Operation
  <1>5. \A j \in Keys : Later(j)
    BY <1>3, <1>4, LaterSame
  <1> QED
    BY <1>2, <1>3, <1>5

\* ... a send mark, ...
LEMMA MarkRows ==
    ASSUME StoreTypeOK, NEW k \in Keys, NEW a, MarkSent(k, a)
    PROVE  /\ Owns(k, a) /\ ops'[k].state = "running" /\ Same(k) /\ ops'[k].sent
           /\ \A j \in Keys \ {k} : ops'[j] = ops[j]
           /\ \A j \in Keys : Later(j)
           /\ inbox' = inbox
  <1>1. ops \in [Keys -> Operation]
    BY DEF StoreTypeOK
  <1>2. Owns(k, a) /\ ops' = [ops EXCEPT ![k].sent = TRUE] /\ inbox' = inbox
    BY DEF MarkSent
  <1>3. /\ ops'[k].state = ops[k].state /\ Same(k) /\ ops'[k].sent = TRUE
        /\ \A j \in Keys \ {k} : ops'[j] = ops[j]
    BY <1>1, <1>2 DEF Operation, Same
  <1>4. ops[k].state = "running"
    BY <1>2 DEF Owns
  <1>5. Later(k)
    BY <1>1, <1>3, <1>4 DEF Later, Same, Operation
  <1>6. \A j \in Keys : Later(j)
    BY <1>3, <1>5, LaterSame
  <1> QED
    BY <1>2, <1>3, <1>4, <1>6

\* ... the reconciliation of an uncertain row, ...
LEMMA ResolveRows ==
    ASSUME StoreTypeOK, NEW k \in Keys, NEW a, NEW o, ResolveUnknown(k, a, o)
    PROVE  /\ ops[k].state = "unknown" /\ ops[k].attempts = a
           /\ o = "retry_idempotent" => KindOf[k] = "ensure_labels"
           /\ ops'[k].state = (IF o = "succeeded" THEN "succeeded" ELSE "pending") /\ Same(k)
           /\ \A j \in Keys \ {k} : ops'[j] = ops[j]
           /\ \A j \in Keys : Later(j)
           /\ inbox' = inbox
  <1>1. ops \in [Keys -> Operation] /\ ops[k] \in Operation
    BY DEF StoreTypeOK
  <1> DEFINE s == IF o = "succeeded" THEN "succeeded" ELSE "pending"
             t == (o = "succeeded")
             u == (o # "retry_idempotent")
             r == [ops[k] EXCEPT !.state = s, !.sent = t, !.due = u]
  <1>2. /\ ops[k].state = "unknown" /\ ops[k].attempts = a
        /\ o = "retry_idempotent" => KindOf[k] = "ensure_labels"
        /\ ops' = [ops EXCEPT ![k] = r] /\ inbox' = inbox
    BY DEF ResolveUnknown
  <1>3. s = (IF o = "succeeded" THEN "succeeded" ELSE "pending")
    OBVIOUS
  <1>4. r.state = s /\ r.attempts = ops[k].attempts /\ r.lease = ops[k].lease
        /\ r.head = ops[k].head
    <2> HIDE DEF s, t, u
    <2> QED
      BY <1>1 DEF Operation
  <1> HIDE DEF r
  <1>5. ops'[k] = r /\ \A j \in Keys \ {k} : ops'[j] = ops[j]
    BY <1>1, <1>2
  <1>6. Later(k)
    BY <1>1, <1>3, <1>4, <1>5 DEF Later, Operation
  <1>7. \A j \in Keys : Later(j)
    BY <1>5, <1>6, LaterSame
  <1> QED
    BY <1>2, <1>3, <1>4, <1>5, <1>7 DEF Same

\* ... a refusal, ...
LEMMA FailRows ==
    ASSUME StoreTypeOK, NEW k \in Keys, FailUnsent(k)
    PROVE  /\ \A j \in Keys : \/ ops'[j] = ops[j]
                              \/ /\ ops[j].state \in {"pending", "unknown"} /\ ~ops[j].sent
                                 /\ ops'[j].state = "failed" /\ Same(j)
           /\ \A j \in Keys : Later(j)
           /\ inbox' = inbox
  <1>1. ops \in [Keys -> Operation] /\ ops[k] \in Operation
    BY DEF StoreTypeOK
  <1> DEFINE r == [ops[k] EXCEPT !.state = "failed", !.due = TRUE]
  <1>2. r.state = "failed" /\ r.attempts = ops[k].attempts /\ r.lease = ops[k].lease
        /\ r.head = ops[k].head
    BY <1>1 DEF Operation
  <1>3. inbox' = inbox
        /\ \/ ops' = ops
           \/ /\ ops[k].state \in {"pending", "unknown"} /\ ~ops[k].sent
              /\ ops' = [ops EXCEPT ![k] = r]
    BY DEF FailUnsent
  <1> HIDE DEF r
  <1>4. \A j \in Keys : \/ ops'[j] = ops[j]
                        \/ /\ ops[j].state \in {"pending", "unknown"} /\ ~ops[j].sent
                           /\ ops'[j].state = "failed" /\ Same(j)
    BY <1>1, <1>2, <1>3 DEF Same
  <1>5. \A j \in Keys : Later(j)
    <2> TAKE j \in Keys
    <2>1. CASE ops'[j] = ops[j]
      BY <2>1, LaterSame
    <2>2. CASE ops'[j].state = "failed" /\ Same(j)
      BY <1>1, <2>2 DEF Later, Same, Operation
    <2> QED
      BY <1>4, <2>1, <2>2
  <1> QED
    BY <1>3, <1>4, <1>5

\* ... the withdrawal of unsent writes, ...
LEMMA SupersedeRows ==
    ASSUME StoreTypeOK, NEW p \in Keys, SupersedeUnsentChildren(p)
    PROVE  /\ \A j \in Keys : \/ ops'[j] = ops[j]
                              \/ /\ ops[j].state = "pending" /\ ~ops[j].sent
                                 /\ ops'[j].state = "superseded" /\ Same(j)
           /\ \A j \in Keys : Later(j)
           /\ inbox' = inbox
  <1>1. ops \in [Keys -> Operation]
    BY DEF StoreTypeOK
  <1>2. inbox' = inbox
    BY DEF SupersedeUnsentChildren
  <1>3. \A j \in Keys : \/ ops'[j] = ops[j]
                        \/ /\ ops[j].state = "pending" /\ ~ops[j].sent
                           /\ ops'[j] = [ops[j] EXCEPT !.state = "superseded"]
    BY DEF SupersedeUnsentChildren
  <1>4. \A j \in Keys : \/ ops'[j] = ops[j]
                        \/ /\ ops[j].state = "pending" /\ ~ops[j].sent
                           /\ ops'[j].state = "superseded" /\ Same(j)
    <2> TAKE j \in Keys
    <2> DEFINE r == [ops[j] EXCEPT !.state = "superseded"]
    <2>1. ops[j] \in Operation
      BY <1>1
    <2>2. r.state = "superseded" /\ r.attempts = ops[j].attempts /\ r.lease = ops[j].lease
          /\ r.head = ops[j].head
      BY <2>1 DEF Operation
    <2>3. \/ ops'[j] = ops[j]
          \/ ops[j].state = "pending" /\ ~ops[j].sent /\ ops'[j] = r
      BY <1>3
    <2> HIDE DEF r
    <2> QED
      BY <2>2, <2>3 DEF Same
  <1>5. \A j \in Keys : Later(j)
    <2> TAKE j \in Keys
    <2>1. CASE ops'[j] = ops[j]
      BY <2>1, LaterSame
    <2>2. CASE ops'[j].state = "superseded" /\ Same(j)
      BY <1>1, <2>2 DEF Later, Same, Operation
    <2> QED
      BY <1>4, <2>1, <2>2
  <1> QED
    BY <1>2, <1>4, <1>5

\* ... a recovery pass, ...
LEMMA RecoverRows ==
    ASSUME StoreTypeOK, NEW S,
           ops' = [k \in Keys |-> IF ops[k].state = "running" /\ k \in S
                     THEN [ops[k] EXCEPT !.state = "unknown"] ELSE ops[k]]
    PROVE  /\ \A j \in Keys : \/ ops'[j] = ops[j] /\ ~(ops[j].state = "running" /\ j \in S)
                              \/ /\ ops[j].state = "running" /\ j \in S
                                 /\ ops'[j].state = "unknown" /\ Same(j)
                                 /\ ops'[j].sent = ops[j].sent
           /\ \A j \in Keys : Later(j)
  <1>1. ops \in [Keys -> Operation]
    BY DEF StoreTypeOK
  <1>2. \A j \in Keys : \/ ops'[j] = ops[j] /\ ~(ops[j].state = "running" /\ j \in S)
                        \/ /\ ops[j].state = "running" /\ j \in S
                           /\ ops'[j].state = "unknown" /\ Same(j)
                           /\ ops'[j].sent = ops[j].sent
    BY <1>1 DEF Same, Operation
  <1>3. \A j \in Keys : Later(j)
    <2> TAKE j \in Keys
    <2>1. CASE ops'[j] = ops[j]
      BY <2>1, LaterSame
    <2>2. CASE /\ ops[j].state = "running" /\ ops'[j].state = "unknown"
               /\ Same(j) /\ ops'[j].sent = ops[j].sent
      BY <1>1, <2>2 DEF Later, Same, Operation
    <2> QED
      BY <1>2, <2>1, <2>2
  <1> QED
    BY <1>2, <1>3

\* ... a decision of the operator, ...
LEMMA AdministerRows ==
    ASSUME StoreTypeOK, NEW k \in Keys, NEW decision, Administer(k, decision)
    PROVE  /\ \A j \in Keys : \/ ops'[j] = ops[j]
                              \/ /\ j = k /\ ops[k].state \in {"unknown", "failed"}
                                 /\ ops'[k].state = (IF decision = "confirm-success"
                                                     THEN "succeeded" ELSE "pending")
                                 /\ Same(k) /\ ~ops'[k].sent
                              \/ /\ ops[j].state = "failed" /\ ops'[j].state = "pending" /\ Same(j)
           /\ decision = "retry" => ops[k].state = "failed"
           /\ \A j \in Keys : Later(j)
  <1>1. ops \in [Keys -> Operation] /\ ops[k] \in Operation
    BY DEF StoreTypeOK
  <1> DEFINE s == IF decision = "confirm-success" THEN "succeeded" ELSE "pending"
             r == [ops[k] EXCEPT !.state = s, !.sent = FALSE, !.due = TRUE]
  <1>2. s = (IF decision = "confirm-success" THEN "succeeded" ELSE "pending")
    OBVIOUS
  <1>3. r.state = s /\ r.attempts = ops[k].attempts /\ r.lease = ops[k].lease
        /\ r.head = ops[k].head /\ ~r.sent
    <2> HIDE DEF s
    <2> QED
      BY <1>1 DEF Operation
  <1>4. /\ ops[k].state \in {"unknown", "failed"} /\ (decision = "retry" => ops[k].state = "failed")
        /\ ops' = [j \in Keys |-> IF j = k THEN r
                     ELSE IF j = ParentOf[k] /\ ops[j].state = "failed"
                          THEN [ops[j] EXCEPT !.state = "pending", !.due = TRUE] ELSE ops[j]]
    BY DEF Administer
  <1> HIDE DEF r, s
  <1>5. ops'[k] = r
    BY <1>4
  <1>6. \A j \in Keys \ {k} : \/ ops'[j] = ops[j]
                              \/ /\ ops[j].state = "failed"
                                 /\ ops'[j] = [ops[j] EXCEPT !.state = "pending", !.due = TRUE]
    BY <1>4
  <1>7. \A j \in Keys \ {k} : \/ ops'[j] = ops[j]
                              \/ /\ ops[j].state = "failed" /\ ops'[j].state = "pending" /\ Same(j)
    <2> TAKE j \in Keys \ {k}
    <2> DEFINE row == [ops[j] EXCEPT !.state = "pending", !.due = TRUE]
    <2>1. ops[j] \in Operation
      BY <1>1
    <2>2. row.state = "pending" /\ row.attempts = ops[j].attempts /\ row.lease = ops[j].lease
          /\ row.head = ops[j].head
      BY <2>1 DEF Operation
    <2>3. \/ ops'[j] = ops[j]
          \/ ops[j].state = "failed" /\ ops'[j] = row
      BY <1>6
    <2> HIDE DEF row
    <2> QED
      BY <2>2, <2>3 DEF Same
  <1>8. Same(k) /\ ops'[k].state = s /\ ~ops'[k].sent
    BY <1>3, <1>5 DEF Same
  <1>9. \A j \in Keys : Later(j)
    <2> TAKE j \in Keys
    <2>1. CASE ops'[j] = ops[j]
      BY <2>1, LaterSame
    <2>2. CASE ops'[j].state \in {"pending", "succeeded"} /\ Same(j)
      BY <1>1, <2>2 DEF Later, Same, Operation
    <2> QED
      BY <1>2, <1>7, <1>8, <2>1, <2>2
  <1> QED
    BY <1>2, <1>4, <1>7, <1>8, <1>9

\* ... and the end of a backoff.
LEMMA DueRows ==
    ASSUME StoreTypeOK, NEW k \in Keys, OperationDue(k)
    PROVE  /\ \A j \in Keys : /\ ops'[j].state = ops[j].state /\ Same(j)
                              /\ ops'[j].sent = ops[j].sent
           /\ \A j \in Keys : Later(j)
           /\ inbox' = inbox
  <1>1. ops \in [Keys -> Operation]
    BY DEF StoreTypeOK
  <1>2. ops' = [ops EXCEPT ![k].due = TRUE] /\ inbox' = inbox
    BY DEF OperationDue
  <1>3. \A j \in Keys : /\ ops'[j].state = ops[j].state /\ Same(j)
                        /\ ops'[j].sent = ops[j].sent
    BY <1>1, <1>2 DEF Same, Operation
  <1> QED
    BY <1>1, <1>2, <1>3 DEF Later, Same, Operation

-----------------------------------------------------------------------------
(* What a worker has at hand. *)

\* The fields of a worker.
LEMMA WorkerTyped ==
    ASSUME RuntimeIInv, NEW d \in Deliveries
    PROVE  /\ worker[d] \in Worker /\ Fits(d, worker[d])
           /\ worker[d].lease \in Nat /\ worker[d].gate \in Seq(CommandKeys)
           /\ worker[d].queue \in Seq(CommandKeys) /\ worker[d].head \in Heads \cup {None}
           /\ worker[d].old \in Nat /\ worker[d].todo \in SUBSET Child
           /\ worker[d].run \in Nat /\ worker[d].step \in Nat /\ worker[d].try \in Nat
  <1>1. worker[d] \in Worker /\ Fits(d, worker[d])
    BY DEF RuntimeIInv, RuntimeTypeOK
  <1> QED
    BY <1>1 DEF Worker

\* A command is not a write and has no parent.
LEMMA CommandIsPlanner ==
    ASSUME NEW c \in CommandKeys
    PROVE  c \in Keys /\ c \in Planners /\ c \notin Writes /\ KindOf[c] # "notification_ledger"
           /\ ParentOf[c] = None
  BY KeyAssumption DEF CommandKeys, Planners, Writes

\* The first command of a queue and the rest.
LEMMA FirstInQueue ==
    ASSUME NEW q \in Seq(CommandKeys), q # <<>>
    PROVE  Head(q) \in CommandKeys /\ Tail(q) \in Seq(CommandKeys)
  OBVIOUS

\* The write at hand is a child of the command at hand.
LEMMA WriteAtHand ==
    ASSUME NEW w \in Worker, w.queue # <<>>, w.step >= 1,
           w.step <= Len(WritesOf[Head(w.queue)])
    PROVE  /\ WriteOf(w) \in Writes /\ WriteOf(w) \in Keys /\ ParentOf[WriteOf(w)] = Head(w.queue)
           /\ KindOf[WriteOf(w)] # "notification_ledger" /\ WriteOf(w) # Head(w.queue)
           /\ Head(w.queue) \in CommandKeys
  <1>1. w.queue \in Seq(CommandKeys) /\ w.step \in Nat
    BY DEF Worker
  <1>2. Head(w.queue) \in CommandKeys
    BY <1>1
  <1>3. WritesOf[Head(w.queue)] \in Seq(Writes)
    BY <1>2, RuntimeAssumption DEF CommandKeys
  <1>4. w.step \in DOMAIN WritesOf[Head(w.queue)]
    BY <1>1, <1>3
  <1>5. WriteOf(w) \in Writes
    BY <1>3, <1>4 DEF WriteOf
  <1>6. ParentOf[WriteOf(w)] = Head(w.queue) /\ KindOf[WriteOf(w)] # "notification_ledger"
    <2>1. Head(w.queue) \in DOMAIN WritesOf
      BY <1>2, RuntimeAssumption DEF CommandKeys
    <2> QED
      BY <1>4, <2>1, RuntimeAssumption DEF WriteOf
  <1>7. WriteOf(w) # Head(w.queue)
    BY <1>2, <1>5, CommandIsPlanner
  <1> QED
    BY <1>2, <1>5, <1>6, <1>7 DEF Writes

\* So it is while a worker is at a write.
LEMMA InWriteAtHand ==
    ASSUME RuntimeIInv, NEW d \in Deliveries, worker[d].pc \in InWrite
    PROVE  LET w == worker[d] IN
           /\ WriteOf(w) \in Writes /\ WriteOf(w) \in Keys /\ ParentOf[WriteOf(w)] = Head(w.queue)
           /\ KindOf[WriteOf(w)] # "notification_ledger" /\ WriteOf(w) # Head(w.queue)
           /\ Head(w.queue) \in CommandKeys
  <1>1. worker[d] \in Worker /\ Fits(d, worker[d])
    BY WorkerTyped
  <1>2. worker[d].queue # <<>> /\ worker[d].step >= 1
        /\ worker[d].step <= Len(WritesOf[Head(worker[d].queue)])
    BY <1>1 DEF Fits, Shape, InWrite, InCommand
  <1> QED
    BY <1>1, <1>2, WriteAtHand

\* A worker that carries a command out has one.
LEMMA BusyAtHand ==
    ASSUME RuntimeIInv, NEW d \in Deliveries, worker[d].pc \in InCommand
    PROVE  LET w == worker[d] IN
           /\ w.queue # <<>> /\ Head(w.queue) \in CommandKeys /\ Head(w.queue) \in Keys
           /\ w.head \in Heads
  <1>1. worker[d] \in Worker /\ Fits(d, worker[d]) /\ worker[d].queue \in Seq(CommandKeys)
    BY WorkerTyped
  <1>2. worker[d].queue # <<>> /\ worker[d].head \in Heads
    BY <1>1 DEF Fits, Shape
  <1> QED
    BY <1>1, <1>2, FirstInQueue DEF CommandKeys

-----------------------------------------------------------------------------
(* The ledger below. *)

\* Attempts are within the bound of the ledger.
LEMMA AttemptInRange ==
    ASSUME RuntimeIInv, NEW k \in Keys, ops[k].state \in {"running", "unknown"}
    PROVE  ops[k].attempts \in 1..MaxAttempts[k]
  <1>1. ops[k].attempts \in Nat
    BY DEF RuntimeIInv, StoreTypeOK, Operation
  <1>2. ops[k].attempts <= MaxAttempts[k] /\ ops[k].attempts >= 1
    BY DEF RuntimeIInv, Counted
  <1>3. MaxAttempts[k] \in Nat
    BY BoundAssumption
  <1> QED
    BY <1>1, <1>2, <1>3

\* The operations are steps of the ledger: a receipt, ...
LEMMA FinishIsStore ==
    ASSUME RuntimeIInv, NEW k \in Keys, NEW a, NEW s, Finish(k, a, s)
    PROVE  StoreNext
  <1>1. ops[k].state = "running" /\ ops[k].attempts = a /\ s \in OpStates
    BY DEF Finish, Owns, OpStates
  <1>2. a \in 1..MaxAttempts[k]
    BY <1>1, AttemptInRange
  <1> QED
    BY <1>1, <1>2 DEF StoreNext, StoreHolderNext

\* ... a send mark, ...
LEMMA MarkIsStore ==
    ASSUME RuntimeIInv, NEW k \in Keys, NEW a, MarkSent(k, a)
    PROVE  StoreNext
  <1>1. ops[k].state = "running" /\ ops[k].attempts = a
    BY DEF MarkSent, Owns
  <1>2. a \in 1..MaxAttempts[k]
    BY <1>1, AttemptInRange
  <1> QED
    BY <1>2 DEF StoreNext, StoreHolderNext

\* ... a resolution, ...
LEMMA ResolveIsStore ==
    ASSUME RuntimeIInv, NEW k \in Keys, NEW a,
           NEW o \in {"succeeded", "not_sent", "retry_idempotent"}, ResolveUnknown(k, a, o),
           o = "not_sent" => (ops[k].sent => k \in Planners)
    PROVE  StoreNext
  <1>1. ops[k].state = "unknown" /\ ops[k].attempts = a
    BY DEF ResolveUnknown
  <1>2. a \in 1..MaxAttempts[k]
    BY <1>1, AttemptInRange
  <1> QED
    BY <1>2 DEF StoreNext, StoreHolderNext

\* ... whatever the reconciliation finds, ...
LEMMA ReconcileIsStore ==
    ASSUME RuntimeIInv, NEW k \in Keys, NEW a, NEW sent, Reconcile(k, a, sent),
           ops[k].state = "unknown" /\ ops[k].attempts = a /\ ~sent => ~ops[k].sent
    PROVE  [StoreNext]_storeVars
  <1>1. CASE ~sent /\ ResolveUnknown(k, a, "not_sent")
    <2>1. ~ops[k].sent
      BY <1>1 DEF ResolveUnknown
    <2> QED
      BY <1>1, <2>1, ResolveIsStore
  <1>2. CASE ResolveUnknown(k, a, "succeeded")
    BY <1>2, ResolveIsStore
  <1>3. CASE ResolveUnknown(k, a, "retry_idempotent")
    BY <1>3, ResolveIsStore
  <1>4. CASE UNCHANGED storeVars
    BY <1>4
  <1> QED
    BY <1>1, <1>2, <1>3, <1>4 DEF Reconcile

\* ... a claim, ...
LEMMA ClaimIsStore ==
    ASSUME RuntimeIInv, NEW k \in Keys, NEW d \in Deliveries, NEW h \in Heads, Claim(k, d, h),
           inbox[d].state = "running", KindOf[k] # "notification_ledger",
           ParentOf[k] # None => ops[ParentOf[k]].state = "running"
    PROVE  StoreNext
  BY DEF StoreNext, StoreClaimNext

\* ... what the process and the pump do, ...
LEMMA ProcessIsStore ==
    ASSUME RuntimeIInv, ProcessStep
    PROVE  [StoreNext]_storeVars
  <1>1. CASE OpenStore("server")
    BY <1>1 DEF OpenStore, StoreNext, StoreInboxNext
  <1>2. CASE PumpStart
    BY <1>2 DEF PumpStart, StoreNext, StoreInboxNext
  <1>3. CASE PumpResume
    BY <1>3 DEF PumpResume, StoreNext, StoreInboxNext
  <1>4. CASE PumpReturn
    BY <1>4 DEF PumpReturn
  <1>5. ASSUME NEW d \in Deliveries, StartWorker(d)
        PROVE  StoreNext
    BY <1>5 DEF StartWorker, StoreNext, StoreInboxNext
  <1> QED
    BY <1>1, <1>2, <1>3, <1>4, <1>5 DEF ProcessStep

\* ... what a worker does for a command, ...
LEMMA CommandIsStore ==
    ASSUME RuntimeIInv, NEW d \in Deliveries,
           \/ GatePass(d) \/ GateRefuse(d) \/ Snapshot(d) \/ RecheckRefuse(d) \/ StartCommand(d)
           \/ ReconcileChild(d) \/ ReopenCommand(d) \/ ClaimCommand(d)
           \/ SupersedeCommand(d) \/ SupersedeChildren(d)
    PROVE  [StoreNext]_storeVars
  <1> DEFINE w == worker[d]
  <1>1. /\ w \in Worker /\ Fits(d, w) /\ w.gate \in Seq(CommandKeys) /\ w.queue \in Seq(CommandKeys)
        /\ w.todo \in SUBSET Child /\ w.old \in Nat
    BY WorkerTyped
  <1>2. CASE GatePass(d) \/ Snapshot(d) \/ StartCommand(d)
    BY <1>2 DEF GatePass, Snapshot, StartCommand
  <1>3. CASE GateRefuse(d)
    <2>1. w.gate # <<>> /\ FailUnsent(Head(w.gate))
      BY <1>3 DEF GateRefuse
    <2>2. Head(w.gate) \in Keys
      BY <1>1, <2>1, FirstInQueue DEF CommandKeys
    <2> QED
      BY <2>1, <2>2 DEF StoreNext, StorePolicyNext
  <1>4. CASE RecheckRefuse(d)
    <2>1. w.queue # <<>> /\ FailUnsent(Head(w.queue))
      BY <1>4 DEF RecheckRefuse
    <2>2. Head(w.queue) \in Keys
      BY <1>1, <2>1, FirstInQueue DEF CommandKeys
    <2> QED
      BY <2>1, <2>2 DEF StoreNext, StorePolicyNext
  <1>5. CASE ReconcileChild(d)
    <2>1. PICK r \in w.todo : \/ Reconcile(r.key, r.attempt, r.sent)
                              \/ ReconcileFails(r.key, r.attempt, r.sent)
      BY <1>5 DEF ReconcileChild
    <2>2. r.key \in Keys
      BY <1>1 DEF Child, Writes
    <2>3. ops[r.key].state = "unknown" /\ ops[r.key].attempts = r.attempt =>
            ops[r.key].sent = r.sent
      BY <1>1 DEF Fits, Seen
    <2>4. CASE ReconcileFails(r.key, r.attempt, r.sent)
      BY <2>4 DEF ReconcileFails
    <2> QED
      BY <2>1, <2>2, <2>3, <2>4, ReconcileIsStore
  <1>6. CASE ReopenCommand(d)
    <2>1. w.pc = "children" /\ \/ UNCHANGED storeVars
                               \/ ResolveUnknown(Head(w.queue), w.old, "not_sent")
      BY <1>6 DEF ReopenCommand, At
    <2>2. Head(w.queue) \in CommandKeys
      BY <2>1, BusyAtHand DEF InCommand
    <2> QED
      BY <2>1, <2>2, ResolveIsStore, CommandIsPlanner
  <1>7. CASE ClaimCommand(d)
    <2>1. w.pc = "claim" /\ \/ UNCHANGED storeVars \/ Claim(Head(w.queue), d, w.head)
      BY <1>7 DEF ClaimCommand, At
    <2>2. Head(w.queue) \in CommandKeys /\ w.head \in Heads
      BY <2>1, BusyAtHand DEF InCommand
    <2>3. inbox[d].state = "running"
      BY <1>1, <2>1 DEF Fits, Leases
    <2> QED
      BY <2>1, <2>2, <2>3, ClaimIsStore, CommandIsPlanner
  <1>8. CASE SupersedeCommand(d)
    <2>1. w.pc = "stale" /\ Finish(Head(w.queue), w.run, "superseded")
      BY <1>8 DEF SupersedeCommand, At
    <2>2. Head(w.queue) \in Keys
      BY <2>1, BusyAtHand DEF InCommand
    <2> QED
      BY <2>1, <2>2, FinishIsStore
  <1>9. CASE SupersedeChildren(d)
    <2>1. w.pc = "supersede" /\ SupersedeUnsentChildren(Head(w.queue))
      BY <1>9 DEF SupersedeChildren, At
    <2>2. Head(w.queue) \in Keys
      BY <2>1, BusyAtHand DEF InCommand
    <2> QED
      BY <2>1, <2>2 DEF StoreNext, StorePolicyNext
  <1> QED
    BY <1>2, <1>3, <1>4, <1>5, <1>6, <1>7, <1>8, <1>9

\* ... and what it does for a write.
LEMMA WriteIsStore ==
    ASSUME RuntimeIInv, NEW d \in Deliveries,
           \/ HandlerReturns(d) \/ BeginWrite(d) \/ ReconcileWrite(d) \/ ClaimWrite(d)
           \/ Send(d) \/ ReadAnswer(d) \/ FinishCommand(d)
           \/ EndComment(d) \/ Settle(d) \/ Release(d)
    PROVE  [StoreNext]_storeVars
  <1> DEFINE w == worker[d]
  <1>1. w \in Worker /\ Fits(d, w)
    BY WorkerTyped
  <1>2. CASE HandlerReturns(d) \/ BeginWrite(d) \/ EndComment(d)
    BY <1>2 DEF HandlerReturns, BeginWrite, EndComment
  <1>3. CASE ReconcileWrite(d)
    <2>1. w.pc = "lookup"
          /\ \/ Reconcile(WriteOf(w), w.try, ops[WriteOf(w)].sent) \/ UNCHANGED storeVars
      BY <1>3 DEF ReconcileWrite, ReconcileFails, At
    <2>2. WriteOf(w) \in Keys
      BY <2>1, InWriteAtHand DEF InWrite
    <2> HIDE DEF w
    <2> QED
      BY <2>1, <2>2, ReconcileIsStore
  <1>4. CASE ClaimWrite(d)
    <2>1. w.pc = "claimWrite" /\ \/ UNCHANGED storeVars \/ Claim(WriteOf(w), d, w.head)
      BY <1>4 DEF ClaimWrite, At
    <2>2. WriteOf(w) \in Keys /\ ParentOf[WriteOf(w)] = Head(w.queue)
          /\ KindOf[WriteOf(w)] # "notification_ledger" /\ w.head \in Heads
      BY <2>1, InWriteAtHand, BusyAtHand DEF InWrite, InCommand
    <2>3. inbox[d].state = "running" /\ ops[Head(w.queue)].state = "running"
      BY <1>1, <2>1 DEF Fits, Leases, Holds, Owns
    <2> QED
      BY <2>1, <2>2, <2>3, ClaimIsStore
  <1>5. CASE Send(d)
    <2>1. w.pc = "mark" /\ MarkSent(WriteOf(w), w.try)
      BY <1>5 DEF Send, At
    <2>2. WriteOf(w) \in Keys
      BY <2>1, InWriteAtHand DEF InWrite
    <2> QED
      BY <2>1, <2>2, MarkIsStore
  <1>6. CASE ReadAnswer(d)
    <2>1. w.pc = "http" /\ \E s \in {"succeeded", "failed", "unknown"} :
                              Finish(WriteOf(w), w.try, s)
      BY <1>6 DEF ReadAnswer, At
    <2>2. WriteOf(w) \in Keys
      BY <2>1, InWriteAtHand DEF InWrite
    <2> QED
      BY <2>1, <2>2, FinishIsStore
  <1>7. CASE FinishCommand(d)
    <2>1. w.pc = "finish" /\ Finish(Head(w.queue), w.run, CommandOutcome(Head(w.queue), w.status))
      BY <1>7 DEF FinishCommand, At
    <2>2. Head(w.queue) \in Keys
      BY <2>1, BusyAtHand DEF InCommand
    <2> QED
      BY <2>1, <2>2, FinishIsStore
  <1>8. CASE Settle(d)
    BY <1>8 DEF Settle, StoreNext, StoreInboxNext
  <1>9. CASE Release(d)
    <2>1. w.pc = "release" /\ FinishInbox(d, w.lease, w.problem)
      BY <1>9 DEF Release, At
    <2>2. inbox[d].attempts = w.lease /\ inbox[d].state = "running" /\ w.problem \in BOOLEAN
      BY <1>1, <2>1 DEF Fits, Leases, Worker
    <2>3. w.lease \in 1..MaxLeases
      BY <1>1, <2>2, BoundAssumption DEF RuntimeIInv, Counted, Worker
    <2> QED
      BY <2>1, <2>2, <2>3 DEF StoreNext, StoreInboxNext
  <1> QED
    BY <1>2, <1>3, <1>4, <1>5, <1>6, <1>7, <1>8, <1>9

\* Every step of the runtime is a step of the ledger or leaves it alone.
LEMMA StepIsStore ==
    ASSUME RuntimeIInv, [Next]_vars
    PROVE  [StoreNext]_storeVars
  <1>1. CASE ProcessStep
    BY <1>1, ProcessIsStore
  <1>2. CASE GitHubStep
    BY <1>2 DEF GitHubStep, Land, Refuse
  <1>3. CASE Disturbance
    BY <1>3 DEF Disturbance, Crash, Discard, Interrupt, StoreFails, BookkeepingFails, Lose
  <1>4. CASE OperatorStep
    <2>1. CASE OpenStore("cli")
      BY <2>1 DEF OpenStore, StoreNext, StoreInboxNext
    <2>2. CASE CloseCli
      BY <2>2 DEF CloseCli
    <2>3. ASSUME NEW k \in Keys, NEW decision \in {"confirm-success", "confirm-not-sent", "retry"},
                 Decide(k, decision)
          PROVE  StoreNext
      BY <2>3 DEF Decide, StoreNext, StorePolicyNext
    <2> QED
      BY <1>4, <2>1, <2>2, <2>3 DEF OperatorStep
  <1>5. ASSUME NEW d \in Deliveries, WorkerStep(d)
        PROVE  [StoreNext]_storeVars
    BY <1>5, CommandIsStore, WriteIsStore DEF WorkerStep
  <1>6. ASSUME NEW d \in Deliveries, Receive(d)
        PROVE  StoreNext
    BY <1>6 DEF Receive, StoreNext, StoreInboxNext
  <1>7. ASSUME NEW h \in Heads, Push(h)
        PROVE  UNCHANGED storeVars
    BY <1>7 DEF Push
  <1>8. CASE PumpCleanup
    BY <1>8 DEF PumpCleanup, StoreNext, StoreInboxNext
  <1>9. CASE BackoffExpires
    BY <1>9 DEF BackoffExpires, StoreNext, StoreInboxNext, StorePolicyNext
  <1>10. CASE UNCHANGED vars
    BY <1>10 DEF vars
  <1> QED
    BY <1>1, <1>2, <1>3, <1>4, <1>5, <1>6, <1>7, <1>8, <1>9, <1>10 DEF Next

\* GitHub and the bounds are well formed.
WorldTyped ==
    /\ head \in Heads /\ wire \subseteq Request
    /\ applied \in [Writes -> 0..MaxEffects] /\ faults \in 0..MaxFaults

\* A step of the worker of d leaves the rows alone that others are running.
Own(d) == \A k \in Keys :
    /\ Later(k)
    /\ ops[k].state = "running" /\ ops[k].lease # d => ops'[k] = ops[k]
    /\ ops'[k].state = "running" => ops'[k].lease = d \/ ops'[k] = ops[k]

-----------------------------------------------------------------------------
(* A step of one worker. *)

\* What was read of uncertain writes keeps holding.
LEMMA SeenKept ==
    ASSUME StoreTypeOK, StoreTypeOK', NEW w \in Worker, Seen(w), \A k \in Keys : Later(k)
    PROVE  Seen(w)'
  <1> SUFFICES ASSUME NEW r \in w.todo
               PROVE  /\ r.attempt <= ops'[r.key].attempts
                      /\ r.attempt = ops'[r.key].attempts =>
                            /\ ops'[r.key].state # "running"
                            /\ ops'[r.key].state = "unknown" => ops'[r.key].sent = r.sent
    BY DEF Seen
  <1>1. r.key \in Keys /\ r.attempt \in Nat
    BY DEF Worker, Child, Writes
  <1>2. ops[r.key].attempts \in Nat /\ ops'[r.key].attempts \in Nat
    BY <1>1 DEF StoreTypeOK, Operation
  <1>3. /\ r.attempt <= ops[r.key].attempts
        /\ r.attempt = ops[r.key].attempts =>
              /\ ops[r.key].state # "running"
              /\ ops[r.key].state = "unknown" => ops[r.key].sent = r.sent
    BY DEF Seen
  <1>4. Later(r.key)
    BY <1>1
  <1> QED
    BY <1>1, <1>2, <1>3, <1>4 DEF Later

\* Attempts stay counted.
LEMMA CountedKept ==
    ASSUME StoreTypeOK, StoreTypeOK', Counted, \A k \in Keys : Later(k), NEW k \in Keys
    PROVE  /\ ops'[k].attempts <= MaxAttempts[k]
           /\ ops'[k].state \in {"running", "unknown"} => ops'[k].attempts >= 1
  <1>1. ops[k].attempts \in Nat /\ ops'[k].attempts \in Nat
    BY DEF StoreTypeOK, Operation
  <1>2. Later(k)
    OBVIOUS
  <1>3. /\ ops[k].attempts <= MaxAttempts[k]
        /\ ops[k].state \in {"running", "unknown"} => ops[k].attempts >= 1
    BY DEF Counted
  <1> QED
    BY <1>1, <1>2, <1>3 DEF Later

\* A step of one worker leaves the others as they were.
LEMMA OtherFits ==
    ASSUME RuntimeIInv, StoreTypeOK', NEW d \in Deliveries, NEW e \in Deliveries, e # d,
           Own(d), worker'[e] = worker[e], inbox'[e] = inbox[e]
    PROVE  Fits(e, worker[e])'
  <1> DEFINE w == worker[e]
  <1>1. /\ w \in Worker /\ Shape(w) /\ Seen(w) /\ Leases(e, w) /\ StoreTypeOK
        /\ w.queue \in Seq(CommandKeys)
    BY WorkerTyped DEF Fits, RuntimeIInv
  <1>2. Seen(worker[e])'
    <2>1. \A v \in Worker : Seen(v) => Seen(v)'
      BY <1>1, SeenKept DEF Own
    <2> QED
      BY <1>1, <2>1 DEF Seen
  <1>3. Shape(worker[e])'
    BY <1>1 DEF Shape
  <1>4. \A k \in Keys : \A a : Holds(e, k, a) => Holds(e, k, a)' /\ ops'[k] = ops[k]
    BY DEF Own, Holds, Owns
  <1>5. /\ w.pc \in {"write", "lookup", "claimWrite", "mark", "http", "finish", "stale"} =>
              Holds(e, Head(worker[e].queue), worker[e].run)'
        /\ w.pc \in {"write", "lookup", "claimWrite", "mark", "http"} =>
              (ops[Head(worker[e].queue)].head = worker[e].head)'
    <2>1. w.pc \in InCommand => Head(w.queue) \in Keys
      BY BusyAtHand
    <2>2. CASE w.pc \in {"write", "lookup", "claimWrite", "mark", "http", "finish", "stale"}
      <3>1. w.pc \in InCommand
        BY <2>2 DEF InCommand
      <3>2. Holds(e, Head(w.queue), w.run)
        BY <1>1, <2>2 DEF Leases
      <3>3. /\ ops'[Head(w.queue)] = ops[Head(w.queue)]
            /\ Owns(Head(w.queue), w.run) /\ ops[Head(w.queue)].lease = e
        BY <1>4, <2>1, <3>1, <3>2 DEF Holds
      <3> QED
        BY <1>1, <3>3 DEF Leases, Holds, Owns
    <2> QED
      BY <2>2
  <1>6. /\ w.pc \in {"mark", "http"} => Holds(e, WriteOf(worker[e]), worker[e].try)'
        /\ w.pc = "mark" => (~ops[WriteOf(worker[e])].sent)'
    <2> SUFFICES ASSUME w.pc \in {"mark", "http"}
                 PROVE  /\ Holds(e, WriteOf(worker[e]), worker[e].try)'
                        /\ w.pc = "mark" => (~ops[WriteOf(worker[e])].sent)'
      OBVIOUS
    <2>1. WriteOf(w) \in Keys
      BY InWriteAtHand DEF InWrite
    <2>2. Holds(e, WriteOf(w), w.try)
      BY <1>1 DEF Leases
    <2>3. WriteOf(worker[e])' = WriteOf(w)
      BY DEF WriteOf
    <2>4. ops'[WriteOf(w)] = ops[WriteOf(w)]
      BY <1>4, <2>1, <2>2
    <2> QED
      BY <1>1, <2>2, <2>3, <2>4 DEF Leases, Holds, Owns
  <1>7. w.pc = "release" => \A k \in Keys : ~(ops'[k].state = "running" /\ ops'[k].lease = e)
    BY <1>1 DEF Leases, Own
  <1>8. w.pc # "idle" => inbox'[e].state = "running" /\ inbox'[e].attempts = w.lease
    BY <1>1 DEF Leases
  <1>9. Leases(e, worker[e])'
    BY <1>5, <1>6, <1>7, <1>8 DEF Leases
  <1> QED
    BY <1>2, <1>3, <1>9 DEF Fits

\* Only the worker of d moves.
Alone(d) == /\ worker' \in [Deliveries -> Worker]
            /\ \A e \in Deliveries \ {d} : worker'[e] = worker[e]

\* A move of one worker.
LEMMA Became ==
    ASSUME RuntimeIInv, NEW d \in Deliveries, NEW v \in Worker, Become(d, v)
    PROVE  Alone(d) /\ worker'[d] = v
  <1>1. worker \in [Deliveries -> Worker]
    BY DEF RuntimeIInv, RuntimeTypeOK
  <1> QED
    BY <1>1 DEF Become, Alone

\* A move of one worker keeps the invariant when the worker fits its new place.
LEMMA WorkerMoves ==
    ASSUME RuntimeIInv, StoreTypeOK', NEW d \in Deliveries, Alone(d),
           worker[d].pc # "idle", worker'[d].pc # "idle", Own(d), inbox' = inbox,
           owner' = owner, pump' = pump, WorldTyped', Fits(d, worker[d])'
    PROVE  RuntimeIInv'
  <1>1. StoreTypeOK /\ RuntimeTypeOK /\ Process /\ Tended /\ Counted
    BY DEF RuntimeIInv
  <1>2. /\ worker' \in [Deliveries -> Worker]
        /\ \A e \in Deliveries \ {d} : worker'[e] = worker[e]
    BY DEF Alone
  <1>3. RuntimeTypeOK'
    BY <1>1, <1>2 DEF RuntimeTypeOK, WorldTyped
  <1>4. Active' = Active /\ d \in Active
    BY <1>2 DEF Active
  <1>5. Process'
    BY <1>1, <1>4 DEF Process
  <1>6. Tended'
    BY <1>1, <1>4 DEF Tended, Own
  <1>7. Counted'
    BY <1>1, CountedKept DEF Counted, Own
  <1>8. \A e \in Deliveries : Fits(e, worker[e])'
    BY <1>2, OtherFits
  <1> QED
    BY <1>3, <1>5, <1>6, <1>7, <1>8 DEF RuntimeIInv

\* A step that leaves GitHub alone.
LEMMA LocalWorld ==
    ASSUME RuntimeIInv, Local
    PROVE  owner' = owner /\ pump' = pump /\ WorldTyped'
  BY DEF RuntimeIInv, RuntimeTypeOK, Local, WorldTyped

\* A step that counts a fault.
LEMMA FaultyWorld ==
    ASSUME RuntimeIInv, Fault, UNCHANGED <<head, wire, applied>>
    PROVE  WorldTyped'
  <1>1. faults \in 0..MaxFaults /\ MaxFaults \in Nat
    BY RuntimeAssumption DEF RuntimeIInv, RuntimeTypeOK
  <1>2. faults' \in 0..MaxFaults
    BY <1>1 DEF Fault
  <1> QED
    BY <1>2 DEF RuntimeIInv, RuntimeTypeOK, WorldTyped

\* A step that leaves the ledger alone, and the operations seen from the worker that
\* runs them: they touch no row another worker runs.
LEMMA QuietRows ==
    ASSUME RuntimeIInv, UNCHANGED storeVars, NEW d \in Deliveries
    PROVE  Own(d) /\ inbox' = inbox
  BY LaterSame DEF Own, storeVars, RuntimeIInv

\* A refusal.
LEMMA RefusedRows ==
    ASSUME RuntimeIInv, NEW k \in Keys, FailUnsent(k), NEW d \in Deliveries
    PROVE  Own(d) /\ inbox' = inbox
  <1>1. /\ \A j \in Keys : \/ ops'[j] = ops[j]
                           \/ /\ ops[j].state \in {"pending", "unknown"} /\ ~ops[j].sent
                              /\ ops'[j].state = "failed" /\ Same(j)
        /\ \A j \in Keys : Later(j)
        /\ inbox' = inbox
    BY FailRows DEF RuntimeIInv
  <1> QED
    BY <1>1 DEF Own

\* A change of one row that is free or belongs to the worker.
LEMMA OwnRow ==
    ASSUME NEW k \in Keys, NEW d \in Deliveries, \A j \in Keys : Later(j),
           \A j \in Keys \ {k} : ops'[j] = ops[j],
           ops[k].state = "running" => ops[k].lease = d,
           ops'[k].state = "running" => ops'[k].lease = d
    PROVE  Own(d)
  BY DEF Own

\* A claim.
LEMMA ClaimedRows ==
    ASSUME RuntimeIInv, NEW k \in Keys, NEW d \in Deliveries, NEW h, Claim(k, d, h)
    PROVE  /\ Own(d) /\ inbox' = inbox /\ \A j \in Keys \ {k} : ops'[j] = ops[j]
           /\ ops'[k].state = "running" /\ ops'[k].lease = d /\ ~ops'[k].sent
           /\ ops'[k].head = IF ops[k].state = "absent" THEN h ELSE ops[k].head
  <1>1. /\ ops'[k].state = "running" /\ ops'[k].lease = d /\ ops[k].state # "running"
        /\ ~ops'[k].sent /\ ops'[k].head = IF ops[k].state = "absent" THEN h ELSE ops[k].head
        /\ \A j \in Keys \ {k} : ops'[j] = ops[j]
        /\ \A j \in Keys : Later(j)
        /\ inbox' = inbox
    BY ClaimRows DEF RuntimeIInv
  <1> QED
    BY <1>1, OwnRow

\* A receipt.
LEMMA FinishedRows ==
    ASSUME RuntimeIInv, NEW k \in Keys, NEW d \in Deliveries, NEW a, NEW s, Finish(k, a, s),
           ops[k].lease = d
    PROVE  Own(d) /\ inbox' = inbox /\ \A j \in Keys \ {k} : ops'[j] = ops[j]
  <1>1. /\ ops'[k].lease = d
        /\ \A j \in Keys \ {k} : ops'[j] = ops[j]
        /\ \A j \in Keys : Later(j)
        /\ inbox' = inbox
    BY FinishRows DEF RuntimeIInv, Same
  <1> QED
    BY <1>1, OwnRow

\* A resolution.
LEMMA ResolvedRows ==
    ASSUME RuntimeIInv, NEW k \in Keys, NEW a, NEW o, ResolveUnknown(k, a, o),
           NEW d \in Deliveries
    PROVE  Own(d) /\ inbox' = inbox /\ \A j \in Keys \ {k} : ops'[j] = ops[j]
  <1>1. /\ ops[k].state = "unknown" /\ ops'[k].state \in {"succeeded", "pending"}
        /\ \A j \in Keys \ {k} : ops'[j] = ops[j]
        /\ \A j \in Keys : Later(j)
        /\ inbox' = inbox
    BY ResolveRows DEF RuntimeIInv
  <1> QED
    BY <1>1, OwnRow

\* A reconciliation.
LEMMA ReconciledRows ==
    ASSUME RuntimeIInv, NEW k \in Keys, NEW a, NEW s, Reconcile(k, a, s),
           NEW d \in Deliveries
    PROVE  Own(d) /\ inbox' = inbox /\ \A j \in Keys \ {k} : ops'[j] = ops[j]
  <1> DEFINE P == Own(d) /\ inbox' = inbox /\ \A j \in Keys \ {k} : ops'[j] = ops[j]
  <1>1. ASSUME NEW o, ResolveUnknown(k, a, o)
        PROVE  P
    BY <1>1, ResolvedRows
  <1>2. UNCHANGED storeVars => P
    BY QuietRows DEF storeVars
  <1> HIDE DEF P
  <1>3. P
    BY <1>1, <1>2 DEF Reconcile
  <1> QED
    BY <1>3 DEF P

-----------------------------------------------------------------------------
(* The gate and the command. *)

\* The list of uncertain writes only gets shorter.
LEMMA SeenLess ==
    ASSUME RuntimeIInv, StoreTypeOK', NEW d \in Deliveries, Own(d), Alone(d),
           worker'[d].todo \subseteq worker[d].todo
    PROVE  Seen(worker[d])'
  <1>1. worker[d] \in Worker /\ Seen(worker[d]) /\ StoreTypeOK
    BY WorkerTyped DEF Fits, RuntimeIInv
  <1>2. \A w \in Worker : Seen(w) => Seen(w)'
    BY <1>1, SeenKept DEF Own
  <1>3. \A r \in worker[d].todo :
            /\ r.attempt <= ops'[r.key].attempts
            /\ r.attempt = ops'[r.key].attempts =>
                  /\ ops'[r.key].state # "running"
                  /\ ops'[r.key].state = "unknown" => ops'[r.key].sent = r.sent
    BY <1>1, <1>2 DEF Seen
  <1> QED
    BY <1>3 DEF Seen

\* A worker between its commands.
LEMMA OutsideFits ==
    ASSUME RuntimeIInv, StoreTypeOK', NEW d \in Deliveries, Own(d), Alone(d), inbox' = inbox,
           worker[d].pc # "idle", worker'[d].pc \in {"gate", "settle", "command"},
           worker'[d].lease = worker[d].lease, worker'[d].todo \subseteq worker[d].todo,
           worker'[d].pc = "command" /\ worker'[d].queue # <<>> => worker'[d].head \in Heads
    PROVE  Fits(d, worker[d])'
  <1>1. inbox[d].state = "running" /\ inbox[d].attempts = worker[d].lease
    BY WorkerTyped DEF Fits, Leases
  <1>2. Shape(worker[d])'
    BY DEF Shape, InCommand, InWrite
  <1>3. Leases(d, worker[d])'
    BY <1>1 DEF Leases
  <1> QED
    BY <1>2, <1>3, SeenLess DEF Fits

\* A worker that goes on with its command.
LEMMA InsideFits ==
    ASSUME RuntimeIInv, StoreTypeOK', NEW d \in Deliveries, Own(d), Alone(d), inbox' = inbox,
           worker'[d].pc \in InCommand, worker[d].pc \in InCommand,
           worker'[d].lease = worker[d].lease, worker'[d].todo \subseteq worker[d].todo,
           worker'[d].queue = worker[d].queue, worker'[d].head = worker[d].head,
           worker'[d].pc \in InWrite => worker'[d].step <= Len(WritesOf[Head(worker[d].queue)]),
           worker'[d].pc \in InWrite \cup {"write"} => worker'[d].step >= 1,
           worker'[d].pc \in {"write", "lookup", "claimWrite", "mark", "http", "finish", "stale"}
                => Holds(d, Head(worker[d].queue), worker[d].run)',
           worker'[d].pc \in {"write", "lookup", "claimWrite", "mark", "http"}
                => (ops[Head(worker[d].queue)].head = worker[d].head)',
           worker'[d].pc \in {"mark", "http"} => Holds(d, WriteOf(worker[d]), worker[d].try)',
           worker'[d].pc = "mark" => (~ops[WriteOf(worker[d])].sent)'
    PROVE  Fits(d, worker[d])'
  <1>1. inbox[d].state = "running" /\ inbox[d].attempts = worker[d].lease
    BY WorkerTyped DEF Fits, Leases, InCommand
  <1>2. Shape(worker[d])'
    BY BusyAtHand DEF Shape
  <1>3. Leases(d, worker[d])'
    <2>1. worker'[d].pc # "release"
      BY DEF InCommand
    <2> QED
      BY <1>1, <2>1 DEF Leases, Holds
  <1> QED
    BY <1>2, <1>3, SeenLess DEF Fits

\* The worker turns to its next command.
LEMMA CommandDone ==
    ASSUME RuntimeIInv, StoreTypeOK', NEW d \in Deliveries, Own(d), inbox' = inbox,
           worker[d].pc \in InCommand \cup {"command"}, worker[d].queue # <<>>,
           NEW b \in BOOLEAN, Become(d, NextCommand(worker[d], b)),
           owner' = owner, pump' = pump, WorldTyped'
    PROVE  RuntimeIInv'
  <1> DEFINE v == NextCommand(worker[d], b)
  <1>1. worker[d] \in Worker /\ Become(d, v)
    BY WorkerTyped
  <1>2. /\ v \in Worker /\ v.pc = "command" /\ v.lease = worker[d].lease
        /\ v.head = worker[d].head /\ v.todo = {}
    BY <1>1, ToNextCommand
  <1> HIDE DEF v
  <1>3. worker[d].head \in Heads /\ worker[d].pc # "idle"
    BY WorkerTyped DEF Fits, Shape, InCommand
  <1>4. Alone(d) /\ worker'[d] = v
    BY <1>1, <1>2, Became
  <1>5. Fits(d, worker[d])'
    BY <1>2, <1>3, <1>4, OutsideFits
  <1> QED
    BY <1>2, <1>3, <1>4, <1>5, WorkerMoves

\* The gate and the look at the pull request.
LEMMA GateStep ==
    ASSUME RuntimeIInv, StoreTypeOK', NEW d \in Deliveries,
           GatePass(d) \/ GateRefuse(d) \/ Snapshot(d) \/ Discard(d)
    PROVE  RuntimeIInv'
  <1> DEFINE w == worker[d]
  <1>1. /\ w \in Worker /\ w.gate \in Seq(CommandKeys) /\ w.queue \in Seq(CommandKeys)
        /\ w.pc = "gate"
    BY WorkerTyped DEF GatePass, GateRefuse, Snapshot, Discard, At
  <1>2. CASE GatePass(d)
    <2> DEFINE g == Tail(w.gate)
               q == Append(w.queue, Head(w.gate))
               v == [w EXCEPT !.gate = g, !.queue = q]
    <2>1. w.gate # <<>> /\ Become(d, v) /\ UNCHANGED storeVars /\ Local
      BY <1>2 DEF GatePass
    <2>2. g \in Seq(CommandKeys) /\ q \in Seq(CommandKeys)
      BY <1>1, <2>1, FirstInQueue
    <2> HIDE DEF g, q
    <2>3. v \in Worker /\ v.pc = w.pc /\ v.lease = w.lease /\ v.todo = w.todo
      <3>1. w \in Worker
        BY <1>1
      <3> QED
        BY <3>1, <2>2, ToPass, ZenonT(60)
    <2> HIDE DEF v
    <2>4. Alone(d) /\ worker'[d] = v
      BY <2>1, <2>3, Became
    <2>5. Own(d) /\ inbox' = inbox
      BY <2>1, QuietRows
    <2>6. Fits(d, worker[d])'
      BY <2>4, <1>1, <2>3, <2>5, OutsideFits
    <2> QED
      BY <2>4, <1>1, <2>1, <2>3, <2>5, <2>6, LocalWorld, WorkerMoves
  <1>3. CASE GateRefuse(d)
    <2> DEFINE g == Tail(w.gate)
               v == [w EXCEPT !.gate = g]
    <2>1. w.gate # <<>> /\ Become(d, v) /\ FailUnsent(Head(w.gate)) /\ Local
      BY <1>3 DEF GateRefuse
    <2>2. g \in Seq(CommandKeys) /\ Head(w.gate) \in Keys
      BY <1>1, <2>1, FirstInQueue DEF CommandKeys
    <2> HIDE DEF g
    <2>3. v \in Worker /\ v.pc = w.pc /\ v.lease = w.lease /\ v.todo = w.todo
      BY <1>1, <2>2, ToRefuse
    <2> HIDE DEF v
    <2>4. Alone(d) /\ worker'[d] = v
      BY <2>1, <2>3, Became
    <2>5. Own(d) /\ inbox' = inbox
      BY <2>1, <2>2, RefusedRows
    <2>6. Fits(d, worker[d])'
      BY <2>4, <1>1, <2>3, <2>5, OutsideFits
    <2> QED
      BY <2>4, <1>1, <2>1, <2>3, <2>5, <2>6, LocalWorld, WorkerMoves
  <1>4. CASE Snapshot(d)
    <2> DEFINE h == IF w.queue = <<>> THEN None ELSE head
               v == [w EXCEPT !.pc = "command", !.head = h]
    <2>1. Become(d, v) /\ UNCHANGED storeVars /\ Local
      BY <1>4 DEF Snapshot
    <2>2. h \in Heads \cup {None} /\ (w.queue # <<>> => h \in Heads)
      BY DEF RuntimeIInv, RuntimeTypeOK
    <2> HIDE DEF h
    <2>3. /\ v \in Worker /\ v.pc = "command" /\ v.lease = w.lease /\ v.todo = w.todo
          /\ v.queue = w.queue /\ v.head = h
      BY <1>1, <2>2, ToHead, ZenonT(60)
    <2> HIDE DEF v
    <2>4. Alone(d) /\ worker'[d] = v
      BY <2>1, <2>3, Became
    <2>5. Own(d) /\ inbox' = inbox
      BY <2>1, QuietRows
    <2>6. Fits(d, worker[d])'
      BY <2>4, <1>1, <2>2, <2>3, <2>5, OutsideFits
    <2> QED
      BY <2>4, <1>1, <2>1, <2>3, <2>5, <2>6, LocalWorld, WorkerMoves
  <1>5. CASE Discard(d)
    <2> DEFINE v == [w EXCEPT !.pc = "settle", !.gate = <<>>]
    <2>1. Become(d, v) /\ Fault /\ UNCHANGED <<storeVars, owner, pump, head, wire, applied>>
      BY <1>5 DEF Discard
    <2>2. v \in Worker /\ v.pc = "settle" /\ v.lease = w.lease /\ v.todo = w.todo
      BY <1>1, ToDiscard
    <2> HIDE DEF v
    <2>3. Alone(d) /\ worker'[d] = v
      BY <2>1, <2>2, Became
    <2>4. Own(d) /\ inbox' = inbox
      BY <2>1, QuietRows
    <2>5. Fits(d, worker[d])'
      BY <2>3, <1>1, <2>2, <2>4, OutsideFits
    <2>6. WorldTyped'
      BY <2>1, FaultyWorld
    <2> QED
      BY <2>3, <1>1, <2>1, <2>2, <2>4, <2>5, <2>6, WorkerMoves
  <1> QED
    BY <1>2, <1>3, <1>4, <1>5

\* A command refused just before it runs.
LEMMA RecheckStep ==
    ASSUME RuntimeIInv, StoreTypeOK', NEW d \in Deliveries, RecheckRefuse(d)
    PROVE  RuntimeIInv'
  <1>1. /\ worker[d].pc = "command" /\ worker[d].queue # <<>>
        /\ FailUnsent(Head(worker[d].queue)) /\ Become(d, NextCommand(worker[d], FALSE)) /\ Local
    BY DEF RecheckRefuse, At
  <1>2. Head(worker[d].queue) \in Keys
    BY <1>1, WorkerTyped, FirstInQueue DEF CommandKeys
  <1>3. Own(d) /\ inbox' = inbox
    BY <1>1, <1>2, RefusedRows
  <1> QED
    BY <1>1, <1>3, LocalWorld, CommandDone

\* run_command reads the row of its command.
LEMMA StartCommandStep ==
    ASSUME RuntimeIInv, StoreTypeOK', NEW d \in Deliveries, StartCommand(d)
    PROVE  RuntimeIInv'
  <1> DEFINE w == worker[d]
             c == Head(w.queue)
             t == {[key |-> k, attempt |-> ops[k].attempts, sent |-> ops[k].sent] :
                      k \in {j \in Children(c) : ops[j].state = "unknown"}}
             o == ops[c].attempts
  <1>1. /\ w.pc = "command" /\ w.queue # <<>> /\ UNCHANGED storeVars /\ Local
        /\ \/ ops[c].state = "unknown"
              /\ Become(d, [w EXCEPT !.pc = "children", !.old = o, !.todo = t])
           \/ Become(d, [w EXCEPT !.pc = "claim"])
    BY DEF StartCommand, At
  <1>2. /\ w \in Worker /\ Shape(w) /\ Seen(w) /\ Leases(d, w) /\ StoreTypeOK
        /\ w.queue \in Seq(CommandKeys)
    BY WorkerTyped DEF Fits, RuntimeIInv
  <1>3. c \in CommandKeys /\ c \in Keys /\ c \in Planners
    BY <1>1, <1>2, FirstInQueue, CommandIsPlanner
  <1>4. Own(d) /\ inbox' = inbox /\ ops' = ops
    BY <1>1, QuietRows DEF storeVars
  <1>5. w.head \in Heads /\ inbox[d].state = "running" /\ inbox[d].attempts = w.lease
    BY <1>1, <1>2 DEF Shape, Leases
  <1>6. CASE Become(d, [w EXCEPT !.pc = "claim"])
    <2> DEFINE v == [w EXCEPT !.pc = "claim"]
    <2>1. /\ v \in Worker /\ v.pc = "claim" /\ v.lease = w.lease /\ v.todo = w.todo
          /\ v.queue = w.queue /\ v.head = w.head
      BY <1>2, ToPlace, ZenonT(60) DEF Places
    <2>2. Become(d, v)
      BY <1>6
    <2> HIDE DEF v
    <2>3. Alone(d) /\ worker'[d] = v
      BY <2>2, <2>1, Became
    <2>4. Seen(worker[d])'
      BY <2>3, <1>4, <2>1, SeenLess
    <2>5. Fits(d, worker[d])'
      BY <1>1, <1>4, <1>5, <2>1, <2>4, <2>3 DEF Fits, Shape, Leases, InWrite
    <2> QED
      BY <2>3, <1>1, <1>4, <1>6, <2>1, <2>5, LocalWorld, WorkerMoves
  <1>7. CASE Become(d, [w EXCEPT !.pc = "children", !.old = o, !.todo = t])
    <2> DEFINE v == [w EXCEPT !.pc = "children", !.old = o, !.todo = t]
    <2>1. o \in Nat
      BY <1>2, <1>3 DEF StoreTypeOK, Operation
    <2>2. t \in SUBSET Child
      <3> SUFFICES ASSUME NEW k \in Children(c)
                   PROVE  [key |-> k, attempt |-> ops[k].attempts, sent |-> ops[k].sent] \in Child
        OBVIOUS
      <3>1. k \in Keys /\ ParentOf[k] = c
        BY DEF Children
      <3>2. k \in Writes
        <4>1. c # None
          BY <1>3, NoneAssumption
        <4> QED
          BY <3>1, <4>1, KeyAssumption DEF Writes, Planners
      <3>3. ops[k].attempts \in Nat /\ ops[k].sent \in BOOLEAN
        BY <1>2, <3>1 DEF StoreTypeOK, Operation
      <3> QED
        BY <3>2, <3>3 DEF Child
    <2>3. \A r \in t : /\ r.key \in Keys /\ r.attempt = ops[r.key].attempts
                       /\ ops[r.key].state = "unknown" /\ r.sent = ops[r.key].sent
      BY DEF Children
    <2> HIDE DEF t, o
    <2>4. /\ v \in Worker /\ v.pc = "children" /\ v.lease = w.lease /\ v.todo = t
          /\ v.queue = w.queue /\ v.head = w.head
      <3>1. w \in Worker
        BY <1>2
      <3> QED
        BY <3>1, <2>1, <2>2 DEF Worker, Places
    <2>5. Become(d, v)
      BY <1>7 DEF t, o
    <2> HIDE DEF v
    <2>6. Alone(d) /\ worker'[d] = v
      BY <2>5, <2>4, Became
    <2>7. Seen(worker[d])'
      <3>1. \A r \in t : ops[r.key].attempts \in Nat
        BY <1>2, <2>3 DEF StoreTypeOK, Operation
      <3> QED
        BY <1>4, <2>3, <2>4, <2>6, <3>1 DEF Seen
    <2>8. Fits(d, worker[d])'
      BY <1>1, <1>4, <1>5, <2>4, <2>7, <2>6 DEF Fits, Shape, Leases, InWrite
    <2> QED
      BY <2>6, <1>1, <1>4, <1>7, <2>4, <2>8, LocalWorld, WorkerMoves
  <1> QED
    BY <1>1, <1>6, <1>7

\* A worker moves to a place between commands, ...
LEMMA OutsideMoves ==
    ASSUME RuntimeIInv, StoreTypeOK', NEW d \in Deliveries, Own(d), Alone(d), inbox' = inbox,
           owner' = owner, pump' = pump, WorldTyped',
           worker[d].pc # "idle", worker'[d].pc \in {"gate", "settle", "command"},
           worker'[d].lease = worker[d].lease, worker'[d].todo \subseteq worker[d].todo,
           worker'[d].pc = "command" /\ worker'[d].queue # <<>> => worker'[d].head \in Heads
    PROVE  RuntimeIInv'
  <1>1. Fits(d, worker[d])'
    BY OutsideFits
  <1>2. worker'[d].pc # "idle"
    OBVIOUS
  <1> QED
    BY <1>1, <1>2, WorkerMoves

\* ... or to another place within its command.
LEMMA InsideMoves ==
    ASSUME RuntimeIInv, StoreTypeOK', NEW d \in Deliveries, Own(d), Alone(d), inbox' = inbox,
           owner' = owner, pump' = pump, WorldTyped',
           worker'[d].pc \in InCommand, worker[d].pc \in InCommand,
           worker'[d].lease = worker[d].lease, worker'[d].todo \subseteq worker[d].todo,
           worker'[d].queue = worker[d].queue, worker'[d].head = worker[d].head,
           worker'[d].pc \in InWrite => worker'[d].step <= Len(WritesOf[Head(worker[d].queue)]),
           worker'[d].pc \in InWrite \cup {"write"} => worker'[d].step >= 1,
           worker'[d].pc \in {"write", "lookup", "claimWrite", "mark", "http", "finish", "stale"}
                => Holds(d, Head(worker[d].queue), worker[d].run)',
           worker'[d].pc \in {"write", "lookup", "claimWrite", "mark", "http"}
                => (ops[Head(worker[d].queue)].head = worker[d].head)',
           worker'[d].pc \in {"mark", "http"} => Holds(d, WriteOf(worker[d]), worker[d].try)',
           worker'[d].pc = "mark" => (~ops[WriteOf(worker[d])].sent)'
    PROVE  RuntimeIInv'
  <1>1. Fits(d, worker[d])'
    BY InsideFits
  <1>2. worker'[d].pc # "idle" /\ worker[d].pc # "idle"
    BY DEF InCommand
  <1> QED
    BY <1>1, <1>2, WorkerMoves

\* A failed reconciliation leaves the ledger alone.
LEMMA FailsRows ==
    ASSUME RuntimeIInv, NEW k, NEW a, NEW s, ReconcileFails(k, a, s), NEW d \in Deliveries
    PROVE  Own(d) /\ inbox' = inbox /\ ops' = ops /\ owner' = owner /\ pump' = pump /\ WorldTyped'
  <1>1. /\ UNCHANGED storeVars /\ owner' = owner /\ pump' = pump
        /\ UNCHANGED <<head, wire, applied>> /\ (Fault \/ faults' = faults)
    BY DEF ReconcileFails
  <1>2. faults' = faults => WorldTyped'
    BY <1>1 DEF RuntimeIInv, RuntimeTypeOK, WorldTyped
  <1> QED
    BY <1>1, <1>2, QuietRows, FaultyWorld DEF storeVars

\* An uncertain write is looked at.
LEMMA ReconcileChildStep ==
    ASSUME RuntimeIInv, StoreTypeOK', NEW d \in Deliveries, ReconcileChild(d)
    PROVE  RuntimeIInv'
  <1> DEFINE w == worker[d]
  <1>1. PICK r \in w.todo :
          \/ Reconcile(r.key, r.attempt, r.sent) /\ Local
             /\ Become(d, [w EXCEPT !.todo = @ \ {r}])
          \/ ReconcileFails(r.key, r.attempt, r.sent) /\ Become(d, NextCommand(w, TRUE))
    BY DEF ReconcileChild
  <1>2. w.pc = "children" /\ w \in Worker /\ w.todo \in SUBSET Child /\ w.queue # <<>>
    BY WorkerTyped, BusyAtHand DEF ReconcileChild, At, InCommand
  <1>3. r.key \in Keys
    BY <1>2 DEF Child, Writes
  <1>4. CASE ReconcileFails(r.key, r.attempt, r.sent) /\ Become(d, NextCommand(w, TRUE))
    BY <1>2, <1>4, FailsRows, CommandDone DEF InCommand
  <1>5. CASE Reconcile(r.key, r.attempt, r.sent) /\ Local /\ Become(d, [w EXCEPT !.todo = @ \ {r}])
    <2> DEFINE t == w.todo \ {r}
               v == [w EXCEPT !.todo = t]
    <2>1. Become(d, v) /\ t \in SUBSET Child /\ t \subseteq w.todo
      BY <1>2, <1>5
    <2> HIDE DEF t
    <2>2. /\ v \in Worker /\ v.pc = "children" /\ v.lease = w.lease /\ v.todo = t
          /\ v.queue = w.queue /\ v.head = w.head
      <3>1. w \in Worker /\ t \in SUBSET Child /\ w.pc = "children"
        BY <1>2, <2>1
      <3> QED
        BY <3>1, ToTodo
    <2> HIDE DEF v
    <2>3. Alone(d) /\ worker'[d] = v
      BY <2>1, <2>2, Became
    <2>4. Own(d) /\ inbox' = inbox
      BY <1>3, <1>5, ReconciledRows
    <2>5. owner' = owner /\ pump' = pump /\ WorldTyped'
      BY <1>5, LocalWorld
    <2> QED
      BY <1>2, <2>1, <2>2, <2>3, <2>4, <2>5, InsideMoves DEF InCommand, InWrite
  <1> QED
    BY <1>1, <1>4, <1>5

\* The planner of an interrupted command may run again.
LEMMA ReopenCommandStep ==
    ASSUME RuntimeIInv, StoreTypeOK', NEW d \in Deliveries, ReopenCommand(d)
    PROVE  RuntimeIInv'
  <1> DEFINE w == worker[d]
  <1>1. /\ w.pc = "children" /\ Local
        /\ \/ UNCHANGED storeVars /\ \E b \in BOOLEAN : Become(d, NextCommand(w, b))
           \/ /\ ResolveUnknown(Head(w.queue), w.old, "not_sent")
              /\ Become(d, [w EXCEPT !.pc = "claim", !.old = 0])
    BY DEF ReopenCommand, At
  <1>2. w \in Worker /\ w.queue # <<>> /\ Head(w.queue) \in Keys
    BY <1>1, WorkerTyped, BusyAtHand DEF InCommand
  <1>3. owner' = owner /\ pump' = pump /\ WorldTyped'
    BY <1>1, LocalWorld
  <1>4. CASE UNCHANGED storeVars /\ \E b \in BOOLEAN : Become(d, NextCommand(w, b))
    <2>1. Own(d) /\ inbox' = inbox
      BY <1>4, QuietRows
    <2> QED
      BY <1>1, <1>2, <1>3, <1>4, <2>1, CommandDone DEF InCommand
  <1>5. CASE /\ ResolveUnknown(Head(w.queue), w.old, "not_sent")
             /\ Become(d, [w EXCEPT !.pc = "claim", !.old = 0])
    <2> DEFINE v == [w EXCEPT !.pc = "claim", !.old = 0]
    <2>1. /\ v \in Worker /\ v.pc = "claim" /\ v.lease = w.lease /\ v.todo = w.todo
          /\ v.queue = w.queue /\ v.head = w.head
      BY <1>2, ToClaim
    <2>2. Become(d, v)
      BY <1>5
    <2> HIDE DEF v
    <2>3. Alone(d) /\ worker'[d] = v
      BY <2>1, <2>2, Became
    <2>4. Own(d) /\ inbox' = inbox
      BY <1>2, <1>5, ResolvedRows
    <2> QED
      BY <1>1, <1>3, <2>1, <2>3, <2>4, InsideMoves DEF InCommand, InWrite
  <1> QED
    BY <1>1, <1>4, <1>5

\* The command is claimed.
LEMMA ClaimCommandStep ==
    ASSUME RuntimeIInv, StoreTypeOK', NEW d \in Deliveries, ClaimCommand(d)
    PROVE  RuntimeIInv'
  <1> DEFINE w == worker[d]
             c == Head(w.queue)
             p == IF ops[c].state # "absent" /\ ops[c].head # w.head THEN "stale" ELSE "write"
             a == ops'[c].attempts
  <1>1. /\ w.pc = "claim" /\ Local
        /\ \/ Claim(c, d, w.head) /\ Become(d, [w EXCEPT !.pc = p, !.run = a, !.step = 1])
           \/ UNCHANGED storeVars /\ Become(d, NextCommand(w, FALSE))
    BY DEF ClaimCommand, At
  <1>2. w \in Worker /\ w.queue # <<>> /\ c \in Keys
    BY <1>1, WorkerTyped, BusyAtHand DEF InCommand
  <1>3. owner' = owner /\ pump' = pump /\ WorldTyped'
    BY <1>1, LocalWorld
  <1>4. CASE UNCHANGED storeVars /\ Become(d, NextCommand(w, FALSE))
    <2>1. Own(d) /\ inbox' = inbox
      BY <1>4, QuietRows
    <2> QED
      BY <1>1, <1>2, <1>3, <1>4, <2>1, CommandDone DEF InCommand
  <1>5. CASE Claim(c, d, w.head) /\ Become(d, [w EXCEPT !.pc = p, !.run = a, !.step = 1])
    <2> DEFINE v == [w EXCEPT !.pc = p, !.run = a, !.step = 1]
    <2>1. /\ Own(d) /\ inbox' = inbox /\ ops'[c].state = "running" /\ ops'[c].lease = d
          /\ ops'[c].head = IF ops[c].state = "absent" THEN w.head ELSE ops[c].head
      BY <1>2, <1>5, ClaimedRows
    <2>2. p \in {"stale", "write"} /\ p \in Places /\ a \in Nat
      BY <1>2 DEF Places, StoreTypeOK, Operation
    <2>3. Become(d, v) /\ a = ops'[c].attempts
      BY <1>5
    <2>4. p = "write" => ops'[c].head = w.head
      BY <2>1
    <2> HIDE DEF p, a
    <2>5. /\ v \in Worker /\ v.pc = p /\ v.lease = w.lease /\ v.todo = w.todo
          /\ v.queue = w.queue /\ v.head = w.head /\ v.run = a /\ v.step = 1
      <3>1. w \in Worker
        BY <1>2
      <3> QED
        BY <3>1, <2>2 DEF Worker
    <2> HIDE DEF v
    <2>6. Alone(d) /\ worker'[d] = v
      BY <2>3, <2>5, Became
    <2>7. Holds(d, Head(worker[d].queue), worker[d].run)'
      BY <2>1, <2>3, <2>5, <2>6 DEF Holds, Owns
    <2>8. worker'[d].step >= 1
      BY <2>5, <2>6
    <2>9. worker'[d].pc = "write" => (ops[Head(worker[d].queue)].head = worker[d].head)'
      BY <2>5, <2>6, <2>4
    <2> QED
      BY <1>1, <1>3, <2>1, <2>9, <2>2, <2>5, <2>6, <2>7, <2>8, InsideMoves DEF InCommand, InWrite
  <1> QED
    BY <1>1, <1>4, <1>5

\* The command is superseded, then its unsent writes.
LEMMA SupersedeSteps ==
    ASSUME RuntimeIInv, StoreTypeOK', NEW d \in Deliveries,
           SupersedeCommand(d) \/ SupersedeChildren(d)
    PROVE  RuntimeIInv'
  <1> DEFINE w == worker[d]
             c == Head(w.queue)
  <1>1. w.pc \in {"stale", "supersede"} /\ Local
    BY DEF SupersedeCommand, SupersedeChildren, At
  <1>2. w \in Worker /\ w.queue # <<>> /\ c \in Keys /\ Leases(d, w)
    BY <1>1, WorkerTyped, BusyAtHand DEF InCommand, Fits
  <1>3. owner' = owner /\ pump' = pump /\ WorldTyped'
    BY <1>1, LocalWorld
  <1>4. CASE SupersedeChildren(d)
    <2>1. SupersedeUnsentChildren(c) /\ Become(d, NextCommand(w, FALSE))
      BY <1>4 DEF SupersedeChildren
    <2>2. /\ \A j \in Keys : \/ ops'[j] = ops[j]
                             \/ ops[j].state = "pending" /\ ops'[j].state = "superseded"
          /\ \A j \in Keys : Later(j)
          /\ inbox' = inbox
      <3>1. StoreTypeOK /\ c \in Keys
        BY <1>2 DEF RuntimeIInv
      <3> HIDE DEF c
      <3> QED
        BY <2>1, <3>1, SupersedeRows DEF RuntimeIInv
    <2>3. Own(d)
      BY <2>2 DEF Own
    <2> QED
      BY <1>1, <1>2, <1>3, <2>1, <2>2, <2>3, CommandDone DEF InCommand
  <1>5. CASE SupersedeCommand(d)
    <2> DEFINE v == [w EXCEPT !.pc = "supersede"]
    <2>1. w.pc = "stale" /\ Finish(c, w.run, "superseded") /\ Become(d, v)
      BY <1>5 DEF SupersedeCommand, At
    <2>2. ops[c].lease = d
      BY <1>2, <2>1 DEF Leases, Holds
    <2>3. Own(d) /\ inbox' = inbox
      BY <1>2, <2>1, <2>2, FinishedRows
    <2>4. /\ v \in Worker /\ v.pc = "supersede" /\ v.lease = w.lease /\ v.todo = w.todo
          /\ v.queue = w.queue /\ v.head = w.head
      BY <1>2, ToPlace, ZenonT(60) DEF Places
    <2> HIDE DEF v
    <2>5. Alone(d) /\ worker'[d] = v
      BY <2>1, <2>4, Became
    <2> QED
      BY <1>1, <1>3, <2>3, <2>4, <2>5, InsideMoves DEF InCommand, InWrite
  <1> QED
    BY <1>4, <1>5

-----------------------------------------------------------------------------
(* The writes. *)

\* The command and the write of a worker at one of its writes.
LEMMA WritingAtHand ==
    ASSUME RuntimeIInv, NEW d \in Deliveries,
           worker[d].pc \in {"write", "lookup", "claimWrite", "mark", "http", "finish"}
    PROVE  LET w == worker[d] IN
           /\ w \in Worker /\ w.queue # <<>> /\ Head(w.queue) \in Keys /\ w.pc \in InCommand
           /\ Holds(d, Head(w.queue), w.run) /\ w.step \in Nat
           /\ w.pc # "finish" => w.step >= 1 /\ ops[Head(w.queue)].head = w.head
           /\ w.pc = "mark" => ~ops[WriteOf(w)].sent
           /\ w.pc \in {"mark", "http"} => Holds(d, WriteOf(w), w.try)
           /\ w.pc \in {"lookup", "claimWrite", "mark", "http"} =>
                 /\ WriteOf(w) \in Writes /\ WriteOf(w) \in Keys /\ WriteOf(w) # Head(w.queue)
                 /\ w.step <= Len(WritesOf[Head(w.queue)])
  <1>1. worker[d] \in Worker /\ Fits(d, worker[d]) /\ worker[d].step \in Nat
    BY WorkerTyped
  <1>2. worker[d].pc \in InCommand
    BY DEF InCommand
  <1>3. worker[d].queue # <<>> /\ Head(worker[d].queue) \in Keys
    BY <1>2, BusyAtHand
  <1>4. worker[d].pc \in InWrite => /\ WriteOf(worker[d]) \in Writes /\ WriteOf(worker[d]) \in Keys
                                    /\ WriteOf(worker[d]) # Head(worker[d].queue)
    BY InWriteAtHand
  <1> QED
    BY <1>1, <1>2, <1>3, <1>4 DEF Fits, Leases, Shape, InWrite

\* The handler turns to its next write.
LEMMA WriteDone ==
    ASSUME RuntimeIInv, StoreTypeOK', NEW d \in Deliveries, Own(d), inbox' = inbox,
           worker[d].pc \in {"write", "lookup", "claimWrite", "mark", "http"},
           NEW b \in BOOLEAN, Become(d, NextWrite(worker[d], b)),
           ops'[Head(worker[d].queue)] = ops[Head(worker[d].queue)],
           owner' = owner, pump' = pump, WorldTyped'
    PROVE  RuntimeIInv'
  <1> DEFINE w == worker[d]
             v == NextWrite(w, b)
  <1>1. /\ w \in Worker /\ w.queue # <<>> /\ w.pc \in InCommand /\ w.step \in Nat /\ w.step >= 1
        /\ Holds(d, Head(w.queue), w.run) /\ ops[Head(w.queue)].head = w.head
    BY WritingAtHand
  <1>2. /\ v \in Worker /\ v.pc = "write" /\ v.lease = w.lease /\ v.queue = w.queue
        /\ v.head = w.head /\ v.todo = w.todo /\ v.run = w.run /\ v.step = w.step + 1
    BY <1>1, ToNextWrite
  <1> HIDE DEF v
  <1>3. Become(d, v)
    BY DEF v
  <1>4. Alone(d) /\ worker'[d] = v
    BY <1>2, <1>3, Became
  <1>5. /\ Holds(d, Head(worker[d].queue), worker[d].run)'
        /\ (ops[Head(worker[d].queue)].head = worker[d].head)'
    BY <1>1, <1>2, <1>4 DEF Holds, Owns
  <1>6. worker'[d].step >= 1
    BY <1>1, <1>2, <1>4
  <1> QED
    BY <1>1, <1>2, <1>4, <1>5, <1>6, InsideMoves DEF InCommand, InWrite

\* The handler returns.
LEMMA HandlerReturnsStep ==
    ASSUME RuntimeIInv, StoreTypeOK', NEW d \in Deliveries, HandlerReturns(d)
    PROVE  RuntimeIInv'
  <1> DEFINE w == worker[d]
  <1>1. PICK s \in {"ok", "error"} : Become(d, [w EXCEPT !.pc = "finish", !.status = s])
    BY DEF HandlerReturns
  <1>2. /\ w.pc = "write" /\ UNCHANGED storeVars /\ owner' = owner /\ pump' = pump
        /\ UNCHANGED <<head, wire, applied>> /\ (Fault \/ faults' = faults)
    BY DEF HandlerReturns, At
  <1>3. /\ w \in Worker /\ w.pc \in InCommand /\ Holds(d, Head(w.queue), w.run)
        /\ ops[Head(w.queue)].head = w.head
    BY <1>2, WritingAtHand
  <1> DEFINE v == [w EXCEPT !.pc = "finish", !.status = s]
  <1>4. /\ v \in Worker /\ v.pc = "finish" /\ v.lease = w.lease /\ v.queue = w.queue
        /\ v.head = w.head /\ v.todo = w.todo /\ v.run = w.run
    BY <1>3, ToFinish
  <1> HIDE DEF v
  <1>5. Become(d, v)
    BY <1>1 DEF v
  <1>6. Alone(d) /\ worker'[d] = v
    BY <1>4, <1>5, Became
  <1>7. WorldTyped'
    <2>1. faults' = faults => WorldTyped'
      BY <1>2 DEF RuntimeIInv, RuntimeTypeOK, WorldTyped
    <2> QED
      BY <1>2, <2>1, FaultyWorld
  <1>8. Own(d) /\ inbox' = inbox /\ ops' = ops
    BY <1>2, QuietRows DEF storeVars
  <1>9. /\ Holds(d, Head(worker[d].queue), worker[d].run)'
        /\ (ops[Head(worker[d].queue)].head = worker[d].head)'
    BY <1>3, <1>4, <1>6, <1>8 DEF Holds, Owns
  <1> QED
    BY <1>2, <1>3, <1>4, <1>6, <1>7, <1>8, <1>9, InsideMoves DEF InCommand, InWrite

\* A write begins.
LEMMA BeginWriteStep ==
    ASSUME RuntimeIInv, StoreTypeOK', NEW d \in Deliveries, BeginWrite(d)
    PROVE  RuntimeIInv'
  <1> DEFINE w == worker[d]
             a == ops[WriteOf(w)].attempts
  <1>1. /\ w.pc = "write" /\ w.step <= Len(WritesOf[Head(w.queue)])
        /\ UNCHANGED storeVars /\ Local
        /\ \/ Become(d, NextWrite(w, TRUE))
           \/ Become(d, [w EXCEPT !.pc = "lookup", !.try = a])
           \/ Become(d, [w EXCEPT !.pc = "claimWrite"])
    BY DEF BeginWrite, At
  <1>2. /\ w \in Worker /\ w.queue # <<>> /\ w.pc \in InCommand /\ w.step \in Nat /\ w.step >= 1
        /\ Holds(d, Head(w.queue), w.run) /\ ops[Head(w.queue)].head = w.head
    BY <1>1, WritingAtHand
  <1>3. owner' = owner /\ pump' = pump /\ WorldTyped'
    BY <1>1, LocalWorld
  <1>4. Own(d) /\ inbox' = inbox /\ ops' = ops
    BY <1>1, QuietRows DEF storeVars
  <1>5. CASE Become(d, NextWrite(w, TRUE))
    BY <1>1, <1>3, <1>4, <1>5, WriteDone
  <1>6. CASE Become(d, [w EXCEPT !.pc = "lookup", !.try = a])
    <2> DEFINE v == [w EXCEPT !.pc = "lookup", !.try = a]
    <2>1. a \in Nat
      <3>1. WriteOf(w) \in Keys
        BY <1>1, <1>2, WriteAtHand
      <3> QED
        BY <3>1 DEF RuntimeIInv, StoreTypeOK, Operation
    <2>2. Become(d, v)
      BY <1>6
    <2> HIDE DEF a
    <2>3. /\ v \in Worker /\ v.pc = "lookup" /\ v.lease = w.lease /\ v.queue = w.queue
          /\ v.head = w.head /\ v.todo = w.todo /\ v.run = w.run /\ v.step = w.step
      <3>1. w \in Worker
        BY <1>2
      <3> QED
        BY <2>1, <3>1 DEF Worker, Places
    <2> HIDE DEF v
    <2>4. Alone(d) /\ worker'[d] = v
      BY <2>2, <2>3, Became
    <2>5. /\ Holds(d, Head(worker[d].queue), worker[d].run)'
          /\ (ops[Head(worker[d].queue)].head = worker[d].head)'
      BY <1>2, <1>4, <2>3, <2>4 DEF Holds, Owns
    <2> QED
      BY <1>1, <1>2, <1>3, <1>4, <2>3, <2>4, <2>5, InsideMoves DEF InCommand, InWrite
  <1>7. CASE Become(d, [w EXCEPT !.pc = "claimWrite"])
    <2> DEFINE v == [w EXCEPT !.pc = "claimWrite"]
    <2>1. /\ v \in Worker /\ v.pc = "claimWrite" /\ v.lease = w.lease /\ v.queue = w.queue
          /\ v.head = w.head /\ v.todo = w.todo /\ v.run = w.run /\ v.step = w.step
      BY <1>2, ToPlace, ZenonT(60) DEF Places
    <2> HIDE DEF v
    <2>2. Become(d, v)
      BY <1>7 DEF v
    <2>3. Alone(d) /\ worker'[d] = v
      BY <2>2, <2>1, Became
    <2>4. /\ Holds(d, Head(worker[d].queue), worker[d].run)'
          /\ (ops[Head(worker[d].queue)].head = worker[d].head)'
      BY <1>2, <1>4, <2>1, <2>3 DEF Holds, Owns
    <2> QED
      BY <1>1, <1>2, <1>3, <1>4, <2>1, <2>3, <2>4, InsideMoves DEF InCommand, InWrite
  <1> QED
    BY <1>1, <1>5, <1>6, <1>7

\* An uncertain write is looked up.
LEMMA ReconcileWriteStep ==
    ASSUME RuntimeIInv, StoreTypeOK', NEW d \in Deliveries, ReconcileWrite(d)
    PROVE  RuntimeIInv'
  <1> DEFINE w == worker[d]
             k == WriteOf(w)
             s == ops[k].sent
  <1>1. /\ w.pc = "lookup"
        /\ \/ /\ Reconcile(k, w.try, s) /\ Local
              /\ Become(d, [w EXCEPT !.pc = "claimWrite", !.try = 0])
           \/ ReconcileFails(k, w.try, s) /\ Become(d, NextWrite(w, TRUE))
    BY DEF ReconcileWrite, At
  <1>2. /\ w \in Worker /\ w.pc \in InCommand /\ w.step >= 1 /\ Holds(d, Head(w.queue), w.run)
        /\ ops[Head(w.queue)].head = w.head
        /\ w.step <= Len(WritesOf[Head(w.queue)]) /\ k \in Keys /\ k # Head(w.queue)
        /\ Head(w.queue) \in Keys
    BY <1>1, WritingAtHand
  <1> HIDE DEF s
  <1>3. CASE ReconcileFails(k, w.try, s) /\ Become(d, NextWrite(w, TRUE))
    <2>1. Own(d) /\ inbox' = inbox /\ ops' = ops /\ owner' = owner /\ pump' = pump /\ WorldTyped'
      BY <1>3, FailsRows
    <2> QED
      BY <1>1, <1>3, <2>1, WriteDone
  <1>4. CASE Reconcile(k, w.try, s) /\ Local /\ Become(d, [w EXCEPT !.pc = "claimWrite", !.try = 0])
    <2> DEFINE v == [w EXCEPT !.pc = "claimWrite", !.try = 0]
    <2>1. Own(d) /\ inbox' = inbox /\ ops'[Head(w.queue)] = ops[Head(w.queue)]
      BY <1>2, <1>4, ReconciledRows
    <2>2. /\ v \in Worker /\ v.pc = "claimWrite" /\ v.lease = w.lease /\ v.queue = w.queue
          /\ v.head = w.head /\ v.todo = w.todo /\ v.run = w.run /\ v.step = w.step
      <3>1. w \in Worker
        BY <1>2
      <3> QED
        BY <3>1 DEF Worker, Places
    <2> HIDE DEF v
    <2>3. Become(d, v)
      BY <1>4 DEF v
    <2>4. Alone(d) /\ worker'[d] = v
      BY <2>2, <2>3, Became
    <2>5. /\ Holds(d, Head(worker[d].queue), worker[d].run)'
          /\ (ops[Head(worker[d].queue)].head = worker[d].head)'
      BY <1>2, <2>1, <2>2, <2>4 DEF Holds, Owns
    <2>6. owner' = owner /\ pump' = pump /\ WorldTyped'
      BY <1>4, LocalWorld
    <2> QED
      BY <1>2, <2>1, <2>2, <2>4, <2>5, <2>6, InsideMoves DEF InCommand, InWrite
  <1> QED
    BY <1>1, <1>3, <1>4

\* The write is claimed.
LEMMA ClaimWriteStep ==
    ASSUME RuntimeIInv, StoreTypeOK', NEW d \in Deliveries, ClaimWrite(d)
    PROVE  RuntimeIInv'
  <1> DEFINE w == worker[d]
             k == WriteOf(w)
             a == ops'[k].attempts
             b == ops[k].state \notin {"succeeded", "failed"}
  <1>1. /\ w.pc = "claimWrite" /\ Local
        /\ \/ Claim(k, d, w.head) /\ Become(d, [w EXCEPT !.pc = "mark", !.try = a])
           \/ Become(d, NextWrite(w, b)) /\ UNCHANGED storeVars
    BY DEF ClaimWrite, At
  <1>2. /\ w \in Worker /\ w.pc \in InCommand /\ w.step >= 1 /\ Holds(d, Head(w.queue), w.run)
        /\ ops[Head(w.queue)].head = w.head
        /\ w.step <= Len(WritesOf[Head(w.queue)]) /\ k \in Keys /\ k # Head(w.queue)
        /\ Head(w.queue) \in Keys
    BY <1>1, WritingAtHand
  <1>3. owner' = owner /\ pump' = pump /\ WorldTyped'
    BY <1>1, LocalWorld
  <1>4. CASE Become(d, NextWrite(w, b)) /\ UNCHANGED storeVars
    <2>1. Own(d) /\ inbox' = inbox /\ ops' = ops
      BY <1>4, QuietRows DEF storeVars
    <2> QED
      BY <1>1, <1>3, <1>4, <2>1, WriteDone
  <1>5. CASE Claim(k, d, w.head) /\ Become(d, [w EXCEPT !.pc = "mark", !.try = a])
    <2> DEFINE v == [w EXCEPT !.pc = "mark", !.try = a]
    <2>1. /\ Own(d) /\ inbox' = inbox /\ ops'[Head(w.queue)] = ops[Head(w.queue)]
          /\ ops'[k].state = "running" /\ ops'[k].lease = d /\ ~ops'[k].sent
      BY <1>2, <1>5, ClaimedRows
    <2>2. a \in Nat /\ a = ops'[k].attempts
      BY <1>2 DEF StoreTypeOK, Operation
    <2>3. Become(d, v)
      BY <1>5
    <2> HIDE DEF a
    <2>4. /\ v \in Worker /\ v.pc = "mark" /\ v.lease = w.lease /\ v.queue = w.queue /\ v.try = a
          /\ v.head = w.head /\ v.todo = w.todo /\ v.run = w.run /\ v.step = w.step
      <3>1. w \in Worker
        BY <1>2
      <3> QED
        BY <2>2, <3>1 DEF Worker, Places
    <2> HIDE DEF v
    <2>5. Alone(d) /\ worker'[d] = v
      BY <2>3, <2>4, Became
    <2>6. /\ Holds(d, Head(worker[d].queue), worker[d].run)'
          /\ (ops[Head(worker[d].queue)].head = worker[d].head)'
      BY <1>2, <2>1, <2>4, <2>5 DEF Holds, Owns
    <2>7. Holds(d, WriteOf(worker[d]), worker[d].try)' /\ (~ops[WriteOf(worker[d])].sent)'
      BY <2>1, <2>2, <2>4, <2>5 DEF Holds, Owns, WriteOf
    <2> QED
      BY <1>2, <1>3, <2>1, <2>4, <2>5, <2>6, <2>7, InsideMoves DEF InCommand, InWrite
  <1> QED
    BY <1>1, <1>4, <1>5

\* The send mark is committed and the request leaves.
LEMMA SendStep ==
    ASSUME RuntimeIInv, StoreTypeOK', NEW d \in Deliveries, Send(d)
    PROVE  RuntimeIInv'
  <1> DEFINE w == worker[d]
             k == WriteOf(w)
             v == [w EXCEPT !.pc = "http"]
             r == [key |-> k, attempt |-> w.try, fate |-> "flying"]
  <1>1. /\ w.pc = "mark" /\ MarkSent(k, w.try) /\ wire' = wire \cup {r} /\ Become(d, v)
        /\ UNCHANGED <<owner, pump, head, applied, faults>>
    BY DEF Send, At
  <1>2. /\ w \in Worker /\ w.pc \in InCommand /\ w.step >= 1 /\ Holds(d, Head(w.queue), w.run)
        /\ ops[Head(w.queue)].head = w.head
        /\ w.step <= Len(WritesOf[Head(w.queue)]) /\ k \in Keys /\ k # Head(w.queue)
        /\ k \in Writes /\ Holds(d, k, w.try) /\ Head(w.queue) \in Keys
    BY <1>1, WritingAtHand
  <1>3. r \in Request
    BY <1>2 DEF Request, Worker
  <1>4. WorldTyped'
    BY <1>1, <1>3 DEF RuntimeIInv, RuntimeTypeOK, WorldTyped
  <1>5. /\ v \in Worker /\ v.pc = "http" /\ v.lease = w.lease /\ v.queue = w.queue /\ v.try = w.try
        /\ v.head = w.head /\ v.todo = w.todo /\ v.run = w.run /\ v.step = w.step
    BY <1>2, ToPlace, ZenonT(60) DEF Places
  <1> HIDE DEF v, r
  <1>6. Alone(d) /\ worker'[d] = v
    BY <1>1, <1>5, Became
  <1>7. /\ ops'[k].state = "running" /\ Same(k) /\ ops'[Head(w.queue)] = ops[Head(w.queue)]
        /\ \A j \in Keys \ {k} : ops'[j] = ops[j]
        /\ \A j \in Keys : Later(j)
        /\ inbox' = inbox
    BY <1>1, <1>2, MarkRows DEF RuntimeIInv
  <1>8. Own(d)
    BY <1>2, <1>7, OwnRow DEF Holds, Same
  <1>9. /\ Holds(d, Head(worker[d].queue), worker[d].run)'
        /\ (ops[Head(worker[d].queue)].head = worker[d].head)'
    BY <1>2, <1>5, <1>6, <1>7 DEF Holds, Owns
  <1>10. Holds(d, WriteOf(worker[d]), worker[d].try)'
    BY <1>2, <1>5, <1>6, <1>7 DEF Holds, Owns, WriteOf, Same
  <1> QED
    BY <1>1, <1>2, <1>4, <1>5, <1>6, <1>7, <1>8, <1>9, <1>10, InsideMoves DEF InCommand, InWrite

\* The answer, or its absence, is recorded.
LEMMA ReadAnswerStep ==
    ASSUME RuntimeIInv, StoreTypeOK', NEW d \in Deliveries, ReadAnswer(d)
    PROVE  RuntimeIInv'
  <1> DEFINE w == worker[d]
             k == WriteOf(w)
  <1>1. /\ w.pc = "http" /\ wire' \subseteq wire /\ UNCHANGED <<owner, pump, head, applied>>
        /\ Fault \/ faults' = faults
        /\ \E b \in BOOLEAN : Become(d, NextWrite(w, b))
        /\ \E s : Finish(k, w.try, s)
    BY DEF ReadAnswer, At
  <1>2. k \in Keys /\ k # Head(w.queue) /\ ops[k].lease = d /\ Head(w.queue) \in Keys
    BY <1>1, WritingAtHand DEF Holds
  <1>3. Own(d) /\ inbox' = inbox /\ ops'[Head(w.queue)] = ops[Head(w.queue)]
    BY <1>1, <1>2, FinishedRows
  <1>4. WorldTyped'
    <2>1. wire' \subseteq Request /\ head' \in Heads /\ applied' \in [Writes -> 0..MaxEffects]
      BY <1>1 DEF RuntimeIInv, RuntimeTypeOK
    <2>2. faults' \in 0..MaxFaults
      BY <1>1, RuntimeAssumption DEF RuntimeIInv, RuntimeTypeOK, Fault
    <2> QED
      BY <2>1, <2>2 DEF WorldTyped
  <1> QED
    BY <1>1, <1>3, <1>4, WriteDone

\* The command gets its receipt.
LEMMA FinishCommandStep ==
    ASSUME RuntimeIInv, StoreTypeOK', NEW d \in Deliveries, FinishCommand(d)
    PROVE  RuntimeIInv'
  <1> DEFINE w == worker[d]
             c == Head(w.queue)
  <1>1. /\ w.pc = "finish" /\ (\E s : Finish(c, w.run, s)) /\ Become(d, NextCommand(w, FALSE))
        /\ Local
    BY DEF FinishCommand, At
  <1>2. c \in Keys /\ ops[c].lease = d /\ w.queue # <<>> /\ w.pc \in InCommand
    BY <1>1, WritingAtHand DEF Holds
  <1>3. Own(d) /\ inbox' = inbox
    BY <1>1, <1>2, FinishedRows
  <1> QED
    BY <1>1, <1>2, <1>3, LocalWorld, CommandDone

\* The comment ends, or its worker is interrupted.
LEMMA EndSteps ==
    ASSUME RuntimeIInv, StoreTypeOK', NEW d \in Deliveries, EndComment(d) \/ Interrupt(d)
    PROVE  RuntimeIInv'
  <1> DEFINE w == worker[d]
  <1>1. PICK b \in BOOLEAN :
            Become(d, [IdleWorker EXCEPT !.pc = "settle", !.lease = w.lease, !.problem = b])
    <2> DEFINE o == w.outer \/ Unresolved(d)
    <2>1. o \in BOOLEAN
      BY WorkerTyped DEF Worker
    <2>2. ASSUME EndComment(d)
          PROVE  Become(d, [IdleWorker EXCEPT !.pc = "settle", !.lease = w.lease, !.problem = o])
      BY <2>2 DEF EndComment
    <2> HIDE DEF o
    <2>3. Interrupt(d) => Become(d, [IdleWorker EXCEPT !.pc = "settle", !.lease = w.lease,
                                                       !.problem = TRUE])
      BY DEF Interrupt
    <2> QED
      BY <2>1, <2>2, <2>3
  <1>2. w.pc # "idle" /\ UNCHANGED storeVars /\ owner' = owner /\ pump' = pump
    BY DEF EndComment, Interrupt, Local, At
  <1>3. WorldTyped'
    BY LocalWorld, FaultyWorld DEF EndComment, Interrupt
  <1> DEFINE v == [IdleWorker EXCEPT !.pc = "settle", !.lease = w.lease, !.problem = b]
  <1>4. v \in Worker /\ v.pc = "settle" /\ v.lease = w.lease /\ v.todo = {}
    <2>1. w.lease \in Nat /\ b \in BOOLEAN
      BY WorkerTyped
    <2> QED
      BY <2>1, ToEnd, ZenonT(60)
  <1> HIDE DEF v
  <1>5. Become(d, v)
    BY <1>1 DEF v
  <1>6. Alone(d) /\ worker'[d] = v
    BY <1>4, <1>5, Became
  <1>7. Own(d) /\ inbox' = inbox
    BY <1>2, QuietRows
  <1> QED
    BY <1>2, <1>3, <1>4, <1>6, <1>7, OutsideMoves

\* A store call fails.
LEMMA StoreFailsStep ==
    ASSUME RuntimeIInv, StoreTypeOK', NEW d \in Deliveries, StoreFails(d)
    PROVE  RuntimeIInv'
  <1>1. /\ UNCHANGED storeVars /\ owner' = owner /\ pump' = pump
        /\ \/ /\ worker[d].pc \in {"claim", "stale", "supersede", "finish"}
              /\ Become(d, NextCommand(worker[d], TRUE))
           \/ worker[d].pc \in {"claimWrite", "mark", "http"} /\ Become(d, NextWrite(worker[d], TRUE))
    BY DEF StoreFails
  <1>2. WorldTyped'
    BY FaultyWorld DEF StoreFails
  <1>3. Own(d) /\ inbox' = inbox /\ ops' = ops
    BY <1>1, QuietRows DEF storeVars
  <1>4. CASE /\ worker[d].pc \in {"claim", "stale", "supersede", "finish"}
             /\ Become(d, NextCommand(worker[d], TRUE))
    <2>1. worker[d].pc \in InCommand
      BY <1>4 DEF InCommand
    <2>2. worker[d].queue # <<>>
      BY <2>1, BusyAtHand
    <2> QED
      BY <1>1, <1>2, <1>3, <1>4, <2>1, <2>2, CommandDone
  <1>5. CASE worker[d].pc \in {"claimWrite", "mark", "http"} /\ Become(d, NextWrite(worker[d], TRUE))
    BY <1>1, <1>2, <1>3, <1>5, WriteDone
  <1> QED
    BY <1>1, <1>4, <1>5

-----------------------------------------------------------------------------
(* The end and the start of a delivery. *)

\* The rows of the delivery are fenced.
LEMMA SettleStep ==
    ASSUME RuntimeIInv, StoreTypeOK', NEW d \in Deliveries, Settle(d)
    PROVE  RuntimeIInv'
  <1> DEFINE w == worker[d]
             b == ops' # ops
             v == [w EXCEPT !.pc = "release", !.problem = @ \/ b]
             S == {k \in Keys : ops[k].lease = d}
  <1>1. /\ w.pc = "settle" /\ RecoverDelivery(d) /\ Become(d, v) /\ Local /\ b \in BOOLEAN
        /\ inbox' = inbox
    BY DEF Settle, At, RecoverDelivery
  <1>2. w \in Worker /\ Leases(d, w) /\ StoreTypeOK
    BY WorkerTyped DEF Fits, RuntimeIInv
  <1>3. ops' = [k \in Keys |-> IF ops[k].state = "running" /\ k \in S
                  THEN [ops[k] EXCEPT !.state = "unknown"] ELSE ops[k]]
    BY <1>1 DEF RecoverDelivery
  <1>4. /\ \A j \in Keys : \/ ops'[j] = ops[j] /\ ~(ops[j].state = "running" /\ ops[j].lease = d)
                           \/ ops[j].lease = d /\ ops'[j].state = "unknown"
        /\ \A j \in Keys : Later(j)
    <2> HIDE DEF S
    <2>1. /\ \A j \in Keys : \/ ops'[j] = ops[j] /\ ~(ops[j].state = "running" /\ j \in S)
                             \/ j \in S /\ ops'[j].state = "unknown"
          /\ \A j \in Keys : Later(j)
      BY <1>2, <1>3, RecoverRows
    <2> QED
      BY <2>1 DEF S
  <1>5. Own(d)
    BY <1>4 DEF Own
  <1> HIDE DEF b
  <1>6. v \in Worker /\ v.pc = "release" /\ v.lease = w.lease /\ v.todo = w.todo
    <2>1. w \in Worker
      BY <1>2
    <2> QED
      BY <1>1, <2>1, ToRelease
  <1> HIDE DEF v
  <1>7. Alone(d) /\ worker'[d] = v
    BY <1>1, <1>6, Became
  <1>8. Seen(worker[d])'
    BY <1>5, <1>6, <1>7, SeenLess
  <1>9. Fits(d, worker[d])'
    <2>1. \A k \in Keys : ~(ops'[k].state = "running" /\ ops'[k].lease = d)
      BY <1>4
    <2> QED
      BY <1>1, <1>2, <1>6, <1>7, <1>8, <2>1 DEF Fits, Shape, Leases, InCommand, InWrite
  <1> QED
    BY <1>1, <1>5, <1>6, <1>7, <1>9, LocalWorld, WorkerMoves

\* What the release of an envelope does to it.
LEMMA FinishInboxRows ==
    ASSUME StoreTypeOK, NEW d \in Deliveries, NEW a, NEW p \in BOOLEAN, FinishInbox(d, a, p)
    PROVE  /\ inbox'[d].state \in {"pending", "succeeded"}
           /\ inbox'[d].attempts = inbox[d].attempts
           /\ \A e \in Deliveries \ {d} : inbox'[e] = inbox[e]
           /\ ops' = ops
  <1> DEFINE s == IF p THEN "pending" ELSE "succeeded"
             u == ~p
             r == [inbox[d] EXCEPT !.state = s, !.due = u]
  <1>1. inbox' = [inbox EXCEPT ![d] = r] /\ ops' = ops
    BY DEF FinishInbox
  <1>2. s \in {"pending", "succeeded"} /\ u \in BOOLEAN
    OBVIOUS
  <1>3. inbox \in [Deliveries -> Envelope]
    BY DEF StoreTypeOK
  <1> HIDE DEF s, u
  <1>4. r.state = s /\ r.attempts = inbox[d].attempts
    BY <1>3 DEF Envelope
  <1> HIDE DEF r
  <1> QED
    BY <1>1, <1>2, <1>3, <1>4

\* A worker becomes idle.
LEMMA WorkerEnds ==
    ASSUME RuntimeIInv, StoreTypeOK', NEW d \in Deliveries, worker[d].pc # "idle",
           Become(d, IdleWorker), ops' = ops, \A e \in Deliveries \ {d} : inbox'[e] = inbox[e],
           WorldTyped', owner' = owner, pump' \in {pump, "draining"}
    PROVE  /\ RuntimeTypeOK' /\ Process' /\ Active' = Active \ {d}
           /\ \A e \in Deliveries : Fits(e, worker[e])'
  <1>1. IdleWorker \in Worker /\ IdleWorker.pc = "idle" /\ IdleWorker.todo = {}
    BY IdleFields
  <1>2. Alone(d) /\ worker'[d] = IdleWorker
    BY <1>1, Became
  <1>3. StoreTypeOK /\ RuntimeTypeOK /\ Process
    BY DEF RuntimeIInv
  <1>4. RuntimeTypeOK'
    BY <1>2, <1>3 DEF RuntimeTypeOK, WorldTyped, Alone
  <1>5. Active' = Active \ {d} /\ d \in Active
    BY <1>1, <1>2 DEF Active, Alone
  <1>6. Process'
    BY <1>3, <1>5 DEF Process, RuntimeTypeOK
  <1>7. Own(d)
    BY <1>3, LaterSame DEF Own
  <1>8. Fits(d, worker[d])'
    BY <1>1, <1>2 DEF Fits, Shape, Seen, Leases, InCommand, InWrite
  <1>9. \A e \in Deliveries \ {d} : Fits(e, worker[e])'
    BY <1>2, <1>7, OtherFits DEF Alone
  <1> QED
    BY <1>4, <1>5, <1>6, <1>8, <1>9

\* The envelope is released.
LEMMA ReleaseStep ==
    ASSUME RuntimeIInv, StoreTypeOK', NEW d \in Deliveries, Release(d)
    PROVE  RuntimeIInv'
  <1>1. /\ worker[d].pc = "release" /\ FinishInbox(d, worker[d].lease, worker[d].problem)
        /\ Become(d, IdleWorker) /\ Local
    BY DEF Release, At
  <1>2. StoreTypeOK /\ Tended /\ Counted /\ Leases(d, worker[d]) /\ worker[d].problem \in BOOLEAN
    BY WorkerTyped DEF RuntimeIInv, Fits, Worker
  <1>3. /\ inbox'[d].state \in {"pending", "succeeded"}
        /\ inbox'[d].attempts = inbox[d].attempts
        /\ \A e \in Deliveries \ {d} : inbox'[e] = inbox[e]
        /\ ops' = ops
    BY <1>1, <1>2, FinishInboxRows
  <1>4. owner' = owner /\ pump' = pump /\ WorldTyped'
    BY <1>1, LocalWorld
  <1>5. /\ RuntimeTypeOK' /\ Process' /\ Active' = Active \ {d}
        /\ \A e \in Deliveries : Fits(e, worker[e])'
    BY <1>1, <1>3, <1>4, WorkerEnds
  <1>6. Tended'
    BY <1>1, <1>2, <1>3, <1>4, <1>5 DEF Tended, Leases
  <1>7. Counted'
    BY <1>2, <1>3 DEF Counted
  <1> QED
    BY <1>5, <1>6, <1>7 DEF RuntimeIInv

\* A bookkeeping error drains the pump.
LEMMA BookkeepingFailsStep ==
    ASSUME RuntimeIInv, StoreTypeOK', NEW d \in Deliveries, BookkeepingFails(d)
    PROVE  RuntimeIInv'
  <1>1. /\ worker[d].pc # "idle" /\ Become(d, IdleWorker) /\ UNCHANGED <<storeVars, owner>>
        /\ pump' = "draining"
    BY DEF BookkeepingFails
  <1>2. ops' = ops /\ inbox' = inbox /\ owner' = owner
    BY <1>1 DEF storeVars
  <1>3. WorldTyped'
    BY FaultyWorld DEF BookkeepingFails
  <1>4. RuntimeTypeOK' /\ Process' /\ \A e \in Deliveries : Fits(e, worker[e])'
    BY <1>1, <1>2, <1>3, WorkerEnds
  <1>5. Tended'
    BY <1>1 DEF Tended
  <1>6. Counted'
    BY <1>2 DEF Counted, RuntimeIInv
  <1> QED
    BY <1>4, <1>5, <1>6 DEF RuntimeIInv

\* The commands of a comment are commands.
LEMMA CommandsAreCommands ==
    ASSUME NEW d \in Deliveries
    PROVE  CommandsOf[d] \in Seq(CommandKeys)
  <1>1. /\ CommandsOf[d] \in Seq(Keys)
        /\ \A i \in DOMAIN CommandsOf[d] : KindOf[CommandsOf[d][i]] = "command"
    BY RuntimeAssumption
  <1> DEFINE s == CommandsOf[d]
             n == Len(s)
  <1> HIDE DEF s
  <1>2. n \in Nat /\ s \in [1..n -> Keys] /\ \A i \in DOMAIN s : KindOf[s[i]] = "command"
    BY <1>1 DEF s
  <1> HIDE DEF n
  <1>3. s \in [1..n -> CommandKeys]
    BY <1>2 DEF CommandKeys
  <1>4. s \in Seq(CommandKeys)
    BY <1>2, <1>3, SeqDef
  <1> QED
    BY <1>4 DEF s

\* The pump claims an envelope.
LEMMA StartWorkerStep ==
    ASSUME RuntimeIInv, StoreTypeOK', NEW d \in Deliveries, StartWorker(d)
    PROVE  RuntimeIInv'
  <1> DEFINE n == IF inbox[d].attempts < MaxLeases THEN inbox[d].attempts + 1 ELSE MaxLeases
             r == [state |-> "running", due |-> TRUE, attempts |-> n]
             a == inbox'[d].attempts
             g == CommandsOf[d]
             v == [IdleWorker EXCEPT !.pc = "gate", !.lease = a, !.gate = g]
  <1>1. /\ pump = "on" /\ inbox[d].state = "pending" /\ ops' = ops
        /\ inbox' = [inbox EXCEPT ![d] = r] /\ Become(d, v) /\ Local
    BY DEF StartWorker, ClaimInbox
  <1>2. /\ StoreTypeOK /\ RuntimeTypeOK /\ Process /\ Tended /\ Counted
        /\ inbox \in [Deliveries -> Envelope]
    BY DEF RuntimeIInv, StoreTypeOK
  <1>3. n \in Nat /\ n >= 1 /\ n <= MaxLeases
    <2>1. inbox[d].attempts \in Nat /\ inbox[d].attempts <= MaxLeases
      BY <1>2 DEF Counted, Envelope
    <2> QED
      BY <2>1, BoundAssumption, RuntimeAssumption
  <1>4. r.state = "running" /\ r.attempts = n
    BY Zenon
  <1> HIDE DEF r, n
  <1>5. /\ inbox'[d].state = "running" /\ a = n
        /\ \A e \in Deliveries \ {d} : inbox'[e] = inbox[e]
    BY <1>1, <1>2, <1>4
  <1>6. worker[d].pc = "idle"
    BY <1>1, WorkerTyped DEF Fits, Leases
  <1>7. a \in Nat /\ a = inbox'[d].attempts /\ g \in Seq(CommandKeys)
    BY <1>3, <1>5, CommandsAreCommands
  <1>8. Become(d, v)
    BY <1>1
  <1> HIDE DEF a, g
  <1>9. v \in Worker /\ v.pc = "gate" /\ v.lease = a /\ v.todo = {}
    <2>1. IdleWorker \in Worker /\ IdleWorker.todo = {}
      BY IdleFields
    <2> QED
      BY <1>7, <2>1 DEF Worker, Places
  <1> HIDE DEF v
  <1>10. Alone(d) /\ worker'[d] = v
    BY <1>8, <1>9, Became
  <1>11. owner' = owner /\ pump' = pump /\ WorldTyped'
    BY <1>1, LocalWorld
  <1>12. RuntimeTypeOK'
    BY <1>2, <1>10, <1>11 DEF RuntimeTypeOK, WorldTyped, Alone
  <1>13. Active' = Active \cup {d}
    BY <1>9, <1>10 DEF Active, Alone
  <1>14. Process' /\ Tended'
    BY <1>1, <1>2, <1>5, <1>11, <1>13 DEF Process, Tended
  <1>15. Counted'
    BY <1>1, <1>2, <1>3, <1>5, <1>7 DEF Counted
  <1>16. Own(d)
    BY <1>1, <1>2, LaterSame DEF Own
  <1>17. \A e \in Deliveries \ {d} : Fits(e, worker[e])'
    BY <1>5, <1>10, <1>16, OtherFits DEF Alone
  <1>18. Fits(d, worker[d])'
    BY <1>5, <1>7, <1>9, <1>10 DEF Fits, Shape, Seen, Leases, InCommand, InWrite
  <1> QED
    BY <1>12, <1>14, <1>15, <1>17, <1>18 DEF RuntimeIInv

-----------------------------------------------------------------------------
(* The process, GitHub and the operator. *)

\* No worker moves and no row a worker holds changes.
LEMMA StillMoves ==
    ASSUME RuntimeIInv, StoreTypeOK', worker' = worker, WorldTyped',
           \A k \in Keys : /\ ops'[k].state = ops[k].state /\ ops'[k].sent = ops[k].sent
                           /\ ops'[k].attempts = ops[k].attempts /\ ops'[k].lease = ops[k].lease
                           /\ ops'[k].head = ops[k].head,
           \A d \in Deliveries :
              /\ inbox'[d].state = "running" <=> inbox[d].state = "running"
              /\ inbox[d].state = "running" => inbox'[d].attempts = inbox[d].attempts
              /\ inbox'[d].attempts <= MaxLeases,
           owner' \in {"none", "server", "cli"},
           pump' \in {"off", "resuming", "on", "draining"}, Process',
           pump' \in {"resuming", "on"} => pump \in {"resuming", "on"}
    PROVE  RuntimeIInv'
  <1>1. StoreTypeOK /\ RuntimeTypeOK /\ Tended /\ Counted
    BY DEF RuntimeIInv
  <1>2. RuntimeTypeOK'
    BY <1>1 DEF RuntimeTypeOK, WorldTyped
  <1>3. Active' = Active
    BY DEF Active
  <1>4. Tended'
    BY <1>1, <1>3 DEF Tended
  <1>5. Counted'
    BY <1>1 DEF Counted
  <1>6. \A k \in Keys : Later(k)
    <2> TAKE k \in Keys
    <2>1. ops[k].attempts \in Nat
      BY <1>1 DEF StoreTypeOK, Operation
    <2> QED
      BY <2>1 DEF Later
  <1>7. ASSUME NEW e \in Deliveries
        PROVE  Fits(e, worker[e])'
    <2> DEFINE w == worker[e]
    <2>1. w \in Worker /\ Shape(w) /\ Seen(w) /\ Leases(e, w)
      BY <1>7, WorkerTyped DEF Fits
    <2>2. \A v \in Worker : Seen(v) => Seen(v)'
      BY <1>1, <1>6, SeenKept
    <2>3. Seen(worker[e])'
      BY <2>1, <2>2 DEF Seen
    <2>4. \A k \in Keys : /\ ops'[k].state = ops[k].state /\ ops'[k].sent = ops[k].sent
                          /\ ops'[k].attempts = ops[k].attempts /\ ops'[k].lease = ops[k].lease
                          /\ ops'[k].head = ops[k].head
      OBVIOUS
    <2>5. /\ w.pc \in {"write", "lookup", "claimWrite", "mark", "http", "finish", "stale"} =>
                Holds(e, Head(worker[e].queue), worker[e].run)'
          /\ w.pc \in {"write", "lookup", "claimWrite", "mark", "http"} =>
                (ops[Head(worker[e].queue)].head = worker[e].head)'
      <3>1. w.pc \in InCommand => Head(w.queue) \in Keys
        BY <1>7, BusyAtHand
      <3> DEFINE c == Head(w.queue)
      <3> HIDE DEF c
      <3>2. CASE w.pc \in {"write", "lookup", "claimWrite", "mark", "http", "finish", "stale"}
        <4>1. c \in Keys
          BY <3>1, <3>2 DEF InCommand, c
        <4>2. Holds(e, Head(w.queue), w.run)
          BY <2>1, <3>2 DEF Leases
        <4>3. /\ ops'[c].state = ops[c].state /\ ops'[c].attempts = ops[c].attempts
              /\ ops'[c].lease = ops[c].lease /\ ops'[c].head = ops[c].head
          BY <2>4, <4>1
        <4> QED
          BY <2>1, <4>2, <4>3 DEF Leases, Holds, Owns, c
      <3> QED
        BY <3>2
    <2>6. /\ w.pc \in {"mark", "http"} => Holds(e, WriteOf(worker[e]), worker[e].try)'
          /\ w.pc = "mark" => (~ops[WriteOf(worker[e])].sent)'
      <3> SUFFICES ASSUME w.pc \in {"mark", "http"}
                   PROVE  /\ Holds(e, WriteOf(worker[e]), worker[e].try)'
                          /\ w.pc = "mark" => (~ops[WriteOf(worker[e])].sent)'
        OBVIOUS
      <3>1. WriteOf(w) \in Keys
        BY <1>7, InWriteAtHand DEF InWrite
      <3>2. Holds(e, WriteOf(w), w.try)
        BY <2>1 DEF Leases
      <3>3. WriteOf(worker[e])' = WriteOf(w)
        BY DEF WriteOf
      <3> QED
        BY <2>1, <2>4, <3>1, <3>2, <3>3 DEF Leases, Holds, Owns
    <2>7. w.pc = "release" => \A k \in Keys : ~(ops'[k].state = "running" /\ ops'[k].lease = e)
      BY <2>1 DEF Leases
    <2>8. w.pc # "idle" => inbox'[e].state = "running" /\ inbox'[e].attempts = w.lease
      BY <1>7, <2>1 DEF Leases
    <2>9. Leases(e, worker[e])'
      BY <2>5, <2>6, <2>7, <2>8 DEF Leases
    <2>10. Shape(worker[e])'
      BY <2>1 DEF Shape
    <2> QED
      BY <2>3, <2>9, <2>10 DEF Fits
  <1> QED
    BY <1>2, <1>4, <1>5, <1>7 DEF RuntimeIInv

\* No worker runs.
Resting ==
    /\ worker' \in [Deliveries -> Worker]
    /\ \A d \in Deliveries :
          /\ worker'[d].pc = "idle"
          /\ worker'[d] = worker[d] \/ worker'[d].todo = {}

\* All workers are idle then.
LEMMA Rest ==
    ASSUME RuntimeTypeOK, Active = {}, worker' = worker
    PROVE  Resting
  BY DEF RuntimeTypeOK, Active, Resting

\* A step after which no worker runs keeps the invariant.
LEMMA RestMoves ==
    ASSUME RuntimeIInv, StoreTypeOK', WorldTyped', \A k \in Keys : Later(k),
           Resting,
           owner' \in {"none", "server", "cli"}, pump' \in {"off", "resuming"},
           owner' # "server" => pump' = "off",
           pump' = "off" \/ /\ \A k \in Keys : ops'[k].state # "running"
                            /\ \A d \in Deliveries : inbox'[d].state # "running",
           \A d \in Deliveries :
              /\ inbox'[d].attempts = inbox[d].attempts
              /\ inbox'[d].state = "running" => inbox[d].state = "running"
    PROVE  RuntimeIInv'
  <1>1. StoreTypeOK /\ RuntimeTypeOK /\ Counted
    BY DEF RuntimeIInv
  <1>2. RuntimeTypeOK'
    BY DEF RuntimeTypeOK, WorldTyped, Resting
  <1>3. worker' \in [Deliveries -> Worker] /\ \A d \in Deliveries : worker'[d].pc = "idle"
    BY DEF Resting
  <1>4. Active' = {}
    BY <1>3 DEF Active
  <1>5. Process' /\ Tended'
    BY <1>4 DEF Process, Tended
  <1>6. Counted'
    BY <1>1, CountedKept DEF Counted
  <1>7. ASSUME NEW e \in Deliveries
        PROVE  Fits(e, worker[e])'
    <2>1. worker[e] \in Worker /\ Seen(worker[e])
      BY <1>7, WorkerTyped DEF Fits
    <2>2. \A v \in Worker : Seen(v) => Seen(v)'
      BY <1>1, SeenKept
    <2>3. worker'[e].pc = "idle" /\ (worker'[e] = worker[e] \/ worker'[e].todo = {})
      BY <1>7 DEF Resting
    <2>4. Seen(worker[e])'
      BY <2>1, <2>2, <2>3 DEF Seen
    <2>5. worker'[e].pc = "idle"
      BY <1>3, <1>7
    <2> QED
      BY <2>4, <2>5 DEF Fits, Shape, Leases, InCommand, InWrite
  <1> QED
    BY <1>2, <1>5, <1>6, <1>7 DEF RuntimeIInv

\* An inbox that does not change.
LEMMA SteadyInbox ==
    ASSUME RuntimeIInv, NEW d \in Deliveries
    PROVE  inbox[d].attempts \in Nat /\ inbox[d].attempts <= MaxLeases
  BY DEF RuntimeIInv, Counted, StoreTypeOK, Envelope

\* The operations on the inbox take no running envelope.
LEMMA InboxSteps ==
    ASSUME RuntimeIInv,
           \/ \E d \in Deliveries : Enqueue(d) \/ InboxDue(d)
           \/ \E old \in SUBSET Deliveries : CleanupInbox(old)
           \/ ResumeInbox
    PROVE  /\ ops' = ops
           /\ \A d \in Deliveries :
                /\ inbox'[d].state = "running" <=> inbox[d].state = "running"
                /\ inbox[d].state = "running" => inbox'[d].attempts = inbox[d].attempts
                /\ inbox'[d].attempts <= MaxLeases
  <1>1. inbox \in [Deliveries -> Envelope]
    BY DEF RuntimeIInv, StoreTypeOK
  <1>2. NoEnvelope.state = "absent" /\ NoEnvelope.attempts = 0 /\ 0 <= MaxLeases
        /\ NoEnvelope \in Envelope
    BY BoundAssumption, Zenon, SMT DEF NoEnvelope, Envelope, InboxStates
  <1>3. ASSUME NEW d \in Deliveries, Enqueue(d)
        PROVE  /\ inbox[d].state = "absent" /\ inbox'[d].state = "pending"
               /\ inbox'[d].attempts = 0 /\ \A e \in Deliveries \ {d} : inbox'[e] = inbox[e]
               /\ ops' = ops
    <2> DEFINE r == [NoEnvelope EXCEPT !.state = "pending"]
    <2>1. r.state = "pending" /\ r.attempts = 0
      BY <1>2 DEF Envelope
    <2>2. inbox' = [inbox EXCEPT ![d] = r] /\ inbox[d].state = "absent" /\ ops' = ops
      BY <1>3 DEF Enqueue
    <2> HIDE DEF r
    <2> QED
      BY <1>1, <2>1, <2>2
  <1>4. CASE \E d \in Deliveries : Enqueue(d)
    BY <1>2, <1>3, <1>4, SteadyInbox
  <1>5. CASE \E d \in Deliveries : InboxDue(d)
    <2>1. PICK d \in Deliveries : inbox' = [inbox EXCEPT ![d].due = TRUE] /\ ops' = ops
      BY <1>5 DEF InboxDue
    <2>2. \A e \in Deliveries : /\ inbox'[e].state = inbox[e].state
                                /\ inbox'[e].attempts = inbox[e].attempts
      BY <1>1, <2>1 DEF Envelope
    <2> QED
      BY <2>1, <2>2, SteadyInbox
  <1>6. CASE \E old \in SUBSET Deliveries : CleanupInbox(old)
    <2>1. PICK old \in SUBSET Deliveries : CleanupInbox(old)
      BY <1>6
    <2>2. \A d \in Deliveries : \/ inbox'[d] = inbox[d]
                                \/ inbox[d].state = "succeeded" /\ inbox'[d] = NoEnvelope
      BY <2>1 DEF CleanupInbox, Cleanable
    <2> QED
      BY <1>2, <2>1, <2>2, SteadyInbox DEF CleanupInbox
  <1>7. CASE ResumeInbox
    <2>1. ASSUME NEW d \in Deliveries
          PROVE  \/ inbox'[d] = inbox[d]
                 \/ /\ inbox[d].state = "unknown" /\ inbox'[d].state = "pending"
                    /\ inbox'[d].attempts = inbox[d].attempts
      <3> DEFINE r == [inbox[d] EXCEPT !.state = "pending", !.due = TRUE]
      <3>1. r.state = "pending" /\ r.attempts = inbox[d].attempts
        BY <1>1, <2>1 DEF Envelope
      <3>2. inbox'[d] = IF inbox[d].state = "unknown" THEN r ELSE inbox[d]
        BY <1>7, <2>1 DEF ResumeInbox
      <3> HIDE DEF r
      <3> QED
        BY <3>1, <3>2
    <2> QED
      BY <1>7, <2>1, SteadyInbox DEF ResumeInbox
  <1> QED
    BY <1>4, <1>5, <1>6, <1>7

\* The steps that move no worker.
LEMMA StillSteps ==
    ASSUME RuntimeIInv, StoreTypeOK',
           \/ \E d \in Deliveries : Receive(d)
           \/ PumpResume \/ PumpCleanup \/ PumpReturn \/ CloseCli \/ BackoffExpires
           \/ \E r \in wire : Land(r) \/ Refuse(r) \/ Lose(r)
           \/ \E h \in Heads : Push(h)
    PROVE  RuntimeIInv'
  <1>1. StoreTypeOK /\ RuntimeTypeOK /\ Process /\ WorldTyped
    BY DEF RuntimeIInv, RuntimeTypeOK, WorldTyped
  <1>2. /\ \A d \in Deliveries : inbox[d].attempts <= MaxLeases
        /\ owner \in {"none", "server", "cli"} /\ pump \in {"off", "resuming", "on", "draining"}
    BY <1>1, SteadyInbox DEF RuntimeTypeOK
  <1>3. ASSUME worker' = worker
        PROVE  Active' = Active
    BY <1>3 DEF Active
  <1>4. CASE (\E d \in Deliveries : Receive(d)) \/ PumpCleanup
    <2>1. UNCHANGED runtimeVars
          /\ \/ \E d \in Deliveries : Enqueue(d)
             \/ \E old \in SUBSET Deliveries : CleanupInbox(old)
      BY <1>4 DEF Receive, PumpCleanup
    <2>2. worker' = worker /\ owner' = owner /\ pump' = pump /\ WorldTyped' /\ Process'
      BY <1>1, <1>3, <2>1 DEF runtimeVars, WorldTyped, Process
    <2> QED
      BY <1>2, <2>1, <2>2, InboxSteps, StillMoves
  <1>5. CASE PumpResume
    <2>1. ResumeInbox /\ pump = "resuming" /\ pump' = "on"
          /\ UNCHANGED <<owner, worker, head, wire, applied, faults>>
      BY <1>5 DEF PumpResume
    <2>2. worker' = worker /\ owner' = owner /\ WorldTyped' /\ Process'
      BY <1>1, <1>3, <2>1 DEF WorldTyped, Process
    <2> QED
      BY <1>2, <2>1, <2>2, InboxSteps, StillMoves
  <1>6. CASE PumpReturn \/ CloseCli
    <2>1. /\ worker' = worker /\ inbox' = inbox /\ ops' = ops
          /\ owner' \in {"none", "server", "cli"} /\ pump' \in {pump, "off"} /\ WorldTyped'
      BY <1>1, <1>2, <1>6 DEF PumpReturn, CloseCli, WorldTyped, storeVars
    <2>2. Process'
      <3>1. CASE PumpReturn
        BY <1>1, <1>3, <2>1, <3>1 DEF PumpReturn, Process
      <3>2. CASE CloseCli
        BY <1>1, <1>3, <2>1, <3>2 DEF CloseCli, Process
      <3> QED
        BY <1>6, <3>1, <3>2
    <2> QED
      BY <1>2, <2>1, <2>2, StillMoves
  <1>7. CASE BackoffExpires
    <2>1. UNCHANGED runtimeVars /\ \/ \E d \in Deliveries : InboxDue(d)
                                   \/ \E k \in Keys : OperationDue(k)
      BY <1>7 DEF BackoffExpires
    <2>2. worker' = worker /\ owner' = owner /\ pump' = pump /\ WorldTyped' /\ Process'
      BY <1>1, <1>3, <2>1 DEF runtimeVars, WorldTyped, Process
    <2>3. CASE \E d \in Deliveries : InboxDue(d)
      BY <1>2, <2>2, <2>3, InboxSteps, StillMoves
    <2>4. CASE \E k \in Keys : OperationDue(k)
      BY <1>1, <1>2, <2>2, <2>4, DueRows, StillMoves DEF Same
    <2> QED
      BY <2>1, <2>3, <2>4
  <1>8. CASE (\E r \in wire : Land(r) \/ Refuse(r) \/ Lose(r)) \/ \E h \in Heads : Push(h)
    <2>1. UNCHANGED <<storeVars, owner, pump, worker>> /\ WorldTyped'
      <3>1. ASSUME NEW r \in wire, NEW f \in {"landed", "refused"}
            PROVE  Answered(r, f) \subseteq Request
        <4> DEFINE a == [r EXCEPT !.fate = f]
        <4>1. a \in Request /\ wire \subseteq Request
          BY <1>1, <3>1 DEF Request, RuntimeTypeOK
        <4> HIDE DEF a
        <4>2. Answered(r, f) \subseteq wire \cup {a}
          BY DEF Answered, a
        <4> QED
          BY <4>1, <4>2
      <3>2. ASSUME NEW r \in wire, Land(r)
            PROVE  UNCHANGED <<storeVars, owner, pump, worker>> /\ WorldTyped'
        <4>1. r.key \in Writes
          BY <1>1, <3>2 DEF Request, RuntimeTypeOK
        <4> DEFINE n == IF applied[r.key] < MaxEffects THEN applied[r.key] + 1 ELSE applied[r.key]
        <4>2. applied' = [applied EXCEPT ![r.key] = n] /\ wire' = Answered(r, "landed")
              /\ UNCHANGED <<storeVars, owner, pump, worker, head, faults>>
          BY <3>2 DEF Land
        <4>3. applied \in [Writes -> 0..MaxEffects] /\ applied[r.key] \in 0..MaxEffects
          BY <1>1, <4>1 DEF RuntimeTypeOK
        <4>4. n \in 0..MaxEffects
          BY <4>3, RuntimeAssumption
        <4> HIDE DEF n
        <4>5. applied' \in [Writes -> 0..MaxEffects]
          BY <4>2, <4>3, <4>4
        <4> QED
          BY <1>1, <3>1, <4>2, <4>5 DEF WorldTyped
      <3>3. ASSUME NEW r \in wire, Refuse(r)
            PROVE  UNCHANGED <<storeVars, owner, pump, worker>> /\ WorldTyped'
        BY <1>1, <3>1, <3>3 DEF Refuse, WorldTyped
      <3>4. ASSUME NEW r \in wire, Lose(r)
            PROVE  UNCHANGED <<storeVars, owner, pump, worker>> /\ WorldTyped'
        <4>1. faults' \in 0..MaxFaults
          BY <1>1, <3>4, RuntimeAssumption DEF Lose, Fault, WorldTyped
        <4> QED
          BY <1>1, <3>4, <4>1 DEF Lose, WorldTyped
      <3>5. ASSUME NEW h \in Heads, Push(h)
            PROVE  UNCHANGED <<storeVars, owner, pump, worker>> /\ WorldTyped'
        BY <1>1, <3>5 DEF Push, WorldTyped
      <3> QED
        BY <1>8, <3>2, <3>3, <3>4, <3>5
    <2>2. worker' = worker /\ owner' = owner /\ pump' = pump /\ inbox' = inbox /\ ops' = ops
      BY <2>1 DEF storeVars
    <2>3. Process'
      BY <1>1, <1>3, <2>2 DEF Process
    <2> QED
      BY <1>2, <2>1, <2>2, <2>3, StillMoves
  <1> QED
    BY <1>4, <1>5, <1>6, <1>7, <1>8

\* The recovery pass.
LEMMA RecoveryRows ==
    ASSUME RuntimeIInv, RecoverRunning
    PROVE  /\ \A k \in Keys : Later(k) /\ ops'[k].state # "running"
           /\ \A d \in Deliveries : /\ inbox'[d].attempts = inbox[d].attempts
                                    /\ inbox'[d].state # "running"
  <1>1. StoreTypeOK /\ inbox \in [Deliveries -> Envelope]
    BY DEF RuntimeIInv, StoreTypeOK
  <1>2. ops' = [k \in Keys |-> IF ops[k].state = "running" /\ k \in Keys
                  THEN [ops[k] EXCEPT !.state = "unknown"] ELSE ops[k]]
    BY DEF RecoverRunning
  <1>3. /\ \A j \in Keys : \/ ops'[j] = ops[j] /\ ops[j].state # "running"
                           \/ ops'[j].state = "unknown"
        /\ \A j \in Keys : Later(j)
    BY <1>1, <1>2, RecoverRows
  <1>4. ASSUME NEW d \in Deliveries
        PROVE  inbox'[d].attempts = inbox[d].attempts /\ inbox'[d].state # "running"
    <2> DEFINE r == [inbox[d] EXCEPT !.state = "unknown"]
    <2>1. r.state = "unknown" /\ r.attempts = inbox[d].attempts
      BY <1>1, <1>4 DEF Envelope
    <2>2. inbox'[d] = IF inbox[d].state = "running" THEN r ELSE inbox[d]
      BY <1>4 DEF RecoverRunning
    <2> HIDE DEF r
    <2> QED
      BY <2>1, <2>2
  <1> QED
    BY <1>3, <1>4

\* A decision of the operator takes no running envelope.
LEMMA AdministeredInbox ==
    ASSUME RuntimeIInv, NEW k \in Keys, NEW decision, Administer(k, decision)
    PROVE  \A d \in Deliveries : /\ inbox'[d].attempts = inbox[d].attempts
                                 /\ inbox'[d].state = "running" => inbox[d].state = "running"
  <1>1. inbox \in [Deliveries -> Envelope]
    BY DEF RuntimeIInv, StoreTypeOK
  <1> TAKE d \in Deliveries
  <1> DEFINE r == [inbox[d] EXCEPT !.state = "pending", !.due = TRUE]
  <1>2. r.state = "pending" /\ r.attempts = inbox[d].attempts
    BY <1>1 DEF Envelope
  <1>3. inbox'[d] \in {r, inbox[d]}
    BY DEF Administer
  <1> HIDE DEF r
  <1> QED
    BY <1>2, <1>3

\* The process starts, recovers, crashes or returns, and the operator decides.
LEMMA RestSteps ==
    ASSUME RuntimeIInv, StoreTypeOK',
           \/ \E p \in {"server", "cli"} : OpenStore(p)
           \/ PumpStart \/ Crash
           \/ \E k \in Keys, decision \in {"confirm-success", "confirm-not-sent", "retry"} :
                 Decide(k, decision)
    PROVE  RuntimeIInv'
  <1>1. StoreTypeOK /\ RuntimeTypeOK /\ Process /\ WorldTyped
    BY DEF RuntimeIInv, RuntimeTypeOK, WorldTyped
  <1>2. CASE \E p \in {"server", "cli"} : OpenStore(p)
    <2>1. owner = "none" /\ RecoverRunning /\ owner' \in {"server", "cli"} /\ pump' = pump
          /\ UNCHANGED <<worker, head, wire, applied, faults>>
      BY <1>2 DEF OpenStore
    <2>2. pump' = "off" /\ Resting
      BY <1>1, <2>1, Rest DEF Process
    <2>3. WorldTyped'
      BY <1>1, <2>1 DEF WorldTyped
    <2> QED
      BY <2>1, <2>2, <2>3, RecoveryRows, RestMoves
  <1>3. CASE PumpStart
    <2>1. owner = "server" /\ owner' = owner /\ pump = "off" /\ RecoverRunning
          /\ pump' = "resuming" /\ UNCHANGED <<worker, head, wire, applied, faults>>
      BY <1>3 DEF PumpStart
    <2>2. Resting
      BY <1>1, <2>1, Rest DEF Process
    <2>3. WorldTyped'
      BY <1>1, <2>1 DEF WorldTyped
    <2> QED
      BY <2>1, <2>2, <2>3, RecoveryRows, RestMoves
  <1>4. CASE Crash
    <2>1. owner' = "none" /\ pump' = "off" /\ worker' = [d \in Deliveries |-> IdleWorker]
          /\ UNCHANGED storeVars
      BY <1>4 DEF Crash
    <2>2. WorldTyped'
      BY <1>4, FaultyWorld DEF Crash
    <2>3. inbox' = inbox /\ ops' = ops /\ \A k \in Keys : Later(k)
      BY <1>1, <2>1, LaterSame DEF storeVars
    <2>4. Resting
      BY <2>1, IdleFields DEF Resting
    <2>5. /\ owner' \in {"none", "server", "cli"} /\ pump' \in {"off", "resuming"}
          /\ \A d \in Deliveries :
                /\ inbox'[d].attempts = inbox[d].attempts
                /\ inbox'[d].state = "running" => inbox[d].state = "running"
      BY <2>1, <2>3
    <2> QED
      BY <2>1, <2>2, <2>3, <2>5, <2>4, RestMoves
  <1>5. CASE \E k \in Keys, decision \in {"confirm-success", "confirm-not-sent", "retry"} :
                Decide(k, decision)
    <2>1. PICK k \in Keys, decision \in {"confirm-success", "confirm-not-sent", "retry"} :
              Decide(k, decision)
      BY <1>5
    <2>2. owner = "cli" /\ Administer(k, decision) /\ UNCHANGED runtimeVars
      BY <2>1 DEF Decide
    <2>3. pump' = "off" /\ Resting /\ owner' = "cli" /\ worker' = worker /\ WorldTyped'
      BY <1>1, <2>2, Rest DEF Process, runtimeVars, WorldTyped
    <2>4. \A j \in Keys : Later(j)
      BY <1>1, <2>2, AdministerRows
    <2> QED
      BY <2>2, <2>3, <2>4, AdministeredInbox, RestMoves
  <1> QED
    BY <1>2, <1>3, <1>4, <1>5

-----------------------------------------------------------------------------
(* The worker keeps its leases. *)

\* The ledger stays well formed.
LEMMA StoreStays ==
    ASSUME RuntimeIInv, [Next]_vars
    PROVE  StoreTypeOK'
  <1>1. StoreTypeOK /\ [StoreNext]_storeVars
    BY StepIsStore DEF RuntimeIInv
  <1> QED
    BY <1>1, StoreTypeStep

\* Nothing happens.
LEMMA StutterStep ==
    ASSUME RuntimeIInv, UNCHANGED vars
    PROVE  RuntimeIInv'
  <1>1. StoreTypeOK' /\ WorldTyped' /\ Process'
    BY DEF RuntimeIInv, RuntimeTypeOK, StoreTypeOK, WorldTyped, Process, Active, vars, storeVars,
           runtimeVars
  <1>2. /\ worker' = worker /\ ops' = ops /\ inbox' = inbox /\ owner' = owner /\ pump' = pump
        /\ owner \in {"none", "server", "cli"} /\ pump \in {"off", "resuming", "on", "draining"}
    BY DEF RuntimeIInv, RuntimeTypeOK, vars, storeVars, runtimeVars
  <1> QED
    BY <1>1, <1>2, SteadyInbox, StillMoves

\* The invariant is inductive.
LEMMA RuntimeStep ==
    ASSUME RuntimeIInv, [Next]_vars
    PROVE  RuntimeIInv'
  <1>1. StoreTypeOK'
    BY StoreStays
  <1>2. ASSUME NEW d \in Deliveries, WorkerStep(d)
        PROVE  RuntimeIInv'
    BY <1>1, <1>2, GateStep, RecheckStep, StartCommandStep, ReconcileChildStep,
       ReopenCommandStep, ClaimCommandStep, SupersedeSteps, HandlerReturnsStep, BeginWriteStep,
       ReconcileWriteStep, ClaimWriteStep, SendStep, ReadAnswerStep, FinishCommandStep,
       EndSteps, SettleStep, ReleaseStep DEF WorkerStep
  <1>3. CASE ProcessStep
    BY <1>1, <1>3, RestSteps, StillSteps, StartWorkerStep DEF ProcessStep
  <1>4. CASE GitHubStep
    BY <1>1, <1>4, StillSteps DEF GitHubStep
  <1>5. CASE Disturbance
    BY <1>1, <1>5, RestSteps, GateStep, EndSteps, StoreFailsStep, BookkeepingFailsStep, StillSteps
       DEF Disturbance
  <1>6. CASE OperatorStep
    BY <1>1, <1>6, RestSteps, StillSteps DEF OperatorStep
  <1>7. CASE \/ \E d \in Deliveries : Receive(d)
             \/ \E h \in Heads : Push(h)
             \/ PumpCleanup \/ BackoffExpires
    BY <1>1, <1>7, StillSteps
  <1>8. CASE UNCHANGED vars
    BY <1>8, StutterStep
  <1> QED
    BY <1>2, <1>3, <1>4, <1>5, <1>6, <1>7, <1>8 DEF Next

\* It holds at first.
LEMMA RuntimeStarts ==
    ASSUME Init
    PROVE  RuntimeIInv
  <1>1. IdleWorker \in Worker /\ IdleWorker.pc = "idle" /\ IdleWorker.todo = {}
    BY IdleFields
  <1>2. StoreTypeOK
    BY DEF Init, StoreInit, StoreTypeOK, NoEnvelope, NoOperation, FreeSlot,
           Envelope, Operation, Reservation, InboxStates, OpStates
  <1>3. /\ worker = [d \in Deliveries |-> IdleWorker] /\ owner = "none" /\ pump = "off"
        /\ head \in Heads /\ wire = {} /\ applied = [k \in Writes |-> 0] /\ faults = 0
        /\ inbox = [d \in Deliveries |-> NoEnvelope] /\ ops = [k \in Keys |-> NoOperation]
    BY DEF Init, StoreInit
  <1>4. RuntimeTypeOK
    <2>1. 0 \in 0..MaxEffects /\ 0 \in 0..MaxFaults
      BY RuntimeAssumption
    <2> QED
      BY <1>1, <1>3, <2>1 DEF RuntimeTypeOK
  <1>5. Active = {}
    BY <1>1, <1>3 DEF Active
  <1>6. Process /\ Tended
    BY <1>3, <1>5 DEF Process, Tended
  <1>7. /\ NoEnvelope.state = "absent" /\ NoEnvelope.attempts = 0
        /\ NoOperation.state = "absent" /\ NoOperation.attempts = 0
    BY Zenon DEF NoEnvelope, NoOperation
  <1>8. Counted
    <2>1. \A d \in Deliveries : inbox[d].state = "absent" /\ inbox[d].attempts = 0
      BY <1>3, <1>7
    <2>2. \A k \in Keys : ops[k].state = "absent" /\ ops[k].attempts = 0
      BY <1>3, <1>7
    <2> QED
      BY <2>1, <2>2, BoundAssumption DEF Counted
  <1>9. \A d \in Deliveries : Fits(d, worker[d])
    <2>1. \A d \in Deliveries : worker[d].pc = "idle" /\ worker[d].todo = {}
      BY <1>1, <1>3
    <2> QED
      BY <2>1 DEF Fits, Shape, Seen, Leases, InCommand, InWrite
  <1> QED
    BY <1>2, <1>4, <1>6, <1>8, <1>9 DEF RuntimeIInv

\* The inductive invariant is an invariant of the worker.
THEOREM RuntimeInvariant == Spec => []RuntimeIInv
  <1>1. Init => RuntimeIInv
    BY RuntimeStarts
  <1>2. RuntimeIInv /\ [Next]_vars => RuntimeIInv'
    BY RuntimeStep
  <1> QED
    BY <1>1, <1>2, PTL DEF Spec

\* The rows a worker is about to send for or to finish are still its own: the
\* attempt fence of the ledger never rejects the worker that holds it (run_command,
\* durable_write).
THEOREM LeasesHold == Spec => []RuntimeInv
  <1>1. RuntimeIInv => RuntimeInv
    BY DEF RuntimeIInv, RuntimeInv, LeaseHeld, Fits, Leases, Holds
  <1> QED
    BY <1>1, RuntimeInvariant, PTL

\* While the pump works normally, nothing is marked running without a worker that
\* will finish or fence it (pump_with, process_delivery).
THEOREM NothingAbandoned == Spec => []NoAbandonedClaim
  <1>1. RuntimeIInv => NoAbandonedClaim
    BY DEF RuntimeIInv, NoAbandonedClaim, Tended
  <1> QED
    BY <1>1, RuntimeInvariant, PTL

\* Every step of the worker, of a crash and of the operator is a step of the ledger,
\* whose theorems therefore hold of the running system.
THEOREM StoreImplemented == Spec => ImplementsStore
  <1>1. Init => StoreInit
    BY DEF Init
  <1>2. RuntimeIInv /\ [Next]_vars => [StoreNext]_storeVars
    BY StepIsStore
  <1>3. ImplementsStore <=> StoreInit /\ [][StoreNext]_storeVars
    BY DEF ImplementsStore, StoreSpec
  <1> QED
    BY <1>1, <1>2, <1>3, RuntimeInvariant, PTL DEF Spec

\* A row that is not confirmed or withdrawn by the step stays as certain as it
\* was, or its write has no effect and no request.
Mild(k) ==
    \/ ops'[k].state \in {"succeeded", "superseded"}
    \/ Quiet(k)
    \/ /\ ops'[k].state = "unknown" /\ ops[k].state \in {"running", "unknown"}
       /\ ops'[k].sent = ops[k].sent
    \/ /\ ops'[k].state = ops[k].state /\ ops'[k].sent = ops[k].sent
       /\ ops'[k].attempts = ops[k].attempts

\* A row appears under the snapshot of its command's row.
Rooted(k) ==
    ops[k].state = "absent" /\ ops'[k].state # "absent" /\ ParentOf[k] # None =>
        ops[ParentOf[k]].state # "absent" /\ ops'[k].head = ops[ParentOf[k]].head

Orderly ==
    /\ \A k \in Keys : Later(k) /\ Rooted(k)
    /\ \A k \in Writes \ Labels : Mild(k)

-----------------------------------------------------------------------------
(* What a step does to the rows. *)

\* A step that touches one row.
LEMMA OneRow ==
    ASSUME NEW k \in Keys, \A j \in Keys : Later(j), \A j \in Keys \ {k} : ops'[j] = ops[j],
           Rooted(k), k \in Writes \ Labels => Mild(k)
    PROVE  Orderly
  BY DEF Orderly, Rooted, Mild, Writes

\* A step that touches none.
LEMMA SameRows ==
    ASSUME RuntimeIInv, ops' = ops
    PROVE  Orderly
  BY LaterSame DEF Orderly, Rooted, Mild, Writes, RuntimeIInv

\* The operations of the ledger once more: a claim, ...
LEMMA OrderlyClaim ==
    ASSUME RuntimeIInv, OnceIInv, NEW k \in Keys, NEW d, NEW h, Claim(k, d, h),
           ParentOf[k] # None => ops[ParentOf[k]].state # "absent" /\ h = ops[ParentOf[k]].head
    PROVE  Orderly
  <1>1. /\ ops'[k].head = IF ops[k].state = "absent" THEN h ELSE ops[k].head
        /\ ops[k].state \in {"absent", "pending"}
        /\ \A j \in Keys \ {k} : ops'[j] = ops[j]
        /\ \A j \in Keys : Later(j)
    BY ClaimRows DEF RuntimeIInv
  <1>2. k \in Writes \ Labels => Mild(k)
    BY <1>1 DEF Mild, OnceIInv, Once
  <1>3. Rooted(k)
    BY <1>1 DEF Rooted
  <1> QED
    BY <1>1, <1>2, <1>3, OneRow

\* ... a receipt, a refused one only if nothing happened, ...
LEMMA OrderlyFinish ==
    ASSUME RuntimeIInv, NEW k \in Keys, NEW a, NEW s, Finish(k, a, s),
           k \in Writes \ Labels /\ s = "failed" => Quiet(k)
    PROVE  Orderly
  <1>1. /\ Owns(k, a) /\ s \in {"succeeded", "failed", "unknown", "superseded"}
        /\ ops'[k].state = s /\ ops'[k].sent = ops[k].sent
        /\ \A j \in Keys \ {k} : ops'[j] = ops[j]
        /\ \A j \in Keys : Later(j)
    BY FinishRows DEF RuntimeIInv
  <1>2. k \in Writes \ Labels => Mild(k)
    BY <1>1 DEF Mild, Owns
  <1>3. Rooted(k)
    BY <1>1 DEF Rooted, Owns
  <1> QED
    BY <1>1, <1>2, <1>3, OneRow

\* ... the first send mark, ...
LEMMA OrderlyMark ==
    ASSUME RuntimeIInv, OnceIInv, NEW k \in Keys, NEW a, MarkSent(k, a), ~ops[k].sent
    PROVE  Orderly
  <1>1. /\ Owns(k, a)
        /\ \A j \in Keys \ {k} : ops'[j] = ops[j]
        /\ \A j \in Keys : Later(j)
    BY MarkRows DEF RuntimeIInv
  <1>2. k \in Writes \ Labels => Mild(k)
    BY <1>1 DEF Mild, Owns, OnceIInv, Once
  <1>3. Rooted(k)
    BY <1>1 DEF Rooted, Owns
  <1> QED
    BY <1>1, <1>2, <1>3, OneRow

\* ... the resolution of an uncertain row, ...
LEMMA OrderlyResolve ==
    ASSUME RuntimeIInv, OnceIInv, NEW k \in Keys, NEW a,
           NEW o \in {"succeeded", "not_sent", "retry_idempotent"}, ResolveUnknown(k, a, o),
           k \in Writes \ Labels /\ o = "not_sent" => ~ops[k].sent
    PROVE  Orderly
  <1>1. /\ ops[k].state = "unknown" /\ o = "retry_idempotent" => KindOf[k] = "ensure_labels"
        /\ ops'[k].state = (IF o = "succeeded" THEN "succeeded" ELSE "pending")
        /\ \A j \in Keys \ {k} : ops'[j] = ops[j]
        /\ \A j \in Keys : Later(j)
    BY ResolveRows DEF RuntimeIInv
  <1>2. ops[k].state = "unknown"
    BY DEF ResolveUnknown
  <1>3. k \in Writes \ Labels => Mild(k)
    BY <1>1, <1>2 DEF Mild, OnceIInv, Once, Labels
  <1>4. Rooted(k)
    BY <1>2 DEF Rooted
  <1> QED
    BY <1>1, <1>3, <1>4, OneRow

\* ... a reconciliation, ...
LEMMA OrderlyReconcile ==
    ASSUME RuntimeIInv, OnceIInv, NEW k \in Keys, NEW a, NEW s, Reconcile(k, a, s),
           ops[k].state = "unknown" /\ ops[k].attempts = a => ops[k].sent = s
    PROVE  Orderly
  <1>1. CASE ~s /\ ResolveUnknown(k, a, "not_sent")
    <2>1. ~ops[k].sent
      BY <1>1 DEF ResolveUnknown
    <2> QED
      BY <1>1, <2>1, OrderlyResolve
  <1>2. CASE ResolveUnknown(k, a, "succeeded")
    BY <1>2, OrderlyResolve
  <1>3. CASE ResolveUnknown(k, a, "retry_idempotent")
    BY <1>3, OrderlyResolve
  <1>4. CASE UNCHANGED storeVars
    BY <1>4, SameRows DEF storeVars
  <1> QED
    BY <1>1, <1>2, <1>3, <1>4 DEF Reconcile

\* ... a refusal, ...
LEMMA OrderlyFail ==
    ASSUME RuntimeIInv, OnceIInv, NEW k \in Keys, FailUnsent(k)
    PROVE  Orderly
  <1>1. /\ \A j \in Keys : \/ ops'[j] = ops[j]
                           \/ /\ ops[j].state \in {"pending", "unknown"} /\ ~ops[j].sent
                              /\ ops'[j].state = "failed"
        /\ \A j \in Keys : Later(j)
    BY FailRows DEF RuntimeIInv
  <1>2. \A j \in Writes \ Labels : Mild(j)
    BY <1>1 DEF Mild, OnceIInv, Once, Writes
  <1> QED
    BY <1>1, <1>2 DEF Orderly, Rooted

\* ... a withdrawal, ...
LEMMA OrderlySupersede ==
    ASSUME RuntimeIInv, NEW c \in Keys, SupersedeUnsentChildren(c)
    PROVE  Orderly
  <1>1. /\ \A j \in Keys : \/ ops'[j] = ops[j]
                           \/ ops[j].state = "pending" /\ ops'[j].state = "superseded"
        /\ \A j \in Keys : Later(j)
    BY SupersedeRows DEF RuntimeIInv
  <1>2. \A j \in Writes \ Labels : Mild(j)
    BY <1>1 DEF Mild, Writes
  <1> QED
    BY <1>1, <1>2 DEF Orderly, Rooted

\* ... a recovery pass, ...
LEMMA OrderlyRecover ==
    ASSUME RuntimeIInv, NEW S,
           ops' = [k \in Keys |-> IF ops[k].state = "running" /\ k \in S
                     THEN [ops[k] EXCEPT !.state = "unknown"] ELSE ops[k]]
    PROVE  Orderly
  <1>1. /\ \A j \in Keys : \/ ops'[j] = ops[j]
                           \/ /\ ops[j].state = "running" /\ ops'[j].state = "unknown"
                              /\ ops'[j].sent = ops[j].sent
        /\ \A j \in Keys : Later(j)
    BY RecoverRows DEF RuntimeIInv
  <1>2. \A j \in Writes \ Labels : Mild(j)
    BY <1>1 DEF Mild, Writes
  <1> QED
    BY <1>1, <1>2 DEF Orderly, Rooted

\* ... a truthful decision of the operator, ...
LEMMA OrderlyDecision ==
    ASSUME RuntimeIInv, OnceIInv, NEW k \in Keys,
           NEW decision \in {"confirm-success", "confirm-not-sent", "retry"},
           Evidence(k, decision), Administer(k, decision)
    PROVE  Orderly
  <1>1. /\ \A j \in Keys : \/ ops'[j] = ops[j]
                           \/ /\ j = k /\ ops[k].state \in {"unknown", "failed"}
                              /\ ops'[k].state = (IF decision = "confirm-success"
                                                  THEN "succeeded" ELSE "pending")
                           \/ ops[j].state = "failed" /\ ops'[j].state = "pending"
        /\ decision = "retry" => ops[k].state = "failed"
        /\ \A j \in Keys : Later(j)
    BY AdministerRows DEF RuntimeIInv
  <1>2. k \in Writes /\ decision = "confirm-not-sent" => Quiet(k)
    BY DEF Evidence, Quiet, Flying
  <1>3. \A j \in Writes \ Labels : ops[j].state = "failed" => Quiet(j)
    BY DEF OnceIInv, Once
  <1>4. \A j \in Writes \ Labels : Mild(j)
    BY <1>1, <1>2, <1>3 DEF Mild, Writes
  <1> QED
    BY <1>1, <1>4 DEF Orderly, Rooted

\* ... and the end of a backoff.
LEMMA OrderlyDue ==
    ASSUME RuntimeIInv, NEW k \in Keys, OperationDue(k)
    PROVE  Orderly
  <1>1. /\ \A j \in Keys : /\ ops'[j].state = ops[j].state /\ Same(j)
                           /\ ops'[j].sent = ops[j].sent
        /\ \A j \in Keys : Later(j)
    BY DueRows DEF RuntimeIInv
  <1>2. \A j \in Writes \ Labels : Mild(j)
    BY <1>1 DEF Mild, Writes, Same
  <1> QED
    BY <1>1, <1>2 DEF Orderly, Rooted

\* Reading an answer.
LEMMA AnswerOrderly ==
    ASSUME RuntimeIInv, OnceIInv, NEW d \in Deliveries, ReadAnswer(d)
    PROVE  Orderly
  <1> DEFINE w == worker[d]
             k == WriteOf(w)
  <1>1. /\ w.pc = "http"
        /\ \/ Finish(k, w.try, "succeeded")
           \/ Finish(k, w.try, "unknown")
           \/ /\ Finish(k, w.try, "failed")
              /\ \E r \in wire : r.key = k /\ r.attempt = w.try /\ r.fate = "refused"
    BY DEF ReadAnswer, At, Awaits
  <1>2. k \in Writes /\ k \in Keys /\ Holds(d, k, w.try)
    BY <1>1, WritingAtHand
  <1>3. (\E r \in wire : r.key = k /\ r.attempt = w.try /\ r.fate = "refused") =>
            (k \in Writes \ Labels => Quiet(k))
    BY <1>2 DEF OnceIInv, Once, Holds, Owns
  <1> HIDE DEF k
  <1>4. CASE Finish(k, w.try, "succeeded")
    BY <1>2, <1>4, OrderlyFinish
  <1>5. CASE Finish(k, w.try, "unknown")
    BY <1>2, <1>5, OrderlyFinish
  <1>6. CASE /\ Finish(k, w.try, "failed")
             /\ \E r \in wire : r.key = k /\ r.attempt = w.try /\ r.fate = "refused"
    BY <1>2, <1>3, <1>6, OrderlyFinish
  <1> QED
    BY <1>1, <1>4, <1>5, <1>6

\* Reconciling.
LEMMA ReconcileOrderly ==
    ASSUME RuntimeIInv, OnceIInv, NEW d \in Deliveries,
           ReconcileChild(d) \/ ReopenCommand(d) \/ ReconcileWrite(d)
    PROVE  Orderly
  <1> DEFINE w == worker[d]
             c == Head(w.queue)
  <1>1. CASE ReconcileChild(d)
    <2>1. PICK r \in w.todo : Reconcile(r.key, r.attempt, r.sent) \/ UNCHANGED storeVars
      BY <1>1 DEF ReconcileChild, ReconcileFails
    <2>2. w.todo \in SUBSET Child /\ Seen(w)
      BY WorkerTyped DEF Fits
    <2>3. r.key \in Keys
      BY <2>2 DEF Child, Writes
    <2>4. ops[r.key].state = "unknown" /\ ops[r.key].attempts = r.attempt =>
              ops[r.key].sent = r.sent
      BY <2>2 DEF Seen
    <2>5. CASE UNCHANGED storeVars
      BY <2>5, SameRows DEF storeVars
    <2>6. CASE Reconcile(r.key, r.attempt, r.sent)
      BY <2>3, <2>4, <2>6, OrderlyReconcile
    <2> QED
      BY <2>1, <2>5, <2>6
  <1>2. CASE ReopenCommand(d)
    <2>1. w.pc = "children" /\ (UNCHANGED storeVars \/ ResolveUnknown(c, w.old, "not_sent"))
      BY <1>2 DEF ReopenCommand, At
    <2>2. c \in CommandKeys /\ c \in Keys /\ c \notin Writes
      BY <2>1, BusyAtHand, CommandIsPlanner DEF InCommand
    <2>3. CASE UNCHANGED storeVars
      BY <2>3, SameRows DEF storeVars
    <2>4. CASE ResolveUnknown(c, w.old, "not_sent")
      BY <2>2, <2>4, OrderlyResolve
    <2> QED
      BY <2>1, <2>3, <2>4
  <1>3. CASE ReconcileWrite(d)
    <2> DEFINE k == WriteOf(w)
    <2>1. w.pc = "lookup" /\ (UNCHANGED storeVars \/ Reconcile(k, w.try, ops[k].sent))
      BY <1>3 DEF ReconcileWrite, ReconcileFails, At
    <2>2. k \in Keys
      BY <2>1, WritingAtHand
    <2>3. CASE UNCHANGED storeVars
      BY <2>3, SameRows DEF storeVars
    <2>4. CASE Reconcile(k, w.try, ops[k].sent)
      BY <2>2, <2>4, OrderlyReconcile
    <2> QED
      BY <2>1, <2>3, <2>4
  <1> QED
    BY <1>1, <1>2, <1>3

\* Claiming.
LEMMA ClaimOrderly ==
    ASSUME RuntimeIInv, OnceIInv, NEW d \in Deliveries, ClaimCommand(d) \/ ClaimWrite(d)
    PROVE  Orderly
  <1> DEFINE w == worker[d]
             c == Head(w.queue)
  <1>1. CASE ClaimCommand(d)
    <2>1. w.pc = "claim" /\ (UNCHANGED storeVars \/ Claim(c, d, w.head))
      BY <1>1 DEF ClaimCommand, At
    <2>2. c \in CommandKeys /\ c \in Keys /\ ParentOf[c] = None
      BY <2>1, BusyAtHand, CommandIsPlanner DEF InCommand
    <2>3. CASE UNCHANGED storeVars
      BY <2>3, SameRows DEF storeVars
    <2>4. CASE Claim(c, d, w.head)
      BY <2>2, <2>4, OrderlyClaim
    <2> QED
      BY <2>1, <2>3, <2>4
  <1>2. CASE ClaimWrite(d)
    <2> DEFINE k == WriteOf(w)
    <2>1. w.pc = "claimWrite" /\ (UNCHANGED storeVars \/ Claim(k, d, w.head))
      BY <1>2 DEF ClaimWrite, At
    <2>2. k \in Keys /\ Holds(d, c, w.run) /\ ops[c].head = w.head
      BY <2>1, WritingAtHand
    <2>3. ParentOf[k] = c
      BY <2>1, InWriteAtHand DEF InWrite
    <2>4. ops[ParentOf[k]].state # "absent" /\ w.head = ops[ParentOf[k]].head
      BY <2>2, <2>3 DEF Holds, Owns
    <2>5. CASE UNCHANGED storeVars
      BY <2>5, SameRows DEF storeVars
    <2>6. CASE Claim(k, d, w.head)
      BY <2>2, <2>4, <2>6, OrderlyClaim
    <2> QED
      BY <2>1, <2>5, <2>6
  <1> QED
    BY <1>1, <1>2

\* Finishing and fencing.
LEMMA FinishOrderly ==
    ASSUME RuntimeIInv, OnceIInv, NEW d \in Deliveries,
           \/ GateRefuse(d) \/ RecheckRefuse(d) \/ SupersedeCommand(d) \/ SupersedeChildren(d)
           \/ Send(d) \/ FinishCommand(d) \/ Settle(d)
    PROVE  Orderly
  <1> DEFINE w == worker[d]
             c == Head(w.queue)
  <1>1. ASSUME w.pc \in InCommand
        PROVE  c \in Keys /\ c \notin Writes
    BY <1>1, BusyAtHand, CommandIsPlanner
  <1>2. CASE GateRefuse(d)
    <2>1. w.gate # <<>> /\ FailUnsent(Head(w.gate))
      BY <1>2 DEF GateRefuse
    <2>2. Head(w.gate) \in Keys
      BY <2>1, WorkerTyped, FirstInQueue DEF CommandKeys
    <2> QED
      BY <2>1, <2>2, OrderlyFail
  <1>3. CASE RecheckRefuse(d)
    <2>1. w.queue # <<>> /\ FailUnsent(c)
      BY <1>3 DEF RecheckRefuse
    <2>2. c \in Keys
      BY <2>1, WorkerTyped, FirstInQueue DEF CommandKeys
    <2> QED
      BY <2>1, <2>2, OrderlyFail
  <1>4. CASE SupersedeCommand(d)
    <2>1. w.pc \in InCommand /\ Finish(c, w.run, "superseded")
      BY <1>4 DEF SupersedeCommand, At, InCommand
    <2> QED
      BY <1>1, <2>1, OrderlyFinish
  <1>5. CASE SupersedeChildren(d)
    <2>1. w.pc \in InCommand /\ SupersedeUnsentChildren(c)
      BY <1>5 DEF SupersedeChildren, At, InCommand
    <2> QED
      BY <1>1, <2>1, OrderlySupersede
  <1>6. CASE Send(d)
    <2>1. w.pc = "mark" /\ MarkSent(WriteOf(w), w.try)
      BY <1>6 DEF Send, At
    <2>2. WriteOf(w) \in Keys /\ ~ops[WriteOf(w)].sent
      BY <2>1, WritingAtHand
    <2> QED
      BY <2>1, <2>2, OrderlyMark
  <1>7. CASE FinishCommand(d)
    <2>1. w.pc \in InCommand /\ \E s : Finish(c, w.run, s)
      BY <1>7 DEF FinishCommand, At, InCommand
    <2> QED
      BY <1>1, <2>1, OrderlyFinish
  <1>8. CASE Settle(d)
    <2> DEFINE S == {k \in Keys : ops[k].lease = d}
    <2>1. ops' = [k \in Keys |-> IF ops[k].state = "running" /\ k \in S
                    THEN [ops[k] EXCEPT !.state = "unknown"] ELSE ops[k]]
      BY <1>8 DEF Settle, RecoverDelivery
    <2> HIDE DEF S
    <2> QED
      BY <2>1, OrderlyRecover
  <1> QED
    BY <1>2, <1>3, <1>4, <1>5, <1>6, <1>7, <1>8

\* Every step is orderly.
LEMMA StepIsOrderly ==
    ASSUME RuntimeIInv, OnceIInv, [Next]_vars
    PROVE  Orderly
  <1>1. ASSUME NEW d \in Deliveries, WorkerStep(d)
        PROVE  Orderly
    <2>1. ASSUME \/ GatePass(d) \/ Snapshot(d) \/ StartCommand(d) \/ HandlerReturns(d)
                 \/ BeginWrite(d) \/ EndComment(d) \/ Release(d)
          PROVE  ops' = ops
      BY <2>1 DEF GatePass, Snapshot, StartCommand, HandlerReturns, BeginWrite, EndComment,
                  Release, FinishInbox, storeVars
    <2> QED
      BY <1>1, <2>1, SameRows, AnswerOrderly, ReconcileOrderly, ClaimOrderly, FinishOrderly
         DEF WorkerStep
  <1>2. CASE RecoverRunning
    <2>1. ops' = [k \in Keys |-> IF ops[k].state = "running" /\ k \in Keys
                    THEN [ops[k] EXCEPT !.state = "unknown"] ELSE ops[k]]
      BY <1>2 DEF RecoverRunning
    <2> QED
      BY <2>1, OrderlyRecover
  <1>3. CASE ProcessStep
    <2>1. RecoverRunning \/ ops' = ops
      BY <1>3 DEF ProcessStep, OpenStore, PumpStart, PumpResume, ResumeInbox, PumpReturn,
                  StartWorker, ClaimInbox, storeVars
    <2> QED
      BY <1>2, <2>1, SameRows
  <1>4. CASE GitHubStep \/ Disturbance
    <2>1. ops' = ops
      BY <1>4 DEF GitHubStep, Land, Refuse, Disturbance, Crash, Discard, Interrupt, StoreFails,
                  BookkeepingFails, Lose, storeVars
    <2> QED
      BY <2>1, SameRows
  <1>5. CASE OperatorStep
    <2>1. CASE OpenStore("cli") \/ CloseCli
      BY <1>2, <2>1, SameRows DEF OpenStore, CloseCli, storeVars
    <2>2. CASE \E k \in Keys, decision \in {"confirm-success", "confirm-not-sent", "retry"} :
                  Decide(k, decision)
      BY <2>2, OrderlyDecision DEF Decide
    <2> QED
      BY <1>5, <2>1, <2>2 DEF OperatorStep
  <1>6. CASE \/ \E d \in Deliveries : Receive(d)
             \/ \E h \in Heads : Push(h)
             \/ PumpCleanup \/ UNCHANGED vars
    <2>1. ops' = ops
      BY <1>6 DEF Receive, Enqueue, Push, PumpCleanup, CleanupInbox, vars, storeVars
    <2> QED
      BY <2>1, SameRows
  <1>7. CASE BackoffExpires
    BY <1>7, SameRows, OrderlyDue DEF BackoffExpires, InboxDue
  <1> QED
    BY <1>1, <1>3, <1>4, <1>5, <1>6, <1>7 DEF Next

-----------------------------------------------------------------------------
(* Effects. *)

\* A request stays older than a claim before its send mark.
LEMMA SequelKept ==
    ASSUME RuntimeIInv, OnceIInv, StoreTypeOK', Orderly, NEW r \in wire
    PROVE  /\ r.attempt <= ops'[r.key].attempts
           /\ ops'[r.key].state = "running" /\ ~ops'[r.key].sent =>
                 r.attempt < ops'[r.key].attempts
  <1>1. r.key \in Keys /\ r.attempt \in Nat
    BY DEF RuntimeIInv, RuntimeTypeOK, Request, Writes
  <1>2. ops[r.key].attempts \in Nat /\ ops'[r.key].attempts \in Nat
    BY <1>1 DEF RuntimeIInv, StoreTypeOK, Operation
  <1>3. Later(r.key)
    BY <1>1 DEF Orderly
  <1>4. /\ r.attempt <= ops[r.key].attempts
        /\ ops[r.key].state = "running" /\ ~ops[r.key].sent => r.attempt < ops[r.key].attempts
    BY DEF OnceIInv, Sequel
  <1> QED
    BY <1>1, <1>2, <1>3, <1>4 DEF Later

\* No request leaves and none takes effect.
LEMMA OnceKept ==
    ASSUME RuntimeIInv, OnceIInv, StoreTypeOK', Orderly, wire' \subseteq wire, applied' = applied
    PROVE  OnceIInv'
  <1>1. Sequel'
    BY SequelKept DEF Sequel
  <1>2. ASSUME NEW k \in Writes \ Labels
        PROVE  Once(k)'
    <2>1. Once(k) /\ Mild(k)
      BY <1>2 DEF OnceIInv, Orderly
    <2>2. Flying(k)' \subseteq Flying(k)
      BY DEF Flying
    <2>3. Quiet(k) => Quiet(k)'
      BY <2>2 DEF Quiet
    <2>4. applied'[k] <= 1 /\ (applied'[k] = 1 => Flying(k)' = {})
          /\ \A r, s \in Flying(k)' : r = s
      BY <2>1, <2>2 DEF Once
    <2>5. CASE ops'[k].state \in {"succeeded", "superseded"}
      BY <2>4, <2>5 DEF Once
    <2>6. CASE Quiet(k)
      BY <2>3, <2>4, <2>6 DEF Once
    <2>7. CASE /\ ops'[k].state = "unknown" /\ ops[k].state \in {"running", "unknown"}
               /\ ops'[k].sent = ops[k].sent
      BY <2>1, <2>3, <2>4, <2>7 DEF Once
    <2>8. CASE /\ ops'[k].state = ops[k].state /\ ops'[k].sent = ops[k].sent
               /\ ops'[k].attempts = ops[k].attempts
      BY <2>1, <2>3, <2>4, <2>8 DEF Once
    <2> QED
      BY <2>1, <2>5, <2>6, <2>7, <2>8 DEF Mild
  <1> QED
    BY <1>1, <1>2 DEF OnceIInv

\* A request leaves only for a write nobody sent.
LEMMA SendKeepsOnce ==
    ASSUME RuntimeIInv, OnceIInv, StoreTypeOK', Orderly, NEW d \in Deliveries, Send(d)
    PROVE  OnceIInv'
  <1> DEFINE w == worker[d]
             k == WriteOf(w)
             q == [key |-> k, attempt |-> w.try, fate |-> "flying"]
  <1>1. /\ w.pc = "mark" /\ MarkSent(k, w.try) /\ wire' = wire \cup {q} /\ applied' = applied
    BY DEF Send, At
  <1>2. k \in Writes /\ k \in Keys /\ Holds(d, k, w.try) /\ ~ops[k].sent
    BY <1>1, WritingAtHand
  <1>3. /\ ops'[k].state = "running" /\ ops'[k].attempts = ops[k].attempts /\ ops'[k].sent
        /\ \A j \in Keys \ {k} : ops'[j] = ops[j]
    BY <1>1, <1>2, MarkRows DEF RuntimeIInv, Same
  <1>4. q.key = k /\ q.attempt = w.try /\ q.fate = "flying"
    BY Zenon
  <1>5. q.attempt = ops[k].attempts /\ ops[k].attempts \in Nat
    BY <1>2, <1>4 DEF Holds, Owns, RuntimeIInv, StoreTypeOK, Operation
  <1> HIDE DEF q
  <1>6. Sequel'
    <2>1. q.attempt <= ops'[q.key].attempts /\ ops'[q.key].sent
      BY <1>3, <1>4, <1>5
    <2> QED
      BY <1>1, <2>1, SequelKept DEF Sequel
  <1>7. ASSUME NEW j \in Writes \ Labels
        PROVE  Once(j)'
    <2>1. Once(j)
      BY <1>7 DEF OnceIInv
    <2>2. CASE j # k
      <3>1. ops'[j] = ops[j]
        BY <1>3, <1>7, <2>2 DEF Writes
      <3>2. Flying(j)' = Flying(j) /\ applied'[j] = applied[j]
        BY <1>1, <1>4, <2>2 DEF Flying
      <3>3. \A r \in wire' : r.key = j => r \in wire
        BY <1>1, <1>4, <2>2
      <3> QED
        BY <2>1, <3>1, <3>2, <3>3 DEF Once, Quiet
    <2>3. CASE j = k
      <3>1. Quiet(j)
        BY <1>2, <2>1, <2>3 DEF Once, Holds, Owns
      <3>2. Flying(j)' = {q} /\ applied'[j] = 0
        BY <1>1, <1>4, <2>3, <3>1 DEF Flying, Quiet
      <3>3. \A r \in wire' : r.key = j /\ r.fate = "refused" => r.attempt # ops'[j].attempts
        <4>1. \A r \in wire : r.key = k => r.attempt < ops[k].attempts /\ r.attempt \in Nat
          BY <1>2 DEF OnceIInv, Sequel, Holds, Owns, RuntimeIInv, RuntimeTypeOK, Request
        <4> QED
          BY <1>1, <1>3, <1>4, <1>5, <2>3, <4>1
      <3>4. ops'[j].state = "running" /\ ops'[j].sent
        BY <1>3, <2>3
      <3> QED
        BY <3>2, <3>3, <3>4 DEF Once
    <2> QED
      BY <2>2, <2>3
  <1> QED
    BY <1>6, <1>7 DEF OnceIInv

\* What an answer leaves on the wire.
LEMMA AnsweredWire ==
    ASSUME RuntimeIInv, NEW r \in wire, NEW f \in {"landed", "refused"}
    PROVE  \A s \in Answered(r, f) :
              \/ s \in wire /\ s # r
              \/ s.key = r.key /\ s.attempt = r.attempt /\ s.fate = f
  <1> DEFINE a == [r EXCEPT !.fate = f]
  <1>1. a.key = r.key /\ a.attempt = r.attempt /\ a.fate = f
    BY DEF RuntimeIInv, RuntimeTypeOK, Request
  <1>2. \A s \in Answered(r, f) : (s \in wire /\ s # r) \/ s = a
    BY DEF Answered
  <1> HIDE DEF a
  <1> QED
    BY <1>1, <1>2

\* GitHub carries a request out or refuses it.
LEMMA AnswersKeepOnce ==
    ASSUME RuntimeIInv, OnceIInv, StoreTypeOK', Orderly, NEW r \in wire, Land(r) \/ Refuse(r)
    PROVE  OnceIInv'
  <1>1. PICK f \in {"landed", "refused"} :
            /\ wire' = Answered(r, f) /\ ops' = ops /\ r.fate = "flying"
            /\ \/ f = "refused" /\ applied' = applied
               \/ /\ f = "landed"
                  /\ applied' = [applied EXCEPT ![r.key] = IF @ < MaxEffects THEN @ + 1 ELSE @]
    BY DEF Land, Refuse, storeVars
  <1>2. \A s \in wire' : \/ s \in wire /\ s # r
                         \/ s.key = r.key /\ s.attempt = r.attempt /\ s.fate = f
    BY <1>1, AnsweredWire
  <1>3. applied \in [Writes -> 0..MaxEffects] /\ r.key \in Writes
    BY DEF RuntimeIInv, RuntimeTypeOK, Request
  <1>4. Sequel'
    BY <1>1, <1>2 DEF OnceIInv, Sequel
  <1>5. ASSUME NEW k \in Writes \ Labels
        PROVE  Once(k)'
    <2>1. Once(k)
      BY <1>5 DEF OnceIInv
    <2>2. Flying(k)' \subseteq Flying(k) \ {r}
      BY <1>2 DEF Flying
    <2>3. CASE r.key # k
      <3>1. applied'[k] = applied[k]
        BY <1>1, <1>3, <2>3
      <3>2. Quiet(k) => Quiet(k)'
        BY <2>2, <3>1 DEF Quiet
      <3>3. \A s \in wire' : s.key = k => s \in wire
        BY <1>2, <2>3
      <3> QED
        BY <1>1, <2>1, <2>2, <3>1, <3>2, <3>3 DEF Once
    <2>4. CASE r.key = k
      <3>1. r \in Flying(k)
        BY <1>1, <2>4 DEF Flying
      <3>2. ~Quiet(k) /\ Flying(k)' = {}
        BY <2>1, <2>2, <3>1 DEF Quiet, Once
      <3>3. applied[k] = 0
        BY <1>3, <2>1, <2>4, <3>1 DEF Once
      <3>4. applied'[k] = IF f = "landed" THEN 1 ELSE 0
        BY <1>1, <1>3, <2>4, <3>3, RuntimeAssumption
      <3>5. ~(ops'[k].state \in {"absent", "pending", "failed"})
            /\ ~(ops'[k].state \in {"running", "unknown"} /\ ~ops'[k].sent)
        BY <1>1, <2>1, <3>2 DEF Once
      <3>6. ASSUME NEW s \in wire', s.key = k, s.fate = "refused", ops'[k].state = "running",
                   ops'[k].attempts = s.attempt
            PROVE  Quiet(k)'
        <4>1. CASE s \in wire
          BY <1>1, <2>1, <3>2, <3>6, <4>1 DEF Once
        <4>2. CASE s.fate = f
          BY <3>2, <3>4, <3>6, <4>2 DEF Quiet
        <4> QED
          BY <1>2, <4>1, <4>2
      <3> QED
        BY <3>2, <3>4, <3>5, <3>6 DEF Once
    <2> QED
      BY <2>3, <2>4
  <1> QED
    BY <1>4, <1>5 DEF OnceIInv

\* The invariant is inductive.
LEMMA OnceStep ==
    ASSUME RuntimeIInv, OnceIInv, [Next]_vars
    PROVE  OnceIInv'
  <1>1. StoreTypeOK' /\ Orderly
    BY StoreStays, StepIsOrderly
  <1>2. ASSUME NEW d \in Deliveries, WorkerStep(d), ~Send(d)
        PROVE  wire' \subseteq wire /\ applied' = applied
    BY <1>2 DEF WorkerStep, GatePass, GateRefuse, Snapshot, RecheckRefuse, StartCommand,
                ReconcileChild, ReconcileFails, ReopenCommand, ClaimCommand, SupersedeCommand,
                SupersedeChildren, HandlerReturns, BeginWrite, ReconcileWrite, ClaimWrite,
                ReadAnswer, FinishCommand, EndComment, Settle, Release, Local
  <1>3. CASE ProcessStep
    <2>1. wire' = wire /\ applied' = applied
      BY <1>3 DEF ProcessStep, OpenStore, PumpStart, PumpResume, PumpReturn, StartWorker, Local
    <2> QED
      BY <1>1, <2>1, OnceKept
  <1>4. CASE GitHubStep
    BY <1>1, <1>4, AnswersKeepOnce DEF GitHubStep
  <1>5. CASE Disturbance \/ OperatorStep
    <2>1. wire' \subseteq wire /\ applied' = applied
      BY <1>5 DEF Disturbance, Crash, Discard, Interrupt, StoreFails, BookkeepingFails, Lose,
                  OperatorStep, OpenStore, CloseCli, Decide, runtimeVars
    <2> QED
      BY <1>1, <2>1, OnceKept
  <1>6. CASE \/ \E d \in Deliveries : Receive(d)
             \/ \E h \in Heads : Push(h)
             \/ PumpCleanup \/ BackoffExpires \/ UNCHANGED vars
    <2>1. wire' = wire /\ applied' = applied
      BY <1>6 DEF Receive, Push, PumpCleanup, BackoffExpires, vars, runtimeVars
    <2> QED
      BY <1>1, <2>1, OnceKept
  <1> QED
    BY <1>1, <1>2, <1>3, <1>4, <1>5, <1>6, OnceKept, SendKeepsOnce DEF Next

\* No request, no effect.
LEMMA OnceStarts ==
    ASSUME Init
    PROVE  OnceIInv
  <1>1. wire = {} /\ applied = [k \in Writes |-> 0]
    BY DEF Init
  <1>2. \A k \in Writes : Quiet(k) /\ Flying(k) = {} /\ applied[k] = 0
    BY <1>1 DEF Quiet, Flying
  <1> QED
    BY <1>1, <1>2 DEF OnceIInv, Sequel, Once

\* A write that is not idempotent takes effect at most once, counting the request on
\* the wire, whatever crashes, times out, is retried or decided by a truthful
\* operator (durable_write, reconcile, recover_running, administer).
THEOREM EffectsAtMostOnce == Spec => []AtMostOnce
  <1>1. Init => OnceIInv
    BY OnceStarts
  <1>2. RuntimeIInv /\ OnceIInv /\ [Next]_vars => OnceIInv'
    BY OnceStep
  <1>3. RuntimeIInv /\ OnceIInv => AtMostOnce
    <2> SUFFICES ASSUME RuntimeIInv, OnceIInv, NEW k \in Writes \ Labels
                 PROVE  applied[k] + Cardinality(Flying(k)) <= 1
      BY DEF AtMostOnce
    <2>1. Once(k) /\ applied[k] \in Nat
      BY DEF OnceIInv, RuntimeIInv, RuntimeTypeOK
    <2>2. CASE Flying(k) = {}
      BY <2>1, <2>2, FS_EmptySet DEF Once
    <2>3. CASE Flying(k) # {}
      <3>1. PICK r : r \in Flying(k)
        BY <2>3
      <3>2. Flying(k) = {r} /\ applied[k] = 0
        BY <2>1, <3>1 DEF Once
      <3>3. Cardinality(Flying(k)) = 1
        BY <3>2, FS_Singleton
      <3> QED
        BY <3>2, <3>3
    <2> QED
      BY <2>2, <2>3
  <1> QED
    BY <1>1, <1>2, <1>3, RuntimeInvariant, PTL DEF Spec

-----------------------------------------------------------------------------
(* Snapshots. *)

\* A write keeps the snapshot of its command.
LEMMA SnapshotsStep ==
    ASSUME RuntimeIInv, OnceIInv, Snapshots, [Next]_vars
    PROVE  Snapshots'
  <1>1. Orderly
    BY StepIsOrderly
  <1> SUFFICES ASSUME NEW k \in Keys, ParentOf[k] # None, ops'[k].state # "absent"
               PROVE  /\ ops'[ParentOf[k]].state # "absent"
                      /\ ops'[k].head = ops'[ParentOf[k]].head
    BY DEF Snapshots
  <1>2. ParentOf[k] \in Keys
    BY KeyAssumption
  <1>3. ops[ParentOf[k]].state # "absent" /\ ops'[k].head = ops[ParentOf[k]].head
    BY <1>1, <1>2 DEF Orderly, Later, Rooted, Snapshots
  <1> QED
    BY <1>1, <1>2, <1>3 DEF Orderly, Later

\* A request leaves only for the delivery whose claim it carries.
LEMMA SentUnderSnapshot ==
    ASSUME RuntimeIInv, Snapshots, NEW d \in Deliveries, Send(d),
           NEW r \in wire' \ wire, NEW e \in Deliveries, Awaits(e, r)'
    PROVE  /\ ops[r.key].head = worker[e].head
           /\ ops[ParentOf[r.key]].head = worker[e].head
  <1> DEFINE w == worker[d]
             k == WriteOf(w)
             q == [key |-> k, attempt |-> w.try, fate |-> "flying"]
             v == [w EXCEPT !.pc = "http"]
  <1>1. w.pc = "mark" /\ wire' = wire \cup {q} /\ Become(d, v)
    BY DEF Send, At
  <1>2. q.key = k
    BY Zenon
  <1> HIDE DEF q, v
  <1>3. r.key = WriteOf(w)
    BY <1>1, <1>2
  <1>4. worker \in [Deliveries -> Worker] /\ Fits(d, w) /\ Fits(e, worker[e])
    BY DEF RuntimeIInv, RuntimeTypeOK
  <1>5. WriteOf(w) \in Keys /\ ParentOf[WriteOf(w)] = Head(w.queue) /\ Head(w.queue) \in CommandKeys
    BY <1>1, InWriteAtHand DEF InWrite
  <1>6. /\ ops[WriteOf(w)].lease = d /\ ops[WriteOf(w)].state = "running"
        /\ ops[Head(w.queue)].head = w.head
    BY <1>1, <1>4 DEF Fits, Leases, Holds, Owns
  <1>7. e = d
    <2> SUFFICES ASSUME e # d
                 PROVE  FALSE
      OBVIOUS
    <2>1. worker'[e] = worker[e]
      BY <1>1, <1>4 DEF Become
    <2>2. worker[e].pc = "http" /\ r.key = WriteOf(worker[e])
      BY <2>1 DEF Awaits, At, WriteOf
    <2>3. ops[WriteOf(worker[e])].lease = e
      BY <1>4, <2>2 DEF Fits, Leases, Holds
    <2> QED
      BY <1>3, <1>6, <2>2, <2>3
  <1>8. ParentOf[WriteOf(w)] # None
    BY <1>5, NoneAssumption DEF CommandKeys
  <1>9. ops[WriteOf(w)].head = ops[Head(w.queue)].head
    BY <1>5, <1>6, <1>8 DEF Snapshots
  <1> QED
    BY <1>3, <1>5, <1>6, <1>7, <1>9

\* Only Send puts a request on the wire.
LEMMA OnlySendsFly ==
    ASSUME RuntimeIInv, [Next]_vars, NEW r \in wire' \ wire, r.fate = "flying"
    PROVE  \E d \in Deliveries : Send(d)
  <1> SUFFICES ASSUME ~\E d \in Deliveries : Send(d)
               PROVE  wire' \subseteq wire \/ r.fate # "flying"
    OBVIOUS
  <1>1. ASSUME NEW d \in Deliveries, WorkerStep(d), ~Send(d)
        PROVE  wire' \subseteq wire
    BY <1>1 DEF WorkerStep, GatePass, GateRefuse, Snapshot, RecheckRefuse, StartCommand,
                ReconcileChild, ReconcileFails, ReopenCommand, ClaimCommand, SupersedeCommand,
                SupersedeChildren, HandlerReturns, BeginWrite, ReconcileWrite, ClaimWrite,
                ReadAnswer, FinishCommand, EndComment, Settle, Release, Local
  <1>2. CASE ProcessStep
    BY <1>2 DEF ProcessStep, OpenStore, PumpStart, PumpResume, PumpReturn, StartWorker, Local
  <1>3. CASE GitHubStep
    <2>1. PICK s \in wire : Land(s) \/ Refuse(s)
      BY <1>3 DEF GitHubStep
    <2>2. PICK f \in {"landed", "refused"} : wire' = Answered(s, f)
      BY <2>1 DEF Land, Refuse
    <2>3. r.fate = f
      BY <2>2, AnsweredWire
    <2> QED
      BY <2>3
  <1>4. CASE Disturbance \/ OperatorStep
    BY <1>4 DEF Disturbance, Crash, Discard, Interrupt, StoreFails, BookkeepingFails, Lose,
                OperatorStep, OpenStore, CloseCli, Decide, runtimeVars
  <1>5. CASE \/ \E d \in Deliveries : Receive(d)
             \/ \E h \in Heads : Push(h)
             \/ PumpCleanup \/ BackoffExpires \/ UNCHANGED vars
    BY <1>5 DEF Receive, Push, PumpCleanup, BackoffExpires, vars, runtimeVars
  <1> QED
    BY <1>1, <1>2, <1>3, <1>4, <1>5 DEF Next

\* No rows.
LEMMA SnapshotsStart ==
    ASSUME Init
    PROVE  Snapshots
  <1>1. NoOperation.state = "absent"
    BY Zenon DEF NoOperation
  <1> QED
    BY <1>1 DEF Init, StoreInit, Snapshots

\* A request leaves, and is repeated, only under the snapshot its command was
\* planned for (run_command, claim).
THEOREM SnapshotsAreKept == Spec => RequestsKeepSnapshot
  <1> DEFINE A == \A r \in wire' \ wire : r.fate = "flying" =>
                 \A d \in Deliveries : Awaits(d, r)' =>
                    /\ ops[r.key].head = worker[d].head
                    /\ ops[ParentOf[r.key]].head = worker[d].head
  <1>1. Init => OnceIInv /\ Snapshots
    BY OnceStarts, SnapshotsStart
  <1>2. RuntimeIInv /\ OnceIInv /\ Snapshots /\ [Next]_vars => OnceIInv' /\ Snapshots'
    BY OnceStep, SnapshotsStep
  <1>3. RuntimeIInv /\ Snapshots /\ [Next]_vars => A
    BY OnlySendsFly, SentUnderSnapshot
  <1>4. RequestsKeepSnapshot <=> [][A]_vars
    BY DEF RequestsKeepSnapshot
  <1> HIDE DEF A
  <1> QED
    BY <1>1, <1>2, <1>3, <1>4, RuntimeInvariant, PTL DEF Spec

-----------------------------------------------------------------------------
(* The promise about external writes. *)

\* What is recorded of a write.
Recorded(k) == CASE ops[k].state = "succeeded" -> "confirmed"
                 [] ops[k].state = "failed" -> "rejected"
                 [] ops[k].state = "superseded" -> "withdrawn"
                 [] OTHER -> "open"

\* No request leaves, none is answered and none takes effect.
Airborne == (\A k \in Writes : Flying(k)' = Flying(k)) /\ applied' = applied

\* The states in which nothing is certain.
Open == {"absent", "pending", "running", "unknown"}

\* The step is one of the promise, or none at all.
Promised == [W!AbstractNext]_(W!abstractVars)

\* What is recorded of a row.
LEMMA ReceiptIs ==
    ASSUME NEW k \in Keys
    PROVE  /\ ops[k].state \in Open => Recorded(k) = "open"
           /\ ops[k].state = "succeeded" => Recorded(k) = "confirmed"
           /\ ops[k].state = "failed" => Recorded(k) = "rejected"
           /\ ops[k].state = "superseded" => Recorded(k) = "withdrawn"
           /\ ops'[k].state \in Open => Recorded(k)' = "open"
           /\ ops'[k].state = "succeeded" => Recorded(k)' = "confirmed"
           /\ ops'[k].state = "failed" => Recorded(k)' = "rejected"
           /\ ops'[k].state = "superseded" => Recorded(k)' = "withdrawn"
           /\ ops'[k].state = ops[k].state => Recorded(k)' = Recorded(k)
  BY DEF Recorded, Open

\* The steps of the promise: none, ...
LEMMA SilentStep ==
    ASSUME Airborne, \A k \in Writes : Recorded(k)' = Recorded(k)
    PROVE  Promised
  <1>1. [k \in Writes |-> Cardinality(Flying(k))]' = [k \in Writes |-> Cardinality(Flying(k))]
    BY DEF Airborne
  <1>2. [k \in Writes |-> Recorded(k)]' = [k \in Writes |-> Recorded(k)]
    OBVIOUS
  <1>3. UNCHANGED W!abstractVars
    BY <1>1, <1>2 DEF Airborne, W!abstractVars, Recorded
  <1> QED
    BY <1>3 DEF Promised

\* ... a confirmation, ...
LEMMA ConfirmStep ==
    ASSUME Airborne, NEW k \in Writes, Recorded(k) \in {"open", "rejected"},
           k \in Labels \/ applied[k] > 0,
           Recorded(k)' = "confirmed", \A j \in Writes \ {k} : Recorded(j)' = Recorded(j)
    PROVE  Promised
  <1>1. [j \in Writes |-> Cardinality(Flying(j))]' = [j \in Writes |-> Cardinality(Flying(j))]
    BY DEF Airborne
  <1>2. [j \in Writes |-> Recorded(j)]'
            = [[j \in Writes |-> Recorded(j)] EXCEPT ![k] = "confirmed"]
    OBVIOUS
  <1>3. W!Confirm(k)
    BY <1>1, <1>2 DEF Airborne, W!Confirm, Recorded
  <1> QED
    BY <1>3 DEF Promised, W!AbstractNext

\* ... a rejection, ...
LEMMA RejectStep ==
    ASSUME Airborne, NEW k \in Writes, Recorded(k) = "open", k \in Labels \/ Quiet(k),
           Recorded(k)' = "rejected", \A j \in Writes \ {k} : Recorded(j)' = Recorded(j)
    PROVE  Promised
  <1>1. [j \in Writes |-> Cardinality(Flying(j))]' = [j \in Writes |-> Cardinality(Flying(j))]
    BY DEF Airborne
  <1>2. [j \in Writes |-> Recorded(j)]'
            = [[j \in Writes |-> Recorded(j)] EXCEPT ![k] = "rejected"]
    OBVIOUS
  <1>3. k \in Labels \/ W!Untouched(k)
    BY FS_EmptySet DEF Quiet, W!Untouched
  <1>4. W!Reject(k)
    BY <1>1, <1>2, <1>3 DEF Airborne, W!Reject, Recorded
  <1> QED
    BY <1>4 DEF Promised, W!AbstractNext

\* ... another attempt, ...
LEMMA ReopenStep ==
    ASSUME Airborne, NEW k \in Writes, Recorded(k) = "rejected",
           Recorded(k)' = "open", \A j \in Writes \ {k} : Recorded(j)' = Recorded(j)
    PROVE  Promised
  <1>1. [j \in Writes |-> Cardinality(Flying(j))]' = [j \in Writes |-> Cardinality(Flying(j))]
    BY DEF Airborne
  <1>2. [j \in Writes |-> Recorded(j)]'
            = [[j \in Writes |-> Recorded(j)] EXCEPT ![k] = "open"]
    OBVIOUS
  <1>3. W!Reopen(k)
    BY <1>1, <1>2 DEF Airborne, W!Reopen, Recorded
  <1> QED
    BY <1>3 DEF Promised, W!AbstractNext

\* ... a withdrawal, ...
LEMMA WithdrawStep ==
    ASSUME Airborne, NEW ks \in SUBSET Writes,
           \A k \in ks : /\ Recorded(k) = "open" /\ (k \in Labels \/ Quiet(k))
                         /\ Recorded(k)' = "withdrawn",
           \A k \in Writes \ ks : Recorded(k)' = Recorded(k)
    PROVE  Promised
  <1>1. [j \in Writes |-> Cardinality(Flying(j))]' = [j \in Writes |-> Cardinality(Flying(j))]
    BY DEF Airborne
  <1>2. [j \in Writes |-> Recorded(j)]' =
            [j \in Writes |-> IF j \in ks THEN "withdrawn" ELSE [i \in Writes |-> Recorded(i)][j]]
    OBVIOUS
  <1>3. \A k \in ks : k \in Labels \/ W!Untouched(k)
    BY FS_EmptySet DEF Quiet, W!Untouched
  <1>4. W!Withdraw(ks)
    BY <1>1, <1>2, <1>3 DEF Airborne, W!Withdraw, Recorded
  <1> QED
    BY <1>4 DEF Promised, W!AbstractNext

\* Finitely many requests; what GitHub carried out had its effect.
Landed ==
    /\ IsFiniteSet(wire)
    /\ \A r \in wire : r.fate = "landed" => applied[r.key] > 0

\* ... a request, ...
LEMMA RequestStep ==
    ASSUME NEW k \in Writes, Recorded(k) = "open", k \in Labels \/ Quiet(k),
           Cardinality(Flying(k)') = Cardinality(Flying(k)) + 1,
           \A j \in Writes \ {k} : Flying(j)' = Flying(j),
           applied' = applied, \A j \in Writes : Recorded(j)' = Recorded(j)
    PROVE  Promised
  <1>1. [j \in Writes |-> Cardinality(Flying(j))]' =
            [[j \in Writes |-> Cardinality(Flying(j))] EXCEPT ![k] = @ + 1]
    OBVIOUS
  <1>2. [j \in Writes |-> Recorded(j)]' = [j \in Writes |-> Recorded(j)]
    OBVIOUS
  <1>3. k \in Labels \/ W!Untouched(k)
    BY FS_EmptySet DEF Quiet, W!Untouched
  <1>4. W!Request(k)
    BY <1>1, <1>2, <1>3 DEF W!Request, Recorded
  <1> QED
    BY <1>4 DEF Promised, W!AbstractNext

\* ... its effect, ...
LEMMA TakeEffectStep ==
    ASSUME NEW k \in Writes, Cardinality(Flying(k)) > 0,
           Cardinality(Flying(k)') = Cardinality(Flying(k)) - 1,
           \A j \in Writes \ {k} : Flying(j)' = Flying(j),
           applied' = [applied EXCEPT ![k] = IF @ < MaxEffects THEN @ + 1 ELSE @],
           \A j \in Writes : Recorded(j)' = Recorded(j)
    PROVE  Promised
  <1>1. [j \in Writes |-> Cardinality(Flying(j))]' =
            [[j \in Writes |-> Cardinality(Flying(j))] EXCEPT ![k] = @ - 1]
    OBVIOUS
  <1>2. [j \in Writes |-> Recorded(j)]' = [j \in Writes |-> Recorded(j)]
    OBVIOUS
  <1>3. W!TakeEffect(k)
    BY <1>1, <1>2 DEF W!TakeEffect, Recorded
  <1> QED
    BY <1>3 DEF Promised, W!AbstractNext

\* ... or its end without one.
LEMMA VanishStep ==
    ASSUME NEW k \in Writes, Cardinality(Flying(k)) > 0,
           Cardinality(Flying(k)') = Cardinality(Flying(k)) - 1,
           \A j \in Writes \ {k} : Flying(j)' = Flying(j),
           applied' = applied, \A j \in Writes : Recorded(j)' = Recorded(j)
    PROVE  Promised
  <1>1. [j \in Writes |-> Cardinality(Flying(j))]' =
            [[j \in Writes |-> Cardinality(Flying(j))] EXCEPT ![k] = @ - 1]
    OBVIOUS
  <1>2. [j \in Writes |-> Recorded(j)]' = [j \in Writes |-> Recorded(j)]
    OBVIOUS
  <1>3. W!Vanish(k)
    BY <1>1, <1>2 DEF W!Vanish, Recorded
  <1> QED
    BY <1>3 DEF Promised, W!AbstractNext

\* Nothing is recorded.
LEMMA RecordedSame ==
    ASSUME \A k \in Writes : ops'[k].state = ops[k].state
    PROVE  \A k \in Writes : Recorded(k)' = Recorded(k)
  BY ReceiptIs DEF Writes

\* Send is a request.
LEMMA SendIsPromised ==
    ASSUME RuntimeIInv, OnceIInv, Landed, NEW d \in Deliveries, Send(d)
    PROVE  Promised
  <1> DEFINE w == worker[d]
             q == [key |-> WriteOf(w), attempt |-> w.try, fate |-> "flying"]
  <1>1. /\ w.pc = "mark" /\ MarkSent(WriteOf(w), w.try) /\ wire' = wire \cup {q}
        /\ applied' = applied
    BY DEF Send, At
  <1>2. q.key = WriteOf(w) /\ q.attempt = w.try /\ q.fate = "flying"
    BY Zenon
  <1> HIDE DEF q
  <1>3. PICK k \in Writes : k = WriteOf(w)
    BY <1>1, WritingAtHand
  <1>4. k \in Keys /\ Holds(d, k, w.try) /\ ~ops[k].sent
    BY <1>1, <1>3, WritingAtHand
  <1>5. ops'[k].state = "running" /\ ops[k].state = "running" /\ ops[k].attempts = w.try
        /\ \A j \in Keys \ {k} : ops'[j] = ops[j]
    BY <1>1, <1>3, <1>4, MarkRows DEF RuntimeIInv, Holds, Owns
  <1>6. Flying(k)' = Flying(k) \cup {q} /\ \A j \in Writes \ {k} : Flying(j)' = Flying(j)
    BY <1>1, <1>2, <1>3 DEF Flying
  <1>7. q \notin Flying(k)
    BY <1>2, <1>4, <1>5 DEF Flying, OnceIInv, Sequel, RuntimeIInv, RuntimeTypeOK, Request
  <1>8. Cardinality(Flying(k)') = Cardinality(Flying(k)) + 1
    <2>1. IsFiniteSet(Flying(k))
      BY FS_Subset DEF Landed, Flying
    <2> QED
      BY <1>6, <1>7, <2>1, FS_AddElement
  <1>9. \A j \in Writes : Recorded(j)' = Recorded(j)
    <2>1. \A j \in Writes : ops'[j].state = ops[j].state
      BY <1>5 DEF Writes
    <2> QED
      BY <2>1, RecordedSame
  <1>10. Recorded(k) = "open" /\ (k \in Labels \/ Quiet(k))
    BY <1>4, <1>5, ReceiptIs DEF Open, OnceIInv, Once
  <1> QED
    BY <1>1, <1>6, <1>8, <1>9, <1>10, RequestStep

\* A request takes effect, is refused or is lost.
LEMMA GitHubIsPromised ==
    ASSUME RuntimeIInv, OnceIInv, Landed, NEW r \in wire, Land(r) \/ Refuse(r) \/ Lose(r)
    PROVE  Promised
  <1>1. r.fate = "flying" /\ r.key \in Writes
    BY DEF Land, Refuse, Lose, RuntimeIInv, RuntimeTypeOK, Request
  <1>2. PICK k \in Writes : k = r.key
    BY <1>1
  <1>3. Flying(k)' = Flying(k) \ {r} /\ \A j \in Writes \ {k} : Flying(j)' = Flying(j)
    <2>1. CASE Lose(r)
      BY <1>1, <1>2, <2>1 DEF Lose, Flying
    <2>2. CASE Land(r) \/ Refuse(r)
      <3>1. PICK f \in {"landed", "refused"} : wire' = Answered(r, f)
        BY <2>2 DEF Land, Refuse
      <3>2. \A s \in wire' : s \in wire \ {r} \/ s.fate # "flying"
        BY <3>1, AnsweredWire
      <3>3. wire \ {r} \subseteq wire'
        BY <3>1 DEF Answered
      <3> QED
        BY <1>2, <3>2, <3>3 DEF Flying
    <2> QED
      BY <2>1, <2>2
  <1>4. r \in Flying(k)
    BY <1>1, <1>2 DEF Flying
  <1>5. Cardinality(Flying(k)') = Cardinality(Flying(k)) - 1 /\ Cardinality(Flying(k)) > 0
    <2>1. IsFiniteSet(Flying(k)) /\ IsFiniteSet(Flying(k) \ {r})
      BY FS_Subset DEF Landed, Flying
    <2>2. Cardinality(Flying(k) \ {r}) = Cardinality(Flying(k)) - 1
      BY <1>4, <2>1, FS_RemoveElement
    <2>3. Cardinality(Flying(k) \ {r}) \in Nat
      BY <2>1, FS_CardinalityType
    <2>4. Cardinality(Flying(k)) \in Nat
      BY <2>1, FS_CardinalityType
    <2> QED
      BY <1>3, <2>2, <2>3, <2>4
  <1>6. \A j \in Writes : Recorded(j)' = Recorded(j)
    <2>1. ops' = ops
      BY DEF Land, Refuse, Lose, storeVars
    <2> QED
      BY <2>1, RecordedSame
  <1>7. CASE Land(r)
    <2>1. applied' = [applied EXCEPT ![k] = IF @ < MaxEffects THEN @ + 1 ELSE @]
      BY <1>2, <1>7 DEF Land
    <2> QED
      BY <1>3, <1>5, <1>6, <2>1, TakeEffectStep
  <1>8. CASE Refuse(r) \/ Lose(r)
    <2>1. applied' = applied
      BY <1>8 DEF Refuse, Lose
    <2> QED
      BY <1>3, <1>5, <1>6, <2>1, VanishStep
  <1> QED
    BY <1>7, <1>8

\* What GitHub carried out had its effect.
LEMMA LandedStep ==
    ASSUME RuntimeIInv, Landed, [Next]_vars
    PROVE  Landed'
  <1>1. ASSUME wire' \subseteq wire, applied' = applied
        PROVE  Landed'
    BY <1>1, FS_Subset DEF Landed
  <1>2. ASSUME NEW d \in Deliveries, WorkerStep(d)
        PROVE  Landed'
    <2>1. CASE Send(d)
      <3> DEFINE q == [key |-> WriteOf(worker[d]), attempt |-> worker[d].try, fate |-> "flying"]
      <3>1. wire' = wire \cup {q} /\ applied' = applied /\ q.fate = "flying"
        BY <2>1 DEF Send
      <3> HIDE DEF q
      <3>2. IsFiniteSet(wire \cup {q})
        BY FS_AddElement DEF Landed
      <3> QED
        BY <3>1, <3>2 DEF Landed
    <2>2. CASE ~Send(d)
      <3>1. wire' \subseteq wire /\ applied' = applied
        BY <1>2, <2>2 DEF WorkerStep, GatePass, GateRefuse, Snapshot, RecheckRefuse, StartCommand,
              ReconcileChild, ReconcileFails, ReopenCommand, ClaimCommand, SupersedeCommand,
              SupersedeChildren, HandlerReturns, BeginWrite, ReconcileWrite, ClaimWrite,
              ReadAnswer, FinishCommand, EndComment, Settle, Release, Local
      <3> QED
        BY <1>1, <3>1
    <2> QED
      BY <2>1, <2>2
  <1>3. CASE ProcessStep
    BY <1>1, <1>3 DEF ProcessStep, OpenStore, PumpStart, PumpResume, PumpReturn, StartWorker, Local
  <1>4. CASE GitHubStep
    <2>1. PICK r \in wire : Land(r) \/ Refuse(r)
      BY <1>4 DEF GitHubStep
    <2>2. PICK f \in {"landed", "refused"} :
              /\ wire' = Answered(r, f)
              /\ \/ f = "refused" /\ applied' = applied
                 \/ /\ f = "landed"
                    /\ applied' = [applied EXCEPT ![r.key] = IF @ < MaxEffects THEN @ + 1 ELSE @]
      BY <2>1 DEF Land, Refuse
    <2>3. \A s \in wire' :
             \/ s \in wire
             \/ s.key = r.key /\ s.fate = f
      <3>1. \A s \in Answered(r, f) :
               \/ s \in wire /\ s # r
               \/ s.key = r.key /\ s.attempt = r.attempt /\ s.fate = f
        BY AnsweredWire
      <3> QED
        BY <2>2, <3>1
    <2>4. applied \in [Writes -> 0..MaxEffects] /\ \A s \in wire : s.key \in Writes
      BY DEF RuntimeIInv, RuntimeTypeOK, Request
    <2>5. \A k \in Writes : applied[k] > 0 => applied'[k] > 0
      BY <2>2, <2>4
    <2>6. f = "landed" => applied'[r.key] > 0
      BY <2>2, <2>4, RuntimeAssumption
    <2>7. IsFiniteSet(wire')
      <3>1. IsFiniteSet(wire \ {r})
        BY FS_Subset DEF Landed
      <3>2. IsFiniteSet((wire \ {r}) \cup {[r EXCEPT !.fate = f]})
        BY <3>1, FS_AddElement
      <3> QED
        BY <2>2, <3>1, <3>2 DEF Answered
    <2> QED
      BY <2>3, <2>4, <2>5, <2>6, <2>7 DEF Landed
  <1>5. CASE Disturbance \/ OperatorStep
    BY <1>1, <1>5 DEF Disturbance, Crash, Discard, Interrupt, StoreFails, BookkeepingFails, Lose,
                      OperatorStep, OpenStore, CloseCli, Decide, runtimeVars
  <1>6. CASE \/ \E d \in Deliveries : Receive(d)
             \/ \E h \in Heads : Push(h)
             \/ PumpCleanup \/ BackoffExpires \/ UNCHANGED vars
    BY <1>1, <1>6 DEF Receive, Push, PumpCleanup, BackoffExpires, vars, runtimeVars
  <1> QED
    BY <1>2, <1>3, <1>4, <1>5, <1>6 DEF Next

\* A step that touches at most the row of a command.
LEMMA CommandRowIsSilent ==
    ASSUME Airborne, NEW c \in Keys, c \notin Writes, \A j \in Keys \ {c} : ops'[j] = ops[j]
    PROVE  Promised
  <1>1. \A j \in Writes : ops'[j].state = ops[j].state
    BY DEF Writes
  <1> QED
    BY <1>1, RecordedSame, SilentStep

\* A step that touches the row of one write and leaves it open.
LEMMA OpenRowIsSilent ==
    ASSUME Airborne, NEW k \in Keys, ops[k].state \in Open, ops'[k].state \in Open,
           \A j \in Keys \ {k} : ops'[j] = ops[j]
    PROVE  Promised
  <1>1. \A j \in Writes : Recorded(j)' = Recorded(j)
    <2> TAKE j \in Writes
    <2>1. j \in Keys
      BY DEF Writes
    <2> QED
      BY <2>1, ReceiptIs
  <1> QED
    BY <1>1, SilentStep

\* A write is confirmed.
LEMMA ConfirmedRow ==
    ASSUME Airborne, NEW k \in Writes, ops[k].state \in Open \cup {"failed"},
           ops'[k].state = "succeeded", k \in Labels \/ applied[k] > 0,
           \A j \in Writes \ {k} : ops'[j] = ops[j]
    PROVE  Promised
  <1>1. k \in Keys /\ \A j \in Writes : j \in Keys
    BY DEF Writes
  <1>2. Recorded(k) \in {"open", "rejected"} /\ Recorded(k)' = "confirmed"
    BY <1>1, ReceiptIs
  <1>3. \A j \in Writes \ {k} : Recorded(j)' = Recorded(j)
    BY <1>1, ReceiptIs
  <1> QED
    BY <1>2, <1>3, ConfirmStep

\* A recovery pass records nothing.
LEMMA RecoveryIsSilent ==
    ASSUME RuntimeIInv, Airborne, NEW S,
           ops' = [k \in Keys |-> IF ops[k].state = "running" /\ k \in S
                     THEN [ops[k] EXCEPT !.state = "unknown"] ELSE ops[k]]
    PROVE  Promised
  <1>1. \A j \in Keys : \/ ops'[j] = ops[j]
                        \/ ops[j].state = "running" /\ ops'[j].state = "unknown"
    BY RecoverRows DEF RuntimeIInv
  <1>2. \A j \in Writes : Recorded(j)' = Recorded(j)
    <2> TAKE j \in Writes
    <2>1. j \in Keys
      BY DEF Writes
    <2> QED
      BY <1>1, <2>1, ReceiptIs DEF Open
  <1> QED
    BY <1>2, SilentStep

\* A reconciliation records what happened.
LEMMA ReconcileIsPromised ==
    ASSUME RuntimeIInv, Airborne, NEW k \in Writes, NEW a, NEW s, Reconcile(k, a, s)
    PROVE  Promised
  <1>1. k \in Keys
    BY DEF Writes
  <1>2. CASE UNCHANGED storeVars
    BY <1>2, RecordedSame, SilentStep DEF storeVars
  <1>3. ASSUME NEW o \in {"not_sent", "retry_idempotent"}, ResolveUnknown(k, a, o)
        PROVE  Promised
    <2>1. /\ ops[k].state = "unknown" /\ ops'[k].state = "pending"
          /\ \A j \in Keys \ {k} : ops'[j] = ops[j]
      BY <1>1, <1>3, ResolveRows DEF RuntimeIInv
    <2> QED
      BY <1>1, <2>1, OpenRowIsSilent DEF Open
  <1>4. CASE ResolveUnknown(k, a, "succeeded") /\ (k \in Labels \/ applied[k] > 0)
    <2>1. /\ ops[k].state = "unknown" /\ ops'[k].state = "succeeded"
          /\ \A j \in Keys \ {k} : ops'[j] = ops[j]
      BY <1>1, <1>4, ResolveRows DEF RuntimeIInv
    <2>2. \A j \in Writes \ {k} : ops'[j] = ops[j]
      BY <2>1 DEF Writes
    <2> QED
      BY <1>4, <2>1, <2>2, ConfirmedRow DEF Open
  <1> QED
    BY <1>2, <1>3, <1>4 DEF Reconcile, Labels

\* An answer is recorded as it was.
LEMMA AnswerIsPromised ==
    ASSUME RuntimeIInv, OnceIInv, Landed, NEW d \in Deliveries, ReadAnswer(d)
    PROVE  Promised
  <1> DEFINE w == worker[d]
  <1>1. PICK k \in Writes : k = WriteOf(w)
    BY WritingAtHand DEF ReadAnswer, At
  <1>2. /\ w.pc = "http"
        /\ \/ Finish(k, w.try, "succeeded") /\ \E r \in wire : r.key = k /\ r.fate = "landed"
           \/ Finish(k, w.try, "unknown")
           \/ /\ Finish(k, w.try, "failed")
              /\ \E r \in wire : r.key = k /\ r.attempt = w.try /\ r.fate = "refused"
    BY <1>1 DEF ReadAnswer, At, Awaits
  <1>3. Airborne
    BY DEF ReadAnswer, Airborne, Flying
  <1>4. k \in Keys /\ ops[k].state = "running" /\ ops[k].attempts = w.try
    BY <1>1, <1>2, WritingAtHand DEF Holds, Owns
  <1>5. ASSUME NEW s, Finish(k, w.try, s)
        PROVE  ops'[k].state = s /\ \A j \in Keys \ {k} : ops'[j] = ops[j]
    BY <1>4, <1>5, FinishRows DEF RuntimeIInv
  <1>6. CASE Finish(k, w.try, "succeeded") /\ \E r \in wire : r.key = k /\ r.fate = "landed"
    <2>1. applied[k] > 0
      BY <1>6 DEF Landed
    <2>2. \A j \in Writes \ {k} : ops'[j] = ops[j]
      BY <1>5, <1>6 DEF Writes
    <2> QED
      BY <1>3, <1>4, <1>5, <1>6, <2>1, <2>2, ConfirmedRow DEF Open
  <1>7. CASE Finish(k, w.try, "unknown")
    BY <1>3, <1>4, <1>5, <1>7, OpenRowIsSilent DEF Open
  <1>8. CASE /\ Finish(k, w.try, "failed")
             /\ \E r \in wire : r.key = k /\ r.attempt = w.try /\ r.fate = "refused"
    <2>1. k \in Labels \/ Quiet(k)
      BY <1>4, <1>8 DEF OnceIInv, Once
    <2>2. Recorded(k) = "open" /\ Recorded(k)' = "rejected"
      BY <1>4, <1>5, <1>8, ReceiptIs DEF Open
    <2>3. \A j \in Writes \ {k} : Recorded(j)' = Recorded(j)
      <3> TAKE j \in Writes \ {k}
      <3>1. j \in Keys /\ ops'[j] = ops[j]
        BY <1>5, <1>8 DEF Writes
      <3> QED
        BY <3>1, ReceiptIs
    <2> QED
      BY <1>3, <2>1, <2>2, <2>3, RejectStep
  <1> QED
    BY <1>2, <1>6, <1>7, <1>8

\* Only writes that nobody sent are withdrawn.
LEMMA WithdrawalIsPromised ==
    ASSUME RuntimeIInv, OnceIInv, Airborne, NEW c \in Keys, SupersedeUnsentChildren(c)
    PROVE  Promised
  <1> DEFINE ks == {k \in Writes : ops'[k].state # ops[k].state}
  <1>1. \A j \in Keys : \/ ops'[j] = ops[j]
                        \/ ops[j].state = "pending" /\ ops'[j].state = "superseded"
    BY SupersedeRows DEF RuntimeIInv
  <1>2. ASSUME NEW k \in ks
        PROVE  /\ Recorded(k) = "open" /\ (k \in Labels \/ Quiet(k))
               /\ Recorded(k)' = "withdrawn"
    <2>1. k \in Keys /\ k \in Writes
      BY DEF Writes
    <2>2. ops[k].state = "pending" /\ ops'[k].state = "superseded"
      BY <1>1, <2>1
    <2>3. k \in Labels \/ Quiet(k)
      BY <2>1, <2>2 DEF OnceIInv, Once
    <2> QED
      BY <2>1, <2>2, <2>3, ReceiptIs DEF Open
  <1>3. \A k \in Writes \ ks : Recorded(k)' = Recorded(k)
    <2> TAKE k \in Writes \ ks
    <2>1. k \in Keys /\ ops'[k].state = ops[k].state
      BY DEF Writes
    <2> QED
      BY <2>1, ReceiptIs
  <1>4. ks \in SUBSET Writes
    OBVIOUS
  <1> HIDE DEF ks
  <1> QED
    BY <1>2, <1>3, <1>4, WithdrawStep

\* A truthful operator confirms what happened and reopens what did not.
LEMMA DecisionIsPromised ==
    ASSUME RuntimeIInv, OnceIInv, Airborne, NEW k \in Keys,
           NEW decision \in {"confirm-success", "confirm-not-sent", "retry"},
           Evidence(k, decision), Administer(k, decision)
    PROVE  Promised
  <1>1. \A j \in Writes \ {k} : ops'[j] = ops[j]
    <2>1. \A j \in Writes : j # ParentOf[k]
      BY RuntimeAssumption
    <2> QED
      BY <2>1 DEF Administer, Writes
  <1>2. ops[k].state \in {"unknown", "failed"}
        /\ ops'[k].state = IF decision = "confirm-success" THEN "succeeded" ELSE "pending"
    <2>1. ops[k].state \in {"unknown", "failed"} /\ ops[k] \in Operation
      BY DEF Administer, RuntimeIInv, StoreTypeOK
    <2> DEFINE s == IF decision = "confirm-success" THEN "succeeded" ELSE "pending"
    <2>2. ops'[k] = [ops[k] EXCEPT !.state = s, !.sent = FALSE, !.due = TRUE]
      BY DEF Administer
    <2> HIDE DEF s
    <2>3. ops'[k].state = s
      BY <2>1, <2>2 DEF Operation
    <2> QED
      BY <2>1, <2>3 DEF s
  <1>3. \A j \in Writes \ {k} : Recorded(j)' = Recorded(j)
    <2> TAKE j \in Writes \ {k}
    <2>1. j \in Keys /\ ops'[j] = ops[j]
      BY <1>1 DEF Writes
    <2> QED
      BY <2>1, ReceiptIs
  <1>4. CASE k \notin Writes
    BY <1>3, <1>4, SilentStep
  <1>5. CASE k \in Writes /\ decision = "confirm-success"
    <2>1. applied[k] > 0
      BY <1>5 DEF Evidence
    <2> QED
      BY <1>1, <1>2, <1>5, <2>1, ConfirmedRow DEF Open
  <1>6. CASE k \in Writes /\ decision # "confirm-success" /\ ops[k].state = "failed"
    <2>1. Recorded(k) = "rejected" /\ Recorded(k)' = "open"
      BY <1>2, <1>6, ReceiptIs DEF Open
    <2> QED
      BY <1>3, <1>6, <2>1, ReopenStep
  <1>7. CASE k \in Writes /\ decision # "confirm-success" /\ ops[k].state = "unknown"
    <2>1. Recorded(k)' = Recorded(k)
      BY <1>2, <1>7, ReceiptIs DEF Open
    <2> QED
      BY <1>3, <2>1, SilentStep
  <1> QED
    BY <1>2, <1>4, <1>5, <1>6, <1>7

\* The other steps of a worker.
LEMMA WorkerIsPromised ==
    ASSUME RuntimeIInv, OnceIInv, Landed, NEW d \in Deliveries, WorkerStep(d),
           ~Send(d), ~ReadAnswer(d)
    PROVE  Promised
  <1> DEFINE w == worker[d]
             c == Head(w.queue)
             k == WriteOf(w)
  <1>1. Airborne
    <2>1. wire' = wire /\ applied' = applied
      BY DEF WorkerStep, GatePass, GateRefuse, Snapshot, RecheckRefuse, StartCommand,
             ReconcileChild, ReconcileFails, ReopenCommand, ClaimCommand, SupersedeCommand,
             SupersedeChildren, HandlerReturns, BeginWrite, ReconcileWrite, ClaimWrite,
             FinishCommand, EndComment, Settle, Release, Local
    <2> QED
      BY <2>1 DEF Airborne, Flying
  <1>2. ASSUME ops' = ops
        PROVE  Promised
    BY <1>1, <1>2, RecordedSame, SilentStep
  <1>3. ASSUME NEW j \in Keys, j \notin Writes, FailUnsent(j)
        PROVE  Promised
    <2>1. \A i \in Keys \ {j} : ops'[i] = ops[i]
      BY <1>3 DEF FailUnsent, RuntimeIInv, StoreTypeOK
    <2> QED
      BY <1>1, <1>3, <2>1, CommandRowIsSilent
  <1>4. ASSUME w.pc \in InCommand
        PROVE  c \in Keys /\ c \notin Writes
    BY <1>4, BusyAtHand, CommandIsPlanner
  <1>5. \/ GatePass(d) \/ Snapshot(d) \/ StartCommand(d) \/ HandlerReturns(d)
        \/ BeginWrite(d) \/ EndComment(d) \/ Release(d)
        => Promised
    <2>1. \/ GatePass(d) \/ Snapshot(d) \/ StartCommand(d) \/ HandlerReturns(d)
          \/ BeginWrite(d) \/ EndComment(d) \/ Release(d)
          => ops' = ops
      BY DEF GatePass, Snapshot, StartCommand, HandlerReturns, BeginWrite, EndComment,
             Release, FinishInbox, storeVars
    <2> QED
      BY <1>2, <2>1
  <1>6. CASE GateRefuse(d)
    <2>1. w.gate # <<>> /\ FailUnsent(Head(w.gate))
      BY <1>6 DEF GateRefuse
    <2>2. Head(w.gate) \in Keys /\ Head(w.gate) \notin Writes
      BY <2>1, WorkerTyped, FirstInQueue, CommandIsPlanner
    <2> QED
      BY <1>3, <2>1, <2>2
  <1>7. CASE RecheckRefuse(d)
    <2>1. w.queue # <<>> /\ FailUnsent(c)
      BY <1>7 DEF RecheckRefuse
    <2>2. c \in Keys /\ c \notin Writes
      BY <2>1, WorkerTyped, FirstInQueue, CommandIsPlanner
    <2> QED
      BY <1>3, <2>1, <2>2
  <1>8. CASE ReconcileChild(d)
    <2>1. PICK r \in w.todo : Reconcile(r.key, r.attempt, r.sent) \/ UNCHANGED storeVars
      BY <1>8 DEF ReconcileChild, ReconcileFails
    <2>2. r.key \in Writes
      BY WorkerTyped DEF Child
    <2> QED
      BY <1>1, <1>2, <2>1, <2>2, ReconcileIsPromised DEF storeVars
  <1>9. CASE ReconcileWrite(d)
    <2>1. w.pc = "lookup" /\ (Reconcile(k, w.try, ops[k].sent) \/ UNCHANGED storeVars)
      BY <1>9 DEF ReconcileWrite, ReconcileFails, At
    <2>2. k \in Writes
      BY <2>1, WritingAtHand
    <2> QED
      BY <1>1, <1>2, <2>1, <2>2, ReconcileIsPromised DEF storeVars
  <1>10. CASE ReopenCommand(d)
    <2>1. w.pc \in InCommand /\ (UNCHANGED storeVars \/ ResolveUnknown(c, w.old, "not_sent"))
      BY <1>10 DEF ReopenCommand, At, InCommand
    <2>2. ResolveUnknown(c, w.old, "not_sent") => \A j \in Keys \ {c} : ops'[j] = ops[j]
      BY <1>4, <2>1, ResolveRows DEF RuntimeIInv
    <2> QED
      BY <1>1, <1>2, <1>4, <2>1, <2>2, CommandRowIsSilent DEF storeVars
  <1>11. CASE ClaimCommand(d)
    <2>1. w.pc \in InCommand /\ (UNCHANGED storeVars \/ Claim(c, d, w.head))
      BY <1>11 DEF ClaimCommand, At, InCommand
    <2>2. Claim(c, d, w.head) => \A j \in Keys \ {c} : ops'[j] = ops[j]
      BY <1>4, <2>1, ClaimRows DEF RuntimeIInv
    <2> QED
      BY <1>1, <1>2, <1>4, <2>1, <2>2, CommandRowIsSilent DEF storeVars
  <1>12. CASE SupersedeCommand(d) \/ FinishCommand(d)
    <2>1. w.pc \in InCommand /\ \E s : Finish(c, w.run, s)
      BY <1>12 DEF SupersedeCommand, FinishCommand, At, InCommand
    <2>2. \A j \in Keys \ {c} : ops'[j] = ops[j]
      BY <1>4, <2>1, FinishRows DEF RuntimeIInv
    <2> QED
      BY <1>1, <1>4, <2>1, <2>2, CommandRowIsSilent
  <1>13. CASE SupersedeChildren(d)
    <2>1. w.pc \in InCommand /\ SupersedeUnsentChildren(c)
      BY <1>13 DEF SupersedeChildren, At, InCommand
    <2> QED
      BY <1>1, <1>4, <2>1, WithdrawalIsPromised
  <1>14. CASE ClaimWrite(d)
    <2>1. w.pc = "claimWrite" /\ (UNCHANGED storeVars \/ Claim(k, d, w.head))
      BY <1>14 DEF ClaimWrite, At
    <2>2. k \in Keys
      BY <2>1, WritingAtHand
    <2>3. CASE Claim(k, d, w.head)
      <3>1. /\ ops[k].state \in Open /\ ops'[k].state \in Open
            /\ \A j \in Keys \ {k} : ops'[j] = ops[j]
        BY <2>2, <2>3, ClaimRows DEF RuntimeIInv, Open
      <3> HIDE DEF k
      <3> QED
        BY <1>1, <2>2, <3>1, OpenRowIsSilent
    <2> QED
      BY <1>2, <2>1, <2>3 DEF storeVars
  <1>15. CASE Settle(d)
    <2> DEFINE S == {j \in Keys : ops[j].lease = d}
    <2>1. ops' = [j \in Keys |-> IF ops[j].state = "running" /\ j \in S
                    THEN [ops[j] EXCEPT !.state = "unknown"] ELSE ops[j]]
      BY <1>15 DEF Settle, RecoverDelivery
    <2> HIDE DEF S
    <2> QED
      BY <1>1, <2>1, RecoveryIsSilent
  <1> QED
    BY <1>5, <1>6, <1>7, <1>8, <1>9, <1>10, <1>11, <1>12, <1>13, <1>14, <1>15 DEF WorkerStep

\* Every step is one of the promise.
LEMMA StepIsPromised ==
    ASSUME RuntimeIInv, OnceIInv, Landed, [Next]_vars
    PROVE  Promised
  <1>1. ASSUME wire' = wire, applied' = applied, ops' = ops
        PROVE  Promised
    BY <1>1, RecordedSame, SilentStep DEF Airborne, Flying
  <1>2. ASSUME wire' = wire, applied' = applied, RecoverRunning
        PROVE  Promised
    <2>1. ops' = [k \in Keys |-> IF ops[k].state = "running" /\ k \in Keys
                    THEN [ops[k] EXCEPT !.state = "unknown"] ELSE ops[k]]
      BY <1>2 DEF RecoverRunning
    <2> QED
      BY <1>2, <2>1, RecoveryIsSilent DEF Airborne, Flying
  <1>3. CASE ProcessStep
    <2>1. /\ wire' = wire /\ applied' = applied
          /\ RecoverRunning \/ ops' = ops
      BY <1>3 DEF ProcessStep, OpenStore, PumpStart, PumpResume, ResumeInbox, PumpReturn,
                  StartWorker, ClaimInbox, storeVars, Local
    <2> QED
      BY <1>1, <1>2, <2>1
  <1>4. CASE GitHubStep
    BY <1>4, GitHubIsPromised DEF GitHubStep
  <1>5. CASE Disturbance
    <2>1. CASE \E r \in wire : Lose(r)
      BY <2>1, GitHubIsPromised
    <2>2. CASE ~\E r \in wire : Lose(r)
      <3>1. wire' = wire /\ applied' = applied /\ ops' = ops
        BY <1>5, <2>2 DEF Disturbance, Crash, Discard, Interrupt, StoreFails, BookkeepingFails,
                          storeVars
      <3> QED
        BY <1>1, <3>1
    <2> QED
      BY <2>1, <2>2
  <1>6. CASE OperatorStep
    <2>1. wire' = wire /\ applied' = applied
      BY <1>6 DEF OperatorStep, OpenStore, CloseCli, Decide, runtimeVars
    <2>2. CASE \E k \in Keys, decision \in {"confirm-success", "confirm-not-sent", "retry"} :
                  Decide(k, decision)
      BY <2>1, <2>2, DecisionIsPromised DEF Decide, Airborne, Flying
    <2>3. CASE OpenStore("cli") \/ CloseCli
      BY <1>1, <1>2, <2>1, <2>3 DEF OpenStore, CloseCli, storeVars
    <2> QED
      BY <1>6, <2>2, <2>3 DEF OperatorStep
  <1>7. CASE \/ \E d \in Deliveries : Receive(d)
             \/ \E h \in Heads : Push(h)
             \/ PumpCleanup \/ UNCHANGED vars
    <2>1. wire' = wire /\ applied' = applied /\ ops' = ops
      BY <1>7 DEF Receive, Enqueue, Push, PumpCleanup, CleanupInbox, vars, storeVars, runtimeVars
    <2> QED
      BY <1>1, <2>1
  <1>8. CASE BackoffExpires
    <2>1. wire' = wire /\ applied' = applied
      BY <1>8 DEF BackoffExpires, runtimeVars
    <2>2. \A j \in Writes : ops'[j].state = ops[j].state
      BY <1>8, DueRows DEF BackoffExpires, InboxDue, RuntimeIInv, Writes
    <2> QED
      BY <2>1, <2>2, RecordedSame, SilentStep DEF Airborne, Flying
  <1>9. ASSUME NEW d \in Deliveries, WorkerStep(d)
        PROVE  Promised
    BY <1>9, WorkerIsPromised, SendIsPromised, AnswerIsPromised
  <1> QED
    BY <1>3, <1>4, <1>5, <1>6, <1>7, <1>8, <1>9 DEF Next

\* No request, no effect, nothing recorded.
LEMMA PromiseStarts ==
    ASSUME Init
    PROVE  Landed /\ W!AbstractInit
  <1>1. /\ wire = {} /\ applied = [k \in Writes |-> 0]
        /\ ops = [k \in Keys |-> NoOperation]
    BY DEF Init, StoreInit
  <1>2. Landed
    BY <1>1, FS_EmptySet DEF Landed
  <1>3. \A k \in Writes : Cardinality(Flying(k)) = 0
    <2>1. \A k \in Writes : Flying(k) = {}
      BY <1>1 DEF Flying
    <2> QED
      BY <2>1, FS_EmptySet
  <1>4. NoOperation.state = "absent"
    BY Zenon DEF NoOperation
  <1>5. \A k \in Writes : Recorded(k) = "open"
    BY <1>1, <1>4 DEF Recorded, Writes
  <1>6. [k \in Writes |-> Cardinality(Flying(k))] = [k \in Writes |-> 0]
    BY <1>3
  <1>7. [k \in Writes |-> Recorded(k)] = [k \in Writes |-> "open"]
    BY <1>5
  <1>8. W!AbstractInit
    BY <1>1, <1>6, <1>7 DEF W!AbstractInit, Recorded
  <1> QED
    BY <1>2, <1>8

\* The worker keeps the promise about external writes: only an idempotent write is
\* requested again while an earlier request may still take effect, and the receipt
\* that is finally recorded tells the truth (durable_write, reconcile, administer).
THEOREM PromiseImplemented == Spec => ImplementsDurableWrite
  <1>1. Init => OnceIInv /\ Landed /\ W!AbstractInit
    BY OnceStarts, PromiseStarts
  <1>2. RuntimeIInv /\ OnceIInv /\ Landed /\ [Next]_vars => OnceIInv' /\ Landed'
    BY OnceStep, LandedStep
  <1>3. RuntimeIInv /\ OnceIInv /\ Landed /\ [Next]_vars => [W!AbstractNext]_(W!abstractVars)
    BY StepIsPromised DEF Promised
  <1>4. ImplementsDurableWrite <=> W!AbstractInit /\ [][W!AbstractNext]_(W!abstractVars)
    BY DEF ImplementsDurableWrite, W!AbstractSpec
  <1> QED
    BY <1>1, <1>2, <1>3, <1>4, RuntimeInvariant, PTL DEF Spec

=============================================================================
