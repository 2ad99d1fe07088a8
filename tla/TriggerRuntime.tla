--------------------------- MODULE TriggerRuntime ---------------------------
(***************************************************************************)
(* The durable comment-command worker of src/trigger_state/runtime.rs over *)
(* the ledger of TriggerStore: the pump, one worker per claimed delivery,  *)
(* the command planner and its checkpointed GitHub writes, and reconcile.  *)
(*                                                                         *)
(* An action ends where the code awaits or where a crash between two       *)
(* committed statements can be told apart.  GitHub is the set of requests  *)
(* on the wire and the number of times each write took effect: a request   *)
(* outlives the worker, the timeout and the process that sent it.          *)
(***************************************************************************)
EXTENDS TriggerStore, Sequences

CONSTANTS
    CommandsOf,    \* delivery -> the commands of its comment, in source order
    WritesOf,      \* command -> the writes its handler attempts, in order
    Refusable,     \* the commands that policy or authorization may refuse
    MaxWorkers,    \* concurrent deliveries (8)
    MaxEffects,    \* bound: effects of one write that are counted
    MaxFaults      \* bound: crashes, interruptions, lost answers, store errors

ASSUME RuntimeAssumption ==
    /\ CommandsOf \in [Deliveries -> Seq(Keys)]
    /\ \A d \in Deliveries : \A i \in DOMAIN CommandsOf[d] : KindOf[CommandsOf[d][i]] = "command"
    /\ WritesOf \in [{k \in Keys : KindOf[k] = "command"} -> Seq(Writes)]
    /\ \A c \in DOMAIN WritesOf : \A i \in DOMAIN WritesOf[c] :
          ParentOf[WritesOf[c][i]] = c /\ KindOf[WritesOf[c][i]] # "notification_ledger"
    /\ \A k \in Keys : ParentOf[k] \notin Writes
    /\ Refusable \subseteq Keys
    /\ MaxWorkers \in Nat \ {0} /\ MaxFaults \in Nat /\ MaxEffects \in Nat \ {0}
    /\ MaxLeases # 0

VARIABLES
    owner,     \* which process holds the database lock
    pump,      \* Runtime.pump_with: off, resuming, on or draining
    worker,    \* the future processing each delivery
    head,      \* the pull request's head/base snapshot at GitHub
    wire,      \* requests GitHub has not answered, or whose answer is unread
    applied,   \* how often each write took effect at GitHub
    faults

runtimeVars == <<owner, pump, worker, head, wire, applied, faults>>
vars == <<storeVars, runtimeVars>>

CommandKeys == {k \in Keys : KindOf[k] = "command"}
Labels == {k \in Writes : KindOf[k] = "ensure_labels"}
Places == {"idle", "gate", "command", "children", "claim", "stale", "supersede",
           "write", "lookup", "claimWrite", "mark", "http", "finish", "settle", "release"}

IdleWorker == [pc |-> "idle", lease |-> 0, gate |-> <<>>, queue |-> <<>>, head |-> None,
               old |-> 0, todo |-> {}, run |-> 0, step |-> 0, try |-> 0,
               blocked |-> FALSE, status |-> "ok", outer |-> FALSE, problem |-> FALSE]

Child == [key : Writes, attempt : Nat, sent : BOOLEAN]
Worker == [pc : Places, lease : Nat, gate : Seq(CommandKeys), queue : Seq(CommandKeys),
           head : Heads \cup {None}, old : Nat, todo : SUBSET Child, run : Nat, step : Nat,
           try : Nat, blocked : BOOLEAN, status : {"ok", "error"}, outer : BOOLEAN,
           problem : BOOLEAN]
Request == [key : Writes, attempt : Nat, fate : {"flying", "landed", "refused"}]

RuntimeTypeOK ==
    /\ owner \in {"none", "server", "cli"}
    /\ pump \in {"off", "resuming", "on", "draining"}
    /\ worker \in [Deliveries -> Worker]
    /\ head \in Heads
    /\ wire \subseteq Request
    /\ applied \in [Writes -> 0..MaxEffects]
    /\ faults \in 0..MaxFaults

Init ==
    /\ StoreInit
    /\ owner = "none"
    /\ pump = "off"
    /\ worker = [d \in Deliveries |-> IdleWorker]
    /\ head \in Heads
    /\ wire = {}
    /\ applied = [k \in Writes |-> 0]
    /\ faults = 0

Active == {d \in Deliveries : worker[d].pc # "idle"}
At(d, pc) == worker[d].pc = pc
Fault == faults < MaxFaults /\ faults' = faults + 1
Become(d, w) == worker' = [worker EXCEPT ![d] = w]

\* A worker's step that leaves the process, the wire and GitHub alone.
Local == UNCHANGED <<owner, pump, head, wire, applied, faults>>

-----------------------------------------------------------------------------
(* The process and the pump. *)

Receive(d) ==
    /\ owner = "server"
    /\ Enqueue(d)
    /\ UNCHANGED runtimeVars

\* Store::open: whatever the previous owner was running is uncertain.
OpenStore(process) ==
    /\ owner = "none"
    /\ RecoverRunning
    /\ owner' = process
    /\ UNCHANGED <<pump, worker, head, wire, applied, faults>>

Crash ==
    /\ owner = "server"
    /\ Fault
    /\ owner' = "none"
    /\ pump' = "off"
    /\ worker' = [d \in Deliveries |-> IdleWorker]
    /\ UNCHANGED <<storeVars, head, wire, applied>>

CloseCli ==
    /\ owner = "cli"
    /\ owner' = "none"
    /\ UNCHANGED <<storeVars, pump, worker, head, wire, applied, faults>>

PumpStart ==
    /\ owner = "server"
    /\ pump = "off"
    /\ RecoverRunning
    /\ pump' = "resuming"
    /\ UNCHANGED <<owner, worker, head, wire, applied, faults>>

\* Faulty variant: interrupted envelopes are not requeued.
PumpResumeForgets ==
    /\ pump = "resuming"
    /\ pump' = "on"
    /\ UNCHANGED <<storeVars, owner, worker, head, wire, applied, faults>>

PumpResume ==
    /\ pump = "resuming"
    /\ ResumeInbox
    /\ pump' = "on"
    /\ UNCHANGED <<owner, worker, head, wire, applied, faults>>

PumpCleanup ==
    /\ pump = "on"
    /\ \E old \in SUBSET Deliveries : old # {} /\ CleanupInbox(old)
    /\ UNCHANGED runtimeVars

\* The pump returns when nothing is due, or when the last worker has drained.
PumpReturn ==
    /\ pump \in {"on", "draining"}
    /\ Active = {}
    /\ pump = "on" => ~\E d \in Deliveries : inbox[d].state = "pending" /\ inbox[d].due
    /\ pump' = "off"
    /\ UNCHANGED <<storeVars, owner, worker, head, wire, applied, faults>>

StartWorker(d) ==
    /\ pump = "on"
    /\ Cardinality(Active) < MaxWorkers
    /\ ClaimInbox(d)
    /\ Become(d, [IdleWorker EXCEPT !.pc = "gate", !.lease = inbox'[d].attempts,
                                    !.gate = CommandsOf[d]])
    /\ Local

-----------------------------------------------------------------------------
(* Gating the comment's candidates, and one command after another. *)

\* Current policy and authorization admit or refuse the next candidate.
GatePass(d) == LET w == worker[d] IN
    /\ At(d, "gate") /\ w.gate # <<>>
    /\ Become(d, [w EXCEPT !.gate = Tail(@), !.queue = Append(@, Head(w.gate))])
    /\ UNCHANGED storeVars /\ Local

GateRefuse(d) == LET w == worker[d] IN
    /\ At(d, "gate") /\ w.gate # <<>> /\ Head(w.gate) \in Refusable
    /\ FailUnsent(Head(w.gate))
    /\ Become(d, [w EXCEPT !.gate = Tail(@)])
    /\ Local

\* The repository was removed from the deployment's scope: the envelope is
\* discarded as done, whatever its operations still need.
Discard(d) ==
    /\ At(d, "gate") /\ worker[d].gate = CommandsOf[d]
    /\ Fault
    /\ Become(d, [worker[d] EXCEPT !.pc = "settle", !.gate = <<>>])
    /\ UNCHANGED <<storeVars, owner, pump, head, wire, applied>>

\* One look at the pull request serves every command of the comment.
Snapshot(d) == LET w == worker[d] IN
    /\ At(d, "gate") /\ w.gate = <<>>
    /\ Become(d, [w EXCEPT !.pc = "command", !.head = IF w.queue = <<>> THEN None ELSE head])
    /\ UNCHANGED storeVars /\ Local

\* What is left of the worker once it is done with the command at hand.
NextCommand(w, failed) ==
    [IdleWorker EXCEPT !.pc = "command", !.lease = w.lease, !.head = w.head,
                       !.queue = Tail(w.queue), !.outer = w.outer \/ failed]

RecheckRefuse(d) == LET w == worker[d] IN
    /\ At(d, "command") /\ w.queue # <<>> /\ Head(w.queue) \in Refusable
    /\ FailUnsent(Head(w.queue))
    /\ Become(d, NextCommand(w, FALSE))
    /\ Local

\* run_command reads the command's row; an interrupted one is reconciled first.
StartCommand(d) == LET w == worker[d]
                       c == Head(w.queue) IN
    /\ At(d, "command") /\ w.queue # <<>>
    /\ Become(d, IF ops[c].state = "unknown"
         THEN [w EXCEPT !.pc = "children", !.old = ops[c].attempts,
                        !.todo = {[key |-> k, attempt |-> ops[k].attempts, sent |-> ops[k].sent] :
                                     k \in {j \in Children(c) : ops[j].state = "unknown"}}]
         ELSE [w EXCEPT !.pc = "claim"])
    /\ UNCHANGED storeVars /\ Local

\* Faulty variant: a missing marker counts as proof that nothing was sent.
ReconcileAbsence(k, attempt, sent) ==
    \/ applied[k] = 0 /\ ResolveUnknown(k, attempt, "not_sent")
    \/ applied[k] > 0 /\ ResolveUnknown(k, attempt, "succeeded")

\* reconcile: only a marker found at GitHub confirms, its absence proves nothing.
\* Labels are looked at as they are now, whoever put them there.
Reconcile(k, attempt, sent) ==
    \/ ~sent /\ ResolveUnknown(k, attempt, "not_sent")
    \/ sent /\ KindOf[k] \in {"comment", "review"} /\ applied[k] > 0
            /\ ResolveUnknown(k, attempt, "succeeded")
    \/ sent /\ KindOf[k] = "ensure_labels"
            /\ \E outcome \in {"succeeded", "retry_idempotent"} : ResolveUnknown(k, attempt, outcome)
    \/ sent /\ KindOf[k] # "ensure_labels" /\ UNCHANGED storeVars
\* The fence rejects an observation of an older attempt, or the lookup failed.
ReconcileFails(k, attempt, sent) ==
    /\ \/ sent /\ Fault
       \/ /\ ~(ops[k].state = "unknown" /\ ops[k].attempts = attempt)
          /\ ~sent \/ KindOf[k] = "ensure_labels" \/ applied[k] > 0
          /\ UNCHANGED faults
    /\ UNCHANGED <<storeVars, owner, pump, head, wire, applied>>

ReconcileChild(d) == LET w == worker[d] IN
    /\ At(d, "children")
    /\ \E r \in w.todo :
          \/ Reconcile(r.key, r.attempt, r.sent) /\ Local
             /\ Become(d, [w EXCEPT !.todo = @ \ {r}])
          \/ ReconcileFails(r.key, r.attempt, r.sent) /\ Become(d, NextCommand(w, TRUE))

\* With no uncertain write left the planner itself may run again.
ReopenCommand(d) == LET w == worker[d]
                        c == Head(w.queue)
                        uncertain == \E k \in Children(c) : ops[k].state \in {"unknown", "running"}
                        current == ops[c].state = "unknown" /\ ops[c].attempts = w.old IN
    /\ At(d, "children") /\ w.todo = {}
    /\ \/ uncertain /\ UNCHANGED storeVars /\ Become(d, NextCommand(w, FALSE))
       \/ ~uncertain /\ ResolveUnknown(c, w.old, "not_sent")
                     /\ Become(d, [w EXCEPT !.pc = "claim", !.old = 0])
       \/ ~uncertain /\ ~current /\ UNCHANGED storeVars /\ Become(d, NextCommand(w, TRUE))
    /\ Local

\* Faulty variant: a retry does not compare snapshots.
ClaimCommandAnyHead(d) == LET w == worker[d]
                              c == Head(w.queue) IN
    /\ At(d, "claim")
    /\ \/ /\ Claim(c, d, w.head)
          /\ Become(d, [w EXCEPT !.pc = "write", !.run = ops'[c].attempts, !.step = 1])
       \/ ~Available(c) /\ UNCHANGED storeVars /\ Become(d, NextCommand(w, FALSE))
    /\ Local

ClaimCommand(d) == LET w == worker[d]
                       c == Head(w.queue)
                       changed == ops[c].state # "absent" /\ ops[c].head # w.head IN
    /\ At(d, "claim")
    /\ \/ /\ Claim(c, d, w.head)
          /\ Become(d, [w EXCEPT !.pc = IF changed THEN "stale" ELSE "write",
                                 !.run = ops'[c].attempts, !.step = 1])
       \/ ~Available(c) /\ UNCHANGED storeVars /\ Become(d, NextCommand(w, FALSE))
    /\ Local

\* The snapshot moved since the first attempt: two separate transactions.
SupersedeCommand(d) ==
    /\ At(d, "stale")
    /\ Finish(Head(worker[d].queue), worker[d].run, "superseded")
    /\ Become(d, [worker[d] EXCEPT !.pc = "supersede"])
    /\ Local
SupersedeChildren(d) ==
    /\ At(d, "supersede")
    /\ SupersedeUnsentChildren(Head(worker[d].queue))
    /\ Become(d, NextCommand(worker[d], FALSE))
    /\ Local

-----------------------------------------------------------------------------
(* The handler's writes: Client::write and durable_write. *)

WriteOf(w) == WritesOf[Head(w.queue)][w.step]
\* The handler goes on; a write that is not certain blocks the later ones.
NextWrite(w, blocked) == [w EXCEPT !.pc = "write", !.step = @ + 1, !.try = 0, !.blocked = blocked]

\* The handler returns once it has attempted its writes (a comment after an
\* accepted review is only the fallback), or earlier when a lookup between them
\* fails.
HandlerReturns(d) == LET w == worker[d]
                         writes == WritesOf[Head(w.queue)]
                         accepted == /\ w.step > 1
                                     /\ KindOf[writes[w.step - 1]] = "review"
                                     /\ ops[writes[w.step - 1]].state = "succeeded" IN
    /\ At(d, "write")
    /\ IF w.step > Len(writes) \/ accepted THEN UNCHANGED faults ELSE Fault
    /\ \E status \in {"ok", "error"} :
          Become(d, [w EXCEPT !.pc = "finish", !.status = status])
    /\ UNCHANGED <<storeVars, owner, pump, head, wire, applied>>

BeginWrite(d) == LET w == worker[d]
                     k == WriteOf(w) IN
    /\ At(d, "write") /\ w.step <= Len(WritesOf[Head(w.queue)])
    /\ IF w.blocked THEN Become(d, NextWrite(w, TRUE))
       ELSE IF ops[k].state = "unknown"
            THEN Become(d, [w EXCEPT !.pc = "lookup", !.try = ops[k].attempts])
       ELSE Become(d, [w EXCEPT !.pc = "claimWrite"])
    /\ UNCHANGED storeVars /\ Local

ReconcileWrite(d) == LET w == worker[d]
                         k == WriteOf(w) IN
    /\ At(d, "lookup")
    /\ \/ Reconcile(k, w.try, ops[k].sent) /\ Local
          /\ Become(d, [w EXCEPT !.pc = "claimWrite", !.try = 0])
       \/ ReconcileFails(k, w.try, ops[k].sent) /\ Become(d, NextWrite(w, TRUE))

\* A recorded receipt or rejection is returned instead of a second request.
ClaimWrite(d) == LET w == worker[d]
                     k == WriteOf(w) IN
    /\ At(d, "claimWrite")
    /\ \/ /\ Claim(k, d, w.head)
          /\ Become(d, [w EXCEPT !.pc = "mark", !.try = ops'[k].attempts])
       \/ /\ ~Available(k)
          /\ Become(d, NextWrite(w, ops[k].state \notin {"succeeded", "failed"}))
          /\ UNCHANGED storeVars
    /\ Local

\* Faulty variant: the request leaves before its send mark is committed.
SendUnmarked(d) == LET w == worker[d]
                       k == WriteOf(w) IN
    /\ At(d, "mark")
    /\ Owns(k, w.try)
    /\ wire' = wire \cup {[key |-> k, attempt |-> w.try, fate |-> "flying"]}
    /\ Become(d, [w EXCEPT !.pc = "http"])
    /\ UNCHANGED <<storeVars, owner, pump, head, applied, faults>>

\* The send mark is committed before the request leaves.
Send(d) == LET w == worker[d]
               k == WriteOf(w) IN
    /\ At(d, "mark")
    /\ MarkSent(k, w.try)
    /\ wire' = wire \cup {[key |-> k, attempt |-> w.try, fate |-> "flying"]}
    /\ Become(d, [w EXCEPT !.pc = "http"])
    /\ UNCHANGED <<owner, pump, head, applied, faults>>

Awaits(d, r) == /\ At(d, "http")
                /\ r.key = WriteOf(worker[d])
                /\ r.attempt = worker[d].try

\* GitHub's answer, or no usable answer: a timeout or a 5xx is ambiguous.  The
\* removal of a label that is not there is answered 404 and counts as landed.
ReadAnswer(d) == LET w == worker[d]
                     k == WriteOf(w)
                     mine == {r \in wire : Awaits(d, r)} IN
    /\ At(d, "http")
    /\ \/ /\ \E r \in mine : r.fate = "landed"
          /\ Finish(k, w.try, "succeeded")
          /\ Become(d, NextWrite(w, FALSE))
          /\ UNCHANGED faults
       \/ /\ \E r \in mine : r.fate = "refused"
          /\ Finish(k, w.try, "failed")
          /\ Become(d, NextWrite(w, FALSE))
          /\ UNCHANGED faults
       \/ /\ IF mine = {} THEN UNCHANGED faults ELSE Fault
          /\ Finish(k, w.try, "unknown")
          /\ Become(d, NextWrite(w, TRUE))
    /\ wire' = {r \in wire : r \in mine => r.fate = "flying"}
    /\ UNCHANGED <<owner, pump, head, applied>>

\* A rejected review counts as covered when the handler reports ok and another
\* review or comment of the command went through.
FailedWrite(c, status) == \E k \in Children(c) :
    /\ ops[k].state = "failed"
    /\ ~ /\ KindOf[k] = "review"
         /\ status = "ok"
         /\ \E j \in Children(c) : /\ ops[j].state = "succeeded"
                                   /\ KindOf[j] \in {"review", "comment"}

CommandOutcome(c, status) ==
    IF \E k \in Children(c) : ops[k].state \in {"unknown", "running", "pending"} THEN "unknown"
    ELSE IF FailedWrite(c, status) \/ status = "error" THEN "failed"
    ELSE "succeeded"

FinishCommand(d) == LET w == worker[d]
                        c == Head(w.queue) IN
    /\ At(d, "finish")
    /\ Finish(c, w.run, CommandOutcome(c, w.status))
    /\ Become(d, NextCommand(w, FALSE))
    /\ Local

-----------------------------------------------------------------------------
(* The end of a delivery. *)

EndComment(d) == LET w == worker[d] IN
    /\ At(d, "command") /\ w.queue = <<>>
    /\ Become(d, [IdleWorker EXCEPT !.pc = "settle", !.lease = w.lease,
                                    !.problem = w.outer \/ Unresolved(d)])
    /\ UNCHANGED storeVars /\ Local

\* Timeout or panic at an await, or an error returned while gating: the future
\* is dropped, its request is not.
Interrupt(d) ==
    /\ worker[d].pc \in {"gate", "command", "children", "write", "lookup", "http"}
    /\ Fault
    /\ Become(d, [IdleWorker EXCEPT !.pc = "settle", !.lease = worker[d].lease, !.problem = TRUE])
    /\ UNCHANGED <<storeVars, owner, pump, head, wire, applied>>

Settle(d) == LET w == worker[d] IN
    /\ At(d, "settle")
    /\ RecoverDelivery(d)
    /\ Become(d, [w EXCEPT !.pc = "release", !.problem = @ \/ ops' # ops])
    /\ Local

Release(d) ==
    /\ At(d, "release")
    /\ FinishInbox(d, worker[d].lease, worker[d].problem)
    /\ Become(d, IdleWorker)
    /\ Local

\* A store call of the planner or of a write fails, the one that keeps an answer
\* included: the row stays as it is, the command counts as paused, or the handler's
\* later writes are blocked.
StoreFails(d) == LET w == worker[d] IN
    /\ \/ /\ w.pc \in {"claim", "stale", "supersede", "finish"}
          /\ Become(d, NextCommand(w, TRUE))
       \/ /\ w.pc \in {"claimWrite", "mark", "http"}
          /\ Become(d, NextWrite(w, TRUE))
    /\ Fault
    /\ UNCHANGED <<storeVars, owner, pump, head, wire, applied>>

\* Faulty variant: the pump goes on claiming after a bookkeeping error.
BookkeepingFailsOn(d) ==
    /\ worker[d].pc \in {"settle", "release"}
    /\ Fault
    /\ Become(d, IdleWorker)
    /\ UNCHANGED <<storeVars, owner, pump, head, wire, applied>>

\* A bookkeeping error ends the worker where it is and drains the pump.
BookkeepingFails(d) ==
    /\ worker[d].pc \in {"settle", "release"}
    /\ Fault
    /\ Become(d, IdleWorker)
    /\ pump' = "draining"
    /\ UNCHANGED <<storeVars, owner, head, wire, applied>>

-----------------------------------------------------------------------------
(* GitHub, the contributors and the operator. *)

Answered(r, fate) ==
    (wire \ {r}) \cup (IF \E d \in Deliveries : Awaits(d, r)
                       THEN {[r EXCEPT !.fate = fate]} ELSE {})

Land(r) ==
    /\ r.fate = "flying"
    /\ wire' = Answered(r, "landed")
    /\ applied' = [applied EXCEPT ![r.key] = IF @ < MaxEffects THEN @ + 1 ELSE @]
    /\ UNCHANGED <<storeVars, owner, pump, worker, head, faults>>

Refuse(r) ==
    /\ r.fate = "flying"
    /\ wire' = Answered(r, "refused")
    /\ UNCHANGED <<storeVars, owner, pump, worker, head, applied, faults>>

Lose(r) ==
    /\ r.fate = "flying"
    /\ Fault
    /\ wire' = wire \ {r}
    /\ UNCHANGED <<storeVars, owner, pump, worker, head, applied>>

Push(h) ==
    /\ h # head
    /\ head' = h
    /\ UNCHANGED <<storeVars, owner, pump, worker, wire, applied, faults>>

BackoffExpires ==
    /\ \/ \E d \in Deliveries : InboxDue(d)
       \/ \E k \in Keys : OperationDue(k)
    /\ UNCHANGED runtimeVars

\* What the operator attests about a write is true, and child writes are
\* settled before their command.
Evidence(k, decision) ==
    IF k \in Writes
    THEN /\ decision = "confirm-success" => applied[k] > 0
         /\ decision = "confirm-not-sent" => applied[k] = 0 /\ \A r \in wire : r.key # k
    ELSE /\ \A c \in Children(k) : ops[c].state \notin {"pending", "unknown"}
         /\ decision = "confirm-success" => \A c \in Children(k) : ops[c].state # "failed"

Decide(k, decision) ==
    /\ owner = "cli"
    /\ Evidence(k, decision)
    /\ Administer(k, decision)
    /\ UNCHANGED runtimeVars

-----------------------------------------------------------------------------
WorkerStep(d) ==
    \/ GatePass(d) \/ GateRefuse(d) \/ Snapshot(d)
    \/ RecheckRefuse(d) \/ StartCommand(d) \/ ReconcileChild(d) \/ ReopenCommand(d)
    \/ ClaimCommand(d) \/ SupersedeCommand(d) \/ SupersedeChildren(d)
    \/ HandlerReturns(d) \/ BeginWrite(d) \/ ReconcileWrite(d) \/ ClaimWrite(d)
    \/ Send(d) \/ ReadAnswer(d) \/ FinishCommand(d)
    \/ EndComment(d) \/ Settle(d) \/ Release(d)

ProcessStep ==
    \/ OpenStore("server") \/ PumpStart \/ PumpResume \/ PumpReturn
    \/ \E d \in Deliveries : StartWorker(d)

GitHubStep == \E r \in wire : Land(r) \/ Refuse(r)

Disturbance ==
    \/ Crash
    \/ \E d \in Deliveries : Discard(d) \/ Interrupt(d) \/ StoreFails(d) \/ BookkeepingFails(d)
    \/ \E r \in wire : Lose(r)

OperatorStep ==
    \/ OpenStore("cli") \/ CloseCli
    \/ \E k \in Keys, decision \in {"confirm-success", "confirm-not-sent", "retry"} :
          Decide(k, decision)

Next ==
    \/ ProcessStep \/ GitHubStep \/ Disturbance \/ OperatorStep
    \/ \E d \in Deliveries : WorkerStep(d) \/ Receive(d)
    \/ \E h \in Heads : Push(h)
    \/ PumpCleanup \/ BackoffExpires

Spec == Init /\ [][Next]_vars

\* The server restarts, pumps every few seconds, polls every future and waits
\* out every backoff; GitHub answers what reaches it.  Nothing makes a webhook,
\* a push, a fault or an operator happen.
Fairness ==
    /\ WF_vars(ProcessStep) /\ SF_vars(OpenStore("server")) /\ WF_vars(CloseCli)
    /\ WF_vars(GitHubStep) /\ WF_vars(BackoffExpires)
    /\ \A d \in Deliveries : WF_vars(WorkerStep(d)) /\ SF_vars(StartWorker(d))
FairSpec == Spec /\ Fairness

-----------------------------------------------------------------------------
(* Safety. *)

Flying(k) == {r \in wire : r.key = k /\ r.fate = "flying"}

\* A write that is not idempotent takes effect at most once, counting the
\* requests still on the wire, whatever crashes, times out, is redelivered,
\* retried or decided by a truthful operator.
AtMostOnce == \A k \in Writes \ Labels : applied[k] + Cardinality(Flying(k)) <= 1

\* The rows a worker is about to send for or to finish are still its own: no
\* recovery pass, sibling delivery or operator decision ran underneath it.
LeaseHeld == \A d \in Deliveries : LET w == worker[d] IN
    /\ w.pc \in {"write", "lookup", "claimWrite", "mark", "http", "finish", "stale"}
          => Owns(Head(w.queue), w.run) /\ ops[Head(w.queue)].lease = d
    /\ w.pc \in {"mark", "http"} => Owns(WriteOf(w), w.try) /\ ops[WriteOf(w)].lease = d
    /\ w.pc # "idle" => inbox[d].state = "running" /\ inbox[d].attempts = w.lease

\* The shape of the state, and the leases on top of it.
RuntimeInv == RuntimeTypeOK /\ LeaseHeld

\* While the pump works normally, nothing is marked running without a worker
\* that will finish or fence it.
NoAbandonedClaim == (owner = "server" /\ pump = "on") =>
    /\ \A k \in Keys : ops[k].state = "running" => ops[k].lease \in Active
    /\ \A d \in Deliveries : inbox[d].state = "running" => d \in Active

Of(d) == {k \in Keys : ops[k].delivery = d \/ ops[k].lease = d}

\* A recorded envelope is eventually done, unless an operation of it waits for
\* the operator (an uncertain write, or one that was definitely refused).
EnvelopeFinishes == \A d \in Deliveries :
    inbox[d].state = "pending" ~> \/ inbox[d].state = "succeeded"
                                  \/ \E k \in Of(d) : ops[k].state \in {"unknown", "failed"}

\* "A changed PR head/base supersedes unsent work" (docs/trigger-state.md).
SupersedesUnsentWork == \A k \in Writes : ParentOf[k] # None =>
    (ops[k].state = "pending" /\ ops[ParentOf[k]].state = "superseded"
        ~> ops[k].state # "pending")

\* "The relevant inbox is made pending again; the server rechecks live policy
\* and snapshots before resuming" (docs/trigger-state.md): a retry the
\* operator authorized is resumed, also when its command has succeeded.
OperatorRetryResumes == \A k \in Writes : ParentOf[k] # None =>
    (ops[k].state = "pending" /\ ops[ParentOf[k]].state = "succeeded"
        ~> ops[k].state # "pending")

\* A request is made, and repeated, only under the snapshot its command was
\* planned for.
RequestsKeepSnapshot == [][\A r \in wire' \ wire : r.fate = "flying" =>
    \A d \in Deliveries : Awaits(d, r)' =>
        /\ ops[r.key].head = worker[d].head
        /\ ops[ParentOf[r.key]].head = worker[d].head]_vars

\* The ledger below, with its own safety properties.
ImplementsStore == StoreSpec

\* The promise about external writes.
W == INSTANCE DurableWrite WITH
        WriteKeys <- Writes,
        Idempotent <- Labels,
        outstanding <- [k \in Writes |-> Cardinality(Flying(k))],
        effects <- applied,
        receipt <- [k \in Writes |->
            CASE ops[k].state = "succeeded" -> "confirmed"
              [] ops[k].state = "failed" -> "rejected"
              [] ops[k].state = "superseded" -> "withdrawn"
              [] OTHER -> "open"]
ImplementsDurableWrite == W!AbstractSpec
=============================================================================
