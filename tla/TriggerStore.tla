---------------------------- MODULE TriggerStore ----------------------------
(***************************************************************************)
(* The durable trigger ledger of src/trigger_state/store.rs: the inbox of  *)
(* recovery envelopes, the operations table (commands, automatic planners  *)
(* and the external writes they own) and the recipient reservations.       *)
(* Every action is one committed SQLite transaction (or single statement)  *)
(* of a Store method.  The mutex around the connection makes each of them  *)
(* atomic; what happens between two of them is the caller's business.      *)
(*                                                                         *)
(* Wall-clock columns are abstracted to "due": next_at <= now.             *)
(***************************************************************************)
EXTENDS Naturals, FiniteSets

CONSTANTS
    Deliveries,        \* webhook delivery IDs (inbox primary keys)
    Keys,              \* business keys of operations
    Heads,             \* PR head/base snapshots an operation can record
    Scopes,            \* <<installation, repository, PR>> notification scopes
    Logins,            \* normalized personal logins
    None,              \* SQL NULL / an absent row's column
    KindOf,            \* OperationSpec.kind of each key
    ParentOf,          \* OperationSpec.parent of each key, or None
    ScopeOf,           \* the notification scope of each key's context
    BudgetCap,         \* the hard ceiling claim_notification accepts (10)
    MaxAttempts,       \* bound: attempts of each operation
    MaxLeases          \* bound: attempts of one envelope that are counted

Kinds == {"command", "opened", "path", "comment", "review", "ensure_labels", "other",
          "notification_ledger"}
Planners == {k \in Keys : KindOf[k] \in {"command", "opened", "path"}}
Automatic == {k \in Keys : KindOf[k] \in {"opened", "path"}}
Writes == Keys \ Planners

ASSUME NoneAssumption ==
    /\ None \notin Keys
    /\ None \notin Deliveries
    /\ None \notin Heads
ASSUME KeyAssumption ==
    /\ KindOf \in [Keys -> Kinds]
    /\ ParentOf \in [Keys -> Keys \cup {None}]
    /\ ScopeOf \in [Keys -> Scopes]
    /\ \A k \in Keys : KindOf[k] \in {"command", "opened", "path"} => ParentOf[k] = None
ASSUME BoundAssumption ==
    /\ BudgetCap \in Nat
    /\ MaxAttempts \in [Keys -> Nat]
    /\ MaxLeases \in Nat
    /\ IsFiniteSet(Logins)

VARIABLES
    inbox,     \* the inbox table: delivery -> envelope row
    ops,       \* the operations table: key -> row
    slots      \* the recipients table: <<scope, login>> -> reservation

storeVars == <<inbox, ops, slots>>

InboxStates == {"absent", "pending", "running", "succeeded", "unknown"}
OpStates == {"absent", "pending", "running", "succeeded", "failed", "unknown", "superseded"}
Slots == Scopes \X Logins

Envelope == [state : InboxStates, attempts : Nat, due : BOOLEAN]
Operation == [state : OpStates, attempts : Nat, sent : BOOLEAN,
              lease : Deliveries \cup {None}, delivery : Deliveries \cup {None},
              due : BOOLEAN, head : Heads \cup {None}]
Reservation == [operation : Keys \cup {None}, committed : BOOLEAN]

NoEnvelope == [state |-> "absent", attempts |-> 0, due |-> TRUE]
NoOperation == [state |-> "absent", attempts |-> 0, sent |-> FALSE, lease |-> None,
                delivery |-> None, due |-> TRUE, head |-> None]
FreeSlot == [operation |-> None, committed |-> FALSE]

StoreTypeOK ==
    /\ inbox \in [Deliveries -> Envelope]
    /\ ops \in [Keys -> Operation]
    /\ slots \in [Slots -> Reservation]

StoreInit ==
    /\ inbox = [d \in Deliveries |-> NoEnvelope]
    /\ ops = [k \in Keys |-> NoOperation]
    /\ slots = [x \in Slots |-> FreeSlot]

Children(p) == {k \in Keys : ParentOf[k] = p /\ ops[k].state # "absent"}
Held(s) == {u \in Logins : slots[<<s, u>>].operation # None}

\* DELETE FROM recipients WHERE operation IN ks AND committed=0
Released(ks) ==
    [x \in Slots |-> IF slots[x].operation \in ks /\ ~slots[x].committed
                     THEN FreeSlot ELSE slots[x]]
\* UPDATE recipients SET committed=1 WHERE operation=k
Committed(k) ==
    [x \in Slots |-> IF slots[x].operation = k
                     THEN [slots[x] EXCEPT !.committed = TRUE] ELSE slots[x]]

-----------------------------------------------------------------------------
(* The inbox. *)

\* A delivery is inserted once; a redelivered row is ignored.
Enqueue(d) ==
    /\ inbox[d].state = "absent"
    /\ inbox' = [inbox EXCEPT ![d] = [NoEnvelope EXCEPT !.state = "pending"]]
    /\ UNCHANGED <<ops, slots>>

\* The attempt count saturates at its bound, so a retry loop stays finite.
ClaimInbox(d) ==
    /\ inbox[d].state = "pending"
    /\ inbox[d].due
    /\ inbox' = [inbox EXCEPT
         ![d] = [state |-> "running", due |-> TRUE,
                 attempts |-> IF inbox[d].attempts < MaxLeases THEN inbox[d].attempts + 1
                                                               ELSE MaxLeases]]
    /\ UNCHANGED <<ops, slots>>

FinishInbox(d, attempt, retry) ==
    /\ inbox[d].state = "running"
    /\ inbox[d].attempts = attempt
    /\ inbox' = [inbox EXCEPT ![d] =
         [inbox[d] EXCEPT !.state = IF retry THEN "pending" ELSE "succeeded", !.due = ~retry]]
    /\ UNCHANGED <<ops, slots>>

\* Faulty variant: a failed operation no longer protects its envelope.
CleanableFailed == {d \in Deliveries :
    /\ inbox[d].state = "succeeded"
    /\ \A k \in Keys : (ops[k].delivery = d \/ ops[k].lease = d)
                          => ops[k].state \notin {"pending", "running", "unknown"}}

\* Only finished envelopes none of whose operations still needs anything.
Cleanable == {d \in Deliveries :
    /\ inbox[d].state = "succeeded"
    /\ \A k \in Keys : (ops[k].delivery = d \/ ops[k].lease = d)
                          => ops[k].state \in {"absent", "succeeded", "superseded"}}

\* The age test and the 500-row batch pick some of the cleanable rows.
CleanupInbox(old) ==
    /\ old \subseteq Cleanable
    /\ inbox' = [d \in Deliveries |-> IF d \in old THEN NoEnvelope ELSE inbox[d]]
    /\ UNCHANGED <<ops, slots>>

ResumeInbox ==
    /\ inbox' = [d \in Deliveries |-> IF inbox[d].state = "unknown"
                   THEN [inbox[d] EXCEPT !.state = "pending", !.due = TRUE] ELSE inbox[d]]
    /\ UNCHANGED <<ops, slots>>

\* Faulty variant: interrupted operations become runnable at once.
RecoverRunningRequeues ==
    /\ inbox' = [d \in Deliveries |-> IF inbox[d].state = "running"
                   THEN [inbox[d] EXCEPT !.state = "unknown"] ELSE inbox[d]]
    /\ ops' = [k \in Keys |-> IF ops[k].state = "running"
                 THEN [ops[k] EXCEPT !.state = "pending"] ELSE ops[k]]
    /\ UNCHANGED slots

\* Every claim of the previous owner becomes uncertain, never runnable.
RecoverRunning ==
    /\ inbox' = [d \in Deliveries |-> IF inbox[d].state = "running"
                   THEN [inbox[d] EXCEPT !.state = "unknown"] ELSE inbox[d]]
    /\ ops' = [k \in Keys |-> IF ops[k].state = "running"
                 THEN [ops[k] EXCEPT !.state = "unknown"] ELSE ops[k]]
    /\ UNCHANGED slots

\* Faulty variant: fences what the delivery created, not what it leases.
RecoverDeliveryOriginal(d) ==
    /\ ops' = [k \in Keys |-> IF ops[k].state = "running" /\ ops[k].delivery = d
                 THEN [ops[k] EXCEPT !.state = "unknown"] ELSE ops[k]]
    /\ UNCHANGED <<inbox, slots>>

\* One delivery's future has ended: only the attempts it leased are fenced.
RecoverDelivery(d) ==
    /\ ops' = [k \in Keys |-> IF ops[k].state = "running" /\ ops[k].lease = d
                 THEN [ops[k] EXCEPT !.state = "unknown"] ELSE ops[k]]
    /\ UNCHANGED <<inbox, slots>>

Unresolved(d) == \E k \in Keys :
    /\ ops[k].delivery = d \/ ops[k].lease = d
    /\ ops[k].state \in {"pending", "running", "unknown"}

-----------------------------------------------------------------------------
(* Operations. *)

Available(k) == ops[k].state = "absent" \/ (ops[k].state = "pending" /\ ops[k].due)
Claimable(k) == Available(k) /\ ops[k].attempts < MaxAttempts[k]

\* INSERT OR IGNORE, then the conditional UPDATE.  The intent (original
\* delivery and snapshot) is written by the first claim only.
ClaimRow(k, d, h) ==
    LET first == ops[k].state = "absent"
    IN  ops' = [ops EXCEPT ![k] =
                  [state |-> "running", attempts |-> ops[k].attempts + 1, sent |-> FALSE,
                   lease |-> d, delivery |-> IF first THEN d ELSE ops[k].delivery,
                   due |-> TRUE, head |-> IF first THEN h ELSE ops[k].head]]

Claim(k, d, h) ==
    /\ Claimable(k)
    /\ ClaimRow(k, d, h)
    /\ UNCHANGED <<inbox, slots>>

\* Faulty variant: every claim gets the whole budget.
GrantablePerClaim(s, users, max) ==
    {g \in SUBSET (users \ Held(s)) : Cardinality(g) <= max}

\* Of the requested logins nobody holds yet, as many as the budget leaves are
\* reserved (the code takes them in login order; any such subset here).
Grantable(s, users, max) ==
    LET fresh == users \ Held(s)
        left == IF max > Cardinality(Held(s)) THEN max - Cardinality(Held(s)) ELSE 0
    IN  {g \in SUBSET fresh : /\ Cardinality(g) <= left
                              /\ g # fresh => Cardinality(g) = left}

ClaimNotification(k, d, h, users, max) ==
    /\ KindOf[k] = "comment"
    /\ max <= BudgetCap
    /\ Claimable(k)
    /\ ClaimRow(k, d, h)
    /\ \E granted \in Grantable(ScopeOf[k], users, max) :
          slots' = [x \in Slots |-> IF x[1] = ScopeOf[k] /\ x[2] \in granted
                                    THEN [FreeSlot EXCEPT !.operation = k] ELSE slots[x]]
    /\ UNCHANGED inbox

\* The operator attests every recipient ever notified: rows are added or taken
\* over, never released, even beyond the ceiling.
RestoreLedger(k, users) ==
    /\ KindOf[k] = "notification_ledger"
    /\ Cardinality(users) <= BudgetCap
    /\ ops' = IF ops[k].state = "absent"
               THEN [ops EXCEPT ![k] = [NoOperation EXCEPT !.state = "succeeded"]] ELSE ops
    /\ slots' = [x \in Slots |-> IF x[1] = ScopeOf[k] /\ x[2] \in users
                                 THEN [operation |-> k, committed |-> TRUE] ELSE slots[x]]
    /\ UNCHANGED inbox

\* The attempt number is the fence: a late caller matches no row.
Owns(k, attempt) == ops[k].state = "running" /\ ops[k].attempts = attempt

MarkSent(k, attempt) ==
    /\ Owns(k, attempt)
    /\ ops' = [ops EXCEPT ![k].sent = TRUE]
    /\ UNCHANGED <<inbox, slots>>

Finish(k, attempt, state) ==
    /\ Owns(k, attempt)
    /\ state \in {"succeeded", "failed", "unknown", "superseded"}
    /\ state = "superseded" => ~ops[k].sent
    /\ ops' = [ops EXCEPT ![k].state = state]
    /\ slots' = CASE state = "succeeded" -> Committed(k)
                  [] state \in {"failed", "superseded"} -> Released({k})
                  [] state = "unknown" -> slots
    /\ UNCHANGED inbox

\* Faulty variant: the outcome is stored where a state belongs.
ResolveUnknownRaw(k, attempt, outcome) ==
    /\ ops[k].state = "unknown"
    /\ ops[k].attempts = attempt
    /\ outcome = "retry_idempotent" => KindOf[k] = "ensure_labels"
    /\ ops' = [ops EXCEPT ![k].state = outcome]
    /\ slots' = IF outcome = "succeeded" THEN Committed(k) ELSE slots
    /\ UNCHANGED inbox

\* outcome: "succeeded", "not_sent" or "retry_idempotent"
ResolveUnknown(k, attempt, outcome) ==
    /\ ops[k].state = "unknown"
    /\ ops[k].attempts = attempt
    /\ outcome = "retry_idempotent" => KindOf[k] = "ensure_labels"
    /\ ops' = [ops EXCEPT ![k] =
         [ops[k] EXCEPT !.state = IF outcome = "succeeded" THEN "succeeded" ELSE "pending",
                        !.sent = (outcome = "succeeded"),
                        !.due = (outcome # "retry_idempotent")]]
    /\ slots' = CASE outcome = "succeeded" -> Committed(k)
                  [] outcome = "not_sent" -> Released({k})
                  [] outcome = "retry_idempotent" -> slots
    /\ UNCHANGED inbox

\* Faulty variant: refuses a command whatever its row says.
FailUnsentAnyState(k) ==
    /\ ops' = IF ops[k].state # "absent" /\ ~ops[k].sent
               THEN [ops EXCEPT ![k] = [ops[k] EXCEPT !.state = "failed", !.due = TRUE]] ELSE ops
    /\ slots' = Released({k})
    /\ UNCHANGED inbox

\* Faulty variant: a refused notification keeps its recipient.
FailUnsentKeepsRecipient(k) ==
    LET refused == ops[k].state \in {"pending", "unknown"} /\ ~ops[k].sent
    IN  /\ ops' = IF refused THEN [ops EXCEPT ![k] = [ops[k] EXCEPT !.state = "failed", !.due = TRUE]]
                             ELSE ops
        /\ UNCHANGED <<inbox, slots>>

\* A policy refusal; matches no row when the write may already be out.
FailUnsent(k) ==
    LET refused == ops[k].state \in {"pending", "unknown"} /\ ~ops[k].sent
    IN  /\ ops' = IF refused THEN [ops EXCEPT ![k] = [ops[k] EXCEPT !.state = "failed", !.due = TRUE]]
                             ELSE ops
        /\ slots' = IF ~ops[k].sent /\ (refused \/ ops[k].state = "failed")
                    THEN Released({k}) ELSE slots
        /\ UNCHANGED inbox

SupersedeUnsentChildren(p) ==
    LET dropped == {k \in Children(p) : ops[k].state = "pending" /\ ~ops[k].sent}
        gone == dropped \cup {k \in Children(p) : ops[k].state = "superseded" /\ ~ops[k].sent}
    IN  /\ ops' = [k \in Keys |-> IF k \in dropped THEN [ops[k] EXCEPT !.state = "superseded"]
                                  ELSE ops[k]]
        /\ slots' = Released(gone)
        /\ UNCHANGED inbox

\* Faulty variant: withdraws writes that may already be out.
RevokeOpenedSent(p) ==
    LET dropped == {k \in Children(p) : ops[k].state \in {"pending", "unknown"}}
    IN  /\ p \in Automatic
        /\ ops' = [k \in Keys |->
                     IF k \in dropped \/ (k = p /\ ops[p].state \in {"pending", "unknown"})
                     THEN [ops[k] EXCEPT !.state = "superseded"] ELSE ops[k]]
        /\ slots' = Released(dropped)
        /\ UNCHANGED inbox

\* Withdraw an automatic planner; writes that may be out stay uncertain.
RevokeOpened(p) ==
    LET ended == ops[p].state \in {"pending", "unknown", "superseded", "succeeded", "failed"}
        dropped == {k \in Children(p) : /\ ended
                                        /\ ops[k].state \in {"pending", "unknown"}
                                        /\ ~ops[k].sent}
        gone == dropped \cup {k \in Children(p) : ops[k].state = "superseded" /\ ~ops[k].sent}
    IN  /\ p \in Automatic
        /\ ops' = [k \in Keys |->
                     IF k \in dropped \/ (k = p /\ ops[p].state \in {"pending", "unknown"})
                     THEN [ops[k] EXCEPT !.state = "superseded"] ELSE ops[k]]
        /\ slots' = Released(gone)
        /\ UNCHANGED inbox

\* None of the labels of a pending retry exists any more.
RefreshPathLabels(p, attempt, k) ==
    /\ Owns(p, attempt)
    /\ KindOf[p] = "path"
    /\ k \in Children(p)
    /\ KindOf[k] = "ensure_labels"
    /\ ops[k].state = "pending"
    /\ ~ops[k].sent
    /\ ops' = [ops EXCEPT ![k].state = "superseded"]
    /\ UNCHANGED <<inbox, slots>>

RefreshOpenedSnapshot(k, attempt, h) ==
    /\ Owns(k, attempt)
    /\ KindOf[k] = "opened"
    /\ ~ops[k].sent
    /\ ops' = [ops EXCEPT ![k].head = h]
    /\ UNCHANGED <<inbox, slots>>

\* The offline CLI's decision; the failed parent and the original envelope
\* become runnable again whatever was decided.
Administer(k, decision) ==
    LET state == IF decision = "confirm-success" THEN "succeeded" ELSE "pending"
        row == [ops[k] EXCEPT !.state = state, !.sent = FALSE, !.due = TRUE]
        d == ops[k].delivery
    IN  /\ ops[k].state \in {"unknown", "failed"}
        /\ decision = "retry" => ops[k].state = "failed"
        /\ ops' = [j \in Keys |-> IF j = k THEN row
                     ELSE IF j = ParentOf[k] /\ ops[j].state = "failed"
                          THEN [ops[j] EXCEPT !.state = "pending", !.due = TRUE] ELSE ops[j]]
        /\ slots' = CASE decision = "confirm-success" -> Committed(k)
                      [] decision = "confirm-not-sent" -> Released({k})
                      [] decision = "retry" -> slots
        /\ inbox' = [e \in Deliveries |-> IF e = d /\ inbox[e].state # "absent"
                       THEN [inbox[e] EXCEPT !.state = "pending", !.due = TRUE] ELSE inbox[e]]

\* A backoff expires.
InboxDue(d) ==
    /\ ~inbox[d].due
    /\ inbox' = [inbox EXCEPT ![d].due = TRUE]
    /\ UNCHANGED <<ops, slots>>
OperationDue(k) ==
    /\ ~ops[k].due
    /\ ops' = [ops EXCEPT ![k].due = TRUE]
    /\ UNCHANGED <<inbox, slots>>
-----------------------------------------------------------------------------
(* Every caller at once.  A client claims only for the envelope it is      *)
(* processing, and a child only inside its running planner; it holds       *)
(* whatever attempt numbers it ever saw, and reports not_sent only for a   *)
(* row without a send mark or for a planner, whose mark means "computation *)
(* started".                                                               *)

StoreInboxNext ==
    \/ \E d \in Deliveries :
          \/ Enqueue(d) \/ ClaimInbox(d) \/ InboxDue(d) \/ RecoverDelivery(d)
          \/ \E a \in 1..MaxLeases, retry \in BOOLEAN : FinishInbox(d, a, retry)
    \/ \E old \in SUBSET Deliveries : CleanupInbox(old)
    \/ ResumeInbox
    \/ RecoverRunning

StoreClaimNext == \E k \in Keys, d \in Deliveries, h \in Heads :
    /\ inbox[d].state = "running"
    /\ KindOf[k] # "notification_ledger"
    /\ ParentOf[k] # None => ops[ParentOf[k]].state = "running"
    /\ \/ Claim(k, d, h)
       \/ \E users \in SUBSET Logins, max \in 0..BudgetCap :
             ClaimNotification(k, d, h, users, max)

StoreHolderNext == \E k \in Keys : \E a \in 1..MaxAttempts[k] :
    \/ MarkSent(k, a)
    \/ \E state \in OpStates : Finish(k, a, state)
    \/ \E h \in Heads : RefreshOpenedSnapshot(k, a, h)
    \/ \E c \in Keys : RefreshPathLabels(k, a, c)
    \/ ResolveUnknown(k, a, "succeeded")
    \/ ResolveUnknown(k, a, "retry_idempotent")
    \/ (ops[k].sent => k \in Planners) /\ ResolveUnknown(k, a, "not_sent")

StorePolicyNext == \E k \in Keys :
    \/ FailUnsent(k) \/ SupersedeUnsentChildren(k) \/ RevokeOpened(k) \/ OperationDue(k)
    \/ \E decision \in {"confirm-success", "confirm-not-sent", "retry"} : Administer(k, decision)
    \/ \E users \in SUBSET Logins : RestoreLedger(k, users)

StoreNext == StoreInboxNext \/ StoreClaimNext \/ StoreHolderNext \/ StorePolicyNext

StoreSpec == StoreInit /\ [][StoreNext]_storeVars

-----------------------------------------------------------------------------
(* Safety. *)

\* A reservation exists exactly while its notification may still reach its
\* recipient or already has: never for a row that is pending, refused or
\* withdrawn, and it is committed exactly when the write is confirmed.
ReservationLive == \A s \in Scopes, u \in Logins :
    LET k == slots[<<s, u>>].operation IN k # None =>
        /\ ScopeOf[k] = s
        /\ ops[k].state \in {"running", "unknown", "succeeded"}
        /\ slots[<<s, u>>].committed <=> ops[k].state = "succeeded"

\* A claim never reserves a recipient beyond the ceiling, whatever budgets the
\* successive configurations asked for and however much was restored.
GrantsWithinBudget == [][\A s \in Scopes :
    (\E u \in Logins : /\ slots[<<s, u>>].operation = None
                       /\ slots'[<<s, u>>].operation # None
                       /\ ~slots'[<<s, u>>].committed)
        => Cardinality(Held(s)') <= BudgetCap]_storeVars

\* The recovery envelope outlives every operation that may need it again.
EnvelopeRetained == \A k \in Keys :
    ops[k].state \in {"pending", "running", "unknown", "failed"}
        => inbox[ops[k].delivery].state # "absent"

\* A confirmed receipt and a withdrawal are final: no recovery, revocation,
\* refusal or operator decision reopens them.
ReceiptsFinal == [][\A k \in Keys : ops[k].state \in {"succeeded", "superseded"}
                       => ops'[k].state = ops[k].state]_storeVars

\* A write that may already be at GitHub keeps its reservations until it is
\* confirmed, or until the step that makes it runnable again (the operator's
\* evidence) or records the definite rejection its own owner received.
UncertainKeepsReservation == [][\A x \in Slots :
    LET k == slots[x].operation
    IN  (k # None /\ ops[k].sent /\ slots'[x] = FreeSlot)
            => \/ ops[k].state = "unknown" /\ ops'[k].state = "pending"
               \/ ops[k].state = "running" /\ ops'[k].state = "failed"]_storeVars
=============================================================================
