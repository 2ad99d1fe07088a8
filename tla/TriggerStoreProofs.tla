------------------------- MODULE TriggerStoreProofs -------------------------
(***************************************************************************)
(* Theorems about the trigger ledger for every set of deliveries, keys,    *)
(* scopes and logins: it stays well formed, reservations exist exactly     *)
(* while their notification may reach somebody, receipts and withdrawals   *)
(* are final, the recovery envelope outlives the work, and an uncertain    *)
(* write keeps its recipients.                                             *)
(***************************************************************************)
EXTENDS TriggerStore, FiniteSetTheorems, TLAPS

-----------------------------------------------------------------------------
(* Releasing and committing reservations keeps the table well formed. *)

LEMMA SlotUpdates ==
    ASSUME StoreTypeOK, NEW ks, NEW k
    PROVE  /\ Released(ks) \in [Slots -> Reservation]
           /\ Committed(k) \in [Slots -> Reservation]
  <1>1. /\ slots \in [Slots -> Reservation]
        /\ FreeSlot \in Reservation
    BY DEF StoreTypeOK, FreeSlot, Reservation
  <1>2. Released(ks) \in [Slots -> Reservation]
    BY <1>1 DEF Released
  <1>3. \A x \in Slots : [slots[x] EXCEPT !.committed = TRUE] \in Reservation
    BY <1>1 DEF Reservation
  <1>4. Committed(k) \in [Slots -> Reservation]
    BY <1>1, <1>3 DEF Committed
  <1> QED
    BY <1>2, <1>4

\* The first half of every claim: the row is counted, leased and unmarked.
LEMMA ClaimRowType ==
    ASSUME StoreTypeOK, NEW k \in Keys, NEW d \in Deliveries, NEW h \in Heads, ClaimRow(k, d, h)
    PROVE  ops' \in [Keys -> Operation]
  <1>1. ops \in [Keys -> Operation] /\ ops[k] \in Operation
    BY DEF StoreTypeOK
  <1>2. ops[k].attempts + 1 \in Nat
    BY <1>1 DEF Operation
  <1> QED
    BY <1>1, <1>2 DEF ClaimRow, Operation, OpStates

LEMMA InboxTypeStep ==
    ASSUME StoreTypeOK, StoreInboxNext
    PROVE  StoreTypeOK'
  <1> USE DEF StoreTypeOK
  <1>1. ASSUME NEW d \in Deliveries, Enqueue(d)
        PROVE  StoreTypeOK'
    BY <1>1 DEF Enqueue, NoEnvelope, Envelope, InboxStates
  <1>2. ASSUME NEW d \in Deliveries, ClaimInbox(d)
        PROVE  StoreTypeOK'
    BY <1>2, BoundAssumption DEF ClaimInbox, Envelope, InboxStates
  <1>3. ASSUME NEW d \in Deliveries, InboxDue(d)
        PROVE  StoreTypeOK'
    BY <1>3 DEF InboxDue, Envelope, InboxStates
  <1>4. ASSUME NEW d \in Deliveries, RecoverDelivery(d)
        PROVE  StoreTypeOK'
    BY <1>4 DEF RecoverDelivery, Operation, OpStates
  <1>5. ASSUME NEW d \in Deliveries, NEW a \in 1..MaxLeases, NEW retry \in BOOLEAN,
               FinishInbox(d, a, retry)
        PROVE  StoreTypeOK'
    BY <1>5, ZenonT(60) DEF FinishInbox, Envelope, InboxStates
  <1>6. ASSUME NEW old \in SUBSET Deliveries, CleanupInbox(old)
        PROVE  StoreTypeOK'
    BY <1>6 DEF CleanupInbox, NoEnvelope, Envelope, InboxStates
  <1>7. ASSUME ResumeInbox
        PROVE  StoreTypeOK'
    BY <1>7 DEF ResumeInbox, Envelope, InboxStates
  <1>8. ASSUME RecoverRunning
        PROVE  StoreTypeOK'
    <2>1. inbox' \in [Deliveries -> Envelope]
      BY <1>8 DEF RecoverRunning, Envelope, InboxStates
    <2>2. ops' \in [Keys -> Operation]
      <3>1. \A k \in Keys : [ops[k] EXCEPT !.state = "unknown"] \in Operation
        BY DEF Operation, OpStates
      <3> QED
        BY <1>8, <3>1 DEF RecoverRunning
    <2> QED
      BY <1>8, <2>1, <2>2 DEF RecoverRunning
  <1> QED
    BY <1>1, <1>2, <1>3, <1>4, <1>5, <1>6, <1>7, <1>8 DEF StoreInboxNext

LEMMA ClaimTypeStep ==
    ASSUME StoreTypeOK, StoreClaimNext
    PROVE  StoreTypeOK'
  <1>1. PICK k \in Keys, d \in Deliveries, h \in Heads :
           \/ Claim(k, d, h)
           \/ \E users \in SUBSET Logins, max \in 0..BudgetCap :
                 ClaimNotification(k, d, h, users, max)
    BY DEF StoreClaimNext
  <1>2. CASE Claim(k, d, h)
    BY <1>2, ClaimRowType DEF Claim, StoreTypeOK
  <1>3. CASE \E users \in SUBSET Logins, max \in 0..BudgetCap :
                 ClaimNotification(k, d, h, users, max)
    <2>1. PICK users \in SUBSET Logins, max \in 0..BudgetCap :
             ClaimNotification(k, d, h, users, max)
      BY <1>3
    <2>2. ops' \in [Keys -> Operation] /\ inbox' \in [Deliveries -> Envelope]
      BY <2>1, ClaimRowType DEF ClaimNotification, StoreTypeOK
    <2>3. [FreeSlot EXCEPT !.operation = k] \in Reservation
      BY DEF FreeSlot, Reservation
    <2>4. slots' \in [Slots -> Reservation]
      BY <2>1, <2>3 DEF ClaimNotification, StoreTypeOK
    <2> QED
      BY <2>2, <2>4 DEF StoreTypeOK
  <1> QED
    BY <1>1, <1>2, <1>3

LEMMA HolderTypeStep ==
    ASSUME StoreTypeOK, StoreHolderNext
    PROVE  StoreTypeOK'
  <1>1. PICK k \in Keys : \E a \in 1..MaxAttempts[k] :
           \/ MarkSent(k, a)
           \/ \E state \in OpStates : Finish(k, a, state)
           \/ \E h \in Heads : RefreshOpenedSnapshot(k, a, h)
           \/ \E c \in Keys : RefreshPathLabels(k, a, c)
           \/ \E outcome \in {"succeeded", "retry_idempotent", "not_sent"} :
                 ResolveUnknown(k, a, outcome)
    BY DEF StoreHolderNext
  <1>1a. PICK a \in 1..MaxAttempts[k] :
           \/ MarkSent(k, a)
           \/ \E state \in OpStates : Finish(k, a, state)
           \/ \E h \in Heads : RefreshOpenedSnapshot(k, a, h)
           \/ \E c \in Keys : RefreshPathLabels(k, a, c)
           \/ \E outcome \in {"succeeded", "retry_idempotent", "not_sent"} :
                 ResolveUnknown(k, a, outcome)
    BY <1>1
  <1>2. CASE MarkSent(k, a)
    BY <1>2, ZenonT(60) DEF MarkSent, StoreTypeOK, Operation, OpStates
  <1>3. ASSUME NEW state \in OpStates, Finish(k, a, state)
        PROVE  StoreTypeOK'
    <2>1. slots' \in [Slots -> Reservation]
      BY <1>3, SlotUpdates DEF Finish, StoreTypeOK
    <2> QED
      BY <1>3, <2>1, ZenonT(60) DEF Finish, StoreTypeOK, Operation
  <1>4. ASSUME NEW h \in Heads, RefreshOpenedSnapshot(k, a, h)
        PROVE  StoreTypeOK'
    BY <1>4 DEF RefreshOpenedSnapshot, StoreTypeOK, Operation, OpStates
  <1>5. ASSUME NEW c \in Keys, RefreshPathLabels(k, a, c)
        PROVE  StoreTypeOK'
    BY <1>5 DEF RefreshPathLabels, StoreTypeOK, Operation, OpStates
  <1>6. ASSUME NEW outcome \in {"succeeded", "retry_idempotent", "not_sent"},
               ResolveUnknown(k, a, outcome)
        PROVE  StoreTypeOK'
    <2>1. slots' \in [Slots -> Reservation]
      BY <1>6, SlotUpdates DEF ResolveUnknown, StoreTypeOK
    <2>2. \A state \in OpStates, sent \in BOOLEAN, due \in BOOLEAN :
             [ops[k] EXCEPT !.state = state, !.sent = sent, !.due = due] \in Operation
      BY DEF StoreTypeOK, Operation
    <2>3. ops' \in [Keys -> Operation]
      <3>1. CASE outcome = "succeeded"
        BY <1>6, <2>2, <3>1 DEF ResolveUnknown, StoreTypeOK, OpStates
      <3>2. CASE outcome # "succeeded"
        BY <1>6, <2>2, <3>2 DEF ResolveUnknown, StoreTypeOK, OpStates
      <3> QED
        BY <3>1, <3>2
    <2> QED
      BY <1>6, <2>1, <2>3 DEF ResolveUnknown, StoreTypeOK
  <1> QED
    BY <1>1a, <1>2, <1>3, <1>4, <1>5, <1>6

LEMMA PolicyTypeStep ==
    ASSUME StoreTypeOK, StorePolicyNext
    PROVE  StoreTypeOK'
  <1>1. PICK k \in Keys :
           \/ FailUnsent(k) \/ SupersedeUnsentChildren(k) \/ RevokeOpened(k) \/ OperationDue(k)
           \/ \E decision \in {"confirm-success", "confirm-not-sent", "retry"} :
                 Administer(k, decision)
           \/ \E users \in SUBSET Logins : RestoreLedger(k, users)
    BY DEF StorePolicyNext
  <1>2. CASE FailUnsent(k)
    BY <1>2, SlotUpdates, ZenonT(60) DEF FailUnsent, StoreTypeOK, Operation, OpStates
  <1>3. CASE SupersedeUnsentChildren(k)
    BY <1>3, SlotUpdates DEF SupersedeUnsentChildren, StoreTypeOK, Operation, OpStates
  <1>4. CASE RevokeOpened(k)
    BY <1>4, SlotUpdates DEF RevokeOpened, StoreTypeOK, Operation, OpStates
  <1>5. CASE OperationDue(k)
    BY <1>5, ZenonT(60) DEF OperationDue, StoreTypeOK, Operation, OpStates
  <1>6. ASSUME NEW decision \in {"confirm-success", "confirm-not-sent", "retry"},
               Administer(k, decision)
        PROVE  StoreTypeOK'
    <2>1. slots' \in [Slots -> Reservation]
      BY <1>6, SlotUpdates DEF Administer, StoreTypeOK
    <2>2. inbox' \in [Deliveries -> Envelope]
      BY <1>6 DEF Administer, StoreTypeOK, Envelope, InboxStates
    <2>3. ops' \in [Keys -> Operation]
      <3>1. \A j \in Keys, state \in {"succeeded", "pending"} :
               /\ [ops[j] EXCEPT !.state = state, !.sent = FALSE, !.due = TRUE] \in Operation
               /\ [ops[j] EXCEPT !.state = "pending", !.due = TRUE] \in Operation
               /\ ops[j] \in Operation
        BY ZenonT(60) DEF StoreTypeOK, Operation, OpStates
      <3> QED
        BY <1>6, <3>1 DEF Administer
    <2> QED
      BY <2>1, <2>2, <2>3 DEF StoreTypeOK
  <1>7. ASSUME NEW users \in SUBSET Logins, RestoreLedger(k, users)
        PROVE  StoreTypeOK'
    BY <1>7 DEF RestoreLedger, StoreTypeOK, NoOperation, Operation, OpStates, Reservation
  <1> QED
    BY <1>1, <1>2, <1>3, <1>4, <1>5, <1>6, <1>7

LEMMA StoreTypeStep ==
    ASSUME StoreTypeOK, [StoreNext]_storeVars
    PROVE  StoreTypeOK'
  <1>1. CASE UNCHANGED storeVars
    BY <1>1 DEF storeVars, StoreTypeOK
  <1> QED
    BY <1>1, InboxTypeStep, ClaimTypeStep, HolderTypeStep, PolicyTypeStep DEF StoreNext

\* Every row of the three tables stays well formed: an operation's state, its
\* fence and its leases are always ones the code can read back.
THEOREM StoreTypeCorrect == StoreSpec => []StoreTypeOK
  <1>1. StoreInit => StoreTypeOK
    BY DEF StoreInit, StoreTypeOK, NoEnvelope, NoOperation, FreeSlot,
           Envelope, Operation, Reservation, InboxStates, OpStates
  <1>2. StoreTypeOK /\ [StoreNext]_storeVars => StoreTypeOK'
    BY StoreTypeStep
  <1> QED
    BY <1>1, <1>2, PTL DEF StoreSpec

-----------------------------------------------------------------------------
(* Receipts. *)

\* The operations each kind of step can touch, and from which states.
LEMMA RowSteps ==
    ASSUME StoreTypeOK, StoreNext, NEW k \in Keys, ops'[k].state # ops[k].state
    PROVE  /\ ops[k].state \notin {"succeeded", "superseded"}
           /\ ops'[k].state \in OpStates
  <1> USE DEF StoreTypeOK
  <1>0. ops'[k].state \in OpStates
    BY StoreTypeStep DEF Operation
  <1>1. CASE StoreInboxNext
    <2>1. ASSUME NEW d \in Deliveries, RecoverDelivery(d)
          PROVE  ops[k].state = "running"
      BY <2>1 DEF RecoverDelivery
    <2>2. ASSUME RecoverRunning
          PROVE  ops[k].state = "running"
      BY <2>2 DEF RecoverRunning
    <2> QED
      BY <1>0, <1>1, <2>1, <2>2 DEF StoreInboxNext, Enqueue, ClaimInbox, InboxDue, FinishInbox,
                              CleanupInbox, ResumeInbox
  <1>2. CASE StoreClaimNext
    BY <1>0, <1>2 DEF StoreClaimNext, Claim, ClaimNotification, Claimable, Available, ClaimRow
  <1>3. CASE StoreHolderNext
    BY <1>0, <1>3 DEF StoreHolderNext, MarkSent, Finish, RefreshOpenedSnapshot, RefreshPathLabels,
                ResolveUnknown, Owns
  <1>4. CASE StorePolicyNext
    <2>1. PICK p \in Keys :
             \/ FailUnsent(p) \/ SupersedeUnsentChildren(p) \/ RevokeOpened(p) \/ OperationDue(p)
             \/ \E decision \in {"confirm-success", "confirm-not-sent", "retry"} :
                   Administer(p, decision)
             \/ \E users \in SUBSET Logins : RestoreLedger(p, users)
      BY <1>4 DEF StorePolicyNext
    <2>2. CASE FailUnsent(p)
      BY <1>0, <2>2 DEF FailUnsent
    <2>3. CASE SupersedeUnsentChildren(p)
      BY <1>0, <2>3 DEF SupersedeUnsentChildren
    <2>4. CASE RevokeOpened(p)
      BY <1>0, <2>4 DEF RevokeOpened
    <2>5. CASE OperationDue(p)
      BY <1>0, <2>5 DEF OperationDue
    <2>6. ASSUME NEW decision \in {"confirm-success", "confirm-not-sent", "retry"},
                 Administer(p, decision)
          PROVE  ops[k].state \in {"unknown", "failed"}
      BY <2>6 DEF Administer
    <2>7. ASSUME NEW users \in SUBSET Logins, RestoreLedger(p, users)
          PROVE  ops[k].state = "absent"
      BY <2>7 DEF RestoreLedger
    <2> QED
      BY <1>0, <2>1, <2>2, <2>3, <2>4, <2>5, <2>6, <2>7
  <1> QED
    BY <1>1, <1>2, <1>3, <1>4 DEF StoreNext

\* Nothing reopens a confirmed receipt or a withdrawal.
THEOREM ReceiptsAreFinal == StoreSpec => ReceiptsFinal
  <1>1. StoreTypeOK /\ [StoreNext]_storeVars =>
           [\A k \in Keys : ops[k].state \in {"succeeded", "superseded"}
                => ops'[k].state = ops[k].state]_storeVars
    BY RowSteps DEF storeVars
  <1> QED
    BY <1>1, StoreTypeCorrect, PTL DEF StoreSpec, ReceiptsFinal

-----------------------------------------------------------------------------
(* Reservations.  The invariant is not inductive by itself: it also takes    *)
(* that only notifications and attested ledgers hold recipients (a planner   *)
(* or a label write may become runnable again with its row untouched), and   *)
(* that an attested ledger is never anything but succeeded.                  *)

SlotLive(x) ==
    LET k == slots[x].operation IN k # None =>
        /\ ScopeOf[k] = x[1]
        /\ KindOf[k] \in {"comment", "notification_ledger"}
        /\ ops[k].state \in {"running", "unknown", "succeeded"}
        /\ slots[x].committed <=> ops[k].state = "succeeded"

LedgerSettled == \A k \in Keys :
    KindOf[k] = "notification_ledger" => ops[k].state \in {"absent", "succeeded"}

ReservationInv ==
    /\ StoreTypeOK
    /\ \A x \in Slots : SlotLive(x)
    /\ LedgerSettled

\* The conditions on a slot only look at its own reservation and at the row
\* that holds it.
LEMMA SlotLiveKept ==
    ASSUME ReservationInv, NEW x \in Slots, slots'[x] = slots[x],
           slots[x].operation # None =>
               \/ ops'[slots[x].operation].state = ops[slots[x].operation].state
               \/ /\ ops[slots[x].operation].state = "running"
                  /\ ops'[slots[x].operation].state = "unknown"
    PROVE  SlotLive(x)'
  BY DEF ReservationInv, SlotLive

LEMMA ReservationInboxStep ==
    ASSUME ReservationInv, StoreInboxNext
    PROVE  \A x \in Slots : SlotLive(x)'
  <1>1. slots' = slots
    BY DEF StoreInboxNext, Enqueue, ClaimInbox, InboxDue, RecoverDelivery, FinishInbox,
           CleanupInbox, ResumeInbox, RecoverRunning
  <1>2. ASSUME NEW k \in Keys
        PROVE  \/ ops'[k].state = ops[k].state
               \/ ops[k].state = "running" /\ ops'[k].state = "unknown"
    <2>1. ASSUME NEW d \in Deliveries, RecoverDelivery(d)
          PROVE  ops'[k] = IF ops[k].state = "running" /\ ops[k].lease = d
                           THEN [ops[k] EXCEPT !.state = "unknown"] ELSE ops[k]
      BY <2>1 DEF RecoverDelivery
    <2>2. ASSUME RecoverRunning
          PROVE  ops'[k] = IF ops[k].state = "running"
                           THEN [ops[k] EXCEPT !.state = "unknown"] ELSE ops[k]
      BY <2>2 DEF RecoverRunning
    <2>3. [ops[k] EXCEPT !.state = "unknown"].state = "unknown"
      BY DEF ReservationInv, StoreTypeOK, Operation
    <2> QED
      BY <2>1, <2>2, <2>3 DEF StoreInboxNext, Enqueue, ClaimInbox, InboxDue, FinishInbox,
                              CleanupInbox, ResumeInbox
  <1>3. \A x \in Slots : slots[x].operation \in Keys \cup {None}
    BY DEF ReservationInv, StoreTypeOK, Reservation
  <1> QED
    BY <1>1, <1>2, <1>3, SlotLiveKept

LEMMA ReservationClaimStep ==
    ASSUME ReservationInv, StoreClaimNext
    PROVE  \A x \in Slots : SlotLive(x)'
  <1>1. PICK k \in Keys, d \in Deliveries, h \in Heads :
           /\ KindOf[k] # "notification_ledger"
           /\ \/ Claim(k, d, h)
              \/ \E users \in SUBSET Logins, max \in 0..BudgetCap :
                    ClaimNotification(k, d, h, users, max)
    BY DEF StoreClaimNext
  <1>2. Claimable(k) /\ ClaimRow(k, d, h)
    BY <1>1 DEF Claim, ClaimNotification
  <1>3. ops[k].state \in {"absent", "pending"}
    BY <1>2 DEF Claimable, Available
  <1>4. ASSUME NEW x \in Slots, slots'[x] = slots[x]
        PROVE  SlotLive(x)'
    <2>1. slots[x].operation # k
      BY <1>3, NoneAssumption DEF ReservationInv, SlotLive
    <2>2. slots[x].operation # None =>
             ops'[slots[x].operation] = ops[slots[x].operation]
      BY <1>2, <2>1 DEF ClaimRow, ReservationInv, StoreTypeOK, Reservation
    <2> QED
      BY <1>4, <2>2, SlotLiveKept
  <1>5. CASE Claim(k, d, h)
    BY <1>4, <1>5 DEF Claim
  <1>6. ASSUME NEW users \in SUBSET Logins, NEW max \in 0..BudgetCap,
               ClaimNotification(k, d, h, users, max), NEW x \in Slots
        PROVE  SlotLive(x)'
    <2>1. PICK granted \in Grantable(ScopeOf[k], users, max) :
             slots' = [y \in Slots |-> IF y[1] = ScopeOf[k] /\ y[2] \in granted
                                       THEN [FreeSlot EXCEPT !.operation = k] ELSE slots[y]]
      BY <1>6 DEF ClaimNotification
    <2>2. CASE x[1] = ScopeOf[k] /\ x[2] \in granted
      <3>1. slots'[x] = [operation |-> k, committed |-> FALSE]
        BY <2>1, <2>2 DEF FreeSlot
      <3>2. ops'[k].state = "running"
        BY <1>2 DEF ClaimRow, ReservationInv, StoreTypeOK
      <3>3. KindOf[k] = "comment"
        BY <1>6 DEF ClaimNotification
      <3>4. slots'[x].operation = k /\ slots'[x].committed = FALSE
        BY <3>1
      <3> QED
        BY <2>2, <3>2, <3>3, <3>4 DEF SlotLive
    <2>3. CASE ~(x[1] = ScopeOf[k] /\ x[2] \in granted)
      <3>1. slots'[x] = slots[x]
        BY <2>1, <2>3
      <3> QED
        BY <1>4, <3>1
    <2> QED
      BY <2>2, <2>3
  <1> QED
    BY <1>1, <1>5, <1>6

LEMMA ReservationHolderStep ==
    ASSUME ReservationInv, StoreHolderNext
    PROVE  \A x \in Slots : SlotLive(x)'
  <1> DEFINE op(x) == slots[x].operation
  <1>0. \A x \in Slots : op(x) \in Keys \cup {None}
    BY DEF ReservationInv, StoreTypeOK, Reservation
  <1>1. PICK k \in Keys : \E a \in 1..MaxAttempts[k] :
           \/ MarkSent(k, a)
           \/ \E state \in OpStates : Finish(k, a, state)
           \/ \E h \in Heads : RefreshOpenedSnapshot(k, a, h)
           \/ \E c \in Keys : RefreshPathLabels(k, a, c)
           \/ \E outcome \in {"succeeded", "retry_idempotent", "not_sent"} :
                 ResolveUnknown(k, a, outcome)
    BY DEF StoreHolderNext
  <1>2. PICK a \in 1..MaxAttempts[k] :
           \/ MarkSent(k, a)
           \/ \E state \in OpStates : Finish(k, a, state)
           \/ \E h \in Heads : RefreshOpenedSnapshot(k, a, h)
           \/ \E c \in Keys : RefreshPathLabels(k, a, c)
           \/ \E outcome \in {"succeeded", "retry_idempotent", "not_sent"} :
                 ResolveUnknown(k, a, outcome)
    BY <1>1
  <1>3. CASE MarkSent(k, a) \/ \E h \in Heads : RefreshOpenedSnapshot(k, a, h)
    <2>1. slots' = slots /\ \A j \in Keys : ops'[j].state = ops[j].state
      BY <1>3 DEF MarkSent, RefreshOpenedSnapshot, ReservationInv, StoreTypeOK, Operation
    <2> QED
      BY <1>0, <2>1, SlotLiveKept
  <1>4. ASSUME NEW state \in OpStates, Finish(k, a, state), NEW x \in Slots
        PROVE  SlotLive(x)'
    <2>1. /\ ops[k].state = "running"
          /\ ops' = [ops EXCEPT ![k].state = state]
      BY <1>4 DEF Finish, Owns
    <2>2. ops'[k].state = state /\ \A j \in Keys \ {k} : ops'[j] = ops[j]
      BY <2>1 DEF ReservationInv, StoreTypeOK, Operation
    <2>3. CASE op(x) = k
      <3>1. slots[x] # FreeSlot /\ ~slots[x].committed
        BY <2>1, <2>3, NoneAssumption DEF ReservationInv, SlotLive, FreeSlot
      <3>2. CASE state = "succeeded"
        <4>1. slots'[x].operation = k /\ slots'[x].committed
          BY <1>4, <2>3, <3>2 DEF Finish, Committed, ReservationInv, StoreTypeOK, Reservation
        <4> QED
          BY <2>2, <2>3, <3>2, <4>1, NoneAssumption DEF SlotLive, ReservationInv
      <3>3. CASE state \in {"failed", "superseded"}
        <4>1. slots'[x] = FreeSlot
          BY <1>4, <2>3, <3>1, <3>3 DEF Finish, Released
        <4> QED
          BY <4>1 DEF SlotLive, FreeSlot
      <3>4. CASE state = "unknown"
        <4>1. slots'[x] = slots[x]
          BY <1>4, <3>4 DEF Finish
        <4> QED
          BY <2>1, <2>2, <2>3, <3>4, <4>1, SlotLiveKept
      <3> QED
        BY <1>4, <3>2, <3>3, <3>4 DEF Finish
    <2>4. CASE op(x) # k
      <3>1. slots'[x] = slots[x]
        BY <1>4, <2>4 DEF Finish, Committed, Released
      <3> QED
        BY <1>0, <2>2, <2>4, <3>1, SlotLiveKept
    <2> QED
      BY <2>3, <2>4
  <1>5. ASSUME NEW c \in Keys, RefreshPathLabels(k, a, c), NEW x \in Slots
        PROVE  SlotLive(x)'
    <2>1. slots' = slots /\ ops[c].state = "pending" /\ \A j \in Keys \ {c} : ops'[j] = ops[j]
      BY <1>5 DEF RefreshPathLabels, ReservationInv, StoreTypeOK
    <2>2. op(x) # c
      BY <2>1, NoneAssumption DEF ReservationInv, SlotLive
    <2> QED
      BY <1>0, <2>1, <2>2, SlotLiveKept
  <1>6. ASSUME NEW outcome \in {"succeeded", "retry_idempotent", "not_sent"},
               ResolveUnknown(k, a, outcome), NEW x \in Slots
        PROVE  SlotLive(x)'
    <2>1. ops[k].state = "unknown" /\ \A j \in Keys \ {k} : ops'[j] = ops[j]
      BY <1>6 DEF ResolveUnknown, ReservationInv, StoreTypeOK
    <2>2. CASE op(x) = k
      <3>1. KindOf[k] # "ensure_labels" /\ ~slots[x].committed
        BY <2>1, <2>2, NoneAssumption DEF ReservationInv, SlotLive
      <3>2. CASE outcome = "succeeded"
        <4>1. slots'[x].operation = k /\ slots'[x].committed
          BY <1>6, <2>2, <3>2 DEF ResolveUnknown, Committed, ReservationInv, StoreTypeOK,
                                  Reservation
        <4>2. ops'[k].state = "succeeded"
          BY <1>6, <3>2 DEF ResolveUnknown, ReservationInv, StoreTypeOK, Operation
        <4> QED
          BY <2>2, <4>1, <4>2, NoneAssumption DEF SlotLive, ReservationInv
      <3>3. CASE outcome = "not_sent"
        <4>1. slots'[x] = FreeSlot
          BY <1>6, <2>2, <3>1, <3>3 DEF ResolveUnknown, Released
        <4> QED
          BY <4>1 DEF SlotLive, FreeSlot
      <3> QED
        BY <1>6, <3>1, <3>2, <3>3 DEF ResolveUnknown
    <2>3. CASE op(x) # k
      <3>1. slots'[x] = slots[x]
        BY <1>6, <2>3 DEF ResolveUnknown, Committed, Released
      <3> QED
        BY <1>0, <2>1, <2>3, <3>1, SlotLiveKept
    <2> QED
      BY <2>2, <2>3
  <1> QED
    BY <1>2, <1>3, <1>4, <1>5, <1>6

LEMMA ReservationPolicyStep ==
    ASSUME ReservationInv, StorePolicyNext
    PROVE  \A x \in Slots : SlotLive(x)'
  <1> DEFINE op(x) == slots[x].operation
  <1>0. \A x \in Slots : op(x) \in Keys \cup {None}
    BY DEF ReservationInv, StoreTypeOK, Reservation
  <1>1. PICK p \in Keys :
           \/ FailUnsent(p) \/ SupersedeUnsentChildren(p) \/ RevokeOpened(p) \/ OperationDue(p)
           \/ \E decision \in {"confirm-success", "confirm-not-sent", "retry"} :
                 Administer(p, decision)
           \/ \E users \in SUBSET Logins : RestoreLedger(p, users)
    BY DEF StorePolicyNext
  <1> SUFFICES ASSUME NEW x \in Slots
               PROVE  SlotLive(x)'
    OBVIOUS
  <1>2. op(x) # None => ops[op(x)].state \in {"running", "unknown", "succeeded"}
    BY DEF ReservationInv, SlotLive
  <1>3. \A ks : slots'[x] = Released(ks)[x] /\ op(x) \notin ks => slots'[x] = slots[x]
    BY DEF Released
  <1>4. \A ks : slots'[x] = Released(ks)[x] /\ op(x) \in ks /\ ~slots[x].committed
                  => SlotLive(x)'
    BY DEF Released, SlotLive, FreeSlot
  <1>5. CASE FailUnsent(p)
    <2>1. \A j \in Keys \ {p} : ops'[j] = ops[j]
      BY <1>5 DEF FailUnsent, ReservationInv, StoreTypeOK
    <2>2. CASE op(x) = p /\ ops[p].state = "unknown" /\ ~ops[p].sent
      <3>1. ~slots[x].committed
        BY <2>2, NoneAssumption DEF ReservationInv, SlotLive
      <3>2. slots'[x] = Released({p})[x]
        BY <1>5, <2>2 DEF FailUnsent
      <3> QED
        BY <1>4, <2>2, <3>1, <3>2
    <2>3. CASE op(x) = p /\ ~(ops[p].state = "unknown" /\ ~ops[p].sent)
      <3>1. ops' = ops /\ slots' = slots
        BY <1>2, <1>5, <2>3, NoneAssumption DEF FailUnsent
      <3> QED
        BY <3>1, SlotLiveKept
    <2>4. CASE op(x) # p
      <3>1. slots'[x] = slots[x]
        BY <1>5, <2>4 DEF FailUnsent, Released
      <3> QED
        BY <1>0, <2>1, <2>4, <3>1, SlotLiveKept
    <2> QED
      BY <2>2, <2>3, <2>4
  <1>6. CASE SupersedeUnsentChildren(p)
    <2> DEFINE gone == {k \in Children(p) : ops[k].state \in {"pending", "superseded"}
                                              /\ ~ops[k].sent}
    <2>1. /\ slots' = Released(gone)
          /\ \A j \in Keys : ops[j].state # "pending" => ops'[j] = ops[j]
      <3>1. gone = {k \in Children(p) : ops[k].state = "pending" /\ ~ops[k].sent}
                   \cup {k \in Children(p) : ops[k].state = "superseded" /\ ~ops[k].sent}
        OBVIOUS
      <3> QED
        BY <1>6, <3>1 DEF SupersedeUnsentChildren
    <2>2. op(x) \notin gone
      BY <1>2, NoneAssumption DEF Children
    <2>3. slots'[x] = slots[x]
      BY <2>1, <2>2 DEF Released
    <2> QED
      BY <1>0, <1>2, <2>1, <2>3, SlotLiveKept
  <1>7. CASE RevokeOpened(p)
    <2>1. op(x) # p
      BY <1>7, NoneAssumption DEF RevokeOpened, Automatic, ReservationInv, SlotLive
    <2>2. CASE slots'[x] = slots[x]
      <3>1. op(x) # None => ops'[op(x)].state = ops[op(x)].state
        <4>1. CASE /\ op(x) \in Children(p)
                   /\ ops[p].state \in {"pending", "unknown", "superseded", "succeeded", "failed"}
                   /\ ops[op(x)].state = "unknown"
                   /\ ~ops[op(x)].sent
          <5>1. slots'[x] = FreeSlot
            <6>1. ~slots[x].committed
              BY <4>1, NoneAssumption DEF ReservationInv, SlotLive, Children
            <6> QED
              BY <1>7, <4>1, <6>1 DEF RevokeOpened, Released
          <5> QED
            BY <2>2, <5>1 DEF FreeSlot
        <4>2. CASE ~ /\ op(x) \in Children(p)
                     /\ ops[p].state \in {"pending", "unknown", "superseded", "succeeded", "failed"}
                     /\ ops[op(x)].state = "unknown"
                     /\ ~ops[op(x)].sent
          BY <1>0, <1>2, <1>7, <2>1, <4>2 DEF RevokeOpened
        <4> QED
          BY <4>1, <4>2
      <3> QED
        BY <2>2, <3>1, SlotLiveKept
    <2>3. CASE slots'[x] # slots[x]
      BY <1>7, <2>3 DEF RevokeOpened, Released, SlotLive, FreeSlot
    <2> QED
      BY <2>2, <2>3
  <1>8. CASE OperationDue(p)
    <2>1. slots' = slots /\ \A j \in Keys : ops'[j].state = ops[j].state
      BY <1>8 DEF OperationDue, ReservationInv, StoreTypeOK, Operation
    <2> QED
      BY <1>0, <2>1, SlotLiveKept
  <1>9. ASSUME NEW decision \in {"confirm-success", "confirm-not-sent", "retry"},
               Administer(p, decision)
        PROVE  SlotLive(x)'
    <2>1. /\ ops[p].state \in {"unknown", "failed"}
          /\ \A j \in Keys \ {p} : ops[j].state # "failed" => ops'[j] = ops[j]
      BY <1>9 DEF Administer
    <2>2. CASE op(x) = p
      <3>1. ~slots[x].committed /\ decision # "retry"
        BY <1>2, <1>9, <2>1, <2>2, NoneAssumption DEF Administer, ReservationInv, SlotLive
      <3>2. CASE decision = "confirm-success"
        <4>1. slots'[x].operation = p /\ slots'[x].committed
          BY <1>9, <2>2, <3>2 DEF Administer, Committed, ReservationInv, StoreTypeOK, Reservation
        <4>2. ops'[p].state = "succeeded"
          BY <1>9, <3>2 DEF Administer, ReservationInv, StoreTypeOK, Operation
        <4> QED
          BY <2>2, <4>1, <4>2, NoneAssumption DEF SlotLive, ReservationInv
      <3>3. CASE decision = "confirm-not-sent"
        <4>1. slots'[x] = Released({p})[x]
          BY <1>9, <3>3 DEF Administer
        <4> QED
          BY <1>4, <2>2, <3>1, <4>1
      <3> QED
        BY <3>1, <3>2, <3>3
    <2>3. CASE op(x) # p
      <3>1. slots'[x] = slots[x]
        BY <1>9, <2>3 DEF Administer, Committed, Released
      <3> QED
        BY <1>0, <1>2, <2>1, <2>3, <3>1, SlotLiveKept
    <2> QED
      BY <2>2, <2>3
  <1>10. ASSUME NEW users \in SUBSET Logins, RestoreLedger(p, users)
         PROVE  SlotLive(x)'
    <2>1. ops'[p].state = "succeeded" /\ \A j \in Keys \ {p} : ops'[j] = ops[j]
      BY <1>10 DEF RestoreLedger, ReservationInv, LedgerSettled, StoreTypeOK, NoOperation
    <2>2. KindOf[p] = "notification_ledger"
      BY <1>10 DEF RestoreLedger
    <2>3. CASE x[1] = ScopeOf[p] /\ x[2] \in users
      <3>1. slots'[x].operation = p /\ slots'[x].committed = TRUE
        BY <1>10, <2>3 DEF RestoreLedger
      <3> QED
        BY <2>1, <2>2, <2>3, <3>1 DEF SlotLive
    <2>4. CASE ~(x[1] = ScopeOf[p] /\ x[2] \in users)
      <3>1. slots'[x] = slots[x]
        BY <1>10, <2>4 DEF RestoreLedger
      <3>2. op(x) = p => ops'[p].state = ops[p].state
        BY <1>2, <1>10, NoneAssumption DEF RestoreLedger
      <3> QED
        BY <1>0, <2>1, <3>1, <3>2, SlotLiveKept
    <2> QED
      BY <2>3, <2>4
  <1> QED
    BY <1>1, <1>5, <1>6, <1>7, <1>8, <1>9, <1>10

\* An attested ledger row is written once, already succeeded.
LEMMA LedgerSettledStep ==
    ASSUME ReservationInv, StoreNext
    PROVE  LedgerSettled'
  <1> SUFFICES ASSUME NEW k \in Keys, KindOf[k] = "notification_ledger"
               PROVE  ops'[k].state \in {"absent", "succeeded"}
    BY DEF LedgerSettled
  <1>1. ops[k].state \in {"absent", "succeeded"}
    BY DEF ReservationInv, LedgerSettled
  <1>2. CASE ops'[k].state = ops[k].state
    BY <1>1, <1>2
  <1>3. CASE ops'[k].state # ops[k].state
    <2>1. ops[k].state = "absent"
      BY <1>1, <1>3, RowSteps DEF ReservationInv
    <2>2. CASE StoreInboxNext
      BY <1>3, <2>1, <2>2 DEF StoreInboxNext, Enqueue, ClaimInbox, InboxDue, RecoverDelivery,
            FinishInbox, CleanupInbox, ResumeInbox, RecoverRunning, ReservationInv, StoreTypeOK
    <2>3. CASE StoreClaimNext
      BY <1>3, <2>3 DEF StoreClaimNext, Claim, ClaimNotification, ClaimRow, ReservationInv,
                        StoreTypeOK
    <2>4. CASE StoreHolderNext
      BY <1>3, <2>1, <2>4 DEF StoreHolderNext, MarkSent, Finish, RefreshOpenedSnapshot,
            RefreshPathLabels, ResolveUnknown, Owns, ReservationInv, StoreTypeOK
    <2>5. CASE StorePolicyNext
      <3>1. PICK p \in Keys :
               \/ FailUnsent(p) \/ SupersedeUnsentChildren(p) \/ RevokeOpened(p)
               \/ OperationDue(p)
               \/ \E decision \in {"confirm-success", "confirm-not-sent", "retry"} :
                     Administer(p, decision)
               \/ \E users \in SUBSET Logins : RestoreLedger(p, users)
        BY <2>5 DEF StorePolicyNext
      <3>2. CASE FailUnsent(p) \/ SupersedeUnsentChildren(p) \/ RevokeOpened(p)
        BY <1>3, <2>1, <3>2 DEF FailUnsent, SupersedeUnsentChildren, RevokeOpened,
                                ReservationInv, StoreTypeOK
      <3>3. CASE OperationDue(p)
        BY <1>3, <3>3 DEF OperationDue, ReservationInv, StoreTypeOK, Operation
      <3>4. ASSUME NEW decision \in {"confirm-success", "confirm-not-sent", "retry"},
                   Administer(p, decision)
            PROVE  FALSE
        BY <1>3, <2>1, <3>4 DEF Administer
      <3>5. ASSUME NEW users \in SUBSET Logins, RestoreLedger(p, users)
            PROVE  ops'[k].state = "succeeded"
        BY <1>3, <3>5 DEF RestoreLedger, ReservationInv, StoreTypeOK, NoOperation
      <3> QED
        BY <3>1, <3>2, <3>3, <3>4, <3>5
    <2> QED
      BY <2>2, <2>3, <2>4, <2>5 DEF StoreNext
  <1> QED
    BY <1>2, <1>3

LEMMA ReservationInvariant == StoreSpec => []ReservationInv
  <1>1. StoreInit => ReservationInv
    <2>1. StoreInit => StoreTypeOK
      BY DEF StoreInit, StoreTypeOK, NoEnvelope, NoOperation, FreeSlot,
             Envelope, Operation, Reservation, InboxStates, OpStates
    <2> QED
      BY <2>1 DEF StoreInit, ReservationInv, SlotLive, LedgerSettled, FreeSlot, NoOperation
  <1>2. ReservationInv /\ [StoreNext]_storeVars => ReservationInv'
    <2>1. CASE UNCHANGED storeVars
      BY <2>1 DEF storeVars, ReservationInv, SlotLive, LedgerSettled, StoreTypeOK
    <2>2. ASSUME ReservationInv, StoreNext
          PROVE  ReservationInv'
      <3>1. StoreTypeOK'
        BY <2>2, StoreTypeStep DEF ReservationInv
      <3>2. \A x \in Slots : SlotLive(x)'
        BY <2>2, ReservationInboxStep, ReservationClaimStep, ReservationHolderStep,
           ReservationPolicyStep DEF StoreNext
      <3>3. LedgerSettled'
        BY <2>2, LedgerSettledStep
      <3> QED
        BY <3>1, <3>2, <3>3 DEF ReservationInv, Slots
    <2> QED
      BY <2>1, <2>2
  <1> QED
    BY <1>1, <1>2, PTL DEF StoreSpec

\* A recipient is reserved exactly while a notification may still reach them,
\* or has: never for a row that is pending, refused or withdrawn.
THEOREM ReservationsAreLive == StoreSpec => []ReservationLive
  <1>1. ReservationInv => ReservationLive
    BY DEF ReservationInv, ReservationLive, SlotLive, Slots
  <1> QED
    BY <1>1, ReservationInvariant, PTL

-----------------------------------------------------------------------------
(* Envelopes. *)

EnvelopeStored == \A k \in Keys :
    ops[k].state \in {"pending", "running", "unknown", "failed"}
        => ops[k].delivery \in Deliveries /\ inbox[ops[k].delivery].state # "absent"

\* A row that is in use after a step was in use before it, under the same
\* delivery, or was claimed for an envelope being processed.
LEMMA InUseStep ==
    ASSUME StoreTypeOK, StoreNext, NEW k \in Keys,
           ops'[k].state \in {"pending", "running", "unknown", "failed"}
    PROVE  \/ /\ ops[k].state \in {"pending", "running", "unknown", "failed"}
              /\ ops'[k].delivery = ops[k].delivery
           \/ /\ ops'[k].delivery \in Deliveries
              /\ inbox[ops'[k].delivery].state = "running"
              /\ inbox' = inbox
  <1>1. CASE StoreInboxNext
    <2>1. CASE ops' = ops
      BY <2>1
    <2>2. ASSUME NEW d \in Deliveries, RecoverDelivery(d)
          PROVE  /\ ops[k].state \in {"pending", "running", "unknown", "failed"}
                 /\ ops'[k].delivery = ops[k].delivery
      BY <2>2 DEF RecoverDelivery, StoreTypeOK, Operation
    <2>3. ASSUME RecoverRunning
          PROVE  /\ ops[k].state \in {"pending", "running", "unknown", "failed"}
                 /\ ops'[k].delivery = ops[k].delivery
      BY <2>3 DEF RecoverRunning, StoreTypeOK, Operation
    <2> QED
      BY <1>1, <2>1, <2>2, <2>3 DEF StoreInboxNext, Enqueue, ClaimInbox, InboxDue, FinishInbox,
                                    CleanupInbox, ResumeInbox
  <1>2. CASE StoreClaimNext
    <2>1. PICK j \in Keys, d \in Deliveries, h \in Heads :
             /\ inbox[d].state = "running" /\ inbox' = inbox
             /\ Claimable(j) /\ ClaimRow(j, d, h)
      BY <1>2 DEF StoreClaimNext, Claim, ClaimNotification
    <2>2. CASE j = k
      BY <2>1, <2>2 DEF Claimable, Available, ClaimRow, StoreTypeOK
    <2>3. CASE j # k
      BY <2>1, <2>3 DEF ClaimRow, StoreTypeOK
    <2> QED
      BY <2>2, <2>3
  <1>3. CASE StoreHolderNext
    <2>1. PICK j \in Keys : \E a \in 1..MaxAttempts[j] :
             \/ MarkSent(j, a)
             \/ \E state \in OpStates : Finish(j, a, state)
             \/ \E h \in Heads : RefreshOpenedSnapshot(j, a, h)
             \/ \E c \in Keys : RefreshPathLabels(j, a, c)
             \/ \E outcome \in {"succeeded", "retry_idempotent", "not_sent"} :
                   ResolveUnknown(j, a, outcome)
      BY <1>3 DEF StoreHolderNext
    <2>2. ASSUME NEW a \in 1..MaxAttempts[j],
                 \/ MarkSent(j, a)
                 \/ \E state \in OpStates : Finish(j, a, state)
                 \/ \E h \in Heads : RefreshOpenedSnapshot(j, a, h)
                 \/ \E c \in Keys : RefreshPathLabels(j, a, c)
          PROVE  /\ ops[k].state \in {"pending", "running", "unknown", "failed"}
                 /\ ops'[k].delivery = ops[k].delivery
      BY <2>2 DEF MarkSent, Finish, RefreshOpenedSnapshot, RefreshPathLabels, Owns,
                  StoreTypeOK, Operation
    <2>3. ASSUME NEW a \in 1..MaxAttempts[j],
                 NEW outcome \in {"succeeded", "retry_idempotent", "not_sent"},
                 ResolveUnknown(j, a, outcome)
          PROVE  /\ ops[k].state \in {"pending", "running", "unknown", "failed"}
                 /\ ops'[k].delivery = ops[k].delivery
      BY <2>3 DEF ResolveUnknown, StoreTypeOK, Operation
    <2> QED
      BY <2>1, <2>2, <2>3
  <1>4. CASE StorePolicyNext
    <2>1. PICK p \in Keys :
             \/ FailUnsent(p) \/ SupersedeUnsentChildren(p) \/ RevokeOpened(p)
             \/ OperationDue(p)
             \/ \E decision \in {"confirm-success", "confirm-not-sent", "retry"} :
                   Administer(p, decision)
             \/ \E users \in SUBSET Logins : RestoreLedger(p, users)
      BY <1>4 DEF StorePolicyNext
    <2>2. CASE FailUnsent(p)
      BY <2>2 DEF FailUnsent, StoreTypeOK, Operation
    <2>3. CASE SupersedeUnsentChildren(p)
      BY <2>3 DEF SupersedeUnsentChildren, StoreTypeOK, Operation
    <2>4. CASE RevokeOpened(p)
      BY <2>4 DEF RevokeOpened, StoreTypeOK, Operation
    <2>5. CASE OperationDue(p)
      BY <2>5 DEF OperationDue, StoreTypeOK, Operation
    <2>6. ASSUME NEW decision \in {"confirm-success", "confirm-not-sent", "retry"},
                 Administer(p, decision)
          PROVE  /\ ops[k].state \in {"pending", "running", "unknown", "failed"}
                 /\ ops'[k].delivery = ops[k].delivery
      BY <2>6, ZenonT(60) DEF Administer, StoreTypeOK, Operation
    <2>7. ASSUME NEW users \in SUBSET Logins, RestoreLedger(p, users)
          PROVE  ops'[k] = ops[k]
      BY <2>7 DEF RestoreLedger, StoreTypeOK, NoOperation
    <2> QED
      BY <2>1, <2>2, <2>3, <2>4, <2>5, <2>6, <2>7
  <1> QED
    BY <1>1, <1>2, <1>3, <1>4 DEF StoreNext

\* Only cleanup removes an envelope, and not one that is in use.
LEMMA EnvelopeKept ==
    ASSUME StoreTypeOK, StoreNext, NEW k \in Keys,
           ops[k].state \in {"pending", "running", "unknown", "failed"},
           ops[k].delivery \in Deliveries, inbox[ops[k].delivery].state # "absent"
    PROVE  inbox'[ops[k].delivery].state # "absent"
  <1> DEFINE d == ops[k].delivery
  <1>1. CASE inbox' = inbox
    BY <1>1
  <1>2. ASSUME NEW e \in Deliveries, Enqueue(e)
        PROVE  inbox'[d] = inbox[d]
    BY <1>2 DEF Enqueue, StoreTypeOK
  <1>3. ASSUME NEW e \in Deliveries, ClaimInbox(e) \/ InboxDue(e)
        PROVE  inbox'[d].state # "absent"
    BY <1>3 DEF ClaimInbox, InboxDue, StoreTypeOK, Envelope
  <1>4. ASSUME NEW e \in Deliveries, NEW a \in 1..MaxLeases, NEW retry \in BOOLEAN,
               FinishInbox(e, a, retry)
        PROVE  inbox'[d].state # "absent"
    BY <1>4 DEF FinishInbox, StoreTypeOK, Envelope
  <1>5. ASSUME NEW old \in SUBSET Deliveries, CleanupInbox(old)
        PROVE  inbox'[d] = inbox[d]
    BY <1>5 DEF CleanupInbox, Cleanable
  <1>6. CASE ResumeInbox \/ RecoverRunning
    <2>1. inbox[d] \in Envelope /\ inbox[d].state # "absent"
      BY DEF StoreTypeOK
    <2>2. CASE inbox'[d] = inbox[d]
      BY <2>1, <2>2
    <2>3. CASE inbox'[d] = [inbox[d] EXCEPT !.state = "pending", !.due = TRUE]
      BY <2>1, <2>3 DEF Envelope
    <2>4. CASE inbox'[d] = [inbox[d] EXCEPT !.state = "unknown"]
      BY <2>1, <2>4 DEF Envelope
    <2>5. ResumeInbox => \A e \in Deliveries :
             \/ inbox'[e] = inbox[e]
             \/ inbox'[e] = [inbox[e] EXCEPT !.state = "pending", !.due = TRUE]
      BY Zenon DEF ResumeInbox
    <2>6. RecoverRunning => \A e \in Deliveries :
             \/ inbox'[e] = inbox[e]
             \/ inbox'[e] = [inbox[e] EXCEPT !.state = "unknown"]
      BY Zenon DEF RecoverRunning
    <2> QED
      BY <1>6, <2>2, <2>3, <2>4, <2>5, <2>6
  <1>7. ASSUME NEW p \in Keys,
               NEW decision \in {"confirm-success", "confirm-not-sent", "retry"},
               Administer(p, decision)
        PROVE  inbox'[d].state # "absent"
    BY <1>7 DEF Administer, StoreTypeOK, Envelope
  <1>8. StoreInboxNext \/ inbox' = inbox
           \/ \E p \in Keys, decision \in {"confirm-success", "confirm-not-sent", "retry"} :
                 Administer(p, decision)
    BY ZenonT(60)
       DEF StoreNext, StoreClaimNext, Claim, ClaimNotification, StoreHolderNext, MarkSent, Finish,
           RefreshOpenedSnapshot, RefreshPathLabels, ResolveUnknown, StorePolicyNext, FailUnsent,
           SupersedeUnsentChildren, RevokeOpened, OperationDue, RestoreLedger
  <1>9. ASSUME NEW e \in Deliveries, RecoverDelivery(e)
        PROVE  inbox' = inbox
    BY <1>9 DEF RecoverDelivery
  <1> QED
    BY <1>1, <1>2, <1>3, <1>4, <1>5, <1>6, <1>7, <1>8, <1>9 DEF StoreInboxNext

\* Cleanup never removes the recovery envelope of an operation that is pending,
\* running, uncertain or open to an operator's retry.
THEOREM EnvelopesAreRetained == StoreSpec => []EnvelopeRetained
  <1>1. StoreInit => EnvelopeStored
    BY DEF StoreInit, EnvelopeStored, NoOperation
  <1>2. StoreTypeOK /\ EnvelopeStored /\ [StoreNext]_storeVars => EnvelopeStored'
    <2>1. CASE UNCHANGED storeVars
      BY <2>1 DEF storeVars, EnvelopeStored
    <2>2. ASSUME StoreTypeOK, EnvelopeStored, StoreNext
          PROVE  EnvelopeStored'
      <3> SUFFICES ASSUME NEW k \in Keys,
                          ops'[k].state \in {"pending", "running", "unknown", "failed"}
                   PROVE  /\ ops'[k].delivery \in Deliveries
                          /\ inbox'[ops'[k].delivery].state # "absent"
        BY DEF EnvelopeStored
      <3>1. CASE /\ ops[k].state \in {"pending", "running", "unknown", "failed"}
                 /\ ops'[k].delivery = ops[k].delivery
        BY <2>2, <3>1, EnvelopeKept DEF EnvelopeStored
      <3>2. CASE /\ ops'[k].delivery \in Deliveries
                 /\ inbox[ops'[k].delivery].state = "running"
                 /\ inbox' = inbox
        BY <3>2
      <3> QED
        BY <2>2, <3>1, <3>2, InUseStep
    <2> QED
      BY <2>1, <2>2
  <1>3. EnvelopeStored => EnvelopeRetained
    BY DEF EnvelopeStored, EnvelopeRetained
  <1> QED
    BY <1>1, <1>2, <1>3, StoreTypeCorrect, PTL DEF StoreSpec

-----------------------------------------------------------------------------
(* What a step may do to one reservation. *)

LEMMA UncertainStep ==
    ASSUME ReservationInv, StoreNext, NEW x \in Slots,
           slots[x].operation # None, ops[slots[x].operation].sent, slots'[x] = FreeSlot
    PROVE  LET k == slots[x].operation
           IN  \/ ops[k].state = "unknown" /\ ops'[k].state = "pending"
               \/ ops[k].state = "running" /\ ops'[k].state = "failed"
  <1> DEFINE k == slots[x].operation
  <1>1. k \in Keys /\ slots'[x].operation = None /\ slots'[x] # slots[x]
    BY DEF ReservationInv, StoreTypeOK, Reservation, FreeSlot
  <1>2. ops[k].state \in {"running", "unknown", "succeeded"}
    BY DEF ReservationInv, SlotLive
  <1>3. CASE StoreInboxNext
    BY <1>1, <1>3 DEF StoreInboxNext, Enqueue, ClaimInbox, InboxDue, RecoverDelivery, FinishInbox,
           CleanupInbox, ResumeInbox, RecoverRunning
  <1>4. CASE StoreClaimNext
    <2>1. PICK j \in Keys, d \in Deliveries, h \in Heads :
             \/ Claim(j, d, h)
             \/ \E users \in SUBSET Logins, max \in 0..BudgetCap :
                   ClaimNotification(j, d, h, users, max)
      BY <1>4 DEF StoreClaimNext
    <2>2. CASE Claim(j, d, h)
      BY <1>1, <2>2 DEF Claim
    <2>3. ASSUME NEW users \in SUBSET Logins, NEW max \in 0..BudgetCap,
                 ClaimNotification(j, d, h, users, max)
          PROVE  FALSE
      <3>1. PICK granted \in Grantable(ScopeOf[j], users, max) :
               slots' = [y \in Slots |-> IF y[1] = ScopeOf[j] /\ y[2] \in granted
                                         THEN [FreeSlot EXCEPT !.operation = j] ELSE slots[y]]
        BY <2>3 DEF ClaimNotification
      <3>2. [FreeSlot EXCEPT !.operation = j].operation = j
        BY DEF FreeSlot
      <3> QED
        BY <1>1, <3>1, <3>2, NoneAssumption
    <2> QED
      BY <2>1, <2>2, <2>3
  <1>5. CASE StoreHolderNext
    <2>1. PICK j \in Keys : \E a \in 1..MaxAttempts[j] :
             \/ MarkSent(j, a)
             \/ \E state \in OpStates : Finish(j, a, state)
             \/ \E h \in Heads : RefreshOpenedSnapshot(j, a, h)
             \/ \E c \in Keys : RefreshPathLabels(j, a, c)
             \/ \E outcome \in {"succeeded", "retry_idempotent", "not_sent"} :
                   ResolveUnknown(j, a, outcome)
      BY <1>5 DEF StoreHolderNext
    <2>2. ASSUME NEW a \in 1..MaxAttempts[j],
                 \/ MarkSent(j, a)
                 \/ \E h \in Heads : RefreshOpenedSnapshot(j, a, h)
                 \/ \E c \in Keys : RefreshPathLabels(j, a, c)
          PROVE  FALSE
      BY <1>1, <2>2 DEF MarkSent, RefreshOpenedSnapshot, RefreshPathLabels
    <2>3. ASSUME NEW a \in 1..MaxAttempts[j], NEW state \in OpStates, Finish(j, a, state)
          PROVE  ops[k].state = "running" /\ ops'[k].state = "failed"
      <3>1. state \in {"failed", "superseded"} /\ j = k
        BY <1>1, <2>3 DEF Finish, Committed, Released, ReservationInv, StoreTypeOK, Reservation
      <3>2. ops[k].state = "running" /\ state = "failed"
        BY <2>3, <3>1 DEF Finish, Owns
      <3> QED
        BY <2>3, <3>1, <3>2 DEF Finish, ReservationInv, StoreTypeOK, Operation
    <2>4. ASSUME NEW a \in 1..MaxAttempts[j],
                 NEW outcome \in {"succeeded", "retry_idempotent", "not_sent"},
                 ResolveUnknown(j, a, outcome)
          PROVE  ops[k].state = "unknown" /\ ops'[k].state = "pending"
      <3>1. outcome = "not_sent" /\ j = k
        BY <1>1, <2>4 DEF ResolveUnknown, Committed, Released, ReservationInv, StoreTypeOK,
                          Reservation
      <3> QED
        BY <2>4, <3>1 DEF ResolveUnknown, ReservationInv, StoreTypeOK, Operation
    <2> QED
      BY <2>1, <2>2, <2>3, <2>4
  <1>6. CASE StorePolicyNext
    <2>1. PICK p \in Keys :
             \/ FailUnsent(p) \/ SupersedeUnsentChildren(p) \/ RevokeOpened(p)
             \/ OperationDue(p)
             \/ \E decision \in {"confirm-success", "confirm-not-sent", "retry"} :
                   Administer(p, decision)
             \/ \E users \in SUBSET Logins : RestoreLedger(p, users)
      BY <1>6 DEF StorePolicyNext
    <2>2. CASE FailUnsent(p) \/ OperationDue(p)
      BY <1>1, <2>2 DEF FailUnsent, OperationDue, Released
    <2>3. CASE SupersedeUnsentChildren(p)
      BY <1>1, <2>3 DEF SupersedeUnsentChildren, Released
    <2>4. CASE RevokeOpened(p)
      BY <1>1, <2>4 DEF RevokeOpened, Released
    <2>5. ASSUME NEW decision \in {"confirm-success", "confirm-not-sent", "retry"},
                 Administer(p, decision)
          PROVE  ops[k].state = "unknown" /\ ops'[k].state = "pending"
      <3>1. decision = "confirm-not-sent" /\ p = k
        <4>1. CASE decision = "confirm-success"
          BY <1>1, <2>5, <4>1 DEF Administer, Committed, ReservationInv, StoreTypeOK, Reservation
        <4>2. CASE decision = "confirm-not-sent"
          BY <1>1, <2>5, <4>2 DEF Administer, Released
        <4>3. CASE decision = "retry"
          BY <1>1, <2>5, <4>3 DEF Administer
        <4> QED
          BY <4>1, <4>2, <4>3
      <3> QED
        BY <1>2, <2>5, <3>1 DEF Administer, ReservationInv, StoreTypeOK, Operation
    <2>6. ASSUME NEW users \in SUBSET Logins, RestoreLedger(p, users)
          PROVE  FALSE
      BY <1>1, <2>6, NoneAssumption DEF RestoreLedger
    <2> QED
      BY <2>1, <2>2, <2>3, <2>4, <2>5, <2>6
  <1> QED
    BY <1>3, <1>4, <1>5, <1>6 DEF StoreNext

\* A write that may already be at GitHub never loses its recipients, except by
\* evidence that it was not sent or by the rejection its own owner received.
THEOREM UncertainReservationsStay == StoreSpec => UncertainKeepsReservation
  <1>1. ReservationInv /\ [StoreNext]_storeVars =>
           [\A x \in Slots :
               LET k == slots[x].operation
               IN  (k # None /\ ops[k].sent /\ slots'[x] = FreeSlot)
                      => \/ ops[k].state = "unknown" /\ ops'[k].state = "pending"
                         \/ ops[k].state = "running" /\ ops'[k].state = "failed"]_storeVars
    BY UncertainStep DEF storeVars
  <1> QED
    BY <1>1, ReservationInvariant, PTL DEF StoreSpec, UncertainKeepsReservation

LEMMA GrantStep ==
    ASSUME ReservationInv, StoreNext, NEW s \in Scopes, NEW u \in Logins,
           slots[<<s, u>>].operation = None, slots'[<<s, u>>].operation # None,
           ~slots'[<<s, u>>].committed
    PROVE  Cardinality(Held(s)') <= BudgetCap
  <1>1. <<s, u>> \in Slots /\ slots'[<<s, u>>] # slots[<<s, u>>]
    BY DEF Slots
  <1>2. ~StoreInboxNext
    BY <1>1 DEF StoreInboxNext, Enqueue, ClaimInbox, InboxDue, RecoverDelivery, FinishInbox,
           CleanupInbox, ResumeInbox, RecoverRunning
  <1>3. \A k \in Keys : slots' # Committed(k)
    BY <1>1, NoneAssumption DEF Committed
  <1>4. \A ks : slots' # Released(ks)
    BY <1>1 DEF Released, FreeSlot
  <1>5. ~StoreHolderNext
    BY <1>1, <1>3, <1>4, ZenonT(60) DEF StoreHolderNext, MarkSent, Finish, RefreshOpenedSnapshot,
           RefreshPathLabels, ResolveUnknown
  <1>6. ~StorePolicyNext
    <2> SUFFICES ASSUME StorePolicyNext PROVE FALSE
      OBVIOUS
    <2>1. PICK p \in Keys :
             \/ FailUnsent(p) \/ SupersedeUnsentChildren(p) \/ RevokeOpened(p)
             \/ OperationDue(p)
             \/ \E decision \in {"confirm-success", "confirm-not-sent", "retry"} :
                   Administer(p, decision)
             \/ \E users \in SUBSET Logins : RestoreLedger(p, users)
      BY DEF StorePolicyNext
    <2>2. ~FailUnsent(p) /\ ~OperationDue(p)
      BY <1>1, <1>4 DEF FailUnsent, OperationDue
    <2>3. ~SupersedeUnsentChildren(p) /\ ~RevokeOpened(p)
      BY <1>4 DEF SupersedeUnsentChildren, RevokeOpened
    <2>4. ASSUME NEW decision \in {"confirm-success", "confirm-not-sent", "retry"},
                 Administer(p, decision)
          PROVE  FALSE
      BY <1>1, <1>3, <1>4, <2>4 DEF Administer
    <2>5. ASSUME NEW users \in SUBSET Logins, RestoreLedger(p, users)
          PROVE  FALSE
      BY <1>1, <2>5 DEF RestoreLedger
    <2> QED
      BY <2>1, <2>2, <2>3, <2>4, <2>5
  <1>7. PICK k \in Keys, d \in Deliveries, h \in Heads, users \in SUBSET Logins,
             max \in 0..BudgetCap : ClaimNotification(k, d, h, users, max)
    BY <1>1, <1>2, <1>5, <1>6 DEF StoreNext, StoreClaimNext, Claim
  <1>8. PICK granted \in Grantable(ScopeOf[k], users, max) :
           slots' = [y \in Slots |-> IF y[1] = ScopeOf[k] /\ y[2] \in granted
                                     THEN [FreeSlot EXCEPT !.operation = k] ELSE slots[y]]
    BY <1>7 DEF ClaimNotification
  <1>9. ScopeOf[k] = s /\ u \in granted
    BY <1>1, <1>8
  <1>10. granted \subseteq Logins \ Held(s)
    BY <1>8, <1>9 DEF Grantable
  <1>11. Held(s)' = Held(s) \cup granted
    <2>1. [FreeSlot EXCEPT !.operation = k].operation # None
      BY NoneAssumption DEF FreeSlot
    <2>2. \A v \in Logins :
             slots'[<<s, v>>] = IF v \in granted THEN [FreeSlot EXCEPT !.operation = k]
                                ELSE slots[<<s, v>>]
      BY <1>8, <1>9 DEF Slots
    <2> QED
      BY <1>10, <2>1, <2>2 DEF Held
  <1>12. IsFiniteSet(Held(s)) /\ IsFiniteSet(granted)
    BY <1>10, FS_Subset, BoundAssumption DEF Held
  <1>13. /\ Cardinality(Held(s)) \in Nat
         /\ Cardinality(granted) \in Nat
         /\ Cardinality(granted) # 0
    BY <1>9, <1>12, FS_CardinalityType, FS_EmptySet
  <1>14. Cardinality(granted) <= IF max > Cardinality(Held(s)) THEN max - Cardinality(Held(s))
                                 ELSE 0
    BY <1>8, <1>9 DEF Grantable
  <1>15. Cardinality(Held(s)) + Cardinality(granted) <= BudgetCap
    BY <1>13, <1>14, BoundAssumption
  <1>16. Held(s) \cap granted = {}
    BY <1>10
  <1>17. Cardinality(Held(s) \cup granted) = Cardinality(Held(s)) + Cardinality(granted)
    <2>1. Cardinality(Held(s) \cup granted)
            = Cardinality(Held(s)) + Cardinality(granted) - Cardinality(Held(s) \cap granted)
      BY <1>12, FS_Union
    <2>2. Cardinality(Held(s) \cap granted) = 0
      BY <1>16, FS_EmptySet
    <2> QED
      BY <1>13, <2>1, <2>2
  <1> QED
    BY <1>11, <1>15, <1>17

\* However many claims share a notification scope, and whatever budgets the
\* changing configuration gives them, a claim never reserves past the ceiling.
THEOREM GrantsStayWithinBudget == StoreSpec => GrantsWithinBudget
  <1>1. ReservationInv /\ [StoreNext]_storeVars =>
           [\A s \in Scopes :
               (\E u \in Logins : /\ slots[<<s, u>>].operation = None
                                  /\ slots'[<<s, u>>].operation # None
                                  /\ ~slots'[<<s, u>>].committed)
                   => Cardinality(Held(s)') <= BudgetCap]_storeVars
    BY GrantStep DEF storeVars
  <1> QED
    BY <1>1, ReservationInvariant, PTL DEF StoreSpec, GrantsWithinBudget
=============================================================================
