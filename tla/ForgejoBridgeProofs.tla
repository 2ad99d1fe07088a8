------------------------ MODULE ForgejoBridgeProofs ------------------------
(***************************************************************************)
(* Theorems about the bridge for every set of items and comments, every    *)
(* home, every choice of texts that read differently on the other side,    *)
(* and any number of edits and faults: nothing is created twice and no     *)
(* creation is forgotten, the deliveries of a lane end in order, and, if   *)
(* people do not restore earlier texts, both sides agree once every        *)
(* delivery about an item is done.                                         *)
(*                                                                         *)
(* BridgeIInv says what the worker may rely on at each of its steps (its   *)
(* reservation, what it read, the row it holds) and that nothing behind a  *)
(* running delivery has overtaken it.  AgreeIInv says for every mapped     *)
(* item which side knows of a difference: the texts only get newer, and    *)
(* whoever has made one has left a delivery behind.                        *)
(***************************************************************************)
EXTENDS ForgejoBridge, WellFoundedInduction, TLAPS

\* Deliveries in these states are over.
Finished == {"done", "skipped"}

\* The worker's delivery is the one that is running, and only while the server
\* runs; a delivery left running by a crash has no worker.
WorkerHolds ==
    /\ worker.pc = "idle" => worker = Free
    /\ worker.pc # "idle" => up /\ worker.job \in DOMAIN deliveries /\ Job.state = "running"
    /\ up => \A d \in DOMAIN deliveries : deliveries[d].state = "running" => d = worker.job

\* The item a delivery is about exists on the side it comes from.
Shown == \A d \in DOMAIN deliveries : deliveries[d].about \in Items =>
    content[deliveries[d].side][deliveries[d].about] \in Texts

\* Which steps are taken for items only, what was read for them, and that a
\* mapped item is never reserved again.
Carrying ==
    /\ worker.pc \in {"read", "patch", "labels", "record"} => Job.about \in Items
    /\ worker.pc \in {"reserve", "post", "link", "patch", "labels", "record"}
          /\ Job.about \in Items => worker.read \in Texts
    /\ worker.pc = "reserve" /\ Job.about \in Items => Job.about \notin linked

\* The row that must be there before a POST.
Reserved(x) == IF x \in Items THEN x \in creates ELSE relayed[x] = "reserved"
\* A reserved item is not mapped; between reservation and mapping the worker's
\* row is there, and before the POST there is no peer.
Reservations ==
    /\ creates \cap linked = {}
    /\ worker.pc \in {"post", "link"} => Reserved(Job.about)
    /\ worker.pc = "post" => copies[Job.about] = 0

\* LanesInOrder made inductive: it holds of the running delivery as well.
LaneOrder == \A d, e \in DOMAIN deliveries :
    d < e /\ Lane(d) = Lane(e) /\ deliveries[e].state \in Finished \cup {"running", "left"} =>
        deliveries[d].state \in Finished

\* The inductive invariant.
BridgeIInv == BridgeInv /\ WorkerHolds /\ Shown /\ Carrying /\ Reservations /\ LaneOrder

-----------------------------------------------------------------------------
(* Operators of the model. *)

\* Min of a nonempty set of naturals is one of them (the oldest eligible delivery).
LEMMA LeastOfNaturals ==
    ASSUME NEW S, S \subseteq Nat, S # {}
    PROVE  Min(S) \in S
  <1>1. PICK x \in S : \A y \in S : ~ (<<y, x>> \in OpToRel(<, Nat))
    BY WFMin, NatLessThanWellFounded
  <1>2. \A y \in S : x <= y
    <2> SUFFICES ASSUME NEW y \in S
                 PROVE  x <= y
      OBVIOUS
    <2>1. ~ (y < x)
      BY <1>1 DEF OpToRel
    <2> QED
      BY <2>1
  <1> QED
    BY <1>2 DEF Min

\* Rendering keeps a text a text, and its number.
LEMMA RenderedText ==
    ASSUME NEW x \in Texts
    PROVE  Rendered(x) \in Texts /\ Rendered(x).text = x.text
  BY DEF Rendered, Texts

\* SetState changes the state of one delivery and nothing else.
LEMMA StateSet ==
    ASSUME BridgeTypeOK, NEW d \in DOMAIN deliveries, NEW st \in DeliveryStates, SetState(d, st)
    PROVE  /\ deliveries' \in Seq(Delivery)
           /\ Len(deliveries') = Len(deliveries)
           /\ DOMAIN deliveries' = DOMAIN deliveries
           /\ \A e \in DOMAIN deliveries :
                /\ deliveries'[e].about = deliveries[e].about
                /\ deliveries'[e].side = deliveries[e].side
                /\ deliveries'[e].state = IF e = d THEN st ELSE deliveries[e].state
  <1>1. deliveries \in Seq(Delivery) /\ deliveries[d] \in Delivery
    BY DEF BridgeTypeOK
  <1>2. [deliveries[d] EXCEPT !.state = st] \in Delivery
    BY <1>1 DEF Delivery
  <1>3. deliveries' = [deliveries EXCEPT ![d] = [deliveries[d] EXCEPT !.state = st]]
    BY DEF SetState
  <1>4. \A e \in DOMAIN deliveries : deliveries[e] \in Delivery
    BY <1>1
  <1> HIDE DEF SetState
  <1>5. deliveries' \in Seq(Delivery) /\ Len(deliveries') = Len(deliveries)
    BY <1>1, <1>2, <1>3
  <1>6. DOMAIN deliveries' = DOMAIN deliveries
    BY <1>3
  <1> QED
    BY <1>1, <1>2, <1>3, <1>4, <1>5, <1>6 DEF Delivery

\* Enqueue appends one pending delivery.
LEMMA Enqueued ==
    ASSUME BridgeTypeOK, NEW x \in Items \cup Comments, NEW s \in Sides, NEW o \in BOOLEAN,
           Enqueue(x, s, o)
    PROVE  /\ deliveries' \in Seq(Delivery)
           /\ Len(deliveries') = Len(deliveries) + 1
           /\ DOMAIN deliveries' = DOMAIN deliveries \cup {Len(deliveries) + 1}
           /\ \A e \in DOMAIN deliveries : e < Len(deliveries) + 1 /\ deliveries'[e] = deliveries[e]
           /\ deliveries'[Len(deliveries) + 1] =
                [about |-> x, side |-> s, opened |-> o, state |-> "pending"]
  <1>1. [about |-> x, side |-> s, opened |-> o, state |-> "pending"] \in Delivery
    BY DEF Delivery, DeliveryStates
  <1>2. deliveries \in Seq(Delivery)
    BY DEF BridgeTypeOK
  <1> QED
    BY <1>1, <1>2 DEF Enqueue

\* Start makes running deliveries pending and changes nothing else of them.
LEMMA Restarted ==
    ASSUME BridgeTypeOK, Start
    PROVE  /\ deliveries' \in Seq(Delivery)
           /\ Len(deliveries') = Len(deliveries)
           /\ DOMAIN deliveries' = DOMAIN deliveries
           /\ \A e \in DOMAIN deliveries :
                /\ deliveries'[e].about = deliveries[e].about
                /\ deliveries'[e].side = deliveries[e].side
                /\ deliveries'[e].state =
                     IF deliveries[e].state \in {"running", "left"} THEN "pending"
                     ELSE deliveries[e].state
  <1>1. deliveries \in Seq(Delivery) /\ \A d \in DOMAIN deliveries : deliveries[d] \in Delivery
    BY DEF BridgeTypeOK
  <1>2. \A d \in DOMAIN deliveries :
          [deliveries[d] EXCEPT
              !.state = IF @ \in {"running", "left"} THEN "pending" ELSE @] \in Delivery
    BY <1>1 DEF Delivery, DeliveryStates
  <1>3. DOMAIN deliveries = 1..Len(deliveries) /\ Len(deliveries) \in Nat
    BY <1>1
  <1>4. deliveries' = [d \in 1..Len(deliveries) |->
          [deliveries[d] EXCEPT !.state = IF @ \in {"running", "left"} THEN "pending" ELSE @]]
    BY <1>3 DEF Start
  <1>5. deliveries' \in Seq(Delivery) /\ Len(deliveries') = Len(deliveries)
    BY <1>2, <1>3, <1>4
  <1> QED
    BY <1>1, <1>2, <1>3, <1>4, <1>5 DEF Delivery

-----------------------------------------------------------------------------
(* The deliveries table. *)

\* The parts of the invariant that speak of the deliveries table, and what a step
\* has to preserve of them.
QueueInv == BridgeTypeOK /\ WorkerHolds /\ Shown /\ LaneOrder
QueueKept == WorkerHolds /\ Shown /\ LaneOrder
\* What is shown somewhere stays shown: steps replace texts, they do not remove any.
ContentKept == \A s \in Sides, i \in Items : content[s][i] \in Texts => content'[s][i] \in Texts

\* The entries of the table are deliveries.
LEMMA DeliveryTypes ==
    ASSUME BridgeTypeOK
    PROVE  /\ DOMAIN deliveries = 1..Len(deliveries) /\ Len(deliveries) \in Nat
           /\ \A d \in DOMAIN deliveries :
                /\ deliveries[d] \in Delivery
                /\ deliveries[d].about \in Items \cup Comments
                /\ deliveries[d].side \in Sides
                /\ deliveries[d].state \in DeliveryStates
  <1>1. deliveries \in Seq(Delivery)
    BY DEF BridgeTypeOK
  <1>2. \A d \in DOMAIN deliveries : deliveries[d] \in Delivery
    BY <1>1
  <1> QED
    BY <1>1, <1>2 DEF Delivery

\* A webhook at the end of the table disturbs neither the worker nor a lane.
LEMMA EnqueueKeepsQueue ==
    ASSUME QueueInv, up, NEW x \in Items \cup Comments, NEW s \in Sides, NEW o \in BOOLEAN,
           Enqueue(x, s, o), UNCHANGED <<worker, up>>, ContentKept,
           x \in Items => content'[s][x] \in Texts
    PROVE  QueueKept' /\ (worker.pc # "idle" => Job' = Job)
  <1> DEFINE n == Len(deliveries) + 1
  <1>1. /\ DOMAIN deliveries' = DOMAIN deliveries \cup {n}
        /\ \A e \in DOMAIN deliveries : e < n /\ deliveries'[e] = deliveries[e]
        /\ deliveries'[n] = [about |-> x, side |-> s, opened |-> o, state |-> "pending"]
    BY Enqueued DEF QueueInv
  <1>2. DOMAIN deliveries = 1..Len(deliveries) /\ Len(deliveries) \in Nat
    BY DeliveryTypes DEF QueueInv
  <1>3. n \notin DOMAIN deliveries /\ n \in Nat
    BY <1>2
  <1> HIDE DEF n
  <1>4. WorkerHolds'
    BY <1>1, <1>3 DEF QueueInv, WorkerHolds, Job
  <1>5. Shown'
    BY <1>1, <1>3, DeliveryTypes DEF QueueInv, Shown, ContentKept
  <1>6. LaneOrder'
    <2> SUFFICES ASSUME NEW d \in DOMAIN deliveries', NEW e \in DOMAIN deliveries',
                        d < e, Lane(d)' = Lane(e)',
                        deliveries'[e].state \in Finished \cup {"running", "left"}
                 PROVE  deliveries'[d].state \in Finished
      BY DEF LaneOrder
    <2>1. e \in DOMAIN deliveries
      BY <1>1 DEF Finished
    <2>2. d # n
      BY <2>1, <1>1, <1>2, <1>3
    <2>3. d \in DOMAIN deliveries
      BY <2>2, <1>1
    <2>4. Lane(d) = Lane(e)
      BY <1>1, <2>1, <2>3 DEF Lane
    <2> QED
      BY <1>1, <2>1, <2>3, <2>4 DEF QueueInv, LaneOrder
  <1>7. worker.pc # "idle" => Job' = Job
    BY <1>1 DEF QueueInv, WorkerHolds, Job
  <1> QED
    BY <1>4, <1>5, <1>6, <1>7 DEF QueueKept

\* Ending the running delivery, in whatever state, keeps the lanes in order.
LEMMA EndKeepsQueue ==
    ASSUME QueueInv, worker.pc # "idle", NEW st \in DeliveryStates \ {"pending", "running"},
           End(st), UNCHANGED up, ContentKept
    PROVE  /\ QueueKept'
           /\ deliveries' \in Seq(Delivery)
           /\ worker' = Free /\ worker'.pc = "idle"
           /\ 0 \in 0..Len(deliveries')
  <1> DEFINE j == worker.job
  <1>1. j \in DOMAIN deliveries /\ deliveries[j].state = "running" /\ up
    BY DEF QueueInv, WorkerHolds, Job
  <1>2. SetState(j, st) /\ worker' = Free
    BY DEF End
  <1>3. /\ deliveries' \in Seq(Delivery)
        /\ DOMAIN deliveries' = DOMAIN deliveries
        /\ \A e \in DOMAIN deliveries :
             /\ deliveries'[e].about = deliveries[e].about
             /\ deliveries'[e].side = deliveries[e].side
             /\ deliveries'[e].state = IF e = j THEN st ELSE deliveries[e].state
    BY <1>1, <1>2, StateSet DEF QueueInv
  <1> HIDE DEF j
  <1>4. WorkerHolds'
    BY <1>1, <1>2, <1>3 DEF j, QueueInv, WorkerHolds, Free
  <1>5. Shown'
    BY <1>3, DeliveryTypes DEF QueueInv, Shown, ContentKept
  <1>6. LaneOrder'
    <2> SUFFICES ASSUME NEW d \in DOMAIN deliveries, NEW e \in DOMAIN deliveries,
                        d < e, Lane(d)' = Lane(e)',
                        deliveries'[e].state \in Finished \cup {"running", "left"}
                 PROVE  deliveries'[d].state \in Finished
      BY <1>3 DEF LaneOrder
    <2>1. Lane(d) = Lane(e)
      BY <1>3 DEF Lane
    <2>2. deliveries[e].state \in Finished \cup {"running", "left"}
      BY <1>1, <1>3
    <2>3. deliveries[d].state \in Finished
      BY <2>1, <2>2 DEF QueueInv, LaneOrder
    <2> QED
      BY <1>1, <1>3, <2>3 DEF Finished
  <1>7. 0 \in 0..Len(deliveries')
    BY <1>3
  <1> QED
    BY <1>2, <1>3, <1>4, <1>5, <1>6, <1>7 DEF QueueKept, Free

\* A step of the worker that leaves the table alone keeps it in order.
LEMMA GoKeepsQueue ==
    ASSUME QueueInv, worker.pc # "idle", UNCHANGED <<deliveries, up>>, ContentKept,
           worker'.pc # "idle", worker'.job = worker.job
    PROVE  QueueKept' /\ Job' = Job
  BY DeliveryTypes DEF QueueInv, QueueKept, WorkerHolds, Job, Shown, LaneOrder, ContentKept, Lane

\* A delivery that waited or was blocked may become pending without harm: nothing
\* behind it in its lane has started.
LEMMA PendAgainKeepsQueue ==
    ASSUME QueueInv, NEW d \in DOMAIN deliveries, deliveries[d].state \in {"blocked", "waiting"},
           SetState(d, "pending"), UNCHANGED <<worker, up, content>>
    PROVE  QueueKept' /\ (worker.pc # "idle" => Job'.about = Job.about)
           /\ deliveries' \in Seq(Delivery) /\ Len(deliveries') = Len(deliveries)
  <1>1. /\ DOMAIN deliveries' = DOMAIN deliveries
        /\ deliveries' \in Seq(Delivery) /\ Len(deliveries') = Len(deliveries)
        /\ \A e \in DOMAIN deliveries :
             /\ deliveries'[e].about = deliveries[e].about
             /\ deliveries'[e].side = deliveries[e].side
             /\ deliveries'[e].state = IF e = d THEN "pending" ELSE deliveries[e].state
    BY StateSet DEF QueueInv, DeliveryStates
  <1>2. WorkerHolds'
    BY <1>1 DEF QueueInv, WorkerHolds, Job
  <1>3. Shown'
    BY <1>1 DEF QueueInv, Shown
  <1>4. LaneOrder'
    <2> SUFFICES ASSUME NEW c \in DOMAIN deliveries, NEW e \in DOMAIN deliveries,
                        c < e, Lane(c)' = Lane(e)',
                        deliveries'[e].state \in Finished \cup {"running", "left"}
                 PROVE  deliveries'[c].state \in Finished
      BY <1>1 DEF LaneOrder
    <2>1. Lane(c) = Lane(e)
      BY <1>1 DEF Lane
    <2>2. deliveries[e].state \in Finished \cup {"running", "left"}
      BY <1>1 DEF Finished
    <2> QED
      BY <1>1, <2>1, <2>2 DEF QueueInv, LaneOrder, Finished
  <1>5. worker.pc # "idle" => Job'.about = Job.about
    BY <1>1 DEF QueueInv, WorkerHolds, Job
  <1> QED
    BY <1>1, <1>2, <1>3, <1>4, <1>5 DEF QueueKept

\* bridge_claim_delivery starts a delivery only when all before it in its lane
\* are over.
LEMMA ClaimKeepsQueue ==
    ASSUME QueueInv, Claim
    PROVE  /\ QueueKept'
           /\ deliveries' \in Seq(Delivery)
           /\ worker'.pc = "gate" /\ worker'.job \in 0..Len(deliveries') /\ worker'.read = Absent
           /\ worker' = [pc |-> "gate", job |-> worker'.job, read |-> Absent]
  <1> DEFINE m == Min(Eligible)
  <1>1. DOMAIN deliveries = 1..Len(deliveries) /\ Len(deliveries) \in Nat
    BY DeliveryTypes DEF QueueInv
  <1>2. Eligible \subseteq Nat /\ Eligible # {}
    BY <1>1 DEF Eligible, Claim
  <1>3. m \in Eligible
    BY <1>2, LeastOfNaturals
  <1>4. m \in DOMAIN deliveries /\ SetState(m, "running")
    BY <1>3 DEF Eligible, Claim
  <1>5. /\ DOMAIN deliveries' = DOMAIN deliveries
        /\ deliveries' \in Seq(Delivery) /\ Len(deliveries') = Len(deliveries)
        /\ \A e \in DOMAIN deliveries :
             /\ deliveries'[e].about = deliveries[e].about
             /\ deliveries'[e].side = deliveries[e].side
             /\ deliveries'[e].state = IF e = m THEN "running" ELSE deliveries[e].state
    BY <1>4, StateSet DEF QueueInv, DeliveryStates
  <1>6. worker' = [pc |-> "gate", job |-> m, read |-> Absent]
    BY DEF Claim, Free
  <1>7. up /\ up' /\ worker = Free /\ UNCHANGED content
    BY DEF Claim, QueueInv, WorkerHolds, remote
  <1> HIDE DEF m
  <1>8. WorkerHolds'
    BY <1>1, <1>4, <1>5, <1>6, <1>7 DEF QueueInv, WorkerHolds, Job, Free
  <1>9. Shown'
    BY <1>5, <1>7 DEF QueueInv, Shown
  <1>10. LaneOrder'
    <2> SUFFICES ASSUME NEW c \in DOMAIN deliveries, NEW e \in DOMAIN deliveries,
                        c < e, Lane(c)' = Lane(e)',
                        deliveries'[e].state \in Finished \cup {"running", "left"}
                 PROVE  deliveries'[c].state \in Finished
      BY <1>5 DEF LaneOrder
    <2>1. Lane(c) = Lane(e)
      BY <1>5 DEF Lane
    <2>2. CASE e = m
      <3>1. deliveries[c].state \notin {"blocked", "running", "left", "waiting", "pending"}
        BY <2>1, <2>2, <1>3 DEF Eligible
      <3>2. deliveries[c].state \in DeliveryStates /\ c # m
        BY <2>2, <1>1, DeliveryTypes DEF QueueInv
      <3> QED
        BY <1>5, <3>1, <3>2 DEF DeliveryStates, Finished
    <2>3. CASE e # m
      <3>1. deliveries[e].state \in Finished \cup {"running", "left"}
        BY <2>3, <1>5
      <3>2. deliveries[c].state \in Finished
        BY <2>1, <3>1 DEF QueueInv, LaneOrder
      <3>3. c # m
        BY <3>2, <1>3 DEF Eligible, Finished
      <3> QED
        BY <3>2, <3>3, <1>5
    <2> QED
      BY <2>2, <2>3
  <1> QED
    BY <1>1, <1>4, <1>5, <1>6, <1>8, <1>9, <1>10 DEF QueueKept

\* Store::open frees what a crash left running.
LEMMA StartKeepsQueue ==
    ASSUME QueueInv, Start
    PROVE  /\ QueueKept' /\ worker.pc = "idle" /\ worker' = Free
           /\ deliveries' \in Seq(Delivery) /\ Len(deliveries') = Len(deliveries)
  <1>1. /\ DOMAIN deliveries' = DOMAIN deliveries
        /\ deliveries' \in Seq(Delivery) /\ Len(deliveries') = Len(deliveries)
        /\ \A e \in DOMAIN deliveries :
             /\ deliveries'[e].about = deliveries[e].about
             /\ deliveries'[e].side = deliveries[e].side
             /\ deliveries'[e].state =
                  IF deliveries[e].state \in {"running", "left"} THEN "pending"
                  ELSE deliveries[e].state
    BY Restarted DEF QueueInv
  <1>2. ~up /\ UNCHANGED <<content, worker>>
    BY DEF Start, remote
  <1>3. worker.pc = "idle" /\ worker = Free
    BY <1>2 DEF QueueInv, WorkerHolds
  <1>4. WorkerHolds'
    BY <1>1, <1>2, <1>3 DEF WorkerHolds, Free
  <1>5. Shown'
    BY <1>1, <1>2 DEF QueueInv, Shown
  <1>6. LaneOrder'
    <2> SUFFICES ASSUME NEW c \in DOMAIN deliveries, NEW e \in DOMAIN deliveries,
                        c < e, Lane(c)' = Lane(e)',
                        deliveries'[e].state \in Finished \cup {"running", "left"}
                 PROVE  deliveries'[c].state \in Finished
      BY <1>1 DEF LaneOrder
    <2>1. Lane(c) = Lane(e)
      BY <1>1 DEF Lane
    <2>2. deliveries[e].state \in Finished \cup {"running", "left"}
      BY <1>1 DEF Finished
    <2> QED
      BY <1>1, <2>1, <2>2 DEF QueueInv, LaneOrder, Finished
  <1> QED
    BY <1>1, <1>2, <1>3, <1>4, <1>5, <1>6 DEF QueueKept

-----------------------------------------------------------------------------
(* People, and how the worker's steps end. *)

\* The invariant split the way the lemmas above take it.
LEMMA InvParts ==
    ASSUME BridgeIInv
    PROVE  /\ QueueInv
           /\ CreatedOnce /\ CreationsAccounted /\ Carrying /\ Reservations
           /\ worker.pc # "idle" => worker.job \in DOMAIN deliveries
           /\ worker = [pc |-> worker.pc, job |-> worker.job, read |-> worker.read]
           /\ worker.pc # "idle" => Job.about \in Items \cup Comments /\ Job.side \in Sides
  <1>1. BridgeTypeOK /\ WorkerHolds
    BY DEF BridgeIInv, BridgeInv
  <1>2. worker = [pc |-> worker.pc, job |-> worker.job, read |-> worker.read]
    BY <1>1 DEF BridgeTypeOK
  <1>3. worker.pc # "idle" => worker.job \in DOMAIN deliveries
    BY <1>1 DEF WorkerHolds
  <1> QED
    BY <1>1, <1>2, <1>3, DeliveryTypes DEF BridgeIInv, BridgeInv, QueueInv, Job

\* The other side of the other side is this one.
LEMMA OtherSide ==
    ASSUME NEW s \in Sides
    PROVE  Other(s) \in Sides /\ Other(Other(s)) = s /\ Other(s) # s
  BY DEF Other, Sides

\* What people do keeps the invariant.
LEMMA PeopleStep ==
    ASSUME BridgeIInv,
           \/ \E i \in Items : Open(i) \/ \E s \in Sides : Edit(s, i)
           \/ \E c \in Comments : Say(c)
           \/ \E s \in Sides : SetPolicy(s)
    PROVE  BridgeIInv'
  <1> USE DEF BridgeInv
  <1>1. /\ BridgeTypeOK /\ QueueInv
        /\ CreatedOnce /\ CreationsAccounted /\ Carrying /\ Reservations
    BY InvParts DEF BridgeIInv
  <1>2. \A n \in 1..MaxText : Written(n) \in Texts
    BY DEF Written, Texts
  <1>3. Texts \subseteq Texts \cup {Absent} /\ Absent \notin Texts
    BY DEF Texts, Absent
  <1>4. ASSUME NEW x \in Items \cup Comments, NEW s \in Sides, NEW o \in BOOLEAN,
               up, Enqueue(x, s, o), UNCHANGED <<policy, copies, mapping, worker, up, faults>>,
               content' \in [Sides -> [Items -> Texts \cup {Absent}]], ContentKept,
               x \in Items => content'[s][x] \in Texts, moves' \in 0..MaxMoves
        PROVE  BridgeIInv'
    <2>1. QueueKept' /\ (worker.pc # "idle" => Job' = Job)
      BY <1>1, <1>4, EnqueueKeepsQueue
    <2>2. deliveries' \in Seq(Delivery) /\ Len(deliveries') = Len(deliveries) + 1
      BY <1>1, <1>4, Enqueued
    <2>3. BridgeTypeOK'
      <3>1. Len(deliveries) \in Nat
        BY <1>1, DeliveryTypes
      <3>2. worker' \in [pc : {"idle", "gate", "read", "reserve", "post", "link", "patch",
                               "labels", "record"},
                         job : 0..Len(deliveries'), read : Texts \cup {Absent}]
        BY <1>1, <1>4, <2>2, <3>1 DEF BridgeTypeOK
      <3> QED
        BY <1>1, <1>4, <2>2, <3>2 DEF BridgeTypeOK, mapping
    <2>4. CreatedOnce' /\ CreationsAccounted'
      BY <1>1, <1>4 DEF CreatedOnce, CreationsAccounted, mapping
    <2>5. Carrying' /\ Reservations'
      BY <1>1, <1>4, <2>1 DEF Carrying, Reservations, Reserved, mapping
    <2> QED
      BY <2>1, <2>3, <2>4, <2>5 DEF BridgeIInv, QueueKept
  <1>5. ASSUME NEW i \in Items, NEW s \in Sides, NEW n \in 1..MaxText, NEW o \in BOOLEAN, up,
               content' = [content EXCEPT ![s][i] = Written(n)],
               Enqueue(i, s, o), UNCHANGED <<policy, copies, mapping, worker, up, faults>>,
               moves' \in 0..MaxMoves
        PROVE  BridgeIInv'
    <2>1. content \in [Sides -> [Items -> Texts \cup {Absent}]]
      BY <1>1 DEF BridgeTypeOK
    <2>2. content' \in [Sides -> [Items -> Texts \cup {Absent}]]
      BY <1>2, <1>5, <2>1
    <2>3. ContentKept /\ content'[s][i] \in Texts
      BY <1>2, <1>5, <2>1 DEF ContentKept
    <2> QED
      BY <1>4, <1>5, <2>2, <2>3
  <1>6. ASSUME NEW i \in Items, Open(i)
        PROVE  BridgeIInv'
    <2>1. Home[i] \in Sides /\ 1 \in 1..MaxText /\ moves' \in 0..MaxMoves
      BY <1>1, <1>6, BridgeAssumption DEF Open, people, BridgeTypeOK
    <2> QED
      BY <1>5, <1>6, <2>1 DEF Open, people
  <1>7. ASSUME NEW i \in Items, NEW s \in Sides, Edit(s, i)
        PROVE  BridgeIInv'
    <2>1. moves' \in 0..MaxMoves
      BY <1>1, <1>7, BridgeAssumption DEF Edit, BridgeTypeOK
    <2> QED
      BY <1>5, <1>7, <2>1 DEF Edit
  <1>8. ASSUME NEW c \in Comments, Say(c)
        PROVE  BridgeIInv'
    <2>1. c \notin Items /\ c.side \in Sides /\ UNCHANGED content /\ moves' \in 0..MaxMoves
      BY <1>1, <1>8, BridgeAssumption DEF Say, remote, people, BridgeTypeOK
    <2>2. ContentKept /\ content' \in [Sides -> [Items -> Texts \cup {Absent}]]
      BY <1>1, <2>1 DEF ContentKept, BridgeTypeOK
    <2> QED
      BY <1>4, <1>8, <2>1, <2>2 DEF Say, people, remote
  <1>9. ASSUME NEW s \in Sides, SetPolicy(s)
        PROVE  BridgeIInv'
    <2>1. moves' \in 0..MaxMoves
      BY <1>1, <1>9, BridgeAssumption DEF SetPolicy, BridgeTypeOK
    <2>2. policy' \in [Sides -> SUBSET (Relays \cup {"invalid"})]
      BY <1>1, <1>9 DEF SetPolicy, BridgeTypeOK, Relays
    <2>3. BridgeTypeOK'
      BY <1>1, <1>9, <2>1, <2>2 DEF SetPolicy, BridgeTypeOK, remote, mapping
    <2> QED
      BY <1>9, <2>3 DEF SetPolicy, BridgeIInv, CreatedOnce, CreationsAccounted, Carrying,
         Reservations, Reserved, WorkerHolds, Shown, LaneOrder, Lane, Job, remote, mapping
  <1> QED
    BY <1>6, <1>7, <1>8, <1>9

\* A job that ends without writing leaves everything but the queue as it was.
LEMMA EndStep ==
    ASSUME BridgeIInv, worker.pc # "idle", NEW st \in DeliveryStates \ {"pending", "running"},
           End(st), UNCHANGED up, ContentKept,
           content' \in [Sides -> [Items -> Texts \cup {Absent}]],
           copies' \in [Items \cup Comments -> Nat], UNCHANGED policy,
           creates' \subseteq Items, linked' \subseteq Items,
           revision' \in [Items -> Texts \cup {Absent}],
           relayed' \in [Comments -> {"absent", "reserved", "recorded"}],
           moves' \in 0..MaxMoves, faults' \in 0..MaxFaults,
           CreatedOnce', CreationsAccounted', creates' \cap linked' = {}
    PROVE  BridgeIInv'
  <1>1. /\ QueueKept' /\ deliveries' \in Seq(Delivery)
        /\ worker' = Free /\ worker'.pc = "idle" /\ 0 \in 0..Len(deliveries')
    BY InvParts, EndKeepsQueue
  <1>2. BridgeTypeOK'
    BY <1>1 DEF BridgeIInv, BridgeInv, BridgeTypeOK, Free
  <1>3. Carrying' /\ Reservations'
    BY <1>1 DEF Carrying, Reservations
  <1> QED
    BY <1>1, <1>2, <1>3 DEF BridgeIInv, BridgeInv, QueueKept

\* A step of the worker to another of its steps keeps the invariant if the
\* parts that depend on the step do.
LEMMA GoStep ==
    ASSUME BridgeIInv, worker.pc # "idle", worker'.pc # "idle", worker'.job = worker.job,
           worker' \in [pc : {"idle", "gate", "read", "reserve", "post", "link", "patch",
                              "labels", "record"},
                        job : 0..Len(deliveries), read : Texts \cup {Absent}],
           UNCHANGED <<deliveries, up>>, ContentKept,
           content' \in [Sides -> [Items -> Texts \cup {Absent}]],
           copies' \in [Items \cup Comments -> Nat], UNCHANGED policy,
           creates' \subseteq Items, linked' \subseteq Items,
           revision' \in [Items -> Texts \cup {Absent}],
           relayed' \in [Comments -> {"absent", "reserved", "recorded"}],
           moves' \in 0..MaxMoves, faults' \in 0..MaxFaults,
           CreatedOnce', CreationsAccounted', Carrying', Reservations'
    PROVE  BridgeIInv'
  <1>1. QueueKept'
    BY InvParts, GoKeepsQueue
  <1>2. BridgeTypeOK'
    BY DEF BridgeIInv, BridgeInv, BridgeTypeOK
  <1> QED
    BY <1>1, <1>2 DEF BridgeIInv, BridgeInv, QueueKept

-----------------------------------------------------------------------------
(* The worker. *)

\* What every step of the worker knows.
LEMMA WorkerFacts ==
    ASSUME BridgeIInv
    PROVE  /\ content \in [Sides -> [Items -> Texts \cup {Absent}]]
           /\ copies \in [Items \cup Comments -> Nat]
           /\ creates \subseteq Items /\ linked \subseteq Items
           /\ revision \in [Items -> Texts \cup {Absent}]
           /\ relayed \in [Comments -> {"absent", "reserved", "recorded"}]
           /\ worker \in [pc : {"idle", "gate", "read", "reserve", "post", "link", "patch",
                              "labels", "record"},
                          job : 0..Len(deliveries), read : Texts \cup {Absent}]
           /\ moves \in 0..MaxMoves /\ faults \in 0..MaxFaults
           /\ creates \cap linked = {}
           /\ CreatedOnce /\ CreationsAccounted /\ Carrying /\ Reservations
           /\ worker.pc # "idle" => Job.about \in Items \cup Comments /\ Job.side \in Sides
           /\ Well => moves' \in 0..MaxMoves /\ faults' \in 0..MaxFaults
                      /\ UNCHANGED <<policy, up>>
           /\ Fails => moves' \in 0..MaxMoves /\ faults' \in 0..MaxFaults
                       /\ UNCHANGED <<policy, up>>
  <1>1. BridgeTypeOK
    BY DEF BridgeIInv, BridgeInv
  <1>2. Well => moves' \in 0..MaxMoves /\ faults' \in 0..MaxFaults /\ UNCHANGED <<policy, up>>
    BY <1>1 DEF BridgeTypeOK, Well, people
  <1>3. Fails => moves' \in 0..MaxMoves /\ faults' \in 0..MaxFaults /\ UNCHANGED <<policy, up>>
    BY <1>1, BridgeAssumption DEF BridgeTypeOK, Fails, people
  <1> QED
    BY <1>1, <1>2, <1>3, InvParts DEF BridgeTypeOK, Reservations

\* A job that only ends keeps the invariant.
LEMMA JustEnds ==
    ASSUME BridgeIInv, worker.pc # "idle", NEW st \in DeliveryStates \ {"pending", "running"},
           End(st), Well \/ Fails, UNCHANGED <<remote, mapping>>
    PROVE  BridgeIInv'
  <1>1. ContentKept
    BY DEF ContentKept, remote
  <1>2. CreatedOnce' /\ CreationsAccounted'
    BY WorkerFacts DEF CreatedOnce, CreationsAccounted, remote, mapping
  <1> QED
    BY EndStep, WorkerFacts, <1>1, <1>2 DEF remote, mapping

\* A job that only moves on keeps the invariant if what the next step relies
\* on is there.
LEMMA JustGoes ==
    ASSUME BridgeIInv, worker.pc # "idle", Well, UNCHANGED <<remote, mapping>>,
           NEW next \in {"gate", "read", "reserve", "labels", "record"},
           worker' = [worker EXCEPT !.pc = next], UNCHANGED deliveries,
           next \in {"read", "labels", "record"} => Job.about \in Items,
           next \in {"reserve", "labels", "record"} /\ Job.about \in Items => worker.read \in Texts,
           next = "reserve" /\ Job.about \in Items => Job.about \notin linked
    PROVE  BridgeIInv'
  <1>1. /\ worker'.pc = next /\ worker'.job = worker.job /\ worker'.read = worker.read
        /\ worker' \in [pc : {"idle", "gate", "read", "reserve", "post", "link", "patch",
                              "labels", "record"},
                        job : 0..Len(deliveries), read : Texts \cup {Absent}]
    BY WorkerFacts
  <1>2. ContentKept
    BY DEF ContentKept, remote
  <1>3. CreatedOnce' /\ CreationsAccounted'
    BY WorkerFacts DEF CreatedOnce, CreationsAccounted, remote, mapping
  <1>4. Job' = Job
    BY <1>1 DEF Job
  <1>5. Carrying'
    BY <1>1, <1>4, WorkerFacts DEF Carrying, mapping
  <1>6. Reservations'
    BY <1>1, WorkerFacts DEF Reservations, mapping
  <1> QED
    BY GoStep, WorkerFacts, <1>1, <1>2, <1>3, <1>5, <1>6 DEF remote, mapping

\* The policy gate reserves and writes nothing.
LEMMA AdmitStep ==
    ASSUME BridgeIInv, NEW s \in Sides, NEW relay \in Relays,
           Admit(s, relay, IF relay = "items" THEN Forward ELSE Relay)
    PROVE  BridgeIInv'
  <1>1. /\ worker.pc = "gate" /\ (Job.about \in Items <=> relay = "items")
        /\ UNCHANGED <<remote, mapping>>
    BY DEF Admit, At
  <1>2. ASSUME Fails, End("waiting")
        PROVE  BridgeIInv'
    BY <1>1, <1>2, JustEnds DEF DeliveryStates
  <1>3. ASSUME NEW p \in Sides, Well, Consent(p, relay) # "granted", End(Consent(p, relay))
        PROVE  BridgeIInv'
    BY <1>1, <1>3, JustEnds DEF DeliveryStates, Consent
  <1>4. ASSUME Well, relay = "items", Forward
        PROVE  BridgeIInv'
    <2>1. CASE Go("read")
      BY <1>1, <1>4, <2>1, JustGoes DEF Go
    <2>2. CASE End("blocked")
      BY <1>1, <1>4, <2>2, JustEnds DEF DeliveryStates
    <2> QED
      BY <1>4, <2>1, <2>2 DEF Forward
  <1>5. ASSUME Well, relay # "items", Relay
        PROVE  BridgeIInv'
    <2>1. CASE Go("reserve")
      BY <1>1, <1>5, <2>1, JustGoes DEF Go
    <2>2. CASE End("skipped")
      BY <1>1, <1>5, <2>2, JustEnds DEF DeliveryStates
    <2> QED
      BY <1>5, <2>1, <2>2 DEF Relay
  <1> QED
    BY <1>2, <1>3, <1>4, <1>5, OtherSide DEF Admit

\* forward_item.
LEMMA ReadStep ==
    ASSUME BridgeIInv, Read
    PROVE  BridgeIInv'
  <1> DEFINE i == Job.about
             x == content[Job.side][i]
  <1>1. worker.pc = "read" /\ UNCHANGED <<remote, mapping>> /\ i \in Items
    BY WorkerFacts DEF Read, At, Carrying
  <1>2. ASSUME Fails, End("waiting")
        PROVE  BridgeIInv'
    BY <1>1, <1>2, JustEnds DEF DeliveryStates
  <1>3. ASSUME NEW st \in {"done", "skipped"}, Well, End(st)
        PROVE  BridgeIInv'
    BY <1>1, <1>3, JustEnds DEF DeliveryStates
  <1>4. ASSUME Well, UNCHANGED deliveries, NEW next \in {"patch", "reserve"},
               next = IF i \in linked THEN "patch" ELSE "reserve",
               worker' = [worker EXCEPT !.read = x, !.pc = next]
        PROVE  BridgeIInv'
    <2>1. x \in Texts
      <3>1. /\ worker.job \in DOMAIN deliveries
            /\ Job = deliveries[worker.job] /\ Shown
        BY <1>1, InvParts DEF QueueInv, Job
      <3> QED
        BY <1>1, <3>1 DEF Shown
    <2>2. /\ worker'.pc = next /\ worker'.job = worker.job /\ worker'.read = x
          /\ worker' \in [pc : {"idle", "gate", "read", "reserve", "post", "link", "patch",
                                "labels", "record"},
                          job : 0..Len(deliveries), read : Texts \cup {Absent}]
      BY <1>4, <2>1, WorkerFacts
    <2>3. ContentKept
      BY <1>1 DEF ContentKept, remote
    <2>4. CreatedOnce' /\ CreationsAccounted'
      BY <1>1, WorkerFacts DEF CreatedOnce, CreationsAccounted, remote, mapping
    <2>5. Job' = Job
      BY <1>4, <2>2 DEF Job
    <2>6. Carrying'
      BY <1>1, <1>4, <2>1, <2>2, <2>5 DEF Carrying, mapping
    <2>7. Reservations'
      BY <1>1, <2>2, <2>5, WorkerFacts DEF Reservations, mapping
    <2> QED
      BY <1>1, <1>4, GoStep, WorkerFacts, <2>2, <2>3, <2>4, <2>6, <2>7 DEF remote, mapping
  <1> QED
    BY <1>2, <1>3, <1>4 DEF Read

\* bridge_create_begin, bridge_comment_begin: no peer exists when a row is new.
LEMMA ReserveStep ==
    ASSUME BridgeIInv, Reserve
    PROVE  BridgeIInv'
  <1> DEFINE x == Job.about
  <1>1. /\ worker.pc = "reserve" /\ Well /\ UNCHANGED <<remote, linked, revision>>
        /\ x \in Items \cup Comments /\ ContentKept
    BY WorkerFacts DEF Reserve, At, ContentKept, remote
  <1>2. CASE x \in Items /\ x \in creates
    BY <1>1, <1>2, JustEnds DEF Reserve, DeliveryStates, mapping
  <1>3. CASE x \in Comments \ Items /\ relayed[x] # "absent"
    <2>1. relayed' = relayed
      BY <1>1, <1>3, WorkerFacts DEF Reserve
    <2> QED
      BY <1>1, <1>3, <2>1, JustEnds DEF Reserve, DeliveryStates, mapping
  <1>4. CASE \/ x \in Items /\ x \notin creates
             \/ x \in Comments \ Items /\ relayed[x] = "absent"
    <2>1. /\ UNCHANGED deliveries /\ worker' = [worker EXCEPT !.pc = "post"]
          /\ IF x \in Items
             THEN creates' = creates \cup {x} /\ UNCHANGED relayed
             ELSE relayed' = [relayed EXCEPT ![x] = "reserved"] /\ UNCHANGED creates
      BY <1>4, WorkerFacts DEF Reserve, Go
    <2>2. /\ worker'.pc = "post" /\ worker'.job = worker.job /\ worker'.read = worker.read
          /\ worker' \in [pc : {"idle", "gate", "read", "reserve", "post", "link", "patch",
                                "labels", "record"},
                          job : 0..Len(deliveries), read : Texts \cup {Absent}]
      BY <2>1, WorkerFacts
    <2>3. Job' = Job
      BY <2>1, <2>2 DEF Job
    <2>4. copies[x] = 0
      BY <1>1, <1>4, WorkerFacts DEF CreationsAccounted, Carrying
    <2>5. /\ creates' \subseteq Items /\ creates' \cap linked' = {}
          /\ relayed' \in [Comments -> {"absent", "reserved", "recorded"}]
          /\ Reserved(x)'
      BY <1>1, <1>4, <2>1, <2>3, WorkerFacts DEF Carrying, Reserved
    <2>6. Reservations'
      BY <1>1, <2>2, <2>3, <2>4, <2>5 DEF Reservations, Reserved, remote
    <2>7. Carrying'
      BY <1>1, <2>2, <2>3, WorkerFacts DEF Carrying
    <2>8. CreatedOnce' /\ CreationsAccounted'
      <3>1. CreatedOnce'
        BY <1>1, WorkerFacts DEF CreatedOnce, remote
      <3>2. CreationsAccounted'
        BY <1>1, <2>1, WorkerFacts DEF CreationsAccounted, remote
      <3> QED
        BY <3>1, <3>2
    <2> QED
      BY <1>1, <2>1, GoStep, WorkerFacts, <2>2, <2>5, <2>6, <2>7, <2>8 DEF remote
  <1> QED
    BY <1>1, <1>2, <1>3, <1>4

\* A POST makes the first and only peer, and its reservation is there.
LEMMA CreatedEffect ==
    ASSUME BridgeIInv, worker.pc = "post", Created, UNCHANGED mapping
    PROVE  /\ ContentKept
           /\ content' \in [Sides -> [Items -> Texts \cup {Absent}]]
           /\ copies' \in [Items \cup Comments -> Nat]
           /\ CreatedOnce' /\ CreationsAccounted'
  <1> DEFINE x == Job.about
  <1>1. x \in Items \cup Comments /\ Job.side \in Sides /\ copies[x] = 0 /\ Reserved(x)
    BY WorkerFacts DEF Reservations
  <1>2. ContentKept /\ content' \in [Sides -> [Items -> Texts \cup {Absent}]]
    <2>1. CASE x \in Items
      <3>1. worker.read \in Texts
        BY <2>1, WorkerFacts DEF Carrying
      <3>2. Rendered(worker.read) \in Texts
        BY <3>1, RenderedText
      <3> QED
        BY <1>1, <2>1, <3>2, WorkerFacts, OtherSide DEF Created, ContentKept
    <2>2. CASE x \notin Items
      BY <2>2, WorkerFacts DEF Created, ContentKept
    <2> QED
      BY <2>1, <2>2
  <1>3. copies' = [copies EXCEPT ![x] = 1]
    BY <1>1 DEF Created
  <1>4. CreatedOnce'
    BY <1>1, <1>3, WorkerFacts DEF CreatedOnce
  <1>5. CreationsAccounted'
    <2>1. \A i \in Items : i # x => copies'[i] = copies[i]
      BY <1>3, WorkerFacts
    <2>2. \A c \in Comments : c # x => copies'[c] = copies[c]
      BY <1>3, WorkerFacts
    <2>3. x \in Items => x \in linked \cup creates
      BY <1>1 DEF Reserved
    <2>4. x \in Comments => relayed[x] # "absent"
      BY <1>1, BridgeAssumption DEF Reserved
    <2> QED
      BY <2>1, <2>2, <2>3, <2>4, WorkerFacts DEF CreationsAccounted, mapping
  <1> QED
    BY <1>2, <1>3, <1>4, <1>5, WorkerFacts

\* The invariant at each step of the worker; Post: create_peer, forward_comment.
LEMMA PostStep ==
    ASSUME BridgeIInv, Post
    PROVE  BridgeIInv'
  <1>1. worker.pc = "post" /\ UNCHANGED mapping
    BY DEF Post, At
  <1>2. CASE Created /\ Well /\ Go("link")
    <2>1. /\ worker'.pc = "link" /\ worker'.job = worker.job /\ worker'.read = worker.read
          /\ worker' \in [pc : {"idle", "gate", "read", "reserve", "post", "link", "patch",
                                "labels", "record"},
                          job : 0..Len(deliveries), read : Texts \cup {Absent}]
          /\ UNCHANGED deliveries
      BY <1>2, WorkerFacts DEF Go
    <2>2. Job' = Job
      BY <2>1 DEF Job
    <2>3. Carrying' /\ Reservations'
      BY <1>1, <2>1, <2>2, WorkerFacts DEF Carrying, Reservations, Reserved, mapping
    <2> QED
      BY <1>1, <1>2, <2>1, <2>3, GoStep, CreatedEffect, WorkerFacts DEF mapping
  <1>3. CASE Created /\ Fails /\ End("blocked")
    BY <1>1, <1>3, EndStep, CreatedEffect, WorkerFacts DEF mapping, DeliveryStates
  <1>4. CASE UNCHANGED remote /\ Fails /\ End("blocked")
    BY <1>1, <1>4, JustEnds DEF DeliveryStates
  <1> QED
    BY <1>2, <1>3, <1>4 DEF Post

\* bridge_link, bridge_comment_finish.
LEMMA LinkStep ==
    ASSUME BridgeIInv, Link
    PROVE  BridgeIInv'
  <1> DEFINE x == Job.about
  <1>1. /\ worker.pc = "link" /\ Well /\ UNCHANGED remote /\ ContentKept
        /\ x \in Items \cup Comments /\ Reserved(x)
    BY WorkerFacts DEF Link, At, ContentKept, remote, Reservations
  <1>2. CASE x \in Items
    <2>1. /\ linked' = linked \cup {x} /\ creates' = creates \ {x} /\ UNCHANGED relayed
          /\ revision' = [revision EXCEPT ![x] = Absent]
          /\ UNCHANGED deliveries /\ worker' = [worker EXCEPT !.pc = "patch"]
      BY <1>2 DEF Link, Go
    <2>2. /\ worker'.pc = "patch" /\ worker'.job = worker.job /\ worker'.read = worker.read
          /\ worker' \in [pc : {"idle", "gate", "read", "reserve", "post", "link", "patch",
                                "labels", "record"},
                          job : 0..Len(deliveries), read : Texts \cup {Absent}]
      BY <2>1, WorkerFacts
    <2>3. Job' = Job
      BY <2>1, <2>2 DEF Job
    <2>4. Carrying' /\ Reservations'
      BY <1>1, <1>2, <2>1, <2>2, <2>3, WorkerFacts DEF Carrying, Reservations
    <2>5. CreatedOnce' /\ CreationsAccounted'
      BY <1>1, <2>1, WorkerFacts DEF CreatedOnce, CreationsAccounted, remote
    <2>6. /\ creates' \subseteq Items /\ linked' \subseteq Items
          /\ revision' \in [Items -> Texts \cup {Absent}]
      BY <1>2, <2>1, WorkerFacts
    <2> QED
      BY <1>1, <2>1, <2>2, <2>4, <2>5, <2>6, GoStep, WorkerFacts DEF remote
  <1>3. CASE x \notin Items
    <2>1. /\ relayed' = [relayed EXCEPT ![x] = "recorded"] /\ End("done")
          /\ UNCHANGED <<creates, linked, revision>>
      BY <1>3 DEF Link
    <2>2. CreatedOnce' /\ CreationsAccounted'
      BY <1>1, <2>1, WorkerFacts DEF CreatedOnce, CreationsAccounted, remote
    <2>3. relayed' \in [Comments -> {"absent", "reserved", "recorded"}]
      BY <2>1, WorkerFacts
    <2> QED
      BY <1>1, <2>1, <2>2, <2>3, EndStep, WorkerFacts DEF remote, DeliveryStates
  <1> QED
    BY <1>2, <1>3

\* A PATCH shows a text where one was shown.
LEMMA PatchedEffect ==
    ASSUME BridgeIInv, worker.pc = "patch", Patched
    PROVE  /\ ContentKept /\ content' \in [Sides -> [Items -> Texts \cup {Absent}]]
           /\ Job.about \in Items
  <1>1. Job.about \in Items /\ worker.read \in Texts /\ Job.side \in Sides
    BY WorkerFacts DEF Carrying
  <1>2. Rendered(worker.read) \in Texts
    BY <1>1, RenderedText
  <1> QED
    BY <1>1, <1>2, WorkerFacts, OtherSide DEF Patched, ContentKept

\* update_peer, the write.
LEMMA PatchStep ==
    ASSUME BridgeIInv, Patch
    PROVE  BridgeIInv'
  <1>1. worker.pc = "patch" /\ UNCHANGED <<copies, mapping>>
    BY DEF Patch, At
  <1>2. CreatedOnce' /\ CreationsAccounted'
    BY <1>1, WorkerFacts DEF CreatedOnce, CreationsAccounted, mapping
  <1>3. CASE Patched /\ Well /\ Go("labels")
    <2>1. /\ worker'.pc = "labels" /\ worker'.job = worker.job /\ worker'.read = worker.read
          /\ worker' \in [pc : {"idle", "gate", "read", "reserve", "post", "link", "patch",
                                "labels", "record"},
                          job : 0..Len(deliveries), read : Texts \cup {Absent}]
          /\ UNCHANGED deliveries
      BY <1>3, WorkerFacts DEF Go
    <2>2. Job' = Job
      BY <2>1 DEF Job
    <2>3. Carrying' /\ Reservations'
      BY <1>1, <2>1, <2>2, WorkerFacts DEF Carrying, Reservations, Reserved, mapping
    <2> QED
      BY <1>1, <1>2, <1>3, <2>1, <2>3, GoStep, PatchedEffect, WorkerFacts DEF mapping
  <1>4. CASE Patched /\ Fails /\ End("blocked")
    BY <1>1, <1>2, <1>4, EndStep, PatchedEffect, WorkerFacts DEF mapping, DeliveryStates
  <1>5. CASE UNCHANGED content /\ Fails /\ (End("waiting") \/ End("blocked"))
    BY <1>1, <1>5, JustEnds DEF DeliveryStates, remote
  <1> QED
    BY <1>3, <1>4, <1>5 DEF Patch

\* update_peer, the labels.
LEMMA LabelsStep ==
    ASSUME BridgeIInv, Labels
    PROVE  BridgeIInv'
  <1>1. worker.pc = "labels" /\ UNCHANGED <<remote, mapping>>
    BY DEF Labels, At
  <1>2. CASE Well /\ Go("record")
    BY <1>1, <1>2, JustGoes, WorkerFacts DEF Go, Carrying
  <1>3. CASE Fails /\ (End("waiting") \/ End("blocked"))
    BY <1>1, <1>3, JustEnds DEF DeliveryStates
  <1> QED
    BY <1>2, <1>3 DEF Labels

\* update_peer, the revision.
LEMMA RecordStep ==
    ASSUME BridgeIInv, Record
    PROVE  BridgeIInv'
  <1>1. /\ worker.pc = "record" /\ Well /\ UNCHANGED <<remote, creates, linked, relayed>>
        /\ revision' = [revision EXCEPT ![Job.about] = worker.read] /\ End("done")
        /\ ContentKept
    BY DEF Record, At, ContentKept, remote
  <1>2. CreatedOnce' /\ CreationsAccounted'
    BY <1>1, WorkerFacts DEF CreatedOnce, CreationsAccounted, remote
  <1>3. revision' \in [Items -> Texts \cup {Absent}]
    BY <1>1, WorkerFacts
  <1> QED
    BY <1>1, <1>2, <1>3, EndStep, WorkerFacts DEF remote, DeliveryStates

-----------------------------------------------------------------------------
(* The server and the operator. *)

\* Crashes, planned stops, restarts, retries and waits that have passed.
LEMMA ServerStep ==
    ASSUME BridgeIInv,
           \/ Crash \/ Stop \/ Start
           \/ \E d \in DOMAIN deliveries : Due(d) \/ RetryDelivery(d)
    PROVE  BridgeIInv'
  <1>1. BridgeTypeOK /\ QueueInv
    BY InvParts DEF BridgeIInv, BridgeInv
  <1>2. ASSUME NEW d \in DOMAIN deliveries, Due(d) \/ RetryDelivery(d)
        PROVE  BridgeIInv'
    <2>1. /\ deliveries[d].state \in {"blocked", "waiting"} /\ SetState(d, "pending")
          /\ UNCHANGED <<people, remote, mapping, worker, up, faults>>
      BY <1>2 DEF Due, RetryDelivery
    <2>2. /\ QueueKept' /\ (worker.pc # "idle" => Job'.about = Job.about)
          /\ deliveries' \in Seq(Delivery) /\ Len(deliveries') = Len(deliveries)
      BY <1>1, <2>1, PendAgainKeepsQueue DEF remote
    <2>3. BridgeTypeOK'
      BY <1>1, <2>1, <2>2 DEF BridgeTypeOK, people, remote, mapping
    <2>4. CreatedOnce' /\ CreationsAccounted'
      BY <2>1, WorkerFacts DEF CreatedOnce, CreationsAccounted, remote, mapping
    <2>5. Carrying' /\ Reservations'
      BY <2>1, <2>2, WorkerFacts DEF Carrying, Reservations, Reserved, remote, mapping
    <2> QED
      BY <2>2, <2>3, <2>4, <2>5 DEF BridgeIInv, BridgeInv, QueueKept
  <1>3. CASE Crash
    <2>1. /\ worker' = Free /\ up' = FALSE /\ UNCHANGED <<people, remote, mapping, deliveries>>
          /\ faults' \in 0..MaxFaults /\ 0 \in 0..Len(deliveries)
      BY <1>1, <1>3, BridgeAssumption, DeliveryTypes DEF Crash, BridgeTypeOK
    <2>2. BridgeTypeOK'
      BY <1>1, <2>1 DEF BridgeTypeOK, people, remote, mapping, Free
    <2> QED
      BY <2>1, <2>2, WorkerFacts DEF BridgeIInv, BridgeInv, CreatedOnce, CreationsAccounted,
         Carrying, Reservations, WorkerHolds, Shown, LaneOrder, Lane, Free, remote, mapping
  <1>4. CASE Stop
    <2>0. moves \in 0..MaxMoves /\ moves < MaxMoves /\ moves' = moves + 1 /\ up' = FALSE
      BY <1>1, <1>4 DEF Stop, BridgeTypeOK
    <2>1. moves' \in 0..MaxMoves
      BY <2>0, BridgeAssumption
    <2>2. BridgeTypeOK'
      BY <1>1, <1>4, <2>0, <2>1 DEF Stop, BridgeTypeOK, remote, mapping
    <2> QED
      BY <1>4, <2>2 DEF Stop, BridgeIInv, BridgeInv, CreatedOnce, CreationsAccounted,
         Carrying, Reservations, WorkerHolds, Shown, LaneOrder, Lane, remote, mapping
  <1>5. CASE Start
    <2>1. /\ QueueKept' /\ worker.pc = "idle" /\ worker' = Free
          /\ deliveries' \in Seq(Delivery) /\ Len(deliveries') = Len(deliveries)
      BY <1>1, <1>5, StartKeepsQueue
    <2>2. BridgeTypeOK'
      BY <1>1, <1>5, <2>1 DEF Start, BridgeTypeOK, people, remote, mapping
    <2>3. CreatedOnce' /\ CreationsAccounted'
      BY <1>5, WorkerFacts DEF Start, CreatedOnce, CreationsAccounted, remote, mapping
    <2>4. Carrying' /\ Reservations'
      BY <1>5, <2>1, WorkerFacts DEF Start, Carrying, Reservations, Free, mapping
    <2> QED
      BY <2>1, <2>2, <2>3, <2>4 DEF BridgeIInv, BridgeInv, QueueKept
  <1> QED
    BY <1>2, <1>3, <1>4, <1>5

\* bridge_resolve with what the operator sees on the other provider.
LEMMA ResolveStep ==
    ASSUME BridgeIInv,
           \/ \E i \in Items : ResolveCreate(i)
           \/ \E c \in Comments : ResolveComment(c)
    PROVE  BridgeIInv'
  <1>1. BridgeTypeOK /\ WorkerHolds
    BY DEF BridgeIInv, BridgeInv
  <1>2. ASSUME NEW i \in Items, ResolveCreate(i)
        PROVE  BridgeIInv'
    <2>1. worker.pc = "idle" /\ UNCHANGED <<people, remote, relayed, deliveries, worker, up, faults>>
      BY <1>1, <1>2 DEF ResolveCreate, WorkerHolds
    <2>2. BridgeTypeOK'
      BY <1>1, <1>2 DEF ResolveCreate, BridgeTypeOK, people, remote
    <2>3. CreatedOnce' /\ CreationsAccounted'
      BY <1>1, <1>2, WorkerFacts DEF ResolveCreate, CreatedOnce, CreationsAccounted, remote,
         BridgeTypeOK
    <2>4. Carrying' /\ Reservations'
      BY <1>2, <2>1, WorkerFacts DEF ResolveCreate, Carrying, Reservations
    <2> QED
      BY <2>1, <2>2, <2>3, <2>4 DEF BridgeIInv, BridgeInv, WorkerHolds, Job, Shown, LaneOrder,
         Lane, remote
  <1>3. ASSUME NEW c \in Comments, ResolveComment(c)
        PROVE  BridgeIInv'
    <2>1. /\ worker.pc = "idle"
          /\ UNCHANGED <<people, remote, creates, linked, revision, deliveries, worker, up, faults>>
      BY <1>1, <1>3 DEF ResolveComment, WorkerHolds
    <2>2. BridgeTypeOK'
      BY <1>1, <1>3 DEF ResolveComment, BridgeTypeOK, people, remote
    <2>3. CreatedOnce' /\ CreationsAccounted'
      BY <1>1, <1>3, WorkerFacts DEF ResolveComment, CreatedOnce, CreationsAccounted, remote,
         BridgeTypeOK
    <2>4. Carrying' /\ Reservations'
      BY <2>1, WorkerFacts DEF Carrying, Reservations
    <2> QED
      BY <2>1, <2>2, <2>3, <2>4 DEF BridgeIInv, BridgeInv, WorkerHolds, Job, Shown, LaneOrder,
         Lane, remote
  <1> QED
    BY <1>2, <1>3

\* An outcome the store refuses leaves the row as it is.
LEMMA UnfinishedStep ==
    ASSUME BridgeIInv, Unfinished
    PROVE  BridgeIInv'
  BY JustEnds DEF Unfinished, DeliveryStates

\* All steps of the worker.
LEMMA WorkStep ==
    ASSUME BridgeIInv, Work
    PROVE  BridgeIInv'
  <1>1. CASE Claim
    <2>1. /\ QueueKept' /\ deliveries' \in Seq(Delivery)
          /\ worker'.pc = "gate" /\ worker'.job \in 0..Len(deliveries')
          /\ worker' = [pc |-> "gate", job |-> worker'.job, read |-> Absent]
      BY <1>1, InvParts, ClaimKeepsQueue
    <2>2. UNCHANGED <<people, remote, mapping, up, faults>>
      BY <1>1 DEF Claim
    <2>3. BridgeTypeOK'
      <3>1. worker' \in [pc : {"idle", "gate", "read", "reserve", "post", "link", "patch",
                               "labels", "record"},
                         job : 0..Len(deliveries'), read : Texts \cup {Absent}]
        BY <2>1
      <3> QED
        BY <2>1, <2>2, <3>1 DEF BridgeIInv, BridgeInv, BridgeTypeOK, people, remote, mapping
    <2>4. CreatedOnce' /\ CreationsAccounted'
      BY <2>2, WorkerFacts DEF CreatedOnce, CreationsAccounted, remote, mapping
    <2>5. Carrying' /\ Reservations'
      BY <2>1, <2>2, WorkerFacts DEF Carrying, Reservations, mapping
    <2> QED
      BY <2>1, <2>3, <2>4, <2>5 DEF BridgeIInv, BridgeInv, QueueKept
  <1>2. CASE FromGitHub \/ FromForgejo \/ CommentFromGitHub \/ CommentFromForgejo
    <2>1. /\ {"github", "forgejo"} = Sides /\ {"items", "comments"} = Relays
      BY DEF Sides, Relays
    <2> QED
      BY <1>2, <2>1, AdmitStep DEF FromGitHub, FromForgejo, CommentFromGitHub, CommentFromForgejo
  <1> QED
    BY <1>1, <1>2, ReadStep, ReserveStep, PostStep, LinkStep, PatchStep, LabelsStep, RecordStep
       DEF Work

-----------------------------------------------------------------------------
(* Creations and lanes. *)

\* The invariant holds of an empty database.
LEMMA BridgeStart == Init => BridgeIInv
  <1> SUFFICES ASSUME Init
               PROVE  BridgeIInv
    OBVIOUS
  <1>1. deliveries = <<>> /\ Len(deliveries) = 0 /\ DOMAIN deliveries = {}
    BY DEF Init
  <1>2. BridgeTypeOK
    BY <1>1, BridgeAssumption DEF Init, BridgeTypeOK, Free, Relays
  <1>3. CreatedOnce /\ CreationsAccounted
    BY DEF Init, CreatedOnce, CreationsAccounted
  <1>4. WorkerHolds /\ Shown /\ LaneOrder
    BY <1>1 DEF Init, WorkerHolds, Shown, LaneOrder, Free
  <1>5. Carrying /\ Reservations
    BY DEF Init, Carrying, Reservations, Free
  <1> QED
    BY <1>2, <1>3, <1>4, <1>5 DEF BridgeIInv, BridgeInv

\* Every step keeps the invariant.
LEMMA BridgeStep == BridgeIInv /\ [Next]_vars => BridgeIInv'
  <1> SUFFICES ASSUME BridgeIInv, [Next]_vars
               PROVE  BridgeIInv'
    OBVIOUS
  <1>1. CASE UNCHANGED vars
    BY <1>1 DEF vars, people, remote, mapping, BridgeIInv, BridgeInv, BridgeTypeOK, CreatedOnce,
       CreationsAccounted, WorkerHolds, Job, Shown, Carrying, Reservations, Reserved, LaneOrder, Lane
  <1> QED
    BY <1>1, PeopleStep, ServerStep, ResolveStep, WorkStep, UnfinishedStep DEF Next

\* The inductive invariant holds in every reachable state.
THEOREM BridgeInvariant == Spec => []BridgeIInv
  BY BridgeStart, BridgeStep, PTL DEF Spec

\* Whatever is lost, restarted or retried, no object or comment is created twice
\* on the other provider, and what was created is mapped or its reservation is
\* still there for the operator (create_peer, forward_comment, bridge_resolve).
THEOREM CreationsAreSafe == Spec => []BridgeInv
  <1>1. BridgeIInv => BridgeInv
    BY DEF BridgeIInv
  <1> QED
    BY <1>1, BridgeInvariant, PTL

\* The deliveries of one object end in the order they came in, through waits,
\* blocks, restarts and retries (bridge_claim_delivery).
THEOREM LanesStayInOrder == Spec => []LanesInOrder
  <1>1. BridgeIInv => LanesInOrder
    BY DEF BridgeIInv, LaneOrder, LanesInOrder, Finished
  <1> QED
    BY <1>1, BridgeInvariant, PTL

-----------------------------------------------------------------------------
(* Agreement of the two sides. *)

\* One side shows what the other one does, up to rendering.
Agree(i) ==
    \/ content["forgejo"][i] = Rendered(content["github"][i])
    \/ content["github"][i] = Rendered(content["forgejo"][i])
\* A delivery about the item from that side, other than the named one, is not done.
OpenOn(i, s, but) == \E e \in DOMAIN deliveries :
    /\ e # but /\ deliveries[e].about = i /\ deliveries[e].side = s
    /\ deliveries[e].state # "done"
\* Some delivery about the item is not done.
Pending(i) == \E e \in DOMAIN deliveries :
    deliveries[e].about = i /\ deliveries[e].state # "done"

\* Whatever is shown or created has been announced by a webhook.
Heard == \A i \in Items :
    copies[i] > 0 \/ (\E s \in Sides : content[s][i] # Absent) => Known(i)
\* A mapped item has a peer and is shown on both sides.
Peers ==
    /\ \A i \in linked : copies[i] > 0
    /\ \A i \in Items : copies[i] > 0 => \A s \in Sides : content[s][i] \in Texts
    /\ worker.pc = "link" => copies[Job.about] > 0
    /\ worker.pc \in {"patch", "labels", "record"} => Job.about \in linked
\* Whoever reserved an item has not finished: its delivery will not be done before
\* the item is mapped.
Unanswered == \A i \in creates : Pending(i)
\* The two sides never show the same text in a form that still has to be rendered.
NoTwins == \A i \in Items :
    content["github"][i] = content["forgejo"][i] /\ content["github"][i] # Absent =>
        content["github"][i] = Rendered(content["github"][i])
\* What is recorded as equal is not newer than what either side shows.
RevisionOld == \A i \in linked, s \in Sides : revision[i].text <= content[s][i].text
\* Somebody has written on that side after the worker read, and a delivery says so.
Newer(i, s) == content[s][i].text > worker.read.text /\ OpenOn(i, s, worker.job)
\* While the worker carries a text over, each side shows what it should or a newer
\* text whose delivery is still to come.
Current ==
    worker.pc \in {"reserve", "post", "link", "patch", "labels", "record"} /\ Job.about \in Items =>
        /\ content[Job.side][Job.about] = worker.read \/ Newer(Job.about, Job.side)
        /\ Job.about \in linked => revision[Job.about].text <= worker.read.text
        /\ worker.pc \in {"labels", "record"} =>
             \/ content[Other(Job.side)][Job.about] = Rendered(worker.read)
             \/ Newer(Job.about, Other(Job.side))
\* forward_item skips a side whose text is the recorded one; if the other side then
\* differs, that side's own delivery is still to come.
RevisionTells == \A i \in linked, s \in Sides :
    revision[i] = content[s][i] => Agree(i) \/ OpenOn(i, Other(s), 0)

\* The inductive invariant of agreement.
AgreeIInv ==
    /\ Heard /\ Peers /\ Unanswered /\ NoTwins /\ RevisionOld /\ Current /\ RevisionTells
    /\ SettledAgree

-----------------------------------------------------------------------------
(* What steps leave to be done. *)

\* No delivery about an item has become done.
StillOpen == \A e \in DOMAIN deliveries :
    /\ e \in DOMAIN deliveries'
    /\ deliveries'[e].about = deliveries[e].about /\ deliveries'[e].side = deliveries[e].side
    /\ deliveries[e].about \in Items /\ deliveries[e].state # "done" =>
          deliveries'[e].state # "done"
\* The worker stays where it is, with the same delivery.
JobKept ==
    /\ worker' = worker
    /\ worker.pc # "idle" => Job'.about = Job.about /\ Job'.side = Job.side

\* What StillOpen preserves.
LEMMA OpenStays ==
    ASSUME StillOpen
    PROVE  /\ \A i \in Items : Pending(i) => Pending(i)'
           /\ \A i \in Items : Known(i) => Known(i)'
           /\ \A i \in Items, s \in Sides, b \in Nat : OpenOn(i, s, b) => OpenOn(i, s, b)'
  BY DEF StillOpen, Pending, Known, OpenOn

\* The numbers of texts are natural numbers.
LEMMA Texture ==
    ASSUME BridgeIInv
    PROVE  /\ \A x \in Texts \cup {Absent} : x.text \in Nat
           /\ \A s \in Sides, i \in Items : content[s][i].text \in Nat
           /\ \A i \in Items : revision[i].text \in Nat
           /\ worker.read.text \in Nat
           /\ worker.job \in Nat
           /\ Absent \notin Texts
  <1>1. \A x \in Texts \cup {Absent} : x.text \in Nat
    BY DEF Texts, Absent
  <1>2. Len(deliveries) \in Nat
    BY DeliveryTypes DEF BridgeIInv, BridgeInv
  <1>3. worker.read \in Texts \cup {Absent} /\ worker.job \in Nat
    BY <1>2, WorkerFacts
  <1>4. Absent \notin Texts
    BY DEF Texts, Absent
  <1> QED
    BY <1>1, <1>3, <1>4, WorkerFacts

\* Two texts with the same fields are the same text.
LEMMA SameText ==
    ASSUME NEW x \in Texts, NEW y \in Texts, x.text = y.text, x.rendered = y.rendered
    PROVE  x = y
  BY DEF Texts

\* Rendering a rendered text changes nothing.
LEMMA RenderedTwice ==
    ASSUME NEW x \in Texts
    PROVE  Rendered(Rendered(x)) = Rendered(x)
  <1>1. ASSUME NEW y \in Texts, y.text \in Mentions
        PROVE  Rendered(y) \in Texts /\ Rendered(y).text = y.text /\ Rendered(y).rendered = TRUE
    <2>1. (y.rendered \/ y.text \in Mentions) = TRUE
      BY <1>1
    <2>2. Rendered(y) = [y EXCEPT !.rendered = TRUE]
      BY <2>1 DEF Rendered
    <2>3. Rendered(y).text = y.text /\ Rendered(y) \in Texts
      BY <2>2 DEF Texts
    <2>4. Rendered(y).rendered
      BY <2>2 DEF Texts
    <2> QED
      BY <2>3, <2>4 DEF Texts
  <1>2. CASE x.text \in Mentions
    BY <1>1, <1>2, SameText
  <1>3. CASE x.text \notin Mentions
    <2>1. x.rendered \in BOOLEAN
      BY DEF Texts
    <2>2. (x.rendered \/ x.text \in Mentions) = x.rendered
      BY <1>3, <2>1
    <2>3. Rendered(x) = [x EXCEPT !.rendered = x.rendered]
      BY <2>2 DEF Rendered
    <2>4. Rendered(x) = x
      BY <2>3 DEF Texts
    <2> QED
      BY <2>4
  <1> QED
    BY <1>2, <1>3

\* A step that changes neither the objects nor what is recorded of them keeps
\* the agreement if it ends no item's delivery as done.
LEMMA QuietStep ==
    ASSUME BridgeIInv, AgreeIInv, StillOpen, UNCHANGED <<content, copies, linked, revision>>,
           creates' \subseteq creates,
           JobKept \/ worker'.pc \in {"idle", "gate", "read"}
    PROVE  AgreeIInv'
  <1> USE OpenStays, WorkerFacts, Texture
  <1>1. Heard'
    BY DEF AgreeIInv, Heard
  <1>2. Unanswered'
    BY DEF AgreeIInv, Unanswered
  <1>3. NoTwins' /\ RevisionOld'
    BY DEF AgreeIInv, NoTwins, RevisionOld
  <1>4. RevisionTells'
    BY OtherSide DEF AgreeIInv, RevisionTells, Agree
  <1>5. SettledAgree'
    BY DEF AgreeIInv, SettledAgree, Settled, Pending
  <1>6. Peers'
    BY DEF AgreeIInv, Peers, JobKept
  <1>7. Current'
    <2>1. CASE worker'.pc \in {"idle", "gate", "read"}
      BY <2>1 DEF Current
    <2>2. CASE JobKept
      BY <2>2, OtherSide DEF AgreeIInv, Current, JobKept, Newer
    <2> QED
      BY <2>1, <2>2
  <1> QED
    BY <1>1, <1>2, <1>3, <1>4, <1>5, <1>6, <1>7 DEF AgreeIInv

\* What does not depend on the worker stays while the rows and the objects do.
LEMMA SameRows ==
    ASSUME AgreeIInv, UNCHANGED <<deliveries, content, copies, linked, revision>>,
           creates' \subseteq creates
    PROVE  /\ Heard' /\ Unanswered' /\ NoTwins' /\ RevisionOld' /\ RevisionTells'
           /\ SettledAgree'
  <1>1. Heard' /\ Unanswered'
    BY DEF AgreeIInv, Heard, Unanswered, Known, Pending
  <1>2. NoTwins' /\ RevisionOld'
    BY DEF AgreeIInv, NoTwins, RevisionOld
  <1>3. RevisionTells' /\ SettledAgree'
    BY DEF AgreeIInv, RevisionTells, SettledAgree, Settled, OpenOn, Agree
  <1> QED
    BY <1>1, <1>2, <1>3

\* A delivery that ends blocked, waiting or skipped is not done.
LEMMA EndStillOpen ==
    ASSUME BridgeIInv, worker.pc # "idle", NEW st \in DeliveryStates, End(st),
           st # "done" \/ Job.about \notin Items
    PROVE  StillOpen /\ worker'.pc = "idle"
  <1>1. BridgeTypeOK /\ worker.job \in DOMAIN deliveries /\ SetState(worker.job, st) /\ worker' = Free
    BY DEF BridgeIInv, BridgeInv, WorkerHolds, End
  <1>2. /\ DOMAIN deliveries' = DOMAIN deliveries
        /\ \A e \in DOMAIN deliveries :
             /\ deliveries'[e].about = deliveries[e].about
             /\ deliveries'[e].side = deliveries[e].side
             /\ deliveries'[e].state = IF e = worker.job THEN st ELSE deliveries[e].state
    BY <1>1, StateSet
  <1> QED
    BY <1>1, <1>2 DEF StillOpen, Job, Free

\* Neither is anything done while the table stays as it is.
LEMMA GoStillOpen ==
    ASSUME UNCHANGED deliveries
    PROVE  StillOpen
  BY DEF StillOpen

\* A webhook about an item leaves a delivery to be done.
LEMMA EnqueueStillOpen ==
    ASSUME BridgeIInv, NEW x \in Items \cup Comments, NEW s \in Sides, NEW o \in BOOLEAN,
           Enqueue(x, s, o), UNCHANGED worker
    PROVE  /\ StillOpen /\ JobKept
           /\ \A i \in Items : x = i =>
                Pending(i)' /\ Known(i)' /\ \A b \in {0, worker.job} : OpenOn(i, s, b)'
  <1> DEFINE n == Len(deliveries) + 1
  <1>1. /\ n \in DOMAIN deliveries' /\ DOMAIN deliveries' = DOMAIN deliveries \cup {n}
        /\ \A e \in DOMAIN deliveries : e < n /\ deliveries'[e] = deliveries[e]
        /\ deliveries'[n] = [about |-> x, side |-> s, opened |-> o, state |-> "pending"]
    BY Enqueued DEF BridgeIInv, BridgeInv
  <1>2. Len(deliveries) \in Nat /\ worker.job \in 0..Len(deliveries)
    BY WorkerFacts, DeliveryTypes DEF BridgeIInv, BridgeInv
  <1>3. n # 0 /\ n # worker.job
    BY <1>2
  <1>4. worker.pc # "idle" => worker.job \in DOMAIN deliveries
    BY DEF BridgeIInv, WorkerHolds
  <1> HIDE DEF n
  <1>5. StillOpen
    BY <1>1 DEF StillOpen
  <1>6. JobKept
    BY <1>1, <1>4 DEF JobKept, Job
  <1>7. \A i \in Items : x = i =>
                Pending(i)' /\ Known(i)' /\ \A b \in {0, worker.job} : OpenOn(i, s, b)'
    BY <1>1, <1>3 DEF Pending, Known, OpenOn
  <1> QED
    BY <1>5, <1>6, <1>7

\* Without reverts an edit writes a number above what both sides show.
LEMMA LargestText ==
    ASSUME BridgeIInv, NEW i \in Items,
           NEW n, n = 1 + Max({content[p][i].text : p \in Sides})
    PROVE  \A s \in Sides : content[s][i].text < n
  <1> DEFINE g == content["github"][i].text
             f == content["forgejo"][i].text
  <1>1. g \in Nat /\ f \in Nat
    BY Texture DEF Sides
  <1>2. {content[p][i].text : p \in Sides} = {g, f}
    BY DEF Sides
  <1>3. \E m \in {g, f} : \A y \in {g, f} : m >= y
    BY <1>1
  <1>4. Max({g, f}) \in {g, f} /\ \A y \in {g, f} : Max({g, f}) >= y
    BY <1>3 DEF Max
  <1>5. n = 1 + Max({g, f})
    BY <1>2
  <1> HIDE DEF g, f
  <1>6. g < n /\ f < n
    BY <1>1, <1>4, <1>5
  <1> QED
    BY <1>6 DEF Sides, g, f

-----------------------------------------------------------------------------
(* Every step keeps the agreement. *)

\* An edit makes its side newer than the worker's text and the recorded one, and
\* leaves a delivery behind.
LEMMA EditAgrees ==
    ASSUME ~Reverts, BridgeIInv, AgreeIInv, NEW s \in Sides, NEW i \in Items, Edit(s, i)
    PROVE  AgreeIInv'
  <1>1. PICK n \in 1..MaxText :
           /\ n = 1 + Max({content[p][i].text : p \in Sides})
           /\ content' = [content EXCEPT ![s][i] = Written(n)]
    BY DEF Edit
  <1>2. /\ Enqueue(i, s, FALSE) /\ content[s][i] # Absent
        /\ UNCHANGED <<copies, creates, linked, revision, relayed, worker>>
    BY DEF Edit, mapping
  <1>3. /\ StillOpen /\ JobKept
        /\ Pending(i)' /\ Known(i)' /\ \A b \in {0, worker.job} : OpenOn(i, s, b)'
    BY <1>2, EnqueueStillOpen
  <1>4. \A p \in Sides : content[p][i].text < n
    BY <1>1, LargestText
  <1>5. Written(n) \in Texts /\ Written(n).text = n /\ n \in Nat
    BY <1>1 DEF Written, Texts
  <1>6. /\ content'[s][i] = Written(n)
        /\ \A p \in Sides, j \in Items : p # s \/ j # i => content'[p][j] = content[p][j]
    BY <1>1, WorkerFacts
  <1> USE OpenStays, WorkerFacts, Texture
  <1>7. Heard'
    BY <1>2, <1>3, <1>6 DEF AgreeIInv, Heard
  <1>8. Unanswered'
    BY <1>2, <1>3 DEF AgreeIInv, Unanswered
  <1>9. Peers'
    <2>1. \A j \in Items : copies'[j] > 0 => \A p \in Sides : content'[p][j] \in Texts
      BY <1>2, <1>5, <1>6 DEF AgreeIInv, Peers
    <2> QED
      BY <1>2, <1>3, <2>1 DEF AgreeIInv, Peers, JobKept
  <1>10. NoTwins'
    <2>1. content'["github"][i].text # content'["forgejo"][i].text
      BY <1>4, <1>5, <1>6, SMTT(60) DEF Sides
    <2>2. \A j \in Items : j # i =>
             /\ content'["github"][j] = content["github"][j]
             /\ content'["forgejo"][j] = content["forgejo"][j]
      BY <1>6 DEF Sides
    <2> QED
      BY <2>1, <2>2 DEF AgreeIInv, NoTwins
  <1>11. RevisionOld'
    <2> SUFFICES ASSUME NEW j \in linked, NEW p \in Sides
                 PROVE  revision[j].text <= content'[p][j].text
      BY <1>2 DEF RevisionOld
    <2>1. j \in Items /\ revision[j].text <= content[p][j].text
      BY DEF AgreeIInv, RevisionOld
    <2> QED
      BY <2>1, <1>4, <1>5, <1>6, SMTT(60)
  <1>12. Current'
    <2> SUFFICES ASSUME NEW x \in Items, NEW t \in Sides, x = Job.about, t = Job.side,
                        worker.pc \in {"reserve", "post", "link", "patch", "labels", "record"}
                 PROVE  /\ content'[t][x] = worker.read \/ Newer(x, t)'
                        /\ x \in linked => revision[x].text <= worker.read.text
                        /\ worker.pc \in {"labels", "record"} =>
                             \/ content'[Other(t)][x] = Rendered(worker.read)
                             \/ Newer(x, Other(t))'
      BY <1>2, <1>3 DEF Current, JobKept
    <2>1. /\ t \in Sides /\ Other(t) \in Sides
          /\ content[t][x] = worker.read \/ Newer(x, t)
          /\ x \in linked => revision[x].text <= worker.read.text
          /\ worker.pc \in {"labels", "record"} =>
               content[Other(t)][x] = Rendered(worker.read) \/ Newer(x, Other(t))
      BY OtherSide DEF AgreeIInv, Current
    <2>2. worker.read.text <= content[t][x].text
      BY <2>1 DEF Newer
    <2>3. \A p \in Sides : Newer(x, p) => Newer(x, p)'
      BY <1>2, <1>3, <1>4, <1>5, <1>6, SMTT(60) DEF Newer
    <2>4. \A p \in Sides : p = s /\ x = i => Newer(x, p)'
      BY <1>2, <1>3, <1>4, <1>5, <1>6, <2>1, <2>2 DEF Newer
    <2> QED
      BY <1>6, <2>1, <2>3, <2>4
  <1>13. RevisionTells'
    <2> SUFFICES ASSUME NEW j \in linked, NEW p \in Sides, revision[j] = content'[p][j]
                 PROVE  Agree(j)' \/ OpenOn(j, Other(p), 0)'
      BY <1>2 DEF RevisionTells
    <2>1. CASE j # i
      BY <1>3, <1>6, <2>1, OtherSide DEF AgreeIInv, RevisionTells, Agree, Sides
    <2>2. CASE j = i /\ p = s
      BY <1>4, <1>5, <1>6, <2>2, SMTT(60) DEF AgreeIInv, RevisionOld
    <2>3. CASE j = i /\ p # s
      BY <1>3, <2>3 DEF Other, Sides
    <2> QED
      BY <2>1, <2>2, <2>3
  <1>14. SettledAgree'
    <2>1. ~ Settled(i)'
      BY <1>3 DEF Settled, Pending
    <2>2. \A j \in Items : j # i /\ Settled(j)' => Settled(j)
      BY <1>2, <1>3 DEF Settled, Pending
    <2> QED
      BY <1>6, <2>1, <2>2 DEF AgreeIInv, SettledAgree, Sides
  <1> QED
    BY <1>7, <1>8, <1>9, <1>10, <1>11, <1>12, <1>13, <1>14 DEF AgreeIInv

\* A new item is shown on one side and mapped nowhere.
LEMMA OpenAgrees ==
    ASSUME BridgeIInv, AgreeIInv, NEW i \in Items, Open(i)
    PROVE  AgreeIInv'
  <1>1. /\ Enqueue(i, Home[i], TRUE) /\ ~Known(i) /\ Home[i] \in Sides
        /\ content' = [content EXCEPT ![Home[i]][i] = Written(1)]
        /\ UNCHANGED <<copies, creates, linked, revision, relayed, worker>>
    BY BridgeAssumption DEF Open, mapping
  <1>2. /\ StillOpen /\ JobKept
        /\ Pending(i)' /\ Known(i)' /\ \A b \in {0, worker.job} : OpenOn(i, Home[i], b)'
    BY <1>1, EnqueueStillOpen
  <1>3. Written(1) \in Texts /\ Written(1).text = 1
    BY BridgeAssumption DEF Written, Texts
  <1>4. /\ content'[Home[i]][i] = Written(1)
        /\ \A p \in Sides, j \in Items : j # i => content'[p][j] = content[p][j]
        /\ \A p \in Sides : p # Home[i] => content'[p][i] = content[p][i]
    BY <1>1, WorkerFacts
  <1> USE OpenStays, WorkerFacts, Texture
  <1>5. /\ \A p \in Sides : content[p][i] = Absent
        /\ copies[i] = 0 /\ i \notin linked
    BY <1>1 DEF AgreeIInv, Heard, Peers
  <1>6. ~ Pending(i)
    BY <1>1 DEF Known, Pending
  <1>7. worker.pc # "idle" => Job.about # i
    BY <1>1, InvParts DEF Known, Job
  <1>8. Heard'
    BY <1>1, <1>2, <1>4 DEF AgreeIInv, Heard
  <1>9. Unanswered'
    BY <1>1, <1>2 DEF AgreeIInv, Unanswered
  <1>10. Peers'
    <2>1. \A j \in Items : copies'[j] > 0 => \A p \in Sides : content'[p][j] \in Texts
      BY <1>1, <1>4, <1>5 DEF AgreeIInv, Peers
    <2> QED
      BY <1>1, <1>2, <2>1 DEF AgreeIInv, Peers, JobKept
  <1>11. NoTwins'
    <2>1. content'["github"][i] # content'["forgejo"][i]
      BY <1>1, <1>3, <1>4, <1>5 DEF Sides
    <2>2. \A j \in Items : j # i =>
             /\ content'["github"][j] = content["github"][j]
             /\ content'["forgejo"][j] = content["forgejo"][j]
      BY <1>4 DEF Sides
    <2> QED
      BY <2>1, <2>2 DEF AgreeIInv, NoTwins
  <1>12. RevisionOld'
    BY <1>1, <1>4, <1>5 DEF AgreeIInv, RevisionOld
  <1>13. Current'
    <2> SUFFICES ASSUME NEW x \in Items, NEW t \in Sides, x = Job.about, t = Job.side,
                        worker.pc \in {"reserve", "post", "link", "patch", "labels", "record"}
                 PROVE  /\ content'[t][x] = worker.read \/ Newer(x, t)'
                        /\ x \in linked => revision[x].text <= worker.read.text
                        /\ worker.pc \in {"labels", "record"} =>
                             \/ content'[Other(t)][x] = Rendered(worker.read)
                             \/ Newer(x, Other(t))'
      BY <1>1, <1>2 DEF Current, JobKept
    <2>1. /\ x # i /\ Other(t) \in Sides
          /\ content[t][x] = worker.read \/ Newer(x, t)
          /\ x \in linked => revision[x].text <= worker.read.text
          /\ worker.pc \in {"labels", "record"} =>
               content[Other(t)][x] = Rendered(worker.read) \/ Newer(x, Other(t))
      BY <1>7, OtherSide DEF AgreeIInv, Current
    <2>2. \A p \in Sides : Newer(x, p) => Newer(x, p)'
      BY <1>1, <1>2, <1>4, <2>1 DEF Newer
    <2> QED
      BY <1>4, <2>1, <2>2
  <1>14. RevisionTells'
    <2> SUFFICES ASSUME NEW j \in linked, NEW p \in Sides, revision[j] = content'[p][j]
                 PROVE  Agree(j)' \/ OpenOn(j, Other(p), 0)'
      BY <1>1 DEF RevisionTells
    <2>1. j # i
      BY <1>5
    <2> QED
      BY <1>2, <1>4, <2>1, OtherSide DEF AgreeIInv, RevisionTells, Agree, Sides
  <1>15. SettledAgree'
    <2>1. \A j \in Items : Settled(j)' => j # i /\ Settled(j)
      BY <1>1, <1>2, <1>5, ZenonT(60) DEF Settled, Pending
    <2> QED
      BY <1>4, <2>1 DEF AgreeIInv, SettledAgree, Sides
  <1> QED
    BY <1>8, <1>9, <1>10, <1>11, <1>12, <1>13, <1>14, <1>15 DEF AgreeIInv

\* Steps of the table, the server and the policies change no text.
LEMMA QueueAgrees ==
    ASSUME BridgeIInv, AgreeIInv,
           \/ \E c \in Comments : Say(c)
           \/ \E s \in Sides : SetPolicy(s)
           \/ \E d \in DOMAIN deliveries : Due(d) \/ RetryDelivery(d)
           \/ Claim \/ Crash \/ Stop \/ Start
           \/ \E c \in Comments : ResolveComment(c)
    PROVE  AgreeIInv'
  <1>1. BridgeTypeOK /\ QueueInv
    BY InvParts DEF BridgeIInv, BridgeInv
  <1>2. ASSUME NEW c \in Comments, Say(c)
        PROVE  AgreeIInv'
    <2>1. c.side \in Sides
      BY BridgeAssumption
    <2> QED
      BY <1>2, <2>1, EnqueueStillOpen, QuietStep DEF Say, remote, mapping
  <1>3. ASSUME NEW s \in Sides, SetPolicy(s)
        PROVE  AgreeIInv'
    BY <1>3, QuietStep DEF SetPolicy, StillOpen, JobKept, Job, remote, mapping
  <1>4. ASSUME NEW d \in DOMAIN deliveries, Due(d) \/ RetryDelivery(d)
        PROVE  AgreeIInv'
    <2>1. SetState(d, "pending") /\ UNCHANGED <<remote, mapping, worker>>
      BY <1>4 DEF Due, RetryDelivery
    <2>2. /\ DOMAIN deliveries' = DOMAIN deliveries
          /\ \A e \in DOMAIN deliveries :
               /\ deliveries'[e].about = deliveries[e].about
               /\ deliveries'[e].side = deliveries[e].side
               /\ deliveries'[e].state = IF e = d THEN "pending" ELSE deliveries[e].state
      BY <1>1, <2>1, StateSet DEF DeliveryStates
    <2>3. StillOpen
      BY <2>2 DEF StillOpen
    <2>4. JobKept
      BY <2>1, <2>2, InvParts DEF JobKept, Job
    <2> QED
      BY <2>1, <2>3, <2>4, QuietStep DEF remote, mapping
  <1>5. CASE Claim
    <2>1. worker'.pc = "gate" /\ UNCHANGED <<remote, mapping>>
      BY <1>1, <1>5, ClaimKeepsQueue DEF Claim
    <2>2. Min(Eligible) \in DOMAIN deliveries
      <3>1. Eligible \subseteq Nat
        BY <1>1, DeliveryTypes DEF Eligible
      <3> QED
        BY <1>5, <3>1, LeastOfNaturals DEF Claim, Eligible
    <2>3. SetState(Min(Eligible), "running")
      BY <1>5 DEF Claim
    <2>4. /\ DOMAIN deliveries' = DOMAIN deliveries
          /\ \A e \in DOMAIN deliveries :
               /\ deliveries'[e].about = deliveries[e].about
               /\ deliveries'[e].side = deliveries[e].side
               /\ deliveries'[e].state =
                    IF e = Min(Eligible) THEN "running" ELSE deliveries[e].state
      BY <1>1, <2>2, <2>3, StateSet DEF DeliveryStates
    <2>5. StillOpen
      BY <2>4 DEF StillOpen
    <2> QED
      BY <2>1, <2>5, QuietStep DEF remote, mapping
  <1>6. CASE Crash
    BY <1>6, QuietStep DEF Crash, StillOpen, Free, remote, mapping
  <1>7. CASE Stop
    BY <1>7, QuietStep DEF Stop, StillOpen, JobKept, Job, remote, mapping
  <1>8. CASE Start
    <2>1. StillOpen
      BY <1>1, <1>8, Restarted DEF StillOpen
    <2>2. worker'.pc = "idle"
      BY <1>1, <1>8, StartKeepsQueue DEF Free
    <2> QED
      BY <1>8, <2>1, <2>2, QuietStep DEF Start, remote, mapping
  <1>9. ASSUME NEW c \in Comments, ResolveComment(c)
        PROVE  AgreeIInv'
    BY <1>9, QuietStep DEF ResolveComment, StillOpen, JobKept, Job, remote
  <1> QED
    BY <1>2, <1>3, <1>4, <1>5, <1>6, <1>7, <1>8, <1>9

\* A job that ends without being done leaves its item unsettled.
LEMMA EndAgrees ==
    ASSUME BridgeIInv, AgreeIInv, worker.pc # "idle", NEW st \in DeliveryStates, End(st),
           st # "done" \/ Job.about \notin Items,
           UNCHANGED <<content, copies, linked, revision>>, creates' \subseteq creates
    PROVE  AgreeIInv'
  BY EndStillOpen, QuietStep

\* The policy gate changes no text.
LEMMA AdmitAgrees ==
    ASSUME BridgeIInv, AgreeIInv, NEW s \in Sides, NEW relay \in Relays,
           Admit(s, relay, IF relay = "items" THEN Forward ELSE Relay)
    PROVE  AgreeIInv'
  <1>1. /\ worker.pc = "gate" /\ (Job.about \in Items <=> relay = "items")
        /\ UNCHANGED <<remote, mapping>>
    BY DEF Admit, At
  <1>2. ASSUME NEW st \in DeliveryStates \ {"done"}, End(st)
        PROVE  AgreeIInv'
    BY <1>1, <1>2, EndAgrees DEF remote, mapping
  <1>3. CASE Go("read")
    <2>1. worker'.pc = "read"
      BY <1>3, WorkerFacts DEF Go
    <2> QED
      BY <1>1, <1>3, <2>1, GoStillOpen, QuietStep DEF Go, remote, mapping
  <1>4. CASE relay # "items" /\ Go("reserve")
    <2>1. /\ worker'.pc = "reserve" /\ worker'.job = worker.job /\ UNCHANGED deliveries
          /\ Job.about \notin Items
      BY <1>1, <1>4, WorkerFacts DEF Go
    <2>2. Job' = Job
      BY <2>1 DEF Job
    <2>3. Heard' /\ Unanswered' /\ NoTwins' /\ RevisionOld' /\ RevisionTells' /\ SettledAgree'
      BY <1>1, <2>1, SameRows DEF remote, mapping
    <2>5. Peers' /\ Current'
      BY <1>1, <2>1, <2>2, WorkerFacts DEF AgreeIInv, Peers, Current, remote, mapping
    <2> QED
      BY <2>3, <2>5 DEF AgreeIInv
  <1>5. \A p \in Sides : Consent(p, relay) # "granted" =>
           Consent(p, relay) \in DeliveryStates \ {"done"}
    BY DEF Consent, DeliveryStates
  <1> QED
    BY <1>2, <1>3, <1>4, <1>5, OtherSide DEF Admit, Forward, Relay, DeliveryStates

\* What stays open when the job of a mapped item is done.
LEMMA DoneEffect ==
    ASSUME BridgeIInv, worker.pc # "idle", End("done"), Job.about \in Items
    PROVE  /\ worker'.pc = "idle"
           /\ \A i \in Items : Known(i) => Known(i)'
           /\ \A i \in Items : i # Job.about /\ Pending(i) => Pending(i)'
           /\ \A i \in Items, s \in Sides :
                OpenOn(i, s, 0) /\ (i # Job.about \/ s # Job.side) => OpenOn(i, s, 0)'
           /\ \A i \in Items, s \in Sides :
                OpenOn(i, s, worker.job) => OpenOn(i, s, 0)' /\ Pending(i)'
  <1>1. /\ BridgeTypeOK /\ worker.job \in DOMAIN deliveries
        /\ SetState(worker.job, "done") /\ worker' = Free
    BY DEF BridgeIInv, BridgeInv, WorkerHolds, End
  <1>2. /\ DOMAIN deliveries' = DOMAIN deliveries
        /\ \A e \in DOMAIN deliveries :
             /\ deliveries'[e].about = deliveries[e].about
             /\ deliveries'[e].side = deliveries[e].side
             /\ deliveries'[e].state = IF e = worker.job THEN "done" ELSE deliveries[e].state
    BY <1>1, StateSet DEF DeliveryStates
  <1>3. 0 \notin DOMAIN deliveries
    BY <1>1, DeliveryTypes
  <1> QED
    BY <1>1, <1>2, <1>3 DEF Known, Pending, OpenOn, Job, Free

\* A delivery is done without a write only if its side shows the recorded text.
LEMMA ReadAgrees ==
    ASSUME BridgeIInv, AgreeIInv, Read
    PROVE  AgreeIInv'
  <1>1. /\ worker.pc = "read" /\ UNCHANGED <<remote, mapping>>
        /\ Job.about \in Items /\ Job.side \in Sides
    BY WorkerFacts DEF Read, At, Carrying
  <1>2. ASSUME NEW st \in DeliveryStates \ {"done"}, End(st)
        PROVE  AgreeIInv'
    BY <1>1, <1>2, EndAgrees DEF remote, mapping
  <1> USE WorkerFacts, Texture
  <1>3. ASSUME NEW i \in Items, NEW s \in Sides, i = Job.about, s = Job.side,
               i \in linked, revision[i] = content[s][i], End("done")
        PROVE  AgreeIInv'
    <2> USE DoneEffect
    <2>1. Heard' /\ NoTwins' /\ RevisionOld' /\ Peers' /\ Current'
      BY <1>1, <1>3 DEF AgreeIInv, Heard, NoTwins, RevisionOld, Peers, Current, remote, mapping
    <2>2. Unanswered'
      BY <1>1, <1>3 DEF AgreeIInv, Unanswered, mapping
    <2>3. Agree(i) \/ OpenOn(i, Other(s), 0)
      BY <1>3 DEF AgreeIInv, RevisionTells
    <2>4. content["github"][i] = content["forgejo"][i] => Agree(i)
      <3>1. content["github"][i] \in Texts
        BY <1>1, <1>3 DEF AgreeIInv, Peers, Sides
      <3> QED
        BY <3>1 DEF AgreeIInv, NoTwins, Agree
    <2>5. RevisionTells'
      <3> SUFFICES ASSUME NEW j \in linked, NEW p \in Sides, revision[j] = content[p][j]
                   PROVE  Agree(j)' \/ OpenOn(j, Other(p), 0)'
        BY <1>1 DEF RevisionTells, remote, mapping
      <3>1. Agree(j) \/ OpenOn(j, Other(p), 0)
        BY DEF AgreeIInv, RevisionTells
      <3>2. Agree(j) => Agree(j)'
        BY <1>1 DEF Agree, remote
      <3>3. CASE j # i \/ Other(p) # s
        BY <1>1, <1>3, <3>1, <3>2, <3>3, OtherSide
      <3>4. CASE j = i /\ Other(p) = s
        <4>1. p # s /\ content[p][i] = content[s][i]
          BY <1>3, <3>4, OtherSide
        <4>2. Agree(i)
          BY <2>4, <4>1 DEF Sides
        <4> QED
          BY <3>2, <3>4, <4>2
      <3> QED
        BY <3>3, <3>4
    <2>6. SettledAgree'
      <3>1. \A j \in Items : j # i /\ Settled(j)' => Settled(j)
        BY <1>1, <1>3 DEF Settled, Pending, mapping
      <3>2. Settled(i)' => Agree(i)
        <4>1. Other(s) \in Sides /\ Other(s) # s
          BY OtherSide
        <4>2. OpenOn(i, Other(s), 0) => OpenOn(i, Other(s), 0)'
          BY <1>1, <1>3, <4>1
        <4>3. OpenOn(i, Other(s), 0)' => ~ Settled(i)'
          BY DEF Settled, OpenOn
        <4> QED
          BY <2>3, <4>2, <4>3
      <3> QED
        BY <1>1, <3>1, <3>2 DEF AgreeIInv, SettledAgree, Agree, remote
    <2> QED
      BY <2>1, <2>2, <2>5, <2>6 DEF AgreeIInv
  <1>4. ASSUME NEW i \in Items, NEW s \in Sides, i = Job.about, s = Job.side, UNCHANGED deliveries,
               worker' = [worker EXCEPT !.read = content[s][i],
                                        !.pc = IF i \in linked THEN "patch" ELSE "reserve"]
        PROVE  AgreeIInv'
    <2>1. /\ worker'.pc = IF i \in linked THEN "patch" ELSE "reserve"
          /\ worker'.job = worker.job /\ worker'.read = content[s][i]
      BY <1>4
    <2>2. Job' = Job
      BY <1>4, <2>1 DEF Job
    <2>3. Heard' /\ Unanswered' /\ NoTwins' /\ RevisionOld' /\ RevisionTells' /\ SettledAgree'
      BY <1>1, <1>4, SameRows DEF remote, mapping
    <2>5. Peers'
      BY <1>1, <1>4, <2>1, <2>2 DEF AgreeIInv, Peers, remote, mapping
    <2>6. Current'
      BY <1>1, <1>4, <2>1, <2>2 DEF AgreeIInv, Current, RevisionOld, remote, mapping
    <2> QED
      BY <2>3, <2>5, <2>6 DEF AgreeIInv
  <1> QED
    BY <1>1, <1>2, <1>3, <1>4 DEF Read, DeliveryStates

\* A reservation belongs to a running delivery.
LEMMA ReserveAgrees ==
    ASSUME BridgeIInv, AgreeIInv, Reserve
    PROVE  AgreeIInv'
  <1> USE WorkerFacts
  <1>1. /\ worker.pc = "reserve" /\ UNCHANGED <<remote, linked, revision>>
        /\ Job.about \in Items \cup Comments
    BY DEF Reserve, At
  <1>2. ASSUME NEW st \in DeliveryStates, End(st), st # "done" \/ Job.about \notin Items,
               UNCHANGED creates
        PROVE  AgreeIInv'
    BY <1>1, <1>2, EndAgrees DEF remote
  <1>3. ASSUME Go("post"), creates' \subseteq creates \cup {Job.about}
        PROVE  AgreeIInv'
    <2>1. /\ worker'.pc = "post" /\ worker'.job = worker.job /\ worker'.read = worker.read
          /\ UNCHANGED deliveries
      BY <1>3 DEF Go
    <2>2. Job' = Job
      BY <2>1 DEF Job
    <2>3. Pending(Job.about)
      BY <1>1 DEF BridgeIInv, WorkerHolds, Pending, Job
    <2>4. Heard' /\ NoTwins' /\ RevisionOld'
      BY <1>1, <2>1 DEF AgreeIInv, Heard, NoTwins, RevisionOld, Known, remote
    <2>5. Unanswered'
      BY <1>3, <2>1, <2>3 DEF AgreeIInv, Unanswered, Pending
    <2>6. RevisionTells' /\ SettledAgree'
      BY <1>1, <2>1 DEF AgreeIInv, RevisionTells, SettledAgree, Settled, OpenOn, Agree, remote
    <2>7. Peers'
      BY <1>1, <2>1, <2>2 DEF AgreeIInv, Peers, remote
    <2>8. Current'
      BY <1>1, <2>1, <2>2 DEF AgreeIInv, Current, Newer, OpenOn, remote
    <2> QED
      BY <2>4, <2>5, <2>6, <2>7, <2>8 DEF AgreeIInv
  <1>4. CASE Job.about \in Items /\ Job.about \in creates
    <2>1. End("blocked") /\ creates' = creates
      BY <1>4, ZenonT(60) DEF Reserve
    <2> QED
      BY <1>2, <2>1 DEF DeliveryStates
  <1>5. CASE Job.about \in Items /\ Job.about \notin creates
    BY <1>3, <1>5 DEF Reserve
  <1>6. CASE Job.about \notin Items
    <2>1. creates' = creates /\ (Go("post") \/ End("blocked") \/ End("done"))
      BY <1>6 DEF Reserve
    <2> QED
      BY <1>2, <1>3, <1>6, <2>1 DEF DeliveryStates
  <1> QED
    BY <1>4, <1>5, <1>6

\* The new peer shows what was read; the item is not mapped yet.
LEMMA CreatedAgrees ==
    ASSUME BridgeIInv, AgreeIInv, worker.pc = "post", Created, UNCHANGED mapping,
           Go("link") \/ End("blocked"),
           NEW x \in Items \cup Comments, x = Job.about, NEW t \in Sides, t = Job.side
    PROVE  AgreeIInv'
  <1> USE WorkerFacts
  <1>1. /\ x \in Items => x \notin linked /\ x \in creates
        /\ copies' = [copies EXCEPT ![x] = @ + 1]
        /\ UNCHANGED <<creates, linked, revision>>
    BY DEF Created, Reservations, Reserved, mapping
  <1>2. copies'[x] > 0 /\ \A i \in Items : i # x => copies'[i] = copies[i]
    BY <1>1
  <1>3. /\ x \in Items => content'[Other(t)][x] = Rendered(worker.read)
        /\ \A p \in Sides, i \in Items : p # Other(t) \/ i # x => content'[p][i] = content[p][i]
    BY OtherSide DEF Created
  <1>4. x \in Items => worker.read \in Texts /\ Rendered(worker.read) \in Texts
    BY RenderedText DEF Carrying
  <1>5. StillOpen
    BY EndStillOpen, GoStillOpen DEF Go, DeliveryStates
  <1>6. Known(x) /\ Pending(x)
    BY DEF BridgeIInv, WorkerHolds, Known, Pending, Job
  <1>7. Heard'
    BY <1>2, <1>3, <1>5, <1>6, OpenStays DEF AgreeIInv, Heard
  <1>8. Unanswered'
    BY <1>1, <1>5, OpenStays DEF AgreeIInv, Unanswered
  <1>9. Peers'
    <2>1. \A i \in Items : copies'[i] > 0 => \A p \in Sides : content'[p][i] \in Texts
      <3> SUFFICES ASSUME NEW i \in Items, copies'[i] > 0, NEW p \in Sides
                   PROVE  content'[p][i] \in Texts
        OBVIOUS
      <3>1. CASE i # x
        BY <1>2, <1>3, <3>1 DEF AgreeIInv, Peers
      <3>2. CASE i = x /\ p = Other(t)
        BY <1>3, <1>4, <3>2
      <3>3. CASE i = x /\ p # Other(t)
        <4>1. p = t
          BY <3>3 DEF Other, Sides
        <4>2. content[t][x] \in Texts
          BY <3>3 DEF BridgeIInv, WorkerHolds, Shown, Job
        <4> QED
          BY <1>3, <3>3, <4>1, <4>2
      <3> QED
        BY <3>1, <3>2, <3>3
    <2>2. \A i \in linked' : copies'[i] > 0
      BY <1>1, <1>2 DEF AgreeIInv, Peers
    <2>3. worker'.pc = "link" => copies'[Job'.about] > 0
      <3>1. CASE Go("link")
        BY <1>2, <3>1 DEF Go, Job
      <3>2. CASE End("blocked")
        BY <3>2 DEF End, Free
      <3> QED
        BY <3>1, <3>2
    <2>4. worker'.pc \in {"link", "idle"}
      BY DEF Go, End, Free
    <2> QED
      BY <2>1, <2>2, <2>3, <2>4 DEF Peers
  <1>10. NoTwins'
    <2> SUFFICES ASSUME NEW i \in Items, content'["github"][i] = content'["forgejo"][i],
                        content'["github"][i] # Absent
                 PROVE  content'["github"][i] = Rendered(content'["github"][i])
      BY DEF NoTwins
    <2>1. CASE i # x
      BY <1>3, <2>1 DEF AgreeIInv, NoTwins, Sides
    <2>2. CASE i = x
      <3>1. content'["github"][i] = Rendered(worker.read)
        BY <1>3, <2>2 DEF Other, Sides
      <3> QED
        BY <1>4, <2>2, <3>1, RenderedTwice
    <2> QED
      BY <2>1, <2>2
  <1>11. RevisionOld'
    BY <1>1, <1>3 DEF AgreeIInv, RevisionOld
  <1>12. RevisionTells'
    <2> SUFFICES ASSUME NEW i \in linked, NEW p \in Sides, revision[i] = content'[p][i]
                 PROVE  Agree(i)' \/ OpenOn(i, Other(p), 0)'
      BY <1>1 DEF RevisionTells
    <2>1. i # x /\ i \in Items /\ Other(p) \in Sides /\ content'[p][i] = content[p][i]
      BY <1>1, <1>3, OtherSide
    <2>2. Agree(i) \/ OpenOn(i, Other(p), 0)
      BY <2>1 DEF AgreeIInv, RevisionTells
    <2>3. Agree(i) => Agree(i)'
      BY <1>3, <2>1 DEF Agree, Sides
    <2>4. OpenOn(i, Other(p), 0) => OpenOn(i, Other(p), 0)'
      BY <1>5, <2>1, OpenStays
    <2> QED
      BY <2>2, <2>3, <2>4
  <1>13. SettledAgree'
    <2>1. \A i \in Items : Settled(i)' => i # x /\ Settled(i)
      BY <1>1, <1>5, OpenStays DEF Settled, Pending
    <2> QED
      BY <1>3, <2>1 DEF AgreeIInv, SettledAgree, Sides
  <1>14. Current'
    <2>1. CASE Go("link")
      <3>1. /\ worker'.pc = "link" /\ worker'.job = worker.job /\ worker'.read = worker.read
            /\ UNCHANGED deliveries
        BY <2>1 DEF Go
      <3>2. Job' = Job
        BY <3>1 DEF Job
      <3>3. x \in Items => content[t][x] = worker.read \/ Newer(x, t)
        BY DEF AgreeIInv, Current
      <3>4. x \in Items => content'[t][x] = content[t][x]
        BY <1>3, OtherSide
      <3>5. x \in Items /\ Newer(x, t) => Newer(x, t)'
        BY <3>1, <3>4 DEF Newer, OpenOn
      <3>6. x \in Items => content'[t][x] = worker'.read \/ Newer(x, t)'
        BY <3>1, <3>3, <3>4, <3>5
      <3> QED
        BY <1>1, <3>1, <3>2, <3>6 DEF Current
    <2>2. CASE End("blocked")
      BY <2>2 DEF End, Free, Current
    <2> QED
      BY <2>1, <2>2
  <1> QED
    BY <1>7, <1>8, <1>9, <1>10, <1>11, <1>12, <1>13, <1>14 DEF AgreeIInv

\* create_peer, forward_comment.
LEMMA PostAgrees ==
    ASSUME BridgeIInv, AgreeIInv, Post
    PROVE  AgreeIInv'
  <1>1. /\ worker.pc = "post" /\ UNCHANGED mapping
        /\ Job.about \in Items \cup Comments /\ Job.side \in Sides
    BY WorkerFacts DEF Post, At
  <1>2. CASE Created /\ (Go("link") \/ End("blocked"))
    BY <1>1, <1>2, CreatedAgrees
  <1>3. CASE UNCHANGED remote /\ End("blocked")
    BY <1>1, <1>3, EndAgrees DEF DeliveryStates, remote, mapping
  <1> QED
    BY <1>2, <1>3 DEF Post

\* A newly mapped item has an empty revision, which nobody shows.
LEMMA LinkAgrees ==
    ASSUME BridgeIInv, AgreeIInv, Link
    PROVE  AgreeIInv'
  <1> USE WorkerFacts, Texture
  <1>1. worker.pc = "link" /\ UNCHANGED remote /\ Job.side \in Sides
    BY DEF Link, At
  <1>2. CASE Job.about \notin Items
    BY <1>1, <1>2, EndAgrees DEF Link, DeliveryStates, remote
  <1>3. ASSUME NEW x \in Items, x = Job.about, NEW t \in Sides, t = Job.side
        PROVE  AgreeIInv'
    <2>1. /\ linked' = linked \cup {x} /\ creates' = creates \ {x}
          /\ revision' = [revision EXCEPT ![x] = Absent]
          /\ UNCHANGED <<deliveries, content, copies>> /\ worker' = [worker EXCEPT !.pc = "patch"]
      BY <1>1, <1>3 DEF Link, Go, remote
    <2>2. worker'.pc = "patch" /\ worker'.job = worker.job /\ worker'.read = worker.read
      BY <2>1
    <2>3. Job' = Job
      BY <2>1, <2>2 DEF Job
    <2>4. /\ revision'[x] = Absent /\ Absent.text = 0
          /\ \A i \in Items : i # x => revision'[i] = revision[i]
      BY <2>1 DEF Absent
    <2>5. x \in creates /\ x \notin linked /\ copies[x] > 0
          /\ \A p \in Sides : content[p][x] \in Texts
      BY <1>1, <1>3 DEF Reservations, Reserved, AgreeIInv, Peers
    <2>6. Heard' /\ NoTwins' /\ Unanswered'
      BY <2>1 DEF AgreeIInv, Heard, NoTwins, Unanswered, Known, Pending
    <2>7. Peers'
      BY <1>3, <2>1, <2>2, <2>3, <2>5 DEF AgreeIInv, Peers
    <2>8. RevisionOld'
      <3> SUFFICES ASSUME NEW i \in linked', NEW p \in Sides
                   PROVE  revision'[i].text <= content[p][i].text
        BY <2>1 DEF RevisionOld
      <3>1. CASE i = x
        BY <2>4, <3>1
      <3>2. CASE i # x
        BY <2>1, <2>4, <3>2 DEF AgreeIInv, RevisionOld
      <3> QED
        BY <3>1, <3>2
    <2>9. Current'
      <3>1. content[t][x] = worker.read \/ Newer(x, t)
        BY <1>1, <1>3 DEF AgreeIInv, Current
      <3>2. Newer(x, t) => Newer(x, t)'
        BY <2>1, <2>2 DEF Newer, OpenOn
      <3>3. revision'[x].text <= worker'.read.text
        BY <2>2, <2>4
      <3> QED
        BY <1>3, <2>1, <2>2, <2>3, <3>1, <3>2, <3>3 DEF Current
    <2>10. RevisionTells'
      <3> SUFFICES ASSUME NEW i \in linked', NEW p \in Sides, revision'[i] = content[p][i]
                   PROVE  Agree(i)' \/ OpenOn(i, Other(p), 0)'
        BY <2>1 DEF RevisionTells
      <3>1. i # x /\ i \in linked
        BY <2>1, <2>4, <2>5
      <3>2. Agree(i) \/ OpenOn(i, Other(p), 0)
        BY <2>4, <3>1 DEF AgreeIInv, RevisionTells
      <3> QED
        BY <2>1, <3>2 DEF Agree, OpenOn
    <2>11. SettledAgree'
      <3>1. deliveries[worker.job].about = x /\ deliveries[worker.job].state = "running"
            /\ worker.job \in DOMAIN deliveries
        BY <1>1, <1>3 DEF BridgeIInv, WorkerHolds, Job
      <3>2. \A i \in Items : Settled(i)' => i # x /\ Settled(i)
        BY <2>1, <3>1 DEF Settled
      <3> QED
        BY <2>1, <3>2 DEF AgreeIInv, SettledAgree
    <2> QED
      BY <2>6, <2>7, <2>8, <2>9, <2>10, <2>11 DEF AgreeIInv
  <1> QED
    BY <1>1, <1>2, <1>3

\* A PATCH makes the sides agree, or somebody has written meanwhile.
LEMMA PatchedAgrees ==
    ASSUME BridgeIInv, AgreeIInv, worker.pc = "patch", Patched, UNCHANGED <<copies, mapping>>,
           Go("labels") \/ End("blocked"),
           NEW x \in Items, x = Job.about, NEW t \in Sides, t = Job.side
    PROVE  AgreeIInv'
  <1> USE WorkerFacts, Texture
  <1> DEFINE o == Other(t)
  <1>1. /\ x \in linked /\ UNCHANGED <<creates, linked, revision>>
        /\ worker.read \in Texts /\ Rendered(worker.read) \in Texts
        /\ Rendered(worker.read).text = worker.read.text
        /\ o \in Sides /\ o # t /\ Other(o) = t /\ \A p \in Sides : p = t \/ p = o
    BY RenderedText, OtherSide DEF AgreeIInv, Peers, Carrying, mapping, Other, Sides
  <1>2. /\ content'[o][x] = Rendered(worker.read)
        /\ \A p \in Sides, i \in Items : p # o \/ i # x => content'[p][i] = content[p][i]
    BY <1>1 DEF Patched
  <1> HIDE DEF o
  <1>3. /\ content[t][x] = worker.read \/ Newer(x, t)
        /\ revision[x].text <= worker.read.text
    BY <1>1 DEF AgreeIInv, Current
  <1>4. StillOpen
    BY EndStillOpen, GoStillOpen DEF Go, DeliveryStates
  <1>5. Known(x) /\ Pending(x)
    BY DEF BridgeIInv, WorkerHolds, Known, Pending, Job
  <1>6. Heard' /\ Unanswered'
    <2>1. Heard'
      BY <1>2, <1>4, <1>5, OpenStays, ZenonT(60) DEF AgreeIInv, Heard
    <2>2. Unanswered'
      BY <1>1, <1>4, OpenStays DEF AgreeIInv, Unanswered
    <2> QED
      BY <2>1, <2>2
  <1>7. worker'.pc \in {"labels", "idle"} /\ (worker'.pc = "labels" => Job' = Job)
    BY DEF Go, End, Free, Job
  <1>8. Peers'
    <2>1. \A i \in Items : copies'[i] > 0 => \A p \in Sides : content'[p][i] \in Texts
      BY <1>1, <1>2 DEF AgreeIInv, Peers
    <2> QED
      BY <1>1, <1>7, <2>1 DEF AgreeIInv, Peers
  <1>9. NoTwins'
    <2> SUFFICES ASSUME NEW i \in Items, content'["github"][i] = content'["forgejo"][i],
                        content'["github"][i] # Absent
                 PROVE  content'["github"][i] = Rendered(content'["github"][i])
      BY DEF NoTwins
    <2>1. CASE i # x
      BY <1>2, <2>1 DEF AgreeIInv, NoTwins, Sides
    <2>2. CASE i = x
      <3>1. content'["github"][i] = Rendered(worker.read)
        BY <1>1, <1>2, <2>2 DEF Sides
      <3> QED
        BY <1>1, <2>2, <3>1, RenderedTwice
    <2> QED
      BY <2>1, <2>2
  <1>10. RevisionOld'
    <2> SUFFICES ASSUME NEW i \in linked, NEW p \in Sides
                 PROVE  revision[i].text <= content'[p][i].text
      BY <1>1 DEF RevisionOld
    <2>1. CASE i = x /\ p = o
      BY <1>1, <1>2, <1>3, <2>1
    <2>2. CASE i # x \/ p # o
      BY <1>2, <2>2 DEF AgreeIInv, RevisionOld
    <2> QED
      BY <2>1, <2>2
  <1>11. RevisionTells'
    <2> SUFFICES ASSUME NEW i \in linked, NEW p \in Sides, revision[i] = content'[p][i]
                 PROVE  Agree(i)' \/ OpenOn(i, Other(p), 0)'
      BY <1>1 DEF RevisionTells
    <2>1. CASE i # x
      <3>1. Agree(i) \/ OpenOn(i, Other(p), 0)
        BY <1>2, <2>1 DEF AgreeIInv, RevisionTells
      <3>2. Agree(i) => Agree(i)'
        BY <1>2, <2>1 DEF Agree, Sides
      <3>3. OpenOn(i, Other(p), 0) => OpenOn(i, Other(p), 0)'
        BY <1>4, OpenStays, OtherSide
      <3> QED
        BY <3>1, <3>2, <3>3
    <2>2. CASE i = x /\ content[t][x] = worker.read
      <3>1. content'[t][x] = worker.read /\ content'[o][x] = Rendered(worker.read)
        BY <1>1, <1>2, <2>2
      <3> QED
        BY <1>1, <2>2, <3>1 DEF Agree, Sides
    <2>3. CASE i = x /\ Newer(x, t)
      <3>1. p # t
        BY <1>1, <1>2, <1>3, <2>3, SMTT(60) DEF Newer
      <3>2. Other(p) = t
        BY <1>1, <3>1
      <3>3. OpenOn(x, t, 0)
        BY <2>3, DeliveryTypes DEF Newer, OpenOn, BridgeIInv, BridgeInv
      <3> QED
        BY <1>4, <2>3, <3>2, <3>3, OpenStays
    <2> QED
      BY <1>3, <2>1, <2>2, <2>3
  <1>12. SettledAgree'
    <2>1. \A i \in Items : Pending(i) => Pending(i)'
      BY <1>4, OpenStays
    <2>2. \A i \in Items : Settled(i)' => i \in linked /\ ~ Pending(i)'
      BY <1>1 DEF Settled, Pending
    <2>3. \A i \in Items : i \in linked /\ ~ Pending(i) => Settled(i)
      BY DEF Settled, Pending
    <2>4. \A i \in Items : Settled(i)' => i # x /\ Settled(i)
      BY <1>5, <2>1, <2>2, <2>3
    <2> QED
      BY <1>2, <2>4 DEF AgreeIInv, SettledAgree, Sides
  <1>13. Current'
    <2>1. CASE Go("labels")
      <3>1. /\ worker'.job = worker.job /\ worker'.read = worker.read /\ UNCHANGED deliveries
            /\ worker'.pc = "labels" /\ Job' = Job
        BY <2>1 DEF Go, Job
      <3>2. Newer(x, t) => Newer(x, t)'
        BY <1>1, <1>2, <3>1 DEF Newer, OpenOn
      <3>3. content'[t][x] = worker'.read \/ Newer(x, t)'
        BY <1>1, <1>2, <1>3, <3>1, <3>2
      <3> QED
        BY <1>1, <1>2, <1>3, <3>1, <3>3 DEF Current, o
    <2>2. CASE End("blocked")
      BY <2>2 DEF End, Free, Current
    <2> QED
      BY <2>1, <2>2
  <1> QED
    BY <1>6, <1>8, <1>9, <1>10, <1>11, <1>12, <1>13 DEF AgreeIInv

\* update_peer, the write.
LEMMA PatchAgrees ==
    ASSUME BridgeIInv, AgreeIInv, Patch
    PROVE  AgreeIInv'
  <1>1. /\ worker.pc = "patch" /\ UNCHANGED <<copies, mapping>>
        /\ Job.about \in Items /\ Job.side \in Sides
    BY WorkerFacts DEF Patch, At, Carrying
  <1>2. CASE Patched /\ (Go("labels") \/ End("blocked"))
    BY <1>1, <1>2, PatchedAgrees
  <1>3. CASE UNCHANGED content /\ (End("waiting") \/ End("blocked"))
    BY <1>1, <1>3, EndAgrees DEF DeliveryStates, mapping
  <1> QED
    BY <1>2, <1>3 DEF Patch

\* update_peer, the labels.
LEMMA LabelsAgree ==
    ASSUME BridgeIInv, AgreeIInv, Labels
    PROVE  AgreeIInv'
  <1>1. worker.pc = "labels" /\ UNCHANGED <<remote, mapping>>
    BY DEF Labels, At
  <1>2. ASSUME Go("record")
        PROVE  AgreeIInv'
    <2>1. /\ worker'.pc = "record" /\ worker'.job = worker.job /\ worker'.read = worker.read
          /\ UNCHANGED deliveries /\ Job' = Job
      BY <1>2, WorkerFacts DEF Go, Job
    <2>2. Heard' /\ Unanswered' /\ NoTwins' /\ RevisionOld' /\ RevisionTells' /\ SettledAgree'
      BY <1>1, <2>1, SameRows DEF remote, mapping
    <2>3. Peers'
      BY <1>1, <2>1 DEF AgreeIInv, Peers, remote, mapping
    <2>4. Current'
      BY <1>1, <2>1 DEF AgreeIInv, Current, Newer, OpenOn, remote, mapping
    <2> QED
      BY <2>2, <2>3, <2>4 DEF AgreeIInv
  <1>3. ASSUME NEW st \in {"waiting", "blocked"}, End(st)
        PROVE  AgreeIInv'
    BY <1>1, <1>3, EndAgrees DEF DeliveryStates, remote, mapping
  <1> QED
    BY <1>2, <1>3 DEF Labels

\* The revision recorded is the text read; a side that shows another one has been
\* written on since and its delivery is still to come.
LEMMA RecordAgrees ==
    ASSUME BridgeIInv, AgreeIInv, Record
    PROVE  AgreeIInv'
  <1> USE WorkerFacts, Texture
  <1>1. /\ worker.pc = "record" /\ End("done") /\ UNCHANGED <<remote, creates, linked>>
        /\ Job.about \in Items /\ Job.side \in Sides
    BY DEF Record, At, Carrying
  <1> SUFFICES ASSUME NEW x \in Items, x = Job.about, NEW t \in Sides, t = Job.side
               PROVE  AgreeIInv'
    BY <1>1
  <1> DEFINE o == Other(t)
  <1>2. /\ x \in linked /\ worker.read \in Texts /\ Rendered(worker.read).text = worker.read.text
        /\ o \in Sides /\ o # t /\ Other(o) = t /\ \A p \in Sides : p = t \/ p = o
    BY <1>1, RenderedText, OtherSide DEF AgreeIInv, Peers, Carrying, Other, Sides
  <1>3. /\ content[t][x] = worker.read \/ Newer(x, t)
        /\ content[o][x] = Rendered(worker.read) \/ Newer(x, o)
    BY <1>1 DEF AgreeIInv, Current
  <1>4. revision'[x] = worker.read /\ \A i \in Items : i # x => revision'[i] = revision[i]
    BY DEF Record
  <1> HIDE DEF o
  <1>5. \A p \in Sides : Newer(x, p) => OpenOn(x, p, 0)' /\ Pending(x)'
    BY <1>1, DoneEffect DEF Newer
  <1>6. Heard' /\ NoTwins' /\ Peers' /\ Current'
    BY <1>1, DoneEffect DEF AgreeIInv, Heard, NoTwins, Peers, Current, remote
  <1>7. Unanswered'
    BY <1>1, <1>2, DoneEffect DEF AgreeIInv, Unanswered
  <1>8. RevisionOld'
    <2> SUFFICES ASSUME NEW i \in linked, NEW p \in Sides
                 PROVE  revision'[i].text <= content[p][i].text
      BY <1>1 DEF RevisionOld, remote
    <2>1. CASE i # x
      BY <1>4, <2>1 DEF AgreeIInv, RevisionOld
    <2>2. worker.read.text <= content[t][x].text /\ worker.read.text <= content[o][x].text
      BY <1>2, <1>3 DEF Newer
    <2>3. CASE i = x
      BY <1>2, <1>4, <2>2, <2>3
    <2> QED
      BY <2>1, <2>3
  <1>9. content[t][x] = worker.read /\ content[o][x] = Rendered(worker.read) => Agree(x)'
    BY <1>1, <1>2 DEF Agree, Sides, remote
  <1>10. RevisionTells'
    <2> SUFFICES ASSUME NEW i \in linked, NEW p \in Sides, revision'[i] = content[p][i]
                 PROVE  Agree(i)' \/ OpenOn(i, Other(p), 0)'
      BY <1>1 DEF RevisionTells, remote
    <2>1. CASE i # x
      <3>1. Agree(i) \/ OpenOn(i, Other(p), 0)
        BY <1>4, <2>1 DEF AgreeIInv, RevisionTells
      <3>2. Agree(i) => Agree(i)'
        BY <1>1 DEF Agree, remote
      <3>3. OpenOn(i, Other(p), 0) => OpenOn(i, Other(p), 0)'
        BY <1>1, <2>1, DoneEffect, OtherSide
      <3> QED
        BY <3>1, <3>2, <3>3
    <2>2. CASE i = x /\ p = t
      <3>1. content[t][x] = worker.read
        BY <1>4, <2>2
      <3>2. CASE Newer(x, o)
        BY <1>2, <1>5, <2>2, <3>2 DEF o
      <3> QED
        BY <1>3, <1>9, <2>2, <3>1, <3>2
    <2>3. CASE i = x /\ p = o
      <3>1. ~ Newer(x, o)
        BY <1>2, <1>4, <2>3 DEF Newer
      <3>2. CASE Newer(x, t)
        BY <1>2, <1>5, <2>3, <3>2
      <3> QED
        BY <1>3, <1>9, <2>3, <3>1, <3>2
    <2> QED
      BY <1>2, <2>1, <2>2, <2>3
  <1>11. SettledAgree'
    <2>1. \A i \in Items : i # x /\ Settled(i)' => Settled(i)
      BY <1>1, DoneEffect DEF Settled, Pending
    <2>2. Settled(x)' => Agree(x)'
      <3>1. Settled(x)' => ~ Pending(x)'
        BY DEF Settled, Pending
      <3> QED
        BY <1>2, <1>3, <1>5, <1>9, <3>1
    <2> QED
      BY <1>1, <2>1, <2>2 DEF AgreeIInv, SettledAgree, Agree, remote
  <1> QED
    BY <1>6, <1>7, <1>8, <1>10, <1>11 DEF AgreeIInv

\* The operator maps an item whose delivery is not done.
LEMMA ResolveAgrees ==
    ASSUME BridgeIInv, AgreeIInv, NEW x \in Items, ResolveCreate(x)
    PROVE  AgreeIInv'
  <1> USE WorkerFacts, Texture
  <1>1. /\ x \in creates /\ x \notin linked /\ creates' = creates \ {x}
        /\ linked' = IF copies[x] > 0 THEN linked \cup {x} ELSE linked
        /\ revision' = [revision EXCEPT ![x] = Absent]
        /\ UNCHANGED <<content, copies, deliveries, worker>>
        /\ worker.pc = "idle"
    BY DEF ResolveCreate, remote, BridgeIInv, WorkerHolds
  <1>2. /\ revision'[x] = Absent /\ Absent.text = 0
        /\ \A i \in Items : i # x => revision'[i] = revision[i]
    BY <1>1 DEF Absent
  <1>3. Heard' /\ NoTwins' /\ Unanswered'
    BY <1>1 DEF AgreeIInv, Heard, NoTwins, Unanswered, Known, Pending
  <1>4. Peers' /\ Current'
    BY <1>1 DEF AgreeIInv, Peers, Current
  <1>5. x \in linked' => \A p \in Sides : content[p][x] \in Texts
    BY <1>1 DEF AgreeIInv, Peers
  <1>6. RevisionOld'
    <2> SUFFICES ASSUME NEW i \in linked', NEW p \in Sides
                 PROVE  revision'[i].text <= content[p][i].text
      BY <1>1 DEF RevisionOld
    <2>1. CASE i = x
      BY <1>2, <2>1
    <2>2. CASE i # x
      BY <1>1, <1>2, <2>2 DEF AgreeIInv, RevisionOld
    <2> QED
      BY <2>1, <2>2
  <1>7. RevisionTells'
    <2> SUFFICES ASSUME NEW i \in linked', NEW p \in Sides, revision'[i] = content[p][i]
                 PROVE  Agree(i)' \/ OpenOn(i, Other(p), 0)'
      BY <1>1 DEF RevisionTells
    <2>1. i # x /\ i \in linked
      BY <1>1, <1>2, <1>5
    <2>2. Agree(i) \/ OpenOn(i, Other(p), 0)
      BY <1>2, <2>1 DEF AgreeIInv, RevisionTells
    <2> QED
      BY <1>1, <2>2 DEF Agree, OpenOn
  <1>8. SettledAgree'
    <2>1. \A i \in Items : Settled(i)' => i # x /\ Settled(i)
      BY <1>1 DEF AgreeIInv, Unanswered, Pending, Settled
    <2> QED
      BY <1>1, <2>1 DEF AgreeIInv, SettledAgree
  <1> QED
    BY <1>3, <1>4, <1>6, <1>7, <1>8 DEF AgreeIInv

-----------------------------------------------------------------------------
(* The two sides agree. *)

\* Nothing is shown at first.
LEMMA AgreeStart == Init => AgreeIInv
  <1> SUFFICES ASSUME Init
               PROVE  AgreeIInv
    OBVIOUS
  <1>1. /\ linked = {} /\ creates = {} /\ worker.pc = "idle"
        /\ \A i \in Items : copies[i] = 0 /\ \A s \in Sides : content[s][i] = Absent
    BY DEF Init, Free
  <1> QED
    BY <1>1 DEF AgreeIInv, Heard, Peers, Unanswered, NoTwins, RevisionOld, Current, RevisionTells,
       SettledAgree, Settled, Sides

\* Without reverts every step keeps the invariant of agreement.
LEMMA AgreeStep == ~Reverts /\ BridgeIInv /\ AgreeIInv /\ [Next]_vars => AgreeIInv'
  <1> SUFFICES ASSUME ~Reverts, BridgeIInv, AgreeIInv, [Next]_vars
               PROVE  AgreeIInv'
    OBVIOUS
  <1>1. CASE UNCHANGED vars
    <2>1. StillOpen /\ JobKept
      BY <1>1 DEF vars, StillOpen, JobKept, Job
    <2> QED
      BY <1>1, <2>1, QuietStep DEF vars, remote, mapping
  <1>2. CASE FromGitHub \/ FromForgejo \/ CommentFromGitHub \/ CommentFromForgejo
    <2>1. {"github", "forgejo"} = Sides /\ {"items", "comments"} = Relays
      BY DEF Sides, Relays
    <2> QED
      BY <1>2, <2>1, AdmitAgrees
         DEF FromGitHub, FromForgejo, CommentFromGitHub, CommentFromForgejo
  <1>3. CASE Work
    BY <1>2, <1>3, QueueAgrees, ReadAgrees, ReserveAgrees, PostAgrees, LinkAgrees, PatchAgrees,
       LabelsAgree, RecordAgrees DEF Work
  <1>4. CASE Unfinished
    BY <1>4, EndAgrees DEF Unfinished, DeliveryStates, remote, mapping
  <1> QED
    BY <1>1, <1>3, <1>4, OpenAgrees, EditAgrees, QueueAgrees, ResolveAgrees DEF Next

\* If people do not restore an earlier text, then once every delivery about a
\* mapped item has been carried out both sides show the same, also after edits on
\* both sides and interrupted updates (forward_item, update_peer).
THEOREM SidesAgree ==
    ASSUME ~Reverts
    PROVE  Spec => []SettledAgree
  <1>1. BridgeIInv /\ AgreeIInv /\ [Next]_vars => AgreeIInv'
    BY AgreeStep
  <1>2. AgreeIInv => SettledAgree
    BY DEF AgreeIInv
  <1> QED
    BY <1>1, <1>2, AgreeStart, BridgeInvariant, PTL DEF Spec
=============================================================================
