------------------------ MODULE TriggerEventsProofs ------------------------
(***************************************************************************)
(* Theorems about the automatic actions on a pull request for every set of *)
(* rules and logins, every limit and any number of heads, edits and        *)
(* faults: nobody is mentioned twice and no more people than the limit, a  *)
(* report is computed and posted at most once, and nothing is written for  *)
(* a rule that came after its webhook or for a plan once found revoked.    *)
(*                                                                         *)
(* EventsIInv ties what GitHub shows to the rows.  A mention that was sent *)
(* is reserved by a row that keeps it (Mentions): a reservation is freed   *)
(* only by a row that is claimed, unsent or refused, and only the pass in  *)
(* process claims rows (Underway, PlanRows).  A report was computed unless *)
(* its row is absent or pending (Reported).  A veto outlives the rule that *)
(* caused it as a final row (Vetoes), and what is frozen is the rule its   *)
(* webhook met first (Frozen).                                             *)
(***************************************************************************)
EXTENDS TriggerEvents, FiniteSetTheorems, TLAPS

\* What a subscription or a plan may hold.
Answers == Policies \cup {Unset}
\* The webhook in process, what GitHub shows, and the rest of the state.
Passes == [pc : Places, event : Events, snap : Heads, todo : SUBSET PathPlans,
           loop : {"revoked", "saved", "new"}, needs : BOOLEAN, plan : Plans,
           fits : BOOLEAN, revoked : BOOLEAN, error : BOOLEAN]
Remotes == [labelled : BOOLEAN, computed : Nat, reports : Nat, comments : SUBSET CcRows,
            mentions : [Users -> Nat]]
Typed ==
    /\ head \in Heads /\ policy \in Policies
    /\ inbox \in [Events -> {"absent", "waiting", "done"}]
    /\ subs \in [Events -> Answers] /\ plans \in [Plans -> Answers]
    /\ ops \in [Keys -> States] /\ slots \in [Users -> CcRows \cup {Nobody}]
    /\ remote \in Remotes /\ pass \in Passes
    /\ first \in [Plans \cup Events -> Answers] /\ vetoed \subseteq Plans
    /\ moves \in 0..MaxMoves /\ faults \in 0..MaxFaults

\* A webhook tells of a head that was.
Timely ==
    /\ \A e \in Events : inbox[e] # "absent" => e.head <= head
    /\ pass.event.head <= head

\* What was frozen is what its webhook met first.
Frozen ==
    /\ plans[Report] = first[Report]
    /\ \A e \in Events : subs[e] \in Rules => first[e] = subs[e]
    /\ \A e \in Events : subs[e] = Unset => first[e] = Unset
    /\ \A p \in Saved : \E e \in Events : e.action = p.action /\ plans[p] = first[e]

\* What the pass holds at each place; its plan is one of a rule.
OfPlan == {"settle", "reconcile", "fence", "compute", "wire"}
OfComment == {"cc", "claim", "preflight", "send"}
Underway ==
    /\ pass.todo \subseteq Saved
    /\ pass.pc \in OfPlan \cup OfComment => plans[P] \in Rules
    /\ At("compute") => P = Report /\ ops[P] \in {"absent", "pending"}
    /\ At("fence") => P # Report /\ ops[P] \in {"absent", "pending"}
    /\ At("wire") => ops[P] = "running"
    /\ At("claim") => ops[C] \notin Final \cup {"unknown"}
    /\ At("preflight") => ops[C] = "claimed"
    /\ At("send") => ops[C] = "running"

\* The rows of plans are claimed only by the pass, and are not put off.
PlanRows == \A p \in Plans :
    /\ ops[p] \notin {"deferred", "claimed", "unsent"}
    /\ ops[p] = "running" => At("wire") /\ P = p

\* A plan that was once found revoked has ended.
Vetoes == \A p \in vetoed : ops[p] \in Final

\* A row that is absent or pending has seen no computation; what is about to be
\* posted was computed and not posted.
Reported ==
    /\ ops[Report] \in {"absent", "pending"} => remote.computed = 0
    /\ remote.computed <= 1 /\ remote.reports <= remote.computed
    /\ At("wire") /\ P = Report => remote.computed = 1 /\ remote.reports = 0

\* A mention that was sent is reserved by a row that keeps it.
Kept == {"succeeded", "unknown"}
Taken == {u \in Users : slots[u] # Nobody}
Mentions == \A u \in Users :
    /\ remote.mentions[u] <= 1
    /\ remote.mentions[u] > 0 => slots[u] \in CcRows /\ ops[slots[u]] \in Kept
Reserved == Mentions /\ IsFiniteSet(Taken) /\ Cardinality(Taken) <= Limit

\* The inductive invariant.
EventsIInv ==
    /\ Typed /\ Timely /\ Frozen /\ Underway /\ PlanRows /\ Vetoes /\ Reported /\ Reserved

-----------------------------------------------------------------------------
(* The keys. *)

\* The keys by their kinds.
LEMMA Kinds ==
    /\ \A p \in PathPlans :
          p.kind = "path" /\ p.action \in {"opened", "synchronize"} /\ p.head \in Heads
    /\ Report.kind = "opened"
    /\ \A k \in CcRows : k.kind = "cc"
    /\ Nobody.kind = "none"
    /\ \A p \in Plans : p.head \in Heads
  <1>1. \A a, b, c : K(a, b, c).kind = a /\ K(a, b, c).action = b /\ K(a, b, c).head = c
    BY DEF K
  <1>2. \A p \in PathPlans :
            p.kind = "path" /\ p.action \in {"opened", "synchronize"} /\ p.head \in Heads
    BY <1>1 DEF PathPlans
  <1>3. Report.kind = "opened" /\ Report.head = 1 /\ Nobody.kind = "none"
    BY <1>1 DEF Report, Nobody
  <1>4. \A k \in CcRows : k.kind = "cc"
    BY <1>1 DEF CcRows, CcOf
  <1>5. 1 \in Heads
    BY EventsAssumption DEF Heads
  <1> QED
    BY <1>2, <1>3, <1>4, <1>5 DEF Plans

\* The key of a write is of a kind of its own.
LEMMA ChildKind ==
    ASSUME NEW p \in Plans
    PROVE  ChildOf(p).kind \in {"report", "labels"}
  <1>1. \A a, b, c, d : [K(a, b, c) EXCEPT !.kind = d] = K(d, b, c)
    BY DEF K
  <1>2. \E a, b, c : p = K(a, b, c)
    BY Zenon DEF Plans, PathPlans, Report
  <1>3. \A a, b, c : K(a, b, c).kind = a
    BY DEF K
  <1>4. \E b, c : ChildOf(p) = K("report", b, c) \/ ChildOf(p) = K("labels", b, c)
    BY <1>1, <1>2 DEF ChildOf
  <1> QED
    BY <1>3, <1>4

\* Plans, their writes and the comments have different rows.
LEMMA KeyFacts ==
    /\ Report \in Plans /\ Report \notin PathPlans
    /\ PathPlans \subseteq Plans /\ Plans \subseteq Keys /\ CcRows \subseteq Keys
    /\ Plans = PathPlans \cup {Report}
    /\ \A p \in Plans : ChildOf(p) \in Keys \ (Plans \cup CcRows)
    /\ \A k \in CcRows : k \notin Plans
    /\ Nobody \notin CcRows
  <1>1. /\ Report \in Plans /\ PathPlans \subseteq Plans
        /\ Plans \subseteq Keys /\ CcRows \subseteq Keys
        /\ Plans = PathPlans \cup {Report}
    BY DEF Plans, Keys
  <1>2. Report \notin PathPlans
    BY Kinds
  <1>3. \A p \in Plans : ChildOf(p) \in Keys
    BY DEF Keys
  <1>4. \A p \in Plans : p.kind \in {"opened", "path"}
    BY <1>1, Kinds
  <1>5. \A p \in Plans : ChildOf(p) \notin Plans \cup CcRows
    BY <1>4, ChildKind, Kinds
  <1>6. \A k \in CcRows : k \notin Plans
    BY <1>4, Kinds
  <1> QED
    BY <1>1, <1>2, <1>3, <1>5, <1>6, Kinds

\* Every plan has a row for its comment.
LEMMA CommentRow ==
    ASSUME NEW p \in Plans
    PROVE  CcOf(p) \in CcRows
  <1>1. CASE p \in PathPlans
    BY <1>1 DEF CcRows
  <1>2. CASE p = Report
    <2>1. CcOf(p) = K("cc", "any", 1)
      BY <1>2 DEF CcOf, Report, K
    <2>2. K("path", "opened", 1) \in PathPlans
      BY EventsAssumption DEF PathPlans, Heads
    <2>3. CcOf(K("path", "opened", 1)) = K("cc", "any", 1)
      BY DEF CcOf, K
    <2> QED
      BY <2>1, <2>2, <2>3 DEF CcRows
  <1> QED
    BY <1>1, <1>2, KeyFacts

\* The action of the webhook of a head.
ActionOf(h) == IF h = 1 THEN "opened" ELSE "synchronize"
\* The webhooks.
LEMMA EventFacts ==
    /\ \A e \in Events : e.head \in Heads /\ e.action = ActionOf(e.head)
    /\ \A h \in Heads : [action |-> ActionOf(h), head |-> h] \in Events
    /\ \A p \in Plans : p \notin Events
    /\ \E e \in Events : e.head = 1
  <1>1. \A h \in Heads : [action |-> ActionOf(h), head |-> h] \in Events
    BY DEF Events, ActionOf
  <1>2. \A a, h : [action |-> a, head |-> h].action = a /\ [action |-> a, head |-> h].head = h
    OBVIOUS
  <1>3. ASSUME NEW e \in Events
        PROVE  e.head \in Heads /\ e.action = ActionOf(e.head)
    <2>1. PICK h \in Heads : e = [action |-> ActionOf(h), head |-> h]
      BY DEF Events, ActionOf
    <2> QED
      BY <2>1
  <1>4. ASSUME NEW p \in Plans, p \in Events
        PROVE  FALSE
    <2>1. \E a, b, c : p = K(a, b, c)
      BY Zenon DEF Plans, PathPlans, Report
    <2>2. \A a, b, c : DOMAIN K(a, b, c) = {"kind", "action", "head"}
      BY DEF K
    <2>3. \E h \in Heads : p = [action |-> ActionOf(h), head |-> h]
      BY <1>4 DEF Events, ActionOf
    <2>4. \A a, h : DOMAIN [action |-> a, head |-> h] = {"action", "head"}
      OBVIOUS
    <2>5. "kind" \in DOMAIN p
      BY <2>1, <2>2
    <2>6. "kind" \notin DOMAIN p
      BY <2>3, <2>4
    <2> QED
      BY <2>5, <2>6
  <1>5. 1 \in Heads
    BY EventsAssumption DEF Heads
  <1>6. \E e \in Events : e.head = 1
    BY <1>1, <1>2, <1>5
  <1> QED
    BY <1>1, <1>3, <1>4, <1>6

\* The pass at rest is well formed.
LEMMA FreeFacts ==
    /\ Free \in Passes /\ Free.pc = "idle" /\ Free.todo = {} /\ Free.event.head = 1
    /\ Free.plan = Report
  <1> DEFINE e == CHOOSE e \in Events : e.head = 1
  <1>1. e \in Events /\ e.head = 1
    BY EventFacts
  <1>2. Free = [pc |-> "idle", event |-> e, snap |-> 1, todo |-> {}, loop |-> "new",
                needs |-> FALSE, plan |-> Report, fits |-> FALSE,
                revoked |-> FALSE, error |-> FALSE]
    BY DEF Free
  <1> HIDE DEF e
  <1>3. 1 \in Heads /\ Report \in Plans
    BY EventsAssumption, KeyFacts DEF Heads
  <1> QED
    BY <1>1, <1>2, <1>3 DEF Passes, Places

-----------------------------------------------------------------------------
(* The parts of the state. *)

\* What the invariant says of the types.
LEMMA Types ==
    ASSUME EventsIInv
    PROVE  /\ head \in Heads /\ policy \in Policies
           /\ inbox \in [Events -> {"absent", "waiting", "done"}]
           /\ subs \in [Events -> Answers] /\ plans \in [Plans -> Answers]
           /\ ops \in [Keys -> States] /\ slots \in [Users -> CcRows \cup {Nobody}]
           /\ remote \in Remotes /\ pass \in Passes
           /\ first \in [Plans \cup Events -> Answers] /\ vetoed \subseteq Plans
           /\ moves \in 0..MaxMoves /\ faults \in 0..MaxFaults
    BY DEF EventsIInv, Typed

\* The fields of a pass.
LEMMA PassFields ==
    ASSUME NEW w \in Passes
    PROVE  /\ w.pc \in Places /\ w.event \in Events /\ w.snap \in Heads
           /\ w.todo \in SUBSET PathPlans /\ w.loop \in {"revoked", "saved", "new"}
           /\ w.needs \in BOOLEAN /\ w.plan \in Plans
           /\ w.fits \in BOOLEAN /\ w.revoked \in BOOLEAN /\ w.error \in BOOLEAN
    BY DEF Passes

\* The typing of the state is that of EventsTypeOK.
LEMMA TypedIsTypeOK ==
    ASSUME Typed
    PROVE  EventsTypeOK
  <1>1. /\ head \in Heads /\ policy \in Policies
        /\ inbox \in [Events -> {"absent", "waiting", "done"}]
        /\ subs \in [Events -> Answers] /\ plans \in [Plans -> Answers]
        /\ ops \in [Keys -> States] /\ slots \in [Users -> CcRows \cup {Nobody}]
        /\ remote \in Remotes /\ pass \in Passes
        /\ first \in [Plans \cup Events -> Answers] /\ vetoed \subseteq Plans
        /\ moves \in 0..MaxMoves /\ faults \in 0..MaxFaults
    BY DEF Typed
  <1>2. /\ remote.labelled \in BOOLEAN /\ remote.computed \in Nat /\ remote.reports \in Nat
        /\ remote.comments \subseteq CcRows /\ remote.mentions \in [Users -> Nat]
    BY <1>1 DEF Remotes
  <1>3. {pass.needs, pass.fits, pass.revoked, pass.error} \subseteq BOOLEAN
    BY <1>1, PassFields
  <1>4. /\ pass.pc \in Places /\ pass.event \in Events /\ pass.snap \in Heads
        /\ pass.todo \subseteq PathPlans /\ pass.loop \in {"revoked", "saved", "new"}
        /\ pass.plan \in Plans
    BY <1>1, PassFields
  <1> QED
    BY <1>1, <1>2, <1>3, <1>4 DEF EventsTypeOK, Answers

\* The passes a step makes of another one.
LEMMA GoPass ==
    ASSUME NEW w \in Passes, NEW pc \in Places, NEW er \in BOOLEAN
    PROVE  LET v == [w EXCEPT !.pc = pc, !.error = er] IN
           /\ v \in Passes /\ v.pc = pc /\ v.event = w.event /\ v.plan = w.plan /\ v.todo = w.todo
    BY DEF Passes

\* A pass that goes to another place.
LEMMA GoOnPass ==
    ASSUME NEW w \in Passes, NEW pc \in Places
    PROVE  LET v == [w EXCEPT !.pc = pc] IN
           /\ v \in Passes /\ v.pc = pc /\ v.event = w.event /\ v.plan = w.plan /\ v.todo = w.todo
    BY DEF Passes

-----------------------------------------------------------------------------
(* Steps that write no row. *)

\* The invariant, with its parts for plans and comments that a step leaves alone.
Quiet == UNCHANGED <<ops, slots, remote, vetoed>>

\* A step that writes no row keeps the rows' part unless it enters their places.
LEMMA QuietStep ==
    ASSUME EventsIInv, Quiet, Typed', Timely', Frozen', ~At("wire"),
           pass'.todo \subseteq Saved',
           pass'.pc \notin {"compute", "fence", "wire"} \cup (OfComment \ {"cc"}),
           pass'.pc \in OfPlan \cup OfComment => plans'[pass'.plan] \in Rules
    PROVE  EventsIInv'
  <1>1. Underway'
    BY DEF Underway, At, P, OfComment
  <1>2. PlanRows'
    BY DEF EventsIInv, PlanRows, Quiet
  <1>3. Vetoes'
    BY DEF EventsIInv, Vetoes, Quiet
  <1>4. Reported'
    BY DEF EventsIInv, Reported, Quiet, At
  <1>5. Reserved'
    BY DEF EventsIInv, Reserved, Mentions, Taken, Quiet
  <1> QED
    BY <1>1, <1>2, <1>3, <1>4, <1>5 DEF EventsIInv

\* Plans, subscriptions and observers stay.
LEMMA FrozenKept ==
    ASSUME EventsIInv, UNCHANGED <<plans, subs, first>>
    PROVE  Frozen' /\ Saved' = Saved
    BY DEF EventsIInv, Frozen, Saved

\* No webhook came, and the head stayed.
LEMMA TimelyKept ==
    ASSUME EventsIInv, UNCHANGED <<head, inbox>>, pass'.event = pass.event
    PROVE  Timely'
    BY DEF EventsIInv, Timely

\* Faults and moves stay within their bounds.
LEMMA Budget ==
    ASSUME EventsIInv, Well \/ Fails
    PROVE  /\ moves' \in 0..MaxMoves /\ faults' \in 0..MaxFaults
           /\ head' = head /\ policy' = policy
  <1>1. moves \in 0..MaxMoves /\ faults \in 0..MaxFaults
    BY Types
  <1> QED
    BY <1>1, EventsAssumption DEF Well, Fails, World

\* A move of a person is counted.
LEMMA MoveBudget ==
    ASSUME EventsIInv, Move
    PROVE  moves' \in 0..MaxMoves
  <1>1. moves \in 0..MaxMoves
    BY Types
  <1> QED
    BY <1>1, EventsAssumption DEF Move

\* Steps of people.
LEMMA PushStep ==
    ASSUME EventsIInv, Push
    PROVE  EventsIInv'
  <1> DEFINE e == [action |-> "synchronize", head |-> head + 1]
  <1>1. head \in Heads /\ head < MaxHeads /\ head' = head + 1 /\ MaxHeads \in Nat
    BY Types, EventsAssumption DEF Push
  <1>2. head' \in Heads /\ head' # 1
    BY <1>1 DEF Heads
  <1>3. e \in Events
    BY <1>1, <1>2, EventFacts DEF ActionOf
  <1>4. e.head = head + 1
    OBVIOUS
  <1> HIDE DEF e
  <1>5. inbox' = inbox \/ inbox' = [inbox EXCEPT ![e] = "waiting"]
    BY DEF Push, e
  <1>6. inbox' \in [Events -> {"absent", "waiting", "done"}]
    BY <1>3, <1>5, Types
  <1>7. faults' \in 0..MaxFaults
    BY Types, EventsAssumption DEF Push
  <1>8. UNCHANGED <<policy, subs, plans, ops, slots, remote, pass, first, vetoed>>
    BY DEF Push, ledger
  <1>9. Typed'
    BY <1>2, <1>6, <1>7, <1>8, Types, MoveBudget DEF Typed, Push
  <1>10. Timely'
    <2>1. \A d \in Events : d.head \in Nat /\ head \in Nat
      BY <1>1, EventFacts DEF Heads
    <2>2. \A d \in Events : inbox'[d] # "absent" => d.head <= head'
      BY <1>1, <1>3, <1>4, <1>5, <2>1, Types DEF EventsIInv, Timely
    <2>3. pass.event \in Events
      BY Types, PassFields
    <2>4. pass'.event.head <= head'
      BY <1>1, <1>8, <2>1, <2>3 DEF EventsIInv, Timely
    <2> QED
      BY <2>2, <2>4 DEF Timely
  <1>11. Frozen' /\ Saved' = Saved
    BY <1>8, FrozenKept
  <1> QED
    BY <1>8, <1>9, <1>10, <1>11
    DEF EventsIInv, Underway, PlanRows, Vetoes, Reported, Reserved, Mentions, Taken, At, P, C

\* Somebody edits the rule.
LEMMA EditStep ==
    ASSUME EventsIInv, Edit
    PROVE  EventsIInv'
  <1>1. /\ policy' \in Policies
        /\ UNCHANGED <<head, inbox, subs, plans, ops, slots, remote, pass, first, vetoed, faults>>
    BY DEF Edit, ledger
  <1>2. Typed'
    BY <1>1, Types, MoveBudget DEF Typed, Edit
  <1>3. Timely' /\ Frozen' /\ Saved' = Saved
    BY <1>1, FrozenKept, TimelyKept
  <1> QED
    BY <1>1, <1>2, <1>3
    DEF EventsIInv, Underway, PlanRows, Vetoes, Reported, Reserved, Mentions, Taken, At, P, C

\* A label comes or goes.
LEMMA UnlabelRemote ==
    ASSUME NEW r \in Remotes, NEW b \in BOOLEAN
    PROVE  LET v == [r EXCEPT !.labelled = b] IN
           /\ v \in Remotes /\ v.computed = r.computed /\ v.reports = r.reports
           /\ v.mentions = r.mentions /\ v.comments = r.comments
    BY DEF Remotes

\* Somebody removes the labels.
LEMMA UnlabelStep ==
    ASSUME EventsIInv, Unlabel
    PROVE  EventsIInv'
  <1>1. UNCHANGED <<head, policy, inbox, subs, plans, ops, slots, pass, first, vetoed, faults>>
    BY DEF Unlabel, ledger
  <1>2. /\ remote' \in Remotes /\ remote'.computed = remote.computed
        /\ remote'.reports = remote.reports /\ remote'.mentions = remote.mentions
    <2>1. remote' = [remote EXCEPT !.labelled = FALSE]
      BY DEF Unlabel
    <2> QED
      BY <2>1, Types, UnlabelRemote
  <1>3. Typed'
    BY <1>1, <1>2, Types, MoveBudget DEF Typed, Unlabel
  <1>4. Timely' /\ Frozen' /\ Saved' = Saved
    BY <1>1, FrozenKept, TimelyKept
  <1> QED
    BY <1>1, <1>2, <1>3, <1>4
    DEF EventsIInv, Underway, PlanRows, Vetoes, Reported, Reserved, Mentions, Taken, At, P, C

\* A plain change of place.
LEMMA QuietGo ==
    ASSUME EventsIInv, Quiet, Well \/ Fails, ~At("wire"), UNCHANGED <<inbox, subs, plans, first>>,
           pass' \in Passes, pass'.event = pass.event,
           pass'.todo \subseteq Saved,
           pass'.pc \in {"subscribe", "revoke", "snapshot", "each", "plan", "settle", "close"},
           pass'.pc = "settle" => pass'.plan \in Saved
    PROVE  EventsIInv'
  <1>1. Typed'
    BY Types, Budget DEF Typed, Quiet
  <1>2. Timely' /\ Frozen' /\ Saved' = Saved
    BY Budget, FrozenKept, TimelyKept
  <1>3. pass'.pc \in OfPlan \cup OfComment => plans'[pass'.plan] \in Rules
    BY DEF OfPlan, OfComment, Saved
  <1>4. pass'.pc \notin {"compute", "fence", "wire"} \cup (OfComment \ {"cc"})
    BY DEF OfComment
  <1> QED
    BY <1>1, <1>2, <1>3, <1>4, QuietStep

\* The pass goes on, perhaps with an error.
LEMMA AtGo ==
    ASSUME EventsIInv, NEW pc \in Places, Go(pc) \/ Err(pc)
    PROVE  /\ pass' \in Passes /\ pass'.pc = pc /\ pass'.event = pass.event
           /\ pass'.plan = P /\ pass'.todo = pass.todo /\ pass.todo \subseteq Saved
  <1>1. pass \in Passes /\ TRUE \in BOOLEAN
    BY Types
  <1>2. pass.todo \subseteq Saved
    BY DEF EventsIInv, Underway
  <1>3. CASE Go(pc)
    BY <1>1, <1>2, <1>3, GoOnPass DEF Go, P
  <1>4. CASE Err(pc)
    BY <1>1, <1>2, <1>4, GoPass DEF Err, P
  <1> QED
    BY <1>3, <1>4

\* A webhook is taken up.
LEMMA BeginStep ==
    ASSUME EventsIInv, NEW e \in Events, Begin(e)
    PROVE  EventsIInv'
  <1>1. /\ At("idle") /\ inbox[e] = "waiting" /\ Well /\ Quiet
        /\ UNCHANGED <<inbox, subs, plans, first>>
    BY DEF Begin, ledger, Quiet
  <1> DEFINE pc == IF e.action = "opened" THEN "opened" ELSE "subscribe"
  <1>2. pc \in Places
    BY DEF Places
  <1>3. pass' = [Free EXCEPT !.pc = pc, !.event = e]
    BY DEF Begin
  <1>4. pass' \in Passes /\ pass'.pc = pc /\ pass'.event = e /\ pass'.todo = {}
    <2> HIDE DEF pc
    <2> QED
      BY <1>2, <1>3, FreeFacts DEF Passes
  <1>5. Typed'
    BY <1>1, <1>4, Types, Budget DEF Typed, Quiet
  <1>6. Frozen' /\ Saved' = Saved
    BY <1>1, FrozenKept
  <1>7. Timely'
    BY <1>1, <1>4, Budget DEF EventsIInv, Timely
  <1>8. /\ pass'.pc \notin OfPlan \cup OfComment
        /\ pass'.pc \notin {"compute", "fence", "wire"} \cup (OfComment \ {"cc"})
    BY <1>4 DEF OfPlan, OfComment
  <1> QED
    BY <1>1, <1>4, <1>5, <1>6, <1>7, <1>8, QuietStep DEF At

\* A plan is handed to the writer.
LEMMA Executed ==
    ASSUME EventsIInv, NEW p \in Plans, NEW a, Execute(p, a = policy, "new")
    PROVE  /\ pass' \in Passes /\ pass'.pc = "settle" /\ pass'.event = pass.event
           /\ pass'.plan = p /\ pass'.todo = pass.todo /\ pass.todo \subseteq Saved
  <1> DEFINE f == a = policy
  <1>1. f \in BOOLEAN
    OBVIOUS
  <1>2. pass' = [pass EXCEPT !.pc = "settle", !.plan = p, !.fits = f, !.loop = "new"]
    BY DEF Execute
  <1>3. pass \in Passes
    BY Types
  <1>4. pass.todo \subseteq Saved
    BY DEF EventsIInv, Underway
  <1> HIDE DEF f
  <1> QED
    BY <1>1, <1>2, <1>3, <1>4 DEF Passes, Places

\* The rule for new pull requests is frozen at the first look.
LEMMA OpenedStep ==
    ASSUME EventsIInv, OpenedPlan
    PROVE  EventsIInv'
  <1>1. At("opened") /\ UNCHANGED <<subs, inbox>> /\ Quiet /\ ~At("wire")
    BY DEF OpenedPlan, Quiet, At
  <1>2. CASE Fails /\ Err("subscribe") /\ UNCHANGED <<plans, first>>
    <2>1. /\ pass' \in Passes /\ pass'.pc = "subscribe" /\ pass'.event = pass.event
          /\ pass'.todo \subseteq Saved
      BY <1>2, AtGo DEF Places
    <2> QED
      BY <1>1, <1>2, <2>1, QuietGo
  <1> DEFINE rule == IF plans[Report] = Unset THEN policy ELSE plans[Report]
             seen == IF first[Report] = Unset THEN policy ELSE first[Report]
  <1>3. CASE /\ Well /\ plans' = [plans EXCEPT ![Report] = rule]
             /\ first' = [first EXCEPT ![Report] = seen]
             /\ IF rule = Off THEN Go("subscribe") ELSE Execute(Report, rule = policy, "new")
    <2>1. /\ plans \in [Plans -> Answers] /\ first \in [Plans \cup Events -> Answers]
          /\ policy \in Policies /\ Report \in Plans
      BY Types, KeyFacts
    <2>2. rule \in Policies /\ seen = rule /\ rule # Unset
      BY <2>1, EventsAssumption DEF EventsIInv, Frozen, Answers, Policies, Off, Unset
    <2> HIDE DEF rule, seen
    <2>3. plans' \in [Plans -> Answers] /\ first' \in [Plans \cup Events -> Answers]
      BY <1>3, <2>1, <2>2 DEF Answers
    <2>4. /\ plans'[Report] = rule /\ first'[Report] = rule
          /\ \A p \in PathPlans : plans'[p] = plans[p]
          /\ \A e \in Events : first'[e] = first[e]
      BY <1>3, <2>1, <2>2, KeyFacts, EventFacts
    <2>5. Saved' = Saved
      BY <2>4 DEF Saved
    <2>6. Frozen'
      <3>1. \A p \in Saved : plans'[p] = plans[p]
        BY <2>4 DEF Saved
      <3>2. subs' = subs
        BY <1>1
      <3> QED
        BY <2>4, <2>5, <3>1, <3>2 DEF EventsIInv, Frozen
    <2>7. /\ pass' \in Passes /\ pass'.event = pass.event /\ pass'.todo \subseteq Saved
          /\ \/ pass'.pc = "subscribe"
             \/ pass'.pc = "settle" /\ pass'.plan = Report /\ rule # Off
      <3>1. CASE rule = Off
        BY <1>3, <3>1, AtGo DEF Places
      <3>2. CASE rule # Off
        <4>1. Execute(Report, rule = policy, "new")
          BY <1>3, <3>2
        <4> QED
          BY <2>1, <3>2, <4>1, Executed
      <3> QED
        BY <3>1, <3>2
    <2>8. Typed'
      BY <1>1, <1>3, <2>3, <2>7, Types, Budget DEF Typed, Quiet
    <2>9. Timely'
      BY <1>1, <1>3, <2>7, Budget, TimelyKept
    <2>10. pass'.pc \in OfPlan \cup OfComment => plans'[pass'.plan] \in Rules
      BY <2>2, <2>4, <2>7 DEF OfPlan, OfComment, Policies
    <2>11. pass'.pc \notin {"compute", "fence", "wire"} \cup (OfComment \ {"cc"})
      BY <2>7 DEF OfComment
    <2> QED
      BY <1>1, <2>5, <2>6, <2>7, <2>8, <2>9, <2>10, <2>11, QuietStep
  <1> QED
    BY <1>2, <1>3 DEF OpenedPlan

\* The rule of a webhook is frozen at the first look; later looks take away.
LEMMA SubscribeStep ==
    ASSUME EventsIInv, Subscribe
    PROVE  EventsIInv'
  <1>1. At("subscribe") /\ UNCHANGED <<plans, inbox>> /\ Quiet /\ ~At("wire")
    BY DEF Subscribe, Quiet, At
  <1>2. CASE Fails /\ Err("close") /\ UNCHANGED <<subs, first>>
    <2>1. /\ pass' \in Passes /\ pass'.pc = "close" /\ pass'.event = pass.event
          /\ pass'.todo \subseteq Saved
      BY <1>2, AtGo DEF Places
    <2> QED
      BY <1>1, <1>2, <2>1, QuietGo
  <1> DEFINE e == pass.event
             s == Subscription(e)
             gone == {p \in Saved : plans[p] # policy}
             seen == IF first[e] = Unset THEN policy ELSE first[e]
             n == s # Off \/ \E p \in Saved \ gone : p.action = e.action
  <1>3. CASE /\ Well /\ subs' = [subs EXCEPT ![e] = s]
             /\ first' = [first EXCEPT ![e] = seen]
             /\ pass' = [pass EXCEPT !.pc = "revoke", !.todo = gone, !.needs = n]
    <2>1. /\ subs \in [Events -> Answers] /\ first \in [Plans \cup Events -> Answers]
          /\ policy \in Policies /\ e \in Events /\ pass \in Passes
      BY Types, PassFields
    <2>2. n \in BOOLEAN
      OBVIOUS
    <2>3. gone \in SUBSET PathPlans /\ gone \subseteq Saved /\ "revoke" \in Places
      BY DEF Saved, Places
    <2>4. s \in Policies /\ s # Unset /\ (s \in Rules => s = policy /\ subs[e] \in {Unset, policy})
      BY <2>1, EventsAssumption DEF Subscription, Policies, Off, Unset
    <2>5. seen \in Policies /\ (first[e] # Unset => seen = first[e])
      BY <2>1 DEF Answers
    <2>6. s \in Rules => seen = s
      <3>1. CASE subs[e] = Unset
        BY <2>1, <2>4, <3>1 DEF EventsIInv, Frozen
      <3>2. CASE subs[e] = policy
        BY <2>1, <2>4, <3>2, EventsAssumption DEF EventsIInv, Frozen
      <3> QED
        BY <2>4, <3>1, <3>2
    <2> HIDE DEF s, seen, n, gone, e
    <2>7. /\ pass' \in Passes /\ pass'.pc = "revoke"
          /\ pass'.event = pass.event /\ pass'.todo = gone
      BY <1>3, <2>1, <2>2, <2>3 DEF Passes
    <2>8. subs' \in [Events -> Answers] /\ first' \in [Plans \cup Events -> Answers]
      BY <1>3, <2>1, <2>4, <2>5 DEF Answers
    <2>9. Saved' = Saved
      BY <1>1 DEF Saved
    <2>10. Frozen'
      <3>1. /\ \A d \in Events \ {e} : subs'[d] = subs[d] /\ first'[d] = first[d]
            /\ subs'[e] = s /\ first'[e] = seen /\ first'[Report] = first[Report]
        BY <1>3, <2>1, EventFacts, KeyFacts
      <3>2. \A d \in Events : first[d] # Unset => first'[d] = first[d]
        BY <2>1, <2>5, <3>1
      <3>3. plans'[Report] = first'[Report]
        BY <1>1, <3>1 DEF EventsIInv, Frozen
      <3>4. \A d \in Events : subs'[d] \in Rules => first'[d] = subs'[d]
        BY <2>6, <3>1 DEF EventsIInv, Frozen
      <3>5. \A d \in Events : subs'[d] = Unset => first'[d] = Unset
        BY <2>4, <3>1 DEF EventsIInv, Frozen
      <3>6. ASSUME NEW p \in Saved
            PROVE  \E d \in Events : d.action = p.action /\ plans'[p] = first'[d]
        <4>1. PICK d \in Events : d.action = p.action /\ plans[p] = first[d]
          BY DEF EventsIInv, Frozen
        <4>2. first[d] # Unset
          BY <4>1, EventsAssumption DEF Saved
        <4> QED
          BY <1>1, <3>2, <4>1, <4>2
      <3> QED
        BY <2>9, <3>3, <3>4, <3>5, <3>6 DEF Frozen
    <2>11. Typed'
      BY <1>1, <1>3, <2>7, <2>8, Types, Budget DEF Typed, Quiet
    <2>12. Timely'
      BY <1>1, <1>3, <2>7, Budget, TimelyKept
    <2>13. /\ pass'.pc \notin OfPlan \cup OfComment
           /\ pass'.pc \notin {"compute", "fence", "wire"} \cup (OfComment \ {"cc"})
      BY <2>7 DEF OfPlan, OfComment
    <2> QED
      BY <1>1, <2>3, <2>7, <2>9, <2>10, <2>11, <2>12, <2>13, QuietStep
  <1> QED
    BY <1>2, <1>3 DEF Subscribe

\* The next saved plan whose rule is gone.
LEMMA RevokedNextStep ==
    ASSUME EventsIInv, NextRevoked
    PROVE  EventsIInv'
  <1>1. At("revoke") /\ UNCHANGED <<inbox, subs, plans, first>> /\ Quiet /\ ~At("wire") /\ Well
    BY DEF NextRevoked, Quiet, At, ledger
  <1>2. CASE pass.todo = {} /\ Go(IF pass.needs THEN "snapshot" ELSE "close")
    <2>1. PICK pc \in {"snapshot", "close"} : Go(pc)
      BY <1>2
    <2>2. /\ pass' \in Passes /\ pass'.pc = pc /\ pass'.event = pass.event
          /\ pass'.todo \subseteq Saved
      BY <2>1, AtGo DEF Places
    <2> QED
      BY <1>1, <2>2, QuietGo
  <1>3. ASSUME NEW p \in pass.todo, pass' = [pass EXCEPT !.todo = @ \ {p}, !.pc = "settle",
                    !.plan = p, !.fits = FALSE, !.loop = "revoked"]
        PROVE  EventsIInv'
    <2>1. pass \in Passes /\ pass.todo \in SUBSET PathPlans /\ pass.todo \subseteq Saved
      BY Types, PassFields DEF EventsIInv, Underway
    <2>2. p \in Plans /\ p \in Saved /\ pass.todo \ {p} \in SUBSET PathPlans
      BY <2>1, KeyFacts
    <2>3. /\ pass' \in Passes /\ pass'.pc = "settle" /\ pass'.event = pass.event
          /\ pass'.plan = p /\ pass'.todo = pass.todo \ {p}
      <3>1. pass' = [pass EXCEPT !.todo = pass.todo \ {p}, !.pc = "settle",
                    !.plan = p, !.fits = FALSE, !.loop = "revoked"]
        BY <1>3
      <3> QED
        BY <2>1, <2>2, <3>1 DEF Passes, Places
    <2> QED
      BY <1>1, <2>1, <2>2, <2>3, QuietGo
  <1> QED
    BY <1>2, <1>3 DEF NextRevoked

\* The pull request is read.
LEMMA SnapshotStep ==
    ASSUME EventsIInv, Snapshot
    PROVE  EventsIInv'
  <1>1. At("snapshot") /\ UNCHANGED <<inbox, subs, plans, first>> /\ Quiet /\ ~At("wire")
    BY DEF Snapshot, Quiet, At, ledger
  <1>2. CASE Fails /\ Err("close")
    <2>1. /\ pass' \in Passes /\ pass'.pc = "close" /\ pass'.event = pass.event
          /\ pass'.todo \subseteq Saved
      BY <1>2, AtGo DEF Places
    <2> QED
      BY <1>1, <1>2, <2>1, QuietGo
  <1>3. CASE Well /\ pass' = [pass EXCEPT !.pc = "each", !.snap = head, !.todo = Saved]
    <2>1. pass \in Passes /\ head \in Heads /\ Saved \in SUBSET PathPlans /\ "each" \in Places
      BY Types DEF Saved, Places
    <2>2. pass' \in Passes /\ pass'.pc = "each" /\ pass'.event = pass.event /\ pass'.todo = Saved
      BY <1>3, <2>1 DEF Passes
    <2> QED
      BY <1>1, <1>3, <2>2, QuietGo
  <1> QED
    BY <1>2, <1>3 DEF Snapshot

\* The next saved plan.
LEMMA SavedNextStep ==
    ASSUME EventsIInv, NextSaved
    PROVE  EventsIInv'
  <1>1. At("each") /\ UNCHANGED <<inbox, subs, plans, first>> /\ Quiet /\ ~At("wire")
    BY DEF NextSaved, Quiet, At, ledger
  <1>2. CASE (Fails /\ Err("close")) \/ (Well /\ Go("plan"))
    <2>1. /\ pass' \in Passes /\ pass'.pc \in {"close", "plan"} /\ pass'.event = pass.event
          /\ pass'.todo \subseteq Saved
      BY <1>2, AtGo DEF Places
    <2> QED
      BY <1>1, <1>2, <2>1, QuietGo
  <1>3. CASE Well /\ \E p \in pass.todo :
             LET fits == plans[p] = policy /\ p.head = pass.snap IN
             pass' = [pass EXCEPT !.todo = @ \ {p}, !.plan = p, !.fits = fits, !.loop = "saved",
                          !.pc = IF fits /\ p.action # pass.event.action THEN "each" ELSE "settle"]
    <2>1. PICK p \in pass.todo :
             LET fits == plans[p] = policy /\ p.head = pass.snap IN
             pass' = [pass EXCEPT !.todo = @ \ {p}, !.plan = p, !.fits = fits, !.loop = "saved",
                          !.pc = IF fits /\ p.action # pass.event.action THEN "each" ELSE "settle"]
      BY <1>3
    <2> DEFINE f == plans[p] = policy /\ p.head = pass.snap
               pc == IF f /\ p.action # pass.event.action THEN "each" ELSE "settle"
    <2>2. f \in BOOLEAN
      OBVIOUS
    <2>3. pc \in {"each", "settle"} /\ pc \in Places
      BY DEF Places
    <2>4. pass \in Passes /\ pass.todo \in SUBSET PathPlans /\ pass.todo \subseteq Saved
      BY Types, PassFields DEF EventsIInv, Underway
    <2>5. p \in Plans /\ p \in Saved /\ pass.todo \ {p} \in SUBSET PathPlans
      BY <2>4, KeyFacts
    <2>6. pass' = [pass EXCEPT !.todo = pass.todo \ {p}, !.plan = p, !.fits = f, !.loop = "saved",
                               !.pc = pc]
      BY <2>1
    <2> HIDE DEF f, pc
    <2>7. /\ pass' \in Passes /\ pass'.pc = pc /\ pass'.event = pass.event
          /\ pass'.plan = p /\ pass'.todo = pass.todo \ {p}
      BY <2>2, <2>3, <2>4, <2>5, <2>6 DEF Passes
    <2> QED
      BY <1>1, <1>3, <2>3, <2>4, <2>5, <2>7, QuietGo
  <1> QED
    BY <1>2, <1>3 DEF NextSaved

\* The webhook is done, or comes again after an error.
LEMMA DoneStep ==
    ASSUME EventsIInv, Done
    PROVE  EventsIInv'
  <1>1. /\ At("close") /\ UNCHANGED <<subs, plans, first>> /\ Quiet /\ ~At("wire") /\ Well
        /\ pass' = Free
        /\ inbox' = inbox \/ inbox' = [inbox EXCEPT ![pass.event] = "done"]
    BY DEF Done, Quiet, At, ledger
  <1>2. pass.event \in Events /\ inbox \in [Events -> {"absent", "waiting", "done"}]
    BY Types, PassFields
  <1>3. inbox' \in [Events -> {"absent", "waiting", "done"}]
    BY <1>1, <1>2
  <1>4. Typed'
    BY <1>1, <1>3, Types, Budget, FreeFacts DEF Typed, Quiet
  <1>5. Frozen' /\ Saved' = Saved
    BY <1>1, FrozenKept
  <1>6. Timely'
    <2>1. head \in Heads /\ (\A h \in Heads : 1 <= h) /\ head' = head
      BY <1>1, Types, Budget, EventsAssumption DEF Heads
    <2>2. \A e \in Events : inbox'[e] # "absent" => e.head <= head
      BY <1>1, <1>2 DEF EventsIInv, Timely
    <2> QED
      BY <1>1, <2>1, <2>2, FreeFacts DEF Timely
  <1>7. /\ pass'.pc \notin OfPlan \cup OfComment
        /\ pass'.pc \notin {"compute", "fence", "wire"} \cup (OfComment \ {"cc"})
    BY <1>1, FreeFacts DEF OfPlan, OfComment
  <1> QED
    BY <1>1, <1>4, <1>5, <1>6, <1>7, FreeFacts, QuietStep

\* A plan is frozen for the newest head.
LEMMA FreezeStep ==
    ASSUME EventsIInv, Freeze
    PROVE  EventsIInv'
  <1>1. At("plan") /\ UNCHANGED <<inbox, subs, first>> /\ Quiet /\ ~At("wire")
    BY DEF Freeze, Quiet, At
  <1>2. CASE (Fails /\ Err("close") /\ UNCHANGED plans) \/ (Well /\ Go("close") /\ UNCHANGED plans)
    <2>1. /\ pass' \in Passes /\ pass'.pc = "close" /\ pass'.event = pass.event
          /\ pass'.todo \subseteq Saved
      BY <1>2, AtGo DEF Places
    <2> QED
      BY <1>1, <1>2, <2>1, QuietGo
  <1> DEFINE e == pass.event
             p == K("path", e.action, head)
  <1>3. ASSUME NEW matched \in {Off, subs[e]}, Well, policy = subs[e], subs[e] # Off,
               LET kept == IF plans[p] = Unset THEN matched ELSE plans[p] IN
               /\ plans' = [plans EXCEPT ![p] = kept]
               /\ IF kept = Off THEN Go("close") ELSE Execute(p, kept = policy, "new")
        PROVE  EventsIInv'
    <2> DEFINE kept == IF plans[p] = Unset THEN matched ELSE plans[p]
    <2>1. /\ head \in Heads /\ e \in Events /\ plans \in [Plans -> Answers] /\ policy \in Policies
      BY Types, PassFields
    <2>2. e.head <= head /\ e.head \in Heads
      BY <2>1, EventFacts DEF EventsIInv, Timely
    <2>3. p \in PathPlans
      <3>1. CASE e.head = 1
        <4>1. e.action = "opened"
          BY <2>1, <3>1, EventFacts DEF ActionOf
        <4> QED
          BY <2>1, <4>1 DEF PathPlans
      <3>2. CASE e.head # 1
        <4>1. e.action = "synchronize"
          BY <2>1, <3>2, EventFacts DEF ActionOf
        <4>2. head # 1
          BY <2>1, <2>2, <3>2, EventsAssumption DEF Heads
        <4> QED
          BY <2>1, <4>1, <4>2 DEF PathPlans
      <3> QED
        BY <3>1, <3>2
    <2>4. p.action = e.action /\ p \in Plans /\ p # Report
      BY <2>3, KeyFacts DEF K
    <2> HIDE DEF p
    <2>5. subs[e] \in Rules /\ first[e] = subs[e]
      BY <1>3, <2>1 DEF Policies, EventsIInv, Frozen
    <2>6. /\ kept \in Policies \cup {Unset} /\ (kept # Off => kept \in Rules)
          /\ plans[p] \in Rules => kept = plans[p]
          /\ kept \in Rules => kept = plans[p] \/ kept = subs[e]
      BY <1>3, <2>1, <2>4, <2>5, EventsAssumption DEF Policies, Answers, Off, Unset
    <2>7. /\ plans' = [plans EXCEPT ![p] = kept]
          /\ IF kept = Off THEN Go("close") ELSE Execute(p, kept = policy, "new")
      BY <1>3
    <2> HIDE DEF kept, e
    <2>8. /\ plans' \in [Plans -> Answers] /\ plans'[p] = kept
          /\ \A q \in Plans \ {p} : plans'[q] = plans[q]
      BY <2>1, <2>4, <2>6, <2>7 DEF Answers
    <2>9. Saved \subseteq Saved' /\ Saved' \subseteq Saved \cup {p}
      BY <2>6, <2>8, KeyFacts DEF Saved
    <2>10. Frozen'
      <3>1. plans'[Report] = first'[Report]
        BY <1>1, <2>4, <2>8, KeyFacts DEF EventsIInv, Frozen
      <3>2. ASSUME NEW q \in Saved'
            PROVE  \E d \in Events : d.action = q.action /\ plans'[q] = first'[d]
        <4>1. CASE q \in Saved
          <5>1. plans'[q] = plans[q]
            BY <2>6, <2>8, <4>1, KeyFacts DEF Saved
          <5> QED
            BY <1>1, <4>1, <5>1 DEF EventsIInv, Frozen
        <4>2. CASE q = p /\ q \notin Saved
          <5>1. kept \in Rules /\ plans[p] \notin Rules
            BY <2>3, <2>8, <4>2 DEF Saved
          <5>2. plans'[q] = first'[e] /\ e \in Events
            BY <1>1, <2>1, <2>5, <2>6, <2>8, <4>2, <5>1
          <5> QED
            BY <2>4, <4>2, <5>2
        <4> QED
          BY <2>9, <4>1, <4>2
      <3> QED
        BY <1>1, <3>1, <3>2 DEF EventsIInv, Frozen
    <2>11. /\ pass' \in Passes /\ pass'.event = pass.event /\ pass'.todo \subseteq Saved
           /\ \/ pass'.pc = "close"
              \/ pass'.pc = "settle" /\ pass'.plan = p /\ kept # Off
      <3>1. CASE kept = Off
        BY <2>7, <3>1, AtGo DEF Places
      <3>2. CASE kept # Off
        <4>1. Execute(p, kept = policy, "new")
          BY <2>7, <3>2
        <4> QED
          BY <2>4, <3>2, <4>1, Executed
      <3> QED
        BY <3>1, <3>2
    <2>12. Typed'
      BY <1>1, <1>3, <2>8, <2>11, Types, Budget DEF Typed, Quiet
    <2>13. Timely'
      BY <1>1, <1>3, <2>11, Budget, TimelyKept
    <2>14. pass'.pc \in OfPlan \cup OfComment => plans'[pass'.plan] \in Rules
      BY <2>6, <2>8, <2>11 DEF OfPlan, OfComment
    <2>15. pass'.pc \notin {"compute", "fence", "wire"} \cup (OfComment \ {"cc"})
      BY <2>11 DEF OfComment
    <2>16. pass'.todo \subseteq Saved'
      BY <2>9, <2>11
    <2> QED
      BY <1>1, <2>10, <2>12, <2>13, <2>14, <2>15, <2>16, QuietStep
  <1> QED
    BY <1>2, <1>3 DEF Freeze

-----------------------------------------------------------------------------
(* The report and the labels of a plan. *)

\* The states of a plan's row.
PlanRow(s) == s \notin {"deferred", "claimed", "unsent"}
\* A step that writes at most the rows of the plan and of its write.
LEMMA PlanStep ==
    ASSUME EventsIInv, Pays, Well \/ Fails, UNCHANGED slots, pass.pc \in OfPlan,
           ops' \in [Keys -> States],
           \A k \in Keys \ {P, ChildOf(P)} : ops'[k] = ops[k],
           remote' \in Remotes, remote'.mentions = remote.mentions, Reported',
           vetoed' \in {vetoed, vetoed \cup {P}}, P \in vetoed' => ops'[P] \in Final,
           PlanRow(ops'[P]), ops'[P] = "running" <=> pass'.pc = "wire",
           pass' \in Passes, pass'.event = pass.event, pass'.todo = pass.todo, pass'.plan = P,
           pass'.pc \in {"subscribe", "cc", "reconcile", "fence", "compute", "wire"},
           pass'.pc = "compute" => P = Report /\ ops'[P] \in {"absent", "pending"},
           pass'.pc = "fence" => P # Report /\ ops'[P] \in {"absent", "pending"}
    PROVE  EventsIInv'
  <1>1. P \in Plans /\ plans[P] \in Rules
    BY Types, PassFields DEF EventsIInv, Underway, P
  <1>2. Typed'
    BY <1>1, Types, Budget DEF Typed, Pays
  <1>3. Timely' /\ Frozen' /\ Saved' = Saved
    BY Budget, FrozenKept, TimelyKept DEF Pays
  <1>4. Underway'
    BY <1>1, <1>3 DEF EventsIInv, Underway, At, P, Pays
  <1>5. \A p \in Plans \ {P} : ops'[p] = ops[p]
    BY <1>1, KeyFacts
  <1>6. PlanRows'
    <2>1. ASSUME NEW p \in Plans
          PROVE  /\ ops'[p] \notin {"deferred", "claimed", "unsent"}
                 /\ ops'[p] = "running" => pass'.pc = "wire" /\ pass'.plan = p
      <3>1. CASE p = P
        BY <3>1 DEF PlanRow
      <3>2. CASE p # P
        BY <1>5, <3>2 DEF EventsIInv, PlanRows
      <3> QED
        BY <3>1, <3>2
    <2> QED
      BY <2>1 DEF PlanRows, At, P
  <1>7. Vetoes'
    <2>1. ASSUME NEW p \in vetoed'
          PROVE  ops'[p] \in Final
      <3>1. CASE p = P
        BY <2>1, <3>1
      <3>2. CASE p # P
        <4>1. p \in vetoed /\ p \in Plans
          BY <2>1, <3>2, Types
        <4> QED
          BY <1>5, <3>2, <4>1 DEF EventsIInv, Vetoes
      <3> QED
        BY <3>1, <3>2
    <2> QED
      BY <2>1 DEF Vetoes
  <1>8. Reserved'
    <2>1. \A k \in CcRows : ops'[k] = ops[k]
      BY <1>1, KeyFacts
    <2>2. Mentions' /\ Taken' = Taken
      BY <2>1 DEF EventsIInv, Reserved, Mentions, Taken
    <2> QED
      BY <2>2 DEF EventsIInv, Reserved
  <1> QED
    BY <1>2, <1>3, <1>4, <1>6, <1>7, <1>8 DEF EventsIInv

\* The pass leaves its plan.
LEMMA EndedPass ==
    ASSUME EventsIInv, NEW b \in BOOLEAN, Ended(b)
    PROVE  /\ pass' \in Passes /\ pass'.event = pass.event /\ pass'.todo = pass.todo
           /\ pass'.plan = P /\ pass'.pc \in {"subscribe", "cc"}
  <1> DEFINE er == pass.error \/ b
             pc == IF P = Report THEN "subscribe" ELSE "cc"
  <1>1. pass \in Passes
    BY Types
  <1>2. er \in BOOLEAN
    OBVIOUS
  <1>3. pc \in {"subscribe", "cc"} /\ pc \in Places
    BY DEF Places
  <1>4. pass' = [pass EXCEPT !.error = er, !.pc = pc]
    BY DEF Ended
  <1> HIDE DEF er, pc
  <1> QED
    BY <1>1, <1>2, <1>3, <1>4 DEF Passes, P

\* The pass starts the work of its plan.
LEMMA StartPass ==
    ASSUME EventsIInv, Start
    PROVE  /\ pass' \in Passes /\ pass'.event = pass.event /\ pass'.todo = pass.todo
           /\ pass'.plan = P /\ pass'.pc = IF P = Report THEN "compute" ELSE "fence"
  <1>1. \E pc \in {"compute", "fence"} : Go(pc) /\ pc = IF P = Report THEN "compute" ELSE "fence"
    BY DEF Start
  <1> QED
    BY <1>1, AtGo DEF Places

\* A row is set.
LEMMA Sets ==
    ASSUME NEW o \in [Keys -> States], NEW k \in Keys, NEW s \in States
    PROVE  /\ Set(o, k, s) \in [Keys -> States] /\ Set(o, k, s)[k] = s
           /\ \A j \in Keys \ {k} : Set(o, k, s)[j] = o[j]
    BY DEF Set

\* The rows of the plan in process.
LEMMA PlanKeys ==
    ASSUME EventsIInv
    PROVE  /\ P \in Plans /\ P \in Keys /\ ChildOf(P) \in Keys /\ ChildOf(P) \notin Plans
           /\ ChildOf(P) # P /\ ops[P] \in States
    BY Types, PassFields, KeyFacts DEF P

\* Revoking ends a plan that is not sent, and only its own rows.
LEMMA Revokes ==
    ASSUME EventsIInv, NEW o \in [Keys -> States]
    PROVE  /\ Revoke(o, P) \in [Keys -> States]
           /\ \A k \in Keys \ {P, ChildOf(P)} : Revoke(o, P)[k] = o[k]
           /\ Revoke(o, P)[P] = IF o[P] \in {"pending", "unknown"} THEN "superseded" ELSE o[P]
  <1> DEFINE own == IF o[P] \in {"pending", "unknown"} THEN Set(o, P, "superseded") ELSE o
  <1>1. "superseded" \in States
    BY DEF States
  <1>2. /\ own \in [Keys -> States]
        /\ \A k \in Keys \ {P} : own[k] = o[k]
        /\ own[P] = IF o[P] \in {"pending", "unknown"} THEN "superseded" ELSE o[P]
    BY <1>1, PlanKeys, Sets
  <1>3. Revoke(o, P) = own \/ Revoke(o, P) = Set(own, ChildOf(P), "superseded")
    BY DEF Revoke
  <1> HIDE DEF own
  <1>4. CASE Revoke(o, P) = own
    BY <1>2, <1>4
  <1>5. CASE Revoke(o, P) = Set(own, ChildOf(P), "superseded")
    <2>1. /\ Set(own, ChildOf(P), "superseded") \in [Keys -> States]
          /\ \A k \in Keys \ {ChildOf(P)} : Set(own, ChildOf(P), "superseded")[k] = own[k]
      BY <1>1, <1>2, PlanKeys, Sets
    <2>2. P \in Keys \ {ChildOf(P)}
      BY PlanKeys
    <2> QED
      BY <1>2, <1>5, <2>1, <2>2
  <1> QED
    BY <1>3, <1>4, <1>5

\* What a judgement of the rows o may do to the plan's row.
LEMMA Judged ==
    ASSUME EventsIInv, NEW o \in [Keys -> States], NEW b \in BOOLEAN, Judge(o, b),
           o[P] \notin {"running", "deferred", "claimed", "unsent"}
    PROVE  /\ ops' \in [Keys -> States]
           /\ \A k \in Keys \ {P} : ops'[k] = o[k]
           /\ pass' \in Passes /\ pass'.event = pass.event /\ pass'.todo = pass.todo
           /\ pass'.plan = P
           /\ ops'[P] \in {o[P], "succeeded", "pending"}
           /\ o[P] \in Final => ops'[P] = o[P]
           /\ P = Report /\ o[P] = "unknown" => ops'[P] # "pending"
           /\ \/ pass'.pc \in {"subscribe", "cc"}
              \/ /\ pass'.pc = IF P = Report THEN "compute" ELSE "fence"
                 /\ ops'[P] = "pending"
           /\ ops'[P] \in {"absent", "pending"} /\ P = Report => o[P] \in {"absent", "pending"}
  <1> DEFINE c == o[ChildOf(P)]
  <1>1. /\ \/ ops' = o /\ \E er \in BOOLEAN : Ended(er)
           \/ o[P] = "unknown" /\ ops' = Set(o, P, "succeeded") /\ Ended(FALSE)
           \/ /\ ops' = Set(o, P, "pending") /\ Start /\ o[P] \notin Final
              /\ ~(P = Report /\ o[P] = "unknown")
    BY DEF Judge
  <1>2. "succeeded" \in States /\ "pending" \in States /\ "unknown" \notin Final
    BY DEF States, Final
  <1>3. o[P] \in States
    BY PlanKeys
  <1>4. CASE ops' = o /\ \E er \in BOOLEAN : Ended(er)
    BY <1>4, EndedPass
  <1>5. CASE o[P] = "unknown" /\ ops' = Set(o, P, "succeeded") /\ Ended(FALSE)
    <2>1. /\ pass' \in Passes /\ pass'.event = pass.event /\ pass'.todo = pass.todo
          /\ pass'.plan = P /\ pass'.pc \in {"subscribe", "cc"}
      BY <1>5, EndedPass
    <2>2. /\ ops' \in [Keys -> States] /\ ops'[P] = "succeeded"
          /\ \A k \in Keys \ {P} : ops'[k] = o[k]
      BY <1>2, <1>5, PlanKeys, Sets
    <2> QED
      BY <1>2, <1>5, <2>1, <2>2
  <1>6. CASE /\ ops' = Set(o, P, "pending") /\ Start /\ o[P] \notin Final
             /\ ~(P = Report /\ o[P] = "unknown")
    <2>1. o[P] \in {"absent", "pending", "unknown"}
      BY <1>3, <1>6 DEF States, Final
    <2>2. /\ pass' \in Passes /\ pass'.event = pass.event /\ pass'.todo = pass.todo
          /\ pass'.plan = P /\ pass'.pc = IF P = Report THEN "compute" ELSE "fence"
      BY <1>6, StartPass
    <2>3. ops' \in [Keys -> States] /\ ops'[P] = "pending" /\ \A k \in Keys \ {P} : ops'[k] = o[k]
      <3>1. P \in Keys /\ "pending" \in States
        BY PlanKeys DEF States
      <3> QED
        BY <1>6, <3>1, Sets
    <2> QED
      BY <1>6, <2>1, <2>2, <2>3
  <1> QED
    BY <1>1, <1>4, <1>5, <1>6

\* The row of the plan in process.
LEMMA PlanNow ==
    ASSUME EventsIInv, pass.pc \in OfPlan
    PROVE  /\ PlanRow(ops[P]) /\ (P \in vetoed => ops[P] \in Final)
           /\ ~At("wire") => ops[P] # "running"
    BY PlanKeys DEF EventsIInv, PlanRows, Vetoes, PlanRow

\* Nothing was computed or posted.
LEMMA ReportedKept ==
    ASSUME EventsIInv, remote'.computed = remote.computed, remote'.reports = remote.reports,
           \A k \in Keys \ {P, ChildOf(P)} : ops'[k] = ops[k],
           pass'.plan = P, pass'.pc = "wire" => P # Report,
           P = Report /\ ops'[P] \in {"absent", "pending"} => ops[P] \in {"absent", "pending"}
    PROVE  Reported'
  <1>1. ops'[Report] \in {"absent", "pending"} => ops[Report] \in {"absent", "pending"}
    <2>1. CASE P = Report
      BY <2>1
    <2>2. CASE P # Report
      <3>1. Report \in Keys \ {P, ChildOf(P)}
        BY <2>2, PlanKeys, KeyFacts
      <3> QED
        BY <3>1
    <2> QED
      BY <2>1, <2>2
  <1> QED
    BY <1>1 DEF EventsIInv, Reported, At, P

\* The rows are judged before the network is asked.
LEMMA SettleStep ==
    ASSUME EventsIInv, Settle
    PROVE  EventsIInv'
  <1> DEFINE revoked == ~pass.fits \/ ops[P] = "superseded"
             o == IF revoked THEN Revoke(ops, P) ELSE ops
  <1>1. /\ At("settle") /\ Well /\ Pays /\ UNCHANGED <<slots, remote>> /\ ~At("wire")
        /\ vetoed' = IF pass.fits THEN vetoed ELSE vetoed \cup {P}
        /\ IF ops[P] = "absent"
           THEN IF pass.fits THEN Start /\ UNCHANGED ops
                ELSE ops' = Set(ops, P, "superseded") /\ Ended(FALSE)
           ELSE IF o[ChildOf(P)] = "unknown"
           THEN ops' = o /\ pass' = [pass EXCEPT !.pc = "reconcile", !.revoked = revoked]
           ELSE Judge(o, revoked)
    BY DEF Settle, At
  <1>2. pass.pc \in OfPlan /\ ops \in [Keys -> States] /\ pass \in Passes /\ remote \in Remotes
    BY <1>1, Types DEF At, OfPlan
  <1>3. revoked \in BOOLEAN /\ pass.fits \in BOOLEAN /\ (~pass.fits => revoked)
    BY <1>2, PassFields
  <1>4. /\ o \in [Keys -> States] /\ \A k \in Keys \ {P, ChildOf(P)} : o[k] = ops[k]
        /\ o[P] = IF revoked /\ ops[P] \in {"pending", "unknown"} THEN "superseded" ELSE ops[P]
    BY <1>2, Revokes
  <1> HIDE DEF revoked, o
  <1>5. /\ PlanRow(ops[P]) /\ (P \in vetoed => ops[P] \in Final)
        /\ ops[P] # "running" /\ ops[P] \in States
    BY <1>1, <1>2, PlanNow, PlanKeys
  <1>6. /\ PlanRow(o[P]) /\ o[P] # "running"
        /\ (ops[P] # "absent" /\ revoked => o[P] \in Final)
        /\ (ops[P] \in Final => o[P] = ops[P])
        /\ (o[P] \in {"absent", "pending"} => o[P] = ops[P])
    BY <1>4, <1>5 DEF PlanRow, States, Final
  <1>7. vetoed' \in {vetoed, vetoed \cup {P}} /\ (P \in vetoed' => ~pass.fits \/ P \in vetoed)
    BY <1>1
  <1>8. CASE ops[P] = "absent" /\ pass.fits
    <2>1. Start /\ ops' = ops /\ vetoed' = vetoed
      BY <1>1, <1>8
    <2>2. /\ pass' \in Passes /\ pass'.event = pass.event /\ pass'.todo = pass.todo
          /\ pass'.plan = P /\ pass'.pc = IF P = Report THEN "compute" ELSE "fence"
      BY <2>1, StartPass
    <2>3. Reported'
      BY <1>1, <2>1, <2>2, ReportedKept
    <2> QED
      BY <1>1, <1>2, <1>5, <1>8, <2>1, <2>2, <2>3, PlanStep
  <1>9. CASE ops[P] = "absent" /\ ~pass.fits
    <2>1. ops' = Set(ops, P, "superseded") /\ Ended(FALSE)
      BY <1>1, <1>9
    <2>2. /\ pass' \in Passes /\ pass'.event = pass.event /\ pass'.todo = pass.todo
          /\ pass'.plan = P /\ pass'.pc \in {"subscribe", "cc"}
      BY <2>1, EndedPass
    <2>3. /\ ops' \in [Keys -> States] /\ ops'[P] = "superseded"
          /\ \A k \in Keys \ {P} : ops'[k] = ops[k]
      BY <1>2, <2>1, PlanKeys, Sets DEF States
    <2>4. Reported'
      BY <1>1, <2>2, <2>3, ReportedKept
    <2> QED
      BY <1>1, <1>2, <1>7, <2>2, <2>3, <2>4, PlanStep DEF PlanRow, Final
  <1>10. CASE ops[P] # "absent" /\ o[ChildOf(P)] = "unknown"
    <2>1. ops' = o /\ pass' = [pass EXCEPT !.pc = "reconcile", !.revoked = revoked]
      BY <1>1, <1>10
    <2>2. /\ pass' \in Passes /\ pass'.event = pass.event /\ pass'.todo = pass.todo
          /\ pass'.plan = P /\ pass'.pc = "reconcile"
      BY <1>2, <1>3, <2>1 DEF Passes, Places, P
    <2>3. Reported'
      BY <1>1, <1>4, <1>6, <2>1, <2>2, ReportedKept
    <2>4. P \in vetoed' => ops'[P] \in Final
      BY <1>3, <1>5, <1>6, <1>7, <1>10, <2>1
    <2> QED
      BY <1>1, <1>2, <1>4, <1>6, <1>7, <2>1, <2>2, <2>3, <2>4, PlanStep
  <1>11. CASE ops[P] # "absent" /\ Judge(o, revoked)
    <2>1. /\ ops' \in [Keys -> States]
          /\ \A k \in Keys \ {P} : ops'[k] = o[k]
          /\ pass' \in Passes /\ pass'.event = pass.event /\ pass'.todo = pass.todo
          /\ pass'.plan = P
          /\ ops'[P] \in {o[P], "succeeded", "pending"}
          /\ o[P] \in Final => ops'[P] = o[P]
          /\ \/ pass'.pc \in {"subscribe", "cc"}
             \/ /\ pass'.pc = IF P = Report THEN "compute" ELSE "fence"
                /\ ops'[P] = "pending"
          /\ ops'[P] \in {"absent", "pending"} /\ P = Report => o[P] \in {"absent", "pending"}
      BY <1>3, <1>4, <1>6, <1>11, Judged DEF PlanRow
    <2>2. Reported'
      BY <1>1, <1>4, <1>6, <2>1, ReportedKept
    <2>3. P \in vetoed' => ops'[P] \in Final
      BY <1>3, <1>5, <1>6, <1>7, <1>11, <2>1
    <2>4. PlanRow(ops'[P]) /\ ops'[P] # "running"
      BY <1>6, <2>1 DEF PlanRow
    <2> QED
      BY <1>1, <1>2, <1>4, <1>7, <2>1, <2>2, <2>3, <2>4, PlanStep
  <1> QED
    BY <1>1, <1>8, <1>9, <1>10, <1>11

\* A write of unknown outcome is looked up.
LEMMA ReconcileStep ==
    ASSUME EventsIInv, Reconcile
    PROVE  EventsIInv'
  <1>1. /\ At("reconcile") /\ Pays /\ UNCHANGED <<slots, vetoed, remote>> /\ ~At("wire")
        /\ (Well \/ Fails)
    BY DEF Reconcile, At
  <1>2. pass.pc \in OfPlan /\ ops \in [Keys -> States] /\ pass \in Passes /\ remote \in Remotes
    BY <1>1, Types DEF At, OfPlan
  <1>3. /\ PlanRow(ops[P]) /\ (P \in vetoed => ops[P] \in Final)
        /\ ops[P] # "running" /\ ops[P] \in States
    BY <1>1, <1>2, PlanNow, PlanKeys
  <1>4. CASE Ended(TRUE) /\ UNCHANGED ops
    <2>1. /\ pass' \in Passes /\ pass'.event = pass.event /\ pass'.todo = pass.todo
          /\ pass'.plan = P /\ pass'.pc \in {"subscribe", "cc"}
      BY <1>4, EndedPass
    <2>2. Reported'
      BY <1>1, <1>4, <2>1, ReportedKept
    <2> QED
      BY <1>1, <1>2, <1>3, <1>4, <2>1, <2>2, PlanStep
  <1> DEFINE c == ChildOf(P)
             found == IF P = Report THEN remote.reports > 0 ELSE remote.labelled
             s == IF found THEN "succeeded" ELSE IF P = Report THEN "unknown" ELSE "deferred"
             o == Set(ops, c, s)
             r == pass.revoked
             q == IF r THEN Revoke(o, P) ELSE o
  <1>5. CASE Judge(q, r)
    <2>1. s \in States /\ r \in BOOLEAN
      BY <1>2, PassFields DEF States
    <2> HIDE DEF s
    <2>2. o \in [Keys -> States] /\ o[P] = ops[P] /\ \A k \in Keys \ {P, ChildOf(P)} : o[k] = ops[k]
      BY <1>2, <2>1, PlanKeys, Sets
    <2> HIDE DEF o
    <2>3. /\ q \in [Keys -> States] /\ \A k \in Keys \ {P, ChildOf(P)} : q[k] = ops[k]
          /\ q[P] = ops[P] \/ (ops[P] \in {"pending", "unknown"} /\ q[P] = "superseded")
      BY <2>2, Revokes
    <2> HIDE DEF q, r
    <2>4. /\ PlanRow(q[P]) /\ q[P] # "running" /\ (ops[P] \in Final => q[P] = ops[P])
          /\ (q[P] \in {"absent", "pending"} => q[P] = ops[P])
      BY <1>3, <2>3 DEF PlanRow, Final
    <2>5. /\ ops' \in [Keys -> States]
          /\ \A k \in Keys \ {P} : ops'[k] = q[k]
          /\ pass' \in Passes /\ pass'.event = pass.event /\ pass'.todo = pass.todo
          /\ pass'.plan = P
          /\ ops'[P] \in {q[P], "succeeded", "pending"}
          /\ q[P] \in Final => ops'[P] = q[P]
          /\ \/ pass'.pc \in {"subscribe", "cc"}
             \/ /\ pass'.pc = IF P = Report THEN "compute" ELSE "fence"
                /\ ops'[P] = "pending"
          /\ ops'[P] \in {"absent", "pending"} /\ P = Report => q[P] \in {"absent", "pending"}
      BY <1>5, <2>1, <2>3, <2>4, Judged DEF PlanRow
    <2>6. Reported'
      BY <1>1, <2>3, <2>4, <2>5, ReportedKept
    <2>7. P \in vetoed' => ops'[P] \in Final
      BY <1>1, <1>3, <2>4, <2>5
    <2>8. PlanRow(ops'[P]) /\ ops'[P] # "running"
      BY <2>4, <2>5 DEF PlanRow
    <2> QED
      BY <1>1, <1>2, <2>3, <2>5, <2>6, <2>7, <2>8, PlanStep
  <1> QED
    BY <1>4, <1>5 DEF Reconcile

\* An engine ran.
LEMMA ComputedRemote ==
    ASSUME EventsIInv
    PROVE  LET v == [remote EXCEPT !.computed = @ + 1] IN
           /\ v \in Remotes /\ v.computed = remote.computed + 1 /\ v.reports = remote.reports
           /\ v.mentions = remote.mentions
    BY Types DEF Remotes

\* The report is computed.
LEMMA ComputeStep ==
    ASSUME EventsIInv, Compute
    PROVE  EventsIInv'
  <1>1. At("compute") /\ Pays /\ UNCHANGED <<slots, vetoed>> /\ ~At("wire") /\ (Well \/ Fails)
    BY DEF Compute, At
  <1>2. pass.pc \in OfPlan /\ ops \in [Keys -> States] /\ pass \in Passes /\ remote \in Remotes
    BY <1>1, Types DEF At, OfPlan
  <1>3. P = Report /\ ops[P] \in {"absent", "pending"} /\ P \notin vetoed
    BY <1>1, <1>2, PlanNow DEF EventsIInv, Underway, Final
  <1>4. remote.computed = 0 /\ remote.reports = 0
    BY <1>2, <1>3 DEF EventsIInv, Reported, Remotes
  <1> DEFINE more == [remote EXCEPT !.computed = @ + 1]
  <1>5. more \in Remotes /\ more.computed = 1 /\ more.reports = 0 /\ more.mentions = remote.mentions
    BY <1>4, ComputedRemote
  <1> HIDE DEF more
  <1>6. CASE Go("wire") /\ ops' = Set(ops, P, "running") /\ remote' = more
    <2>1. /\ pass' \in Passes /\ pass'.event = pass.event /\ pass'.todo = pass.todo
          /\ pass'.plan = P /\ pass'.pc = "wire"
      BY <1>6, AtGo DEF Places
    <2>2. /\ ops' \in [Keys -> States] /\ ops'[P] = "running"
          /\ \A k \in Keys \ {P} : ops'[k] = ops[k]
      BY <1>2, <1>6, PlanKeys, Sets DEF States
    <2>3. Reported'
      BY <1>3, <1>5, <1>6, <2>2 DEF Reported
    <2> QED
      BY <1>1, <1>2, <1>3, <1>5, <1>6, <2>1, <2>2, <2>3, PlanStep DEF PlanRow
  <1>7. CASE Ended(FALSE) /\ ops' = Set(ops, P, "failed") /\ remote' = more
    <2>1. /\ pass' \in Passes /\ pass'.event = pass.event /\ pass'.todo = pass.todo
          /\ pass'.plan = P /\ pass'.pc \in {"subscribe", "cc"}
      BY <1>7, EndedPass
    <2>2. /\ ops' \in [Keys -> States] /\ ops'[P] = "failed"
          /\ \A k \in Keys \ {P} : ops'[k] = ops[k]
      BY <1>2, <1>7, PlanKeys, Sets DEF States
    <2>3. Reported'
      BY <1>3, <1>5, <1>7, <2>2 DEF Reported
    <2> QED
      BY <1>1, <1>2, <1>3, <1>5, <1>7, <2>1, <2>2, <2>3, PlanStep DEF PlanRow
  <1>8. CASE Ended(TRUE) /\ UNCHANGED remote /\ ops' \in {ops, Set(ops, P, "pending")}
    <2>1. /\ pass' \in Passes /\ pass'.event = pass.event /\ pass'.todo = pass.todo
          /\ pass'.plan = P /\ pass'.pc \in {"subscribe", "cc"}
      BY <1>8, EndedPass
    <2>2. /\ ops' \in [Keys -> States] /\ ops'[P] \in {"absent", "pending"}
          /\ \A k \in Keys \ {P} : ops'[k] = ops[k]
      BY <1>2, <1>3, <1>8, PlanKeys, Sets DEF States
    <2>3. Reported'
      BY <1>3, <1>8, <2>1, <2>2, ReportedKept
    <2> QED
      BY <1>1, <1>2, <1>3, <1>8, <2>1, <2>2, <2>3, PlanStep DEF PlanRow
  <1> QED
    BY <1>6, <1>7, <1>8 DEF Compute, more

\* Head and policy are read again before the labels.
LEMMA FenceStep ==
    ASSUME EventsIInv, Fence
    PROVE  EventsIInv'
  <1>1. At("fence") /\ Pays /\ UNCHANGED <<slots, remote>> /\ ~At("wire") /\ (Well \/ Fails)
    BY DEF Fence, At
  <1>2. pass.pc \in OfPlan /\ ops \in [Keys -> States] /\ pass \in Passes /\ remote \in Remotes
    BY <1>1, Types DEF At, OfPlan
  <1>3. P # Report /\ ops[P] \in {"absent", "pending"} /\ P \notin vetoed
    BY <1>1, <1>2, PlanNow DEF EventsIInv, Underway, Final
  <1>4. CASE Ended(TRUE) /\ UNCHANGED <<ops, vetoed>>
    <2>1. /\ pass' \in Passes /\ pass'.event = pass.event /\ pass'.todo = pass.todo
          /\ pass'.plan = P /\ pass'.pc \in {"subscribe", "cc"}
      BY <1>4, EndedPass
    <2>2. Reported'
      BY <1>1, <1>3, <1>4, <2>1, ReportedKept
    <2> QED
      BY <1>1, <1>2, <1>3, <1>4, <2>1, <2>2, PlanStep DEF PlanRow
  <1> DEFINE gone == Set(ops, P, "superseded")
  <1>5. CASE /\ ops' = Revoke(gone, P) /\ vetoed' = vetoed \cup {P}
             /\ \E b \in BOOLEAN : Ended(b)
    <2>1. /\ pass' \in Passes /\ pass'.event = pass.event /\ pass'.todo = pass.todo
          /\ pass'.plan = P /\ pass'.pc \in {"subscribe", "cc"}
      BY <1>5, EndedPass
    <2>2. /\ gone \in [Keys -> States] /\ gone[P] = "superseded"
          /\ \A k \in Keys \ {P} : gone[k] = ops[k]
      BY <1>2, PlanKeys, Sets DEF States
    <2> HIDE DEF gone
    <2>3. /\ ops' \in [Keys -> States] /\ ops'[P] = "superseded"
          /\ \A k \in Keys \ {P, ChildOf(P)} : ops'[k] = ops[k]
      BY <1>5, <2>2, Revokes
    <2>4. Reported'
      BY <1>1, <1>3, <2>1, <2>3, ReportedKept
    <2> QED
      BY <1>1, <1>2, <1>5, <2>1, <2>3, <2>4, PlanStep DEF PlanRow, Final
  <1>6. CASE UNCHANGED vetoed /\ ops' = Set(ops, P, "unknown") /\ Ended(TRUE)
    <2>1. /\ pass' \in Passes /\ pass'.event = pass.event /\ pass'.todo = pass.todo
          /\ pass'.plan = P /\ pass'.pc \in {"subscribe", "cc"}
      BY <1>6, EndedPass
    <2>2. /\ ops' \in [Keys -> States] /\ ops'[P] = "unknown"
          /\ \A k \in Keys \ {P} : ops'[k] = ops[k]
      BY <1>2, <1>6, PlanKeys, Sets DEF States
    <2>3. Reported'
      BY <1>1, <1>3, <2>1, <2>2, ReportedKept
    <2> QED
      BY <1>1, <1>2, <1>3, <1>6, <2>1, <2>2, <2>3, PlanStep DEF PlanRow
  <1>7. CASE UNCHANGED vetoed /\ ops' = Set(ops, P, "running") /\ Go("wire")
    <2>1. /\ pass' \in Passes /\ pass'.event = pass.event /\ pass'.todo = pass.todo
          /\ pass'.plan = P /\ pass'.pc = "wire"
      BY <1>7, AtGo DEF Places
    <2>2. /\ ops' \in [Keys -> States] /\ ops'[P] = "running"
          /\ \A k \in Keys \ {P} : ops'[k] = ops[k]
      BY <1>2, <1>7, PlanKeys, Sets DEF States
    <2>3. Reported'
      BY <1>1, <1>3, <2>1, <2>2, ReportedKept
    <2> QED
      BY <1>1, <1>2, <1>3, <1>7, <2>1, <2>2, <2>3, PlanStep DEF PlanRow
  <1>8. \/ Ended(TRUE) /\ UNCHANGED <<ops, vetoed>>
        \/ ops' = Revoke(gone, P) /\ vetoed' = vetoed \cup {P} /\ Ended(head # P.head)
        \/ UNCHANGED vetoed /\ ops' = Set(ops, P, "unknown") /\ Ended(TRUE)
        \/ UNCHANGED vetoed /\ ops' = Set(ops, P, "running") /\ Go("wire")
    BY DEF Fence
  <1>9. (head # P.head) \in BOOLEAN
    OBVIOUS
  <1> HIDE DEF gone
  <1>10. Ended(head # P.head) => \E b \in BOOLEAN : Ended(b)
    BY <1>9, Zenon
  <1> QED
    BY <1>4, <1>5, <1>6, <1>7, <1>8, <1>10

\* The report or the labels are there.
LEMMA WrittenRemote ==
    ASSUME EventsIInv
    PROVE  /\ Written \in Remotes /\ Written.computed = remote.computed
           /\ Written.mentions = remote.mentions
           /\ Written.reports = IF P = Report THEN remote.reports + 1 ELSE remote.reports
  <1>1. remote \in Remotes
    BY Types
  <1>2. CASE P = Report
    <2>1. Written = [remote EXCEPT !.reports = @ + 1]
      BY <1>2 DEF Written
    <2> QED
      BY <1>1, <1>2, <2>1 DEF Remotes
  <1>3. CASE P # Report
    <2>1. Written = [remote EXCEPT !.labelled = TRUE]
      BY <1>3 DEF Written
    <2> QED
      BY <1>1, <1>3, <2>1 DEF Remotes
  <1> QED
    BY <1>2, <1>3

\* The write is sent.
LEMMA WireStep ==
    ASSUME EventsIInv, Wire
    PROVE  EventsIInv'
  <1>1. At("wire") /\ Pays /\ UNCHANGED <<slots, vetoed>> /\ (Well \/ Fails)
    BY DEF Wire
  <1>2. /\ pass.pc \in OfPlan /\ ops \in [Keys -> States] /\ pass \in Passes /\ remote \in Remotes
        /\ ops[P] = "running" /\ P \notin vetoed
    BY <1>1, Types, PlanNow DEF At, OfPlan, EventsIInv, Underway, Final
  <1>3. PICK s \in {"succeeded", "unknown", "failed"}, b \in BOOLEAN :
            Both(s) /\ Ended(b) /\ remote' \in {remote, Written}
    BY DEF Wire
  <1>4. /\ pass' \in Passes /\ pass'.event = pass.event /\ pass'.todo = pass.todo
        /\ pass'.plan = P /\ pass'.pc \in {"subscribe", "cc"}
    BY <1>3, EndedPass
  <1>5. /\ ops' \in [Keys -> States] /\ ops'[P] = s
        /\ \A k \in Keys \ {P, ChildOf(P)} : ops'[k] = ops[k]
    <2>1. s \in States
      BY DEF States
    <2> DEFINE o == Set(ops, P, s)
    <2>2. o \in [Keys -> States] /\ o[P] = s /\ \A k \in Keys \ {P} : o[k] = ops[k]
      BY <1>2, <2>1, PlanKeys, Sets
    <2>3. ops' = Set(o, ChildOf(P), s)
      BY <1>3 DEF Both
    <2> HIDE DEF o
    <2> QED
      BY <2>1, <2>2, <2>3, PlanKeys, Sets
  <1>6. /\ remote' \in Remotes /\ remote'.mentions = remote.mentions
        /\ remote'.computed = remote.computed
        /\ remote'.reports = remote.reports \/ (P = Report /\ remote'.reports = remote.reports + 1)
    BY <1>2, <1>3, WrittenRemote
  <1>7. Reported'
    <2>1. CASE P = Report
      <3>1. remote.computed = 1 /\ remote.reports = 0
        <4>1. remote.computed \in Nat /\ remote.reports \in Nat
          BY <1>2 DEF Remotes
        <4> QED
          BY <1>1, <1>2, <2>1, <4>1 DEF EventsIInv, Reported, Underway
      <3> QED
        BY <1>4, <1>5, <1>6, <2>1, <3>1 DEF Reported, At
    <2>2. CASE P # Report
      BY <1>4, <1>5, <1>6, <2>2, ReportedKept
    <2> QED
      BY <2>1, <2>2
  <1> QED
    BY <1>1, <1>2, <1>4, <1>5, <1>6, <1>7, PlanStep DEF PlanRow

-----------------------------------------------------------------------------
(* The comment of a plan. *)

\* The row of the comment.
LEMMA RowNow ==
    ASSUME EventsIInv
    PROVE  /\ C \in CcRows /\ C \in Keys /\ C \notin Plans /\ C # Nobody
           /\ ops \in [Keys -> States] /\ ops[C] \in States
  <1>1. P \in Plans
    BY PlanKeys
  <1>2. C \in CcRows
    BY <1>1, CommentRow DEF C
  <1> QED
    BY <1>2, KeyFacts, Types

\* A step that writes at most the row of the comment.
LEMMA CommentStep ==
    ASSUME EventsIInv, Pays, Well \/ Fails, UNCHANGED vetoed, pass.pc \in OfComment,
           ops' \in [Keys -> States], \A k \in Keys \ {C} : ops'[k] = ops[k],
           remote' \in Remotes, remote'.computed = remote.computed,
           remote'.reports = remote.reports,
           slots' \in [Users -> CcRows \cup {Nobody}], Reserved',
           pass' \in Passes, pass'.event = pass.event, pass'.todo = pass.todo, pass'.plan = P,
           pass'.pc \in {"revoke", "each", "close", "claim", "preflight", "send"},
           pass'.pc = "claim" => ops'[C] \notin Final \cup {"unknown"},
           pass'.pc = "preflight" => ops'[C] = "claimed",
           pass'.pc = "send" => ops'[C] = "running"
    PROVE  EventsIInv'
  <1>1. P \in Plans /\ plans[P] \in Rules
    BY PlanKeys DEF EventsIInv, Underway
  <1>2. Typed'
    BY Types, Budget DEF Typed, Pays
  <1>3. Timely' /\ Frozen' /\ Saved' = Saved
    BY Budget, FrozenKept, TimelyKept DEF Pays
  <1>4. Underway'
    BY <1>1, <1>3 DEF EventsIInv, Underway, At, P, C, Pays
  <1>5. \A p \in Plans : ops'[p] = ops[p]
    BY RowNow, KeyFacts
  <1>6. ~At("wire") /\ pass'.pc # "wire"
    BY DEF At, OfComment
  <1>7. PlanRows'
    BY <1>5, <1>6 DEF EventsIInv, PlanRows
  <1>8. Vetoes'
    BY <1>5, Types DEF EventsIInv, Vetoes
  <1>9. Reported'
    BY <1>5, <1>6, KeyFacts DEF EventsIInv, Reported, At
  <1> QED
    BY <1>2, <1>3, <1>4, <1>7, <1>8, <1>9 DEF EventsIInv

\* The mentions stay reserved by rows that keep them.
LEMMA ReservedKept ==
    ASSUME EventsIInv, UNCHANGED slots, remote'.mentions = remote.mentions,
           \A k \in CcRows : ops[k] \in Kept => ops'[k] \in Kept
    PROVE  Reserved'
    BY DEF EventsIInv, Reserved, Mentions, Taken

\* Freeing the mentions of a row that keeps none takes none that was sent.
LEMMA ReservedFreed ==
    ASSUME EventsIInv, slots' = Freed(C), remote'.mentions = remote.mentions,
           ops[C] \notin Kept, \A k \in Keys \ {C} : ops'[k] = ops[k]
    PROVE  slots' \in [Users -> CcRows \cup {Nobody}] /\ Reserved'
  <1>1. slots \in [Users -> CcRows \cup {Nobody}]
    BY Types
  <1>2. /\ slots' \in [Users -> CcRows \cup {Nobody}]
        /\ \A u \in Users : slots'[u] = IF slots[u] = C THEN Nobody ELSE slots[u]
    BY <1>1 DEF Freed
  <1>3. Mentions'
    <2>1. ASSUME NEW u \in Users
          PROVE  /\ remote'.mentions[u] <= 1
                 /\ remote'.mentions[u] > 0 => slots'[u] \in CcRows /\ ops'[slots'[u]] \in Kept
      <3>1. /\ remote.mentions[u] <= 1
            /\ remote.mentions[u] > 0 => slots[u] \in CcRows /\ ops[slots[u]] \in Kept
        BY DEF EventsIInv, Reserved, Mentions
      <3>2. CASE remote.mentions[u] > 0
        <4>1. slots[u] \in CcRows /\ slots[u] # C /\ ops[slots[u]] \in Kept
          BY <3>1, <3>2
        <4>2. ops'[slots[u]] = ops[slots[u]]
          BY <4>1, KeyFacts
        <4> QED
          BY <1>2, <3>1, <4>1, <4>2
      <3> QED
        BY <3>1, <3>2
    <2> QED
      BY <2>1 DEF Mentions
  <1>4. Taken' \subseteq Taken
    BY <1>2, RowNow DEF Taken
  <1>5. IsFiniteSet(Taken) /\ Cardinality(Taken) <= Limit
    BY DEF EventsIInv, Reserved
  <1>6. IsFiniteSet(Taken') /\ Cardinality(Taken') <= Cardinality(Taken)
    BY <1>4, <1>5, FS_Subset
  <1>7. Cardinality(Taken) \in Nat /\ Cardinality(Taken') \in Nat /\ Limit \in Nat
    BY <1>5, <1>6, FS_CardinalityType, EventsAssumption
  <1>8. Cardinality(Taken') <= Limit
    BY <1>5, <1>6, <1>7
  <1> QED
    BY <1>2, <1>3, <1>6, <1>8 DEF Reserved

\* Recipients are taken from those nobody has, as far as there is room.
LEMMA ReservedTaken ==
    ASSUME EventsIInv, At("claim"), remote' = remote,
           \A k \in Keys \ {C} : ops'[k] = ops[k],
           NEW take,
           LET fresh == {u \in Cc[plans[P]] : Fresh(u)}
               room == Limit - Cardinality({u \in Users : slots[u] # Nobody})
           IN take \in kSubset(Least(room, Cardinality(fresh)), fresh),
           slots' = [u \in Users |-> IF u \in take THEN C ELSE slots[u]]
    PROVE  slots' \in [Users -> CcRows \cup {Nobody}] /\ Reserved'
  <1> DEFINE fresh == {u \in Cc[plans[P]] : Fresh(u)}
             room == Limit - Cardinality(Taken)
  <1>1. slots \in [Users -> CcRows \cup {Nobody}] /\ C \in CcRows /\ C # Nobody
    BY Types, RowNow
  <1>2. /\ slots' \in [Users -> CcRows \cup {Nobody}]
        /\ \A u \in Users : slots'[u] = IF u \in take THEN C ELSE slots[u]
    BY <1>1
  <1>3. plans[P] \in Rules
    BY DEF EventsIInv, Underway, At, OfComment
  <1>4. IsFiniteSet(Cc[plans[P]]) /\ Cc[plans[P]] \subseteq Users
    BY <1>3, EventsAssumption DEF Users
  <1>5. fresh \subseteq Cc[plans[P]]
    OBVIOUS
  <1>6. take \in kSubset(Least(room, Cardinality(fresh)), fresh)
    BY DEF Taken
  <1>7. \A u \in fresh : slots[u] = Nobody
    BY DEF Fresh
  <1> HIDE DEF fresh, room
  <1>8. take \subseteq fresh /\ Cardinality(take) = Least(room, Cardinality(fresh))
    BY <1>6 DEF kSubset
  <1>9. IsFiniteSet(fresh)
    BY <1>4, <1>5, FS_Subset
  <1>10. IsFiniteSet(take)
    BY <1>8, <1>9, FS_Subset
  <1>11. IsFiniteSet(Taken) /\ Cardinality(Taken) <= Limit
    BY DEF EventsIInv, Reserved
  <1>12. /\ Cardinality(take) \in Nat /\ Cardinality(Taken) \in Nat /\ Limit \in Nat
         /\ Cardinality(fresh) \in Nat
    BY <1>9, <1>10, <1>11, FS_CardinalityType, EventsAssumption
  <1>13. Cardinality(take) <= Limit - Cardinality(Taken)
    BY <1>8, <1>12 DEF Least, room
  <1>14. Taken' = Taken \cup take
    <2>1. take \subseteq Users
      BY <1>4, <1>5, <1>8
    <2> QED
      BY <1>1, <1>2, <2>1 DEF Taken
  <1>15. /\ IsFiniteSet(Taken \cup take)
         /\ Cardinality(Taken \cup take) = Cardinality(Taken) + Cardinality(take)
                                               - Cardinality(Taken \cap take)
    BY <1>10, <1>11, FS_Union
  <1>16. Cardinality(Taken \cap take) \in Nat
    <2>1. IsFiniteSet(Taken \cap take)
      BY <1>11, FS_Subset
    <2> QED
      BY <2>1, FS_CardinalityType
  <1>17. IsFiniteSet(Taken') /\ Cardinality(Taken') <= Limit
    BY <1>12, <1>13, <1>14, <1>15, <1>16
  <1>18. ops[C] \notin Kept
    BY DEF EventsIInv, Underway, Kept, Final
  <1>19. Mentions'
    <2>1. ASSUME NEW u \in Users
          PROVE  /\ remote'.mentions[u] <= 1
                 /\ remote'.mentions[u] > 0 => slots'[u] \in CcRows /\ ops'[slots'[u]] \in Kept
      <3>1. /\ remote.mentions[u] <= 1
            /\ remote.mentions[u] > 0 => slots[u] \in CcRows /\ ops[slots[u]] \in Kept
        BY DEF EventsIInv, Reserved, Mentions
      <3>2. CASE remote.mentions[u] > 0
        <4>1. slots[u] \in CcRows /\ slots[u] # C /\ ops[slots[u]] \in Kept
          BY <1>18, <3>1, <3>2
        <4>2. ops'[slots[u]] = ops[slots[u]] /\ u \notin take
          BY <1>7, <1>8, <4>1, KeyFacts
        <4> QED
          BY <1>2, <3>1, <4>1, <4>2
      <3> QED
        BY <3>1, <3>2
    <2> QED
      BY <2>1 DEF Mentions
  <1> QED
    BY <1>2, <1>17, <1>19 DEF Reserved

\* The comment is there.
LEMMA PostedRemote ==
    ASSUME EventsIInv
    PROVE  /\ Posted \in Remotes /\ Posted.computed = remote.computed
           /\ Posted.reports = remote.reports
           /\ \A u \in Users : Posted.mentions[u] =
                 remote.mentions[u] + (IF slots[u] = C THEN 1 ELSE 0)
  <1> DEFINE m == [u \in Users |-> remote.mentions[u] + (IF slots[u] = C THEN 1 ELSE 0)]
             c == remote.comments \cup {C}
  <1>1. remote \in Remotes /\ remote.mentions \in [Users -> Nat] /\ remote.comments \subseteq CcRows
    BY Types DEF Remotes
  <1>2. m \in [Users -> Nat]
    BY <1>1
  <1>3. c \in SUBSET CcRows
    BY <1>1, RowNow
  <1>4. \A u \in Users : m[u] = remote.mentions[u] + (IF slots[u] = C THEN 1 ELSE 0)
    OBVIOUS
  <1>5. Posted = [remote EXCEPT !.comments = c, !.mentions = m]
    BY DEF Posted
  <1> HIDE DEF m, c
  <1> QED
    BY <1>1, <1>2, <1>3, <1>4, <1>5 DEF Remotes

\* A comment that is posted mentions each of its recipients, nobody else.
LEMMA ReservedPosted ==
    ASSUME EventsIInv, At("send"), remote' = Posted, UNCHANGED slots, ops'[C] \in Kept,
           \A k \in CcRows : ops[k] \in Kept => ops'[k] \in Kept
    PROVE  Reserved'
  <1>1. ops[C] \notin Kept
    BY DEF EventsIInv, Underway, Kept
  <1>2. Mentions'
    <2>1. ASSUME NEW u \in Users
          PROVE  /\ remote'.mentions[u] <= 1
                 /\ remote'.mentions[u] > 0 => slots'[u] \in CcRows /\ ops'[slots'[u]] \in Kept
      <3>1. /\ remote.mentions[u] <= 1
            /\ remote.mentions[u] > 0 => slots[u] \in CcRows /\ ops[slots[u]] \in Kept
        BY DEF EventsIInv, Reserved, Mentions
      <3>2. remote.mentions[u] \in Nat
        BY Types DEF Remotes
      <3>3. remote'.mentions[u] = remote.mentions[u] + (IF slots[u] = C THEN 1 ELSE 0)
        BY PostedRemote
      <3>4. CASE slots[u] = C
        <4>1. remote.mentions[u] = 0
          BY <1>1, <3>1, <3>2, <3>4
        <4> QED
          BY <3>3, <3>4, <4>1, RowNow
      <3>5. CASE slots[u] # C
        BY <3>1, <3>2, <3>3, <3>5
      <3> QED
        BY <3>4, <3>5
    <2> QED
      BY <2>1 DEF Mentions
  <1>3. Taken' = Taken
    BY DEF Taken
  <1> QED
    BY <1>2, <1>3 DEF EventsIInv, Reserved

\* The pass leaves the comment.
LEMMA EndCcPass ==
    ASSUME EventsIInv, NEW b \in BOOLEAN, EndCc(b)
    PROVE  /\ pass' \in Passes /\ pass'.event = pass.event /\ pass'.todo = pass.todo
           /\ pass'.plan = P /\ pass'.pc \in {"revoke", "each", "close"}
  <1> DEFINE er == pass.error \/ b
             pc == CASE pass.loop = "revoked" -> "revoke" [] pass.loop = "saved" -> "each"
                     [] OTHER -> "close"
  <1>1. pass \in Passes
    BY Types
  <1>2. er \in BOOLEAN
    OBVIOUS
  <1>3. pc \in {"revoke", "each", "close"} /\ pc \in Places
    BY DEF Places
  <1>4. pass' = [pass EXCEPT !.error = er, !.pc = pc]
    BY DEF EndCc
  <1> HIDE DEF er, pc
  <1> QED
    BY <1>1, <1>2, <1>3, <1>4 DEF Passes, P

\* The row of the comment takes the state s.
LEMMA RowSet ==
    ASSUME EventsIInv, NEW s \in States, Row(s)
    PROVE  /\ ops' \in [Keys -> States] /\ ops'[C] = s
           /\ \A k \in Keys \ {C} : ops'[k] = ops[k]
    BY RowNow, Sets DEF Row

\* The comment's pass ends with the row in the state s, or as it was.
LEMMA CommentEnds ==
    ASSUME EventsIInv, Pays, Well \/ Fails, UNCHANGED vetoed, pass.pc \in OfComment,
           NEW s \in States, Row(s), NEW b \in BOOLEAN, EndCc(b), UNCHANGED remote,
           \/ UNCHANGED slots /\ (ops[C] \in Kept => s \in Kept)
           \/ slots' = Freed(C) /\ ops[C] \notin Kept
    PROVE  EventsIInv'
  <1>1. /\ ops' \in [Keys -> States] /\ ops'[C] = s
        /\ \A k \in Keys \ {C} : ops'[k] = ops[k]
    BY RowSet
  <1>2. /\ pass' \in Passes /\ pass'.event = pass.event /\ pass'.todo = pass.todo
        /\ pass'.plan = P /\ pass'.pc \in {"revoke", "each", "close"}
    BY EndCcPass
  <1>3. CASE UNCHANGED slots /\ (ops[C] \in Kept => s \in Kept)
    <2>1. Reserved'
      <3>1. \A k \in CcRows : ops[k] \in Kept => ops'[k] \in Kept
        BY <1>1, <1>3, KeyFacts
      <3> QED
        BY <1>3, <3>1, ReservedKept
    <2> QED
      BY <1>1, <1>2, <1>3, <2>1, Types, CommentStep
  <1>4. CASE slots' = Freed(C) /\ ops[C] \notin Kept
    BY <1>1, <1>2, <1>4, ReservedFreed, Types, CommentStep
  <1> QED
    BY <1>3, <1>4

\* The comment's pass goes on and nothing else changes.
LEMMA CommentRests ==
    ASSUME EventsIInv, Pays, Well \/ Fails, UNCHANGED vetoed, pass.pc \in OfComment,
           UNCHANGED <<ops, slots, remote>>,
           \/ \E b \in BOOLEAN : EndCc(b)
           \/ Go("claim") /\ ops[C] \notin Final \cup {"unknown"}
    PROVE  EventsIInv'
  <1>1. /\ pass' \in Passes /\ pass'.event = pass.event /\ pass'.todo = pass.todo
        /\ pass'.plan = P
        /\ \/ pass'.pc \in {"revoke", "each", "close"}
           \/ pass'.pc = "claim" /\ ops[C] \notin Final \cup {"unknown"}
    BY EndCcPass, AtGo DEF Places
  <1>2. Reserved'
    BY ReservedKept
  <1> QED
    BY <1>1, <1>2, Types, CommentStep

\* The Booleans.
LEMMA Booleans == TRUE \in BOOLEAN /\ FALSE \in BOOLEAN
    OBVIOUS

\* The row of the comment is judged.
LEMMA CcSettleStep ==
    ASSUME EventsIInv, CcSettle
    PROVE  EventsIInv'
  <1>1. /\ pass.pc \in OfComment /\ Pays /\ UNCHANGED <<remote, vetoed>> /\ (Well \/ Fails)
    BY DEF CcSettle, At, OfComment
  <1>2. \/ (\E b \in BOOLEAN : EndCc(b)) /\ UNCHANGED <<ops, slots>>
        \/ ops[C] = "unsent" /\ Row("pending") /\ slots' = Freed(C) /\ Go("claim")
        \/ ops[C] \notin Final \cup {"unknown"} /\ Go("claim") /\ UNCHANGED <<ops, slots>>
        \/ ops[C] = "unknown" /\ UNCHANGED slots /\ Row("succeeded") /\ EndCc(FALSE)
    BY Booleans DEF CcSettle
  <1>3. CASE ops[C] = "unsent" /\ Row("pending") /\ slots' = Freed(C) /\ Go("claim")
    <2>1. /\ ops' \in [Keys -> States] /\ ops'[C] = "pending"
          /\ \A k \in Keys \ {C} : ops'[k] = ops[k]
      BY <1>3, RowSet DEF States
    <2>2. /\ pass' \in Passes /\ pass'.event = pass.event /\ pass'.todo = pass.todo
          /\ pass'.plan = P /\ pass'.pc = "claim"
      BY <1>3, AtGo DEF Places
    <2>3. slots' \in [Users -> CcRows \cup {Nobody}] /\ Reserved'
      BY <1>1, <1>3, <2>1, ReservedFreed DEF Kept
    <2> QED
      BY <1>1, <2>1, <2>2, <2>3, Types, CommentStep DEF Final
  <1>4. CASE ops[C] = "unknown" /\ UNCHANGED slots /\ Row("succeeded") /\ EndCc(FALSE)
    BY <1>1, <1>4, Booleans, CommentEnds DEF States, Kept
  <1> QED
    BY <1>1, <1>2, <1>3, <1>4, CommentRests

\* The recipients are reserved with the claim.
LEMMA ClaimStep ==
    ASSUME EventsIInv, Claim
    PROVE  EventsIInv'
  <1>1. /\ At("claim") /\ pass.pc \in OfComment /\ Pays /\ UNCHANGED <<remote, vetoed>>
        /\ (Well \/ Fails)
    BY DEF Claim, At, OfComment
  <1>2. ops[C] \notin Kept
    BY <1>1 DEF EventsIInv, Underway, Kept, Final
  <1> DEFINE fresh == {u \in Cc[plans[P]] : Fresh(u)}
             room == Limit - Cardinality({u \in Users : slots[u] # Nobody})
             size == Least(room, Cardinality(fresh))
  <1>3. \/ EndCc(TRUE) /\ UNCHANGED <<ops, slots>>
        \/ /\ \E s \in {"superseded", "succeeded"}, b \in BOOLEAN : Row(s) /\ EndCc(b)
           /\ UNCHANGED slots
        \/ /\ Row("claimed") /\ Go("preflight")
           /\ \E take \in kSubset(size, fresh) :
                 slots' = [u \in Users |-> IF u \in take THEN C ELSE slots[u]]
    BY Booleans DEF Claim
  <1>4. CASE EndCc(TRUE) /\ UNCHANGED <<ops, slots>>
    BY <1>1, <1>4, Booleans, CommentRests
  <1>5. ASSUME NEW s \in {"superseded", "succeeded"}, NEW b \in BOOLEAN, Row(s), EndCc(b),
               UNCHANGED slots
        PROVE  EventsIInv'
    <2>1. s \in States
      BY DEF States
    <2> QED
      BY <1>1, <1>2, <1>5, <2>1, CommentEnds
  <1>6. ASSUME Row("claimed"), Go("preflight"), NEW take \in kSubset(size, fresh),
               slots' = [u \in Users |-> IF u \in take THEN C ELSE slots[u]]
        PROVE  EventsIInv'
    <2>1. /\ ops' \in [Keys -> States] /\ ops'[C] = "claimed"
          /\ \A k \in Keys \ {C} : ops'[k] = ops[k]
      BY <1>6, RowSet DEF States
    <2>2. /\ pass' \in Passes /\ pass'.event = pass.event /\ pass'.todo = pass.todo
          /\ pass'.plan = P /\ pass'.pc = "preflight"
      BY <1>6, AtGo DEF Places
    <2>3. slots' \in [Users -> CcRows \cup {Nobody}] /\ Reserved'
      BY <1>1, <1>6, <2>1, ReservedTaken
    <2> QED
      BY <1>1, <2>1, <2>2, <2>3, Types, CommentStep
  <1> QED
    BY <1>3, <1>4, <1>5, <1>6

\* Everything is read again before the comment is sent.
LEMMA PreflightStep ==
    ASSUME EventsIInv, Preflight
    PROVE  EventsIInv'
  <1>1. /\ At("preflight") /\ pass.pc \in OfComment /\ Pays /\ UNCHANGED <<remote, vetoed>>
        /\ (Well \/ Fails)
    BY DEF Preflight, At, OfComment
  <1>2. ops[C] \notin Kept
    BY <1>1 DEF EventsIInv, Underway, Kept
  <1>3. \/ Row("running") /\ Go("send") /\ UNCHANGED slots
        \/ \E s \in {"superseded", "pending", "failed"}, b \in BOOLEAN :
              Row(s) /\ slots' = Freed(C) /\ EndCc(b)
    BY Booleans DEF Preflight
  <1>4. CASE Row("running") /\ Go("send") /\ UNCHANGED slots
    <2>1. /\ ops' \in [Keys -> States] /\ ops'[C] = "running"
          /\ \A k \in Keys \ {C} : ops'[k] = ops[k]
      BY <1>4, RowSet DEF States
    <2>2. /\ pass' \in Passes /\ pass'.event = pass.event /\ pass'.todo = pass.todo
          /\ pass'.plan = P /\ pass'.pc = "send"
      BY <1>4, AtGo DEF Places
    <2>3. \A k \in CcRows : ops[k] \in Kept => ops'[k] \in Kept
      BY <1>2, <2>1, KeyFacts
    <2>4. Reserved'
      BY <1>1, <1>4, <2>3, ReservedKept
    <2> QED
      BY <1>1, <1>4, <2>1, <2>2, <2>4, Types, CommentStep
  <1>5. ASSUME NEW s \in {"superseded", "pending", "failed"}, NEW b \in BOOLEAN,
               Row(s), slots' = Freed(C), EndCc(b)
        PROVE  EventsIInv'
    <2>1. s \in States
      BY DEF States
    <2> QED
      BY <1>1, <1>2, <1>5, <2>1, CommentEnds
  <1> QED
    BY <1>3, <1>4, <1>5

\* The comment is sent.
LEMMA SendStep ==
    ASSUME EventsIInv, Send
    PROVE  EventsIInv'
  <1>1. At("send") /\ pass.pc \in OfComment /\ Pays /\ UNCHANGED vetoed /\ (Well \/ Fails)
    BY DEF Send, At, OfComment
  <1>2. ops[C] \notin Kept
    BY <1>1 DEF EventsIInv, Underway, Kept
  <1>3. PICK s \in {"succeeded", "unknown", "failed"}, b \in BOOLEAN :
          /\ Row(s) /\ EndCc(b)
          /\ \/ remote' = Posted /\ UNCHANGED slots /\ s # "failed"
             \/ UNCHANGED <<remote, slots>>
             \/ UNCHANGED remote /\ slots' = Freed(C)
    BY Booleans DEF Send
  <1>4. s \in States
    BY DEF States
  <1>5. CASE remote' = Posted /\ UNCHANGED slots /\ s # "failed"
    <2>1. /\ ops' \in [Keys -> States] /\ ops'[C] = s
          /\ \A k \in Keys \ {C} : ops'[k] = ops[k]
      BY <1>3, <1>4, RowSet
    <2>2. /\ pass' \in Passes /\ pass'.event = pass.event /\ pass'.todo = pass.todo
          /\ pass'.plan = P /\ pass'.pc \in {"revoke", "each", "close"}
      BY <1>3, EndCcPass
    <2>3. \A k \in CcRows : ops[k] \in Kept => ops'[k] \in Kept
      BY <1>2, <2>1, KeyFacts
    <2>4. Reserved'
      BY <1>1, <1>5, <2>1, <2>3, ReservedPosted DEF Kept
    <2> QED
      BY <1>1, <1>5, <2>1, <2>2, <2>4, Types, PostedRemote, CommentStep
  <1>6. CASE UNCHANGED <<remote, slots>> \/ (UNCHANGED remote /\ slots' = Freed(C))
    BY <1>1, <1>2, <1>3, <1>4, <1>6, CommentEnds
  <1> QED
    BY <1>3, <1>5, <1>6

-----------------------------------------------------------------------------
(* Restarts and retries. *)

\* What a restart makes of the rows.
LEMMA Recovered ==
    ASSUME EventsIInv
    PROVE  /\ Recover \in [Keys -> States]
           /\ \A k \in Keys : Recover[k] = IF ops[k] = "claimed" THEN "unsent"
                                           ELSE IF ops[k] = "running" THEN "unknown" ELSE ops[k]
  <1>1. ops \in [Keys -> States]
    BY Types
  <1> QED
    BY <1>1 DEF Recover, States

\* The process stops, and what it had claimed is recovered.
LEMMA CrashStep ==
    ASSUME EventsIInv, Crash
    PROVE  EventsIInv'
  <1>1. /\ Fails /\ pass' = Free /\ UNCHANGED <<inbox, subs, plans, slots, first, vetoed>>
        /\ \/ ops' = Recover /\ remote' = remote
           \/ /\ At("wire") /\ remote' \in {remote, Written}
              /\ ops' = Set(Recover, ChildOf(P), "unknown")
           \/ At("send") /\ ops' = Recover /\ remote' = Posted
    BY DEF Crash
  <1>2. "unknown" \in States
    BY DEF States
  <1>3. /\ ops' \in [Keys -> States]
        /\ \A k \in Plans \cup CcRows : ops'[k] = Recover[k]
    <2>1. CASE ops' = Recover
      BY <2>1, Recovered
    <2>2. CASE ops' = Set(Recover, ChildOf(P), "unknown")
      <3>1. /\ ops' \in [Keys -> States]
            /\ \A k \in Keys \ {ChildOf(P)} : ops'[k] = Recover[k]
        BY <1>2, <2>2, Recovered, PlanKeys, Sets
      <3>2. ChildOf(P) \notin Plans \cup CcRows
        BY PlanKeys, KeyFacts
      <3> QED
        BY <3>1, <3>2, KeyFacts
    <2> QED
      BY <1>1, <2>1, <2>2
  <1>4. /\ \A k \in Plans \cup CcRows : ops'[k] = IF ops[k] = "claimed" THEN "unsent"
                                           ELSE IF ops[k] = "running" THEN "unknown" ELSE ops[k]
    BY <1>3, Recovered, KeyFacts
  <1>5. remote' \in Remotes
    BY <1>1, Types, WrittenRemote, PostedRemote
  <1>6. Typed'
    BY <1>1, <1>3, <1>5, Types, Budget, FreeFacts DEF Typed
  <1>7. Frozen' /\ Saved' = Saved
    BY <1>1, FrozenKept
  <1>8. Timely'
    <2>1. head \in Heads /\ (\A h \in Heads : 1 <= h) /\ head' = head
      BY <1>1, Types, Budget, EventsAssumption DEF Heads
    <2> QED
      BY <1>1, <2>1, FreeFacts DEF EventsIInv, Timely
  <1>9. Underway'
    BY <1>1, FreeFacts DEF Underway, At, OfPlan, OfComment
  <1>10. PlanRows'
    BY <1>4 DEF EventsIInv, PlanRows
  <1>11. Vetoes'
    BY <1>1, <1>4, Types DEF EventsIInv, Vetoes, Final
  <1>12. Reported'
    <2>1. ops'[Report] \in {"absent", "pending"} => ops[Report] \in {"absent", "pending"}
      BY <1>4, KeyFacts
    <2>2. remote.computed \in Nat /\ remote.reports \in Nat
      BY Types DEF Remotes
    <2>3. /\ remote'.computed = remote.computed
          /\ \/ remote'.reports = remote.reports
             \/ At("wire") /\ P = Report /\ remote'.reports = remote.reports + 1
      BY <1>1, WrittenRemote, PostedRemote
    <2> QED
      BY <1>1, <2>1, <2>2, <2>3, FreeFacts DEF EventsIInv, Reported, At
  <1>13. Reserved'
    <2>1. \A k \in CcRows : ops[k] \in Kept => ops'[k] \in Kept
      BY <1>4 DEF Kept
    <2>2. CASE remote'.mentions = remote.mentions
      BY <1>1, <2>1, <2>2, ReservedKept
    <2>3. CASE At("send") /\ remote' = Posted
      <3>1. ops[C] = "running"
        BY <2>3 DEF EventsIInv, Underway
      <3>2. ops'[C] \in Kept
        BY <1>4, <3>1, RowNow DEF Kept
      <3> QED
        BY <1>1, <2>1, <2>3, <3>2, ReservedPosted
    <2> QED
      BY <1>1, <2>2, <2>3, WrittenRemote
  <1> QED
    BY <1>6, <1>7, <1>8, <1>9, <1>10, <1>11, <1>12, <1>13 DEF EventsIInv

\* The time of a retry comes.
LEMMA DueStep ==
    ASSUME EventsIInv, NEW k \in Keys, Due(k)
    PROVE  EventsIInv'
  <1>1. /\ ops[k] = "deferred" /\ ops' = Set(ops, k, "pending") /\ Well
        /\ UNCHANGED <<inbox, subs, plans, slots, remote, pass, first, vetoed>>
    BY DEF Due
  <1>2. /\ ops' \in [Keys -> States] /\ ops'[k] = "pending"
        /\ \A j \in Keys \ {k} : ops'[j] = ops[j]
    BY <1>1, Types, Sets DEF States
  <1>3. k \notin Plans
    BY <1>1 DEF EventsIInv, PlanRows
  <1>4. \A p \in Plans : ops'[p] = ops[p]
    BY <1>2, <1>3, KeyFacts
  <1>5. ops'[C] = ops[C] \/ (ops[C] = "deferred" /\ ops'[C] = "pending")
    BY <1>1, <1>2, RowNow
  <1>6. Typed'
    BY <1>1, <1>2, Types, Budget DEF Typed
  <1>7. Timely' /\ Frozen' /\ Saved' = Saved
    BY <1>1, Budget, FrozenKept, TimelyKept
  <1>8. ops'[P] = ops[P]
    BY <1>4, PlanKeys
  <1>9. P' = P /\ C' = C
    BY <1>1 DEF P, C
  <1>10. Underway'
    BY <1>1, <1>5, <1>7, <1>8, <1>9 DEF EventsIInv, Underway, At, Final
  <1>11. PlanRows' /\ Vetoes'
    BY <1>1, <1>4, Types DEF EventsIInv, PlanRows, Vetoes, At, P
  <1>12. Reported'
    BY <1>1, <1>4, KeyFacts DEF EventsIInv, Reported, At, P
  <1>13. Reserved'
    <2>1. \A j \in CcRows : ops[j] \in Kept => ops'[j] \in Kept
      BY <1>1, <1>2, KeyFacts DEF Kept
    <2> QED
      BY <1>1, <2>1, ReservedKept
  <1> QED
    BY <1>6, <1>7, <1>10, <1>11, <1>12, <1>13 DEF EventsIInv

-----------------------------------------------------------------------------
(* The properties. *)

\* The invariant holds at first.
LEMMA InitHolds ==
    ASSUME Init
    PROVE  EventsIInv
  <1>1. /\ head = 1 /\ policy \in Policies
        /\ inbox = [e \in Events |-> IF e.head = 1 THEN "waiting" ELSE "absent"]
        /\ subs = [e \in Events |-> Unset] /\ plans = [p \in Plans |-> Unset]
        /\ ops = [k \in Keys |-> "absent"] /\ slots = [u \in Users |-> Nobody]
        /\ remote = [labelled |-> FALSE, computed |-> 0, reports |-> 0,
                     comments |-> {}, mentions |-> [u \in Users |-> 0]]
        /\ pass = Free /\ first = [x \in Plans \cup Events |-> Unset] /\ vetoed = {}
        /\ moves = 0 /\ faults = 0
    BY DEF Init
  <1>2. 1 \in Heads /\ \A h \in Heads : 1 <= h
    BY EventsAssumption DEF Heads
  <1>3. remote \in Remotes
    <2> DEFINE m == [u \in Users |-> 0]
    <2>1. m \in [Users -> Nat]
      OBVIOUS
    <2>2. remote = [labelled |-> FALSE, computed |-> 0, reports |-> 0, comments |-> {},
                    mentions |-> m]
      BY <1>1
    <2> HIDE DEF m
    <2> QED
      BY <2>1, <2>2 DEF Remotes
  <1>4. Typed
    <2>1. inbox \in [Events -> {"absent", "waiting", "done"}]
      BY <1>1
    <2>2. /\ subs \in [Events -> Answers] /\ plans \in [Plans -> Answers]
          /\ first \in [Plans \cup Events -> Answers]
      BY <1>1 DEF Answers
    <2>3. ops \in [Keys -> States] /\ slots \in [Users -> CcRows \cup {Nobody}]
      BY <1>1 DEF States
    <2>4. moves \in 0..MaxMoves /\ faults \in 0..MaxFaults
      BY <1>1, EventsAssumption
    <2> QED
      BY <1>1, <1>2, <1>3, <2>1, <2>2, <2>3, <2>4, FreeFacts DEF Typed
  <1>5. Saved = {}
    BY <1>1, EventsAssumption, KeyFacts DEF Saved
  <1>6. Timely
    BY <1>1, FreeFacts DEF Timely
  <1>7. Frozen
    BY <1>1, <1>5, EventsAssumption, KeyFacts DEF Frozen
  <1>8. Underway
    BY <1>1, FreeFacts DEF Underway, At, OfPlan, OfComment
  <1>9. PlanRows /\ Vetoes
    BY <1>1, KeyFacts DEF PlanRows, Vetoes
  <1>10. Reported
    BY <1>1, FreeFacts DEF Reported, At
  <1>11. Reserved
    <2>1. Taken = {}
      BY <1>1 DEF Taken
    <2>2. Mentions
      BY <1>1 DEF Mentions
    <2> QED
      BY <2>1, <2>2, FS_EmptySet, EventsAssumption DEF Reserved
  <1> QED
    BY <1>4, <1>6, <1>7, <1>8, <1>9, <1>10, <1>11 DEF EventsIInv

\* The invariant survives a step that changes nothing.
LEMMA StutterHolds ==
    ASSUME EventsIInv, UNCHANGED vars
    PROVE  EventsIInv'
  <1>1. /\ UNCHANGED <<head, policy, inbox, subs, plans, ops, slots, remote, pass, first>>
        /\ UNCHANGED <<vetoed, moves, faults>>
    BY DEF vars, ledger
  <1>2. Typed'
    BY <1>1 DEF EventsIInv, Typed
  <1>3. Timely' /\ Frozen' /\ Saved' = Saved
    BY <1>1, FrozenKept, TimelyKept
  <1> QED
    BY <1>1, <1>2, <1>3
    DEF EventsIInv, Underway, PlanRows, Vetoes, Reported, Reserved, Mentions, Taken, At, P, C

\* The invariant is inductive.
LEMMA NextHolds ==
    ASSUME EventsIInv, [Next]_vars
    PROVE  EventsIInv'
  <1>1. CASE Push \/ Edit \/ Unlabel
    BY <1>1, PushStep, EditStep, UnlabelStep
  <1>2. CASE OpenedPlan \/ Subscribe \/ NextRevoked \/ Snapshot \/ NextSaved \/ Freeze \/ Done
    BY <1>2, OpenedStep, SubscribeStep, RevokedNextStep, SnapshotStep, SavedNextStep, FreezeStep,
       DoneStep
  <1>3. CASE Settle \/ Reconcile \/ Compute \/ Fence \/ Wire
    BY <1>3, SettleStep, ReconcileStep, ComputeStep, FenceStep, WireStep
  <1>4. CASE CcSettle \/ Claim \/ Preflight \/ Send
    BY <1>4, CcSettleStep, ClaimStep, PreflightStep, SendStep
  <1>5. CASE Crash
    BY <1>5, CrashStep
  <1>6. ASSUME NEW e \in Events, Begin(e)
        PROVE  EventsIInv'
    BY <1>6, BeginStep
  <1>7. ASSUME NEW k \in Keys, Due(k)
        PROVE  EventsIInv'
    BY <1>7, DueStep
  <1>8. CASE UNCHANGED vars
    BY <1>8, StutterHolds
  <1> QED
    BY <1>1, <1>2, <1>3, <1>4, <1>5, <1>6, <1>7, <1>8 DEF Next, Work

\* The inductive invariant is an invariant of the automatic actions.
THEOREM EventsInvariant == Spec => []EventsIInv
  <1>1. Init => EventsIInv
    BY InitHolds
  <1>2. EventsIInv /\ [Next]_vars => EventsIInv'
    BY NextHolds
  <1> QED
    BY <1>1, <1>2, PTL DEF Spec

\* Whatever is lost or interrupted, nobody is mentioned twice on a pull request and
\* no more people than the limit (claim_notification, finish, recover_running).
THEOREM MentionedOnce == Spec => []EventsInv
  <1>1. EventsIInv => EventsInv
    <2> SUFFICES ASSUME EventsIInv
                 PROVE  EventsInv
      OBVIOUS
    <2>1. EventsTypeOK
      BY TypedIsTypeOK DEF EventsIInv
    <2>2. \A u \in Users : remote.mentions[u] > 0 => slots[u] # Nobody
      BY KeyFacts DEF EventsIInv, Reserved, Mentions
    <2>3. RecipientsOnce
      BY <2>2 DEF EventsIInv, Reserved, Mentions, Taken, RecipientsOnce
    <2> QED
      BY <2>1, <2>3 DEF EventsInv
  <1> QED
    BY <1>1, EventsInvariant, PTL

\* A report is computed once and posted at most once, also when its rule goes and
\* comes back (execute).
THEOREM ReportsOnce == Spec => []ReportedOnce
  <1>1. EventsIInv => ReportedOnce
    <2> SUFFICES ASSUME EventsIInv
                 PROVE  ReportedOnce
      OBVIOUS
    <2>1. remote.computed \in Nat /\ remote.reports \in Nat
      BY Types DEF Remotes
    <2> QED
      BY <2>1 DEF EventsIInv, Reported, ReportedOnce
  <1> QED
    BY <1>1, EventsInvariant, PTL

\* Nothing is written for a rule that came after the webhook was first looked at,
\* nor for a plan that was once found revoked (opened_plan, path_subscription,
\* revoke_opened).
THEOREM OnlyAuthorizedWrites == Spec => WritesAuthorized
  <1> DEFINE A == At("wire") /\ remote' # remote =>
                /\ P \notin vetoed
                /\ IF P = Report THEN plans[P] = first[P]
                   ELSE \E e \in Events : e.action = P.action /\ plans[P] = first[e]
  <1>1. ASSUME EventsIInv, At("wire")
        PROVE  /\ P \notin vetoed
               /\ IF P = Report THEN plans[P] = first[P]
                  ELSE \E e \in Events : e.action = P.action /\ plans[P] = first[e]
    <2>1. ops[P] = "running" /\ plans[P] \in Rules
      BY <1>1 DEF EventsIInv, Underway, At, OfPlan
    <2>2. P \notin vetoed
      BY <1>1, <2>1 DEF EventsIInv, Vetoes, Final
    <2>3. CASE P = Report
      BY <1>1, <2>2, <2>3 DEF EventsIInv, Frozen
    <2>4. CASE P # Report
      <3>1. P \in Saved
        BY <1>1, <2>1, <2>4, PlanKeys, KeyFacts DEF Saved
      <3> QED
        BY <1>1, <2>2, <2>4, <3>1 DEF EventsIInv, Frozen
    <2> QED
      BY <2>3, <2>4
  <1>2. EventsIInv /\ [Next]_vars => A
    BY <1>1
  <1>3. WritesAuthorized <=> [][A]_vars
    BY DEF WritesAuthorized
  <1> HIDE DEF A
  <1> QED
    BY <1>2, <1>3, EventsInvariant, PTL DEF Spec

=============================================================================
