--------------------------- MODULE ForgejoBridge ---------------------------
(***************************************************************************)
(* The two-way bridge of src/forgejo/bridge.rs: issues, pull requests and  *)
(* comments written on one provider are copied to the other.  Webhooks are *)
(* stored as deliveries, one lane per source object, and a single worker   *)
(* (bridge/inbox.rs) takes them one at a time.  Objects and comments can   *)
(* only be created by a POST that must not be repeated, so a row reserves  *)
(* it first (trigger_state/bridge_store.rs); an operator resolves what     *)
(* stays unknown while the server is stopped.                              *)
(*                                                                         *)
(* A peer bears the name of the item it was created for.  What people      *)
(* write is a number, and rendering it on the other side may change it     *)
(* once (mentions become links).  The webhooks of the bot's own writes are *)
(* skipped by sender and left out.                                         *)
(***************************************************************************)
EXTENDS Naturals, SequencesExt, FiniteSetsExt

CONSTANTS
    Items,      \* issues and pull requests people open
    Home,       \* the provider an item is opened on
    Comments,   \* comments people write: [item, side]
    Mentions,   \* texts that read differently on the other provider
    Reverts,    \* whether people restore an earlier text
    MaxText,    \* bound: texts
    MaxMoves,   \* bound: edits, policy changes, planned stops
    MaxFaults   \* bound: failed or unanswered calls and crashes

Sides == {"github", "forgejo"}
Other(s) == IF s = "github" THEN "forgejo" ELSE "github"
Relays == {"items", "comments"}

ASSUME BridgeAssumption ==
    /\ IsFiniteSet(Items) /\ IsFiniteSet(Comments) /\ Items \cap Comments = {}
    /\ Home \in [Items -> Sides]
    /\ \A c \in Comments : c.item \in Items /\ c.side \in Sides
    /\ Mentions \subseteq Nat /\ Reverts \in BOOLEAN
    /\ MaxText \in Nat \ {0} /\ MaxMoves \in Nat /\ MaxFaults \in Nat

VARIABLES
    content,     \* what each side shows of each item
    copies,      \* how many peers exist of each item and comment
    policy,      \* what each repository's bridge policy allows
    creates,     \* reserved creations of items
    linked,      \* items mapped to their peer, in both directions
    revision,    \* the content last recorded as equal on both sides
    relayed,     \* each comment: absent, reserved, recorded
    deliveries,  \* the stored webhooks, oldest first
    worker,      \* the one consumer
    up,          \* the server runs; otherwise the operator may
    moves, faults

people == <<policy, moves>>
remote == <<content, copies>>
mapping == <<creates, linked, revision, relayed>>
vars == <<people, remote, mapping, deliveries, worker, up, faults>>

Texts == [text : 1..MaxText, rendered : BOOLEAN]
Absent == [text |-> 0, rendered |-> FALSE]
Rendered(x) == [x EXCEPT !.rendered = @ \/ x.text \in Mentions]
\* "left" is a running row of this process whose outcome could not be stored.
DeliveryStates == {"pending", "running", "left", "waiting", "blocked", "done", "skipped"}
Delivery == [about : Items \cup Comments, side : Sides, opened : BOOLEAN,
             state : DeliveryStates]
Free == [pc |-> "idle", job |-> 0, read |-> Absent]

BridgeTypeOK ==
    /\ content \in [Sides -> [Items -> Texts \cup {Absent}]]
    /\ copies \in [Items \cup Comments -> Nat]
    /\ policy \in [Sides -> SUBSET (Relays \cup {"invalid"})]
    /\ creates \subseteq Items /\ linked \subseteq Items
    /\ revision \in [Items -> Texts \cup {Absent}]
    /\ relayed \in [Comments -> {"absent", "reserved", "recorded"}]
    /\ deliveries \in Seq(Delivery)
    /\ worker \in [pc : {"idle", "gate", "read", "reserve", "post", "link", "patch", "labels",
                         "record"},
                   job : 0..Len(deliveries), read : Texts \cup {Absent}]
    /\ up \in BOOLEAN /\ moves \in 0..MaxMoves /\ faults \in 0..MaxFaults

Init ==
    /\ content = [s \in Sides |-> [i \in Items |-> Absent]]
    /\ copies = [i \in Items \cup Comments |-> 0]
    /\ policy = [s \in Sides |-> Relays]
    /\ creates = {} /\ linked = {}
    /\ revision = [i \in Items |-> Absent]
    /\ relayed = [c \in Comments |-> "absent"]
    /\ deliveries = <<>>
    /\ worker = Free
    /\ up = TRUE
    /\ moves = 0 /\ faults = 0

----------------------------------------------------------------------------
(* People.  A webhook is answered after its delivery is stored.            *)

\* The lane of a delivery is the source object, whichever event it reports.
ItemOf(about) == IF about \in Items THEN about ELSE about.item
Lane(d) == <<deliveries[d].side, ItemOf(deliveries[d].about)>>
Enqueue(about, side, opened) == deliveries' = Append(deliveries,
    [about |-> about, side |-> side, opened |-> opened, state |-> "pending"])
Known(x) == \E d \in DOMAIN deliveries : deliveries[d].about = x
Written(n) == [text |-> n, rendered |-> FALSE]

Open(i) ==
    /\ up /\ ~Known(i)
    /\ content' = [content EXCEPT ![Home[i]][i] = Written(1)]
    /\ Enqueue(i, Home[i], TRUE)
    /\ UNCHANGED <<people, copies, mapping, worker, up, faults>>

Edit(s, i) ==
    /\ up /\ moves < MaxMoves /\ moves' = moves + 1 /\ content[s][i] # Absent
    /\ \E n \in 1..MaxText :
          /\ Written(n) # content[s][i]
          /\ Reverts \/ n = 1 + Max({content[p][i].text : p \in Sides})
          /\ content' = [content EXCEPT ![s][i] = Written(n)]
    /\ Enqueue(i, s, FALSE)
    /\ UNCHANGED <<policy, copies, mapping, worker, up, faults>>

Say(c) ==
    /\ up /\ ~Known(c) /\ content[c.side][c.item] # Absent
    /\ Enqueue(c, c.side, FALSE)
    /\ UNCHANGED <<people, remote, mapping, worker, up, faults>>

SetPolicy(s) ==
    /\ moves < MaxMoves /\ moves' = moves + 1
    /\ \E p \in {Relays, Relays \ {"comments"}, {}, {"invalid"}} \ {policy[s]} :
          policy' = [policy EXCEPT ![s] = p]
    /\ UNCHANGED <<remote, mapping, deliveries, worker, up, faults>>

----------------------------------------------------------------------------
(* The deliveries table.                                                   *)

SetState(d, state) == deliveries' = [deliveries EXCEPT ![d].state = state]
EligibleAlone == {d \in DOMAIN deliveries :
    /\ deliveries[d].state = "pending"
    /\ \A e \in DOMAIN deliveries :
          Lane(e) = Lane(d) => deliveries[e].state \notin {"running", "left"}}
\* bridge_claim_delivery: a lane is held by a blocked or running delivery and
\* otherwise taken in order; among lanes the oldest goes first.
Eligible == {d \in DOMAIN deliveries :
    /\ deliveries[d].state = "pending"
    /\ \A e \in DOMAIN deliveries : Lane(e) = Lane(d) =>
          /\ deliveries[e].state \notin {"blocked", "running", "left"}
          /\ e < d => deliveries[e].state \notin {"waiting", "pending"}}

Due(d) ==
    /\ up /\ deliveries[d].state = "waiting"
    /\ SetState(d, "pending")
    /\ UNCHANGED <<people, remote, mapping, worker, up, faults>>

Claim ==
    /\ up /\ worker.pc = "idle" /\ Eligible # {}
    /\ SetState(Min(Eligible), "running")
    /\ worker' = [Free EXCEPT !.pc = "gate", !.job = Min(Eligible)]
    /\ UNCHANGED <<people, remote, mapping, up, faults>>

----------------------------------------------------------------------------
(* The worker.  It ends a job with finish_outcome.                         *)

Job == deliveries[worker.job]
At(pc) == up /\ worker.pc = pc
Go(pc) == worker' = [worker EXCEPT !.pc = pc] /\ UNCHANGED deliveries
End(state) == SetState(worker.job, state) /\ worker' = Free
Well == UNCHANGED <<people, up, faults>>
Fails == faults < MaxFaults /\ faults' = faults + 1 /\ UNCHANGED <<people, up>>

\* Both repositories must allow the relay; a broken policy needs a person.
Consent(s, relay) ==
    IF "invalid" \in policy[s] THEN "blocked"
    ELSE IF relay \in policy[s] THEN "granted" ELSE "skipped"
Admit(s, relay, next) ==
    /\ At("gate") /\ Job.side = s /\ (Job.about \in Items <=> relay = "items")
    /\ UNCHANGED <<remote, mapping>>
    /\ \/ /\ Well
          /\ LET here == Consent(s, relay) there == Consent(Other(s), relay) IN
             IF here # "granted" THEN End(here)
             ELSE IF there # "granted" THEN End(there) ELSE next
       \/ Fails /\ End("waiting") \* a policy or identity read fails
Forward == Go("read") \/ End("blocked") \* refs of a pull request conflict
\* A comment without a mapped item is dropped.
Relay == IF Job.about.item \in linked THEN Go("reserve") ELSE End("skipped")

FromGitHub == Admit("github", "items", Forward)
FromForgejo == Admit("forgejo", "items", Forward)
CommentFromGitHub == Admit("github", "comments", Relay)
CommentFromForgejo == Admit("forgejo", "comments", Relay)

\* forward_item reads the source as it is now, under the scope's lock.
Read ==
    /\ At("read") /\ UNCHANGED <<remote, mapping>>
    /\ \/ /\ Well
          /\ LET i == Job.about
                 x == content[Job.side][i]
             IN CASE i \notin linked /\ ~Job.opened -> End("skipped")
                  [] i \in linked /\ revision[i] = x -> End("done")
                  [] OTHER -> /\ worker' = [worker EXCEPT !.read = x,
                                     !.pc = IF i \in linked THEN "patch" ELSE "reserve"]
                              /\ UNCHANGED deliveries
       \/ Fails /\ End("waiting")

ReserveAgain ==
    /\ At("reserve") /\ Well /\ UNCHANGED <<remote, linked, revision>> /\ Go("post")
    /\ IF Job.about \in Items
       THEN creates' = creates \cup {Job.about} /\ UNCHANGED relayed
       ELSE relayed' = [relayed EXCEPT ![Job.about] = "reserved"] /\ UNCHANGED creates

\* bridge_create_begin, bridge_comment_begin.
Reserve ==
    /\ At("reserve") /\ Well /\ UNCHANGED <<remote, linked, revision>>
    /\ LET x == Job.about IN
       IF x \in Items
       THEN /\ IF x \in creates THEN End("blocked") ELSE Go("post")
            /\ creates' = creates \cup {x} /\ UNCHANGED relayed
       ELSE /\ CASE relayed[x] = "absent" -> Go("post")
                 [] relayed[x] = "reserved" -> End("blocked")
                 [] OTHER -> End("done")
            /\ relayed' = [relayed EXCEPT ![x] = IF @ = "absent" THEN "reserved" ELSE @]
            /\ UNCHANGED creates

Created ==
    /\ copies' = [copies EXCEPT ![Job.about] = @ + 1]
    /\ content' = IF Job.about \in Items
                  THEN [content EXCEPT ![Other(Job.side)][Job.about] = Rendered(worker.read)]
                  ELSE content

\* The POST: it succeeds, is refused, or its answer is lost.
Post ==
    /\ At("post") /\ UNCHANGED mapping
    /\ \/ Created /\ Well /\ Go("link")
       \/ Created /\ Fails /\ End("blocked")
       \/ UNCHANGED remote /\ Fails /\ End("blocked")

\* bridge_link with an empty revision; bridge_comment_finish.
Link ==
    /\ At("link") /\ Well /\ UNCHANGED remote
    /\ LET x == Job.about IN
       IF x \in Items
       THEN /\ linked' = linked \cup {x} /\ creates' = creates \ {x}
            /\ revision' = [revision EXCEPT ![x] = Absent]
            /\ Go("patch") /\ UNCHANGED relayed
       ELSE /\ relayed' = [relayed EXCEPT ![x] = "recorded"]
            /\ End("done") /\ UNCHANGED <<creates, linked, revision>>

\* update_peer: the reserved labels are read, then title, text and state are
\* written, then the labels, then the revision.  A failed write waits for the
\* operator, a failed look at labels does not.
Patched == content' = [content EXCEPT ![Other(Job.side)][Job.about] = Rendered(worker.read)]
Patch ==
    /\ At("patch") /\ UNCHANGED <<copies, mapping>>
    /\ \/ Patched /\ Well /\ Go("labels")
       \/ Patched /\ Fails /\ End("blocked")
       \/ UNCHANGED content /\ Fails /\ (End("waiting") \/ End("blocked"))
Labels ==
    /\ At("labels") /\ UNCHANGED <<remote, mapping>>
    /\ \/ Well /\ Go("record")
       \/ Fails /\ (End("waiting") \/ End("blocked"))
RecordRendered ==
    /\ At("record") /\ Well /\ UNCHANGED <<remote, creates, linked, relayed>>
    /\ revision' = [revision EXCEPT ![Job.about] = content[Job.side][Job.about]]
    /\ End("done")
Record ==
    /\ At("record") /\ Well /\ UNCHANGED <<remote, creates, linked, relayed>>
    /\ revision' = [revision EXCEPT ![Job.about] = worker.read]
    /\ End("done")

Work ==
    \/ Claim \/ FromGitHub \/ FromForgejo \/ CommentFromGitHub \/ CommentFromForgejo
    \/ Read \/ Reserve \/ Post \/ Link \/ Patch \/ Labels \/ Record

----------------------------------------------------------------------------
(* Restarts and the operator.                                              *)

\* The store refuses the outcome of a job (finish_outcome): its row stays
\* running, and holds its lane, until the server is started again.
Unfinished == up /\ worker.pc # "idle" /\ Fails /\ End("left") /\ UNCHANGED <<remote, mapping>>

Crash ==
    /\ up /\ worker.pc # "idle" /\ faults < MaxFaults /\ faults' = faults + 1
    /\ up' = FALSE /\ worker' = Free
    /\ UNCHANGED <<people, remote, mapping, deliveries>>

\* The operator stops the server to resolve or retry.
Stop ==
    /\ up /\ worker.pc = "idle" /\ moves < MaxMoves /\ moves' = moves + 1
    /\ up' = FALSE
    /\ UNCHANGED <<policy, remote, mapping, deliveries, worker, faults>>

StartKeepsRunning ==
    /\ ~up /\ up' = TRUE
    /\ UNCHANGED <<people, remote, mapping, deliveries, worker, faults>>
\* Store::open makes what was running pending again.
Start ==
    /\ ~up /\ up' = TRUE
    /\ deliveries' = [d \in DOMAIN deliveries |->
          [deliveries[d] EXCEPT !.state = IF @ \in {"running", "left"} THEN "pending" ELSE @]]
    /\ UNCHANGED <<people, remote, mapping, worker, faults>>

\* bridge_resolve, with what the operator sees on the other provider.
ResolveCreate(i) ==
    /\ ~up /\ i \in creates /\ creates' = creates \ {i}
    /\ linked' = IF copies[i] > 0 THEN linked \cup {i} ELSE linked
    /\ revision' = [revision EXCEPT ![i] = Absent]
    /\ UNCHANGED <<people, remote, relayed, deliveries, worker, up, faults>>
ResolveComment(c) ==
    /\ ~up /\ relayed[c] = "reserved"
    /\ relayed' = [relayed EXCEPT ![c] = IF copies[c] > 0 THEN "recorded" ELSE "absent"]
    /\ UNCHANGED <<people, remote, creates, linked, revision, deliveries, worker, up, faults>>
RetryDelivery(d) ==
    /\ ~up /\ deliveries[d].state \in {"blocked", "waiting"}
    /\ SetState(d, "pending")
    /\ UNCHANGED <<people, remote, mapping, worker, up, faults>>

Next ==
    \/ \E i \in Items : Open(i) \/ ResolveCreate(i) \/ \E s \in Sides : Edit(s, i)
    \/ \E c \in Comments : Say(c) \/ ResolveComment(c)
    \/ \E s \in Sides : SetPolicy(s)
    \/ \E d \in DOMAIN deliveries : Due(d) \/ RetryDelivery(d)
    \/ Work \/ Unfinished \/ Crash \/ Stop \/ Start

Spec == Init /\ [][Next]_vars

\* The consumer runs every two seconds, waits pass, the server is restarted.
FairSpec ==
    /\ Spec
    /\ WF_vars(Work) /\ WF_vars(Start)
    /\ \A d \in 1..(Cardinality(Items) + Cardinality(Comments) + MaxMoves) :
          WF_vars(d \in DOMAIN deliveries /\ Due(d))

----------------------------------------------------------------------------
(* Properties.                                                             *)

\* No object or comment is created twice on the other provider, whatever is
\* lost, restarted or retried by a truthful operator (reservations).
CreatedOnce == \A x \in Items \cup Comments : copies[x] <= 1

\* What was created is never forgotten: it is mapped, or its reservation is
\* there for the operator (create_peer, forward_comment, bridge_resolve).
CreationsAccounted ==
    /\ \A i \in Items : copies[i] > 0 => i \in linked \cup creates
    /\ \A c \in Comments : copies[c] > 0 => relayed[c] # "absent"

\* Rows and objects are well formed, and creations are neither repeated nor
\* forgotten.
BridgeInv == BridgeTypeOK /\ CreatedOnce /\ CreationsAccounted

\* The deliveries of one object end in the order they came in, through waits,
\* blocks, restarts and retries (bridge_claim_delivery).
LanesInOrder == \A d, e \in DOMAIN deliveries :
    d < e /\ Lane(d) = Lane(e) /\ deliveries[e].state \in {"done", "skipped"} =>
        deliveries[d].state \in {"done", "skipped"}

\* When every delivery about a mapped item has been carried out, both sides
\* show the same, also after edits on both sides and interrupted updates.
Settled(i) ==
    /\ i \in linked
    /\ \A d \in DOMAIN deliveries : deliveries[d].about = i => deliveries[d].state = "done"
SettledAgree == \A i \in Items : Settled(i) =>
    \/ content["forgejo"][i] = Rendered(content["github"][i])
    \/ content["github"][i] = Rendered(content["forgejo"][i])

\* Every stored delivery is carried out, skipped, or its lane waits for the
\* operator: for a retry, or for a start after an outcome could not be stored.
Resolved(d) == d \in DOMAIN deliveries => \E e \in DOMAIN deliveries :
    /\ Lane(e) = Lane(d)
    /\ deliveries[e].state \in {"blocked", "left"}
                                \cup (IF e = d THEN {"done", "skipped"} ELSE {})
LanesMove == \A d \in 1..(Cardinality(Items) + Cardinality(Comments) + MaxMoves) :
    d \in DOMAIN deliveries ~> Resolved(d)
=============================================================================
