---------------------------- MODULE RollupProofs ----------------------------
(***************************************************************************)
(* Theorems about the rollup queue for any pull requests, comments, moves  *)
(* by people, crashes and lost answers: the stored queue is well formed,   *)
(* no revision lands twice, and the fast-forward is requested only for     *)
(* what is tested and approved.                                            *)
(*                                                                         *)
(* RollupIInv says of both documents, the worker's and the stored one,     *)
(* that they never lose a decision (Carried) and that entries under test   *)
(* are those of the active batch (Tests); of the batches that what they    *)
(* were built from never changes (PlanOf) and that one built on main as it *)
(* is holds nothing that landed (Plans); of main that a landed revision is *)
(* no longer an open head (Spent); and of the worker what it has found out *)
(* before each of its places (Drives).                                     *)
(***************************************************************************)
EXTENDS Rollup, TLAPS, SequenceTheorems, FiniteSetTheorems

-----------------------------------------------------------------------------
(* The inductive invariant. *)

\* What a batch is built from.
PlanOf(bs) == [b \in DOMAIN bs |-> [members |-> bs[b].members, heads |-> bs[b].heads,
                                    base |-> bs[b].base, try |-> bs[b].try]]

\* Entries have keys and decisions of their own.
Distinct(es) ==
    /\ \A i, j \in DOMAIN es : es[i].key = es[j].key => i = j
    /\ \A i, j \in DOMAIN es : es[i].decision = es[j].decision => i = j

\* Decisions are commands the queue has recorded.
Known(r, cs) ==
    /\ r.commands \subseteq DOMAIN cs
    /\ \A i \in DOMAIN r.entries : r.entries[i].granted \in r.commands
                                   /\ r.entries[i].decision \in r.commands

\* When an entry has a number on GitHub.
NumberOf(e, pa) ==
    /\ e.key[1] = "github" => e.numbered
    /\ e.key[1] # e.side => e.numbered /\ e.key[2] \in pa
    /\ e.numbered /\ e.key[1] = "forgejo" => e.key[2] \in pa
    /\ e.state = "testing" => e.numbered
\* So it is for every entry.
Numbers(es, pa) == \A i \in DOMAIN es : NumberOf(es[i], pa)

\* A superseded entry has a twin that is not.
Replaced(es, pa) == \A i \in DOMAIN es : es[i].state = "superseded" =>
    /\ es[i].key[2] \in pa
    /\ \E j \in DOMAIN es : /\ es[j].key[2] = es[i].key[2]
                            /\ es[j].state # "superseded" /\ es[j].numbered

\* An entry that is not withdrawn carries an approval, or a request to try.
GrantOf(e, cs) == e.state \notin {"cancelled", "superseded"} =>
    /\ cs[e.granted].kind \in Approvals
    /\ cs[e.granted].kind = "try" <=> e.try
\* So it is for every entry.
Grants(es, cs) == \A i \in DOMAIN es : GrantOf(es[i], cs)

\* No command is forgotten: an entry of its pull request is decided at least as late.
Carried(r, cs) == \A c \in r.commands : \E i \in DOMAIN r.entries :
    /\ r.entries[i].key[2] = cs[c].pr /\ r.entries[i].state # "superseded"
    /\ cs[c].time <= cs[r.entries[i].decision].time

\* A pull request has one entry only.
Alone(es, i) == \A j \in DOMAIN es : es[j].key[2] = es[i].key[2] => j = i
\* A withdrawal is heeded by an entry without a twin.
Heeded(r, cs) == \A i \in DOMAIN r.entries : Alone(r.entries, i) => \A c \in r.commands :
    cs[c].pr = r.entries[i].key[2] /\ cs[c].kind = "reject" =>
        r.entries[i].state = "cancelled" \/ cs[c].time <= cs[r.entries[i].granted].time

\* The twin of an entry under test is astray.
Strays(es) == \A i, j \in DOMAIN es :
    /\ j # i /\ es[j].key[2] = es[i].key[2]
    /\ es[i].state = "testing" /\ es[j].state # "superseded"
    => ~es[j].numbered \/ j < i

\* An entry is in a batch, at the head the batch was built from.
MemberOf(t, e) == \E j \in DOMAIN t.members : t.members[j] = e.key /\ t.heads[j] = e.head
\* An entry under test is in the active batch.
TestOf(plan, active, e) == e.state = "testing" =>
    active # 0 /\ e.batch = active /\ e.try = plan[active].try /\ MemberOf(plan[active], e)
\* So it is for every entry.
Tests(es, plan, active) == \A i \in DOMAIN es : TestOf(plan, active, es[i])

\* What the queue calls merged is in main.
Ended(es, m) == \A i \in DOMAIN es : es[i].state = "merged" => es[i].batch \in Range(m)

\* The active batch exists, and its members have entries.
Placed(es, plan, active) == active # 0 =>
    /\ active \in DOMAIN plan
    /\ \A j \in DOMAIN plan[active].members : \E i \in DOMAIN es :
       es[i].key = plan[active].members[j]

\* What holds of a queue document, the one in memory and the one stored.
Doc(r, cs, pa, m) ==
    /\ Distinct(r.entries) /\ Known(r, cs) /\ Numbers(r.entries, pa) /\ Replaced(r.entries, pa)
    /\ Grants(r.entries, cs) /\ Carried(r, cs) /\ Heeded(r, cs) /\ Strays(r.entries)
    /\ Tests(r.entries, PlanOf(r.batches), r.active) /\ Ended(r.entries, m)
    /\ Placed(r.entries, PlanOf(r.batches), r.active)

\* No landed batch has a pull request at that head.
FreshIn(plan, m, p, h) == \A c \in Range(m) \cap Ids : \A j \in DOMAIN plan[c].members :
    plan[c].members[j][2] = p => plan[c].heads[j] # h

\* A batch is built from heads that were pushed, on a commit of main; if that is the
\* latest one, neither the batch nor any of its revisions has landed.
PlanBatch(plan, m, hd, b) ==
    /\ plan[b].members # <<>> /\ DOMAIN plan[b].heads = DOMAIN plan[b].members
    /\ plan[b].base \in Range(m)
    /\ \A j \in DOMAIN plan[b].members :
          plan[b].heads[j] <= hd["github"][plan[b].members[j][2]]
    /\ plan[b].base = Last(m) => b \notin Range(m) /\
          \A j \in DOMAIN plan[b].members :
          FreshIn(plan, m, plan[b].members[j][2], plan[b].heads[j])
\* So it is for every batch.
Plans(plan, m, hd) == \A b \in DOMAIN plan : PlanBatch(plan, m, hd, b)

\* Main holds the candidates whose request was accepted, and other people's commits.
Mains(plan, m, w, mv) ==
    /\ m # <<>>
    /\ \A x \in Range(m) : x <= MaxBatches + mv
    /\ \A b \in Ids : w[b] = "accepted" <=> b \in Range(m)
    /\ \A b \in Ids : w[b] # "none" => b \in DOMAIN plan
\* A pull request at a head that landed is not open.
Spent(plan, m, q, hd) ==
    \A b \in Range(m) \cap Ids : \A j \in DOMAIN plan[b].members :
       q[plan[b].members[j][2]] # "open" \/ plan[b].heads[j] < hd["github"][plan[b].members[j][2]]
\* Two batches have no revision in common.
Apart(plan, b, c) ==
    \A j \in DOMAIN plan[b].members, k \in DOMAIN plan[c].members :
       plan[b].members[j][2] = plan[c].members[k][2] => plan[b].heads[j] # plan[c].heads[k]
\* So it is for landed batches.
Once(plan, m) == \A b, c \in Range(m) \cap Ids : b # c => Apart(plan, b, c)

\* No provider is ahead of the one the author pushes to.
Heads(hd) == \A s \in Sides, p \in PRs : hd[s][p] <= hd[Home[p]][p]

\* An entry that the worker found valid when it read main.
Candidate(es, plan, m, hd, base, k) == \E i \in DOMAIN es :
    /\ es[i].key = k /\ es[i].numbered /\ es[i].head <= hd["github"][k[2]]
    /\ base = Last(m) => FreshIn(plan, m, k[2], es[i].head)
\* A member of the active batch still carries its approval.
CheckedOf(es, plan, active, j) == \E i \in DOMAIN es :
    /\ es[i].key = plan[active].members[j] /\ es[i].state = "testing" /\ es[i].batch = active
    /\ es[i].head = plan[active].heads[j]
\* So do the members before the n-th.
Checked(es, plan, active, n) ==
    \A j \in DOMAIN plan[active].members : j < n => CheckedOf(es, plan, active, j)
\* The places of a drive that has checked every member.
Examined == {"inspect", "create", "ci", "fallback", "recheck", "confirm", "answer"}
\* What the worker has found out at each place of a drive.
Drives(es, plan, active, d, m, hd, c) ==
    /\ d.pc = "idle" => d = Idle
    /\ d.pc \notin {"idle", "admit"} => active # 0
    /\ d.pc = "admit" => /\ active = 0 /\ d.base \in Range(m)
                         /\ \A k \in d.eligible : Candidate(es, plan, m, hd, d.base, k)
    /\ d.pc = "members" => d.i \in DOMAIN plan[active].members /\ Checked(es, plan, active, d.i)
    /\ d.pc \in Examined => \A j \in DOMAIN plan[active].members : CheckedOf(es, plan, active, j)
    /\ d.pc \in {"recheck", "confirm"} =>
          ~plan[active].try /\ \E s \in Sides : c[s][active] = "green"

\* The inductive invariant.
RollupIInv ==
    /\ RollupTypeOK
    /\ Doc(repo, comments, paired, main) /\ Doc(saved, comments, paired, main)
    /\ PlanOf(saved.batches) = PlanOf(repo.batches) /\ Len(repo.batches) <= MaxBatches
    /\ Plans(PlanOf(repo.batches), main, head)
    /\ Mains(PlanOf(repo.batches), main, wire, moves)
    /\ Spent(PlanOf(repo.batches), main, pr, head) /\ Once(PlanOf(repo.batches), main)
    /\ Heads(head)
    /\ Drives(repo.entries, PlanOf(repo.batches), repo.active, driver, main, head, ci)

-----------------------------------------------------------------------------
(* Types and fields. *)

\* The constants.
LEMMA Bounds ==
    /\ MaxBatches \in Nat /\ MaxHead \in Nat \ {0} /\ MaxTime \in Nat \ {0} /\ MaxMoves \in Nat
    /\ MaxFaults \in Nat /\ MaxComments \in Nat /\ BatchSize \in 1..16
    /\ Home \in [PRs -> Sides] /\ IsFiniteSet(PRs)
BY RollupAssumption

\* The fields of a command.
LEMMA CommandFields ==
    ASSUME NEW c \in Commands
    PROVE  c.pr \in PRs /\ c.side \in Sides /\ c.kind \in Kinds /\ c.time \in 1..MaxTime
           /\ c.time \in Nat
<1>1. c \in [pr : PRs, side : Sides, kind : Kinds, time : 1..MaxTime]
  BY RollupAssumption
<1> QED  BY <1>1, Bounds

\* A function on the places of a sequence is a sequence.
LEMMA SeqMade ==
    ASSUME NEW S, NEW es, NEW q, es \in Seq(S), DOMAIN q = DOMAIN es,
               q = [i \in DOMAIN es |-> q[i]],
           \A i \in DOMAIN es : q[i] \in S
    PROVE  q \in Seq(S) /\ Len(q) = Len(es)
<1>1. Len(es) \in Nat /\ DOMAIN es = 1..Len(es)
  OBVIOUS
<1>2. q \in [1..Len(es) -> S]
  BY <1>1
<1> QED  BY <1>1, <1>2, IsASeq

\* The fields of an entry.
LEMMA EntryFields ==
    ASSUME NEW e \in Entry
    PROVE  /\ e.key \in Keys /\ e.key[1] \in Sides /\ e.key[2] \in PRs
              /\ e.key = <<e.key[1], e.key[2]>>
           /\ e.side \in Sides /\ e.numbered \in BOOLEAN /\ e.head \in 1..MaxHead
           /\ e.rollup \in BOOLEAN /\ e.try \in BOOLEAN /\ e.granted \in Nat /\ e.decision \in Nat
           /\ e.state \in EntryStates /\ e.batch \in 0..MaxBatches
BY DEF Entry, Keys

\* An entry changes its state ...
LEMMA EntryState ==
    ASSUME NEW e \in Entry, NEW s \in EntryStates
    PROVE  LET f == [e EXCEPT !.state = s] IN
           /\ f \in Entry /\ f.key = e.key /\ f.side = e.side /\ f.numbered = e.numbered
           /\ f.head = e.head /\ f.rollup = e.rollup /\ f.try = e.try /\ f.granted = e.granted
           /\ f.decision = e.decision /\ f.state = s /\ f.batch = e.batch
BY DEF Entry

\* ... its state and gets a number ...
LEMMA EntryNumber ==
    ASSUME NEW e \in Entry, NEW s \in EntryStates
    PROVE  LET f == [e EXCEPT !.state = s, !.numbered = TRUE] IN
           /\ f \in Entry /\ f.key = e.key /\ f.side = e.side /\ f.numbered = TRUE
           /\ f.head = e.head /\ f.rollup = e.rollup /\ f.try = e.try /\ f.granted = e.granted
           /\ f.decision = e.decision /\ f.state = s /\ f.batch = e.batch
BY DEF Entry

\* ... or gets a number.
LEMMA EntryNumbered ==
    ASSUME NEW e \in Entry
    PROVE  LET f == [e EXCEPT !.numbered = TRUE] IN
           /\ f \in Entry /\ f.key = e.key /\ f.side = e.side /\ f.numbered = TRUE
           /\ f.head = e.head /\ f.rollup = e.rollup /\ f.try = e.try /\ f.granted = e.granted
           /\ f.decision = e.decision /\ f.state = e.state /\ f.batch = e.batch
BY DEF Entry

\* The fields of a document.
LEMMA DocFields ==
    ASSUME NEW r \in Document
    PROVE  /\ r.entries \in Seq(Entry) /\ r.batches \in Seq(Batch) /\ r.active \in 0..MaxBatches
           /\ r.split \in Seq(Seq(Keys)) /\ r.commands \in SUBSET Nat
           /\ DOMAIN r.entries = 1..Len(r.entries) /\ Len(r.entries) \in Nat
           /\ DOMAIN r.batches = 1..Len(r.batches) /\ Len(r.batches) \in Nat
           /\ \A i \in DOMAIN r.entries : r.entries[i] \in Entry
           /\ \A b \in DOMAIN r.batches : r.batches[b] \in Batch
BY DEF Document

\* The fields of a batch.
LEMMA BatchFields ==
    ASSUME NEW t \in Batch
    PROVE  /\ t.members \in Seq(Keys) /\ t.heads \in Seq(1..MaxHead) /\ t.base \in Nat
              /\ t.try \in BOOLEAN
           /\ t.attempted \in BOOLEAN /\ t.audit \in BOOLEAN /\ t.fallback \in BOOLEAN
           /\ t.recorded \in BOOLEAN /\ t.cleaned \in BOOLEAN
BY DEF Batch

\* Batches built from the same have the same plan.
LEMMA PlanSame ==
    ASSUME NEW bs, NEW cs, DOMAIN cs = DOMAIN bs,
           \A b \in DOMAIN bs : /\ cs[b].members = bs[b].members /\ cs[b].heads = bs[b].heads
                                /\ cs[b].base = bs[b].base /\ cs[b].try = bs[b].try
    PROVE  PlanOf(cs) = PlanOf(bs)
BY DEF PlanOf

\* The plan of a batch.
LEMMA PlanFields ==
    ASSUME NEW bs, NEW b \in DOMAIN bs
    PROVE  /\ DOMAIN PlanOf(bs) = DOMAIN bs
           /\ PlanOf(bs)[b].members = bs[b].members /\ PlanOf(bs)[b].heads = bs[b].heads
           /\ PlanOf(bs)[b].base = bs[b].base /\ PlanOf(bs)[b].try = bs[b].try
BY DEF PlanOf

\* Every batch has a plan.
LEMMA PlanDomain ==
    ASSUME NEW bs PROVE DOMAIN PlanOf(bs) = DOMAIN bs
BY DEF PlanOf

\* The active batch is replaced.
LEMMA WithBatchFacts ==
    ASSUME NEW r \in Document, r.active \in DOMAIN r.batches, NEW t \in Batch,
           t.members = Active(r).members, t.heads = Active(r).heads,
           t.base = Active(r).base, t.try = Active(r).try
    PROVE  LET q == WithBatch(r, t) IN
           /\ q \in Document /\ q.entries = r.entries /\ q.active = r.active
           /\ q.commands = r.commands /\ PlanOf(q.batches) = PlanOf(r.batches)
           /\ Len(q.batches) = Len(r.batches)
<1> DEFINE q == WithBatch(r, t)
<1>f. /\ r.entries \in Seq(Entry) /\ r.batches \in Seq(Batch) /\ r.active \in 0..MaxBatches
      /\ r.split \in Seq(Seq(Keys)) /\ r.commands \in SUBSET Nat
  BY DocFields
<1>1. /\ q.entries = r.entries /\ q.active = r.active /\ q.commands = r.commands
         /\ q.split = r.split
      /\ q.batches = [r.batches EXCEPT ![r.active] = t]
      /\ q = [entries |-> q.entries, batches |-> q.batches, active |-> q.active, split |-> q.split,
              commands |-> q.commands]
  BY SMTT(60) DEF WithBatch, Document
<1>2. q.batches \in Seq(Batch) /\ Len(q.batches) = Len(r.batches)
      /\ DOMAIN q.batches = DOMAIN r.batches
  BY <1>1, <1>f, ExceptSeq
<1>3. q \in Document
  BY <1>1, <1>2, <1>f DEF Document
<1>4. \A b \in DOMAIN r.batches : q.batches[b] = IF b = r.active THEN t ELSE r.batches[b]
  BY <1>1
<1>5. PlanOf(q.batches) = PlanOf(r.batches)
  <2> HIDE DEF q
  <2>1. \A b \in DOMAIN r.batches : /\ q.batches[b].members = r.batches[b].members
                                    /\ q.batches[b].heads = r.batches[b].heads
                                    /\ q.batches[b].base = r.batches[b].base
                                    /\ q.batches[b].try = r.batches[b].try
    BY <1>4 DEF Active
  <2> QED  BY <2>1, <1>2, PlanSame
<1> QED  BY <1>1, <1>2, <1>3, <1>5

\* An entry is replaced.
LEMMA WithEntryFacts ==
    ASSUME NEW r \in Document, NEW i \in DOMAIN r.entries, NEW e \in Entry
    PROVE  LET q == WithEntry(r, i, e) IN
           /\ q \in Document /\ q.batches = r.batches /\ q.active = r.active
           /\ q.commands = r.commands /\ q.split = r.split /\ DOMAIN q.entries = DOMAIN r.entries
           /\ \A j \in DOMAIN r.entries : q.entries[j] = IF j = i THEN e ELSE r.entries[j]
<1> DEFINE q == WithEntry(r, i, e)
<1>f. /\ r.entries \in Seq(Entry) /\ r.batches \in Seq(Batch) /\ r.active \in 0..MaxBatches
      /\ r.split \in Seq(Seq(Keys)) /\ r.commands \in SUBSET Nat
  BY DocFields
<1>1. /\ q.batches = r.batches /\ q.active = r.active /\ q.commands = r.commands
         /\ q.split = r.split
      /\ q.entries = [r.entries EXCEPT ![i] = e]
  BY DEF WithEntry, Document
<1>2. q = [entries |-> q.entries, batches |-> q.batches, active |-> q.active, split |-> q.split,
           commands |-> q.commands]
  <2>1. r = [entries |-> r.entries, batches |-> r.batches, active |-> r.active, split |-> r.split,
             commands |-> r.commands]
    BY DEF Document
  <2>2. q = [r EXCEPT !.entries = [r.entries EXCEPT ![i] = e]]
    BY DEF WithEntry
  <2> HIDE DEF q
  <2> QED  BY <2>1, <2>2
<1>3. q.entries \in Seq(Entry) /\ DOMAIN q.entries = DOMAIN r.entries
  BY <1>1, <1>f, ExceptSeq
<1>4. q \in Document
  <2> HIDE DEF q
  <2> QED  BY <1>2, <1>1, <1>3, <1>f DEF Document
<1> QED  BY <1>1, <1>3, <1>4

-----------------------------------------------------------------------------
(* The operators on documents. *)

\* The halves of a failed batch join the line.
LEMMA HalvesType ==
    ASSUME NEW S, NEW ms \in Seq(S), NEW sp \in Seq(Seq(S)), NEW n, n = Len(ms), n > 1
    PROVE  <<SubSeq(ms, 1, n \div 2), SubSeq(ms, n \div 2 + 1, n)>> \o sp \in Seq(Seq(S))
<1>1. n \in Nat /\ n \div 2 \in 1..n /\ n \div 2 + 1 \in 1..n
  OBVIOUS
<1>2. SubSeq(ms, 1, n \div 2) \in Seq(S)
  <2>1. \A i \in 1..(n \div 2) : ms[i] \in S
    BY <1>1
  <2> QED  BY <2>1, <1>1, SubSeqProperties
<1>3. SubSeq(ms, n \div 2 + 1, n) \in Seq(S)
  <2>1. \A i \in (n \div 2 + 1)..n : ms[i] \in S
    BY <1>1
  <2> QED  BY <2>1, <1>1, SubSeqProperties
<1> DEFINE a == SubSeq(ms, 1, n \div 2)
           b == SubSeq(ms, n \div 2 + 1, n)
<1> HIDE DEF a, b
<1>4. <<a, b>> \in Seq(Seq(S))
  BY <1>2, <1>3 DEF a, b
<1>5. <<a, b>> \o sp \in Seq(Seq(S))
  BY <1>4, ConcatProperties
<1> QED  BY <1>5 DEF a, b

\* What a batch can end as.
Outcomes == {"merged", "passed", "failed", "cancelled", "paused"}

\* What closing a batch does to the document.
LEMMA FinishFacts ==
    ASSUME NEW r \in Document, r.active \in DOMAIN r.batches, NEW o \in Outcomes
    PROVE  LET q == FinishBatch(r, o) IN
           /\ q \in Document /\ q.active = 0 /\ q.commands = r.commands
           /\ PlanOf(q.batches) = PlanOf(r.batches) /\ Len(q.batches) = Len(r.batches)
           /\ DOMAIN q.entries = DOMAIN r.entries
           /\ \A i \in DOMAIN r.entries :
                 \/ /\ q.entries[i] = r.entries[i]
                    /\ ~(/\ r.entries[i].key \in Range(Active(r).members)
                         /\ r.entries[i].batch = r.active /\ r.entries[i].state = "testing")
                 \/ /\ r.entries[i].batch = r.active /\ r.entries[i].state = "testing"
                    /\ \E s \in {"merged", "passed", "failed", "queued"} :
                          (s = "merged" => o = "merged")
                          /\ q.entries[i] = [r.entries[i] EXCEPT !.state = s]
<1> DEFINE q == FinishBatch(r, o)
           b == Active(r)
           n == Len(b.members)
           after == CASE o \in {"merged", "passed"} -> o
                   [] o = "paused" \/ (o = "failed" /\ (n = 1 \/ b.try)) -> "failed"
                   [] OTHER -> "queued"
           member(e) == e.key \in Range(b.members) /\ e.batch = r.active /\ e.state = "testing"
           split == IF o = "failed" /\ n > 1 /\ ~b.try
                  THEN <<SubSeq(b.members, 1, n \div 2), SubSeq(b.members, n \div 2 + 1,
                                                                n)>> \o r.split
                  ELSE r.split
           es == [i \in DOMAIN r.entries |->
                       IF member(r.entries[i]) THEN [r.entries[i] EXCEPT !.state = after] ELSE r.entries[i]]
           bs == [r.batches EXCEPT ![r.active].state = o]
<1>f. /\ r.entries \in Seq(Entry) /\ r.batches \in Seq(Batch) /\ r.active \in 0..MaxBatches
      /\ r.split \in Seq(Seq(Keys)) /\ r.commands \in SUBSET Nat
      /\ DOMAIN r.entries = 1..Len(r.entries) /\ Len(r.entries) \in Nat
      /\ DOMAIN r.batches = 1..Len(r.batches) /\ Len(r.batches) \in Nat
      /\ \A i \in DOMAIN r.entries : r.entries[i] \in Entry
      /\ \A c \in DOMAIN r.batches : r.batches[c] \in Batch
  BY DocFields
<1>r. r = [entries |-> r.entries, batches |-> r.batches, active |-> r.active, split |-> r.split,
           commands |-> r.commands]
  BY DEF Document
<1>1. q = [entries |-> es, batches |-> bs, active |-> 0, split |-> split, commands |-> r.commands]
  <2>1. q = [r EXCEPT !.batches = bs, !.split = split, !.entries = es, !.active = 0]
    BY <1>r DEF FinishBatch
  <2> HIDE DEF q, es, bs, split
  <2> QED  BY <1>r, <2>1
<1>2. /\ q.entries = es /\ q.batches = bs /\ q.active = 0 /\ q.split = split
         /\ q.commands = r.commands
  <2> HIDE DEF q, es, bs, split
  <2> QED  BY <1>1
<1>a. after \in {"merged", "passed", "failed", "queued"} /\ (after = "merged" => o = "merged")
  BY DEF Outcomes
<1>3. es \in Seq(Entry) /\ Len(es) = Len(r.entries) /\ DOMAIN es = DOMAIN r.entries
  <2> HIDE DEF member, after
  <2>1. \A i \in DOMAIN r.entries : es[i] \in Entry
    <3> TAKE i \in DOMAIN r.entries
    <3>1. after \in EntryStates
      BY <1>a DEF EntryStates
    <3>2. [r.entries[i] EXCEPT !.state = after] \in Entry
      BY <3>1, <1>f, EntryState
    <3> QED  BY <3>2, <1>f
  <2>2. DOMAIN es = DOMAIN r.entries /\ es = [i \in DOMAIN r.entries |-> es[i]]
    OBVIOUS
  <2> HIDE DEF es
  <2>3. es \in Seq(Entry) /\ Len(es) = Len(r.entries)
    BY <2>1, <2>2, <1>f, SeqMade
  <2> QED  BY <2>3, <2>2
<1>4. bs \in Seq(Batch) /\ Len(bs) = Len(r.batches) /\ DOMAIN bs = DOMAIN r.batches
  <2>1. [r.batches[r.active] EXCEPT !.state = o] \in Batch
    BY <1>f, ZenonT(60) DEF Batch, Outcomes
  <2>2. bs = [r.batches EXCEPT ![r.active] = [r.batches[r.active] EXCEPT !.state = o]]
    BY <1>f
  <2> HIDE DEF bs
  <2> QED  BY <2>1, <2>2, <1>f, ExceptSeq
<1>5. split \in Seq(Seq(Keys))
  <2>1. b.members \in Seq(Keys)
    BY <1>f, BatchFields DEF Active
  <2>2. n \in Nat
    BY <2>1
  <2> HIDE DEF b, n
  <2>3. CASE o = "failed" /\ n > 1 /\ ~b.try
    <3>1. <<SubSeq(b.members, 1, n \div 2), SubSeq(b.members, n \div 2 + 1,
                                                   n)>> \o r.split \in Seq(Seq(Keys))
      BY <2>3, <2>1, <1>f, HalvesType DEF n
    <3> QED  BY <3>1, <2>3
  <2>4. CASE ~(o = "failed" /\ n > 1 /\ ~b.try)
    BY <2>4, <1>f
  <2> QED  BY <2>3, <2>4
<1>6. q \in Document
  <2> HIDE DEF q, es, bs, split
  <2> QED  BY <1>1, <1>3, <1>4, <1>5, <1>f, Bounds DEF Document
<1>7. PlanOf(bs) = PlanOf(r.batches)
  <2>1. \A c \in DOMAIN r.batches : /\ bs[c].members = r.batches[c].members
                                    /\ bs[c].heads = r.batches[c].heads
                                    /\ bs[c].base = r.batches[c].base
                                    /\ bs[c].try = r.batches[c].try
    <3> TAKE c \in DOMAIN r.batches
    <3>1. r.batches[c] \in Batch
      BY <1>f
    <3>2. bs[c] = r.batches[c] \/ bs[c] = [r.batches[c] EXCEPT !.state = o]
      OBVIOUS
    <3> HIDE DEF bs
    <3> QED  BY <3>1, <3>2 DEF Batch
  <2> HIDE DEF bs
  <2> QED  BY <2>1, <1>4, PlanSame
<1>8. \A i \in DOMAIN r.entries :
                 \/ es[i] = r.entries[i] /\ ~member(r.entries[i])
                 \/ member(r.entries[i]) /\ es[i] = [r.entries[i] EXCEPT !.state = after]
  <2> HIDE DEF member, after
  <2> QED  OBVIOUS
<1>9. \A i \in DOMAIN r.entries :
                 \/ /\ es[i] = r.entries[i]
                    /\ ~(/\ r.entries[i].key \in Range(Active(r).members)
                         /\ r.entries[i].batch = r.active /\ r.entries[i].state = "testing")
                 \/ /\ r.entries[i].batch = r.active /\ r.entries[i].state = "testing"
                    /\ \E s \in {"merged", "passed", "failed", "queued"} :
                          (s = "merged" => o = "merged")
                          /\ es[i] = [r.entries[i] EXCEPT !.state = s]
  <2> HIDE DEF es, after
  <2> TAKE i \in DOMAIN r.entries
  <2>1. CASE es[i] = r.entries[i] /\ ~member(r.entries[i])
    BY <2>1
  <2>2. CASE member(r.entries[i]) /\ es[i] = [r.entries[i] EXCEPT !.state = after]
    BY <2>2, <1>a
  <2> QED  BY <1>8, <2>1, <2>2
<1> HIDE DEF es, bs, q
<1>10. DOMAIN q.entries = DOMAIN r.entries /\ Len(q.batches) = Len(r.batches)
       /\ PlanOf(q.batches) = PlanOf(r.batches)
  BY <1>2, <1>3, <1>4, <1>7
<1>11. \A i \in DOMAIN r.entries : q.entries[i] = es[i]
  BY <1>2
<1> QED  BY <1>2, <1>6, <1>9, <1>10, <1>11 DEF q

\* The entries of a document are replaced.
LEMMA EntriesFacts ==
    ASSUME NEW r \in Document, NEW es \in Seq(Entry)
    PROVE  LET q == [r EXCEPT !.entries = es] IN
           /\ q \in Document /\ q.entries = es /\ q.batches = r.batches /\ q.active = r.active
           /\ q.commands = r.commands /\ q.split = r.split
<1>1. r = [entries |-> r.entries, batches |-> r.batches, active |-> r.active, split |-> r.split,
           commands |-> r.commands]
  BY DEF Document
<1>2. /\ r.batches \in Seq(Batch) /\ r.active \in 0..MaxBatches
      /\ r.split \in Seq(Seq(Keys)) /\ r.commands \in SUBSET Nat
  BY DocFields
<1> QED  BY <1>1, <1>2 DEF Document

\* Entries under test are withdrawn.
LEMMA UnapprovedFacts ==
    ASSUME NEW r \in Document
    PROVE  LET q == Unapproved(r) IN
           /\ q \in Document /\ q.batches = r.batches /\ q.active = r.active
           /\ q.commands = r.commands /\ q.split = r.split /\ DOMAIN q.entries = DOMAIN r.entries
           /\ \A i \in DOMAIN r.entries : q.entries[i] = r.entries[i]
                 \/ (r.entries[i].state = "testing" /\ q.entries[i] = [r.entries[i] EXCEPT !.state = "cancelled"])
<1> DEFINE es == [i \in DOMAIN r.entries |->
    IF r.entries[i].batch = r.active /\ r.entries[i].state = "testing"
    THEN [r.entries[i] EXCEPT !.state = "cancelled"] ELSE r.entries[i]]
<1>1. r.entries \in Seq(Entry) /\ \A i \in DOMAIN r.entries : r.entries[i] \in Entry
  BY DocFields
<1>2. \A i \in DOMAIN r.entries : [r.entries[i] EXCEPT !.state = "cancelled"] \in Entry
  BY <1>1, EntryState DEF EntryStates
<1>3. \A i \in DOMAIN r.entries : es[i] \in Entry
  BY <1>1, <1>2
<1>4. DOMAIN es = DOMAIN r.entries /\ es = [i \in DOMAIN r.entries |-> es[i]]
  OBVIOUS
<1>5. \A i \in DOMAIN r.entries : es[i] = r.entries[i]
                 \/ (r.entries[i].state = "testing" /\ es[i] = [r.entries[i] EXCEPT !.state = "cancelled"])
  OBVIOUS
<1>6. Unapproved(r) = [r EXCEPT !.entries = es]
  BY DEF Unapproved, Document
<1> HIDE DEF es
<1>7. es \in Seq(Entry)
  BY <1>1, <1>3, <1>4, SeqMade
<1>8. LET q == Unapproved(r) IN
           /\ q \in Document /\ q.batches = r.batches /\ q.active = r.active
           /\ q.commands = r.commands /\ q.split = r.split /\ q.entries = es
  BY <1>6, <1>7, EntriesFacts
<1> QED  BY <1>8, <1>4, <1>5

\* Entries get their numbers.
LEMMA WithNumbersFacts ==
    ASSUME NEW r \in Document
    PROVE  LET q == WithNumbers(r) IN
           /\ q \in Document /\ q.batches = r.batches /\ q.active = r.active
           /\ q.commands = r.commands /\ q.split = r.split /\ DOMAIN q.entries = DOMAIN r.entries
           /\ \A i \in DOMAIN r.entries : q.entries[i] = r.entries[i]
                 \/ (r.entries[i].key[2] \in paired /\ q.entries[i] = [r.entries[i] EXCEPT !.numbered = TRUE])
<1> DEFINE es == [i \in DOMAIN r.entries |->
    IF r.entries[i].state # "superseded" /\ r.entries[i].key[2] \in paired
    THEN [r.entries[i] EXCEPT !.numbered = TRUE] ELSE r.entries[i]]
<1>1. r.entries \in Seq(Entry) /\ \A i \in DOMAIN r.entries : r.entries[i] \in Entry
  BY DocFields
<1>2. \A i \in DOMAIN r.entries : [r.entries[i] EXCEPT !.numbered = TRUE] \in Entry
  BY <1>1, EntryNumbered
<1>3. \A i \in DOMAIN r.entries : es[i] \in Entry
  BY <1>1, <1>2
<1>4. DOMAIN es = DOMAIN r.entries /\ es = [i \in DOMAIN r.entries |-> es[i]]
  OBVIOUS
<1>5. \A i \in DOMAIN r.entries : es[i] = r.entries[i]
                 \/ (r.entries[i].key[2] \in paired /\ es[i] = [r.entries[i] EXCEPT !.numbered = TRUE])
  OBVIOUS
<1>6. WithNumbers(r) = [r EXCEPT !.entries = es]
  BY DEF WithNumbers, Document
<1> HIDE DEF es
<1>7. es \in Seq(Entry)
  BY <1>1, <1>3, <1>4, SeqMade
<1>8. LET q == WithNumbers(r) IN
           /\ q \in Document /\ q.batches = r.batches /\ q.active = r.active
           /\ q.commands = r.commands /\ q.split = r.split /\ q.entries = es
  BY <1>6, <1>7, EntriesFacts
<1> QED  BY <1>8, <1>4, <1>5

\* Older entries are superseded.
LEMMA ReconcileFacts ==
    ASSUME NEW r \in Document
    PROVE  LET q == ReconcileDuplicates(r) IN
           /\ q \in Document /\ q.batches = r.batches /\ q.active = r.active
           /\ q.commands = r.commands /\ q.split = r.split /\ DOMAIN q.entries = DOMAIN r.entries
           /\ \A i \in DOMAIN r.entries : q.entries[i] =
                 IF \E j \in Rivals(r, i) : Newer(r.entries[j], r.entries[i])
                 THEN [r.entries[i] EXCEPT !.state = "superseded"] ELSE r.entries[i]
<1> DEFINE out(i) == \E j \in Rivals(r, i) : Newer(r.entries[j], r.entries[i])
           es == [i \in DOMAIN r.entries |->
                    IF out(i) THEN [r.entries[i] EXCEPT !.state = "superseded"] ELSE r.entries[i]]
<1>1. ReconcileDuplicates(r) = [r EXCEPT !.entries = es]
  BY DEF ReconcileDuplicates, Document
<1> HIDE DEF out
<1>2. r.entries \in Seq(Entry) /\ \A i \in DOMAIN r.entries : r.entries[i] \in Entry
  BY DocFields
<1>3. \A i \in DOMAIN r.entries : [r.entries[i] EXCEPT !.state = "superseded"] \in Entry
  BY <1>2, EntryState DEF EntryStates
<1>4. \A i \in DOMAIN r.entries : es[i] \in Entry
  BY <1>2, <1>3
<1>5. DOMAIN es = DOMAIN r.entries /\ es = [i \in DOMAIN r.entries |-> es[i]]
  OBVIOUS
<1>6. \A i \in DOMAIN r.entries : es[i] =
        IF out(i) THEN [r.entries[i] EXCEPT !.state = "superseded"] ELSE r.entries[i]
  OBVIOUS
<1> HIDE DEF es
<1>7. es \in Seq(Entry)
  BY <1>2, <1>4, <1>5, SeqMade
<1>8. LET q == ReconcileDuplicates(r) IN
           /\ q \in Document /\ q.batches = r.batches /\ q.active = r.active
           /\ q.commands = r.commands /\ q.split = r.split /\ q.entries = es
  BY <1>1, <1>7, EntriesFacts
<1> QED  BY <1>8, <1>5, <1>6 DEF out

-----------------------------------------------------------------------------
(* What keeps a document sound. *)

\* How the worker changes an entry: never its decision, its head or its key; it ends a
\* test but does not begin one.
Touched(e, f, pa, m) ==
    /\ f.key = e.key /\ f.side = e.side /\ f.head = e.head /\ f.try = e.try
    /\ f.granted = e.granted /\ f.decision = e.decision /\ f.batch = e.batch
    /\ e.numbered => f.numbered
    /\ f.numbered => e.numbered \/ e.key[2] \in pa
    /\ e.state = "superseded" <=> f.state = "superseded"
    /\ e.state = "cancelled" => f.state = "cancelled"
    /\ f.state = "testing" => e.state = "testing"
    /\ f.state = "merged" => e.state = "merged" \/ e.batch \in Range(m)

\* A document whose entries the worker has touched is still one.
LEMMA TouchedDoc ==
    ASSUME NEW r, NEW q, NEW cs, NEW pa, NEW m, Doc(r, cs, pa, m),
           DOMAIN q.entries = DOMAIN r.entries, q.commands = r.commands,
           PlanOf(q.batches) = PlanOf(r.batches),
           \A i \in DOMAIN r.entries : Touched(r.entries[i], q.entries[i], pa, m),
           q.active = r.active
           \/ (q.active = 0 /\ \A i \in DOMAIN r.entries : q.entries[i].state # "testing"),
           (\E i \in DOMAIN r.entries : q.entries[i].state = "testing")
              => \A i \in DOMAIN r.entries : q.entries[i].numbered = r.entries[i].numbered
    PROVE  Doc(q, cs, pa, m)
<1> DEFINE D == DOMAIN r.entries
           a == r.entries
           b == q.entries
           plan == PlanOf(r.batches)
<1>d. DOMAIN b = D
  OBVIOUS
<1>k. \A i \in D : /\ b[i].key = a[i].key /\ b[i].side = a[i].side /\ b[i].head = a[i].head
                   /\ b[i].try = a[i].try /\ b[i].granted = a[i].granted
                   /\ b[i].decision = a[i].decision /\ b[i].batch = a[i].batch
  BY DEF Touched
<1>n. \A i \in D : (a[i].numbered => b[i].numbered)
/\ (b[i].numbered => a[i].numbered \/ a[i].key[2] \in pa)
  BY DEF Touched
<1>s. \A i \in D : (a[i].state = "superseded" <=> b[i].state = "superseded")
                   /\ (a[i].state = "cancelled" => b[i].state = "cancelled")
                   /\ (b[i].state = "testing" => a[i].state = "testing")
                   /\ (b[i].state = "merged" => a[i].state = "merged" \/ a[i].batch \in Range(m))
  BY DEF Touched
<1>t. (\E i \in D : b[i].state = "testing") => \A i \in D : b[i].numbered = a[i].numbered
  OBVIOUS
<1>a. q.active = r.active \/ (q.active = 0 /\ \A i \in D : b[i].state # "testing")
  OBVIOUS
<1>c. q.commands = r.commands
  OBVIOUS
<1>p. PlanOf(q.batches) = plan
  OBVIOUS
<1>h. /\ Distinct(a) /\ Known(r, cs) /\ Numbers(a, pa) /\ Replaced(a, pa)
      /\ Grants(a, cs) /\ Carried(r, cs) /\ Heeded(r, cs) /\ Strays(a)
      /\ Tests(a, plan, r.active) /\ Ended(a, m) /\ Placed(a, plan, r.active)
  BY DEF Doc
<1>1. Distinct(b)
  BY <1>d, <1>k, <1>h DEF Distinct
<1>2. Known(q, cs)
  BY <1>d, <1>k, <1>h, <1>c DEF Known
<1>3. Numbers(b, pa)
  <2> SUFFICES ASSUME NEW i \in D PROVE NumberOf(b[i], pa)
    BY <1>d DEF Numbers
  <2>1. NumberOf(a[i], pa)
    BY <1>h DEF Numbers
  <2> HIDE DEF a, b, D
  <2> QED  BY <2>1, <1>k, <1>n, <1>s DEF NumberOf
<1>4. Replaced(b, pa)
  <2> HIDE DEF a, b, D
  <2> SUFFICES ASSUME NEW i \in D, b[i].state = "superseded"
               PROVE  /\ b[i].key[2] \in pa
                      /\ \E j \in D : b[j].key[2] = b[i].key[2] /\ b[j].state # "superseded"
                         /\ b[j].numbered
    BY <1>d DEF Replaced
  <2>1. a[i].state = "superseded"
    BY <1>s
  <2>2. a[i].key[2] \in pa /\ \E j \in D : a[j].key[2] = a[i].key[2] /\ a[j].state # "superseded"
        /\ a[j].numbered
    BY <2>1, <1>h DEF Replaced, D, a
  <2> QED  BY <2>2, <1>k, <1>n, <1>s
<1>5. Grants(b, cs)
  <2> SUFFICES ASSUME NEW i \in D PROVE GrantOf(b[i], cs)
    BY <1>d DEF Grants
  <2>1. GrantOf(a[i], cs)
    BY <1>h DEF Grants
  <2> HIDE DEF a, b, D
  <2> QED  BY <2>1, <1>k, <1>s DEF GrantOf
<1>6. Carried(q, cs)
  <2> SUFFICES ASSUME NEW c \in r.commands
               PROVE  \E i \in D : b[i].key[2] = cs[c].pr /\ b[i].state # "superseded"
                                   /\ cs[c].time <= cs[b[i].decision].time
    BY <1>c, <1>d DEF Carried
  <2>1. PICK i \in D : a[i].key[2] = cs[c].pr /\ a[i].state # "superseded"
                                   /\ cs[c].time <= cs[a[i].decision].time
    BY <1>h DEF Carried
  <2> HIDE DEF a, b, D
  <2> QED  BY <2>1, <1>k, <1>s
<1>7. Heeded(q, cs)
  <2> SUFFICES ASSUME NEW i \in D, Alone(b, i), NEW c \in r.commands, cs[c].pr = b[i].key[2],
                          cs[c].kind = "reject"
               PROVE  b[i].state = "cancelled" \/ cs[c].time <= cs[b[i].granted].time
    BY <1>c, <1>d DEF Heeded
  <2>1. Alone(a, i)
    BY <1>k, <1>d DEF Alone
  <2>2. a[i].state = "cancelled" \/ cs[c].time <= cs[a[i].granted].time
    BY <2>1, <1>h, <1>k DEF Heeded
  <2> HIDE DEF a, b, D
  <2> QED  BY <2>2, <1>k, <1>s
<1>8. Strays(b)
  <2> HIDE DEF a, b, D
  <2> SUFFICES ASSUME NEW i \in D, NEW j \in D, j # i, b[j].key[2] = b[i].key[2],
                          b[i].state = "testing",
                      b[j].state # "superseded"
               PROVE  ~b[j].numbered \/ j < i
    BY <1>d DEF Strays
  <2>1. a[j].key[2] = a[i].key[2] /\ a[i].state = "testing" /\ a[j].state # "superseded"
    BY <1>k, <1>s
  <2>2. ~a[j].numbered \/ j < i
    BY <2>1, <1>h DEF Strays, D, a
  <2>3. b[j].numbered = a[j].numbered
    BY <1>t
  <2> QED  BY <2>2, <2>3
<1>9. Tests(b, plan, q.active)
  <2> SUFFICES ASSUME NEW i \in D PROVE TestOf(plan, q.active, b[i])
    BY <1>d DEF Tests
  <2>1. TestOf(plan, r.active, a[i])
    BY <1>h DEF Tests
  <2> HIDE DEF a, b, D, plan
  <2> QED  BY <2>1, <1>k, <1>s, <1>a DEF TestOf, MemberOf
<1>10. Ended(b, m)
  <2> HIDE DEF a, b, D
  <2> SUFFICES ASSUME NEW i \in D, b[i].state = "merged" PROVE b[i].batch \in Range(m)
    BY <1>d DEF Ended
  <2>1. a[i].state = "merged" => a[i].batch \in Range(m)
    BY <1>h DEF Ended, D, a
  <2> QED  BY <2>1, <1>k, <1>s
<1>11. Placed(b, plan, q.active)
  <2> HIDE DEF a, b, D, plan
  <2>1. CASE q.active = 0
    BY <2>1 DEF Placed
  <2>2. CASE q.active # 0
    <3>1. q.active = r.active
      BY <2>2, <1>a
    <3> QED  BY <3>1, <1>h, <1>k, <1>d DEF Placed, D, a, b
  <2> QED  BY <2>1, <2>2
<1> QED  BY <1>1, <1>2, <1>3, <1>4, <1>5, <1>6, <1>7, <1>8, <1>9, <1>10, <1>11, <1>p DEF Doc

\* Doc when comments are added, pairs are recorded and main moves on.
LEMMA DocGrows ==
    ASSUME NEW r, NEW cs, NEW pa, NEW m, NEW cs2, NEW pa2, NEW m2, Doc(r, cs, pa, m),
           r.commands \in SUBSET Nat,
           DOMAIN cs \subseteq DOMAIN cs2, \A c \in DOMAIN cs : cs2[c] = cs[c],
           pa \subseteq pa2, Range(m) \subseteq Range(m2)
    PROVE  Doc(r, cs2, pa2, m2)
<1>h. /\ Distinct(r.entries) /\ Known(r, cs) /\ Numbers(r.entries, pa) /\ Replaced(r.entries, pa)
      /\ Grants(r.entries, cs) /\ Carried(r, cs) /\ Heeded(r, cs) /\ Strays(r.entries)
      /\ Tests(r.entries, PlanOf(r.batches), r.active) /\ Ended(r.entries, m)
      /\ Placed(r.entries, PlanOf(r.batches), r.active)
  BY DEF Doc
<1>c. \A c \in r.commands : c \in DOMAIN cs2 /\ cs2[c] = cs[c]
  BY <1>h DEF Known
<1>e. \A i \in DOMAIN r.entries : cs2[r.entries[i].granted] = cs[r.entries[i].granted]
                                  /\ cs2[r.entries[i].decision] = cs[r.entries[i].decision]
  BY <1>h, <1>c DEF Known
<1>1. Known(r, cs2)
  BY <1>h, <1>c DEF Known
<1>2. Numbers(r.entries, pa2)
  BY <1>h DEF Numbers, NumberOf
<1>3. Replaced(r.entries, pa2)
  BY <1>h DEF Replaced
<1>4. Grants(r.entries, cs2)
  BY <1>h, <1>e DEF Grants, GrantOf
<1>5. Carried(r, cs2)
  BY <1>h, <1>e, <1>c DEF Carried
<1>6. Heeded(r, cs2)
  BY <1>h, <1>e, <1>c DEF Heeded
<1>7. Ended(r.entries, m2)
  BY <1>h DEF Ended
<1> QED  BY <1>h, <1>1, <1>2, <1>3, <1>4, <1>5, <1>6, <1>7 DEF Doc

-----------------------------------------------------------------------------
(* Two entries of one pull request. *)

\* A pull request has at most two entries, one of each provider.
LEMMA AtMostTwo ==
    ASSUME NEW es \in Seq(Entry), Distinct(es), NEW i \in DOMAIN es, NEW j \in DOMAIN es,
               NEW k \in DOMAIN es,
           es[j].key[2] = es[i].key[2], es[k].key[2] = es[i].key[2], j # i, k # i
    PROVE  k = j /\ es[i].key[1] # es[j].key[1]
<1>1. \A x \in DOMAIN es : es[x].key = <<es[x].key[1], es[x].key[2]>> /\ es[x].key[1] \in Sides
  <2> TAKE x \in DOMAIN es
  <2>1. es[x] \in Entry
    OBVIOUS
  <2> QED  BY <2>1, EntryFields
<1>2. \A x, y \in DOMAIN es : es[x].key[1] = es[y].key[1] /\ es[x].key[2] = es[y].key[2] => x = y
  <2> SUFFICES ASSUME NEW x \in DOMAIN es, NEW y \in DOMAIN es,
                      es[x].key[1] = es[y].key[1], es[x].key[2] = es[y].key[2]
               PROVE  x = y
    OBVIOUS
  <2>1. es[x].key = es[y].key
    <3>1. es[x].key = <<es[x].key[1], es[x].key[2]>> /\ es[y].key = <<es[y].key[1], es[y].key[2]>>
      BY <1>1
    <3> QED  BY <3>1
  <2> QED  BY <2>1 DEF Distinct
<1>3. es[j].key[1] # es[i].key[1] /\ es[k].key[1] # es[i].key[1]
  BY <1>2
<1>4. es[i].key[1] \in Sides /\ es[j].key[1] \in Sides /\ es[k].key[1] \in Sides
  BY <1>1
<1>5. es[j].key[1] = es[k].key[1]
  BY <1>3, <1>4 DEF Sides
<1> QED  BY <1>2, <1>3, <1>5

\* Decisions have times.
LEMMA DecisionTimes ==
    ASSUME NEW r \in Document, comments \in Seq(Commands), Known(r, comments)
    PROVE  /\ \A i \in DOMAIN r.entries : /\ r.entries[i].decision \in DOMAIN comments
                                          /\ r.entries[i].granted \in DOMAIN comments
                                          /\ TimeOf(r.entries[i].decision) \in Nat
                                          /\ TimeOf(r.entries[i].granted) \in Nat
                                          /\ r.entries[i].decision \in Nat
           /\ \A c \in r.commands : TimeOf(c) \in Nat /\ comments[c] \in Commands
<1>1. \A c \in r.commands : c \in DOMAIN comments /\ comments[c] \in Commands
  BY DEF Known
<1>2. \A c \in r.commands : TimeOf(c) \in Nat
  BY <1>1, CommandFields DEF TimeOf
<1>3. \A i \in DOMAIN r.entries : r.entries[i].decision \in r.commands
      /\ r.entries[i].granted \in r.commands
  BY DEF Known
<1>4. r.commands \subseteq Nat
  BY DocFields
<1> QED  BY <1>1, <1>2, <1>3, <1>4

\* Of two entries one is newer.
LEMMA NewerAsymmetric ==
    ASSUME NEW e, NEW f, TimeOf(e.decision) \in Nat, TimeOf(f.decision) \in Nat,
           e.decision \in Nat, f.decision \in Nat
    PROVE  /\ Newer(e, f) => ~Newer(f, e) /\ TimeOf(f.decision) <= TimeOf(e.decision)
           /\ e.decision # f.decision => Newer(e, f) \/ Newer(f, e)
BY DEF Newer

\* The entry that supersedes another is superseded by none.
LEMMA Winner ==
    ASSUME NEW r \in Document, comments \in Seq(Commands), Known(r, comments), Distinct(r.entries),
           NEW i \in DOMAIN r.entries, NEW j \in Rivals(r, i), Newer(r.entries[j], r.entries[i])
    PROVE  /\ j \in DOMAIN r.entries /\ j # i /\ r.entries[j].key[2] = r.entries[i].key[2]
           /\ r.entries[j].numbered /\ r.entries[i].numbered /\ r.entries[j].state # "superseded"
           /\ TimeOf(r.entries[i].decision) <= TimeOf(r.entries[j].decision)
           /\ ~\E k \in Rivals(r, j) : Newer(r.entries[k], r.entries[j])
<1>1. /\ j \in DOMAIN r.entries /\ j # i /\ r.entries[j].key[2] = r.entries[i].key[2]
      /\ r.entries[j].numbered /\ r.entries[i].numbered /\ r.entries[j].state # "superseded"
  BY DEF Rivals
<1>2. r.entries \in Seq(Entry)
  BY DocFields
<1>t. /\ TimeOf(r.entries[i].decision) \in Nat /\ TimeOf(r.entries[j].decision) \in Nat
      /\ r.entries[i].decision \in Nat /\ r.entries[j].decision \in Nat
  BY <1>1, DecisionTimes
<1>3. TimeOf(r.entries[i].decision) <= TimeOf(r.entries[j].decision)
      /\ ~Newer(r.entries[i], r.entries[j])
  BY <1>t, NewerAsymmetric
<1>4. ASSUME NEW k \in Rivals(r, j), Newer(r.entries[k], r.entries[j]) PROVE FALSE
  <2>1. k \in DOMAIN r.entries /\ k # j /\ r.entries[k].key[2] = r.entries[j].key[2]
    BY DEF Rivals
  <2>2. k = i
    BY <2>1, <1>1, <1>2, AtMostTwo
  <2> QED  BY <2>2, <1>4, <1>3
<1> QED  BY <1>1, <1>3, <1>4

\* Reconciling keeps what holds of a document.
LEMMA ReconcileDoc ==
    ASSUME NEW r \in Document, comments \in Seq(Commands), NEW m, Doc(r, comments, paired, m)
    PROVE  Doc(ReconcileDuplicates(r), comments, paired, m)
<1> DEFINE q == ReconcileDuplicates(r)
           D == DOMAIN r.entries
           a == r.entries
           b == q.entries
           out(i) == \E j \in Rivals(r, i) : Newer(a[j], a[i])
<1>f. /\ q.batches = r.batches /\ q.active = r.active /\ q.commands = r.commands /\ DOMAIN b = D
      /\ \A i \in D : b[i] = IF out(i) THEN [a[i] EXCEPT !.state = "superseded"] ELSE a[i]
  BY ReconcileFacts
<1>h. /\ Distinct(a) /\ Known(r, comments) /\ Numbers(a, paired) /\ Replaced(a, paired)
      /\ Grants(a, comments) /\ Carried(r, comments) /\ Heeded(r, comments) /\ Strays(a)
      /\ Tests(a, PlanOf(r.batches), r.active) /\ Ended(a, m)
         /\ Placed(a, PlanOf(r.batches), r.active)
  BY DEF Doc
<1>e. a \in Seq(Entry) /\ \A i \in D : a[i] \in Entry
  BY DocFields
<1>w. \A i \in D : \A j \in Rivals(r, i) : Newer(a[j], a[i]) =>
           /\ j \in D /\ j # i /\ a[j].key[2] = a[i].key[2]
           /\ a[j].numbered /\ a[i].numbered /\ a[j].state # "superseded"
           /\ TimeOf(a[i].decision) <= TimeOf(a[j].decision) /\ ~out(j)
  BY <1>h, Winner
<1>t. /\ \A i \in D : TimeOf(a[i].decision) \in Nat
      /\ \A c \in r.commands : TimeOf(c) \in Nat
  BY <1>h, DecisionTimes
<1>k. \A i \in D : /\ b[i].key = a[i].key /\ b[i].side = a[i].side /\ b[i].head = a[i].head
                   /\ b[i].try = a[i].try /\ b[i].granted = a[i].granted
                   /\ b[i].decision = a[i].decision /\ b[i].batch = a[i].batch
                   /\ b[i].numbered = a[i].numbered
                   /\ b[i].state = IF out(i) THEN "superseded" ELSE a[i].state
  <2> HIDE DEF a, b, out, D
  <2> TAKE i \in D
  <2>1. a[i] \in Entry /\ b[i] = IF out(i) THEN [a[i] EXCEPT !.state = "superseded"] ELSE a[i]
    BY <1>e, <1>f
  <2> QED  BY <2>1, EntryState DEF EntryStates
<1>r. \A i \in D : \A j \in Rivals(r, i) : j \in D /\ j # i /\ a[j].key[2] = a[i].key[2]
                       /\ a[j].state # "superseded" /\ a[i].state # "superseded"
  BY DEF Rivals
<1> HIDE DEF q, a, b, D, out
<1>1. Distinct(b)
  BY <1>f, <1>k, <1>h DEF Distinct, D, a
<1>2. Known(q, comments)
  BY <1>f, <1>k, <1>h DEF Known, D, a, b
<1>3. Numbers(b, paired)
  <2> SUFFICES ASSUME NEW i \in D PROVE NumberOf(b[i], paired)
    BY <1>f DEF Numbers
  <2>1. NumberOf(a[i], paired)
    BY <1>h DEF Numbers, D, a
  <2> QED  BY <2>1, <1>k DEF NumberOf
<1>4. Replaced(b, paired)
  <2> SUFFICES ASSUME NEW i \in D, b[i].state = "superseded"
               PROVE  /\ b[i].key[2] \in paired
                      /\ \E j \in D : b[j].key[2] = b[i].key[2] /\ b[j].state # "superseded"
                         /\ b[j].numbered
    BY <1>f DEF Replaced
  <2>1. CASE out(i)
    <3>1. PICK j \in Rivals(r, i) : Newer(a[j], a[i])
      BY <2>1 DEF out
    <3>2. /\ j \in D /\ j # i /\ a[j].key[2] = a[i].key[2] /\ a[j].numbered /\ a[i].numbered
          /\ a[j].state # "superseded" /\ ~out(j)
      BY <3>1, <1>w
    <3>3. a[i].key[1] # a[j].key[1]
      BY <3>2, <1>e, <1>h, AtMostTwo DEF D, a
    <3>4. a[i].key[1] \in Sides /\ a[j].key[1] \in Sides
      BY <3>2, <1>e, EntryFields
    <3>5. NumberOf(a[i], paired) /\ NumberOf(a[j], paired)
      BY <3>2, <1>h DEF Numbers, D, a
    <3>6. a[i].key[2] \in paired
      BY <3>2, <3>3, <3>4, <3>5 DEF NumberOf, Sides
    <3> QED  BY <3>2, <3>6, <1>k
  <2>2. CASE ~out(i)
    <3>1. a[i].state = "superseded"
      BY <2>2, <1>k
    <3>2. a[i].key[2] \in paired
      BY <3>1, <1>h DEF Replaced, D, a
    <3>3. PICK j \in D : a[j].key[2] = a[i].key[2] /\ a[j].state # "superseded" /\ a[j].numbered
      BY <3>1, <1>h DEF Replaced, D, a
    <3>4. ~out(j)
      <4> SUFFICES ASSUME NEW k \in Rivals(r, j) PROVE FALSE
        BY DEF out
      <4>1. k \in D /\ k # j /\ a[k].key[2] = a[j].key[2] /\ a[k].state # "superseded"
        BY <1>r, <3>3
      <4>2. k = i
        BY <4>1, <3>1, <3>3, <1>e, <1>h, AtMostTwo DEF D, a
      <4> QED  BY <4>1, <4>2, <3>1
    <3> QED  BY <3>2, <3>3, <3>4, <1>k
  <2> QED  BY <2>1, <2>2
<1>5. Grants(b, comments)
  <2> SUFFICES ASSUME NEW i \in D PROVE GrantOf(b[i], comments)
    BY <1>f DEF Grants
  <2>1. GrantOf(a[i], comments)
    BY <1>h DEF Grants, D, a
  <2> QED  BY <2>1, <1>k DEF GrantOf
<1>6. Carried(q, comments)
  <2> SUFFICES ASSUME NEW c \in r.commands
               PROVE  \E i \in D : b[i].key[2] = comments[c].pr /\ b[i].state # "superseded"
                                   /\ comments[c].time <= comments[b[i].decision].time
    BY <1>f DEF Carried, b
  <2>1. PICK i \in D : a[i].key[2] = comments[c].pr /\ a[i].state # "superseded"
                                   /\ comments[c].time <= comments[a[i].decision].time
    BY <1>h DEF Carried, D, a
  <2>2. CASE out(i)
    <3>1. PICK j \in Rivals(r, i) : Newer(a[j], a[i])
      BY <2>2 DEF out
    <3>2. /\ j \in D /\ a[j].key[2] = a[i].key[2] /\ a[j].state # "superseded" /\ ~out(j)
          /\ TimeOf(a[i].decision) <= TimeOf(a[j].decision)
      BY <3>1, <1>w
    <3>3. TimeOf(c) <= TimeOf(a[j].decision)
      <4>1. TimeOf(c) <= TimeOf(a[i].decision)
        BY <2>1 DEF TimeOf
      <4>2. TimeOf(c) \in Nat /\ TimeOf(a[i].decision) \in Nat /\ TimeOf(a[j].decision) \in Nat
        BY <1>t, <3>2
      <4> QED  BY <4>1, <4>2, <3>2
    <3> QED  BY <2>1, <3>2, <3>3, <1>k DEF TimeOf
  <2>3. CASE ~out(i)
    BY <2>1, <2>3, <1>k
  <2> QED  BY <2>2, <2>3
<1>7. Heeded(q, comments)
  <2> SUFFICES ASSUME NEW i \in D, Alone(b, i), NEW c \in r.commands, comments[c].pr = b[i].key[2],
                      comments[c].kind = "reject"
               PROVE  b[i].state = "cancelled" \/ comments[c].time <= comments[b[i].granted].time
    BY <1>f DEF Heeded, b
  <2>1. Alone(a, i)
    BY <1>k, <1>f DEF Alone, D, a
  <2>2. a[i].state = "cancelled" \/ comments[c].time <= comments[a[i].granted].time
    BY <2>1, <1>h, <1>k DEF Heeded, D, a
  <2>3. ~out(i)
    <3> SUFFICES ASSUME NEW j \in Rivals(r, i) PROVE FALSE
      BY DEF out
    <3> QED  BY <1>r, <2>1 DEF Alone, D, a
  <2> QED  BY <2>2, <2>3, <1>k
<1>8. Strays(b)
  <2> SUFFICES ASSUME NEW i \in D, NEW j \in D, j # i, b[j].key[2] = b[i].key[2],
                          b[i].state = "testing",
                      b[j].state # "superseded"
               PROVE  ~b[j].numbered \/ j < i
    BY <1>f DEF Strays
  <2>1. a[j].key[2] = a[i].key[2] /\ a[i].state = "testing" /\ a[j].state # "superseded"
    BY <1>k
  <2> QED  BY <2>1, <1>h, <1>k DEF Strays, D, a
<1>9. Tests(b, PlanOf(q.batches), q.active)
  <2> SUFFICES ASSUME NEW i \in D PROVE TestOf(PlanOf(r.batches), r.active, b[i])
    BY <1>f DEF Tests
  <2>1. TestOf(PlanOf(r.batches), r.active, a[i])
    BY <1>h DEF Tests, D, a
  <2> QED  BY <2>1, <1>k DEF TestOf, MemberOf
<1>10. Ended(b, m)
  <2> SUFFICES ASSUME NEW i \in D, b[i].state = "merged" PROVE b[i].batch \in Range(m)
    BY <1>f DEF Ended
  <2> QED  BY <1>h, <1>k DEF Ended, D, a
<1>11. Placed(b, PlanOf(q.batches), q.active)
  BY <1>h, <1>f, <1>k DEF Placed, D, a
<1> QED  BY <1>1, <1>2, <1>3, <1>4, <1>5, <1>6, <1>7, <1>8, <1>9, <1>10, <1>11 DEF Doc, b, q

-----------------------------------------------------------------------------
(* Commands. *)

\* The entry of a new approval.
LEMMA FreshType ==
    ASSUME NEW k \in Keys, NEW cmd \in Commands, NEW n \in BOOLEAN, NEW h \in 1..MaxHead,
           NEW o \in BOOLEAN, NEW c \in Nat, NEW t \in BOOLEAN
    PROVE  LET f == [key |-> k, side |-> cmd.side, numbered |-> n, head |-> h, rollup |-> o,
                     try |-> t, granted |-> c, decision |-> c, batch |-> 0,
                     state |-> CASE cmd.kind = "reject" -> "cancelled"
                                 [] cmd.kind # "reject" /\ n -> "queued"
                                 [] OTHER -> "waiting"] IN
           /\ f \in Entry /\ f.key = k /\ f.side = cmd.side /\ f.numbered = n /\ f.try = t
           /\ f.granted = c /\ f.decision = c /\ f.batch = 0
           /\ f.state = IF cmd.kind = "reject" THEN "cancelled" ELSE IF n THEN "queued" ELSE "waiting"
<1> DEFINE st == CASE cmd.kind = "reject" -> "cancelled"
                   [] cmd.kind # "reject" /\ n -> "queued"
                   [] OTHER -> "waiting"
<1>1. st \in EntryStates
  BY DEF EntryStates
<1>2. st = IF cmd.kind = "reject" THEN "cancelled" ELSE IF n THEN "queued" ELSE "waiting"
  OBVIOUS
<1>3. cmd.side \in Sides /\ 0 \in 0..MaxBatches
  BY CommandFields, Bounds
<1> HIDE DEF st
<1>4. [key |-> k, side |-> cmd.side, numbered |-> n, head |-> h, rollup |-> o,
       try |-> t, granted |-> c, decision |-> c, batch |-> 0, state |-> st] \in Entry
  BY <1>1, <1>3 DEF Entry
<1> QED  BY <1>2, <1>4 DEF st

\* The entry of a pull request's first comment.
LEMMA DecidedNew ==
    ASSUME NEW c \in Nat, NEW cmd \in Commands, head \in [Sides -> [PRs -> 1..MaxHead]]
    PROVE  LET f == Decided(c, cmd, <<>>) IN
           /\ f \in Entry /\ f.key = <<cmd.side, cmd.pr>> /\ f.side = cmd.side
           /\ f.numbered = Numbered(cmd) /\ f.try = (cmd.kind = "try")
           /\ f.granted = c /\ f.decision = c /\ f.batch = 0
           /\ f.state = IF cmd.kind = "reject" THEN "cancelled"
                        ELSE IF Numbered(cmd) THEN "queued" ELSE "waiting"
<1> DEFINE h == head[cmd.side][cmd.pr]
           n == Numbered(cmd)
           k == <<cmd.side, cmd.pr>>
           o == cmd.kind = "approveRollup" \/ (<<>> # <<>> /\ <<>>[1].rollup)
           t == cmd.kind = "try"
<1>1. cmd.pr \in PRs /\ cmd.side \in Sides
  BY CommandFields
<1>2. h \in 1..MaxHead
  BY <1>1
<1>3. n \in BOOLEAN /\ o \in BOOLEAN /\ t \in BOOLEAN
  BY DEF Numbered
<1>4. k \in Keys
  BY <1>1 DEF Keys
<1>5. Decided(c, cmd, <<>>) =
        [key |-> k, side |-> cmd.side, numbered |-> n,
         head |-> h, rollup |-> o, try |-> t, granted |-> c, decision |-> c, batch |-> 0,
         state |-> CASE cmd.kind = "reject" -> "cancelled"
                     [] cmd.kind # "reject" /\ n -> "queued"
                     [] OTHER -> "waiting"]
  BY DEF Decided
<1> HIDE DEF h, n, o, t, k
<1>6. LET f == Decided(c, cmd, <<>>) IN
           /\ f \in Entry /\ f.key = k /\ f.side = cmd.side /\ f.numbered = n /\ f.try = t
           /\ f.granted = c /\ f.decision = c /\ f.batch = 0
           /\ f.state = IF cmd.kind = "reject" THEN "cancelled" ELSE IF n THEN "queued" ELSE "waiting"
  BY <1>2, <1>3, <1>4, <1>5, FreshType
<1> QED  BY <1>6 DEF k, n, t

\* A new approval replaces an entry.
LEMMA DecidedAgain ==
    ASSUME NEW c \in Nat, NEW cmd \in Commands, head \in [Sides -> [PRs -> 1..MaxHead]],
               NEW e \in Entry,
           cmd.kind \in Approvals
    PROVE  LET f == Decided(c, cmd, <<e>>) IN
           /\ f \in Entry /\ f.key = e.key /\ f.side = cmd.side
           /\ f.numbered = Numbered(cmd) /\ f.try = (cmd.kind = "try")
           /\ f.granted = c /\ f.decision = c /\ f.batch = 0
           /\ f.state = IF Numbered(cmd) THEN "queued" ELSE "waiting"
<1> DEFINE h == head[cmd.side][cmd.pr]
           n == Numbered(cmd)
           k == e.key
           old == <<e>>
           o == cmd.kind = "approveRollup" \/ (old # <<>> /\ old[1].rollup)
           t == cmd.kind = "try"
<1>1. cmd.pr \in PRs /\ cmd.side \in Sides /\ cmd.kind # "reject" /\ cmd.kind # "retry"
  BY CommandFields DEF Approvals
<1>2. h \in 1..MaxHead
  BY <1>1
<1>3. n \in BOOLEAN /\ o \in BOOLEAN /\ t \in BOOLEAN
  BY DEF Numbered
<1>4. k \in Keys /\ old # <<>> /\ old[1] = e
  BY EntryFields
<1> HIDE DEF h, n, o, t, k, old
<1>5. Decided(c, cmd, old) =
        [key |-> k, side |-> cmd.side, numbered |-> n,
         head |-> h, rollup |-> o, try |-> t, granted |-> c, decision |-> c, batch |-> 0,
         state |-> CASE cmd.kind = "reject" -> "cancelled"
                     [] cmd.kind # "reject" /\ n -> "queued"
                     [] OTHER -> "waiting"]
  BY <1>1, <1>4 DEF Decided, h, n, o, t, k
<1>6. LET f == Decided(c, cmd, old) IN
           /\ f \in Entry /\ f.key = k /\ f.side = cmd.side /\ f.numbered = n /\ f.try = t
           /\ f.granted = c /\ f.decision = c /\ f.batch = 0
           /\ f.state = IF cmd.kind = "reject" THEN "cancelled" ELSE IF n THEN "queued" ELSE "waiting"
  BY <1>2, <1>3, <1>4, <1>5, FreshType
<1> QED  BY <1>1, <1>6 DEF k, n, t, old

\* Any other command edits it.
LEMMA DecidedOther ==
    ASSUME NEW c \in Nat, NEW cmd \in Commands, NEW e \in Entry, cmd.kind \notin Approvals
    PROVE  LET f == Decided(c, cmd, <<e>>) IN
           /\ f \in Entry /\ f.key = e.key /\ f.side = e.side /\ f.numbered = e.numbered
           /\ f.head = e.head /\ f.try = e.try /\ f.decision = c
           /\ f.granted = IF cmd.kind = "reject" THEN c ELSE e.granted
           /\ f.state = IF cmd.kind = "reject" THEN "cancelled"
                        ELSE IF cmd.kind = "retry" /\ e.state # "testing" THEN "queued" ELSE e.state
           /\ f.state = "testing" => f.batch = e.batch
           /\ f.state = "merged" => f.batch = e.batch
<1>1. cmd.kind \in {"reject", "retry", "rollup", "never"}
  BY CommandFields DEF Kinds
<1> DEFINE old == <<e>>
<1>2. old # <<>> /\ old[1] = e /\ 0 \in 0..MaxBatches
  BY Bounds
<1> HIDE DEF old
<1>3. CASE cmd.kind = "reject"
  <2>1. Decided(c, cmd, old) = [e EXCEPT !.state = "cancelled", !.granted = c, !.decision = c]
    BY <1>2, <1>3 DEF Decided, Approvals
  <2> QED  BY <2>1, <1>3 DEF Entry, EntryStates, old
<1>4. CASE cmd.kind = "retry"
  <2>1. Decided(c, cmd, old) =
          [e EXCEPT !.state = IF @ = "testing" THEN @ ELSE "queued",
                    !.batch = IF e.state = "testing" THEN @ ELSE 0, !.decision = c]
    BY <1>2, <1>4 DEF Decided, Approvals
  <2> QED  BY <1>2, <2>1, <1>4 DEF Entry, EntryStates, old
<1>5. CASE cmd.kind \in {"rollup", "never"}
  <2>1. Decided(c, cmd, old) = [e EXCEPT !.rollup = (cmd.kind = "rollup"), !.decision = c]
    BY <1>2, <1>5 DEF Decided, Approvals
  <2> QED  BY <2>1, <1>5 DEF Entry, EntryStates, old
<1> QED  BY <1>1, <1>3, <1>4, <1>5

\* A comment that finds no entry adds one of a key the queue does not have.
LEMMA NewKey ==
    ASSUME RollupTypeOK, NEW cmd \in Commands, Matches(repo, cmd) = {},
           Numbers(repo.entries, paired), Replaced(repo.entries, paired)
    PROVE  \A i \in DOMAIN repo.entries : repo.entries[i].key # <<cmd.side, cmd.pr>>
<1>1. \A i \in DOMAIN repo.entries : repo.entries[i] \in Entry
  BY DocFields DEF RollupTypeOK
<1>2. ASSUME NEW i \in DOMAIN repo.entries, repo.entries[i].key = <<cmd.side, cmd.pr>> PROVE FALSE
  <2> DEFINE e == repo.entries[i]
  <2>1. e.key[1] = cmd.side /\ e.key[2] = cmd.pr /\ e.side \in Sides /\ cmd.side \in Sides
    BY <1>1, <1>2, EntryFields, CommandFields
  <2>2. NumberOf(e, paired)
    BY DEF Numbers
  <2>3. CASE e.state # "superseded"
    <3>1. e.side = cmd.side \/ (Numbered(cmd) /\ e.numbered)
      BY <2>1, <2>2 DEF NumberOf, Numbered, Sides
    <3>2. i \in Matches(repo, cmd)
      BY <2>1, <2>3, <3>1 DEF Matches
    <3> QED  BY <3>2
  <2>4. CASE e.state = "superseded"
    <3>1. cmd.pr \in paired
      BY <2>1, <2>4 DEF Replaced
    <3>2. PICK j \in DOMAIN repo.entries : /\ repo.entries[j].key[2] = cmd.pr
                                           /\ repo.entries[j].state # "superseded"
                                              /\ repo.entries[j].numbered
      BY <2>1, <2>4 DEF Replaced
    <3>3. j \in Matches(repo, cmd)
      BY <3>1, <3>2 DEF Matches, Numbered
    <3> QED  BY <3>3
  <2> QED  BY <2>3, <2>4
<1> QED  BY <1>2

\* The document after a command.
LEMMA NotedFacts ==
    ASSUME NEW r \in Document, NEW es \in Seq(Entry), NEW c \in Nat
    PROVE  [entries |-> es, batches |-> r.batches, active |-> r.active, split |-> r.split,
            commands |-> r.commands \cup {c}] \in Document
<1>1. /\ r.batches \in Seq(Batch) /\ r.active \in 0..MaxBatches
      /\ r.split \in Seq(Seq(Keys)) /\ r.commands \in SUBSET Nat
  BY DocFields
<1>2. r.commands \cup {c} \in SUBSET Nat
  BY <1>1
<1> QED  BY <1>1, <1>2 DEF Document

\* A command that finds no entry keeps what holds of a document ...
LEMMA ApplyNew ==
    ASSUME RollupTypeOK, NEW cs \in Seq(Commands), NEW m, Doc(repo, cs, paired, m),
           NEW c \in DOMAIN cs, c \notin repo.commands, NEW cmd \in Commands, cs[c] = cmd,
           Matches(repo, cmd) = {}, cmd.kind \in Approvals \cup {"reject"}
    PROVE  LET q == [repo EXCEPT !.commands = @ \cup {c},
                                 !.entries = Append(repo.entries, Decided(c, cmd, <<>>))] IN
           /\ q \in Document /\ q.batches = repo.batches /\ q.active = repo.active
           /\ Doc(q, cs, paired, m)
<1> DEFINE f == Decided(c, cmd, <<>>)
           a == repo.entries
           n == Len(a) + 1
           b == Append(a, f)
           q == [repo EXCEPT !.commands = @ \cup {c}, !.entries = b]
           D == DOMAIN a
           plan == PlanOf(repo.batches)
<1>1. repo \in Document /\ head \in [Sides -> [PRs -> 1..MaxHead]]
  BY DEF RollupTypeOK
<1>e. /\ a \in Seq(Entry) /\ D = 1..Len(a) /\ Len(a) \in Nat /\ \A i \in D : a[i] \in Entry
      /\ repo.commands \subseteq Nat
  BY <1>1, DocFields
<1>c. c \in Nat
  OBVIOUS
<1>g. cmd.pr \in PRs /\ cmd.side \in Sides
  BY CommandFields
<1>f. /\ f \in Entry /\ f.key = <<cmd.side, cmd.pr>> /\ f.side = cmd.side
      /\ f.numbered = Numbered(cmd) /\ f.try = (cmd.kind = "try")
      /\ f.granted = c /\ f.decision = c /\ f.batch = 0
      /\ f.state = IF cmd.kind = "reject" THEN "cancelled"
                   ELSE IF Numbered(cmd) THEN "queued" ELSE "waiting"
  BY <1>1, <1>c, DecidedNew
<1>s. f.state \notin {"testing", "superseded", "merged"}
  BY <1>f
<1>k. f.key[1] = cmd.side /\ f.key[2] = cmd.pr
  BY <1>f
<1>h. /\ Distinct(a) /\ Known(repo, cs) /\ Numbers(a, paired) /\ Replaced(a, paired)
      /\ Grants(a, cs) /\ Carried(repo, cs) /\ Heeded(repo, cs) /\ Strays(a)
      /\ Tests(a, plan, repo.active) /\ Ended(a, m) /\ Placed(a, plan, repo.active)
  BY DEF Doc
<1>m. \A i \in D : a[i].key # f.key
  BY <1>h, <1>f, NewKey
<1> HIDE DEF f
<1>b. b \in Seq(Entry) /\ DOMAIN b = D \cup {n} /\ n \notin D /\ b[n] = f
/\ \A i \in D : b[i] = a[i]
  BY <1>e, <1>f, AppendProperties
<1>t. \A d \in repo.commands \cup {c} : d \in DOMAIN cs /\ cs[d].time \in Nat
  <2>1. \A d \in DOMAIN cs : cs[d] \in Commands
    OBVIOUS
  <2> QED  BY <2>1, <1>h, CommandFields DEF Known
<1> HIDE DEF b
<1>q. q \in Document /\ q.entries = b /\ q.batches = repo.batches /\ q.active = repo.active
      /\ q.commands = repo.commands \cup {c}
  <2> HIDE DEF a, D, n, plan
  <2>1. b \in Seq(Entry) /\ repo \in Document /\ c \in Nat
    BY <1>1, <1>b, <1>c
  <2>2. repo = [entries |-> repo.entries, batches |-> repo.batches, active |-> repo.active,
                split |-> repo.split, commands |-> repo.commands]
    BY <2>1 DEF Document
  <2> DEFINE cm == repo.commands \cup {c}
  <2>3. q = [repo EXCEPT !.commands = cm, !.entries = b]
    OBVIOUS
  <2> HIDE DEF q, cm
  <2>4. q = [entries |-> b, batches |-> repo.batches, active |-> repo.active, split |-> repo.split,
             commands |-> cm]
    BY <2>2, <2>3
  <2>5. q = [entries |-> b, batches |-> repo.batches, active |-> repo.active, split |-> repo.split,
             commands |-> repo.commands \cup {c}]
    BY <2>4 DEF cm
  <2>6. q \in Document
    BY <2>1, <2>5, NotedFacts
  <2> QED  BY <2>5, <2>6
<1> HIDE DEF q, a, D, n, plan
<1>2. Distinct(b)
  <2>1. \A i \in D : a[i].decision # f.decision
    BY <1>h, <1>f DEF Known, D, a
  <2> QED  BY <2>1, <1>b, <1>m, <1>h DEF Distinct, D
<1>3. Known(q, cs)
  BY <1>b, <1>f, <1>q, <1>h DEF Known, D, a
<1>4. Numbers(b, paired)
  <2>1. NumberOf(f, paired)
    BY <1>f, <1>k, <1>s, <1>g DEF NumberOf, Numbered, Sides
  <2> QED  BY <2>1, <1>b, <1>h DEF Numbers, D
<1>5. Replaced(b, paired)
  <2> SUFFICES ASSUME NEW i \in D, a[i].state = "superseded"
               PROVE  /\ a[i].key[2] \in paired
                      /\ \E j \in D : a[j].key[2] = a[i].key[2] /\ a[j].state # "superseded"
                         /\ a[j].numbered
    BY <1>b, <1>s DEF Replaced
  <2> QED  BY <1>h DEF Replaced, D
<1>6. Grants(b, cs)
  <2>1. GrantOf(f, cs)
    BY <1>f DEF GrantOf, Approvals
  <2> QED  BY <2>1, <1>b, <1>h DEF Grants, D
<1>7. Carried(q, cs)
  <2> SUFFICES ASSUME NEW d \in repo.commands \cup {c}
               PROVE  \E i \in DOMAIN b : b[i].key[2] = cs[d].pr /\ b[i].state # "superseded"
                                          /\ cs[d].time <= cs[b[i].decision].time
    BY <1>q DEF Carried
  <2>1. CASE d = c
    <3>1. cs[c].time <= cs[f.decision].time
      BY <1>f, <1>t
    <3> QED  BY <2>1, <3>1, <1>b, <1>s, <1>k
  <2>2. CASE d \in repo.commands
    <3>1. PICK i \in D : a[i].key[2] = cs[d].pr /\ a[i].state # "superseded"
                         /\ cs[d].time <= cs[a[i].decision].time
      BY <2>2, <1>h DEF Carried, D, a
    <3> QED  BY <3>1, <1>b
  <2> QED  BY <2>1, <2>2
<1>8. Heeded(q, cs)
  <2> SUFFICES ASSUME NEW i \in DOMAIN b, Alone(b, i), NEW d \in repo.commands \cup {c},
                      cs[d].pr = b[i].key[2], cs[d].kind = "reject"
               PROVE  b[i].state = "cancelled" \/ cs[d].time <= cs[b[i].granted].time
    BY <1>q DEF Heeded
  <2>1. CASE i = n
    <3>1. CASE d = c
      BY <2>1, <3>1, <1>b, <1>f
    <3>2. CASE d # c
      <4>1. PICK j \in D : a[j].key[2] = cs[d].pr
        BY <3>2, <1>h DEF Carried, D, a
      <4>2. j = n
        BY <4>1, <2>1, <1>b DEF Alone
      <4> QED  BY <4>2, <1>b
    <3> QED  BY <3>1, <3>2
  <2>2. CASE i \in D
    <3>1. Alone(a, i)
      BY <2>2, <1>b DEF Alone, D
    <3>2. d # c
      BY <2>2, <1>b, <1>k DEF Alone
    <3>3. a[i].state = "cancelled" \/ cs[d].time <= cs[a[i].granted].time
      BY <2>2, <3>1, <3>2, <1>h, <1>b DEF Heeded, D, a
    <3> QED  BY <2>2, <3>3, <1>b
  <2> QED  BY <2>1, <2>2, <1>b
<1>9. Strays(b)
  <2> SUFFICES ASSUME NEW i \in DOMAIN b, NEW j \in DOMAIN b, j # i, b[j].key[2] = b[i].key[2],
                      b[i].state = "testing", b[j].state # "superseded"
               PROVE  ~b[j].numbered \/ j < i
    BY DEF Strays
  <2>1. i \in D
    BY <1>b, <1>s
  <2>2. CASE j \in D
    BY <2>1, <2>2, <1>b, <1>h DEF Strays, D
  <2>3. CASE j = n
    <3>1. SUFFICES ASSUME Numbered(cmd) PROVE FALSE
      BY <2>3, <1>b, <1>f
    <3>2. a[i].state = "testing" /\ a[i].key[2] = cmd.pr
      BY <2>1, <2>3, <1>b, <1>k
    <3>3. a[i].numbered
      BY <2>1, <3>2, <1>h DEF Numbers, NumberOf, D
    <3>4. i \in Matches(repo, cmd)
      BY <2>1, <3>1, <3>2, <3>3 DEF Matches, D, a
    <3> QED  BY <3>4
  <2> QED  BY <2>2, <2>3, <1>b
<1>10. Tests(b, plan, q.active)
  <2>1. TestOf(plan, repo.active, f)
    BY <1>s DEF TestOf
  <2> QED  BY <2>1, <1>b, <1>q, <1>h DEF Tests, D
<1>11. Ended(b, m)
  BY <1>b, <1>s, <1>h DEF Ended, D
<1>12. Placed(b, plan, q.active)
  BY <1>b, <1>q, <1>h DEF Placed, D
<1>13. Doc(q, cs, paired, m)
  BY <1>2, <1>3, <1>4, <1>5, <1>6, <1>7, <1>8, <1>9, <1>10, <1>11, <1>12, <1>q DEF Doc, plan
<1> QED  BY <1>q, <1>13 DEF q, b, a, f

\* The document once comment c left f in place of entry i.
Noted(c, i, f) ==
    [repo EXCEPT !.commands = @ \cup {c}, !.entries = [repo.entries EXCEPT ![i] = f]]

\* ... and so does one that finds an entry.
LEMMA ApplyAgain ==
    ASSUME RollupTypeOK, NEW cs \in Seq(Commands), NEW m, Doc(repo, cs, paired, m),
           NEW c \in DOMAIN cs, c \notin repo.commands, NEW cmd \in Commands, cs[c] = cmd,
           NEW i \in First(Matches(repo, cmd)),
           cs[repo.entries[i].decision].time <= cmd.time,
           repo.entries[i].state = "cancelled" => cmd.kind # "retry",
           cmd.kind \in {"rollup", "never"} => repo.entries[i].state # "testing"
    PROVE  LET q == Noted(c, i, Decided(c, cmd, <<repo.entries[i]>>)) IN
           /\ q \in Document /\ q.batches = repo.batches /\ q.active = repo.active
           /\ Doc(q, cs, paired, m)
<1> DEFINE a == repo.entries
           e == a[i]
           f == Decided(c, cmd, <<e>>)
           b == [a EXCEPT ![i] = f]
           q == [repo EXCEPT !.commands = @ \cup {c}, !.entries = b]
           D == DOMAIN a
           plan == PlanOf(repo.batches)
<1>1. repo \in Document /\ head \in [Sides -> [PRs -> 1..MaxHead]]
  BY DEF RollupTypeOK
<1>e. /\ a \in Seq(Entry) /\ D = 1..Len(a) /\ Len(a) \in Nat /\ \A j \in D : a[j] \in Entry
      /\ repo.commands \subseteq Nat
  BY <1>1, DocFields
<1>i. /\ i \in D /\ e.state # "superseded" /\ e.key[2] = cmd.pr
      /\ e.side = cmd.side \/ (Numbered(cmd) /\ e.numbered)
      /\ \A j \in Matches(repo, cmd) : i <= j
  BY DEF First, Matches
<1>c. c \in Nat /\ e \in Entry
  BY <1>e, <1>i
<1>g. cmd.pr \in PRs /\ cmd.side \in Sides /\ cmd.kind \in Kinds
  BY CommandFields
<1>h. /\ Distinct(a) /\ Known(repo, cs) /\ Numbers(a, paired) /\ Replaced(a, paired)
      /\ Grants(a, cs) /\ Carried(repo, cs) /\ Heeded(repo, cs) /\ Strays(a)
      /\ Tests(a, plan, repo.active) /\ Ended(a, m) /\ Placed(a, plan, repo.active)
  BY DEF Doc
<1>A. cmd.kind \in Approvals =>
           /\ f \in Entry /\ f.key = e.key /\ f.side = cmd.side
           /\ f.numbered = Numbered(cmd) /\ f.try = (cmd.kind = "try")
           /\ f.granted = c /\ f.decision = c
           /\ f.state \in {"queued", "waiting"}
  BY <1>1, <1>c, DecidedAgain
<1>B. cmd.kind \notin Approvals =>
           /\ f \in Entry /\ f.key = e.key /\ f.side = e.side /\ f.numbered = e.numbered
           /\ f.head = e.head /\ f.try = e.try /\ f.decision = c
           /\ f.granted = IF cmd.kind = "reject" THEN c ELSE e.granted
           /\ f.state = IF cmd.kind = "reject" THEN "cancelled"
                        ELSE IF cmd.kind = "retry" /\ e.state # "testing" THEN "queued" ELSE e.state
           /\ f.state = "testing" => f.batch = e.batch
           /\ f.state = "merged" => f.batch = e.batch
  BY <1>c, DecidedOther
<1>t. \A d \in repo.commands \cup {c} : d \in DOMAIN cs /\ cs[d].time \in Nat
  <2>1. \A d \in DOMAIN cs : cs[d] \in Commands
    OBVIOUS
  <2> QED  BY <2>1, <1>h, CommandFields DEF Known
<1>d. e.granted \in repo.commands /\ e.decision \in repo.commands
  BY <1>i, <1>h DEF Known
<1>v. cs[e.decision].time <= cs[c].time /\ (e.state = "cancelled" => cmd.kind # "retry")
      /\ (cmd.kind \in {"rollup", "never"} => e.state # "testing")
  OBVIOUS
<1> HIDE DEF f
<1>f. /\ f \in Entry /\ f.key = e.key /\ f.decision = c /\ f.state # "superseded"
      /\ f.state = "testing" => e.state = "testing" /\ f.batch = e.batch /\ f.try = e.try /\ f.head = e.head
                                /\ f.numbered = e.numbered
      /\ f.state = "merged" => e.state = "merged" /\ f.batch = e.batch
      /\ f.granted \in {c, e.granted}
  BY <1>A, <1>B, <1>i
<1>b. b \in Seq(Entry) /\ DOMAIN b = D /\ b[i] = f /\ \A j \in D : j # i => b[j] = a[j]
  BY <1>e, <1>f, <1>i, ExceptSeq
<1> HIDE DEF b
<1>q. q \in Document /\ q.entries = b /\ q.batches = repo.batches /\ q.active = repo.active
      /\ q.commands = repo.commands \cup {c}
  <2> HIDE DEF a, e, D, plan
  <2>1. b \in Seq(Entry) /\ repo \in Document /\ c \in Nat
    BY <1>1, <1>b, <1>c
  <2>2. repo = [entries |-> repo.entries, batches |-> repo.batches, active |-> repo.active,
                split |-> repo.split, commands |-> repo.commands]
    BY <2>1 DEF Document
  <2> DEFINE cm == repo.commands \cup {c}
  <2>3. q = [repo EXCEPT !.commands = cm, !.entries = b]
    OBVIOUS
  <2> HIDE DEF q, cm
  <2>4. q = [entries |-> b, batches |-> repo.batches, active |-> repo.active, split |-> repo.split,
             commands |-> cm]
    BY <2>2, <2>3
  <2>5. q = [entries |-> b, batches |-> repo.batches, active |-> repo.active, split |-> repo.split,
             commands |-> repo.commands \cup {c}]
    BY <2>4 DEF cm
  <2>6. q \in Document
    BY <2>1, <2>5, NotedFacts
  <2> QED  BY <2>5, <2>6
<1> HIDE DEF q, D, plan
<1>k. \A j \in D : b[j].key = a[j].key
  BY <1>b, <1>f
<1>n. NumberOf(e, paired)
  BY <1>i, <1>h DEF Numbers, D
<1>u. /\ e.numbered /\ e.key[2] \in paired => f.numbered
      /\ cmd.kind \notin Approvals => f.numbered = e.numbered
  BY <1>A, <1>B, <1>i DEF Numbered
<1> HIDE DEF a
<1>2. Distinct(b)
  <2>1. \A j \in D : a[j].decision # c
    BY <1>h DEF Known, D, a
  <2> QED  BY <2>1, <1>b, <1>k, <1>h, <1>f DEF Distinct, D
<1>3. Known(q, cs)
  BY <1>b, <1>f, <1>d, <1>q, <1>h, SMTT(60) DEF Known, D, a
<1>4. Numbers(b, paired)
  <2>1. NumberOf(f, paired)
    <3>1. CASE cmd.kind \in Approvals
      <4>1. e.key[1] \in Sides /\ e.side \in Sides
        BY <1>c, EntryFields
      <4>2. /\ f.key[1] = e.key[1] /\ f.key[2] = cmd.pr /\ f.side = cmd.side /\ f.state # "testing"
            /\ f.numbered = Numbered(cmd)
        BY <3>1, <1>A, <1>i
      <4>3. /\ e.key[1] = "github" => e.numbered
            /\ e.key[1] # e.side => e.numbered /\ cmd.pr \in paired
            /\ e.numbered /\ e.key[1] = "forgejo" => cmd.pr \in paired
        BY <1>n, <1>i DEF NumberOf
      <4> HIDE DEF e
      <4>4. CASE cmd.side = "github"
        <5>1. f.numbered
          BY <4>2, <4>4 DEF Numbered
        <5>2. e.key[1] = "forgejo" => cmd.pr \in paired
          BY <4>1, <4>3, <4>4, <1>i DEF Sides
        <5> QED  BY <5>1, <5>2, <4>1, <4>2, <4>4 DEF NumberOf, Sides
      <4>5. CASE cmd.side = "forgejo"
        <5>1. f.numbered <=> cmd.pr \in paired
          BY <4>2, <4>5 DEF Numbered
        <5>2. e.key[1] = "github" => cmd.pr \in paired
          BY <4>1, <4>3, <4>5, <1>i DEF Sides, Numbered
        <5> QED  BY <5>1, <5>2, <4>1, <4>2, <4>5 DEF NumberOf, Sides
      <4> QED  BY <4>4, <4>5, <1>g DEF Sides
    <3>2. CASE cmd.kind \notin Approvals
      BY <3>2, <1>B, <1>n, <1>f DEF NumberOf
    <3> QED  BY <3>1, <3>2
  <2> QED  BY <2>1, <1>b, <1>h DEF Numbers, D
<1>5. Replaced(b, paired)
  <2> SUFFICES ASSUME NEW j \in D, b[j].state = "superseded"
               PROVE  /\ b[j].key[2] \in paired
                      /\ \E k \in D : b[k].key[2] = b[j].key[2] /\ b[k].state # "superseded"
                         /\ b[k].numbered
    BY <1>b DEF Replaced
  <2>1. j # i /\ a[j].state = "superseded"
    BY <1>b, <1>f
  <2>2. a[j].key[2] \in paired
    BY <2>1, <1>h DEF Replaced, D
  <2>3. PICK k \in D : a[k].key[2] = a[j].key[2] /\ a[k].state # "superseded" /\ a[k].numbered
    BY <2>1, <1>h DEF Replaced, D
  <2>4. b[k].state # "superseded" /\ b[k].numbered
    BY <2>2, <2>3, <1>b, <1>f, <1>u
  <2> QED  BY <2>2, <2>3, <2>4, <1>k
<1>6. Grants(b, cs)
  <2>1. GrantOf(f, cs)
    <3>1. GrantOf(e, cs)
      BY <1>i, <1>h DEF Grants, D
    <3>2. CASE cmd.kind \in Approvals
      BY <3>2, <1>A DEF GrantOf
    <3>3. CASE cmd.kind \notin Approvals
      BY <3>1, <3>3, <1>B, <1>i, <1>v DEF GrantOf
    <3> QED  BY <3>2, <3>3
  <2> QED  BY <2>1, <1>b, <1>h DEF Grants, D
<1>w. ASSUME NEW d \in repo.commands, cs[d].time <= cs[e.decision].time
      PROVE  cs[d].time <= cs[c].time
  <2>1. cs[d].time \in Nat /\ cs[c].time \in Nat /\ cs[e.decision].time \in Nat
    BY <1>t, <1>d
  <2> QED  BY <2>1, <1>w, <1>v
<1>7. Carried(q, cs)
  <2> SUFFICES ASSUME NEW d \in repo.commands \cup {c}
               PROVE  \E j \in D : b[j].key[2] = cs[d].pr /\ b[j].state # "superseded"
                                   /\ cs[d].time <= cs[b[j].decision].time
    BY <1>q, <1>b DEF Carried
  <2>1. CASE d = c
    <3>1. cs[c].time <= cs[f.decision].time
      BY <1>f, <1>t
    <3> QED  BY <2>1, <3>1, <1>b, <1>f, <1>i
  <2>2. CASE d \in repo.commands
    <3>1. PICK j \in D : a[j].key[2] = cs[d].pr /\ a[j].state # "superseded"
                         /\ cs[d].time <= cs[a[j].decision].time
      BY <2>2, <1>h DEF Carried, D, a
    <3>2. CASE j = i
      <4>1. cs[d].time <= cs[f.decision].time
        BY <3>1, <3>2, <2>2, <1>w, <1>f
      <4> QED  BY <4>1, <3>1, <3>2, <1>b, <1>f, <1>k
    <3>3. CASE j # i
      BY <3>1, <3>3, <1>b
    <3> QED  BY <3>2, <3>3
  <2> QED  BY <2>1, <2>2
<1>8. Heeded(q, cs)
  <2> SUFFICES ASSUME NEW j \in D, Alone(b, j), NEW d \in repo.commands \cup {c},
                      cs[d].pr = b[j].key[2], cs[d].kind = "reject"
               PROVE  b[j].state = "cancelled" \/ cs[d].time <= cs[b[j].granted].time
    BY <1>q, <1>b DEF Heeded
  <2>1. Alone(a, j) /\ cs[d].pr = a[j].key[2]
    BY <1>k, <1>b DEF Alone, D
  <2>2. CASE j # i
    <3>1. d # c
      BY <2>2, <2>1, <1>i DEF Alone, D
    <3>2. a[j].state = "cancelled" \/ cs[d].time <= cs[a[j].granted].time
      BY <3>1, <2>1, <1>h DEF Heeded, D, a
    <3> QED  BY <3>2, <2>2, <1>b
  <2>3. CASE j = i
    <3>1. CASE cmd.kind \in Approvals
      <4>1. d # c /\ d \in repo.commands
        BY <3>1 DEF Approvals
      <4>2. PICK k \in D : a[k].key[2] = cs[d].pr /\ cs[d].time <= cs[a[k].decision].time
        BY <4>1, <1>h DEF Carried, D, a
      <4>3. k = i
        BY <4>2, <2>1, <2>3 DEF Alone, D
      <4>4. cs[d].time <= cs[c].time
        BY <4>1, <4>2, <4>3, <1>w
      <4> QED  BY <4>4, <3>1, <2>3, <1>A, <1>b
    <3>2. CASE cmd.kind = "reject"
      <4>1. f.state = "cancelled"
        BY <3>2, <1>B DEF Approvals
      <4> QED  BY <4>1, <2>3, <1>b
    <3>3. CASE cmd.kind \notin Approvals \cup {"reject"}
      <4>1. d # c
        BY <3>3
      <4>2. e.state = "cancelled" \/ cs[d].time <= cs[e.granted].time
        BY <4>1, <2>1, <2>3, <1>h DEF Heeded, D, a
      <4>3. f.granted = e.granted /\ (e.state = "cancelled" => f.state = "cancelled")
        BY <3>3, <1>B, <1>v
      <4> QED  BY <4>2, <4>3, <2>3, <1>b
    <3> QED  BY <3>1, <3>2, <3>3
  <2> QED  BY <2>2, <2>3
<1>9. Strays(b)
  <2> SUFFICES ASSUME NEW x \in D, NEW y \in D, y # x, b[y].key[2] = b[x].key[2],
                      b[x].state = "testing", b[y].state # "superseded"
               PROVE  ~b[y].numbered \/ y < x
    BY <1>b DEF Strays
  <2>1. a[y].key[2] = a[x].key[2] /\ a[x].state = "testing" /\ a[y].state # "superseded"
    BY <1>k, <1>b, <1>f, <1>i
  <2>2. ~a[y].numbered \/ y < x
    BY <2>1, <1>h DEF Strays, D
  <2>3. CASE y # i
    BY <2>2, <2>3, <1>b
  <2>4. CASE y = i /\ cmd.kind \notin Approvals
    BY <2>2, <2>4, <1>b, <1>u
  <2>5. CASE y = i /\ cmd.kind \in Approvals
    <3>1. CASE Numbered(cmd)
      <4>1. a[x].numbered
        BY <2>1, <1>h DEF Numbers, NumberOf, D
      <4>2. x \in Matches(repo, cmd)
        BY <2>1, <2>5, <3>1, <4>1, <1>i DEF Matches, D, a
      <4>3. i <= x /\ x \in Nat /\ i \in Nat
        BY <4>2, <1>i, <1>e
      <4> QED  BY <4>3, <2>5
    <3>2. CASE ~Numbered(cmd)
      BY <3>2, <2>5, <1>A, <1>b
    <3> QED  BY <3>1, <3>2
  <2> QED  BY <2>3, <2>4, <2>5
<1>10. Tests(b, plan, q.active)
  <2>1. TestOf(plan, repo.active, e)
    BY <1>i, <1>h DEF Tests, D
  <2>2. TestOf(plan, repo.active, f)
    BY <2>1, <1>f DEF TestOf, MemberOf
  <2> QED  BY <2>2, <1>b, <1>q, <1>h DEF Tests, D
<1>11. Ended(b, m)
  BY <1>b, <1>f, <1>i, <1>h DEF Ended, D
<1>12. Placed(b, plan, q.active)
  BY <1>b, <1>k, <1>q, <1>h DEF Placed, D
<1>13. Doc(q, cs, paired, m)
  BY <1>2, <1>3, <1>4, <1>5, <1>6, <1>7, <1>8, <1>9, <1>10, <1>11, <1>12, <1>q DEF Doc, plan
<1>14. q = Noted(c, i, f)
  BY DEF q, b, a, Noted
<1> HIDE DEF f
<1>15. /\ q \in Document /\ q.batches = repo.batches /\ q.active = repo.active
       /\ Doc(q, cs, paired, m)
  BY <1>q, <1>13
<1> QED  BY <1>14, <1>15 DEF f, e, a

-----------------------------------------------------------------------------
(* Admission and freezing. *)

\* Position finds the entry of a key.
LEMMA PositionIs ==
    ASSUME NEW r, Distinct(r.entries), NEW i \in DOMAIN r.entries
    PROVE  Position(r, r.entries[i].key) = i /\ EntryOf(r, r.entries[i].key) = r.entries[i]
<1>1. \A j \in DOMAIN r.entries : r.entries[j].key = r.entries[i].key => j = i
  BY DEF Distinct
<1>2. Position(r, r.entries[i].key) = i
  BY <1>1 DEF Position
<1> QED  BY <1>2 DEF EntryOf

\* What a valid entry was read from.
LEMMA VerdictValid ==
    ASSUME RollupTypeOK, NEW e \in Entry, Verdict(e) = "valid"
    PROVE  e.key[2] \in paired /\ pr[e.key[2]] = "open" /\ head["github"][e.key[2]] = e.head
<1>1. e.side \in Sides
  BY EntryFields
<1> QED  BY <1>1 DEF Verdict, Sides

\* No entry is under test.
NoneTesting(es) == \A i \in DOMAIN es : es[i].state # "testing"

\* Without an active batch no entry is under test.
LEMMA IdleHasNoTests ==
    ASSUME NEW r, NEW cs, NEW pa, NEW m, Doc(r, cs, pa, m), r.active = 0
    PROVE  NoneTesting(r.entries)
BY DEF Doc, Tests, TestOf, NoneTesting

\* What the admission of an entry leaves.
Admitted(e, f, pa) ==
    \/ f = [e EXCEPT !.state = "queued", !.numbered = TRUE] /\ e.key[2] \in pa
    \/ f = [e EXCEPT !.state = "stale"]
    \/ f = [e EXCEPT !.state = "waiting"]

\* Admission keeps what holds of a document.
LEMMA AdmitDoc ==
    ASSUME NEW r \in Document, NEW cs, NEW pa, NEW m, Doc(r, cs, pa, m), r.active = 0,
           NEW i \in DOMAIN r.entries, IsWaiting(r.entries[i]), NEW f,
           Admitted(r.entries[i], f, pa)
    PROVE  LET q == WithEntry(r, i, f) IN
           /\ q \in Document /\ Doc(q, cs, pa, m) /\ q.batches = r.batches /\ q.active = 0
           /\ q.commands = r.commands /\ DOMAIN q.entries = DOMAIN r.entries
           /\ \A j \in DOMAIN r.entries :
                 /\ q.entries[j].key = r.entries[j].key /\ q.entries[j].head = r.entries[j].head
                 /\ r.entries[j].numbered => q.entries[j].numbered
                 /\ j # i => q.entries[j] = r.entries[j]
           /\ q.entries[i] = f
<1> DEFINE e == r.entries[i]
           q == WithEntry(r, i, f)
<1>e. e \in Entry /\ e.state \in {"queued", "waiting"}
/\ \A j \in DOMAIN r.entries : r.entries[j] \in Entry
  BY DocFields DEF IsWaiting
<1>f. /\ f \in Entry /\ f.key = e.key /\ f.side = e.side
      /\ f.head = e.head /\ f.try = e.try /\ f.granted = e.granted
      /\ f.decision = e.decision /\ f.state \in {"queued", "stale", "waiting"} /\ f.batch = e.batch
      /\ f.numbered = e.numbered \/ (f.numbered = TRUE /\ e.key[2] \in pa)
  <2> HIDE DEF e
  <2>1. CASE f = [e EXCEPT !.state = "queued", !.numbered = TRUE] /\ e.key[2] \in pa
    BY <1>e, <2>1, EntryNumber, ZenonT(60) DEF EntryStates
  <2>2. CASE f = [e EXCEPT !.state = "stale"]
    BY <1>e, <2>2, EntryState DEF EntryStates
  <2>3. CASE f = [e EXCEPT !.state = "waiting"]
    BY <1>e, <2>3, EntryState, ZenonT(60) DEF EntryStates
  <2> QED  BY <2>1, <2>2, <2>3 DEF e, Admitted
<1>q. /\ q \in Document /\ q.batches = r.batches /\ q.active = r.active
      /\ q.commands = r.commands /\ DOMAIN q.entries = DOMAIN r.entries
      /\ \A j \in DOMAIN r.entries : q.entries[j] = IF j = i THEN f ELSE r.entries[j]
  BY <1>f, WithEntryFacts
<1>n. NoneTesting(r.entries)
  BY IdleHasNoTests
<1> HIDE DEF q
<1>t. \A j \in DOMAIN r.entries : Touched(r.entries[j], q.entries[j], pa, m)
  <2> TAKE j \in DOMAIN r.entries
  <2>1. CASE j = i
    BY <2>1, <1>q, <1>f, <1>e DEF Touched
  <2>2. CASE j # i
    BY <2>2, <1>q DEF Touched
  <2> QED  BY <2>1, <2>2
<1>m. \A j \in DOMAIN r.entries : q.entries[j].state # "testing"
  BY <1>q, <1>f, <1>n DEF NoneTesting
<1>p. PlanOf(q.batches) = PlanOf(r.batches)
  BY <1>q
<1>d. Doc(q, cs, pa, m)
  BY <1>q, <1>t, <1>m, <1>p, TouchedDoc
<1> QED  BY <1>q, <1>d, <1>f DEF q

\* Nobody is twice under one number.
Settled(es) == \A i, j \in DOMAIN es :
    ~(/\ j # i /\ es[j].key[2] = es[i].key[2] /\ es[i].numbered /\ es[j].numbered
      /\ es[i].state # "superseded" /\ es[j].state # "superseded")

\* Reconciling leaves nobody twice under one number.
LEMMA ReconcileSettled ==
    ASSUME NEW r \in Document, comments \in Seq(Commands), Known(r, comments), Distinct(r.entries)
    PROVE  Settled(ReconcileDuplicates(r).entries)
<1> DEFINE a == r.entries
           b == ReconcileDuplicates(r).entries
           out(i) == \E j \in Rivals(r, i) : Newer(a[j], a[i])
<1>f. /\ DOMAIN b = DOMAIN a
      /\ \A i \in DOMAIN a : b[i] = IF out(i) THEN [a[i] EXCEPT !.state = "superseded"] ELSE a[i]
  BY ReconcileFacts
<1>e. \A i \in DOMAIN a : a[i] \in Entry
  BY DocFields
<1> HIDE DEF b
<1> SUFFICES ASSUME NEW i \in DOMAIN a, NEW j \in DOMAIN a, j # i, b[j].key[2] = b[i].key[2],
                    b[i].numbered, b[j].numbered, b[i].state # "superseded",
                    b[j].state # "superseded"
             PROVE  FALSE
  BY <1>f DEF b, Settled
<1>1. ~out(i) /\ ~out(j)
  <2> HIDE DEF a, out
  <2>1. \A k \in DOMAIN a : out(k) => b[k].state = "superseded"
    <3> SUFFICES ASSUME NEW k \in DOMAIN a, out(k) PROVE b[k].state = "superseded"
      OBVIOUS
    <3>1. b[k] = [a[k] EXCEPT !.state = "superseded"] /\ a[k] \in Entry
      BY <1>f, <1>e
    <3>2. "superseded" \in EntryStates
      BY DEF EntryStates
    <3> QED  BY <3>1, <3>2, EntryState
  <2> QED  BY <2>1
<1>2. b[i] = a[i] /\ b[j] = a[j]
  BY <1>1, <1>f
<1>3. j \in Rivals(r, i) /\ i \in Rivals(r, j)
  BY <1>2 DEF Rivals
<1>4. a[i].decision # a[j].decision
  BY DEF Distinct
<1>5. /\ TimeOf(a[i].decision) \in Nat /\ TimeOf(a[j].decision) \in Nat
      /\ a[i].decision \in Nat /\ a[j].decision \in Nat
  BY DecisionTimes
<1>6. Newer(a[i], a[j]) \/ Newer(a[j], a[i])
  BY <1>4, <1>5, NewerAsymmetric
<1> QED  BY <1>1, <1>3, <1>6

\* There are finitely many keys.
LEMMA KeysFinite == IsFiniteSet(Keys)
<1>1. IsFiniteSet(Sides)
  <2>1. Sides = {"github"} \cup {"forgejo"}
    BY DEF Sides
  <2> QED  BY <2>1, FS_Singleton, FS_Union
<1> QED  BY <1>1, Bounds, FS_Product DEF Keys

\* The line is made of eligible entries that wait.
LEMMA CandidateLine ==
    ASSUME NEW r, NEW el \in SUBSET Keys, NEW line \in Candidates(r, el)
    PROVE  /\ line \in Seq(Keys)
           /\ \A j \in DOMAIN line : line[j] \in el /\ IsWaiting(EntryOf(r, line[j]))
<1> DEFINE live == {k \in el : IsWaiting(EntryOf(r, k))}
<1>1. PICK keys \in SUBSET live : line \in Lines(keys)
  BY DEF Candidates
<1>2. keys \subseteq Keys
  OBVIOUS
<1>3. Cardinality(keys) \in Nat
  BY <1>2, KeysFinite, FS_Subset, FS_CardinalityType
<1>4. line \in [1..Cardinality(keys) -> keys]
  BY <1>1 DEF Lines
<1>5. line \in Seq(Keys)
  BY <1>2, <1>3, <1>4
<1> QED  BY <1>4, <1>5

\* A group is alone, or all of it may be batched.
LEMMA SizeFacts ==
    ASSUME NEW r, NEW line \in Seq(Keys), NEW n \in Sizes(r, line)
    PROVE  /\ n \in 0..Len(line)
           /\ n # 0 => \/ n = 1
                       \/ \A j \in 1..n : Batchable(r, line[j])
<1>1. Len(line) \in Nat
  OBVIOUS
<1>2. CASE line = <<>>
  BY <1>2 DEF Sizes
<1>3. CASE line # <<>> /\ ~Batchable(r, line[1])
  <2>1. n = 1
    BY <1>3 DEF Sizes
  <2>2. Len(line) # 0
    BY <1>3, EmptySeq
  <2> QED  BY <2>1, <2>2, <1>1
<1>4. CASE line # <<>> /\ Batchable(r, line[1])
  <2>1. n \in 1..Len(line) /\ \A j \in 1..n : Batchable(r, line[j])
    BY <1>4 DEF Sizes
  <2> QED  BY <2>1, <1>1
<1> QED  BY <1>2, <1>3, <1>4

\* A group is the beginning of a line.
LEMMA GroupFacts ==
    ASSUME NEW S, NEW line \in Seq(S), NEW n \in 1..Len(line)
    PROVE  LET group == SubSeq(line, 1, n) IN
           /\ group \in Seq(S) /\ Len(group) = n /\ group # <<>>
           /\ \A j \in 1..n : group[j] = line[j]
BY SubSeqProperties

\* The rest of the line stays in the split.
LEMMA RemainingType ==
    ASSUME NEW r \in Document, NEW line \in Seq(Keys), NEW n \in 0..Len(line)
    PROVE  Remaining(r, line, n) \in Seq(Seq(Keys))
<1>1. r.split \in Seq(Seq(Keys))
  BY DocFields
<1>2. CASE r.split = <<>>
  BY <1>2, <1>1 DEF Remaining
<1>3. CASE r.split # <<>>
  <2>1. Tail(r.split) \in Seq(Seq(Keys))
    BY <1>1, <1>3, HeadTailProperties
  <2>2. SubSeq(line, n + 1, Len(line)) \in Seq(Keys)
    <3>1. \A j \in (n + 1)..Len(line) : line[j] \in Keys
      BY LenProperties
    <3> QED  BY <3>1, SubSeqProperties
  <2> DEFINE x == SubSeq(line, n + 1, Len(line))
             t == Tail(r.split)
  <2>3. <<x>> \in Seq(Seq(Keys))
    BY <2>2 DEF x
  <2>4. <<x>> \o t \in Seq(Seq(Keys))
    <3> HIDE DEF x, t
    <3>1. t \in Seq(Seq(Keys))
      BY <2>1 DEF t
    <3> QED  BY <2>3, <3>1, ConcatProperties
  <2> QED  BY <1>3, <2>1, <2>4 DEF Remaining
<1> QED  BY <1>2, <1>3

\* A longer plan: what is said of the batches that were there, and of main, stays.
LEMMA FreshSame ==
    ASSUME NEW plan, NEW plan2, NEW m, NEW w, NEW mv, Mains(plan, m, w, mv),
           \A b \in DOMAIN plan : plan2[b] = plan[b], NEW p, NEW h, FreshIn(plan, m, p, h)
    PROVE  FreshIn(plan2, m, p, h)
<1>1. \A c \in Range(m) \cap Ids : c \in DOMAIN plan
  BY DEF Mains
<1> QED  BY <1>1 DEF FreshIn

\* Plans with a new batch.
LEMMA PlanGrows ==
    ASSUME NEW plan, NEW plan2, NEW m, NEW hd, NEW w, NEW mv, NEW q,
           Plans(plan, m, hd), Mains(plan, m, w, mv), Spent(plan, m, q, hd), Once(plan, m),
           DOMAIN plan \subseteq DOMAIN plan2, \A b \in DOMAIN plan : plan2[b] = plan[b],
           \A b \in DOMAIN plan2 \ DOMAIN plan : PlanBatch(plan2, m, hd, b)
    PROVE  Plans(plan2, m, hd) /\ Mains(plan2, m, w, mv) /\ Spent(plan2, m, q, hd) /\ Once(plan2, m)
<1>1. \A c \in Range(m) \cap Ids : c \in DOMAIN plan /\ plan2[c] = plan[c]
  BY DEF Mains
<1>2. Mains(plan2, m, w, mv)
  BY DEF Mains
<1>3. Spent(plan2, m, q, hd)
  BY <1>1 DEF Spent
<1>4. Once(plan2, m)
  BY <1>1 DEF Once, Apart
<1>5. Plans(plan2, m, hd)
  <2> SUFFICES ASSUME NEW b \in DOMAIN plan PROVE PlanBatch(plan2, m, hd, b)
    BY DEF Plans
  <2>1. PlanBatch(plan, m, hd, b) /\ plan2[b] = plan[b]
    BY DEF Plans
  <2> QED  BY <2>1, FreshSame DEF PlanBatch
<1> QED  BY <1>2, <1>3, <1>4, <1>5

\* What freezing a group does to the document r.
FrozenAs(r, group, q) ==
    LET id == Len(r.batches) + 1
        t == PlanOf(q.batches)[id]
    IN
    /\ q \in Document /\ q.active = id /\ q.commands = r.commands /\ Len(q.batches) = id
    /\ DOMAIN q.entries = DOMAIN r.entries
    /\ \A i \in DOMAIN r.entries : q.entries[i] =
          IF r.entries[i].key \in Range(group)
          THEN [r.entries[i] EXCEPT !.state = "testing", !.batch = id] ELSE r.entries[i]
    /\ DOMAIN PlanOf(q.batches) = 1..id
    /\ \A b \in 1..Len(r.batches) : PlanOf(q.batches)[b] = PlanOf(r.batches)[b]
    /\ t.members = group /\ t.base = driver.base /\ t.try = EntryOf(r, group[1]).try
    /\ DOMAIN t.heads = DOMAIN group
    /\ \A j \in DOMAIN group : t.heads[j] = EntryOf(r, group[j]).head

\* The document of a frozen group.
LEMMA FrozenFacts ==
    ASSUME NEW r \in Document, NEW group \in Seq(Keys), NEW split \in Seq(Seq(Keys)),
           group # <<>>, driver.base \in Nat, Len(r.batches) < MaxBatches,
           \A j \in DOMAIN group : EntryOf(r, group[j]) \in Entry
    PROVE  FrozenAs(r, group, Frozen(r, group, split))
<1> DEFINE id == Len(r.batches) + 1
           hs == [j \in DOMAIN group |-> EntryOf(r, group[j]).head]
           batch == [members |-> group, base |-> driver.base, heads |-> hs,
                     try |-> EntryOf(r, group[1]).try,
                     state |-> "building", attempted |-> FALSE, audit |-> FALSE,
                     fallback |-> FALSE, recorded |-> FALSE, cleaned |-> FALSE]
           es == [i \in DOMAIN r.entries |-> IF r.entries[i].key \in Range(group)
                                THEN [r.entries[i] EXCEPT !.state = "testing", !.batch = id]
                                ELSE r.entries[i]]
           bs == Append(r.batches, batch)
           q == Frozen(r, group, split)
<1>f. /\ r.entries \in Seq(Entry) /\ r.batches \in Seq(Batch) /\ r.active \in 0..MaxBatches
      /\ r.commands \in SUBSET Nat /\ Len(r.batches) \in Nat
      /\ \A i \in DOMAIN r.entries : r.entries[i] \in Entry
  BY DocFields
<1>1. id \in 0..MaxBatches /\ MaxBatches \in Nat
  BY <1>f, Bounds
<1>2. q = [entries |-> es, batches |-> bs, active |-> id, split |-> split, commands |-> r.commands]
  <2>1. r = [entries |-> r.entries, batches |-> r.batches, active |-> r.active, split |-> r.split,
             commands |-> r.commands]
    BY DEF Document
  <2>2. q = [r EXCEPT !.split = split, !.active = id, !.batches = bs, !.entries = es]
    BY <2>1 DEF Frozen
  <2> HIDE DEF q, bs, es, id
  <2> QED  BY <2>1, <2>2
<1>3. 1 \in DOMAIN group
  BY EmptySeq, LenProperties
<1>4. hs \in Seq(1..MaxHead)
  <2>1. \A j \in DOMAIN group : hs[j] \in 1..MaxHead
    BY EntryFields
  <2>2. DOMAIN group = 1..Len(group) /\ Len(group) \in Nat
    BY LenProperties
  <2>3. hs = [j \in 1..Len(group) |-> hs[j]] /\ DOMAIN hs = 1..Len(group)
    BY <2>2
  <2> HIDE DEF hs
  <2> QED  BY <2>1, <2>2, <2>3
<1>5. EntryOf(r, group[1]).try \in BOOLEAN
  BY <1>3, EntryFields
<1>6. batch \in Batch
  <2> HIDE DEF hs
  <2> QED  BY <1>4, <1>5 DEF Batch
<1>7. bs \in Seq(Batch) /\ Len(bs) = id /\ DOMAIN bs = 1..id /\ bs[id] = batch
      /\ \A b \in 1..Len(r.batches) : bs[b] = r.batches[b]
  <2> HIDE DEF batch
  <2> QED  BY <1>6, <1>f, AppendProperties
<1>8. es \in Seq(Entry)
  <2>1. \A e \in Entry : [e EXCEPT !.state = "testing", !.batch = id] \in Entry
    <3> HIDE DEF id
    <3> QED  BY <1>1 DEF Entry, EntryStates
  <2>2. \A i \in DOMAIN r.entries : es[i] \in Entry
    BY <2>1, <1>f
  <2>3. DOMAIN es = DOMAIN r.entries /\ es = [i \in DOMAIN r.entries |-> es[i]]
    OBVIOUS
  <2> HIDE DEF es
  <2> QED  BY <2>2, <2>3, <1>f, SeqMade
<1>9. q \in Document
  <2> HIDE DEF es, bs, q, id
  <2> QED  BY <1>2, <1>7, <1>8, <1>1, <1>f DEF Document
<1>10. /\ q.active = id /\ q.commands = r.commands /\ q.entries = es /\ q.batches = bs
  <2> HIDE DEF es, bs, q, id
  <2> QED  BY <1>2
<1>11. /\ DOMAIN PlanOf(bs) = 1..id
       /\ \A b \in 1..Len(r.batches) : PlanOf(bs)[b] = PlanOf(r.batches)[b]
  <2>1. DOMAIN r.batches = 1..Len(r.batches)
    BY <1>f, LenProperties
  <2>2. 1..Len(r.batches) \subseteq 1..id
    BY <1>f
  <2> HIDE DEF bs, id
  <2> QED  BY <1>7, <2>1, <2>2 DEF PlanOf
<1>12. PlanOf(bs)[id] = [members |-> group, heads |-> hs, base |-> driver.base,
                         try |-> EntryOf(r, group[1]).try]
  <2>1. id \in 1..id
    BY <1>f
  <2>2. PlanOf(bs)[id] = [members |-> bs[id].members, heads |-> bs[id].heads,
                          base |-> bs[id].base, try |-> bs[id].try]
    <3> HIDE DEF bs, id
    <3> QED  BY <2>1, <1>7 DEF PlanOf
  <2>3. /\ bs[id].members = group /\ bs[id].heads = hs /\ bs[id].base = driver.base
        /\ bs[id].try = EntryOf(r, group[1]).try
    BY <1>7
  <2> HIDE DEF bs, id, hs
  <2> QED  BY <2>2, <2>3
<1>13. DOMAIN hs = DOMAIN group /\ \A j \in DOMAIN group : hs[j] = EntryOf(r, group[j]).head
  OBVIOUS
<1>14. DOMAIN es = DOMAIN r.entries /\ \A i \in DOMAIN r.entries : es[i] =
                IF r.entries[i].key \in Range(group)
                THEN [r.entries[i] EXCEPT !.state = "testing", !.batch = id] ELSE r.entries[i]
  OBVIOUS
<1>15. /\ PlanOf(q.batches)[id].members = group /\ PlanOf(q.batches)[id].base = driver.base
       /\ PlanOf(q.batches)[id].try = EntryOf(r, group[1]).try /\ PlanOf(q.batches)[id].heads = hs
  <2> HIDE DEF es, bs, hs, q, id
  <2> QED  BY <1>10, <1>12
<1>16. /\ DOMAIN PlanOf(q.batches)[id].heads = DOMAIN group
       /\ \A j \in DOMAIN group : PlanOf(q.batches)[id].heads[j] = EntryOf(r, group[j]).head
  <2> HIDE DEF hs, q, id
  <2> QED  BY <1>13, <1>15
<1>17. /\ DOMAIN PlanOf(q.batches) = 1..id /\ Len(q.batches) = id
       /\ \A b \in 1..Len(r.batches) : PlanOf(q.batches)[b] = PlanOf(r.batches)[b]
  <2> HIDE DEF es, bs, q, id
  <2> QED  BY <1>10, <1>11, <1>7
<1>18. /\ DOMAIN q.entries = DOMAIN r.entries /\ \A i \in DOMAIN r.entries : q.entries[i] =
                IF r.entries[i].key \in Range(group)
                THEN [r.entries[i] EXCEPT !.state = "testing", !.batch = id] ELSE r.entries[i]
  <2> HIDE DEF es, q, id
  <2> QED  BY <1>10, <1>14
<1> HIDE DEF q, es, bs, hs, batch
<1> QED  BY <1>9, <1>10, <1>15, <1>16, <1>17, <1>18 DEF FrozenAs, q

\* A key of an entry that waits under a number.
Chosen(r, k) == \E i \in DOMAIN r.entries :
    r.entries[i].key = k /\ r.entries[i].numbered /\ IsWaiting(r.entries[i])

\* Freezing a group keeps what holds of a document.
LEMMA FrozenDoc ==
    ASSUME NEW r \in Document, NEW cs, NEW pa, NEW m, Doc(r, cs, pa, m), r.active = 0,
           Settled(r.entries),
           NEW group \in Seq(Keys), NEW split \in Seq(Seq(Keys)), group # <<>>, driver.base \in Nat,
           Len(r.batches) < MaxBatches,
           \A j \in DOMAIN group : Chosen(r, group[j]) /\ EntryOf(r, group[j]) \in Entry,
           \A j \in DOMAIN group : EntryOf(r, group[j]).try = EntryOf(r, group[1]).try
    PROVE  Doc(Frozen(r, group, split), cs, pa, m)
<1> DEFINE q == Frozen(r, group, split)
           id == Len(r.batches) + 1
           plan == PlanOf(q.batches)
           D == DOMAIN r.entries
           a == r.entries
           b == q.entries
           in(i) == a[i].key \in Range(group)
<1>q. /\ q \in Document /\ q.active = id /\ q.commands = r.commands
      /\ DOMAIN b = D
      /\ \A i \in D : b[i] = IF in(i) THEN [a[i] EXCEPT !.state = "testing", !.batch = id] ELSE a[i]
      /\ DOMAIN plan = 1..id
      /\ plan[id].members = group /\ plan[id].try = EntryOf(r, group[1]).try
      /\ \A j \in DOMAIN group : plan[id].heads[j] = EntryOf(r, group[j]).head
  <2>1. FrozenAs(r, group, q)
    BY FrozenFacts
  <2> HIDE DEF q
  <2> QED  BY <2>1 DEF FrozenAs
<1>h. /\ Distinct(a) /\ Known(r, cs) /\ Numbers(a, pa) /\ Replaced(a, pa)
      /\ Grants(a, cs) /\ Carried(r, cs) /\ Heeded(r, cs) /\ Strays(a) /\ Ended(a, m)
  BY DEF Doc
<1>n. \A i \in D : a[i].state # "testing"
  BY IdleHasNoTests DEF NoneTesting
<1>e. \A i \in D : a[i] \in Entry
  BY DocFields
<1>1. id \in Nat /\ id # 0 /\ id \in 1..id
  BY DocFields
<1>g. \A i \in D : in(i) => /\ a[i].numbered /\ a[i].state \in {"queued", "waiting"}
                            /\ \E j \in DOMAIN group : group[j] = a[i].key
                               /\ EntryOf(r, group[j]) = a[i]
  <2> SUFFICES ASSUME NEW i \in D, in(i)
               PROVE  /\ a[i].numbered /\ a[i].state \in {"queued", "waiting"}
                      /\ \E j \in DOMAIN group : group[j] = a[i].key /\ EntryOf(r, group[j]) = a[i]
    OBVIOUS
  <2>1. PICK j \in DOMAIN group : group[j] = a[i].key
    BY DEF Range
  <2>2. PICK k \in D : a[k].key = a[i].key /\ a[k].numbered /\ IsWaiting(a[k])
    BY <2>1, SMTT(60) DEF Chosen
  <2>3. k = i
    BY <2>2, <1>h DEF Distinct
  <2>4. EntryOf(r, a[i].key) = a[i]
    BY <1>h, PositionIs
  <2> QED  BY <2>1, <2>2, <2>3, <2>4 DEF IsWaiting
<1> HIDE DEF q, id, in, a, b, D, plan
<1>k. \A i \in D : /\ b[i].key = a[i].key /\ b[i].side = a[i].side /\ b[i].head = a[i].head
                   /\ b[i].try = a[i].try /\ b[i].granted = a[i].granted
                   /\ b[i].decision = a[i].decision /\ b[i].numbered = a[i].numbered
                   /\ b[i].state = (IF in(i) THEN "testing" ELSE a[i].state)
                   /\ b[i].batch = (IF in(i) THEN id ELSE a[i].batch)
  <2> SUFFICES ASSUME NEW i \in D
               PROVE  /\ b[i].key = a[i].key /\ b[i].side = a[i].side /\ b[i].head = a[i].head
                   /\ b[i].try = a[i].try /\ b[i].granted = a[i].granted
                   /\ b[i].decision = a[i].decision /\ b[i].numbered = a[i].numbered
                   /\ b[i].state = (IF in(i) THEN "testing" ELSE a[i].state)
                   /\ b[i].batch = (IF in(i) THEN id ELSE a[i].batch)
    OBVIOUS
  <2>1. a[i] \in Entry
    BY <1>e
  <2>2. b[i] = IF in(i) THEN [a[i] EXCEPT !.state = "testing", !.batch = id] ELSE a[i]
    BY <1>q
  <2> QED  BY <2>1, <2>2 DEF Entry
<1>2. Distinct(b)
  <2>1. \A i, j \in D : (a[i].key = a[j].key => i = j) /\ (a[i].decision = a[j].decision => i = j)
    BY <1>h DEF Distinct, D, a
  <2>2. DOMAIN b = D /\ \A i \in D : b[i].key = a[i].key /\ b[i].decision = a[i].decision
    BY <1>q, <1>k
  <2> QED  BY <2>1, <2>2 DEF Distinct
<1>3. Known(q, cs)
  BY <1>q, <1>k, <1>h DEF Known, D, a, b
<1>4. Numbers(b, pa)
  <2> SUFFICES ASSUME NEW i \in D PROVE NumberOf(b[i], pa)
    BY <1>q DEF Numbers
  <2>1. NumberOf(a[i], pa)
    BY <1>h DEF Numbers, D, a
  <2> QED  BY <2>1, <1>k, <1>g, <1>n DEF NumberOf
<1>5. Replaced(b, pa)
  <2> SUFFICES ASSUME NEW i \in D, b[i].state = "superseded"
               PROVE  /\ b[i].key[2] \in pa
                      /\ \E j \in D : b[j].key[2] = b[i].key[2] /\ b[j].state # "superseded"
                         /\ b[j].numbered
    BY <1>q DEF Replaced
  <2>1. a[i].state = "superseded"
    BY <1>k
  <2>2. a[i].key[2] \in pa /\ \E j \in D : a[j].key[2] = a[i].key[2] /\ a[j].state # "superseded"
        /\ a[j].numbered
    BY <2>1, <1>h DEF Replaced, D, a
  <2> QED  BY <2>2, <1>k
<1>6. Grants(b, cs)
  <2> SUFFICES ASSUME NEW i \in D PROVE GrantOf(b[i], cs)
    BY <1>q DEF Grants
  <2>1. GrantOf(a[i], cs)
    BY <1>h DEF Grants, D, a
  <2> QED  BY <2>1, <1>k, <1>g DEF GrantOf
<1>7. Carried(q, cs)
  <2> SUFFICES ASSUME NEW c \in r.commands
               PROVE  \E i \in D : b[i].key[2] = cs[c].pr /\ b[i].state # "superseded"
                                   /\ cs[c].time <= cs[b[i].decision].time
    BY <1>q DEF Carried, b
  <2>1. PICK i \in D : a[i].key[2] = cs[c].pr /\ a[i].state # "superseded"
                                   /\ cs[c].time <= cs[a[i].decision].time
    BY <1>h DEF Carried, D, a
  <2> QED  BY <2>1, <1>k
<1>8. Heeded(q, cs)
  <2> SUFFICES ASSUME NEW i \in D, Alone(b, i), NEW c \in r.commands, cs[c].pr = b[i].key[2],
                          cs[c].kind = "reject"
               PROVE  b[i].state = "cancelled" \/ cs[c].time <= cs[b[i].granted].time
    BY <1>q DEF Heeded, b
  <2>1. Alone(a, i)
    BY <1>k, <1>q DEF Alone, D, a
  <2>2. a[i].state = "cancelled" \/ cs[c].time <= cs[a[i].granted].time
    BY <2>1, <1>h, <1>k DEF Heeded, D, a
  <2> QED  BY <2>2, <1>k, <1>g
<1>9. Strays(b)
  <2> SUFFICES ASSUME NEW i \in D, NEW j \in D, j # i, b[j].key[2] = b[i].key[2],
                          b[i].state = "testing",
                      b[j].state # "superseded"
               PROVE  ~b[j].numbered \/ j < i
    BY <1>q DEF Strays
  <2>1. in(i)
    BY <1>k, <1>n
  <2>2. a[i].numbered /\ a[i].state # "superseded"
    BY <2>1, <1>g
  <2>3. a[j].state # "superseded"
    BY <1>k, <1>g
  <2>4. ~a[j].numbered
    BY <2>2, <2>3, <1>k, SMTT(60) DEF Settled, a, D
  <2> QED  BY <2>4, <1>k
<1>10. Tests(b, plan, q.active)
  <2> SUFFICES ASSUME NEW i \in D, b[i].state = "testing"
               PROVE  /\ id # 0 /\ b[i].batch = id /\ b[i].try = plan[id].try
                         /\ MemberOf(plan[id], b[i])
    BY <1>q DEF Tests, TestOf
  <2>1. in(i)
    BY <1>k, <1>n
  <2>2. PICK j \in DOMAIN group : group[j] = a[i].key /\ EntryOf(r, group[j]) = a[i]
    BY <2>1, <1>g
  <2>3. a[i].try = plan[id].try
    BY <2>2, <1>q
  <2>4. plan[id].members[j] = a[i].key /\ plan[id].heads[j] = a[i].head
        /\ j \in DOMAIN plan[id].members
    BY <2>2, <1>q
  <2> QED  BY <2>1, <2>3, <2>4, <1>1, <1>k DEF MemberOf
<1>11. Ended(b, m)
  <2> SUFFICES ASSUME NEW i \in D, b[i].state = "merged" PROVE b[i].batch \in Range(m)
    BY <1>q DEF Ended
  <2>1. a[i].state = "merged" /\ ~in(i)
    BY <1>k
  <2> QED  BY <2>1, <1>k, <1>h DEF Ended, D, a
<1>12. Placed(b, plan, q.active)
  <2>1. \A j \in DOMAIN group : \E i \in D : b[i].key = group[j]
    <3> SUFFICES ASSUME NEW j \in DOMAIN group PROVE \E i \in D : b[i].key = group[j]
      OBVIOUS
    <3>1. PICK i \in D : a[i].key = group[j]
      BY DEF Chosen, D, a
    <3> QED  BY <3>1, <1>k
  <2> QED  BY <2>1, <1>q, <1>1 DEF Placed
<1> QED  BY <1>2, <1>3, <1>4, <1>5, <1>6, <1>7, <1>8, <1>9, <1>10, <1>11, <1>12 DEF Doc, q, b, plan

-----------------------------------------------------------------------------
(* Steps of the worker in general. *)

\* Nothing is asked of a worker that rests.
LEMMA IdleDrives ==
    ASSUME NEW es, NEW plan, NEW active, NEW d, NEW m, NEW hd, NEW c, d = Idle
    PROVE  Drives(es, plan, active, d, m, hd, c)
BY DEF Drives, Examined, Idle

\* The worker that rests.
LEMMA IdlePc == Idle.pc = "idle" /\ Idle \in Driver /\ Idle.i = 1
  BY DEF Idle, Driver, Places

\* The fields of a drive.
LEMMA DriverFields ==
    ASSUME NEW d \in Driver
    PROVE  /\ d.pc \in Places /\ d.i \in Nat /\ d.base \in Nat /\ d.eligible \in SUBSET Keys
              /\ d.failed \in BOOLEAN
           /\ d = [pc |-> d.pc, i |-> d.i, base |-> d.base, eligible |-> d.eligible,
                   failed |-> d.failed]
BY DEF Driver

\* A step of the worker: nobody else moves and the batches keep their plans.
LEMMA WorkerStep ==
    ASSUME RollupIInv, UNCHANGED <<people, main, wire>>,
           repo' \in Document, saved' \in Document,
           PlanOf(repo'.batches) = PlanOf(repo.batches),
           PlanOf(saved'.batches) = PlanOf(repo.batches),
           Len(repo'.batches) = Len(repo.batches),
           Doc(repo', comments, paired, main), Doc(saved', comments, paired, main),
           driver' \in Driver,
           branch' \in [Ids -> {"absent", "tip", "other"}],
           auditPR' \in [Ids -> {"none", "open", "closed"}],
           ci' \in [Sides -> [Ids -> {"none", "pending", "green", "failed"}]],
           faults' \in 0..MaxFaults,
           Drives(repo'.entries, PlanOf(repo.batches), repo'.active, driver', main, head, ci')
    PROVE  RollupIInv'
<1>1. /\ comments' = comments /\ pr' = pr /\ head' = head /\ paired' = paired
         /\ objection' = objection
      /\ moves' = moves /\ main' = main /\ wire' = wire
  BY DEF people
<1>2. RollupTypeOK'
  BY <1>1 DEF RollupIInv, RollupTypeOK
<1> QED  BY <1>1, <1>2 DEF RollupIInv

\* A document with another active batch of the same plan.
LEMMA WithBatchDoc ==
    ASSUME NEW r, NEW q, NEW cs, NEW pa, NEW m, Doc(r, cs, pa, m),
           q.entries = r.entries, q.commands = r.commands, q.active = r.active,
           PlanOf(q.batches) = PlanOf(r.batches)
    PROVE  Doc(q, cs, pa, m)
<1>1. \A i \in DOMAIN r.entries : Touched(r.entries[i], q.entries[i], pa, m)
  BY DEF Touched
<1> QED  BY <1>1, TouchedDoc

\* Closing a batch keeps what holds of a document; one that is called merged is in main.
LEMMA FinishDoc ==
    ASSUME NEW r \in Document, r.active \in DOMAIN r.batches, NEW o \in Outcomes,
           NEW cs, NEW pa, NEW m, Doc(r, cs, pa, m), o = "merged" => r.active \in Range(m)
    PROVE  Doc(FinishBatch(r, o), cs, pa, m)
<1> DEFINE q == FinishBatch(r, o)
           a == r.entries
           D == DOMAIN a
<1>f. /\ q \in Document /\ q.active = 0 /\ q.commands = r.commands
      /\ PlanOf(q.batches) = PlanOf(r.batches)
      /\ DOMAIN q.entries = D
      /\ \A i \in D :
            \/ /\ q.entries[i] = a[i]
               /\ ~(/\ a[i].key \in Range(Active(r).members)
                    /\ a[i].batch = r.active /\ a[i].state = "testing")
            \/ /\ a[i].batch = r.active /\ a[i].state = "testing"
               /\ \E s \in {"merged", "passed", "failed", "queued"} :
                     (s = "merged" => o = "merged") /\ q.entries[i] = [a[i] EXCEPT !.state = s]
  BY FinishFacts
<1>e. \A i \in D : a[i] \in Entry
  BY DocFields
<1>t. Tests(a, PlanOf(r.batches), r.active)
  BY DEF Doc
<1>m. PlanOf(r.batches)[r.active].members = Active(r).members
  BY PlanFields DEF Active
<1> HIDE DEF q
<1>1. \A i \in D : Touched(a[i], q.entries[i], pa, m) /\ q.entries[i].state # "testing"
  <2> SUFFICES ASSUME NEW i \in D PROVE Touched(a[i], q.entries[i], pa, m)
                          /\ q.entries[i].state # "testing"
    OBVIOUS
  <2>1. CASE /\ q.entries[i] = a[i]
             /\ ~(/\ a[i].key \in Range(Active(r).members)
                  /\ a[i].batch = r.active /\ a[i].state = "testing")
    <3>1. a[i].state = "testing" => a[i].batch = r.active /\ a[i].key \in Range(Active(r).members)
      <4> SUFFICES ASSUME a[i].state = "testing"
                   PROVE  a[i].batch = r.active /\ a[i].key \in Range(Active(r).members)
        OBVIOUS
      <4>1. a[i].batch = r.active /\ MemberOf(PlanOf(r.batches)[r.active], a[i])
        BY <1>t DEF Tests, TestOf
      <4>2. PICK j \in DOMAIN Active(r).members : Active(r).members[j] = a[i].key
        BY <4>1, <1>m DEF MemberOf
      <4> QED  BY <4>1, <4>2 DEF Range
    <3> QED  BY <2>1, <3>1 DEF Touched
  <2>2. CASE /\ a[i].batch = r.active /\ a[i].state = "testing"
             /\ \E s \in {"merged", "passed", "failed", "queued"} :
                     (s = "merged" => o = "merged") /\ q.entries[i] = [a[i] EXCEPT !.state = s]
    <3>1. PICK s \in {"merged", "passed", "failed", "queued"} :
                 (s = "merged" => o = "merged") /\ q.entries[i] = [a[i] EXCEPT !.state = s]
      BY <2>2
    <3>2. a[i] \in Entry /\ s \in EntryStates
      BY <1>e DEF EntryStates
    <3>3. LET f == q.entries[i] IN
           /\ f.key = a[i].key /\ f.side = a[i].side /\ f.numbered = a[i].numbered
           /\ f.head = a[i].head /\ f.try = a[i].try /\ f.granted = a[i].granted
           /\ f.decision = a[i].decision /\ f.state = s /\ f.batch = a[i].batch
      BY <3>1, <3>2, EntryState
    <3>4. s = "merged" => r.active \in Range(m)
      BY <3>1
    <3> HIDE DEF a
    <3> QED  BY <3>3, <3>4, <2>2 DEF Touched
  <2> QED  BY <1>f, <2>1, <2>2
<1>2. Doc(q, cs, pa, m)
  BY <1>1, <1>f, TouchedDoc
<1> QED  BY <1>2 DEF q

\* The drive ends with a document of the same plans.
LEMMA DoneStep ==
    ASSUME RollupIInv, UNCHANGED <<people, main, wire>>, NEW r \in Document, Done(r),
           PlanOf(r.batches) = PlanOf(repo.batches), Len(r.batches) = Len(repo.batches),
           Doc(r, comments, paired, main),
           branch' \in [Ids -> {"absent", "tip", "other"}],
           auditPR' \in [Ids -> {"none", "open", "closed"}],
           ci' \in [Sides -> [Ids -> {"none", "pending", "green", "failed"}]],
           faults' \in 0..MaxFaults
    PROVE  RollupIInv'
<1>1. repo' = r /\ saved' = r /\ driver' = Idle
  BY DEF Done, Save
<1>2. Drives(repo'.entries, PlanOf(repo.batches), repo'.active, driver', main, head, ci')
  BY <1>1, IdleDrives
<1>3. driver' \in Driver
  BY <1>1, IdlePc
<1> QED  BY <1>1, <1>2, <1>3, WorkerStep

\* The drive ends and closes its batch.
LEMMA FinishStep ==
    ASSUME RollupIInv, UNCHANGED <<people, main, wire>>, repo.active # 0, NEW o \in Outcomes,
           Finish(o), o = "merged" => repo.active \in Range(main),
           branch' \in [Ids -> {"absent", "tip", "other"}],
           auditPR' \in [Ids -> {"none", "open", "closed"}],
           ci' \in [Sides -> [Ids -> {"none", "pending", "green", "failed"}]],
           faults' \in 0..MaxFaults
    PROVE  RollupIInv'
<1>1. repo \in Document /\ Doc(repo, comments, paired, main)
  BY DEF RollupIInv, RollupTypeOK
<1>2. repo.active \in DOMAIN repo.batches
  BY <1>1, PlanDomain DEF Doc, Placed
<1> DEFINE q == FinishBatch(repo, o)
<1>3. /\ q \in Document /\ PlanOf(q.batches) = PlanOf(repo.batches)
         /\ Len(q.batches) = Len(repo.batches)
  BY <1>1, <1>2, FinishFacts
<1>4. Doc(q, comments, paired, main)
  BY <1>1, <1>2, FinishDoc
<1>5. Done(q)
  BY DEF Finish
<1> HIDE DEF q
<1> QED  BY <1>3, <1>4, <1>5, DoneStep

-----------------------------------------------------------------------------
(* People, the bridge and main. *)

\* Heads that are no older.
Grown(hd, hd2) == \A s \in Sides, p \in PRs : hd[s][p] \in Nat /\ hd2[s][p] \in Nat
/\ hd[s][p] <= hd2[s][p]

\* The batches of a document have members among the pull requests and heads that are
\* numbers.
Planned(plan) == \A b \in DOMAIN plan :
    /\ DOMAIN plan[b].heads = DOMAIN plan[b].members
    /\ \A j \in DOMAIN plan[b].members : plan[b].members[j][2] \in PRs /\ plan[b].heads[j] \in Nat

\* An element of a sequence.
LEMMA Element ==
    ASSUME NEW S, NEW x \in Seq(S), NEW j \in DOMAIN x
    PROVE  x[j] \in S
OBVIOUS

\* So it is for those of the worker's document.
LEMMA PlannedOf ==
    ASSUME NEW r \in Document, NEW m, NEW hd, Plans(PlanOf(r.batches), m, hd)
    PROVE  Planned(PlanOf(r.batches))
<1> DEFINE plan == PlanOf(r.batches)
<1>1. DOMAIN plan = DOMAIN r.batches
  BY PlanDomain
<1> SUFFICES ASSUME NEW b \in DOMAIN plan
             PROVE  /\ DOMAIN plan[b].heads = DOMAIN plan[b].members
                    /\ \A j \in DOMAIN plan[b].members :
                          plan[b].members[j][2] \in PRs /\ plan[b].heads[j] \in Nat
  BY DEF Planned
<1>2. plan[b].members = r.batches[b].members /\ plan[b].heads = r.batches[b].heads
  BY <1>1, PlanFields
<1>3. r.batches[b] \in Batch
  BY <1>1, DocFields
<1>4. plan[b].members \in Seq(Keys) /\ plan[b].heads \in Seq(1..MaxHead)
  BY <1>2, <1>3, BatchFields
<1>5. DOMAIN plan[b].heads = DOMAIN plan[b].members
  BY DEF Plans, PlanBatch
<1> HIDE DEF plan
<1>6. \A j \in DOMAIN plan[b].members : plan[b].members[j] \in Keys
      /\ plan[b].heads[j] \in 1..MaxHead
  BY <1>4, <1>5, Element
<1> QED  BY <1>5, <1>6, Bounds DEF Keys

\* Pull requests get revisions or are closed: what was planned or landed stays so.
LEMMA HeadsGrow ==
    ASSUME NEW plan, Planned(plan), NEW m, NEW hd, NEW hd2, Grown(hd, hd2), NEW q, NEW q2,
           NEW w, NEW mv, Mains(plan, m, w, mv),
           Plans(plan, m, hd), Spent(plan, m, q, hd), \A p \in PRs : q[p] # "open" => q2[p] # "open"
    PROVE  Plans(plan, m, hd2) /\ Spent(plan, m, q2, hd2)
<1>g. "github" \in Sides
  BY DEF Sides
<1>1. ASSUME NEW b \in DOMAIN plan
      PROVE  PlanBatch(plan, m, hd2, b)
  <2>1. PlanBatch(plan, m, hd, b)
    BY DEF Plans
  <2>2. \A j \in DOMAIN plan[b].members : plan[b].heads[j] <= hd2["github"][plan[b].members[j][2]]
    <3> SUFFICES ASSUME NEW j \in DOMAIN plan[b].members
                 PROVE  plan[b].heads[j] <= hd2["github"][plan[b].members[j][2]]
      OBVIOUS
    <3>1. plan[b].heads[j] \in Nat /\ plan[b].members[j][2] \in PRs
      BY DEF Planned
    <3>2. plan[b].heads[j] <= hd["github"][plan[b].members[j][2]]
      BY <2>1 DEF PlanBatch
    <3> QED  BY <3>1, <3>2, <1>g DEF Grown
  <2> QED  BY <2>1, <2>2 DEF PlanBatch
<1>2. ASSUME NEW b \in Range(m) \cap Ids, NEW j \in DOMAIN plan[b].members
      PROVE  \/ q2[plan[b].members[j][2]] # "open"
             \/ plan[b].heads[j] < hd2["github"][plan[b].members[j][2]]
  <2>1. b \in DOMAIN plan
    BY DEF Mains
  <2>2. plan[b].heads[j] \in Nat /\ plan[b].members[j][2] \in PRs
    BY <2>1 DEF Planned
  <2>3. \/ q[plan[b].members[j][2]] # "open"
        \/ plan[b].heads[j] < hd["github"][plan[b].members[j][2]]
    BY DEF Spent
  <2> QED  BY <2>2, <2>3, <1>g DEF Grown
<1> QED  BY <1>1, <1>2 DEF Plans, Spent

\* What the worker found out stays so.
LEMMA DrivesGrow ==
    ASSUME NEW es \in Seq(Entry), NEW plan, NEW active, NEW d \in Driver, NEW m, NEW hd, NEW hd2,
               Grown(hd, hd2), NEW c,
           Drives(es, plan, active, d, m, hd, c)
    PROVE  Drives(es, plan, active, d, m, hd2, c)
<1>g. "github" \in Sides
  BY DEF Sides
<1>1. ASSUME NEW k \in d.eligible, Candidate(es, plan, m, hd, d.base, k)
      PROVE  Candidate(es, plan, m, hd2, d.base, k)
  <2>1. PICK i \in DOMAIN es : /\ es[i].key = k /\ es[i].numbered /\ es[i].head <= hd["github"][k[2]]
                               /\ d.base = Last(m) => FreshIn(plan, m, k[2], es[i].head)
    BY <1>1 DEF Candidate
  <2>2. es[i].head \in 1..MaxHead /\ k[2] \in PRs
    <3>1. es[i] \in Entry
      OBVIOUS
    <3> QED  BY <3>1, <2>1, EntryFields
  <2>3. es[i].head <= hd2["github"][k[2]]
    BY <2>1, <2>2, <1>g, Bounds DEF Grown
  <2> QED  BY <2>1, <2>3 DEF Candidate
<1> QED  BY <1>1 DEF Drives

\* Heads are numbers.
LEMMA HeadType ==
    ASSUME RollupTypeOK PROVE \A s \in Sides, p \in PRs : head[s][p] \in 1..MaxHead
           /\ head[s][p] \in Nat
<1>1. \A s \in Sides, p \in PRs : head[s][p] \in 1..MaxHead
  BY DEF RollupTypeOK
<1> QED  BY <1>1, Bounds

\* A step of people or of the bridge.
LEMMA PeopleStep ==
    ASSUME RollupIInv, UNCHANGED <<comments, repo, saved, driver, main, ci, wire, faults>>,
           paired \subseteq paired', paired' \subseteq PRs,
           moves' \in 0..MaxMoves, moves <= moves',
           head' \in [Sides -> [PRs -> 1..MaxHead]], \A s \in Sides, p \in PRs :
           head[s][p] <= head'[s][p],
           Heads(head'),
           pr' \in [PRs -> {"open", "closed", "merged"}], \A p \in PRs : pr[p] # "open"
           => pr'[p] # "open",
           objection' \in [PRs -> Nat],
           branch' \in [Ids -> {"absent", "tip", "other"}],
           auditPR' \in [Ids -> {"none", "open", "closed"}]
    PROVE  RollupIInv'
<1> DEFINE plan == PlanOf(repo.batches)
<1>1. /\ comments' = comments /\ repo' = repo /\ saved' = saved /\ driver' = driver /\ main' = main
      /\ ci' = ci /\ wire' = wire /\ faults' = faults
  OBVIOUS
<1>y. RollupTypeOK
  BY DEF RollupIInv
<1>2. RollupTypeOK'
  BY <1>y, <1>1 DEF RollupTypeOK
<1>3. Grown(head, head')
  <2>1. \A s \in Sides, p \in PRs : head'[s][p] \in 1..MaxHead
    OBVIOUS
  <2> QED  BY <1>y, <2>1, HeadType, Bounds DEF Grown
<1>d. repo \in Document /\ saved \in Document /\ comments \in Seq(Commands) /\ driver \in Driver
/\ main \in Seq(Nat)
  BY <1>y DEF RollupTypeOK
<1>4. Doc(repo, comments, paired', main) /\ Doc(saved, comments, paired', main)
  <2>1. Doc(repo, comments, paired, main) /\ Doc(saved, comments, paired, main)
    BY DEF RollupIInv
  <2>2. repo.commands \in SUBSET Nat /\ saved.commands \in SUBSET Nat
    BY <1>d, DocFields
  <2> QED  BY <2>1, <2>2, DocGrows
<1>5. Planned(plan)
  BY <1>d, PlannedOf DEF RollupIInv
<1>6. Plans(plan, main, head') /\ Spent(plan, main, pr', head')
  <2>1. Plans(plan, main, head) /\ Spent(plan, main, pr, head) /\ Mains(plan, main, wire, moves)
    BY DEF RollupIInv
  <2> HIDE DEF plan
  <2>2. \A p \in PRs : pr[p] # "open" => pr'[p] # "open"
    OBVIOUS
  <2> QED  BY <1>3, <1>5, <2>1, <2>2, HeadsGrow
<1>7. Mains(plan, main, wire, moves')
  <2>1. Mains(plan, main, wire, moves)
    BY DEF RollupIInv
  <2>2. moves \in Nat /\ moves' \in Nat /\ \A x \in Range(main) : x \in Nat
    BY <1>y, <1>d, Bounds DEF RollupTypeOK, Range
  <2>3. ASSUME NEW x \in Range(main) PROVE x <= MaxBatches + moves'
    <3>1. x <= MaxBatches + moves
      BY <2>1 DEF Mains
    <3> QED  BY <3>1, <2>2, Bounds
  <2> QED  BY <2>1, <2>3 DEF Mains
<1>8. Drives(repo.entries, plan, repo.active, driver, main, head', ci)
  <2>1. repo.entries \in Seq(Entry)
    BY <1>d, DocFields
  <2>2. Drives(repo.entries, plan, repo.active, driver, main, head, ci)
    BY DEF RollupIInv
  <2> QED  BY <2>1, <2>2, <1>3, <1>d, DrivesGrow
<1> QED  BY <1>1, <1>2, <1>4, <1>6, <1>7, <1>8 DEF RollupIInv

\* A commit is added to main.
LEMMA AppendLast ==
    ASSUME NEW S, NEW m \in Seq(S), NEW x \in S
    PROVE  LET n == Append(m, x) IN
           n \in Seq(S) /\ n # <<>> /\ Last(n) = x /\ Range(n) = Range(m) \cup {x}
<1> DEFINE n == Append(m, x)
<1>1. /\ n \in Seq(S) /\ Len(n) = Len(m) + 1 /\ n[Len(m) + 1] = x /\ DOMAIN n = 1..(Len(m) + 1)
      /\ \A i \in 1..Len(m) : n[i] = m[i]
  BY AppendProperties
<1>2. n # <<>>
  BY <1>1
<1>3. Last(n) = x
  BY <1>1 DEF Last
<1>4. Len(m) \in Nat /\ DOMAIN m = 1..Len(m)
  BY LenProperties
<1>5. Range(n) = Range(m) \cup {x}
  <2> HIDE DEF n
  <2>1. \A i \in DOMAIN n : i \in DOMAIN m \/ i = Len(m) + 1
    BY <1>1, <1>4
  <2>2. \A i \in DOMAIN m : i \in DOMAIN n /\ n[i] = m[i]
    BY <1>1, <1>4
  <2>3. Len(m) + 1 \in DOMAIN n
    BY <1>1, <1>4
  <2>4. \A y \in Range(n) : y \in Range(m) \cup {x}
    BY <1>1, <2>1, <2>2 DEF Range
  <2>5. \A y \in Range(m) \cup {x} : y \in Range(n)
    BY <1>1, <2>2, <2>3 DEF Range
  <2> QED  BY <2>4, <2>5
<1> QED  BY <1>1, <1>2, <1>3, <1>5

\* Main moves on: what was planned on it is no longer at its end.
LEMMA MainGrows ==
    ASSUME NEW plan, NEW m, NEW m2, NEW x, x \notin Range(m), Range(m2) = Range(m) \cup {x},
               Last(m2) = x,
           NEW hd, Plans(plan, m, hd)
    PROVE  /\ Plans(plan, m2, hd)
           /\ \A es, active, d, c : Drives(es, plan, active, d, m, hd, c)
                                    => Drives(es, plan, active, d, m2, hd, c)
<1>1. Plans(plan, m2, hd)
  <2> SUFFICES ASSUME NEW b \in DOMAIN plan PROVE PlanBatch(plan, m2, hd, b)
    BY DEF Plans
  <2>1. PlanBatch(plan, m, hd, b)
    BY DEF Plans
  <2>2. plan[b].base \in Range(m2) /\ plan[b].base # Last(m2)
    BY <2>1 DEF PlanBatch
  <2> QED  BY <2>1, <2>2 DEF PlanBatch
<1>2. ASSUME NEW es, NEW active, NEW d, NEW c, Drives(es, plan, active, d, m, hd, c)
      PROVE  Drives(es, plan, active, d, m2, hd, c)
  <2>1. ASSUME d.pc = "admit"
        PROVE  /\ active = 0 /\ d.base \in Range(m2)
               /\ \A k \in d.eligible : Candidate(es, plan, m2, hd, d.base, k)
    <3>1. active = 0 /\ d.base \in Range(m)
          /\ \A k \in d.eligible : Candidate(es, plan, m, hd, d.base, k)
      BY <1>2, <2>1 DEF Drives
    <3>2. d.base # Last(m2)
      BY <3>1
    <3> QED  BY <3>1, <3>2 DEF Candidate
  <2> QED  BY <1>2, <2>1 DEF Drives
<1> QED  BY <1>1, <1>2

\* A request under way is for a batch that has not landed.
LEMMA LandFacts ==
    ASSUME RollupIInv, NEW b \in Ids, wire[b] = "sent"
    PROVE  /\ b \in DOMAIN repo.batches /\ b \notin Range(main) /\ b \in Nat /\ b <= MaxBatches
           /\ repo.batches[b] \in Batch
<1>1. Mains(PlanOf(repo.batches), main, wire, moves) /\ repo \in Document
  BY DEF RollupIInv, RollupTypeOK
<1>2. b \in DOMAIN repo.batches /\ b \notin Range(main)
  BY <1>1, PlanDomain DEF Mains
<1> QED  BY <1>1, <1>2, DocFields, Bounds DEF Ids

\* A request that is refused.
LEMMA Refused ==
    ASSUME RollupIInv, NEW b \in Ids, Land(b), Last(main) # repo.batches[b].base
    PROVE  RollupIInv'
<1>1. /\ wire[b] = "sent" /\ wire' = [wire EXCEPT ![b] = "refused"] /\ main' = main
      /\ pr' = [p \in PRs |-> pr[p]]
      /\ UNCHANGED <<comments, head, paired, objection, moves, repo, saved, driver, candidates,
                     faults>>
  BY DEF Land
<1>y. RollupTypeOK
  BY DEF RollupIInv
<1>2. pr' = pr /\ wire \in [Ids -> {"none", "sent", "accepted", "refused"}]
  BY <1>1, <1>y DEF RollupTypeOK
<1>3. RollupTypeOK'
  BY <1>1, <1>2, <1>y DEF RollupTypeOK, candidates
<1>4. Mains(PlanOf(repo.batches), main, wire', moves)
  <2>1. Mains(PlanOf(repo.batches), main, wire, moves)
    BY DEF RollupIInv
  <2>2. \A c \in Ids : /\ wire'[c] = "accepted" <=> wire[c] = "accepted"
                       /\ wire'[c] # "none" => wire[c] # "none"
    BY <1>1, <1>2
  <2> QED  BY <2>1, <2>2 DEF Mains
<1> QED  BY <1>1, <1>2, <1>3, <1>4 DEF RollupIInv, candidates

\* A request that is accepted: its members were built in at heads that never landed,
\* and from now on no such head is open.
LEMMA Accepted ==
    ASSUME RollupIInv, NEW b \in Ids, Land(b), Last(main) = repo.batches[b].base
    PROVE  RollupIInv'
<1> DEFINE plan == PlanOf(repo.batches)
           t == repo.batches[b]
           within(p) == \E j \in DOMAIN t.members : t.members[j][2] = p
           /\ t.heads[j] = head["github"][p]
<1>1. /\ wire[b] = "sent" /\ wire' = [wire EXCEPT ![b] = "accepted"] /\ main' = Append(main, b)
      /\ pr' = [p \in PRs |-> IF pr[p] = "open" /\ within(p) THEN "merged" ELSE pr[p]]
      /\ comments' = comments /\ head' = head /\ paired' = paired /\ objection' = objection
         /\ moves' = moves
      /\ repo' = repo /\ saved' = saved /\ driver' = driver /\ faults' = faults
      /\ branch' = branch /\ auditPR' = auditPR /\ ci' = ci
  BY DEF Land, candidates
<1>y. RollupTypeOK
  BY DEF RollupIInv
<1>t. /\ repo \in Document /\ saved \in Document /\ main \in Seq(Nat) /\ comments \in Seq(Commands)
      /\ wire \in [Ids -> {"none", "sent", "accepted", "refused"}]
      /\ pr \in [PRs -> {"open", "closed", "merged"}]
  BY <1>y DEF RollupTypeOK
<1>b. /\ b \in DOMAIN repo.batches /\ b \notin Range(main) /\ b \in Nat /\ b <= MaxBatches
  BY <1>1, LandFacts
<1>m. /\ main' \in Seq(Nat) /\ main' # <<>> /\ Last(main') = b
/\ Range(main') = Range(main) \cup {b}
  BY <1>1, <1>b, <1>t, AppendLast
<1>p. \A p \in PRs : /\ pr[p] # "open" => pr'[p] # "open"
                     /\ within(p) => pr'[p] # "open"
  BY <1>1
<1>2. RollupTypeOK'
  <2>1. pr' \in [PRs -> {"open", "closed", "merged"}]
    <3> HIDE DEF within
    <3> QED  BY <1>1, <1>t
  <2>2. wire' \in [Ids -> {"none", "sent", "accepted", "refused"}]
    BY <1>1, <1>t
  <2> HIDE DEF within
  <2> QED  BY <2>1, <2>2, <1>1, <1>m, <1>y DEF RollupTypeOK
<1>i. /\ Plans(plan, main, head) /\ Mains(plan, main, wire, moves) /\ Spent(plan, main, pr, head)
      /\ Once(plan, main) /\ Drives(repo.entries, plan, repo.active, driver, main, head, ci)
  BY DEF RollupIInv
<1>n. Planned(plan)
  BY <1>t, <1>i, PlannedOf
<1>f. /\ plan[b].members = t.members /\ plan[b].heads = t.heads /\ plan[b].base = t.base
/\ b \in DOMAIN plan
  BY <1>b, PlanFields
<1>3. Doc(repo, comments, paired, main') /\ Doc(saved, comments, paired, main')
  <2>1. Doc(repo, comments, paired, main) /\ Doc(saved, comments, paired, main)
    BY DEF RollupIInv
  <2>2. repo.commands \in SUBSET Nat /\ saved.commands \in SUBSET Nat
    BY <1>t, DocFields
  <2>3. Range(main) \subseteq Range(main')
    BY <1>m
  <2> QED  BY <2>1, <2>2, <2>3, DocGrows
<1>4. Plans(plan, main', head) /\ Drives(repo.entries, plan, repo.active, driver, main', head, ci)
  <2> HIDE DEF plan
  <2> QED  BY <1>b, <1>m, <1>i, MainGrows
<1>5. Mains(plan, main', wire', moves)
  <2>1. \A x \in Range(main') : x <= MaxBatches + moves
    <3>1. moves \in Nat
      BY <1>y, Bounds DEF RollupTypeOK
    <3>2. b <= MaxBatches + moves
      BY <1>b, <3>1, Bounds
    <3> QED  BY <3>2, <1>m, <1>i DEF Mains
  <2>2. \A c \in Ids : wire'[c] = IF c = b THEN "accepted" ELSE wire[c]
    BY <1>1, <1>t
  <2> HIDE DEF plan
  <2>3. \A c \in Ids : (wire'[c] = "accepted" <=> c \in Range(main'))
        /\ (wire'[c] # "none" => c \in DOMAIN plan)
    BY <2>2, <1>m, <1>i, <1>f DEF Mains
  <2> QED  BY <2>1, <2>3, <1>m DEF Mains
<1>6. Spent(plan, main', pr', head)
  <2> SUFFICES ASSUME NEW c \in Range(main') \cap Ids, NEW j \in DOMAIN plan[c].members
               PROVE  \/ pr'[plan[c].members[j][2]] # "open"
                      \/ plan[c].heads[j] < head["github"][plan[c].members[j][2]]
    BY DEF Spent
  <2>1. c \in DOMAIN plan
    BY <1>m, <1>i, <1>f DEF Mains
  <2>2. plan[c].members[j][2] \in PRs /\ plan[c].heads[j] \in Nat
    BY <2>1, <1>n DEF Planned
  <2>3. CASE c = b
    <3>1. plan[c].heads[j] <= head["github"][plan[c].members[j][2]]
      BY <2>1, <1>i DEF Plans, PlanBatch
    <3>2. head["github"][plan[c].members[j][2]] \in Nat
      BY <2>2, <1>y, HeadType DEF Sides
    <3>3. CASE plan[c].heads[j] = head["github"][plan[c].members[j][2]]
      <4>1. within(plan[c].members[j][2])
        BY <3>3, <2>3, <1>f
      <4> QED  BY <4>1, <2>2, <1>p
    <3>4. CASE plan[c].heads[j] # head["github"][plan[c].members[j][2]]
      BY <3>1, <3>2, <3>4, <2>2
    <3> QED  BY <3>3, <3>4
  <2>4. CASE c # b
    <3>1. c \in Range(main) \cap Ids
      BY <2>4, <1>m
    <3>2. \/ pr[plan[c].members[j][2]] # "open"
          \/ plan[c].heads[j] < head["github"][plan[c].members[j][2]]
      BY <3>1, <1>i DEF Spent
    <3> QED  BY <3>2, <2>2, <1>p
  <2> QED  BY <2>3, <2>4
<1>7. Once(plan, main')
  <2>1. ASSUME NEW c \in Range(main) \cap Ids
        PROVE  Apart(plan, b, c) /\ Apart(plan, c, b)
    <3>1. \A j \in DOMAIN plan[b].members :
          FreshIn(plan, main, plan[b].members[j][2], plan[b].heads[j])
      BY <1>b, <1>f, <1>i DEF Plans, PlanBatch
    <3> HIDE DEF plan
    <3>2. \A j \in DOMAIN plan[b].members, k \in DOMAIN plan[c].members :
             plan[c].members[k][2] = plan[b].members[j][2] => plan[c].heads[k] # plan[b].heads[j]
      BY <3>1 DEF FreshIn
    <3> QED  BY <3>2 DEF Apart
  <2> HIDE DEF plan
  <2> SUFFICES ASSUME NEW c \in Range(main') \cap Ids, NEW d \in Range(main') \cap Ids, c # d
               PROVE  Apart(plan, c, d)
    BY DEF Once
  <2>2. CASE c = b
    BY <2>1, <2>2, <1>m
  <2>3. CASE d = b
    BY <2>1, <2>3, <1>m
  <2>4. CASE c # b /\ d # b
    BY <2>4, <1>m, <1>i DEF Once
  <2> QED  BY <2>2, <2>3, <2>4
<1>8. /\ PlanOf(saved.batches) = PlanOf(repo.batches) /\ Len(repo.batches) <= MaxBatches
         /\ Heads(head)
  BY DEF RollupIInv
<1> QED  BY <1>1, <1>2, <1>3, <1>4, <1>5, <1>6, <1>7, <1>8 DEF RollupIInv

\* A move is counted.
LEMMA Moving ==
    ASSUME RollupIInv, NEW kind, Move(kind)
    PROVE  moves' = moves + 1 /\ moves' \in 0..MaxMoves /\ moves <= moves' /\ moves \in Nat
BY Bounds DEF Move, RollupIInv, RollupTypeOK

\* What a move leaves alone.
LEMMA Standing ==
    ASSUME RollupIInv
    PROVE  /\ paired \subseteq PRs /\ moves \in 0..MaxMoves /\ moves <= moves
           /\ head \in [Sides -> [PRs -> 1..MaxHead]]
           /\ \A s \in Sides, p \in PRs : head[s][p] <= head[s][p]
           /\ Heads(head)
           /\ pr \in [PRs -> {"open", "closed", "merged"}] /\ objection \in [PRs -> Nat]
           /\ branch \in [Ids -> {"absent", "tip", "other"}]
           /\ auditPR \in [Ids -> {"none", "open", "closed"}]
           /\ ci \in [Sides -> [Ids -> {"none", "pending", "green", "failed"}]]
           /\ faults \in 0..MaxFaults /\ driver \in Driver
           /\ repo \in Document /\ saved \in Document
           /\ main \in Seq(Nat) /\ comments \in Seq(Commands)
<1>1. RollupTypeOK /\ Heads(head)
  BY DEF RollupIInv
<1>2. \A s \in Sides, p \in PRs : head[s][p] <= head[s][p]
  BY <1>1, HeadType
<1>3. moves <= moves
  BY <1>1, Bounds DEF RollupTypeOK
<1> QED  BY <1>1, <1>2, <1>3 DEF RollupTypeOK

\* An author pushes.
LEMMA PushStep ==
    ASSUME RollupIInv, NEW p \in PRs, Push(p)
    PROVE  RollupIInv'
<1>1. /\ head[Home[p]][p] < MaxHead /\ head' = [head EXCEPT ![Home[p]][p] = @ + 1]
      /\ UNCHANGED <<comments, repo, saved, driver, main, ci, wire, faults>>
      /\ pr' = pr /\ paired' = paired /\ objection' = objection /\ branch' = branch
         /\ auditPR' = auditPR
  BY DEF Push, World, candidates
<1>2. moves' \in 0..MaxMoves /\ moves <= moves'
  BY Moving DEF Push
<1>3. Home[p] \in Sides
  BY Bounds
<1>y. RollupTypeOK
  BY DEF RollupIInv
<1>t. \A s \in Sides, q \in PRs : head[s][q] \in Nat /\ head[s][q] \in 1..MaxHead
  BY <1>y, HeadType
<1>h. head \in [Sides -> [PRs -> 1..MaxHead]] /\ Heads(head)
  BY Standing
<1>4. \A s \in Sides, q \in PRs : head'[s][q] = IF s = Home[p]
      /\ q = p THEN head[s][q] + 1 ELSE head[s][q]
  BY <1>1, <1>3, <1>h
<1>5. head' \in [Sides -> [PRs -> 1..MaxHead]]
  <2>1. head[Home[p]][p] + 1 \in 1..MaxHead
    BY <1>1, <1>3, <1>t, Bounds
  <2> QED  BY <2>1, <1>1, <1>h
<1>6. \A s \in Sides, q \in PRs : head[s][q] <= head'[s][q]
  BY <1>4, <1>t
<1>7. Heads(head')
  <2> SUFFICES ASSUME NEW s \in Sides, NEW q \in PRs PROVE head'[s][q] <= head'[Home[q]][q]
    BY DEF Heads
  <2>1. Home[q] \in Sides
    BY Bounds
  <2>2. head[s][q] <= head[Home[q]][q]
    BY <1>h DEF Heads
  <2>3. /\ head'[s][q] = (IF s = Home[p] /\ q = p THEN head[s][q] + 1 ELSE head[s][q])
        /\ head'[Home[q]][q] = (IF Home[q] = Home[p] /\ q = p THEN head[Home[q]][q] + 1 ELSE head[Home[q]][q])
    BY <1>4, <2>1
  <2>4. head[s][q] \in Nat /\ head[Home[q]][q] \in Nat
    BY <1>t, <2>1
  <2> QED  BY <2>2, <2>3, <2>4
<1> QED  BY <1>1, <1>2, <1>5, <1>6, <1>7, Standing, PeopleStep

\* A pull request is closed.
LEMMA CloseStep ==
    ASSUME RollupIInv, NEW p \in PRs, ClosePR(p)
    PROVE  RollupIInv'
<1>1. /\ pr' = [pr EXCEPT ![p] = "closed"]
      /\ UNCHANGED <<comments, repo, saved, driver, main, ci, wire, faults>>
      /\ head' = head /\ paired' = paired /\ objection' = objection /\ branch' = branch
         /\ auditPR' = auditPR
  BY DEF ClosePR, World, candidates
<1>2. moves' \in 0..MaxMoves /\ moves <= moves'
  BY Moving DEF ClosePR
<1>3. /\ pr' \in [PRs -> {"open", "closed", "merged"}] /\ \A q \in PRs : pr[q] # "open"
         => pr'[q] # "open"
  BY <1>1, Standing
<1> QED  BY <1>1, <1>2, <1>3, Standing, PeopleStep

\* A writer requests changes.
LEMMA ObjectStep ==
    ASSUME RollupIInv, NEW p \in PRs, RequestChanges(p)
    PROVE  RollupIInv'
<1>1. PICK t \in 1..MaxTime : objection' = [objection EXCEPT ![p] = t]
  BY DEF RequestChanges
<1>2. /\ UNCHANGED <<comments, repo, saved, driver, main, ci, wire, faults>>
      /\ pr' = pr /\ head' = head /\ paired' = paired /\ branch' = branch /\ auditPR' = auditPR
  BY DEF RequestChanges, World, candidates
<1>3. moves' \in 0..MaxMoves /\ moves <= moves'
  BY Moving DEF RequestChanges
<1>4. objection' \in [PRs -> Nat]
  BY <1>1, Standing, Bounds
<1> QED  BY <1>2, <1>3, <1>4, Standing, PeopleStep

\* An audit pull request is closed.
LEMMA CloseAuditStep ==
    ASSUME RollupIInv, NEW b \in Ids, CloseAudit(b)
    PROVE  RollupIInv'
<1>1. /\ auditPR' = [auditPR EXCEPT ![b] = "closed"]
      /\ UNCHANGED <<comments, repo, saved, driver, main, ci, wire, faults>>
      /\ pr' = pr /\ head' = head /\ paired' = paired /\ objection' = objection /\ branch' = branch
  BY DEF CloseAudit, World
<1>2. moves' \in 0..MaxMoves /\ moves <= moves'
  BY Moving DEF CloseAudit
<1>3. auditPR' \in [Ids -> {"none", "open", "closed"}]
  BY <1>1, Standing
<1> QED  BY <1>1, <1>2, <1>3, Standing, PeopleStep

\* A candidate branch is rewritten.
LEMMA RewriteStep ==
    ASSUME RollupIInv, NEW b \in Ids, RewriteBranch(b)
    PROVE  RollupIInv'
<1>1. /\ branch' = [branch EXCEPT ![b] = "other"]
      /\ UNCHANGED <<comments, repo, saved, driver, main, ci, wire, faults>>
      /\ pr' = pr /\ head' = head /\ paired' = paired /\ objection' = objection
         /\ auditPR' = auditPR
  BY DEF RewriteBranch, World
<1>2. moves' \in 0..MaxMoves /\ moves <= moves'
  BY Moving DEF RewriteBranch
<1>3. branch' \in [Ids -> {"absent", "tip", "other"}]
  BY <1>1, Standing
<1> QED  BY <1>1, <1>2, <1>3, Standing, PeopleStep

\* The bridge copies a branch.
LEMMA MirrorStep ==
    ASSUME RollupIInv, NEW p \in PRs, Mirror(p)
    PROVE  RollupIInv'
<1>1. /\ head' = [s \in Sides |-> [head[s] EXCEPT ![p] = head[Home[p]][p]]]
      /\ UNCHANGED <<comments, repo, saved, driver, main, ci, wire, faults>>
      /\ pr' = pr /\ moves' = moves /\ paired' = paired /\ objection' = objection
         /\ branch' = branch /\ auditPR' = auditPR
  BY DEF Mirror, candidates
<1>2. Home[p] \in Sides
  BY Bounds
<1>y. RollupTypeOK
  BY DEF RollupIInv
<1>t. \A s \in Sides, q \in PRs : head[s][q] \in Nat /\ head[s][q] \in 1..MaxHead
  BY <1>y, HeadType
<1>h. head \in [Sides -> [PRs -> 1..MaxHead]] /\ Heads(head)
  BY Standing
<1>3. \A s \in Sides, q \in PRs : head'[s][q] = IF q = p THEN head[Home[p]][p] ELSE head[s][q]
  BY <1>1, <1>h
<1>4. head' \in [Sides -> [PRs -> 1..MaxHead]]
  <2>1. \A s \in Sides : [head[s] EXCEPT ![p] = head[Home[p]][p]] \in [PRs -> 1..MaxHead]
    BY <1>h, <1>t, <1>2
  <2> QED  BY <2>1, <1>1
<1>5. \A s \in Sides, q \in PRs : head[s][q] <= head'[s][q]
  BY <1>3, <1>t, <1>h DEF Heads
<1>6. Heads(head')
  <2> SUFFICES ASSUME NEW s \in Sides, NEW q \in PRs PROVE head'[s][q] <= head'[Home[q]][q]
    BY DEF Heads
  <2>1. Home[q] \in Sides
    BY Bounds
  <2>2. head[s][q] <= head[Home[q]][q]
    BY <1>h DEF Heads
  <2>3. /\ head'[s][q] = (IF q = p THEN head[Home[p]][p] ELSE head[s][q])
        /\ head'[Home[q]][q] = (IF q = p THEN head[Home[p]][p] ELSE head[Home[q]][q])
    BY <1>3, <2>1
  <2>4. head[s][q] \in Nat /\ head[Home[q]][q] \in Nat
    BY <1>t, <2>1
  <2> QED  BY <2>2, <2>3, <2>4
<1> QED  BY <1>1, <1>4, <1>5, <1>6, Standing, PeopleStep

\* The bridge records a pair.
LEMMA PairStep ==
    ASSUME RollupIInv, NEW p \in PRs, Pair(p)
    PROVE  RollupIInv'
<1>1. /\ paired' = paired \cup {p}
      /\ UNCHANGED <<comments, repo, saved, driver, main, ci, wire, faults>>
      /\ pr' = pr /\ moves' = moves /\ head' = head /\ objection' = objection /\ branch' = branch
         /\ auditPR' = auditPR
  BY DEF Pair, candidates
<1> QED  BY <1>1, Standing, PeopleStep

\* Somebody pushes to main.
LEMMA PushMainStep ==
    ASSUME RollupIInv, PushMain
    PROVE  RollupIInv'
<1> DEFINE plan == PlanOf(repo.batches)
           x == MaxBatches + 1 + moves
<1>1. /\ main' = Append(main, x)
      /\ comments' = comments /\ repo' = repo /\ saved' = saved /\ driver' = driver /\ wire' = wire
         /\ faults' = faults
      /\ pr' = pr /\ head' = head /\ paired' = paired /\ objection' = objection
      /\ branch' = branch /\ auditPR' = auditPR /\ ci' = ci
  BY DEF PushMain, World, candidates
<1>2. moves' = moves + 1 /\ moves' \in 0..MaxMoves /\ moves \in Nat
  BY Moving DEF PushMain
<1>y. RollupTypeOK
  BY DEF RollupIInv
<1>t. /\ repo \in Document /\ saved \in Document /\ main \in Seq(Nat)
  BY <1>y DEF RollupTypeOK
<1>i. /\ Plans(plan, main, head) /\ Mains(plan, main, wire, moves) /\ Spent(plan, main, pr, head)
      /\ Once(plan, main) /\ Drives(repo.entries, plan, repo.active, driver, main, head, ci)
  BY DEF RollupIInv
<1>3. x \in Nat /\ x \notin Range(main) /\ x \notin Ids
  <2>1. x \in Nat /\ x > MaxBatches + moves /\ x > MaxBatches
    BY <1>2, Bounds
  <2>2. \A y \in Range(main) : y \in Nat /\ y <= MaxBatches + moves
    BY <1>i, <1>t DEF Mains, Range
  <2>3. x \notin Range(main)
    BY <2>1, <2>2, <1>2, Bounds
  <2> QED  BY <2>1, <2>3, Bounds DEF Ids
<1>m. /\ main' \in Seq(Nat) /\ main' # <<>> /\ Last(main') = x
/\ Range(main') = Range(main) \cup {x}
  <2> HIDE DEF x
  <2> QED  BY <1>1, <1>3, <1>t, AppendLast
<1>r. Range(main') \cap Ids = Range(main) \cap Ids
  BY <1>3, <1>m
<1>4. RollupTypeOK'
  BY <1>1, <1>m, <1>2, <1>y DEF RollupTypeOK
<1>5. Doc(repo, comments, paired, main') /\ Doc(saved, comments, paired, main')
  <2>1. Doc(repo, comments, paired, main) /\ Doc(saved, comments, paired, main)
    BY DEF RollupIInv
  <2>2. repo.commands \in SUBSET Nat /\ saved.commands \in SUBSET Nat
    BY <1>t, DocFields
  <2>3. Range(main) \subseteq Range(main')
    BY <1>m
  <2> QED  BY <2>1, <2>2, <2>3, DocGrows
<1>6. Plans(plan, main', head) /\ Drives(repo.entries, plan, repo.active, driver, main', head, ci)
  <2> HIDE DEF plan, x
  <2> QED  BY <1>3, <1>m, <1>i, MainGrows
<1>7. Mains(plan, main', wire, moves')
  <2>1. \A y \in Range(main') : y <= MaxBatches + moves'
    <3>1. x <= MaxBatches + moves'
      BY <1>2, Bounds
    <3>2. \A y \in Range(main) : y \in Nat /\ y <= MaxBatches + moves
      BY <1>i, <1>t DEF Mains, Range
    <3>3. \A y \in Range(main) : y <= MaxBatches + moves'
      BY <3>2, <1>2, Bounds
    <3> QED  BY <3>1, <3>3, <1>m
  <2>2. \A b \in Ids : b \in Range(main') <=> b \in Range(main)
    BY <1>r
  <2> QED  BY <2>1, <2>2, <1>m, <1>i DEF Mains
<1>8. Spent(plan, main', pr, head) /\ Once(plan, main')
  BY <1>r, <1>i DEF Spent, Once
<1>9. /\ PlanOf(saved.batches) = PlanOf(repo.batches) /\ Len(repo.batches) <= MaxBatches
         /\ Heads(head)
  BY DEF RollupIInv
<1> QED  BY <1>1, <1>4, <1>5, <1>6, <1>7, <1>8, <1>9 DEF RollupIInv

-----------------------------------------------------------------------------
(* Commands as steps. *)

\* What a command leaves.
LEMMA ApplyDoc ==
    ASSUME RollupIInv, NEW cs \in Seq(Commands), DOMAIN comments \subseteq DOMAIN cs,
           \A d \in DOMAIN comments : cs[d] = comments[d],
           NEW c \in DOMAIN cs, NEW cmd \in Commands, cs[c] = cmd, Apply(c, cmd)
    PROVE  /\ saved' = repo' /\ repo' \in Document /\ Doc(repo', cs, paired, main)
           /\ repo'.batches = repo.batches /\ repo'.active = repo.active
<1>y. RollupTypeOK /\ repo \in Document /\ comments \in Seq(Commands)
  BY DEF RollupIInv, RollupTypeOK
<1>d. Doc(repo, comments, paired, main) /\ Doc(repo, cs, paired, main)
  <2>1. Doc(repo, comments, paired, main)
    BY DEF RollupIInv
  <2>2. repo.commands \in SUBSET Nat
    BY <1>y, DocFields
  <2> QED  BY <2>1, <2>2, DocGrows
<1>k. cmd.kind \in Kinds /\ cmd.time \in Nat
  BY CommandFields
<1>1. CASE Matches(repo, cmd) = {}
           /\ repo' = (IF Declined(c, cmd, <<>>) THEN repo
                       ELSE [repo EXCEPT !.commands = @ \cup {c},
                                 !.entries = Append(repo.entries, Decided(c, cmd, <<>>))])
           /\ saved' = repo'
  <2>1. CASE Declined(c, cmd, <<>>)
    BY <2>1, <1>1, <1>y, <1>d
  <2>2. CASE ~Declined(c, cmd, <<>>)
    <3>1. c \notin repo.commands /\ cmd.kind \in Approvals \cup {"reject"}
      BY <2>2, <1>k DEF Declined, Kinds
    <3> DEFINE q == [repo EXCEPT !.commands = @ \cup {c},
                                 !.entries = Append(repo.entries, Decided(c, cmd, <<>>))]
    <3>2. /\ q \in Document /\ q.batches = repo.batches /\ q.active = repo.active
          /\ Doc(q, cs, paired, main)
      BY <3>1, <1>1, <1>y, <1>d, ApplyNew, ZenonT(60)
    <3>3. repo' = q
      BY <1>1, <2>2
    <3> HIDE DEF q
    <3> QED  BY <3>2, <3>3, <1>1
  <2> QED  BY <2>1, <2>2
<1>2. ASSUME NEW i \in First(Matches(repo, cmd)),
             repo' = (IF Declined(c, cmd, <<repo.entries[i]>>) THEN repo
                      ELSE [repo EXCEPT !.commands = @ \cup {c},
                       !.entries = [repo.entries EXCEPT ![i] = Decided(c, cmd,
                                                                       <<repo.entries[i]>>)]]),
             saved' = repo'
      PROVE  /\ saved' = repo' /\ repo' \in Document /\ Doc(repo', cs, paired, main)
             /\ repo'.batches = repo.batches /\ repo'.active = repo.active
  <2> DEFINE old == <<repo.entries[i]>>
  <2>1. CASE Declined(c, cmd, old)
    BY <2>1, <1>2, <1>y, <1>d
  <2>2. CASE ~Declined(c, cmd, old)
    <3>1. i \in DOMAIN repo.entries
      BY DEF First, Matches
    <3>o. old # <<>> /\ old[1] = repo.entries[i]
      OBVIOUS
    <3>2. /\ c \notin repo.commands /\ ~Overtaken(repo.entries[i], cmd.time)
          /\ repo.entries[i].state = "cancelled" => cmd.kind # "retry"
          /\ cmd.kind \in {"rollup", "never"} => repo.entries[i].state # "testing"
      <4> HIDE DEF old
      <4> QED  BY <2>2, <3>o DEF Declined
    <3>3. cs[repo.entries[i].decision].time <= cmd.time
      <4>1. Known(repo, comments)
        BY <1>d DEF Doc
      <4>2. repo.entries[i].decision \in DOMAIN comments /\ TimeOf(repo.entries[i].decision) \in Nat
        BY <3>1, <4>1, <1>y, DecisionTimes
      <4>3. TimeOf(repo.entries[i].decision) <= cmd.time
        BY <3>2, <4>2, <1>k DEF Overtaken
      <4> QED  BY <4>2, <4>3 DEF TimeOf
    <3> DEFINE q == Noted(c, i, Decided(c, cmd, <<repo.entries[i]>>))
    <3>4. /\ q \in Document /\ q.batches = repo.batches /\ q.active = repo.active
          /\ Doc(q, cs, paired, main)
      BY <3>2, <3>3, <1>y, <1>d, ApplyAgain
    <3>5. repo' = q
      BY <1>2, <2>2 DEF Noted
    <3> HIDE DEF q
    <3> QED  BY <3>4, <3>5, <1>2
  <2> QED  BY <2>1, <2>2
<1>3. \/ /\ Matches(repo, cmd) = {}
         /\ repo' = (IF Declined(c, cmd, <<>>) THEN repo
                     ELSE [repo EXCEPT !.commands = @ \cup {c},
                               !.entries = Append(repo.entries, Decided(c, cmd, <<>>))])
         /\ saved' = repo'
      \/ \E i \in First(Matches(repo, cmd)) :
           /\ repo' = (IF Declined(c, cmd, <<repo.entries[i]>>) THEN repo
                      ELSE [repo EXCEPT !.commands = @ \cup {c},
                       !.entries = [repo.entries EXCEPT ![i] = Decided(c, cmd,
                                                                       <<repo.entries[i]>>)]])
           /\ saved' = repo'
  BY DEF Apply
<1> QED  BY <1>1, <1>2, <1>3

\* A command is applied while the worker rests.
LEMMA CommandStep ==
    ASSUME RollupIInv, comments' \in Seq(Commands), repo' \in Document, saved' = repo',
           Doc(repo', comments', paired, main), repo'.batches = repo.batches,
           driver.pc = "idle", faults' \in 0..MaxFaults,
           UNCHANGED <<pr, head, paired, objection, moves, driver, main, candidates, wire>>
    PROVE  RollupIInv'
<1>1. /\ pr' = pr /\ head' = head /\ paired' = paired /\ objection' = objection /\ moves' = moves
      /\ driver' = driver /\ main' = main /\ branch' = branch /\ auditPR' = auditPR /\ ci' = ci
         /\ wire' = wire
  BY DEF candidates
<1>2. RollupTypeOK'
  BY <1>1 DEF RollupIInv, RollupTypeOK
<1>3. Drives(repo'.entries, PlanOf(repo.batches), repo'.active, driver, main, head, ci)
  <2>1. driver = Idle
    BY DEF RollupIInv, Drives
  <2> QED  BY <2>1, IdleDrives
<1> QED  BY <1>1, <1>2, <1>3 DEF RollupIInv

\* A comment is handled ...
LEMMA HandleStep ==
    ASSUME RollupIInv, NEW cmd \in Commands, Handle(cmd)
    PROVE  RollupIInv'
<1>1. /\ driver.pc = "idle" /\ comments' = Append(comments, cmd) /\ Apply(Len(comments) + 1, cmd)
      /\ UNCHANGED <<pr, head, paired, objection, moves, driver, main, candidates, wire, faults>>
  BY DEF Handle
<1>2. comments \in Seq(Commands)
  BY Standing
<1>3. /\ comments' \in Seq(Commands) /\ Len(comments) + 1 \in DOMAIN comments'
      /\ comments'[Len(comments) + 1] = cmd /\ DOMAIN comments \subseteq DOMAIN comments'
      /\ \A d \in DOMAIN comments : comments'[d] = comments[d]
  BY <1>1, <1>2, AppendProperties, LenProperties
<1>4. /\ saved' = repo' /\ repo' \in Document /\ Doc(repo', comments', paired, main)
      /\ repo'.batches = repo.batches
  BY <1>1, <1>3, ApplyDoc
<1>5. faults' \in 0..MaxFaults
  BY <1>1, Standing
<1> QED  BY <1>1, <1>3, <1>4, <1>5, CommandStep

\* ... or handled again.
LEMMA HandleAgainStep ==
    ASSUME RollupIInv, NEW c \in DOMAIN comments, HandleAgain(c)
    PROVE  RollupIInv'
<1>1. /\ driver.pc = "idle" /\ comments' = comments /\ Apply(c, comments[c])
      /\ UNCHANGED <<pr, head, paired, objection, moves, driver, main, candidates, wire>>
  BY DEF HandleAgain, people
<1>2. comments \in Seq(Commands)
  BY Standing
<1>3. comments[c] \in Commands
  BY <1>2
<1>4. /\ saved' = repo' /\ repo' \in Document /\ Doc(repo', comments, paired, main)
      /\ repo'.batches = repo.batches
  BY <1>1, <1>2, <1>3, ApplyDoc
<1>5. faults' \in 0..MaxFaults
  BY Standing, Bounds DEF HandleAgain
<1> QED  BY <1>1, <1>2, <1>4, <1>5, CommandStep

-----------------------------------------------------------------------------
(* The steps of a drive. *)

\* Away from rest and admission there is an active batch.
LEMMA Working ==
    ASSUME RollupIInv, driver.pc \notin {"idle", "admit"}
    PROVE  /\ repo.active # 0 /\ repo.active \in DOMAIN repo.batches /\ repo.active \in Ids
           /\ Active(repo) \in Batch
           /\ LET t == PlanOf(repo.batches)[repo.active] IN
              /\ t.members = Active(repo).members /\ t.heads = Active(repo).heads
              /\ t.base = Active(repo).base /\ t.try = Active(repo).try
<1>1. repo \in Document /\ Doc(repo, comments, paired, main)
  BY DEF RollupIInv, RollupTypeOK
<1>2. repo.active # 0
  BY DEF RollupIInv, Drives
<1>3. repo.active \in DOMAIN repo.batches
  BY <1>1, <1>2, PlanDomain DEF Doc, Placed
<1>4. repo.active \in Ids
  BY <1>1, <1>2, DocFields, Bounds DEF Ids
<1>5. Active(repo) \in Batch
  BY <1>1, <1>3, DocFields DEF Active
<1> QED  BY <1>2, <1>3, <1>4, <1>5, PlanFields DEF Active

\* A drive that only notes something about its batch goes on.
LEMMA NotedStep ==
    ASSUME RollupIInv, UNCHANGED <<people, main, wire>>,
           NEW r \in Document, r.entries = repo.entries, r.active = repo.active,
               r.commands = repo.commands,
           PlanOf(r.batches) = PlanOf(repo.batches), Len(r.batches) = Len(repo.batches),
           repo' = r, saved' = r \/ (saved' = saved), driver' \in Driver,
           branch' \in [Ids -> {"absent", "tip", "other"}],
           auditPR' \in [Ids -> {"none", "open", "closed"}],
           ci' \in [Sides -> [Ids -> {"none", "pending", "green", "failed"}]],
           faults' \in 0..MaxFaults,
           Drives(repo.entries, PlanOf(repo.batches), repo.active, driver', main, head, ci')
    PROVE  RollupIInv'
<1>1. /\ Doc(repo, comments, paired, main) /\ Doc(saved, comments, paired, main)
         /\ saved \in Document
      /\ PlanOf(saved.batches) = PlanOf(repo.batches)
  BY DEF RollupIInv, RollupTypeOK
<1>2. Doc(r, comments, paired, main)
  BY <1>1, WithBatchDoc
<1>3. /\ saved' \in Document /\ Doc(saved', comments, paired, main)
      /\ PlanOf(saved'.batches) = PlanOf(repo.batches)
  BY <1>1, <1>2
<1>4. /\ repo' \in Document /\ PlanOf(repo'.batches) = PlanOf(repo.batches)
      /\ Len(repo'.batches) = Len(repo.batches) /\ Doc(repo', comments, paired, main)
      /\ Drives(repo'.entries, PlanOf(repo.batches), repo'.active, driver', main, head, ci')
  BY <1>2
<1> QED  BY <1>3, <1>4, WorkerStep

\* A drive that has checked every member goes to a place that asks for no more ...
LEMMA GoOn ==
    ASSUME NEW es, NEW plan, NEW active, NEW d, NEW m, NEW hd, NEW c, NEW d2, NEW c2,
           Drives(es, plan, active, d, m, hd, c), d.pc \in Examined,
           d2.pc \in {"inspect", "create", "ci", "fallback", "answer"}
    PROVE  Drives(es, plan, active, d2, m, hd, c2)
BY DEF Drives, Examined

\* ... and one that has just frozen a batch to the places that ask for nothing.
LEMMA GoFresh ==
    ASSUME NEW es, NEW plan, NEW active, NEW d2, NEW m, NEW hd, NEW c2,
           active # 0, d2.pc \in {"prepare", "publish"}
    PROVE  Drives(es, plan, active, d2, m, hd, c2)
BY DEF Drives, Examined

\* The drive goes to another place.
LEMMA GoPc ==
    ASSUME driver \in Driver, NEW p \in Places, Go(p)
    PROVE  driver' \in Driver /\ driver'.pc = p /\ driver'.i = driver.i
           /\ driver'.base = driver.base
           /\ driver'.eligible = driver.eligible
BY DEF Go, Driver

\* A document in which batch b is t.
BatchAt(r, b, t) == [r EXCEPT !.batches[b] = t]

\* A batch is replaced by one of the same plan.
LEMMA BatchAtFacts ==
    ASSUME NEW r \in Document, NEW b \in DOMAIN r.batches, NEW t \in Batch,
           t.members = r.batches[b].members, t.heads = r.batches[b].heads,
           t.base = r.batches[b].base, t.try = r.batches[b].try
    PROVE  LET q == BatchAt(r, b, t) IN
           /\ q \in Document /\ q.entries = r.entries /\ q.active = r.active
           /\ q.commands = r.commands /\ PlanOf(q.batches) = PlanOf(r.batches)
           /\ Len(q.batches) = Len(r.batches)
<1> DEFINE q == BatchAt(r, b, t)
           bs == [r.batches EXCEPT ![b] = t]
<1>f. /\ r.entries \in Seq(Entry) /\ r.batches \in Seq(Batch) /\ r.active \in 0..MaxBatches
      /\ r.split \in Seq(Seq(Keys)) /\ r.commands \in SUBSET Nat
  BY DocFields
<1>1. q = [entries |-> r.entries, batches |-> bs, active |-> r.active, split |-> r.split,
           commands |-> r.commands]
  <2>1. r = [entries |-> r.entries, batches |-> r.batches, active |-> r.active, split |-> r.split,
             commands |-> r.commands]
    BY DEF Document
  <2>2. q = [r EXCEPT !.batches = bs]
    BY <2>1 DEF BatchAt
  <2> HIDE DEF q, bs
  <2> QED  BY <2>1, <2>2
<1>2. bs \in Seq(Batch) /\ Len(bs) = Len(r.batches) /\ DOMAIN bs = DOMAIN r.batches
  BY <1>f, ExceptSeq
<1>3. \A c \in DOMAIN r.batches : bs[c] = IF c = b THEN t ELSE r.batches[c]
  OBVIOUS
<1> HIDE DEF bs
<1>4. PlanOf(bs) = PlanOf(r.batches)
  BY <1>2, <1>3, PlanSame
<1> HIDE DEF q
<1>5. q \in Document
  BY <1>1, <1>2, <1>f DEF Document
<1>6. q.entries = r.entries /\ q.batches = bs /\ q.active = r.active /\ q.commands = r.commands
  BY <1>1
<1> QED  BY <1>2, <1>4, <1>5, <1>6 DEF q

\* What Cleanup notes of batch b.
LEMMA CleanedFacts ==
    ASSUME NEW r \in Document, NEW b \in DOMAIN r.batches, NEW x \in BOOLEAN
    PROVE  /\ [r.batches[b] EXCEPT !.recorded = x] \in Batch
           /\ [r.batches[b] EXCEPT !.recorded = x, !.cleaned = TRUE] \in Batch
<1>1. r.batches[b] \in Batch
  BY DocFields
<1> QED  BY <1>1 DEF Batch

\* A batch is recorded or cleaned up.
LEMMA CleanupStep ==
    ASSUME RollupIInv, Cleanup
    PROVE  RollupIInv'
<1>1. /\ driver' = driver /\ UNCHANGED <<people, main, wire>>
  BY DEF Cleanup
<1>2. PICK b \in First(Uncleaned(repo)) :
       LET t == repo.batches[b]
           owed == t.state = "merged" /\ ~t.recorded
           closed == [auditPR EXCEPT ![b] = IF @ = "open" /\ t.audit THEN "closed" ELSE @]
           deleted == [branch EXCEPT ![b] = "absent"]
       IN \/ /\ Save([repo EXCEPT !.batches[b].recorded = owed \/ @,
                                  !.batches[b].cleaned = TRUE])
             /\ auditPR' = closed /\ branch' = deleted
             /\ ci' = [s \in Sides |-> [ci[s] EXCEPT ![b] = "none"]]
             /\ UNCHANGED faults
          \/ /\ faults < MaxFaults /\ faults' = faults + 1
             /\ \E noted \in {t.recorded, t.recorded \/ (owed /\ Recordable(t))} :
                   Save([repo EXCEPT !.batches[b].recorded = noted])
             /\ auditPR' \in {auditPR, closed}
             /\ branch' \in {branch, deleted}
             /\ UNCHANGED ci
  BY DEF Cleanup
<1>s. /\ auditPR \in [Ids -> {"none", "open", "closed"}] /\ branch \in [Ids -> {"absent", "tip",
                                                                                "other"}]
      /\ ci \in [Sides -> [Ids -> {"none", "pending", "green", "failed"}]]
      /\ faults \in 0..MaxFaults /\ driver \in Driver /\ repo \in Document
  BY Standing
<1>b. b \in DOMAIN repo.batches
  BY DEF First, Uncleaned
<1> DEFINE t == repo.batches[b]
           closed == [auditPR EXCEPT ![b] = IF @ = "open" /\ t.audit THEN "closed" ELSE @]
           deleted == [branch EXCEPT ![b] = "absent"]
<1>3. /\ closed \in [Ids -> {"none", "open", "closed"}]
         /\ deleted \in [Ids -> {"absent", "tip", "other"}]
      /\ [s \in Sides |-> [ci[s] EXCEPT ![b] = "none"]] \in [Sides -> [Ids -> {"none", "pending",
                                                                               "green", "failed"}]]
  BY <1>s
<1>4. /\ auditPR' \in [Ids -> {"none", "open", "closed"}]
         /\ branch' \in [Ids -> {"absent", "tip", "other"}]
      /\ ci' \in [Sides -> [Ids -> {"none", "pending", "green", "failed"}]]
      /\ faults' \in 0..MaxFaults
  <2>1. faults + 1 \in Nat
    BY <1>s
  <2>2. faults < MaxFaults => faults + 1 \in 0..MaxFaults
    BY <1>s, Bounds
  <2> HIDE DEF closed, deleted
  <2> QED  BY <1>2, <1>3, <1>s, <2>2 DEF closed, deleted, t
<1>5. PICK u \in Batch : /\ u.members = t.members /\ u.heads = t.heads /\ u.base = t.base /\ u.try = t.try
                         /\ Save(BatchAt(repo, b, u))
  <2>1. t \in Batch
    BY <1>s, <1>b, DocFields
  <2> DEFINE x == (t.state = "merged" /\ ~t.recorded) \/ t.recorded
             v == [t EXCEPT !.recorded = x, !.cleaned = TRUE]
             w(n) == [t EXCEPT !.recorded = n]
  <2>2. v \in Batch /\ v.members = t.members /\ v.heads = t.heads /\ v.base = t.base
        /\ v.try = t.try
    BY <2>1 DEF Batch
  <2>3. \A n \in BOOLEAN : /\ w(n) \in Batch /\ w(n).members = t.members /\ w(n).heads = t.heads
                           /\ w(n).base = t.base /\ w(n).try = t.try
    BY <2>1 DEF Batch
  <2>4. [repo EXCEPT !.batches[b].recorded = (t.state = "merged" /\ ~t.recorded) \/ @,
         !.batches[b].cleaned = TRUE]
        = BatchAt(repo, b, v)
    BY <1>s, <1>b, <2>1 DEF BatchAt, Document, Batch
  <2>5. \A n \in BOOLEAN : [repo EXCEPT !.batches[b].recorded = n] = BatchAt(repo, b, w(n))
    BY <1>s, <1>b, <2>1 DEF BatchAt, Document, Batch
  <2>6. t.recorded \in BOOLEAN
    BY <2>1, BatchFields
  <2>7. \/ Save([repo EXCEPT !.batches[b].recorded = (t.state = "merged" /\ ~t.recorded) \/ @,
                             !.batches[b].cleaned = TRUE])
        \/ \E n \in BOOLEAN : Save([repo EXCEPT !.batches[b].recorded = n])
    <3>1. CASE Save([repo EXCEPT !.batches[b].recorded = (t.state = "merged" /\ ~t.recorded) \/ @,
                             !.batches[b].cleaned = TRUE])
      BY <3>1
    <3>2. ASSUME NEW n \in {t.recorded,
                            t.recorded \/ ((t.state = "merged" /\ ~t.recorded) /\ Recordable(t))},
                 Save([repo EXCEPT !.batches[b].recorded = n])
          PROVE  \E z \in BOOLEAN : Save([repo EXCEPT !.batches[b].recorded = z])
      <4>1. n \in BOOLEAN
        BY <2>6
      <4> QED  BY <3>2, <4>1
    <3> QED  BY <1>2, <3>1, <3>2
  <2>8. CASE Save([repo EXCEPT !.batches[b].recorded = (t.state = "merged" /\ ~t.recorded) \/ @,
                             !.batches[b].cleaned = TRUE])
    <3>1. Save(BatchAt(repo, b, v))
      BY <2>4, <2>8
    <3> HIDE DEF v, t
    <3> QED  BY <2>2, <3>1
  <2>9. ASSUME NEW n \in BOOLEAN, Save([repo EXCEPT !.batches[b].recorded = n])
        PROVE  \E u \in Batch : /\ u.members = t.members /\ u.heads = t.heads /\ u.base = t.base /\ u.try = t.try
                                /\ Save(BatchAt(repo, b, u))
    <3>1. Save(BatchAt(repo, b, w(n)))
      BY <2>5, <2>9
    <3> HIDE DEF w, t
    <3> QED  BY <2>3, <3>1
  <2> QED  BY <2>7, <2>8, <2>9
<1> DEFINE q == BatchAt(repo, b, u)
<1>6. /\ q \in Document /\ q.entries = repo.entries /\ q.active = repo.active
      /\ q.commands = repo.commands /\ PlanOf(q.batches) = PlanOf(repo.batches)
      /\ Len(q.batches) = Len(repo.batches)
  BY <1>5, <1>b, <1>s, BatchAtFacts
<1>7. repo' = q /\ saved' = q
  BY <1>5 DEF Save
<1>8. driver' = Idle
  BY <1>1 DEF Cleanup, At, RollupIInv, Drives
<1>9. Done(q)
  BY <1>7, <1>8 DEF Done, Save
<1>10. Doc(q, comments, paired, main)
  <2> HIDE DEF q
  <2>1. Doc(repo, comments, paired, main)
    BY DEF RollupIInv
  <2> QED  BY <1>6, <2>1, WithBatchDoc
<1> HIDE DEF q
<1> QED  BY <1>1, <1>4, <1>6, <1>9, <1>10, DoneStep

\* Entries that get a number while nothing is under test.
LEMMA WithNumbersDoc ==
    ASSUME NEW r \in Document, NEW cs, NEW m, Doc(r, cs, paired, m), r.active = 0
    PROVE  Doc(WithNumbers(r), cs, paired, m)
<1> DEFINE q == WithNumbers(r)
           D == DOMAIN r.entries
<1>f. /\ q \in Document /\ q.batches = r.batches /\ q.active = r.active
      /\ q.commands = r.commands /\ DOMAIN q.entries = DOMAIN r.entries
      /\ \A i \in D : q.entries[i] = r.entries[i]
            \/ (r.entries[i].key[2] \in paired /\ q.entries[i] = [r.entries[i] EXCEPT !.numbered = TRUE])
  BY WithNumbersFacts
<1>n. \A i \in D : r.entries[i].state # "testing"
  BY IdleHasNoTests DEF NoneTesting
<1>e. \A i \in D : r.entries[i] \in Entry
  BY DocFields
<1> HIDE DEF q
<1>1. \A i \in D : Touched(r.entries[i], q.entries[i], paired, m) /\ q.entries[i].state # "testing"
  <2> SUFFICES ASSUME NEW i \in D
               PROVE  Touched(r.entries[i], q.entries[i], paired, m)
                      /\ q.entries[i].state # "testing"
    OBVIOUS
  <2>1. CASE q.entries[i] = r.entries[i]
    BY <2>1, <1>n DEF Touched
  <2>2. CASE r.entries[i].key[2] \in paired
             /\ q.entries[i] = [r.entries[i] EXCEPT !.numbered = TRUE]
    <3>1. r.entries[i] \in Entry
      BY <1>e
    <3>2. LET f == q.entries[i] e == r.entries[i] IN
           /\ f \in Entry /\ f.key = e.key /\ f.side = e.side /\ f.numbered = TRUE
           /\ f.head = e.head /\ f.rollup = e.rollup /\ f.try = e.try /\ f.granted = e.granted
           /\ f.decision = e.decision /\ f.state = e.state /\ f.batch = e.batch
      BY <3>1, <2>2, EntryNumbered
    <3> QED  BY <3>2, <2>2, <1>n DEF Touched
  <2> QED  BY <1>f, <2>1, <2>2
<1>2. Doc(q, cs, paired, m)
  BY <1>1, <1>f, TouchedDoc
<1> QED  BY <1>2 DEF q

\* The last of a sequence is in it.
LEMMA LastInRange ==
    ASSUME NEW S, NEW m \in Seq(S), m # <<>>
    PROVE  Last(m) \in Range(m) /\ Last(m) \in S
<1>1. Len(m) \in DOMAIN m
  BY EmptySeq, LenProperties
<1> QED  BY <1>1, Element DEF Last, Range

\* A drive begins.
LEMMA SurveyStep ==
    ASSUME RollupIInv, Survey
    PROVE  RollupIInv'
<1>s. UNCHANGED <<people, main, candidates, wire, faults>> /\ driver.pc = "idle"
  BY DEF Survey, Idling, At
<1>d. /\ driver = Idle /\ Doc(repo, comments, paired,
                              main) /\ repo \in Document /\ comments \in Seq(Commands)
      /\ Mains(PlanOf(repo.batches), main, wire, moves)
      /\ Plans(PlanOf(repo.batches), main, head) /\ main \in Seq(Nat)
  BY <1>s, Standing DEF RollupIInv, Drives
<1>u. /\ branch' \in [Ids -> {"absent", "tip", "other"}]
      /\ auditPR' \in [Ids -> {"none", "open", "closed"}]
      /\ ci' \in [Sides -> [Ids -> {"none", "pending", "green", "failed"}]]
      /\ faults' \in 0..MaxFaults
  BY <1>s, Standing DEF candidates
<1>l. Last(main) \in Range(main) /\ Last(main) \in Nat
  BY <1>d, LastInRange DEF Mains
<1>1. CASE repo.active = 0
  <2> DEFINE r == WithNumbers(repo)
             q == ReconcileDuplicates(r)
  <2>1. repo' = q /\ saved' = repo /\ driver' = [driver EXCEPT !.pc = "admit", !.base = Last(main)]
    BY <1>1 DEF Survey
  <2>2. r \in Document /\ r.batches = repo.batches /\ r.active = repo.active
    BY <1>d, WithNumbersFacts
  <2>3. Doc(r, comments, paired, main)
    BY <1>1, <1>d, WithNumbersDoc
  <2> HIDE DEF r
  <2>4. q \in Document /\ q.batches = r.batches /\ q.active = r.active
    BY <2>2, ReconcileFacts
  <2>5. Doc(q, comments, paired, main)
    BY <2>2, <2>3, <1>d, ReconcileDoc
  <2> HIDE DEF q
  <2>6. driver' \in Driver /\ driver'.pc = "admit" /\ driver'.base = Last(main)
        /\ driver'.eligible = {}
    BY <2>1, <1>d, <1>l DEF Idle, Driver, Places
  <2>7. Drives(q.entries, PlanOf(repo.batches), q.active, driver', main, head, ci')
    BY <2>2, <2>4, <2>6, <1>1, <1>l DEF Drives, Examined
  <2> QED  BY <2>1, <2>2, <2>4, <2>5, <2>6, <2>7, <1>u, <1>s, <1>d, WorkerStep
<1>2. CASE repo.active # 0
  <2> DEFINE b == Active(repo)
  <2>1. CASE b.state = "advancing" /\ Last(main) = repo.active
    <3>1. Finish("merged")
      BY <1>2, <2>1 DEF Survey
    <3>2. repo.active \in Range(main)
      BY <2>1, <1>l
    <3> QED  BY <3>1, <3>2, <1>2, <1>s, <1>u, FinishStep DEF Outcomes
  <2>2. CASE ~(b.state = "advancing" /\ Last(main) = repo.active) /\ b.base # Last(main)
    <3>1. Finish("cancelled")
      BY <1>2, <2>2 DEF Survey
    <3> QED  BY <3>1, <1>2, <1>s, <1>u, FinishStep DEF Outcomes
  <2>3. CASE ~(b.state = "advancing" /\ Last(main) = repo.active) /\ b.base = Last(main)
    <3>1. Save(repo) /\ Go("members")
      BY <1>2, <2>3 DEF Survey
    <3>2. driver' \in Driver /\ driver'.pc = "members" /\ driver'.i = 1
      BY <3>1, <1>d, IdlePc, GoPc DEF Places
    <3>3. repo.active \in DOMAIN PlanOf(repo.batches)
      BY <1>2, <1>d DEF Doc, Placed
    <3>4. LET ms == PlanOf(repo.batches)[repo.active].members IN 1 \in DOMAIN ms
          /\ \A j \in DOMAIN ms : ~(j < 1)
      <4>1. repo.active \in DOMAIN repo.batches
        BY <3>3, PlanDomain
      <4>2. PlanOf(repo.batches)[repo.active].members = Active(repo).members
            /\ Active(repo) \in Batch
        BY <4>1, <1>d, PlanFields, DocFields DEF Active
      <4>3. Active(repo).members \in Seq(Keys) /\ Active(repo).members # <<>>
        BY <3>3, <4>2, <1>d, BatchFields DEF Plans, PlanBatch
      <4>4. 1 \in DOMAIN Active(repo).members /\ \A j \in DOMAIN Active(repo).members : ~(j < 1)
        BY <4>3, EmptySeq, LenProperties
      <4> QED  BY <4>2, <4>4
    <3>5. Drives(repo.entries, PlanOf(repo.batches), repo.active, driver', main, head, ci')
      BY <3>2, <3>4, <1>2 DEF Drives, Examined, Checked
    <3> QED  BY <3>1, <3>2, <3>5, <1>s, <1>u, <1>d, NotedStep DEF Save
  <2> QED  BY <2>1, <2>2, <2>3
<1> QED  BY <1>1, <1>2

\* A member of the active batch has an entry.
LEMMA MemberEntry ==
    ASSUME RollupIInv, driver.pc \notin {"idle", "admit"}, NEW j \in DOMAIN Active(repo).members
    PROVE  \E i \in DOMAIN repo.entries :
              /\ repo.entries[i].key = Active(repo).members[j] /\ repo.entries[i] \in Entry
              /\ Position(repo, Active(repo).members[j]) = i
              /\ EntryOf(repo, Active(repo).members[j]) = repo.entries[i]
<1>1. repo \in Document /\ Doc(repo, comments, paired, main)
  BY DEF RollupIInv, RollupTypeOK
<1>2. PICK i \in DOMAIN repo.entries : repo.entries[i].key = Active(repo).members[j]
  BY <1>1, Working DEF Doc, Placed
<1>3. Distinct(repo.entries)
  BY <1>1 DEF Doc
<1> QED  BY <1>1, <1>2, <1>3, PositionIs, DocFields

\* An entry under test turns out to be stale.
LEMMA StaleDoc ==
    ASSUME NEW r \in Document, NEW cs, NEW pa, NEW m, Doc(r, cs, pa, m), NEW i \in DOMAIN r.entries,
           r.entries[i].state = "testing"
    PROVE  LET q == WithEntry(r, i, [r.entries[i] EXCEPT !.state = "stale"]) IN
           /\ q \in Document /\ Doc(q, cs, pa, m) /\ q.batches = r.batches /\ q.active = r.active
<1> DEFINE e == r.entries[i]
           f == [e EXCEPT !.state = "stale"]
           q == WithEntry(r, i, f)
<1>e. e \in Entry
  BY DocFields
<1>f. /\ f \in Entry /\ f.key = e.key /\ f.side = e.side /\ f.numbered = e.numbered
      /\ f.head = e.head /\ f.try = e.try /\ f.granted = e.granted
      /\ f.decision = e.decision /\ f.state = "stale" /\ f.batch = e.batch
  BY <1>e, EntryState DEF EntryStates
<1> HIDE DEF f
<1>q. /\ q \in Document /\ q.batches = r.batches /\ q.active = r.active
      /\ q.commands = r.commands /\ DOMAIN q.entries = DOMAIN r.entries
      /\ \A j \in DOMAIN r.entries : q.entries[j] = IF j = i THEN f ELSE r.entries[j]
  BY <1>f, WithEntryFacts
<1> HIDE DEF q
<1>t. \A j \in DOMAIN r.entries : Touched(r.entries[j], q.entries[j], pa, m)
/\ q.entries[j].numbered = r.entries[j].numbered
  <2> TAKE j \in DOMAIN r.entries
  <2>1. CASE j = i
    BY <2>1, <1>q, <1>f DEF Touched
  <2>2. CASE j # i
    BY <2>2, <1>q DEF Touched
  <2> QED  BY <2>1, <2>2
<1>d. Doc(q, cs, pa, m)
  BY <1>q, <1>t, TouchedDoc
<1> QED  BY <1>q, <1>d DEF q, f

\* A member is checked.
LEMMA CheckMemberStep ==
    ASSUME RollupIInv, CheckMember
    PROVE  RollupIInv'
<1>s. UNCHANGED <<people, main, candidates, wire, faults>> /\ driver.pc = "members"
  BY DEF CheckMember, Idling, At
<1>w. /\ repo.active # 0 /\ repo.active \in DOMAIN repo.batches /\ Active(repo) \in Batch
      /\ LET t == PlanOf(repo.batches)[repo.active] IN t.members = Active(repo).members
         /\ t.heads = Active(repo).heads
  BY <1>s, Working
<1>d. /\ Doc(repo, comments, paired, main) /\ repo \in Document /\ driver \in Driver
      /\ Drives(repo.entries, PlanOf(repo.batches), repo.active, driver, main, head, ci)
  BY Standing DEF RollupIInv
<1>u. /\ branch' \in [Ids -> {"absent", "tip", "other"}]
      /\ auditPR' \in [Ids -> {"none", "open", "closed"}]
      /\ ci' \in [Sides -> [Ids -> {"none", "pending", "green", "failed"}]]
      /\ faults' \in 0..MaxFaults
  BY <1>s, Standing DEF candidates
<1>i. /\ driver.i \in DOMAIN Active(repo).members
      /\ Checked(repo.entries, PlanOf(repo.batches), repo.active, driver.i)
  BY <1>s, <1>d, <1>w DEF Drives
<1>p. PICK i \in DOMAIN repo.entries :
              /\ repo.entries[i].key = Active(repo).members[driver.i] /\ repo.entries[i] \in Entry
              /\ Position(repo, Active(repo).members[driver.i]) = i
              /\ EntryOf(repo, Active(repo).members[driver.i]) = repo.entries[i]
  BY <1>s, <1>i, MemberEntry
<1> DEFINE b == Active(repo)
           e == repo.entries[i]
           stale == WithEntry(repo, i, [e EXCEPT !.state = "stale"])
<1>c. IF e.state # "testing" \/ e.head # b.heads[driver.i] \/ e.batch # repo.active
      THEN Finish("cancelled")
      ELSE CASE Verdict(e) = "stale" -> Done(FinishBatch(stale, "cancelled"))
             [] Verdict(e) = "wait" -> Done(repo)
             [] OTHER -> /\ Same
                         /\ driver' = IF driver.i < Len(b.members)
                                      THEN [driver EXCEPT !.i = @ + 1]
                                      ELSE [driver EXCEPT !.pc = "inspect", !.i = 1]
  BY <1>p DEF CheckMember
<1>1. CASE e.state # "testing" \/ e.head # b.heads[driver.i] \/ e.batch # repo.active
  <2>1. Finish("cancelled")
    BY <1>1, <1>c
  <2> QED  BY <2>1, <1>w, <1>s, <1>u, FinishStep DEF Outcomes
<1>2. CASE ~(e.state # "testing" \/ e.head # b.heads[driver.i] \/ e.batch # repo.active)
  <2>a. e.state = "testing" /\ e.head = b.heads[driver.i] /\ e.batch = repo.active
    BY <1>2
  <2>1. CASE Verdict(e) = "stale"
    <3>1. Done(FinishBatch(stale, "cancelled"))
      <4> HIDE DEF stale, b, e
      <4> QED  BY <1>2, <1>c, <2>1
    <3>2. stale \in Document /\ Doc(stale, comments, paired, main) /\ stale.batches = repo.batches
          /\ stale.active = repo.active
      BY <2>a, <1>d, StaleDoc
    <3> HIDE DEF stale
    <3> DEFINE q == FinishBatch(stale, "cancelled")
    <3>3. /\ q \in Document /\ PlanOf(q.batches) = PlanOf(repo.batches)
             /\ Len(q.batches) = Len(repo.batches)
      BY <3>2, <1>w, FinishFacts DEF Outcomes
    <3>4. Doc(q, comments, paired, main)
      BY <3>2, <1>w, FinishDoc DEF Outcomes
    <3> HIDE DEF q
    <3>5. Done(q)
      BY <3>1 DEF q
    <3> QED  BY <3>3, <3>4, <3>5, <1>s, <1>u, DoneStep
  <2>2. CASE Verdict(e) = "wait"
    <3>1. Done(repo)
      <4> HIDE DEF stale, b, e
      <4> QED  BY <1>2, <1>c, <2>2
    <3> QED  BY <3>1, <1>d, <1>s, <1>u, DoneStep
  <2>3. CASE Verdict(e) \notin {"stale", "wait"}
    <3>1. /\ Same /\ driver' = IF driver.i < Len(b.members)
                               THEN [driver EXCEPT !.i = @ + 1]
                               ELSE [driver EXCEPT !.pc = "inspect", !.i = 1]
      <4> HIDE DEF stale, b, e
      <4> QED  BY <1>2, <1>c, <2>3
    <3>2. CheckedOf(repo.entries, PlanOf(repo.batches), repo.active, driver.i)
      BY <2>a, <1>p, <1>w DEF CheckedOf
    <3>3. b.members \in Seq(Keys)
      BY <1>w, BatchFields
    <3>4. DOMAIN b.members = 1..Len(b.members) /\ Len(b.members) \in Nat
      BY <3>3, LenProperties
    <3>5. /\ driver' \in Driver
          /\ \/ driver'.pc = "members" /\ driver'.i = driver.i + 1 /\ driver.i < Len(b.members)
             \/ driver'.pc = "inspect" /\ driver.i >= Len(b.members)
      <4>1. driver.i \in Nat /\ driver.i + 1 \in Nat /\ driver \in Driver /\ driver.pc = "members"
        BY <1>d, <1>s, DriverFields
      <4> DEFINE d1 == [driver EXCEPT !.i = @ + 1]
                 d2 == [driver EXCEPT !.pc = "inspect", !.i = 1]
      <4>2. d1 \in Driver /\ d1.pc = "members" /\ d1.i = driver.i + 1
        BY <4>1 DEF Driver
      <4>3. d2 \in Driver /\ d2.pc = "inspect"
        BY <4>1 DEF Driver, Places
      <4>4. driver' = IF driver.i < Len(b.members) THEN d1 ELSE d2
        BY <3>1
      <4> HIDE DEF d1, d2, b
      <4> QED  BY <4>1, <4>2, <4>3, <4>4, <3>4 DEF b
    <3> HIDE DEF b
    <3>6. Drives(repo.entries, PlanOf(repo.batches), repo.active, driver', main, head, ci')
      <4>1. CASE driver'.pc = "members" /\ driver'.i = driver.i + 1 /\ driver.i < Len(b.members)
        <5>1. driver'.i \in DOMAIN PlanOf(repo.batches)[repo.active].members
          BY <4>1, <3>4, <1>i, <1>w DEF b
        <5>2. Checked(repo.entries, PlanOf(repo.batches), repo.active, driver'.i)
          <6> SUFFICES ASSUME NEW j \in DOMAIN PlanOf(repo.batches)[repo.active].members,
                                  j < driver'.i
                       PROVE  CheckedOf(repo.entries, PlanOf(repo.batches), repo.active, j)
            BY DEF Checked
          <6>1. j < driver.i \/ j = driver.i
            BY <4>1, <3>4, <1>i, <1>w DEF b
          <6> QED  BY <6>1, <3>2, <1>i DEF Checked
        <5> QED  BY <5>1, <5>2, <4>1, <1>w DEF Drives, Examined
      <4>2. CASE driver'.pc = "inspect" /\ driver.i >= Len(b.members)
        <5>1. \A j \in DOMAIN PlanOf(repo.batches)[repo.active].members :
                 CheckedOf(repo.entries, PlanOf(repo.batches), repo.active, j)
          <6> SUFFICES ASSUME NEW j \in DOMAIN PlanOf(repo.batches)[repo.active].members
                       PROVE  CheckedOf(repo.entries, PlanOf(repo.batches), repo.active, j)
            OBVIOUS
          <6>1. j < driver.i \/ j = driver.i
            BY <4>2, <3>4, <1>i, <1>w DEF b
          <6> QED  BY <6>1, <3>2, <1>i DEF Checked
        <5> QED  BY <5>1, <4>2, <1>w DEF Drives, Examined
      <4> QED  BY <3>5, <4>1, <4>2
    <3> QED  BY <3>1, <3>5, <3>6, <1>d, <1>s, <1>u, NotedStep DEF Same
  <2> QED  BY <2>1, <2>2, <2>3
<1> QED  BY <1>1, <1>2

\* A batch is replaced by one of the same plan.
SamePlan(b, t) ==
    t \in Batch /\ t.members = b.members /\ t.heads = b.heads /\ t.base = b.base /\ t.try = b.try

\* The edits of a batch that keep its plan ...
LEMMA Edited ==
    ASSUME NEW b \in Batch
    PROVE  /\ SamePlan(b, b)
           /\ SamePlan(b, [b EXCEPT !.state = "publishing"])
              /\ SamePlan(b, [b EXCEPT !.state = "testing"])
           /\ SamePlan(b, [b EXCEPT !.state = "advancing"])
           /\ SamePlan(b, [b EXCEPT !.audit = TRUE]) /\ SamePlan(b, [b EXCEPT !.attempted = TRUE])
           /\ SamePlan(b, [b EXCEPT !.attempted = FALSE])
              /\ SamePlan(b, [b EXCEPT !.fallback = TRUE])
BY DEF SamePlan, Batch

\* ... also together.
LEMMA EditedTwice ==
    ASSUME NEW b \in Batch
    PROVE  LET t == [b EXCEPT !.state = "testing"] IN
           /\ SamePlan(b, [t EXCEPT !.audit = TRUE]) /\ SamePlan(b, [t EXCEPT !.attempted = TRUE])
<1> DEFINE t == [b EXCEPT !.state = "testing"]
<1>1. SamePlan(b, t)
  BY Edited
<1> HIDE DEF t
<1>2. SamePlan(t, [t EXCEPT !.audit = TRUE]) /\ SamePlan(t, [t EXCEPT !.attempted = TRUE])
  BY <1>1, Edited DEF SamePlan
<1>3. SamePlan(b, [t EXCEPT !.audit = TRUE]) /\ SamePlan(b, [t EXCEPT !.attempted = TRUE])
  BY <1>1, <1>2 DEF SamePlan
<1> QED  BY <1>3 DEF t

\* What is noted of the active batch keeps what holds of the document.
LEMMA NotedBatch ==
    ASSUME RollupIInv, driver.pc \notin {"idle", "admit"}, NEW t, SamePlan(Active(repo), t)
    PROVE  LET q == WithBatch(repo, t) IN
           /\ q \in Document /\ q.entries = repo.entries /\ q.active = repo.active
           /\ q.commands = repo.commands /\ PlanOf(q.batches) = PlanOf(repo.batches)
           /\ Len(q.batches) = Len(repo.batches) /\ Doc(q, comments, paired, main)
<1>1. repo \in Document /\ Doc(repo, comments, paired, main)
  BY DEF RollupIInv, RollupTypeOK
<1> DEFINE q == WithBatch(repo, t)
<1>2. /\ q \in Document /\ q.entries = repo.entries /\ q.active = repo.active
      /\ q.commands = repo.commands /\ PlanOf(q.batches) = PlanOf(repo.batches)
      /\ Len(q.batches) = Len(repo.batches)
  BY <1>1, Working, WithBatchFacts DEF SamePlan
<1> HIDE DEF q
<1>3. Doc(q, comments, paired, main)
  BY <1>1, <1>2, WithBatchDoc
<1> QED  BY <1>2, <1>3 DEF q

\* The drive notes something and ends.
LEMMA DoneBatch ==
    ASSUME RollupIInv, UNCHANGED <<people, main, wire>>, driver.pc \notin {"idle", "admit"},
           NEW t, SamePlan(Active(repo), t), Done(WithBatch(repo, t)),
           branch' \in [Ids -> {"absent", "tip", "other"}],
           auditPR' \in [Ids -> {"none", "open", "closed"}],
           ci' \in [Sides -> [Ids -> {"none", "pending", "green", "failed"}]],
           faults' \in 0..MaxFaults
    PROVE  RollupIInv'
<1> DEFINE q == WithBatch(repo, t)
<1>1. /\ q \in Document /\ PlanOf(q.batches) = PlanOf(repo.batches)
      /\ Len(q.batches) = Len(repo.batches) /\ Doc(q, comments, paired, main)
  BY NotedBatch
<1>2. Done(q)
  OBVIOUS
<1> HIDE DEF q
<1> QED  BY <1>1, <1>2, DoneStep

\* The drive notes something and goes on.
LEMMA SaveBatch ==
    ASSUME RollupIInv, UNCHANGED <<people, main, wire>>, driver.pc \notin {"idle", "admit"},
           NEW t, SamePlan(Active(repo), t), Save(WithBatch(repo, t)), driver' \in Driver,
           branch' \in [Ids -> {"absent", "tip", "other"}],
           auditPR' \in [Ids -> {"none", "open", "closed"}],
           ci' \in [Sides -> [Ids -> {"none", "pending", "green", "failed"}]],
           faults' \in 0..MaxFaults,
           Drives(repo.entries, PlanOf(repo.batches), repo.active, driver', main, head, ci')
    PROVE  RollupIInv'
<1> DEFINE q == WithBatch(repo, t)
<1>1. /\ q \in Document /\ q.entries = repo.entries /\ q.active = repo.active
      /\ q.commands = repo.commands /\ PlanOf(q.batches) = PlanOf(repo.batches)
      /\ Len(q.batches) = Len(repo.batches)
  BY NotedBatch
<1>2. repo' = q /\ saved' = q
  BY DEF Save
<1> HIDE DEF q
<1> QED  BY <1>1, <1>2, NotedStep

\* The drive ends.
LEMMA DoneRepo ==
    ASSUME RollupIInv, UNCHANGED <<people, main, wire>>, Done(repo),
           branch' \in [Ids -> {"absent", "tip", "other"}],
           auditPR' \in [Ids -> {"none", "open", "closed"}],
           ci' \in [Sides -> [Ids -> {"none", "pending", "green", "failed"}]],
           faults' \in 0..MaxFaults
    PROVE  RollupIInv'
<1>1. repo \in Document /\ Doc(repo, comments, paired, main)
  BY DEF RollupIInv, RollupTypeOK
<1> QED  BY <1>1, DoneStep

\* The drive goes on.
LEMMA SameStep ==
    ASSUME RollupIInv, UNCHANGED <<people, main, wire>>, Same, driver' \in Driver,
           branch' \in [Ids -> {"absent", "tip", "other"}],
           auditPR' \in [Ids -> {"none", "open", "closed"}],
           ci' \in [Sides -> [Ids -> {"none", "pending", "green", "failed"}]],
           faults' \in 0..MaxFaults,
           Drives(repo.entries, PlanOf(repo.batches), repo.active, driver', main, head, ci')
    PROVE  RollupIInv'
<1>1. repo \in Document
  BY DEF RollupIInv, RollupTypeOK
<1>2. repo' = repo /\ saved' = saved
  BY DEF Same
<1> QED  BY <1>1, <1>2, NotedStep

\* The next place of a drive that has checked every member.
LEMMA GoExamined ==
    ASSUME RollupIInv, driver.pc \in Examined,
           NEW p \in {"inspect", "create", "ci", "fallback", "answer"}, Go(p), NEW c2
    PROVE  /\ driver' \in Driver
           /\ Drives(repo.entries, PlanOf(repo.batches), repo.active, driver', main, head, c2)
<1>1. driver \in Driver
      /\ Drives(repo.entries, PlanOf(repo.batches), repo.active, driver, main, head, ci)
  BY Standing DEF RollupIInv
<1>2. driver' \in Driver /\ driver'.pc = p
  BY <1>1, GoPc DEF Places
<1> QED  BY <1>1, <1>2, GoOn

\* The candidate branch and its audit pull request are looked up.
LEMMA InspectStep ==
    ASSUME RollupIInv, Inspect
    PROVE  RollupIInv'
<1>s. UNCHANGED <<people, main, candidates, wire, faults>> /\ driver.pc = "inspect"
  BY DEF Inspect, Idling, At
<1>w. /\ repo.active # 0 /\ repo.active \in Ids /\ Active(repo) \in Batch /\ driver.pc \notin {"idle", "admit"}
      /\ driver.pc \in Examined
  BY <1>s, Working DEF Examined
<1>u. /\ branch' \in [Ids -> {"absent", "tip", "other"}]
      /\ auditPR' \in [Ids -> {"none", "open", "closed"}]
      /\ ci' \in [Sides -> [Ids -> {"none", "pending", "green", "failed"}]]
      /\ faults' \in 0..MaxFaults /\ UNCHANGED <<people, main, wire>>
  BY <1>s, Standing DEF candidates
<1> DEFINE b == Active(repo)
           tested == [b EXCEPT !.state = "testing"]
<1>1. \/ Done(repo) \/ Finish("cancelled") \/ Done(WithBatch(repo, tested))
      \/ Save(WithBatch(repo, [tested EXCEPT !.audit = TRUE])) /\ Go("ci")
      \/ Save(WithBatch(repo, [tested EXCEPT !.attempted = TRUE])) /\ Go("create")
  <2> DEFINE known == b.audit \/ auditPR[repo.active] # "none"
             absent == b.state \notin {"building", "publishing"} /\ branch[repo.active] = "absent"
             unknown == ~BranchLost(b) /\ ~b.audit /\ auditPR[repo.active] = "none" /\ b.attempted
             A == Done(repo)
             B == Finish("cancelled")
             C == Done(WithBatch(repo, tested))
             D == Save(WithBatch(repo, [tested EXCEPT !.audit = TRUE])) /\ Go("ci")
             E == Save(WithBatch(repo, [tested EXCEPT !.attempted = TRUE])) /\ Go("create")
  <2>1. (CASE BranchLost(b) -> IF absent THEN A ELSE B
           [] ~BranchLost(b) /\ known -> D
           [] unknown -> C
           [] OTHER -> E)
    BY DEF Inspect
  <2>2. unknown => ~BranchLost(b) /\ ~known
    OBVIOUS
  <2> HIDE DEF absent, unknown, known, A, B, C, D, E
  <2>3. A \/ B \/ C \/ D \/ E
    BY <2>1, <2>2
  <2> QED  BY <2>3 DEF A, B, C, D, E
<1>e. /\ SamePlan(b, tested) /\ SamePlan(b, [tested EXCEPT !.audit = TRUE])
      /\ SamePlan(b, [tested EXCEPT !.attempted = TRUE])
  BY <1>w, Edited, EditedTwice
<1> HIDE DEF b, tested
<1>2. CASE Done(repo)
  BY <1>2, <1>u, DoneRepo
<1>3. CASE Finish("cancelled")
  BY <1>3, <1>u, <1>w, FinishStep DEF Outcomes
<1>4. CASE Done(WithBatch(repo, tested))
  BY <1>4, <1>e, <1>u, <1>w, DoneBatch DEF b
<1>5. CASE Save(WithBatch(repo, [tested EXCEPT !.audit = TRUE])) /\ Go("ci")
  <2>1. /\ driver' \in Driver
        /\ Drives(repo.entries, PlanOf(repo.batches), repo.active, driver', main, head, ci')
    BY <1>5, <1>w, GoExamined
  <2> QED  BY <2>1, <1>5, <1>e, <1>u, <1>w, SaveBatch DEF b
<1>6. CASE Save(WithBatch(repo, [tested EXCEPT !.attempted = TRUE])) /\ Go("create")
  <2>1. /\ driver' \in Driver
        /\ Drives(repo.entries, PlanOf(repo.batches), repo.active, driver', main, head, ci')
    BY <1>6, <1>w, GoExamined
  <2> QED  BY <2>1, <1>6, <1>e, <1>u, <1>w, SaveBatch DEF b
<1> QED  BY <1>1, <1>2, <1>3, <1>4, <1>5, <1>6

\* An audit pull request is created, or nobody knows.
LEMMA CreateAuditStep ==
    ASSUME RollupIInv, CreateAudit
    PROVE  RollupIInv'
<1>s. UNCHANGED <<people, main, wire, branch, ci>> /\ driver.pc = "create"
  BY DEF CreateAudit, At
<1>w. /\ repo.active # 0 /\ repo.active \in Ids /\ Active(repo) \in Batch /\ driver.pc \notin {"idle", "admit"}
      /\ driver.pc \in Examined
  BY <1>s, Working DEF Examined
<1>o. [auditPR EXCEPT ![repo.active] = "open"] \in [Ids -> {"none", "open", "closed"}]
  BY Standing
<1>u. /\ branch' \in [Ids -> {"absent", "tip", "other"}]
      /\ ci' \in [Sides -> [Ids -> {"none", "pending", "green", "failed"}]]
      /\ UNCHANGED <<people, main, wire>>
  BY <1>s, Standing
<1>t. /\ auditPR' \in [Ids -> {"none", "open", "closed"}]
      /\ faults' \in 0..MaxFaults
  <2>1. faults \in 0..MaxFaults /\ (faults < MaxFaults => faults + 1 \in 0..MaxFaults)
    BY Standing, Bounds
  <2>2. auditPR' = [auditPR EXCEPT ![repo.active] = "open"] \/ auditPR' = auditPR
    BY DEF CreateAudit
  <2>3. faults' = faults \/ (faults < MaxFaults /\ faults' = faults + 1)
    BY DEF CreateAudit
  <2> QED  BY <2>1, <2>2, <2>3, <1>o, Standing
<1> DEFINE b == Active(repo)
<1>1. \/ Save(WithBatch(repo, [b EXCEPT !.audit = TRUE])) /\ Go("ci")
      \/ Done(repo) \/ Done(WithBatch(repo, [b EXCEPT !.attempted = FALSE]))
  BY DEF CreateAudit
<1>e. SamePlan(b, [b EXCEPT !.audit = TRUE]) /\ SamePlan(b, [b EXCEPT !.attempted = FALSE])
  BY <1>w, Edited
<1> HIDE DEF b
<1>2. CASE Done(repo)
  BY <1>2, <1>u, <1>t, DoneRepo
<1>3. CASE Done(WithBatch(repo, [b EXCEPT !.attempted = FALSE]))
  BY <1>3, <1>e, <1>u, <1>t, <1>w, DoneBatch DEF b
<1>4. CASE Save(WithBatch(repo, [b EXCEPT !.audit = TRUE])) /\ Go("ci")
  <2>1. /\ driver' \in Driver
        /\ Drives(repo.entries, PlanOf(repo.batches), repo.active, driver', main, head, ci')
    BY <1>4, <1>w, GoExamined
  <2> QED  BY <2>1, <1>4, <1>e, <1>u, <1>t, <1>w, SaveBatch DEF b
<1> QED  BY <1>1, <1>2, <1>3, <1>4

\* The place of a drive after a green run.
LEMMA GoRecheck ==
    ASSUME RollupIInv, driver.pc \in Examined, ~Active(repo).try,
           NEW c2, NEW s \in Sides, c2[s][repo.active] = "green",
           NEW d2 \in Driver, d2.pc \in {"recheck", "confirm"}
    PROVE  Drives(repo.entries, PlanOf(repo.batches), repo.active, d2, main, head, c2)
<1>1. Drives(repo.entries, PlanOf(repo.batches), repo.active, driver, main, head, ci)
  BY DEF RollupIInv
<1>2. driver.pc \notin {"idle", "admit"}
  BY DEF Examined
<1>3. repo.active # 0 /\ ~PlanOf(repo.batches)[repo.active].try
  BY <1>2, Working
<1> QED  BY <1>1, <1>3 DEF Drives, Examined

\* What a provider reports.
LEMMA ReportsFacts ==
    ASSUME RollupIInv, repo.active \in Ids, NEW s \in Sides,
           NEW v \in {"pending", "green", "failed"}, Reports(s, v)
    PROVE  /\ ci' \in [Sides -> [Ids -> {"none", "pending", "green", "failed"}]]
           /\ ci'[s][repo.active] = v
           /\ branch' \in [Ids -> {"absent", "tip", "other"}]
           /\ auditPR' \in [Ids -> {"none", "open", "closed"}]
           /\ faults' \in 0..MaxFaults /\ UNCHANGED <<people, main, wire>>
<1>1. ci' = [ci EXCEPT ![s][repo.active] = v] /\ UNCHANGED <<branch, auditPR>>
      /\ UNCHANGED <<people, main, wire, faults>>
  BY DEF Reports, Calm
<1>2. ci \in [Sides -> [Ids -> {"none", "pending", "green", "failed"}]]
  BY Standing
<1>3. ci' \in [Sides -> [Ids -> {"none", "pending", "green", "failed"}]] /\ ci'[s][repo.active] = v
  BY <1>1, <1>2
<1> QED  BY <1>1, <1>3, Standing

\* A provider passed the candidate.
LEMMA PassedStep ==
    ASSUME RollupIInv, driver.pc \in {"ci", "fallback"}, NEW s \in Sides, Reports(s, "green"),
           Passed
    PROVE  RollupIInv'
<1>w. /\ repo.active # 0 /\ repo.active \in Ids /\ driver.pc \in Examined
  BY Working DEF Examined
<1>r. /\ ci' \in [Sides -> [Ids -> {"none", "pending", "green", "failed"}]]
      /\ ci'[s][repo.active] = "green"
      /\ branch' \in [Ids -> {"absent", "tip", "other"}]
      /\ auditPR' \in [Ids -> {"none", "open", "closed"}]
      /\ faults' \in 0..MaxFaults /\ UNCHANGED <<people, main, wire>>
  BY <1>w, ReportsFacts
<1>1. CASE Active(repo).try
  <2>1. Finish("passed")
    BY <1>1 DEF Passed
  <2> QED  BY <2>1, <1>r, <1>w, FinishStep DEF Outcomes
<1>2. CASE ~Active(repo).try
  <2>1. Same /\ driver' = [driver EXCEPT !.pc = "recheck", !.i = 1]
    BY <1>2 DEF Passed
  <2>2. driver' \in Driver /\ driver'.pc = "recheck"
    BY <2>1, Standing DEF Driver, Places
  <2>3. Drives(repo.entries, PlanOf(repo.batches), repo.active, driver', main, head, ci')
    BY <2>2, <1>2, <1>w, <1>r, GoRecheck
  <2> QED  BY <2>1, <2>2, <2>3, <1>r, SameStep
<1> QED  BY <1>1, <1>2

\* No provider has passed it.
LEMMA WaitStep ==
    ASSUME RollupIInv, driver.pc \in {"ci", "fallback"}, NEW s \in Sides,
           NEW v \in {"pending", "green", "failed"},
           Reports(s, v), Wait \/ Finish("failed")
    PROVE  RollupIInv'
<1>w. /\ repo.active # 0 /\ repo.active \in Ids
  BY Working
<1>r. /\ ci' \in [Sides -> [Ids -> {"none", "pending", "green", "failed"}]]
      /\ branch' \in [Ids -> {"absent", "tip", "other"}]
      /\ auditPR' \in [Ids -> {"none", "open", "closed"}]
      /\ faults' \in 0..MaxFaults /\ UNCHANGED <<people, main, wire>>
  BY <1>w, ReportsFacts
<1>1. CASE Done(repo)
  BY <1>1, <1>r, DoneRepo
<1>2. CASE Finish("paused")
  BY <1>2, <1>r, <1>w, FinishStep DEF Outcomes
<1>3. CASE Finish("failed")
  BY <1>3, <1>r, <1>w, FinishStep DEF Outcomes
<1> QED  BY <1>1, <1>2, <1>3 DEF Wait

\* Withdrawing what is under test keeps what holds of a document.
LEMMA UnapprovedDoc ==
    ASSUME NEW r \in Document, NEW cs, NEW pa, NEW m, Doc(r, cs, pa, m)
    PROVE  Doc(Unapproved(r), cs, pa, m)
<1> DEFINE q == Unapproved(r)
           D == DOMAIN r.entries
<1>f. /\ q \in Document /\ q.batches = r.batches /\ q.active = r.active
      /\ q.commands = r.commands /\ DOMAIN q.entries = D
      /\ \A i \in D : q.entries[i] = r.entries[i]
            \/ (r.entries[i].state = "testing" /\ q.entries[i] = [r.entries[i] EXCEPT !.state = "cancelled"])
  BY UnapprovedFacts
<1>e. \A i \in D : r.entries[i] \in Entry
  BY DocFields
<1> HIDE DEF q
<1>1. \A i \in D : Touched(r.entries[i], q.entries[i], pa, m)
      /\ q.entries[i].numbered = r.entries[i].numbered
  <2> SUFFICES ASSUME NEW i \in D
               PROVE  Touched(r.entries[i], q.entries[i], pa, m)
                      /\ q.entries[i].numbered = r.entries[i].numbered
    OBVIOUS
  <2>1. CASE q.entries[i] = r.entries[i]
    BY <2>1 DEF Touched
  <2>2. CASE r.entries[i].state = "testing"
             /\ q.entries[i] = [r.entries[i] EXCEPT !.state = "cancelled"]
    <3>1. r.entries[i] \in Entry
      BY <1>e
    <3>2. LET f == q.entries[i] e == r.entries[i] IN
           /\ f \in Entry /\ f.key = e.key /\ f.side = e.side /\ f.numbered = e.numbered
           /\ f.head = e.head /\ f.rollup = e.rollup /\ f.try = e.try /\ f.granted = e.granted
           /\ f.decision = e.decision /\ f.state = "cancelled" /\ f.batch = e.batch
      <4>1. "cancelled" \in EntryStates
        BY DEF EntryStates
      <4> QED  BY <4>1, <3>1, <2>2, EntryState
    <3> QED  BY <3>2, <2>2 DEF Touched
  <2> QED  BY <1>f, <2>1, <2>2
<1>2. Doc(q, cs, pa, m)
  BY <1>1, <1>f, TouchedDoc
<1> QED  BY <1>2 DEF q

\* GitHub's report is read.
LEMMA ReadGitHubStep ==
    ASSUME RollupIInv, ReadGitHub
    PROVE  RollupIInv'
<1>s. driver.pc = "ci"
  BY DEF ReadGitHub, At
<1>w. /\ repo.active # 0 /\ repo.active \in Ids /\ driver.pc \notin {"idle", "admit"}
      /\ driver.pc \in Examined /\ repo.active \in DOMAIN repo.batches
  BY <1>s, Working DEF Examined
<1>g. "github" \in Sides
  BY DEF Sides
<1>1. CASE auditPR[repo.active] = "closed" /\ Idling
           /\ Done(FinishBatch(Unapproved(repo), "cancelled"))
  <2> DEFINE r == Unapproved(repo)
             q == FinishBatch(r, "cancelled")
  <2>1. repo \in Document /\ Doc(repo, comments, paired, main)
    BY DEF RollupIInv, RollupTypeOK
  <2>2. r \in Document /\ r.batches = repo.batches /\ r.active = repo.active
        /\ Doc(r, comments, paired, main)
    BY <2>1, UnapprovedFacts, UnapprovedDoc
  <2>d. Done(q)
    BY <1>1
  <2> HIDE DEF r
  <2>3. /\ q \in Document /\ PlanOf(q.batches) = PlanOf(repo.batches)
           /\ Len(q.batches) = Len(repo.batches)
        /\ Doc(q, comments, paired, main)
    BY <2>2, <1>w, FinishFacts, FinishDoc DEF Outcomes
  <2> HIDE DEF q
  <2>4. /\ branch' \in [Ids -> {"absent", "tip", "other"}]
        /\ auditPR' \in [Ids -> {"none", "open", "closed"}]
        /\ ci' \in [Sides -> [Ids -> {"none", "pending", "green", "failed"}]]
        /\ faults' \in 0..MaxFaults /\ UNCHANGED <<people, main, wire>>
    BY <1>1, Standing DEF Idling, candidates
  <2> QED  BY <2>d, <2>3, <2>4, DoneStep
<1>2. ASSUME NEW v \in {"pending", "green", "failed"}, Reports("github", v),
             \/ v = "green" /\ Passed
             \/ v # "green" /\ Same
                /\ driver' = [driver EXCEPT !.pc = "fallback", !.failed = v = "failed"]
             \/ v # "green" /\ Wait
      PROVE  RollupIInv'
  <2>1. CASE v = "green" /\ Passed
    BY <2>1, <1>2, <1>s, <1>g, PassedStep
  <2>2. CASE v # "green" /\ Same
             /\ driver' = [driver EXCEPT !.pc = "fallback", !.failed = v = "failed"]
    <3>1. driver' \in Driver /\ driver'.pc = "fallback"
      BY <2>2, Standing DEF Driver, Places
    <3>2. Drives(repo.entries, PlanOf(repo.batches), repo.active, driver', main, head, ci')
      BY <3>1, <1>w, GoOn DEF RollupIInv
    <3> QED  BY <2>2, <3>1, <3>2, <1>2, <1>w, <1>g, ReportsFacts, SameStep
  <2>3. CASE v # "green" /\ Wait
    BY <2>3, <1>2, <1>s, <1>g, WaitStep
  <2> QED  BY <1>2, <2>1, <2>2, <2>3
<1>3. CASE /\ Same /\ UNCHANGED <<people, main, candidates, wire>>
           /\ driver' = [driver EXCEPT !.pc = "fallback", !.failed = FALSE]
           /\ faults < MaxFaults /\ faults' = faults + 1
  <2>1. driver' \in Driver /\ driver'.pc = "fallback"
    BY <1>3, Standing DEF Driver, Places
  <2>2. /\ branch' \in [Ids -> {"absent", "tip", "other"}]
        /\ auditPR' \in [Ids -> {"none", "open", "closed"}]
        /\ ci' \in [Sides -> [Ids -> {"none", "pending", "green", "failed"}]]
        /\ faults' \in 0..MaxFaults
    BY <1>3, Standing, RollupAssumption DEF candidates
  <2>3. Drives(repo.entries, PlanOf(repo.batches), repo.active, driver', main, head, ci')
    BY <2>1, <1>w, GoOn DEF RollupIInv
  <2> QED  BY <1>3, <2>1, <2>2, <2>3, SameStep
<1> QED  BY <1>1, <1>2, <1>3 DEF ReadGitHub

\* The candidate is pushed to Forgejo.
LEMMA FallbackStep ==
    ASSUME RollupIInv, Fallback
    PROVE  RollupIInv'
<1>s. UNCHANGED <<people, main, wire, branch, auditPR>> /\ driver.pc = "fallback"
  BY DEF Fallback, At
<1>w. /\ repo.active # 0 /\ repo.active \in Ids /\ Active(repo) \in Batch /\ driver.pc \notin {"idle", "admit"}
      /\ driver.pc \in Examined
  BY <1>s, Working DEF Examined
<1>g. "forgejo" \in Sides
  BY DEF Sides
<1>c. ci' \in [Sides -> [Ids -> {"none", "pending", "green", "failed"}]]
  <2>1. ci' = [ci EXCEPT !["forgejo"][repo.active] = IF @ = "none" THEN "pending" ELSE @]
    BY DEF Fallback
  <2>2. ci \in [Sides -> [Ids -> {"none", "pending", "green", "failed"}]]
    BY Standing
  <2> DEFINE x == IF ci["forgejo"][repo.active] = "none" THEN "pending" ELSE ci["forgejo"][repo.active]
  <2>3. x \in {"none", "pending", "green", "failed"}
    BY <2>2, <1>g, <1>w
  <2>4. ci' = [ci EXCEPT !["forgejo"] = [ci["forgejo"] EXCEPT ![repo.active] = x]]
    BY <2>1
  <2>5. [ci["forgejo"] EXCEPT ![repo.active] = x] \in [Ids -> {"none", "pending", "green",
                                                               "failed"}]
    <3> HIDE DEF x
    <3> QED  BY <2>2, <2>3, <1>g, <1>w
  <2> HIDE DEF x
  <2> QED  BY <2>2, <2>4, <2>5
<1>u. /\ branch' \in [Ids -> {"absent", "tip", "other"}] /\ auditPR' \in [Ids -> {"none", "open",
                                                                                  "closed"}]
      /\ UNCHANGED <<people, main, wire>>
  BY <1>s, Standing
<1>1. CASE Save(WithBatch(repo, [Active(repo) EXCEPT !.fallback = TRUE]))
           /\ UNCHANGED <<driver, faults>>
  <2>1. SamePlan(Active(repo), [Active(repo) EXCEPT !.fallback = TRUE])
    BY <1>w, Edited
  <2>2. driver' \in Driver /\ faults' \in 0..MaxFaults /\ driver' = driver
    BY <1>1, Standing
  <2>3. Drives(repo.entries, PlanOf(repo.batches), repo.active, driver', main, head, ci')
    BY <2>2, <1>w, <1>s, GoOn DEF RollupIInv
  <2> QED  BY <1>1, <2>1, <2>2, <2>3, <1>u, <1>c, <1>w, SaveBatch
<1>2. CASE faults < MaxFaults /\ faults' = faults + 1 /\ Done(repo)
  <2>1. faults' \in 0..MaxFaults
    BY <1>2, Standing, Bounds
  <2> QED  BY <1>2, <2>1, <1>u, <1>c, DoneRepo
<1> QED  BY <1>1, <1>2 DEF Fallback

\* Forgejo's report is read.
LEMMA ReadForgejoStep ==
    ASSUME RollupIInv, ReadForgejo
    PROVE  RollupIInv'
<1>s. driver.pc = "fallback"
  BY DEF ReadForgejo, At
<1>g. "forgejo" \in Sides
  BY DEF Sides
<1>1. PICK v \in {"pending", "green", "failed"} :
          /\ Reports("forgejo", v)
          /\ IF v = "green" THEN Passed
             ELSE IF v = "failed" /\ driver.failed THEN Finish("failed")
             ELSE Wait
  BY DEF ReadForgejo
<1>2. CASE v = "green"
  BY <1>1, <1>2, <1>s, <1>g, PassedStep
<1>3. CASE v # "green"
  BY <1>1, <1>3, <1>s, <1>g, WaitStep
<1> QED  BY <1>2, <1>3

\* A member is checked once more.
LEMMA RecheckStep ==
    ASSUME RollupIInv, RecheckMember
    PROVE  RollupIInv'
<1>s. UNCHANGED <<people, main, candidates, wire, faults>> /\ driver.pc = "recheck"
  BY DEF RecheckMember, Idling, At
<1>u. /\ branch' \in [Ids -> {"absent", "tip", "other"}]
      /\ auditPR' \in [Ids -> {"none", "open", "closed"}]
      /\ ci' = ci /\ ci' \in [Sides -> [Ids -> {"none", "pending", "green", "failed"}]]
      /\ faults' \in 0..MaxFaults /\ UNCHANGED <<people, main, wire>>
  BY <1>s, Standing DEF candidates
<1>w. ~Active(repo).try /\ driver.pc \in Examined /\ \E s \in Sides : ci[s][repo.active] = "green"
  BY <1>s, Working DEF RollupIInv, Drives, Examined
<1>1. CASE Done(repo)
  BY <1>1, <1>u, DoneRepo
<1>2. CASE Same
           /\ driver' = IF driver.i < Len(Active(repo).members) THEN [driver EXCEPT !.i = @ + 1]
                              ELSE [driver EXCEPT !.pc = "confirm", !.i = 1]
  <2>1. driver \in Driver /\ driver.i \in Nat /\ driver.i + 1 \in Nat
    BY Standing, DriverFields
  <2> DEFINE d1 == [driver EXCEPT !.i = @ + 1]
             d2 == [driver EXCEPT !.pc = "confirm", !.i = 1]
  <2>2. /\ d1 \in Driver /\ d1.pc = "recheck"
    BY <2>1, <1>s DEF Driver
  <2>3. /\ d2 \in Driver /\ d2.pc = "confirm"
    BY <2>1 DEF Driver, Places
  <2>4. driver' = d1 \/ driver' = d2
    BY <1>2
  <2> HIDE DEF d1, d2
  <2>5. driver' \in Driver /\ driver'.pc \in {"recheck", "confirm"}
    BY <2>2, <2>3, <2>4
  <2>6. PICK s \in Sides : ci'[s][repo.active] = "green"
    BY <1>w, <1>u
  <2>7. Drives(repo.entries, PlanOf(repo.batches), repo.active, driver', main, head, ci')
    BY <2>5, <2>6, <1>w, GoRecheck
  <2> QED  BY <1>2, <2>5, <2>7, <1>u, SameStep
<1> QED  BY <1>1, <1>2 DEF RecheckMember

\* The fast-forward is requested.
LEMMA AdvanceStep ==
    ASSUME RollupIInv, Advance
    PROVE  RollupIInv'
<1>s. UNCHANGED <<people, main, candidates, faults>> /\ driver.pc = "confirm"
  BY DEF Advance, At
<1>w. /\ repo.active # 0 /\ repo.active \in Ids /\ Active(repo) \in Batch /\ driver.pc \notin {"idle", "admit"}
      /\ driver.pc \in Examined /\ repo.active \in DOMAIN repo.batches
      /\ PlanOf(repo.batches)[repo.active].base = Active(repo).base
  BY <1>s, Working DEF Examined
<1>u. /\ branch' \in [Ids -> {"absent", "tip", "other"}]
      /\ auditPR' \in [Ids -> {"none", "open", "closed"}]
      /\ ci' \in [Sides -> [Ids -> {"none", "pending", "green", "failed"}]]
      /\ faults' \in 0..MaxFaults /\ UNCHANGED <<people, main>>
  BY <1>s, Standing DEF candidates
<1> DEFINE b == Active(repo)
           t == [b EXCEPT !.state = "advancing"]
           q == WithBatch(repo, t)
           plan == PlanOf(repo.batches)
<1>1. CASE Last(main) # b.base
  <2>1. Finish("cancelled") /\ UNCHANGED wire
    BY <1>1 DEF Advance
  <2> QED  BY <2>1, <1>u, <1>w, FinishStep DEF Outcomes
<1>2. CASE Last(main) = b.base
  <2>1. repo' = q /\ saved' = q /\ wire' = [wire EXCEPT ![repo.active] = "sent"] /\ Go("answer")
    BY <1>2 DEF Advance, Save
  <2>2. /\ q \in Document /\ q.entries = repo.entries /\ q.active = repo.active
        /\ q.commands = repo.commands /\ PlanOf(q.batches) = plan
        /\ Len(q.batches) = Len(repo.batches) /\ Doc(q, comments, paired, main)
    BY <1>w, Edited, NotedBatch
  <2> HIDE DEF q
  <2>3. driver' \in Driver /\ Drives(repo.entries, plan, repo.active, driver', main, head, ci)
    BY <2>1, <1>w, GoExamined
  <2>y. RollupTypeOK /\ wire \in [Ids -> {"none", "sent", "accepted", "refused"}]
    BY DEF RollupIInv, RollupTypeOK
  <2>4. wire' \in [Ids -> {"none", "sent", "accepted", "refused"}]
    BY <2>1, <2>y
  <2>5. /\ comments' = comments /\ pr' = pr /\ head' = head /\ paired' = paired
           /\ objection' = objection
        /\ moves' = moves /\ main' = main /\ ci' = ci
    BY <1>s DEF people, candidates
  <2>6. RollupTypeOK'
    BY <2>1, <2>2, <2>3, <2>4, <2>5, <2>y, <1>u DEF RollupTypeOK
  <2>7. Mains(plan, main, wire, moves) /\ Plans(plan, main, head)
    BY DEF RollupIInv
  <2>8. repo.active \in DOMAIN plan
    BY <1>w, PlanDomain
  <2>9. repo.active \notin Range(main)
    BY <2>7, <2>8, <1>2, <1>w DEF Plans, PlanBatch
  <2>10. Mains(plan, main, wire', moves)
    <3>1. \A c \in Ids : wire'[c] = IF c = repo.active THEN "sent" ELSE wire[c]
      BY <2>1, <2>y
    <3> HIDE DEF plan
    <3> QED  BY <3>1, <2>7, <2>8, <2>9 DEF Mains
  <2> QED  BY <2>1, <2>2, <2>3, <2>5, <2>6, <2>10 DEF RollupIInv
<1> QED  BY <1>1, <1>2

\* It is answered.
LEMMA AnsweredStep ==
    ASSUME RollupIInv, Answered
    PROVE  RollupIInv'
<1>s. UNCHANGED <<people, main, candidates, wire, faults>> /\ driver.pc = "answer"
  BY DEF Answered, Idling, At
<1>u. /\ branch' \in [Ids -> {"absent", "tip", "other"}]
      /\ auditPR' \in [Ids -> {"none", "open", "closed"}]
      /\ ci' \in [Sides -> [Ids -> {"none", "pending", "green", "failed"}]]
      /\ faults' \in 0..MaxFaults /\ UNCHANGED <<people, main, wire>>
  BY <1>s, Standing DEF candidates
<1>w. /\ repo.active # 0 /\ repo.active \in Ids
  BY <1>s, Working
<1>1. CASE wire[repo.active] = "accepted"
  <2>1. Finish("merged")
    BY <1>1 DEF Answered
  <2>2. repo.active \in Range(main)
    BY <1>1, <1>w DEF RollupIInv, Mains
  <2> QED  BY <2>1, <2>2, <1>u, <1>w, FinishStep DEF Outcomes
<1>2. CASE wire[repo.active] # "accepted"
  <2>1. Done(repo)
    BY <1>2 DEF Answered
  <2> QED  BY <2>1, <1>u, DoneRepo
<1> QED  BY <1>1, <1>2

\* The members are merged.
LEMMA PrepareStep ==
    ASSUME RollupIInv, Prepare
    PROVE  RollupIInv'
<1>s. UNCHANGED <<people, main, candidates, wire, faults>> /\ driver.pc = "prepare"
  BY DEF Prepare, Idling, At
<1>u. /\ branch' \in [Ids -> {"absent", "tip", "other"}]
      /\ auditPR' \in [Ids -> {"none", "open", "closed"}]
      /\ ci' \in [Sides -> [Ids -> {"none", "pending", "green", "failed"}]]
      /\ faults' \in 0..MaxFaults /\ UNCHANGED <<people, main, wire>>
  BY <1>s, Standing DEF candidates
<1>w. /\ repo.active # 0 /\ Active(repo) \in Batch /\ driver.pc \notin {"idle", "admit"}
  BY <1>s, Working
<1>1. CASE Finish("cancelled") \/ Finish("failed")
  BY <1>1, <1>u, <1>w, FinishStep DEF Outcomes
<1>2. CASE Save(WithBatch(repo, [Active(repo) EXCEPT !.state = "publishing"])) /\ Go("publish")
  <2>1. SamePlan(Active(repo), [Active(repo) EXCEPT !.state = "publishing"])
    BY <1>w, Edited
  <2>2. driver' \in Driver /\ driver'.pc = "publish"
    BY <1>2, Standing, GoPc DEF Places
  <2>3. Drives(repo.entries, PlanOf(repo.batches), repo.active, driver', main, head, ci')
    BY <2>2, <1>w, GoFresh
  <2> QED  BY <1>2, <2>1, <2>2, <2>3, <1>u, <1>w, SaveBatch
<1> QED  BY <1>1, <1>2 DEF Prepare

\* The candidate is pushed.
LEMMA PublishStep ==
    ASSUME RollupIInv, Publish
    PROVE  RollupIInv'
<1>s. UNCHANGED <<people, main, wire, auditPR>> /\ driver.pc = "publish"
  BY DEF Publish, At
<1>w. /\ repo.active # 0 /\ repo.active \in Ids /\ Active(repo) \in Batch
/\ driver.pc \notin {"idle", "admit"}
  BY <1>s, Working
<1>p. branch' = [branch EXCEPT ![repo.active] = "tip"]
/\ ci' = [ci EXCEPT !["github"][repo.active] = "pending"]
  BY DEF Publish
<1>u. /\ branch' \in [Ids -> {"absent", "tip", "other"}]
      /\ auditPR' \in [Ids -> {"none", "open", "closed"}]
      /\ ci' \in [Sides -> [Ids -> {"none", "pending", "green", "failed"}]]
      /\ UNCHANGED <<people, main, wire>>
  <2>1. branch' \in [Ids -> {"absent", "tip", "other"}]
    BY <1>p, Standing
  <2>2. ci' \in [Sides -> [Ids -> {"none", "pending", "green", "failed"}]]
    BY <1>p, Standing
  <2> QED  BY <1>s, <2>1, <2>2, Standing
<1>1. CASE Done(WithBatch(repo, [Active(repo) EXCEPT !.state = "testing"])) /\ UNCHANGED faults
  <2>1. SamePlan(Active(repo), [Active(repo) EXCEPT !.state = "testing"])
    BY <1>w, Edited
  <2>2. faults' \in 0..MaxFaults
    BY <1>1, Standing
  <2> QED  BY <1>1, <2>1, <2>2, <1>u, <1>w, DoneBatch
<1>2. CASE faults < MaxFaults /\ faults' = faults + 1 /\ Done(repo)
  <2>1. faults' \in 0..MaxFaults
    BY <1>2, Standing, Bounds
  <2> QED  BY <1>2, <2>1, <1>u, DoneRepo
<1> QED  BY <1>1, <1>2 DEF Publish

\* The drive is cut.
LEMMA AbandonStep ==
    ASSUME RollupIInv, Abandon
    PROVE  RollupIInv'
<1>s. UNCHANGED <<people, main, candidates, wire>> /\ faults' = faults + 1 /\ faults < MaxFaults
  BY DEF Abandon
<1>u. /\ branch' \in [Ids -> {"absent", "tip", "other"}]
      /\ auditPR' \in [Ids -> {"none", "open", "closed"}]
      /\ ci' \in [Sides -> [Ids -> {"none", "pending", "green", "failed"}]]
      /\ faults' \in 0..MaxFaults /\ UNCHANGED <<people, main, wire>>
  BY <1>s, Standing, Bounds DEF candidates
<1>1. CASE driver.pc = "prepare" /\ Finish("cancelled")
  <2>1. repo.active # 0
    BY <1>1, Working
  <2> QED  BY <1>1, <2>1, <1>u, FinishStep DEF Outcomes
<1>2. CASE Done(repo)
  BY <1>2, <1>u, DoneRepo
<1> QED  BY <1>1, <1>2 DEF Abandon, At

\* The process restarts with the stored document.
LEMMA CrashStep ==
    ASSUME RollupIInv, Crash
    PROVE  RollupIInv'
<1>s. /\ UNCHANGED <<people, main, candidates, wire>> /\ faults' = faults + 1 /\ faults < MaxFaults
      /\ repo' = saved /\ saved' = saved /\ driver' = Idle
  BY DEF Crash
<1>u. /\ branch' \in [Ids -> {"absent", "tip", "other"}]
      /\ auditPR' \in [Ids -> {"none", "open", "closed"}]
      /\ ci' \in [Sides -> [Ids -> {"none", "pending", "green", "failed"}]]
      /\ faults' \in 0..MaxFaults /\ UNCHANGED <<people, main, wire>>
  BY <1>s, Standing, Bounds DEF candidates
<1>1. /\ Doc(saved, comments, paired, main) /\ PlanOf(saved.batches) = PlanOf(repo.batches)
      /\ saved \in Document /\ repo \in Document
  BY Standing DEF RollupIInv
<1>2. Len(saved.batches) = Len(repo.batches)
  <2>1. DOMAIN saved.batches = DOMAIN repo.batches
    BY <1>1, PlanDomain
  <2>2. saved.batches \in Seq(Batch) /\ repo.batches \in Seq(Batch)
    BY <1>1, DocFields
  <2> QED  BY <2>1, <2>2, LenProperties
<1>3. Drives(repo'.entries, PlanOf(repo.batches), repo'.active, driver', main, head, ci')
  BY <1>s, IdleDrives
<1> QED  BY <1>s, <1>u, <1>1, <1>2, <1>3, IdlePc, WorkerStep

\* A member read as valid has never landed at that head.
LEMMA ValidFresh ==
    ASSUME RollupIInv, NEW e \in Entry, Verdict(e) = "valid"
    PROVE  /\ e.key[2] \in paired /\ e.head <= head["github"][e.key[2]]
           /\ FreshIn(PlanOf(repo.batches), main, e.key[2], e.head)
<1>y. RollupTypeOK /\ Spent(PlanOf(repo.batches), main, pr, head)
  BY DEF RollupIInv
<1>1. e.key[2] \in paired /\ pr[e.key[2]] = "open" /\ head["github"][e.key[2]] = e.head
  BY <1>y, VerdictValid
<1>2. e.key[2] \in PRs /\ e.head \in Nat
  BY EntryFields, Bounds
<1>3. e.head <= e.head
  BY <1>2
<1> DEFINE plan == PlanOf(repo.batches)
<1>4. ASSUME NEW c \in Range(main) \cap Ids, NEW j \in DOMAIN plan[c].members,
                 plan[c].members[j][2] = e.key[2],
             plan[c].heads[j] = e.head
      PROVE  FALSE
  <2>1. plan[c].heads[j] < head["github"][plan[c].members[j][2]]
    BY <1>y, <1>1, <1>4 DEF Spent
  <2> HIDE DEF plan
  <2>2. e.head < e.head
    BY <2>1, <1>1, <1>4
  <2> QED  BY <2>2, <1>2
<1> QED  BY <1>1, <1>3, <1>4 DEF FreshIn

\* An entry is admitted, or not.
LEMMA AdmitStep ==
    ASSUME RollupIInv, Admit
    PROVE  RollupIInv'
<1>s. UNCHANGED <<people, main, candidates, wire, faults>> /\ driver.pc = "admit"
  BY DEF Admit, Idling, At
<1>u. /\ branch' \in [Ids -> {"absent", "tip", "other"}]
      /\ auditPR' \in [Ids -> {"none", "open", "closed"}]
      /\ ci' \in [Sides -> [Ids -> {"none", "pending", "green", "failed"}]]
      /\ faults' \in 0..MaxFaults /\ UNCHANGED <<people, main, wire>>
  BY <1>s, Standing DEF candidates
<1>d. /\ Doc(repo, comments, paired, main) /\ repo \in Document /\ driver \in Driver
      /\ Doc(saved, comments, paired, main) /\ saved \in Document
      /\ PlanOf(saved.batches) = PlanOf(repo.batches)
  BY Standing DEF RollupIInv
<1>r. /\ repo.active = 0 /\ driver.base \in Range(main)
      /\ \A k \in driver.eligible :
            Candidate(repo.entries, PlanOf(repo.batches), main, head, driver.base, k)
  BY <1>s DEF RollupIInv, Drives
<1>1. PICK i \in First(Later(driver.i)) :
        LET e == repo.entries[i]
            v == Verdict(e)
        IN /\ Remember(WithEntry(repo, i,
                CASE v = "valid" -> [e EXCEPT !.state = "queued", !.numbered = TRUE]
                  [] v = "stale" -> [e EXCEPT !.state = "stale"]
                  [] OTHER -> [e EXCEPT !.state = "waiting"]))
           /\ driver' = [driver EXCEPT !.i = i + 1,
                !.eligible = IF v = "valid" THEN @ \cup {e.key} ELSE @]
  BY DEF Admit
<1>i. i \in DOMAIN repo.entries /\ IsWaiting(repo.entries[i]) /\ i \in Nat
  BY <1>d, DocFields DEF First, Later
<1> DEFINE e == repo.entries[i]
           v == Verdict(e)
           f == CASE v = "valid" -> [e EXCEPT !.state = "queued", !.numbered = TRUE]
                  [] v = "stale" -> [e EXCEPT !.state = "stale"]
                  [] OTHER -> [e EXCEPT !.state = "waiting"]
           q == WithEntry(repo, i, f)
           new == IF v = "valid" THEN driver.eligible \cup {e.key} ELSE driver.eligible
<1>e. e \in Entry
  BY <1>d, <1>i, DocFields
<1>v. v = "valid" => /\ e.key[2] \in paired /\ e.head <= head["github"][e.key[2]]
                     /\ FreshIn(PlanOf(repo.batches), main, e.key[2], e.head)
  BY <1>e, ValidFresh
<1>2. repo' = q /\ saved' = saved /\ driver' = [driver EXCEPT !.i = i + 1, !.eligible = new]
  BY <1>1 DEF Remember
<1>3. /\ v = "valid" => f = [e EXCEPT !.state = "queued", !.numbered = TRUE]
      /\ \/ f = [e EXCEPT !.state = "queued", !.numbered = TRUE] /\ e.key[2] \in paired
         \/ f = [e EXCEPT !.state = "stale"]
         \/ f = [e EXCEPT !.state = "waiting"]
  BY <1>v
<1> HIDE DEF f
<1>4. /\ q \in Document /\ Doc(q, comments, paired, main) /\ q.batches = repo.batches
         /\ q.active = 0
      /\ DOMAIN q.entries = DOMAIN repo.entries
      /\ \A j \in DOMAIN repo.entries :
            /\ q.entries[j].key = repo.entries[j].key /\ q.entries[j].head = repo.entries[j].head
            /\ repo.entries[j].numbered => q.entries[j].numbered
      /\ q.entries[i] = f
  <2>1. Admitted(repo.entries[i], f, paired)
    BY <1>3 DEF Admitted
  <2> QED  BY <2>1, <1>d, <1>r, <1>i, AdmitDoc
<1>n. v = "valid" => f.numbered = TRUE
  <2> HIDE DEF e, v
  <2>1. v = "valid" => f = [e EXCEPT !.state = "queued", !.numbered = TRUE]
    BY <1>3
  <2>2. [e EXCEPT !.state = "queued", !.numbered = TRUE].numbered = TRUE
    BY <1>e DEF Entry
  <2> QED  BY <2>1, <2>2
<1>5. new \in SUBSET Keys
  BY <1>e, <1>d, EntryFields, DriverFields
<1> HIDE DEF q, new, v
<1>6. driver' \in Driver /\ driver'.pc = "admit" /\ driver'.base = driver.base
      /\ driver'.eligible = new
  <2>1. i + 1 \in Nat
    BY <1>i
  <2> QED  BY <2>1, <1>2, <1>5, <1>d, <1>s DEF Driver
<1>7. ASSUME NEW k \in new
      PROVE  Candidate(q.entries, PlanOf(repo.batches), main, head, driver.base, k)
  <2>1. CASE k \in driver.eligible
    <3>1. PICK j \in DOMAIN repo.entries :
            /\ repo.entries[j].key = k /\ repo.entries[j].numbered
            /\ repo.entries[j].head <= head["github"][k[2]]
            /\ driver.base = Last(main)
               => FreshIn(PlanOf(repo.batches), main, k[2], repo.entries[j].head)
      BY <2>1, <1>r DEF Candidate
    <3>2. /\ q.entries[j].key = k /\ q.entries[j].numbered
             /\ q.entries[j].head = repo.entries[j].head
          /\ j \in DOMAIN q.entries
      BY <3>1, <1>4
    <3> QED  BY <3>1, <3>2 DEF Candidate
  <2>2. CASE k \notin driver.eligible
    <3>1. v = "valid" /\ k = e.key
      BY <2>2 DEF new
    <3>2. /\ q.entries[i].key = k /\ q.entries[i].numbered /\ q.entries[i].head = e.head
          /\ i \in DOMAIN q.entries
      BY <3>1, <1>4, <1>n, <1>i
    <3>3. e.head <= head["github"][k[2]] /\ FreshIn(PlanOf(repo.batches), main, k[2], e.head)
      BY <3>1, <1>v
    <3> HIDE DEF e
    <3> QED  BY <3>2, <3>3 DEF Candidate
  <2> QED  BY <2>1, <2>2
<1>8. Drives(q.entries, PlanOf(repo.batches), q.active, driver', main, head, ci')
  BY <1>4, <1>6, <1>7, <1>r DEF Drives, Examined
<1> QED  BY <1>2, <1>4, <1>6, <1>8, <1>d, <1>u, WorkerStep

\* The split of a document is replaced.
LEMMA SplitFacts ==
    ASSUME NEW r \in Document, NEW sp \in Seq(Seq(Keys))
    PROVE  LET q == [r EXCEPT !.split = sp] IN
           /\ q \in Document /\ q.entries = r.entries /\ q.batches = r.batches
              /\ q.active = r.active
           /\ q.commands = r.commands
<1> DEFINE q == [r EXCEPT !.split = sp]
<1>1. r = [entries |-> r.entries, batches |-> r.batches, active |-> r.active, split |-> r.split,
           commands |-> r.commands]
  BY DEF Document
<1>2. q = [entries |-> r.entries, batches |-> r.batches, active |-> r.active, split |-> sp,
           commands |-> r.commands]
  BY <1>1
<1>3. /\ r.entries \in Seq(Entry) /\ r.batches \in Seq(Batch) /\ r.active \in 0..MaxBatches
      /\ r.commands \in SUBSET Nat
  BY DocFields
<1> HIDE DEF q
<1>4. q \in Document
  BY <1>2, <1>3 DEF Document
<1>5. q.entries = r.entries /\ q.batches = r.batches /\ q.active = r.active
      /\ q.commands = r.commands
  BY <1>2
<1> QED  BY <1>4, <1>5 DEF q

\* A group is chosen and frozen.
LEMMA SelectStep ==
    ASSUME RollupIInv, Select
    PROVE  RollupIInv'
<1>s. UNCHANGED <<people, main, candidates, wire, faults>> /\ driver.pc = "admit"
  BY DEF Select, Idling, At
<1>u. /\ branch' \in [Ids -> {"absent", "tip", "other"}]
      /\ auditPR' \in [Ids -> {"none", "open", "closed"}]
      /\ ci' \in [Sides -> [Ids -> {"none", "pending", "green", "failed"}]]
      /\ faults' \in 0..MaxFaults /\ UNCHANGED <<people, main, wire>>
  BY <1>s, Standing DEF candidates
<1>d. /\ Doc(repo, comments, paired, main) /\ repo \in Document /\ driver \in Driver
      /\ comments \in Seq(Commands) /\ main \in Seq(Nat)
  BY Standing DEF RollupIInv
<1>a. /\ repo.active = 0 /\ driver.base \in Range(main)
      /\ \A k \in driver.eligible :
            Candidate(repo.entries, PlanOf(repo.batches), main, head, driver.base, k)
  BY <1>s DEF RollupIInv, Drives
<1> DEFINE r == ReconcileDuplicates(repo)
           plan == PlanOf(repo.batches)
<1>1. PICK line \in Candidates(r, driver.eligible) : \E n \in Sizes(r, line) :
          \/ n = 0 /\ Done([r EXCEPT !.split = Remaining(r, line, n)])
          \/ n # 0 /\ r.split = <<>> /\ Done(r)
          \/ /\ n # 0 /\ Len(r.batches) < MaxBatches
             /\ Save(Frozen(r, SubSeq(line, 1, n), Remaining(r, line, n)))
             /\ Go("prepare")
  BY DEF Select
<1>2. PICK n \in Sizes(r, line) :
          \/ n = 0 /\ Done([r EXCEPT !.split = Remaining(r, line, n)])
          \/ n # 0 /\ r.split = <<>> /\ Done(r)
          \/ /\ n # 0 /\ Len(r.batches) < MaxBatches
             /\ Save(Frozen(r, SubSeq(line, 1, n), Remaining(r, line, n)))
             /\ Go("prepare")
  BY <1>1
<1>r. /\ r \in Document /\ r.batches = repo.batches /\ r.active = 0
      /\ DOMAIN r.entries = DOMAIN repo.entries
      /\ \A i \in DOMAIN repo.entries : r.entries[i] =
            IF \E j \in Rivals(repo, i) : Newer(repo.entries[j], repo.entries[i])
            THEN [repo.entries[i] EXCEPT !.state = "superseded"] ELSE repo.entries[i]
  BY <1>d, <1>a, ReconcileFacts
<1>R. Doc(r, comments, paired, main)
  BY <1>d, ReconcileDoc
<1>S. Settled(r.entries)
  BY <1>d, ReconcileSettled DEF Doc
<1>k. \A i \in DOMAIN repo.entries :
        /\ r.entries[i].key = repo.entries[i].key
           /\ r.entries[i].numbered = repo.entries[i].numbered
        /\ r.entries[i].head = repo.entries[i].head
  <2> TAKE i \in DOMAIN repo.entries
  <2>1. repo.entries[i] \in Entry /\ "superseded" \in EntryStates
    BY <1>d, DocFields DEF EntryStates
  <2> DEFINE e == repo.entries[i]
             x == [e EXCEPT !.state = "superseded"]
  <2>2. x.key = e.key /\ x.numbered = e.numbered /\ x.head = e.head
    BY <2>1, EntryState
  <2>3. r.entries[i] = e \/ r.entries[i] = x
    BY <1>r
  <2> HIDE DEF r, e, x
  <2>4. r.entries[i].key = e.key /\ r.entries[i].numbered = e.numbered /\ r.entries[i].head = e.head
    BY <2>2, <2>3
  <2> QED  BY <2>4 DEF e
<1> HIDE DEF r
<1>l. /\ line \in Seq(Keys)
      /\ \A j \in DOMAIN line : line[j] \in driver.eligible /\ IsWaiting(EntryOf(r, line[j]))
  BY <1>d, DriverFields, CandidateLine
<1>n. /\ n \in 0..Len(line)
      /\ n # 0 => n = 1 \/ \A j \in 1..n : Batchable(r, line[j])
  BY <1>l, SizeFacts
<1>m. Remaining(r, line, n) \in Seq(Seq(Keys))
  BY <1>l, <1>n, <1>r, RemainingType
<1>3. CASE n = 0 /\ Done([r EXCEPT !.split = Remaining(r, line, n)])
  <2> DEFINE sp == Remaining(r, line, n)
             q == [r EXCEPT !.split = sp]
  <2>1. /\ q \in Document /\ q.entries = r.entries /\ q.batches = r.batches /\ q.active = r.active
        /\ q.commands = r.commands
    <3> HIDE DEF sp
    <3> QED  BY <1>m, <1>r, SplitFacts DEF sp
  <2>2. Done(q)
    BY <1>3
  <2> HIDE DEF q
  <2>3. Doc(q, comments, paired, main)
    BY <2>1, <1>R, WithBatchDoc
  <2> QED  BY <2>1, <2>2, <2>3, <1>r, <1>u, DoneStep
<1>4. CASE n # 0 /\ r.split = <<>> /\ Done(r)
  BY <1>4, <1>r, <1>R, <1>u, DoneStep
<1>5. CASE /\ n # 0 /\ Len(r.batches) < MaxBatches
           /\ Save(Frozen(r, SubSeq(line, 1, n), Remaining(r, line, n)))
           /\ Go("prepare")
  <2> DEFINE group == SubSeq(line, 1, n)
             split == Remaining(r, line, n)
             q == Frozen(r, group, split)
             id == Len(r.batches) + 1
             plan2 == PlanOf(q.batches)
  <2>1. n \in 1..Len(line)
    BY <1>5, <1>n
  <2>g. /\ group \in Seq(Keys) /\ Len(group) = n /\ group # <<>> /\ DOMAIN group = 1..n
        /\ \A j \in 1..n : group[j] = line[j] /\ j \in DOMAIN line
    <3>1. DOMAIN line = 1..Len(line) /\ Len(line) \in Nat
      BY <1>l, LenProperties
    <3>2. \A j \in 1..n : j \in DOMAIN line
      BY <3>1, <2>1
    <3>3. group \in Seq(Keys) /\ Len(group) = n /\ group # <<>>
          /\ \A j \in 1..n : group[j] = line[j]
      BY <1>l, <2>1, GroupFacts
    <3> HIDE DEF group
    <3> QED  BY <3>2, <3>3, LenProperties
  <2> HIDE DEF group, split
  <2>b. driver.base \in Nat
    BY <1>d, DriverFields
  \* Every member of the group is an entry of the reconciled document.
  <2>2. \A j \in DOMAIN group : \E i \in DOMAIN r.entries :
          /\ r.entries[i].key = group[j] /\ r.entries[i].numbered /\ IsWaiting(r.entries[i])
          /\ EntryOf(r, group[j]) = r.entries[i] /\ r.entries[i] \in Entry
          /\ r.entries[i].head <= head["github"][group[j][2]]
          /\ driver.base = Last(main) => FreshIn(plan, main, group[j][2], r.entries[i].head)
    <3> SUFFICES ASSUME NEW j \in DOMAIN group
                 PROVE  \E i \in DOMAIN r.entries :
          /\ r.entries[i].key = group[j] /\ r.entries[i].numbered /\ IsWaiting(r.entries[i])
          /\ EntryOf(r, group[j]) = r.entries[i] /\ r.entries[i] \in Entry
          /\ r.entries[i].head <= head["github"][group[j][2]]
          /\ driver.base = Last(main) => FreshIn(plan, main, group[j][2], r.entries[i].head)
      OBVIOUS
    <3>1. group[j] \in driver.eligible /\ IsWaiting(EntryOf(r, group[j]))
      BY <2>g, <1>l
    <3>2. PICK i \in DOMAIN repo.entries :
            /\ repo.entries[i].key = group[j] /\ repo.entries[i].numbered
            /\ repo.entries[i].head <= head["github"][group[j][2]]
            /\ driver.base = Last(main) => FreshIn(plan, main, group[j][2], repo.entries[i].head)
      BY <3>1, <1>a DEF Candidate
    <3>3. i \in DOMAIN r.entries /\ r.entries[i].key = group[j] /\ r.entries[i].numbered
          /\ r.entries[i].head = repo.entries[i].head
      BY <3>2, <1>r, <1>k
    <3>4. EntryOf(r, group[j]) = r.entries[i]
      BY <3>3, <1>R, PositionIs DEF Doc
    <3>5. r.entries[i] \in Entry
      BY <3>3, <1>r, DocFields
    <3> HIDE DEF plan
    <3> QED  BY <3>1, <3>2, <3>3, <3>4, <3>5
  <2>3. \A j \in DOMAIN group : Chosen(r, group[j]) /\ EntryOf(r, group[j]) \in Entry
    BY <2>2 DEF Chosen
  <2>4. \A j \in DOMAIN group : EntryOf(r, group[j]).try = EntryOf(r, group[1]).try
    <3>1. CASE n = 1
      BY <3>1, <2>g
    <3>2. CASE \A j \in 1..n : Batchable(r, line[j])
      <4>1. \A j \in DOMAIN group : ~EntryOf(r, group[j]).try
        BY <3>2, <2>g DEF Batchable
      <4>2. \A j \in DOMAIN group : EntryOf(r, group[j]).try \in BOOLEAN
        BY <2>3, EntryFields
      <4>3. 1 \in DOMAIN group
        BY <2>g, <2>1
      <4> QED  BY <4>1, <4>2, <4>3
    <3> QED  BY <1>n, <1>5, <3>1, <3>2
  <2>5. FrozenAs(r, group, q)
    BY <2>3, <2>g, <2>b, <1>m, <1>r, <1>5, FrozenFacts DEF split
  <2>6. Doc(q, comments, paired, main)
    BY <2>3, <2>4, <2>g, <2>b, <1>m, <1>r, <1>R, <1>S, <1>5, FrozenDoc DEF split
  <2>7. repo' = q /\ saved' = q /\ Go("prepare")
    BY <1>5 DEF Save, group, split
  <2> HIDE DEF q
  <2>8. /\ q \in Document /\ q.active = id /\ Len(q.batches) = id
        /\ DOMAIN plan2 = 1..id /\ \A b \in 1..Len(r.batches) : plan2[b] = plan[b]
        /\ plan2[id].members = group /\ plan2[id].base = driver.base
        /\ DOMAIN plan2[id].heads = DOMAIN group
        /\ \A j \in DOMAIN group : plan2[id].heads[j] = EntryOf(r, group[j]).head
    BY <2>5, <1>r DEF FrozenAs
  <2>l. Len(r.batches) \in Nat /\ id \in Ids /\ id \in Nat /\ id # 0
  /\ DOMAIN plan = 1..Len(r.batches)
    <3>1. Len(r.batches) \in Nat /\ DOMAIN repo.batches = 1..Len(r.batches)
      BY <1>r, <1>d, DocFields
    <3>2. DOMAIN plan = DOMAIN repo.batches
      BY PlanDomain
    <3> QED  BY <3>1, <3>2, <1>5, Bounds DEF Ids
  <2>i. /\ Plans(plan, main, head) /\ Mains(plan, main, wire, moves) /\ Spent(plan, main, pr, head)
        /\ Once(plan, main) /\ Heads(head)
    BY DEF RollupIInv
  <2> HIDE DEF plan, plan2, id
  <2>9. id \notin DOMAIN plan
    BY <2>l DEF id
  <2>10. id \notin Range(main)
    BY <2>l, <2>9, <2>i DEF Mains
  <2>11. DOMAIN plan2 = DOMAIN plan \cup {id} /\ \A b \in DOMAIN plan : plan2[b] = plan[b]
    BY <2>8, <2>l DEF id
  <2>12. PlanBatch(plan2, main, head, id)
    <3>1. \A j \in DOMAIN group : /\ plan2[id].heads[j] <= head["github"][group[j][2]]
                                  /\ driver.base = Last(main)
                                     => FreshIn(plan2, main, group[j][2], plan2[id].heads[j])
      <4> SUFFICES ASSUME NEW j \in DOMAIN group
                   PROVE  /\ plan2[id].heads[j] <= head["github"][group[j][2]]
                          /\ driver.base = Last(main)
                             => FreshIn(plan2, main, group[j][2], plan2[id].heads[j])
        OBVIOUS
      <4>1. PICK i \in DOMAIN r.entries :
              /\ EntryOf(r, group[j]) = r.entries[i]
              /\ r.entries[i].head <= head["github"][group[j][2]]
              /\ driver.base = Last(main) => FreshIn(plan, main, group[j][2], r.entries[i].head)
        BY <2>2
      <4>2. plan2[id].heads[j] = r.entries[i].head
        BY <4>1, <2>8
      <4>3. driver.base = Last(main) => FreshIn(plan2, main, group[j][2], r.entries[i].head)
        BY <4>1, <2>11, <2>i, FreshSame
      <4> QED  BY <4>1, <4>2, <4>3
    <3> QED  BY <3>1, <2>8, <2>10, <2>g, <1>a DEF PlanBatch
  <2>13. Plans(plan2, main, head) /\ Mains(plan2, main, wire, moves)
         /\ Spent(plan2, main, pr, head) /\ Once(plan2, main)
    BY <2>11, <2>12, <2>i, PlanGrows
  <2>14. driver' \in Driver /\ driver'.pc = "prepare"
    BY <2>7, <1>d, GoPc DEF Places
  <2>15. Drives(q.entries, plan2, q.active, driver', main, head, ci)
    BY <2>14, <2>8, <2>l, GoFresh
  <2>16. /\ comments' = comments /\ pr' = pr /\ head' = head /\ paired' = paired
            /\ objection' = objection
         /\ moves' = moves /\ main' = main /\ wire' = wire /\ ci' = ci
    BY <1>s DEF people, candidates
  <2>17. RollupTypeOK'
    BY <2>7, <2>8, <2>14, <2>16, <1>u DEF RollupIInv, RollupTypeOK
  <2>18. id <= MaxBatches
    BY <2>l, Bounds DEF Ids
  <2> QED  BY <2>6, <2>7, <2>8, <2>13, <2>15, <2>16, <2>17, <2>18, <2>i DEF RollupIInv, plan2
<1> QED  BY <1>2, <1>3, <1>4, <1>5

-----------------------------------------------------------------------------
(* The invariant holds. *)

\* The initial state satisfies the invariant.
LEMMA InitHolds ==
    ASSUME Init
    PROVE  RollupIInv
<1> DEFINE e == [entries |-> <<>>, batches |-> <<>>, active |-> 0, split |-> <<>>, commands |-> {}]
<1>1. comments = <<>> /\ repo = e /\ saved = e /\ driver = Idle /\ main = <<0>>
  BY DEF Init
<1>2. e \in Document
  BY Bounds DEF Document
<1>3. RollupTypeOK
  <2>1. paired \subseteq PRs
    BY RollupAssumption DEF Init
  <2>2. head \in [Sides -> [PRs -> 1..MaxHead]]
    BY Bounds DEF Init
  <2>3. main \in Seq(Nat) /\ comments \in Seq(Commands)
    BY <1>1
  <2>4. /\ pr \in [PRs -> {"open", "closed", "merged"}] /\ objection \in [PRs -> Nat]
        /\ branch \in [Ids -> {"absent", "tip", "other"}]
        /\ auditPR \in [Ids -> {"none", "open", "closed"}]
        /\ ci \in [Sides -> [Ids -> {"none", "pending", "green", "failed"}]]
        /\ wire \in [Ids -> {"none", "sent", "accepted", "refused"}]
        /\ moves \in 0..MaxMoves /\ faults \in 0..MaxFaults
    BY Bounds DEF Init
  <2> HIDE DEF e
  <2> QED  BY <1>1, <1>2, <2>1, <2>2, <2>3, <2>4, IdlePc DEF RollupTypeOK
<1>4. DOMAIN PlanOf(e.batches) = {} /\ Len(e.batches) = 0 /\ DOMAIN e.entries = {}
      /\ e.commands = {} /\ e.active = 0
  BY PlanDomain
<1> HIDE DEF e
<1>5. Doc(e, comments, paired, main)
  BY <1>4 DEF Doc, Distinct, Known, Numbers, Replaced, Grants, Carried, Heeded, Strays, Tests,
     Ended, Placed
<1>6. Range(main) = {0} /\ main # <<>> /\ 0 \notin Ids
  <2>1. DOMAIN main = {1} /\ main[1] = 0
    BY <1>1
  <2> QED  BY <2>1, <1>1, Bounds DEF Range, Ids
<1>7. Plans(PlanOf(e.batches), main, head)
  BY <1>4 DEF Plans
<1>8. Mains(PlanOf(e.batches), main, wire, moves)
  <2>1. \A b \in Ids : wire[b] = "none"
    BY DEF Init
  <2>2. 0 <= MaxBatches + moves
    BY Bounds DEF Init
  <2> QED  BY <2>1, <2>2, <1>6 DEF Mains
<1>9. Spent(PlanOf(e.batches), main, pr, head) /\ Once(PlanOf(e.batches), main)
  BY <1>6 DEF Spent, Once
<1>10. Heads(head)
  <2>1. \A s \in Sides, p \in PRs : head[s][p] = 1
    BY DEF Init
  <2> QED  BY <2>1, Bounds DEF Heads
<1>11. Drives(repo.entries, PlanOf(repo.batches), repo.active, driver, main, head, ci)
  BY <1>1, IdleDrives
<1> QED  BY <1>1, <1>3, <1>4, <1>5, <1>7, <1>8, <1>9, <1>10, <1>11, Bounds DEF RollupIInv

\* Every step keeps the invariant.
LEMMA NextKeeps ==
    ASSUME RollupIInv, [Next]_vars
    PROVE  RollupIInv'
<1>1. CASE \E cmd \in Commands : Handle(cmd)
  BY <1>1, HandleStep
<1>2. CASE \E c \in DOMAIN comments : HandleAgain(c)
  BY <1>2, HandleAgainStep
<1>3. CASE \E p \in PRs : Push(p) \/ ClosePR(p) \/ RequestChanges(p) \/ Mirror(p) \/ Pair(p)
  BY <1>3, PushStep, CloseStep, ObjectStep, MirrorStep, PairStep
<1>4. CASE PushMain
  BY <1>4, PushMainStep
<1>5. CASE \E b \in Ids : CloseAudit(b) \/ RewriteBranch(b) \/ Land(b)
  BY <1>5, CloseAuditStep, RewriteStep, Refused, Accepted
<1>6. CASE Cleanup \/ Abandon \/ Crash
  BY <1>6, CleanupStep, AbandonStep, CrashStep
<1>7. CASE Drive
  BY <1>7, SurveyStep, CheckMemberStep, InspectStep, CreateAuditStep, ReadGitHubStep, FallbackStep,
     ReadForgejoStep, RecheckStep, AdvanceStep, AnsweredStep, AdmitStep, SelectStep, PrepareStep,
     PublishStep
     DEF Drive
<1>8. CASE UNCHANGED vars
  BY <1>8 DEF vars, people, candidates, RollupIInv, RollupTypeOK
<1> QED  BY <1>1, <1>2, <1>3, <1>4, <1>5, <1>6, <1>7, <1>8 DEF Next

\* RollupIInv is an invariant.
LEMMA RollupInvariant == Spec => []RollupIInv
<1>1. Init => RollupIInv
  BY InitHolds
<1>2. RollupIInv /\ [Next]_vars => RollupIInv'
  BY NextKeeps
<1> QED  BY <1>1, <1>2, PTL DEF Spec

-----------------------------------------------------------------------------
(* The properties. *)

\* The entries under test are those of the active batch.
LEMMA NotStranded ==
    ASSUME RollupIInv
    PROVE  RollupInv
<1>1. repo \in Document /\ Doc(repo, comments, paired, main) /\ RollupTypeOK
  BY DEF RollupIInv, RollupTypeOK
<1> DEFINE plan == PlanOf(repo.batches)
<1> SUFFICES ASSUME NEW i \in DOMAIN repo.entries, repo.entries[i].state = "testing"
             PROVE  /\ repo.active # 0 /\ repo.entries[i].batch = repo.active
                    /\ \E j \in DOMAIN Active(repo).members :
                          /\ Active(repo).members[j] = repo.entries[i].key
                          /\ Active(repo).heads[j] = repo.entries[i].head
  BY <1>1 DEF RollupInv, NoStrandedEntry
<1>2. /\ repo.active # 0 /\ repo.entries[i].batch = repo.active
      /\ MemberOf(plan[repo.active], repo.entries[i])
  BY <1>1 DEF Doc, Tests, TestOf
<1>3. repo.active \in DOMAIN repo.batches
  BY <1>1, <1>2, PlanDomain DEF Doc, Placed
<1>4. plan[repo.active].members = Active(repo).members
      /\ plan[repo.active].heads = Active(repo).heads
  BY <1>3, PlanFields DEF Active
<1> QED  BY <1>2, <1>4 DEF MemberOf

\* The stored queue has its types, and between drives every entry under test belongs to
\* the active batch at the head it was built from (finish, select_group, apply), whatever
\* is crashed, cut, lost or repeated.
THEOREM QueueCorrect == Spec => []RollupInv
<1>1. RollupIInv => RollupInv
  BY NotStranded
<1> QED  BY <1>1, RollupInvariant, PTL

\* The invariant implies LandsOnce.
LEMMA LandedOnce ==
    ASSUME RollupIInv
    PROVE  LandsOnce
<1> DEFINE plan == PlanOf(repo.batches)
<1>1. Mains(plan, main, wire, moves) /\ Once(plan, main) /\ Ended(repo.entries, main)
  BY DEF RollupIInv, Doc
<1>2. \A b \in Range(main) \cap Ids :
        /\ b \in DOMAIN repo.batches
        /\ plan[b].members = repo.batches[b].members /\ plan[b].heads = repo.batches[b].heads
  <2> SUFFICES ASSUME NEW b \in Range(main) \cap Ids
               PROVE  /\ b \in DOMAIN repo.batches
                      /\ plan[b].members = repo.batches[b].members
                         /\ plan[b].heads = repo.batches[b].heads
    OBVIOUS
  <2>1. b \in DOMAIN repo.batches
    BY <1>1, PlanDomain DEF Mains
  <2> QED  BY <2>1, PlanFields
<1>3. ASSUME NEW b \in Range(main) \cap Ids, NEW c \in Range(main) \cap Ids, b # c,
             NEW j \in DOMAIN repo.batches[b].members, NEW k \in DOMAIN repo.batches[c].members,
             repo.batches[b].members[j][2] = repo.batches[c].members[k][2]
      PROVE  repo.batches[b].heads[j] # repo.batches[c].heads[k]
  <2>1. Apart(plan, b, c)
    BY <1>1, <1>3 DEF Once
  <2> HIDE DEF plan
  <2> QED  BY <2>1, <1>2, <1>3 DEF Apart
<1>4. \A i \in DOMAIN repo.entries : repo.entries[i].state = "merged"
      => repo.entries[i].batch \in Range(main)
  BY <1>1 DEF Ended
<1> QED  BY <1>3, <1>4 DEF LandsOnce

\* No revision of a pull request lands twice, and what the queue calls merged is in main
\* (drive): the request is accepted only for a candidate on main as it is, none of whose
\* revisions has landed, and a revision that lands is closed or outdated.
THEOREM NothingLandsTwice == Spec => []LandsOnce
<1>1. RollupIInv => LandsOnce
  BY LandedOnce
<1> QED  BY <1>1, RollupInvariant, PTL

\* Only Advance asks for a fast-forward.
LEMMA WireMoves ==
    ASSUME [Next]_vars
    PROVE  wire' = wire \/ Advance \/ \E b \in Ids : Land(b)
<1>1. CASE \E cmd \in Commands : Handle(cmd)
  BY <1>1 DEF Handle
<1>2. CASE \E c \in DOMAIN comments : HandleAgain(c)
  BY <1>2 DEF HandleAgain
<1>3. CASE \E p \in PRs : Push(p) \/ ClosePR(p) \/ RequestChanges(p) \/ Mirror(p) \/ Pair(p)
  BY <1>3 DEF Push, ClosePR, RequestChanges, Mirror, Pair, World
<1>4. CASE PushMain
  BY <1>4 DEF PushMain, World
<1>5. CASE \E b \in Ids : CloseAudit(b) \/ RewriteBranch(b)
  BY <1>5 DEF CloseAudit, RewriteBranch, World
<1>6. CASE Cleanup \/ Abandon \/ Crash
  BY <1>6 DEF Cleanup, Abandon, Crash
<1>7. CASE Drive
  <2>1. CASE Survey \/ CheckMember \/ Inspect \/ CreateAudit
    BY <2>1 DEF Survey, CheckMember, Inspect, CreateAudit, Idling
  <2>2. CASE ReadGitHub \/ Fallback \/ ReadForgejo \/ RecheckMember
    BY <2>2 DEF ReadGitHub, Fallback, ReadForgejo, RecheckMember, Idling, Reports, Calm
  <2>3. CASE Answered \/ Admit \/ Select \/ Prepare \/ Publish
    BY <2>3 DEF Answered, Admit, Select, Prepare, Publish, Idling
  <2> QED  BY <1>7, <2>1, <2>2, <2>3 DEF Drive
<1>8. CASE UNCHANGED vars
  BY <1>8 DEF vars
<1> QED  BY <1>1, <1>2, <1>3, <1>4, <1>5, <1>6, <1>7, <1>8 DEF Next

\* What AdvancesApproved says of batch b.
Approved(b) ==
         LET t == repo.batches[b] IN
         /\ \E s \in Sides : ci[s][b] = "green"
         /\ t.base = Last(main) /\ ~t.try
         /\ \A j \in DOMAIN t.members :
               LET i == Position(repo, t.members[j]) e == repo.entries[i] IN
               /\ e.state = "testing" /\ e.batch = b /\ e.head = t.heads[j]
               /\ comments[e.granted].kind \in {"approve", "approveRollup"}
               /\ Twins(i) = {} => ~Withdrawn(e.key[2], e.granted)
               /\ Astray(i) \/ ~Withdrawn(e.key[2], e.decision)

\* What the queue knows of an entry under test.
LEMMA UnderTest ==
    ASSUME RollupIInv, NEW i \in DOMAIN repo.entries, repo.entries[i].state = "testing",
           ~PlanOf(repo.batches)[repo.active].try
    PROVE  LET e == repo.entries[i] IN
           /\ comments[e.granted].kind \in {"approve", "approveRollup"}
           /\ Twins(i) = {} => ~Withdrawn(e.key[2], e.granted)
           /\ Astray(i) \/ ~Withdrawn(e.key[2], e.decision)
<1> DEFINE e == repo.entries[i]
<1>1. repo \in Document /\ comments \in Seq(Commands) /\ Doc(repo, comments, paired, main)
  BY DEF RollupIInv, RollupTypeOK
<1>h. /\ Known(repo, comments) /\ Grants(repo.entries, comments) /\ Carried(repo, comments)
      /\ Heeded(repo, comments) /\ Strays(repo.entries)
      /\ Tests(repo.entries, PlanOf(repo.batches), repo.active)
  BY <1>1 DEF Doc
<1>t. /\ TimeOf(e.decision) \in Nat /\ TimeOf(e.granted) \in Nat
      /\ \A c \in repo.commands : TimeOf(c) \in Nat
      /\ \A j \in DOMAIN repo.entries : TimeOf(repo.entries[j].decision) \in Nat
  BY <1>1, <1>h, DecisionTimes
<1>2. comments[e.granted].kind \in {"approve", "approveRollup"}
  <2>1. ~e.try
    BY <1>h DEF Tests, TestOf
  <2>2. comments[e.granted].kind \in Approvals /\ comments[e.granted].kind # "try"
    BY <2>1, <1>h DEF Grants, GrantOf
  <2> QED  BY <2>2 DEF Approvals
<1>3. ASSUME Twins(i) = {}, Withdrawn(e.key[2], e.granted)
      PROVE  FALSE
  <2>1. Alone(repo.entries, i)
    BY <1>3 DEF Twins, Alone
  <2>2. PICK c \in repo.commands : /\ comments[c].pr = e.key[2] /\ comments[c].kind = "reject"
                                   /\ TimeOf(c) > TimeOf(e.granted)
    BY <1>3 DEF Withdrawn
  <2>3. TimeOf(c) <= TimeOf(e.granted)
    BY <2>1, <2>2, <1>h DEF Heeded, TimeOf
  <2> QED  BY <2>2, <2>3, <1>t
<1>4. ASSUME ~Astray(i), Withdrawn(e.key[2], e.decision)
      PROVE  FALSE
  <2>1. PICK c \in repo.commands : /\ comments[c].pr = e.key[2] /\ comments[c].kind = "reject"
                                   /\ TimeOf(c) > TimeOf(e.decision)
    BY <1>4 DEF Withdrawn
  <2>2. PICK k \in DOMAIN repo.entries :
           /\ repo.entries[k].key[2] = comments[c].pr /\ repo.entries[k].state # "superseded"
           /\ comments[c].time <= comments[repo.entries[k].decision].time
    BY <1>h DEF Carried
  <2>3. TimeOf(c) <= TimeOf(repo.entries[k].decision)
    BY <2>2 DEF TimeOf
  <2>4. k # i
    BY <2>1, <2>3, <1>t
  <2>5. k \in Twins(i)
    BY <2>1, <2>2, <2>4 DEF Twins
  <2>6. ~repo.entries[k].numbered \/ k < i
    BY <2>1, <2>2, <2>4, <1>h DEF Strays
  <2> QED  BY <2>2, <2>5, <2>6, <1>4 DEF Astray
<1> QED  BY <1>2, <1>3, <1>4

\* Advance asks only for what is approved.
LEMMA RequestApproved ==
    ASSUME RollupIInv, [Next]_vars, NEW b \in Ids, wire[b] # "sent", wire'[b] = "sent"
    PROVE  Approved(b)
<1>y. /\ wire \in [Ids -> {"none", "sent", "accepted", "refused"}] /\ repo \in Document
      /\ Drives(repo.entries, PlanOf(repo.batches), repo.active, driver, main, head, ci)
      /\ Distinct(repo.entries)
  BY DEF RollupIInv, RollupTypeOK, Doc
<1>1. Advance
  <2>1. ASSUME NEW c \in Ids, Land(c) PROVE FALSE
    <3>1. wire' = [wire EXCEPT ![c] = IF Last(main) = repo.batches[c].base THEN "accepted" ELSE "refused"]
      BY <2>1 DEF Land
    <3> QED  BY <3>1, <1>y
  <2> QED  BY <2>1, WireMoves
<1>2. driver.pc = "confirm"
  BY <1>1 DEF Advance, At
<1>w. /\ repo.active \in DOMAIN repo.batches /\ repo.active \in Ids
      /\ LET t == PlanOf(repo.batches)[repo.active] IN
         /\ t.members = Active(repo).members /\ t.heads = Active(repo).heads
         /\ t.base = Active(repo).base /\ t.try = Active(repo).try
  BY <1>2, Working
<1>3. b = repo.active /\ Last(main) = Active(repo).base
  <2>1. \/ Last(main) # Active(repo).base /\ UNCHANGED wire
        \/ Last(main) = Active(repo).base /\ wire' = [wire EXCEPT ![repo.active] = "sent"]
    BY <1>1 DEF Advance
  <2> QED  BY <2>1, <1>y, <1>w
<1>4. /\ ~PlanOf(repo.batches)[b].try /\ \E s \in Sides : ci[s][b] = "green"
      /\ \A j \in DOMAIN PlanOf(repo.batches)[b].members :
            CheckedOf(repo.entries, PlanOf(repo.batches), b, j)
  BY <1>2, <1>3, <1>y DEF Drives, Examined
<1> DEFINE t == repo.batches[b]
<1>5. t = Active(repo)
  BY <1>3 DEF Active
<1>6. ASSUME NEW j \in DOMAIN t.members
      PROVE  LET i == Position(repo, t.members[j]) e == repo.entries[i] IN
               /\ e.state = "testing" /\ e.batch = b /\ e.head = t.heads[j]
               /\ comments[e.granted].kind \in {"approve", "approveRollup"}
               /\ Twins(i) = {} => ~Withdrawn(e.key[2], e.granted)
               /\ Astray(i) \/ ~Withdrawn(e.key[2], e.decision)
  <2>1. PICK i \in DOMAIN repo.entries :
          /\ repo.entries[i].key = t.members[j] /\ repo.entries[i].state = "testing"
          /\ repo.entries[i].batch = b /\ repo.entries[i].head = t.heads[j]
    BY <1>3, <1>4, <1>5, <1>w DEF CheckedOf
  <2>2. Position(repo, t.members[j]) = i
    BY <2>1, <1>y, PositionIs
  <2>3. /\ comments[repo.entries[i].granted].kind \in {"approve", "approveRollup"}
        /\ Twins(i) = {} => ~Withdrawn(repo.entries[i].key[2], repo.entries[i].granted)
        /\ Astray(i) \/ ~Withdrawn(repo.entries[i].key[2], repo.entries[i].decision)
    BY <2>1, <1>3, <1>4, UnderTest
  <2> HIDE DEF t
  <2> QED  BY <2>1, <2>2, <2>3
<1>7. t.base = Last(main) /\ ~t.try
  BY <1>3, <1>4, <1>5, <1>w
<1> QED  BY <1>4, <1>6, <1>7 DEF Approved

\* The fast-forward is requested only for a candidate one provider has passed, on main as
\* it is, whose members still carry the approval of the head built in, with no newer
\* withdrawal (drive, reconcile_duplicates).
THEOREM OnlyApprovedLands == Spec => AdvancesApproved
<1>1. RollupIInv /\ [Next]_vars =>
        [\A b \in Ids : wire[b] # "sent" /\ wire'[b] = "sent" => Approved(b)]_vars
  BY RequestApproved
<1>2. Spec => [][\A b \in Ids : wire[b] # "sent" /\ wire'[b] = "sent" => Approved(b)]_vars
  BY <1>1, RollupInvariant, PTL DEF Spec
<1> QED  BY <1>2 DEF AdvancesApproved, Approved

=============================================================================
