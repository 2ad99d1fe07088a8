-------------------------- MODULE MergeQueueProofs --------------------------
(***************************************************************************)
(* Theorems about the merge queue for every number of pull requests,       *)
(* heads, pushes and disturbances: main only ever moves to a combination   *)
(* CI reported green; as long as nothing was disturbed, an advance lands   *)
(* the very heads its markers record and only pull requests that have      *)
(* landed are announced.                                                   *)
(*                                                                         *)
(* QueueIInv has two halves.  GreenIInv holds whatever goes wrong: the     *)
(* branch the driver looks at is the one whose verdict it reads, or gone   *)
(* (Verdict), and a green tip has passed (Tips).  Undisturbed holds while  *)
(* no fault has happened: every history is made of main and marked merges  *)
(* of heads that were pushed (Histories), the chain in hand is that of     *)
(* staging and its checked entries were merged at the head they record     *)
(* (Charted), and every open pull request under test rides on staging or   *)
(* is about to (Placed).  Placed is needed because labels decide who is in *)
(* the batch and commits what is in it.                                    *)
(***************************************************************************)
EXTENDS MergeQueue, SequenceTheorems, FiniteSetTheorems, WellFoundedInduction, TLAPS

-----------------------------------------------------------------------------
(* Sorted orders exist. *)

\* A set of numbers has a least element.
LEMMA LeastElement ==
    \A S \in SUBSET Nat : S # {} => \E x \in S : \A y \in S : x <= y
  <1> SUFFICES ASSUME NEW S \in SUBSET Nat, S # {}
               PROVE  \E x \in S : \A y \in S : x <= y
    OBVIOUS
  <1>1. PICK x \in S : \A y \in S : <<y, x>> \notin OpToRel(<, Nat)
    BY NatLessThanWellFounded, WFMin
  <1>2. \A y \in S : ~(y < x)
    BY <1>1 DEF OpToRel
  <1> QED
    BY <1>2

\* A bounded set of numbers has a greatest element.
LEMMA GreatestElement ==
    \A n \in Nat : \A S \in SUBSET (1..n) : S # {} => \E x \in S : \A y \in S : x >= y
  <1> SUFFICES ASSUME NEW n \in Nat, NEW S \in SUBSET (1..n), S # {}
               PROVE  \E x \in S : \A y \in S : x >= y
    OBVIOUS
  <1> DEFINE T == {n - x : x \in S}
  <1>1. T \in SUBSET Nat /\ T # {}
    <2>1. \A x \in S : n - x \in Nat
      OBVIOUS
    <2>2. PICK x \in S : TRUE
      OBVIOUS
    <2>3. n - x \in T
      BY <2>2
    <2> QED
      BY <2>1, <2>3
  <1>2. PICK t \in T : \A y \in T : t <= y
    BY <1>1, LeastElement
  <1>3. PICK x \in S : t = n - x
    BY <1>2
  <1>4. \A y \in S : n - x <= n - y
    BY <1>2, <1>3
  <1>5. \A y \in S : x >= y
    BY <1>4
  <1> QED
    BY <1>5

\* An ascending sequence.
Ups(s) == \A j, k \in DOMAIN s : j < k => s[j] < s[k]

\* A finite set of numbers can be listed in ascending order.
LEMMA AscendingExists ==
    \A n \in Nat : \A ps \in SUBSET Nat : IsFiniteSet(ps) /\ Cardinality(ps) = n
        => \E s \in [1..n -> ps] : Ups(s)
  <1> DEFINE Bad == {n \in Nat : \E ps \in SUBSET Nat : /\ IsFiniteSet(ps) /\ Cardinality(ps) = n
                                    /\ ~\E s \in [1..n -> ps] : Ups(s)}
  <1> SUFFICES ASSUME Bad # {} PROVE FALSE
    OBVIOUS
  <1>1. PICK n \in Bad : \A m \in Bad : n <= m
    BY LeastElement
  <1>2. PICK ps \in SUBSET Nat : /\ IsFiniteSet(ps) /\ Cardinality(ps) = n
                                 /\ ~\E s \in [1..n -> ps] : Ups(s)
    BY <1>1
  <1>3. CASE n = 0
    <2>1. <<>> \in [1..n -> ps] /\ Ups(<<>>)
      BY <1>3 DEF Ups
    <2> QED
      BY <2>1, <1>2
  <1>4. CASE n # 0
    <2>1. ps # {}
      BY <1>2, <1>4, FS_EmptySet
    <2>2. PICK m \in ps : \A y \in ps : m <= y
      BY <2>1, LeastElement
    <2> DEFINE qs == ps \ {m}
    <2>3. IsFiniteSet(qs) /\ Cardinality(qs) = n - 1
      BY <1>2, FS_RemoveElement
    <2>4. n - 1 \in Nat /\ n - 1 \notin Bad
      BY <1>1, <1>4
    <2>5. PICK s \in [1..(n - 1) -> qs] : Ups(s)
      BY <2>3, <2>4
    <2> DEFINE t == [j \in 1..n |-> IF j = 1 THEN m ELSE s[j - 1]]
    <2>6. t \in [1..n -> ps]
      BY <2>2, <2>5, <1>1
    <2>7. Ups(t)
      <3> SUFFICES ASSUME NEW j \in 1..n, NEW k \in 1..n, j < k
                   PROVE  t[j] < t[k]
        BY DEF Ups
      <3>1. k - 1 \in 1..(n - 1) /\ t[k] = s[k - 1] /\ s[k - 1] \in qs
        BY <1>1, <2>5
      <3>2. CASE j = 1
        <4>1. t[j] = m /\ m \in Nat /\ t[k] \in Nat /\ t[k] # m /\ m <= t[k]
          BY <3>1, <3>2, <2>2, <1>2
        <4> QED
          BY <4>1
      <3>3. CASE j # 1
        <4>1. j - 1 \in 1..(n - 1) /\ t[j] = s[j - 1] /\ j - 1 < k - 1
          BY <3>3, <1>1
        <4> QED
          BY <4>1, <3>1, <2>5 DEF Ups
      <3> QED
        BY <3>2, <3>3
    <2> QED
      BY <2>6, <2>7, <1>2
  <1> QED
    BY <1>3, <1>4

\* What Ascending lists are members of its set.
LEMMA AscendingType ==
    \A ps \in SUBSET PRs : Ascending(ps) \in Seq(ps)
  <1> SUFFICES ASSUME NEW ps \in SUBSET PRs
               PROVE  Ascending(ps) \in Seq(ps)
    OBVIOUS
  <1>1. ps \in SUBSET Nat /\ IsFiniteSet(ps) /\ Cardinality(ps) \in Nat
    BY QueueAssumption, FS_Subset, FS_CardinalityType
  <1>2. PICK s \in Orders(ps) : Ups(s)
    BY <1>1, AscendingExists DEF Orders
  <1>3. Ascending(ps) \in Orders(ps)
    BY <1>2 DEF Ascending, Ups
  <1> QED
    BY <1>3, <1>1 DEF Orders

\* What Descending lists are members of its set.
LEMMA DescendingType ==
    \A ps \in SUBSET PRs : Descending(ps) \in Seq(ps)
  <1> SUFFICES ASSUME NEW ps \in SUBSET PRs
               PROVE  Descending(ps) \in Seq(ps)
    OBVIOUS
  <1>1. ps \in SUBSET Nat /\ IsFiniteSet(ps) /\ Cardinality(ps) \in Nat
    BY QueueAssumption, FS_Subset, FS_CardinalityType
  <1> DEFINE n == Cardinality(ps)
  <1>2. PICK s \in [1..n -> ps] : Ups(s)
    BY <1>1, AscendingExists
  <1> DEFINE t == [j \in 1..n |-> s[n + 1 - j]]
  <1>3. t \in Orders(ps)
    BY <1>1, <1>2 DEF Orders
  <1>4. \A j, k \in DOMAIN t : j < k => t[j] > t[k]
    <2> SUFFICES ASSUME NEW j \in 1..n, NEW k \in 1..n, j < k
                 PROVE  t[j] > t[k]
      OBVIOUS
    <2>1. n + 1 - j \in 1..n /\ n + 1 - k \in 1..n /\ n + 1 - k < n + 1 - j
      BY <1>1
    <2>2. s[n + 1 - k] < s[n + 1 - j]
      BY <2>1, <1>2 DEF Ups
    <2>3. t[j] = s[n + 1 - j] /\ t[k] = s[n + 1 - k] /\ t[j] \in Nat /\ t[k] \in Nat
      BY <1>1, <1>2, <2>1
    <2> QED
      BY <2>2, <2>3
  <1>5. Descending(ps) \in Orders(ps)
    BY <1>3, <1>4 DEF Descending
  <1> QED
    BY <1>5, <1>1 DEF Orders

-----------------------------------------------------------------------------
(* Histories. *)

\* The last commit of a history that is not a marked merge.
Base(h) == SelectLastInSeq(h, LAMBDA c : ~c.marked)
\* A marked commit records a head that was pushed and adds that one or a later one.
Sound(c, heads) == /\ c.pr \in PRs
                   /\ c.was \in 1..heads[c.pr]
                   /\ \E v \in c.was..heads[c.pr] : c.adds = {<<c.pr, v>>}
\* A history is made of what has landed and, on top of it, sound merges.
Based(h, heads, landed) == \A j \in DOMAIN h :
    IF h[j].marked THEN Sound(h[j], heads)
    ELSE \A k \in 1..j : h[k].adds \subseteq landed
\* A pull request is among the marked commits at the end of a history.
Rides(h, p) == \E k \in DOMAIN h : h[k].pr = p /\ \A j \in k..Len(h) : h[j].marked
\* An entry of the chain was merged at the head its marker records.
Exact(e) == Last(e.at).adds = {<<e.pr, e.was>>}
\* The head versions.
Heads == [PRs -> 1..MaxHead]

\* What a history contains some commit of it adds.
LEMMA ContentsIn == \A h, x : x \in Contents(h) <=> \E j \in DOMAIN h : x \in h[j].adds
  BY DEF Contents

\* A commit on top adds what it adds.
LEMMA ContentsAppend == \A h \in History, c \in Commit :
    Append(h, c) \in History /\ Contents(Append(h, c)) = Contents(h) \cup c.adds
  <1> SUFFICES ASSUME NEW h \in History, NEW c \in Commit
               PROVE  Append(h, c) \in History /\ Contents(Append(h, c)) = Contents(h) \cup c.adds
    OBVIOUS
  <1>1. Append(h, c) \in History /\ DOMAIN h = 1..Len(h) /\ DOMAIN Append(h, c) = 1..(Len(h) + 1)
        /\ Len(h) \in Nat
    BY DEF History
  <1>2. \A j \in 1..Len(h) : Append(h, c)[j] = h[j]
    BY DEF History
  <1>3. Append(h, c)[Len(h) + 1] = c
    BY DEF History
  <1>4. \A x : x \in Contents(Append(h, c)) <=> x \in Contents(h) \/ x \in c.adds
    <2> TAKE x
    <2>1. x \in Contents(Append(h, c)) <=> \E j \in 1..(Len(h) + 1) : x \in Append(h, c)[j].adds
      BY <1>1, ContentsIn
    <2>2. x \in Contents(h) <=> \E j \in 1..Len(h) : x \in h[j].adds
      BY <1>1, ContentsIn
    <2>3. \A j : j \in 1..(Len(h) + 1) <=> j \in 1..Len(h) \/ j = Len(h) + 1
      BY <1>1
    <2> QED
      BY <2>1, <2>2, <2>3, <1>2, <1>3
  <1> QED
    BY <1>1, <1>4

\* A history contains what its prefixes contain.
LEMMA ContentsPrefix == \A h, g \in History : IsPrefix(h, g) => Contents(h) \subseteq Contents(g)
  <1> SUFFICES ASSUME NEW h \in History, NEW g \in History, IsPrefix(h, g), NEW x \in Contents(h)
               PROVE  x \in Contents(g)
    OBVIOUS
  <1>1. PICK j \in DOMAIN h : x \in h[j].adds
    BY ContentsIn
  <1>2. j \in DOMAIN g /\ g[j] = h[j]
    <2>1. Len(h) \in Nat /\ Len(g) \in Nat /\ Len(h) <= Len(g) /\ j \in 1..Len(h)
      BY DEF IsPrefix, History
    <2>2. SubSeq(h, 1, Len(h))[j] = h[j] /\ SubSeq(g, 1, Len(h))[j] = g[j]
      BY <2>1 DEF History
    <2> QED
      BY <2>1, <2>2 DEF IsPrefix, History
  <1> QED
    BY <1>1, <1>2, ContentsIn

\* The first commits of a history.
LEMMA PrefixOf == \A h \in History, n \in Nat : n <= Len(h) =>
    /\ SubSeq(h, 1, n) \in History /\ Len(SubSeq(h, 1, n)) = n
    /\ DOMAIN SubSeq(h, 1, n) = 1..n
    /\ \A j \in 1..n : SubSeq(h, 1, n)[j] = h[j]
  BY DEF History

\* Above the base every commit is marked.
LEMMA BaseFacts == \A h \in History :
    /\ Base(h) \in 0..Len(h)
    /\ Base(h) > 0 => ~h[Base(h)].marked
    /\ \A j \in Base(h) + 1..Len(h) : h[j].marked
  <1> SUFFICES ASSUME NEW h \in History
               PROVE  /\ Base(h) \in 0..Len(h)
                      /\ Base(h) > 0 => ~h[Base(h)].marked
                      /\ \A j \in Base(h) + 1..Len(h) : h[j].marked
    OBVIOUS
  <1> DEFINE I == {i \in 1..Len(h) : ~h[i].marked}
  <1>1. Base(h) = IF I # {} THEN Max(I) ELSE 0
    BY DEF Base, SelectLastInSeq
  <1>2. Len(h) \in Nat
    BY DEF History
  <1>3. CASE I = {}
    BY <1>1, <1>2, <1>3
  <1>4. CASE I # {}
    <2>1. \E x \in I : \A y \in I : x >= y
      BY <1>2, <1>4, GreatestElement
    <2>2. Max(I) \in I /\ \A y \in I : Max(I) >= y
      BY <2>1 DEF Max
    <2> HIDE DEF I
    <2>3. Base(h) \in I /\ \A y \in I : Base(h) >= y
      BY <2>2, <1>1, <1>4
    <2> QED
      BY <2>3, <1>2 DEF I
  <1> QED
    BY <1>3, <1>4

\* parse_chain has an entry for every commit above the base.
LEMMA ParseFacts == \A h \in History :
    /\ Base(h) \in 0..Len(h)
    /\ Len(ParseChain(h)) = Len(h) - Base(h)
    /\ DOMAIN ParseChain(h) = 1..(Len(h) - Base(h))
    /\ \A j \in 1..(Len(h) - Base(h)) :
          ParseChain(h)[j] = [pr |-> h[Base(h) + j].pr, was |-> h[Base(h) + j].was,
                              at |-> SubSeq(h, 1, Base(h) + j)]
    /\ ParseChain(h) \in Seq(Entry)
  <1> SUFFICES ASSUME NEW h \in History
               PROVE  /\ Base(h) \in 0..Len(h)
                      /\ Len(ParseChain(h)) = Len(h) - Base(h)
                      /\ DOMAIN ParseChain(h) = 1..(Len(h) - Base(h))
                      /\ \A j \in 1..(Len(h) - Base(h)) :
                            ParseChain(h)[j] =
                                [pr |-> h[Base(h) + j].pr, was |-> h[Base(h) + j].was,
                                 at |-> SubSeq(h, 1, Base(h) + j)]
                      /\ ParseChain(h) \in Seq(Entry)
    OBVIOUS
  <1> DEFINE n == Len(h) - Base(h)
  <1>1. Base(h) \in 0..Len(h) /\ n \in Nat /\ Len(h) \in Nat /\ Base(h) \in Nat
    BY BaseFacts DEF History
  <1>2. ParseChain(h) = [j \in 1..n |-> [pr |-> h[Base(h) + j].pr, was |-> h[Base(h) + j].was,
                                         at |-> SubSeq(h, 1, Base(h) + j)]]
    BY DEF ParseChain, Base
  <1>3. \A j \in 1..n : ParseChain(h)[j] \in Entry
    <2> SUFFICES ASSUME NEW j \in 1..n
                 PROVE  ParseChain(h)[j] \in Entry
      OBVIOUS
    <2>1. Base(h) + j \in Base(h) + 1..Len(h) /\ Base(h) + j \in 1..Len(h) /\ Base(h) + j \in Nat
          /\ Base(h) + j <= Len(h)
      BY <1>1
    <2>2. h[Base(h) + j] \in Commit /\ h[Base(h) + j].marked
      BY <2>1, BaseFacts DEF History
    <2>3. h[Base(h) + j].pr \in PRs /\ h[Base(h) + j].was \in 0..MaxHead
      BY <2>2 DEF Commit
    <2>4. SubSeq(h, 1, Base(h) + j) \in History
      BY <2>1, PrefixOf
    <2> QED
      BY <1>2, <2>3, <2>4 DEF Entry
  <1> QED
    BY <1>1, <1>2, <1>3

\* The members of the chain are the pull requests that ride.
LEMMA MembersRide == \A h \in History, p \in PRs :
    p \in Members(ParseChain(h)) <=> Rides(h, p)
  <1> SUFFICES ASSUME NEW h \in History, NEW p \in PRs
               PROVE  p \in Members(ParseChain(h)) <=> Rides(h, p)
    OBVIOUS
  <1> DEFINE b == Base(h)
  <1>1. b \in 0..Len(h) /\ b \in Nat /\ Len(h) \in Nat /\ DOMAIN h = 1..Len(h)
    BY BaseFacts DEF History
  <1>2. (b > 0 => ~h[b].marked) /\ \A j \in b + 1..Len(h) : h[j].marked
    BY BaseFacts
  <1>3. p \in Members(ParseChain(h)) <=> \E j \in 1..(Len(h) - b) : h[b + j].pr = p
    <2> DEFINE chain == ParseChain(h)
    <2>1. DOMAIN chain = 1..(Len(h) - b) /\ \A j \in 1..(Len(h) - b) : chain[j].pr = h[b + j].pr
      <3>1. DOMAIN chain = 1..(Len(h) - b)
        BY ParseFacts
      <3>2. \A j \in 1..(Len(h) - b) :
              chain[j] = [pr |-> h[b + j].pr, was |-> h[b + j].was, at |-> SubSeq(h, 1, b + j)]
        BY ParseFacts
      <3> HIDE DEF chain, b
      <3> QED
        BY <3>1, <3>2
    <2> HIDE DEF chain, b
    <2>2. p \in Members(chain) <=> \E j \in 1..(Len(h) - b) : chain[j].pr = p
      BY <2>1 DEF Members
    <2>3. p \in Members(chain) <=> \E j \in 1..(Len(h) - b) : h[b + j].pr = p
      BY <2>1, <2>2
    <2> QED
      BY <2>3 DEF chain
  <1> HIDE DEF b
  <1>4. ASSUME NEW j \in 1..(Len(h) - b), h[b + j].pr = p
        PROVE  Rides(h, p)
    <2>1. b + j \in DOMAIN h /\ \A k \in (b + j)..Len(h) : k \in b + 1..Len(h)
      BY <1>1
    <2> QED
      BY <2>1, <1>4, <1>2 DEF Rides
  <1>5. ASSUME Rides(h, p)
        PROVE  \E j \in 1..(Len(h) - b) : h[b + j].pr = p
    <2>1. PICK k \in 1..Len(h) : h[k].pr = p /\ \A j \in k..Len(h) : h[j].marked
      BY <1>5, <1>1 DEF Rides
    <2>2. k > b
      BY <2>1, <1>1, <1>2
    <2>3. k - b \in 1..(Len(h) - b) /\ b + (k - b) = k
      BY <2>2, <1>1
    <2> QED
      BY <2>1, <2>3
  <1> QED
    BY <1>3, <1>4, <1>5

\* A merge on top makes one more pull request ride.
LEMMA RidesAppend == \A h \in History, c \in Commit, p \in PRs : c.marked =>
    (Rides(Append(h, c), p) <=> Rides(h, p) \/ c.pr = p)
  <1> SUFFICES ASSUME NEW h \in History, NEW c \in Commit, NEW p \in PRs, c.marked
               PROVE  Rides(Append(h, c), p) <=> Rides(h, p) \/ c.pr = p
    OBVIOUS
  <1> DEFINE n == Len(h)
             g == Append(h, c)
  <1>1. n \in Nat /\ Len(g) = n + 1 /\ DOMAIN h = 1..n /\ DOMAIN g = 1..(n + 1)
    BY DEF History
  <1>2. (\A j \in 1..n : g[j] = h[j]) /\ g[n + 1] = c
    BY DEF History
  <1>3. Len(h) = n
    OBVIOUS
  <1> HIDE DEF n, g
  <1>4. ASSUME Rides(h, p) PROVE Rides(g, p)
    <2>1. PICK k \in 1..n : h[k].pr = p /\ \A j \in k..n : h[j].marked
      BY <1>4, <1>1, <1>3 DEF Rides
    <2>2. k \in 1..(n + 1) /\ g[k].pr = p
      BY <2>1, <1>1, <1>2
    <2>3. \A j \in k..(n + 1) : g[j].marked
      BY <2>1, <1>1, <1>2
    <2> QED
      BY <2>2, <2>3, <1>1 DEF Rides
  <1>5. ASSUME c.pr = p PROVE Rides(g, p)
    <2>1. n + 1 \in 1..(n + 1) /\ g[n + 1].pr = p /\ \A j \in (n + 1)..(n + 1) : g[j].marked
      BY <1>1, <1>2, <1>5
    <2> QED
      BY <2>1, <1>1 DEF Rides
  <1>6. ASSUME Rides(g, p), c.pr # p PROVE Rides(h, p)
    <2>1. PICK k \in 1..(n + 1) : g[k].pr = p /\ \A j \in k..(n + 1) : g[j].marked
      BY <1>6, <1>1 DEF Rides
    <2>2. k # n + 1
      BY <2>1, <1>2, <1>6
    <2>3. k \in 1..n /\ h[k].pr = p
      BY <2>1, <2>2, <1>1, <1>2
    <2>4. \A j \in k..n : h[j].marked
      BY <2>1, <2>3, <1>1, <1>2
    <2> QED
      BY <2>3, <2>4, <1>1, <1>3 DEF Rides
  <1>7. Rides(g, p) <=> Rides(h, p) \/ c.pr = p
    BY <1>4, <1>5, <1>6
  <1> QED
    BY <1>7 DEF g

\* A prefix of a well-based history is well based.
LEMMA BasedPrefix == \A h \in History, n \in Nat : \A heads, landed :
    n <= Len(h) /\ Based(h, heads, landed) => Based(SubSeq(h, 1, n), heads, landed)
  <1> SUFFICES ASSUME NEW h \in History, NEW n \in Nat, NEW heads, NEW landed,
                      n <= Len(h), Based(h, heads, landed)
               PROVE  Based(SubSeq(h, 1, n), heads, landed)
    OBVIOUS
  <1>1. DOMAIN SubSeq(h, 1, n) = 1..n /\ \A j \in 1..n : SubSeq(h, 1, n)[j] = h[j]
    BY PrefixOf
  <1>2. DOMAIN h = 1..Len(h) /\ Len(h) \in Nat /\ \A j \in 1..n : j \in 1..Len(h)
        /\ \A k \in 1..j : k \in 1..n
    BY DEF History
  <1> QED
    BY <1>1, <1>2 DEF Based

\* A sound merge may go on top.
LEMMA BasedAppend == \A h \in History, c \in Commit : \A heads, landed :
    c.marked /\ Sound(c, heads) /\ Based(h, heads, landed) => Based(Append(h, c), heads, landed)
  <1> SUFFICES ASSUME NEW h \in History, NEW c \in Commit, NEW heads, NEW landed,
                      c.marked, Sound(c, heads), Based(h, heads, landed)
               PROVE  Based(Append(h, c), heads, landed)
    OBVIOUS
  <1>1. Len(h) \in Nat /\ DOMAIN h = 1..Len(h) /\ DOMAIN Append(h, c) = 1..(Len(h) + 1)
    BY DEF History
  <1>2. (\A j \in 1..Len(h) : Append(h, c)[j] = h[j]) /\ Append(h, c)[Len(h) + 1] = c
    BY DEF History
  <1> SUFFICES ASSUME NEW j \in 1..(Len(h) + 1)
               PROVE  IF Append(h, c)[j].marked THEN Sound(Append(h, c)[j], heads)
                      ELSE \A k \in 1..j : Append(h, c)[k].adds \subseteq landed
    BY <1>1 DEF Based
  <1>3. CASE j = Len(h) + 1
    BY <1>2, <1>3
  <1>4. CASE j # Len(h) + 1
    <2>1. j \in 1..Len(h) /\ \A k \in 1..j : k \in 1..Len(h)
      BY <1>1, <1>4
    <2> QED
      BY <2>1, <1>1, <1>2 DEF Based
  <1> QED
    BY <1>3, <1>4

\* A merge stays sound when heads move on.
LEMMA SoundLater == \A c \in Commit : \A old, new \in Heads :
    (\A p \in PRs : old[p] <= new[p]) /\ Sound(c, old) => Sound(c, new)
  <1> SUFFICES ASSUME NEW c \in Commit, NEW old \in Heads, NEW new \in Heads,
                      \A p \in PRs : old[p] <= new[p], Sound(c, old)
               PROVE  Sound(c, new)
    OBVIOUS
  <1>1. c.pr \in PRs /\ c.was \in 1..old[c.pr]
    BY DEF Sound
  <1>2. PICK v \in c.was..old[c.pr] : c.adds = {<<c.pr, v>>}
    BY DEF Sound
  <1>3. old[c.pr] \in Nat /\ new[c.pr] \in Nat /\ old[c.pr] <= new[c.pr]
    <2>1. MaxHead \in Nat
      BY QueueAssumption
    <2>2. old[c.pr] \in 1..MaxHead /\ new[c.pr] \in 1..MaxHead
      BY <1>1 DEF Heads
    <2> QED
      BY <2>1, <2>2, <1>1
  <1>4. c.was \in 1..new[c.pr] /\ v \in c.was..new[c.pr]
    BY <1>1, <1>2, <1>3
  <1> QED
    BY <1>1, <1>2, <1>4 DEF Sound

\* A history stays well based when heads move on and more lands.
LEMMA BasedLater == \A h \in History : \A old, new \in Heads : \A landed, further :
    /\ \A p \in PRs : old[p] <= new[p]
    /\ landed \subseteq further
    /\ Based(h, old, landed)
    => Based(h, new, further)
  <1> SUFFICES ASSUME NEW h \in History, NEW old \in Heads, NEW new \in Heads, NEW landed,
                          NEW further,
                      \A p \in PRs :
                      old[p] <= new[p], landed \subseteq further, Based(h, old, landed)
               PROVE  Based(h, new, further)
    OBVIOUS
  <1>1. \A j \in DOMAIN h : h[j] \in Commit
    BY DEF History
  <1> QED
    BY <1>1, SoundLater DEF Based

\* A history all of which has landed is well based.
LEMMA LandedIsBased == \A h \in History : \A heads, landed :
    /\ \A j \in DOMAIN h : h[j].marked => Sound(h[j], heads)
    /\ Contents(h) \subseteq landed
    => Based(h, heads, landed)
  <1> SUFFICES ASSUME NEW h \in History, NEW heads, NEW landed,
                      \A j \in DOMAIN h : h[j].marked => Sound(h[j], heads),
                      Contents(h) \subseteq landed
               PROVE  Based(h, heads, landed)
    OBVIOUS
  <1>1. \A j \in DOMAIN h : \A k \in 1..j : k \in DOMAIN h
    BY DEF History
  <1>2. \A k \in DOMAIN h : h[k].adds \subseteq landed
    BY ContentsIn
  <1> QED
    BY <1>1, <1>2 DEF Based

\* What a history brings that main has not is folded and marked.
LEMMA NewsRides == \A h \in History, heads \in Heads, p \in PRs, v \in Nat : \A landed :
    /\ Based(h, heads, landed)
    /\ <<p, v>> \in Contents(h) /\ <<p, v>> \notin landed
    => Rides(h, p)
  <1> SUFFICES ASSUME NEW h \in History, NEW heads \in Heads, NEW landed, NEW p \in PRs,
                          NEW v \in Nat,
                      Based(h, heads, landed), <<p, v>> \in Contents(h), <<p, v>> \notin landed
               PROVE  Rides(h, p)
    OBVIOUS
  <1>1. PICK k \in DOMAIN h : <<p, v>> \in h[k].adds
    BY ContentsIn
  <1>2. DOMAIN h = 1..Len(h) /\ Len(h) \in Nat
    BY DEF History
  <1>3. \A j \in k..Len(h) : h[j].marked
    <2> SUFFICES ASSUME NEW j \in k..Len(h), ~h[j].marked PROVE FALSE
      OBVIOUS
    <2>1. j \in DOMAIN h /\ k \in 1..j
      BY <1>1, <1>2
    <2> QED
      BY <2>1, <1>1 DEF Based
  <1>4. h[k].marked
    BY <1>1, <1>2, <1>3
  <1>5. Sound(h[k], heads)
    BY <1>1, <1>4 DEF Based
  <1>6. PICK w \in h[k].was..heads[h[k].pr] : h[k].adds = {<<h[k].pr, w>>}
    BY <1>5 DEF Sound
  <1>7. <<p, v>> = <<h[k].pr, w>>
    BY <1>1, <1>6
  <1>8. h[k].pr = p
    BY <1>7
  <1> QED
    BY <1>1, <1>3, <1>8 DEF Rides

-----------------------------------------------------------------------------
(* The types. *)

\* The driver looks at, judges or lands the batch.
Under == {"check", "ci", "advance", "merge"}
\* The driver builds a new batch on a tip it set.
Building == {"read", "fold", "swap", "mark", "refuse"}
\* The driver drops a member and folds the later ones again.
Expelling == {"expel", "refold", "expelLater"}

\* The fields the driver uses at each place are there.
Shape ==
    /\ driver.pc \in Under \cup {"rebuild"} => driver.chain # <<>>
    /\ driver.pc \in {"check", "rebuild", "expel", "expelLater"} => driver.i \in DOMAIN driver.chain
    /\ At("refold") => driver.i \in 1..Len(driver.chain) + 1
    /\ driver.pc \in {"fold", "mark"} => driver.todo # <<>>
    /\ driver.pc \in Building => driver.tip # NoBranch

\* The assumptions, taken apart.
LEMMA Bounds == /\ PRs \subseteq Nat \ {0} /\ IsFiniteSet(PRs)
                /\ MaxHead \in Nat /\ MaxHead >= 1
                /\ MaxAsks \in Nat /\ MaxMoves \in Nat /\ MaxFaults \in Nat
                /\ NoBranch \notin History
  BY QueueAssumption, BranchAssumption

\* The driver at rest is well formed.
LEMMA IdleTyped == Idle \in Driver
  <1>1. <<>> \in Seq(Entry) /\ <<>> \in Seq(PRs) /\ 0 \in 0..MaxHead /\ 1 \in Nat
    BY Bounds
  <1> QED
    BY <1>1 DEF Idle, Driver, Places

\* A commit that is not a merge of the queue is a commit.
LEMMA PlainTyped == \A adds \in SUBSET Changes : Plain(adds) \in Commit
  BY Bounds DEF Plain, Commit

\* A merge of the queue is a commit.
LEMMA FoldTyped == ASSUME QueueTypeOK
                   PROVE  \A p \in PRs, was \in 0..MaxHead, marked \in BOOLEAN :
                            FoldOf(p, was, marked) \in Commit
  <1> TAKE p \in PRs, was \in 0..MaxHead, marked \in BOOLEAN
  <1>1. head[p] \in 1..MaxHead
    BY DEF QueueTypeOK
  <1>2. head[p] \in Nat
    BY <1>1, Bounds
  <1>3. {<<p, head[p]>>} \in SUBSET Changes
    BY <1>2 DEF Changes
  <1> QED
    BY <1>3 DEF FoldOf, Commit

\* Contents are changes.
LEMMA ContentsTyped == \A h \in History : Contents(h) \in SUBSET Changes
  <1> TAKE h \in History
  <1>1. \A j \in DOMAIN h : h[j] \in Commit
    BY DEF History
  <1>2. \A j \in DOMAIN h : h[j].adds \in SUBSET Changes
    BY <1>1 DEF Commit
  <1> QED
    BY <1>2, ContentsIn

\* The types hold at first.
LEMMA InitTyped == Init => QueueTypeOK /\ Shape
  <1> SUFFICES ASSUME Init PROVE QueueTypeOK /\ Shape
    OBVIOUS
  <1>1. {} \in SUBSET Changes /\ {<<0, 0>>} \in SUBSET Changes
    BY DEF Changes
  <1>2. Plain({}) \in Commit /\ Plain({<<0, 0>>}) \in Commit
    BY <1>1, PlainTyped
  <1>3. main \in History
    BY <1>2 DEF Init, History
  <1>4. driver \in Driver
    BY IdleTyped DEF Init
  <1>5. head \in [PRs -> 1..MaxHead] /\ asks \in [PRs -> 0..MaxAsks] /\ moves \in 0..MaxMoves
        /\ faults \in 0..MaxFaults
    BY Bounds DEF Init
  <1>6. advance \in [open : BOOLEAN, approved : History \cup {NoBranch}]
    BY DEF Init, NoAdvance
  <1>7. Shape
    BY DEF Init, Idle, Shape, At, Under, Building
  <1>8. method \in Methods /\ pr \in [PRs -> {"open", "closed", "merged"}]
    BY DEF Init
  <1>9. queued \subseteq PRs /\ testing \subseteq PRs /\ staging \in History \cup {NoBranch}
        /\ ci \in {"none", "pending", "green", "failed"} /\ absorbed \subseteq History
        /\ admitting \subseteq PRs /\ removing \subseteq PRs
    BY DEF Init
  <1> QED
    BY <1>3, <1>4, <1>5, <1>6, <1>7, <1>8, <1>9 DEF QueueTypeOK

\* Steps of webhooks, people and CI.
Outside ==
    \/ \E p \in PRs : \/ Approve(p) \/ AddQueued(p) \/ Withdraw(p) \/ Close(p) \/ Dequeue(p)
                      \/ PushHead(p)
    \/ PushMain \/ ApproveAdvance \/ CiStarts \/ CiEnds \/ CiReruns \/ StagingDeleted

\* A disturbance is counted.
LEMMA DisturbTyped == ASSUME QueueTypeOK, NEW kind, Disturb(kind)
                      PROVE  faults' \in 0..MaxFaults /\ faults' # 0
  BY Bounds DEF QueueTypeOK, Disturb

\* Moving main closes pull requests at most.
LEMMA MoveMainTyped == ASSUME QueueTypeOK, NEW history, MoveMain(history)
                       PROVE  pr' \in [PRs -> {"open", "closed", "merged"}]
  BY DEF QueueTypeOK, MoveMain

\* The types survive what webhooks, people and CI do.
LEMMA OutsideTyped == ASSUME QueueTypeOK, Outside PROVE QueueTypeOK'
  <1>1. CASE \E p \in PRs : Approve(p)
    BY <1>1, Bounds DEF Approve, Rest, github, labels, tip, mainline, QueueTypeOK
  <1>2. CASE \E p \in PRs : AddQueued(p)
    BY <1>2 DEF AddQueued, Rest, labels, tip, mainline, QueueTypeOK
  <1>3. CASE \E p \in PRs : Withdraw(p)
    BY <1>3, Bounds DEF Withdraw, Rest, Move, github, labels, tip, mainline, QueueTypeOK
  <1>4. CASE \E p \in PRs : Close(p)
    BY <1>4, Bounds DEF Close, Rest, Move, labels, tip, mainline, QueueTypeOK
  <1>5. CASE \E p \in PRs : Dequeue(p)
    BY <1>5, DisturbTyped DEF Dequeue, Unlabel, tip, mainline, QueueTypeOK
  <1>6. CASE \E p \in PRs : PushHead(p)
    BY <1>6, Bounds DEF PushHead, Move, Rest, labels, tip, mainline, QueueTypeOK
  <1>7. CASE PushMain
    <2>1. PICK c \in {<<0, moves + 1>>} \cup {<<p, head[p]>> : p \in {q \in PRs : pr[q] = "open"}} :
             MoveMain(Append(main, Plain({c})))
      BY <1>7 DEF PushMain
    <2>2. c \in Changes
      BY <2>1, Bounds DEF Changes, QueueTypeOK
    <2>3. Plain({c}) \in Commit
      BY <2>2, PlainTyped
    <2>4. main' \in History
      BY <2>1, <2>3 DEF MoveMain, QueueTypeOK, History
    <2>5. pr' \in [PRs -> {"open", "closed", "merged"}]
      BY <2>1, MoveMainTyped
    <2> QED
      BY <1>7, <2>4, <2>5, Bounds DEF PushMain, Move, Rest, labels, tip, QueueTypeOK
  <1>8. CASE ApproveAdvance
    BY <1>8 DEF ApproveAdvance, Others, labels, tip, QueueTypeOK
  <1>9. CASE CiStarts \/ CiEnds \/ CiReruns
    <2>1. ci' \in {"none", "pending", "green", "failed"} /\ faults' \in 0..MaxFaults
      BY <1>9, DisturbTyped DEF CiStarts, CiEnds, CiReruns, CiChanges, QueueTypeOK
    <2>2. UNCHANGED <<method, pr, head, labels, staging, mainline, driver, admitting, removing,
                      asks, moves>>
      BY <1>9 DEF CiStarts, CiEnds, CiReruns, CiChanges
    <2> QED
      BY <2>1, <2>2 DEF labels, mainline, QueueTypeOK
  <1>10. CASE StagingDeleted
    <2>1. faults' \in 0..MaxFaults
      BY <1>10, DisturbTyped DEF StagingDeleted
    <2> QED
      BY <1>10, <2>1 DEF StagingDeleted, DeleteBranch, NoAdvance, Others, labels, QueueTypeOK
  <1> QED
    BY <1>1, <1>2, <1>3, <1>4, <1>5, <1>6, <1>7, <1>8, <1>9, <1>10 DEF Outside

\* The driver's fields survive what the others do.
LEMMA OutsideShape == ASSUME Shape, Outside PROVE Shape'
  <1>1. driver' = driver
    BY DEF Outside, Approve, AddQueued, Withdraw, Close, Dequeue, PushHead, PushMain,
           ApproveAdvance,
           CiStarts, CiEnds, CiReruns, CiChanges, StagingDeleted, Others, Rest
  <1> QED
    BY <1>1 DEF Shape, At

-----------------------------------------------------------------------------
(* The types of the driver's steps. *)

\* What the driver's steps hand to QueueTypeOK.
LEMMA DriverSteps ==
    ASSUME QueueTypeOK, Others,
           driver' \in Driver, faults' \in 0..MaxFaults,
           pr' \in [PRs -> {"open", "closed", "merged"}],
           queued' \subseteq PRs, testing' \subseteq PRs,
           main' \in History, staging' \in History \cup {NoBranch},
           ci' \in {"none", "pending", "green", "failed"},
           absorbed' \subseteq History,
           advance' \in [open : BOOLEAN, approved : History \cup {NoBranch}]
    PROVE  QueueTypeOK'
  BY DEF QueueTypeOK, Others

\* Labels are those of pull requests.
LEMMA UnlabelTyped == ASSUME QueueTypeOK, NEW p \in PRs, Unlabel(p)
                      PROVE  queued' \subseteq PRs /\ testing' \subseteq PRs
                             /\ faults' \in 0..MaxFaults
  BY DisturbTyped DEF Unlabel, QueueTypeOK

\* Staging stays a history.
LEMMA MoveStagingTyped == ASSUME QueueTypeOK, NEW history \in History, MoveStaging(history)
                          PROVE  /\ staging' \in History
                                 /\ ci' \in {"none", "pending", "green", "failed"}
  BY DEF MoveStaging, QueueTypeOK

\* Staging stays a history when a head is merged into it.
LEMMA WordedTyped == ASSUME QueueTypeOK, NEW p \in PRs, NEW was \in 0..MaxHead,
                            staging # NoBranch, Worded(p, was)
                     PROVE  /\ staging' \in History /\ faults' \in 0..MaxFaults
                            /\ ci' \in {"none", "pending", "green", "failed"}
  <1>1. PICK marked \in BOOLEAN :
            /\ IF marked THEN UNCHANGED faults ELSE Disturb("rename")
            /\ MoveStaging(Append(staging, FoldOf(p, was, marked)))
    BY DEF Worded
  <1>2. Append(staging, FoldOf(p, was, marked)) \in History
    BY FoldTyped, ContentsAppend DEF QueueTypeOK
  <1>3. faults' \in 0..MaxFaults
    BY <1>1, DisturbTyped DEF QueueTypeOK
  <1> QED
    BY <1>1, <1>2, <1>3, MoveStagingTyped

\* The entries of the driver's chain.
LEMMA EntryAt == ASSUME QueueTypeOK, NEW j \in DOMAIN driver.chain
                 PROVE  /\ driver.chain[j] \in Entry
                        /\ driver.chain[j].pr \in PRs
                        /\ driver.chain[j].was \in 0..MaxHead
                        /\ driver.chain[j].at \in History \cup {NoBranch}
  <1>1. driver.chain \in Seq(Entry)
    BY DEF QueueTypeOK, Driver
  <1>2. driver.chain[j] \in Entry
    BY <1>1
  <1> QED
    BY <1>2 DEF Entry

\* The pull requests of the driver's chain.
LEMMA ChainPrs == ASSUME QueueTypeOK
                  PROVE  [j \in DOMAIN driver.chain |-> driver.chain[j].pr] \in Seq(PRs)
  <1>1. driver.chain \in Seq(Entry)
    BY DEF QueueTypeOK, Driver
  <1>2. DOMAIN driver.chain = 1..Len(driver.chain) /\ Len(driver.chain) \in Nat
    BY <1>1
  <1>3. \A j \in DOMAIN driver.chain : driver.chain[j].pr \in PRs
    BY EntryAt
  <1> QED
    BY <1>2, <1>3

\* The chain a tick puts together.
Marked == IF staging = NoBranch THEN <<>> ELSE ParseChain(staging)
\* The open pull requests labelled as under test.
LabelledOpen == {p \in testing : pr[p] = "open"}
\* Those of them without a marked commit, in GitHub's order.
Unmarked == Descending(LabelledOpen \ Members(Marked))
\* The batch of a tick.
TickChain == Marked \o [j \in DOMAIN Unmarked |-> [pr |-> Unmarked[j], was |-> 0, at |-> staging]]
\* The marked commits whose pull request has lost its label.
Stripped == {j \in DOMAIN Marked : Marked[j].pr \notin LabelledOpen}

\* What a tick decides, in these terms.
LEMMA TickUnfolds == Tick =>
    /\ At("idle")
    /\ driver' = IF Stripped # {}
                 THEN [Idle EXCEPT !.pc = "rebuild", !.chain = Marked, !.i = Min(Stripped)]
                 ELSE IF TickChain = <<>> THEN [Idle EXCEPT !.pc = "list", !.tip = staging]
                 ELSE [Idle EXCEPT !.pc = "check", !.chain = TickChain, !.tip = staging]
    /\ UNCHANGED <<pr, labels, tip, mainline, faults>> /\ Others
  BY DEF Tick, Marked, LabelledOpen, Unmarked, TickChain, Stripped, Go

\* The parts of a tick's batch.
LEMMA TickParts == ASSUME QueueTypeOK
                   PROVE  /\ Marked \in Seq(Entry) /\ TickChain \in Seq(Entry)
                          /\ Unmarked \in Seq(PRs)
                          /\ Len(TickChain) = Len(Marked) + Len(Unmarked)
                          /\ \A j \in 1..Len(Marked) : TickChain[j] = Marked[j]
                          /\ \A j \in Len(Marked) + 1..Len(TickChain) : TickChain[j].at = staging
                          /\ Stripped # {} => Min(Stripped) \in Stripped /\ Min(Stripped) \in Nat
  <1>1. Marked \in Seq(Entry)
    <2>1. CASE staging = NoBranch
      BY <2>1 DEF Marked
    <2>2. CASE staging # NoBranch
      <3>1. staging \in History
        BY <2>2 DEF QueueTypeOK
      <3>2. ParseChain(staging) \in Seq(Entry)
        BY <3>1, ParseFacts
      <3> QED
        BY <3>2, <2>2 DEF Marked
    <2> QED
      BY <2>1, <2>2
  <1>2. Unmarked \in Seq(PRs)
    <2>1. LabelledOpen \ Members(Marked) \in SUBSET PRs
      BY DEF QueueTypeOK, LabelledOpen
    <2>2. Unmarked \in Seq(LabelledOpen \ Members(Marked))
      BY <2>1, DescendingType DEF Unmarked
    <2> QED
      BY <2>1, <2>2, SeqMonotonic
  <1> DEFINE n == Len(Unmarked)
             more == [j \in DOMAIN Unmarked |-> [pr |-> Unmarked[j], was |-> 0, at |-> staging]]
  <1>3. n \in Nat /\ DOMAIN Unmarked = 1..n
    BY <1>2
  <1>4. \A j \in 1..n : more[j] \in Entry /\ more[j].at = staging
    <2> TAKE j \in 1..n
    <2>1. Unmarked[j] \in PRs /\ 0 \in 0..MaxHead /\ staging \in History \cup {NoBranch}
      BY <1>2, <1>3, Bounds DEF QueueTypeOK
    <2> QED
      BY <2>1, <1>3 DEF Entry
  <1>5. more \in Seq(Entry) /\ Len(more) = n
    BY <1>3, <1>4
  <1>6. TickChain = Marked \o more
    BY DEF TickChain
  <1>7. Stripped # {} => Min(Stripped) \in Stripped /\ Min(Stripped) \in Nat
    <2> SUFFICES ASSUME Stripped # {} PROVE Min(Stripped) \in Stripped /\ Min(Stripped) \in Nat
      OBVIOUS
    <2>1. Stripped \in SUBSET Nat
      BY <1>1 DEF Stripped
    <2>2. \E x \in Stripped : \A y \in Stripped : x <= y
      BY <2>1, LeastElement
    <2>3. Min(Stripped) \in Stripped
      BY <2>2 DEF Min
    <2> QED
      BY <2>1, <2>3
  <1> HIDE DEF more, n
  <1>8. /\ TickChain \in Seq(Entry) /\ Len(TickChain) = Len(Marked) + n
        /\ \A j \in 1..Len(Marked) + n : TickChain[j] = IF j <= Len(Marked) THEN Marked[j]
                                                       ELSE more[j - Len(Marked)]
    BY <1>1, <1>5, <1>6, ConcatProperties
  <1>9. Len(Marked) \in Nat
    BY <1>1
  <1>10. \A j \in 1..Len(Marked) : TickChain[j] = Marked[j]
    BY <1>8, <1>9, <1>3
  <1>11. \A j \in Len(Marked) + 1..Len(TickChain) : TickChain[j].at = staging
    <2> TAKE j \in Len(Marked) + 1..Len(TickChain)
    <2>1. j - Len(Marked) \in 1..n /\ TickChain[j] = more[j - Len(Marked)]
      BY <1>8, <1>9, <1>3
    <2> QED
      BY <2>1, <1>4
  <1> QED
    BY <1>1, <1>2, <1>7, <1>8, <1>10, <1>11 DEF n

\* The types survive a tick.
LEMMA TickTyped == ASSUME QueueTypeOK, Tick PROVE QueueTypeOK' /\ Shape'
  <1>1. CASE Stripped # {}
    <2>1. driver' = [Idle EXCEPT !.pc = "rebuild", !.chain = Marked, !.i = Min(Stripped)]
      BY <1>1, TickUnfolds
    <2>2. driver' \in Driver
      BY <2>1, <1>1, IdleTyped, TickParts DEF Driver, Places
    <2>3. driver'.pc = "rebuild" /\ driver'.chain = Marked /\ driver'.i = Min(Stripped)
      BY <2>1 DEF Idle
    <2>4. driver'.i \in DOMAIN driver'.chain /\ driver'.chain # <<>>
      <3>1. Min(Stripped) \in DOMAIN Marked
        BY <1>1, TickParts DEF Stripped
      <3> QED
        BY <3>1, <2>3, TickParts
    <2>5. Shape'
      BY <2>3, <2>4 DEF Shape, At, Under, Building
    <2> QED
      BY <2>2, <2>5, DriverSteps, TickUnfolds DEF QueueTypeOK, labels, tip, mainline
  <1>2. CASE Stripped = {} /\ TickChain = <<>>
    <2>1. driver' = [Idle EXCEPT !.pc = "list", !.tip = staging]
      BY <1>2, TickUnfolds
    <2>2. driver' \in Driver
      BY <2>1, IdleTyped DEF Driver, Places, QueueTypeOK
    <2>3. Shape'
      BY <2>1 DEF Idle, Shape, At, Under, Building
    <2> QED
      BY <2>2, <2>3, DriverSteps, TickUnfolds DEF QueueTypeOK, labels, tip, mainline
  <1>3. CASE Stripped = {} /\ TickChain # <<>>
    <2>1. driver' = [Idle EXCEPT !.pc = "check", !.chain = TickChain, !.tip = staging]
      BY <1>3, TickUnfolds
    <2>2. driver' \in Driver
      BY <2>1, IdleTyped, TickParts DEF Driver, Places, QueueTypeOK
    <2>3. driver'.pc = "check" /\ driver'.chain = TickChain /\ driver'.i = 1
      BY <2>1 DEF Idle
    <2>4. 1 \in DOMAIN TickChain
      BY <1>3, TickParts
    <2>5. Shape'
      BY <2>3, <2>4, <1>3 DEF Shape, At, Under, Building
    <2> QED
      BY <2>2, <2>5, DriverSteps, TickUnfolds DEF QueueTypeOK, labels, tip, mainline
  <1> QED
    BY <1>1, <1>2, <1>3

\* A driver that goes to another place or entry is well formed.
LEMMA DriverMoves == \A d \in Driver, place \in Places :
    /\ [d EXCEPT !.pc = place] \in Driver
    /\ [d EXCEPT !.i = @ + 1] \in Driver
    /\ [d EXCEPT !.pc = place, !.i = @ + 1] \in Driver
  <1> SUFFICES ASSUME NEW d \in Driver, NEW place \in Places
               PROVE  /\ [d EXCEPT !.pc = place] \in Driver
                      /\ [d EXCEPT !.i = @ + 1] \in Driver
                      /\ [d EXCEPT !.pc = place, !.i = @ + 1] \in Driver
    OBVIOUS
  <1>1. d.i \in Nat
    BY DEF Driver
  <1> DEFINE next == d.i + 1
  <1>2. next \in Nat
    BY <1>1
  <1> HIDE DEF next
  <1>3. [d EXCEPT !.pc = place] \in Driver
    BY DEF Driver
  <1>4. [d EXCEPT !.i = next] \in Driver
    BY <1>2 DEF Driver
  <1>5. [d EXCEPT !.pc = place, !.i = next] \in Driver
    BY <1>2 DEF Driver
  <1> QED
    BY <1>3, <1>4, <1>5 DEF next

\* Places the driver goes to.
LEMMA DriverPlaces == "rebuild" \in Places /\ "list" \in Places /\ "ci" \in Places
                      /\ "refold" \in Places
  BY DEF Places

\* The types survive check_members.
LEMMA CheckTyped == ASSUME QueueTypeOK, Shape, CheckMember PROVE QueueTypeOK' /\ Shape'
  <1>1. driver.i \in DOMAIN driver.chain /\ driver.chain # <<>> /\ driver.chain \in Seq(Entry)
        /\ driver.i \in Nat
    BY DEF CheckMember, Shape, At, Under, QueueTypeOK, Driver
  <1>2. \/ driver' = [driver EXCEPT !.pc = "rebuild"]
        \/ driver.i < Len(driver.chain) /\ driver' = [driver EXCEPT !.i = @ + 1]
        \/ driver' = [driver EXCEPT !.pc = "list"]
        \/ driver' = [driver EXCEPT !.pc = "ci"]
    BY DEF CheckMember, Go
  <1>3. faults' \in 0..MaxFaults
    BY DisturbTyped DEF CheckMember, QueueTypeOK
  <1>4. driver' \in Driver
    <2>1. driver \in Driver
      BY DEF QueueTypeOK
    <2>2. \A place \in Places : [driver EXCEPT !.pc = place] \in Driver
      BY <2>1, DriverMoves
    <2>3. [driver EXCEPT !.i = @ + 1] \in Driver
      BY <2>1, DriverMoves, DriverPlaces
    <2> QED
      BY <2>2, <2>3, <1>2, DriverPlaces
  <1>5. QueueTypeOK'
    BY <1>3, <1>4, DriverSteps DEF CheckMember, labels, tip, mainline, QueueTypeOK
  <1>6. driver.pc = "check" /\ driver \in Driver
    BY DEF CheckMember, At, QueueTypeOK
  <1>7. Shape'
    <2>1. CASE driver' = [driver EXCEPT !.pc = "rebuild"]
      BY <2>1, <1>1, <1>6 DEF Shape, At, Under, Building, Driver
    <2>2. CASE driver.i < Len(driver.chain) /\ driver' = [driver EXCEPT !.i = @ + 1]
      <3>1. driver'.pc = "check" /\ driver'.chain = driver.chain /\ driver'.i = driver.i + 1
        BY <2>2, <1>6 DEF Driver
      <3>2. driver.i + 1 \in DOMAIN driver.chain
        BY <2>2, <1>1
      <3> QED
        BY <3>1, <3>2, <1>1 DEF Shape, At, Under, Building
    <2>3. CASE driver' = [driver EXCEPT !.pc = "list"]
      BY <2>3, <1>1, <1>6 DEF Shape, At, Under, Building, Driver
    <2>4. CASE driver' = [driver EXCEPT !.pc = "ci"]
      BY <2>4, <1>1, <1>6 DEF Shape, At, Under, Building, Driver
    <2> QED
      BY <1>2, <2>1, <2>2, <2>3, <2>4
  <1> QED
    BY <1>5, <1>7

\* The driver at rest uses no field.
LEMMA IdleShape == ASSUME driver' = Idle PROVE Shape'
  BY DEF Idle, Shape, At, Under, Building

\* The types survive the verdict.
LEMMA CiTyped == ASSUME QueueTypeOK, Shape, ReadCI \/ TimeOut PROVE QueueTypeOK' /\ Shape'
  <1> DEFINE prs == [j \in DOMAIN driver.chain |-> driver.chain[j].pr]
  <1>1. driver.chain # <<>> /\ driver.chain \in Seq(Entry) /\ driver.pc = "ci" /\ driver \in Driver
    BY DEF ReadCI, TimeOut, Shape, At, Under, QueueTypeOK, Driver
  <1>2. Len(driver.chain) \in DOMAIN driver.chain /\ Len(driver.chain) \in Nat
    BY <1>1
  <1>3. prs \in Seq(PRs)
    BY ChainPrs
  <1> HIDE DEF prs
  <1>4. \/ driver' = [driver EXCEPT !.pc = "advance"]
        \/ driver' = [driver EXCEPT !.pc = "rebuild", !.i = Len(driver.chain)]
        \/ driver' = Idle
        \/ driver' = [driver EXCEPT !.pc = "timeout", !.todo = prs]
    BY DEF ReadCI, TimeOut, Go, prs, QueueTypeOK
  <1>5. driver' \in Driver
    <2>1. CASE driver' = [driver EXCEPT !.pc = "advance"]
      BY <1>1, <2>1 DEF Driver, Places
    <2>2. CASE driver' = [driver EXCEPT !.pc = "rebuild", !.i = Len(driver.chain)]
      BY <1>1, <1>2, <2>2 DEF Driver, Places
    <2>3. CASE driver' = [driver EXCEPT !.pc = "timeout", !.todo = prs]
      BY <1>1, <1>3, <2>3 DEF Driver, Places
    <2> QED
      BY <1>4, <2>1, <2>2, <2>3, IdleTyped
  <1>6. QueueTypeOK'
    BY <1>5, DriverSteps DEF ReadCI, TimeOut, labels, tip, mainline, QueueTypeOK
  <1>7. Shape'
    BY <1>1, <1>2, <1>4, IdleShape DEF Shape, At, Under, Building, Driver
  <1> QED
    BY <1>6, <1>7

\* The types survive timeout_batch.
LEMMA ExpireTyped == ASSUME QueueTypeOK, Shape, ExpireMember PROVE QueueTypeOK' /\ Shape'
  <1>1. CASE driver.todo = <<>>
    <2>1. driver' = Idle /\ UNCHANGED <<queued, testing, faults>>
      BY <1>1 DEF ExpireMember, Go
    <2> QED
      BY <2>1, IdleTyped, IdleShape, DriverSteps DEF ExpireMember, tip, mainline, QueueTypeOK
  <1>2. CASE driver.todo # <<>>
    <2>1. driver.todo \in Seq(PRs) /\ driver \in Driver /\ driver.pc = "timeout"
      BY DEF QueueTypeOK, Driver, ExpireMember, At
    <2>2. Head(driver.todo) \in PRs /\ Tail(driver.todo) \in Seq(PRs)
      BY <2>1, <1>2
    <2>3. Unlabel(Head(driver.todo)) /\ driver' = [driver EXCEPT !.todo = Tail(@)]
      BY <1>2 DEF ExpireMember, Go
    <2>4. driver' \in Driver
      BY <2>1, <2>2, <2>3 DEF Driver
    <2>5. queued' \subseteq PRs /\ testing' \subseteq PRs /\ faults' \in 0..MaxFaults
      BY <2>2, <2>3, UnlabelTyped
    <2>6. Shape'
      BY <2>1, <2>3 DEF Shape, At, Under, Building, Driver
    <2> QED
      BY <2>4, <2>5, <2>6, DriverSteps DEF ExpireMember, tip, mainline, QueueTypeOK
  <1> QED
    BY <1>1, <1>2

\* What a rebuild goes back to is a history.
LEMMA TargetTyped == ASSUME QueueTypeOK, driver.i \in DOMAIN driver.chain
                     PROVE  ResetTarget(driver.chain, driver.i) \in History \cup {NoBranch}
  <1>1. driver.chain \in Seq(Entry) /\ driver.i \in 1..Len(driver.chain)
        /\ Len(driver.chain) \in Nat
    BY DEF QueueTypeOK, Driver
  <1>2. CASE driver.i > 1
    <2>1. driver.i - 1 \in DOMAIN driver.chain
      BY <1>1, <1>2
    <2> QED
      BY <2>1, <1>2, EntryAt DEF ResetTarget
  <1>3. CASE ~(driver.i > 1)
    <2>1. 1 \in DOMAIN driver.chain
      BY <1>1
    <2>2. driver.chain[1].at \in History \cup {NoBranch}
      BY <2>1, EntryAt
    <2>3. CASE driver.chain[1].at = NoBranch \/ Len(driver.chain[1].at) = 1
      BY <2>3, <1>3 DEF ResetTarget
    <2>4. CASE ~(driver.chain[1].at = NoBranch \/ Len(driver.chain[1].at) = 1)
      <3>1. ResetTarget(driver.chain, driver.i) = Front(driver.chain[1].at)
        BY <2>4, <1>3 DEF ResetTarget
      <3>2. Front(driver.chain[1].at) \in History
        <4>1. driver.chain[1].at \in History
          BY <2>2, <2>4
        <4> QED
          BY <4>1 DEF Front, History
      <3> QED
        BY <3>1, <3>2
    <2> QED
      BY <2>3, <2>4
  <1> QED
    BY <1>2, <1>3

\* The types survive a rebuild.
LEMMA RebuildTyped == ASSUME QueueTypeOK, Shape, Rebuild PROVE QueueTypeOK' /\ Shape'
  <1> DEFINE target == ResetTarget(driver.chain, driver.i)
  <1>1. driver.i \in DOMAIN driver.chain /\ driver \in Driver /\ driver.pc = "rebuild"
    BY DEF Rebuild, Shape, At, QueueTypeOK
  <1>2. target \in History \cup {NoBranch}
    BY <1>1, TargetTyped
  <1> HIDE DEF target
  <1>3. CASE target = NoBranch \/ staging = NoBranch
    <2>1. driver' = Idle /\ UNCHANGED tip
      BY <1>3 DEF Rebuild, Go, target
    <2> QED
      BY <2>1, IdleTyped, IdleShape, DriverSteps DEF Rebuild, labels, tip, mainline, QueueTypeOK
  <1>4. CASE ~(target = NoBranch \/ staging = NoBranch)
    <2>1. MoveStaging(target) /\ driver' = [driver EXCEPT !.pc = "expel"]
      BY <1>4 DEF Rebuild, Go, target
    <2>2. driver' \in Driver
      BY <2>1, <1>1 DEF Driver, Places
    <2>3. staging' \in History /\ ci' \in {"none", "pending", "green", "failed"}
      BY <2>1, <1>2, <1>4, MoveStagingTyped
    <2>4. Shape'
      BY <2>1, <1>1 DEF Shape, At, Under, Building, Driver
    <2> QED
      BY <2>2, <2>3, <2>4, DriverSteps DEF Rebuild, labels, mainline, QueueTypeOK
  <1> QED
    BY <1>3, <1>4

\* The types survive the removal of a member.
LEMMA ExpelTyped == ASSUME QueueTypeOK, Shape, Expel PROVE QueueTypeOK' /\ Shape'
  <1>1. driver.i \in DOMAIN driver.chain /\ driver \in Driver /\ driver.chain \in Seq(Entry)
        /\ driver.i \in Nat
    BY DEF Expel, Shape, QueueTypeOK, Driver
  <1>2. Unlabel(driver.chain[driver.i].pr) /\ driver' = [driver EXCEPT !.pc = "refold", !.i = @ + 1]
    BY DEF Expel, Go
  <1>3. queued' \subseteq PRs /\ testing' \subseteq PRs /\ faults' \in 0..MaxFaults
    BY <1>1, <1>2, EntryAt, UnlabelTyped
  <1>4. driver' \in Driver
    BY <1>1, <1>2, DriverMoves, DriverPlaces
  <1>5. driver'.pc = "refold" /\ driver'.chain = driver.chain /\ driver'.i = driver.i + 1
    BY <1>1, <1>2 DEF Driver
  <1>6. driver.i + 1 \in 1..Len(driver.chain) + 1
    BY <1>1
  <1>7. Shape'
    BY <1>5, <1>6 DEF Shape, At, Under, Building
  <1> QED
    BY <1>3, <1>4, <1>7, DriverSteps DEF Expel, tip, mainline, QueueTypeOK

\* The types survive the merge of a later member.
LEMMA RefoldTyped == ASSUME QueueTypeOK, Shape, Refold PROVE QueueTypeOK' /\ Shape'
  <1> DEFINE p == driver.chain[driver.i].pr
  <1>1. driver.i \in 1..Len(driver.chain) + 1 /\ driver \in Driver /\ driver.chain \in Seq(Entry)
        /\ driver.pc = "refold" /\ driver.i \in Nat /\ Len(driver.chain) \in Nat
    BY DEF Refold, Shape, At, QueueTypeOK, Driver
  <1>2. CASE driver.i > Len(driver.chain)
    <2>1. driver' = Idle /\ UNCHANGED <<tip, faults>>
      BY <1>1, <1>2 DEF Refold, Go
    <2> QED
      BY <2>1, IdleTyped, IdleShape, DriverSteps DEF Refold, labels, tip, mainline, QueueTypeOK
  <1>3. CASE driver.i <= Len(driver.chain)
    <2>1. driver.i \in DOMAIN driver.chain
      BY <1>1, <1>3
    <2>2. p \in PRs /\ driver.chain[driver.i].was \in 0..MaxHead
      BY <2>1, EntryAt
    <2> HIDE DEF p
    <2>3. CASE UNCHANGED <<tip, faults>> /\ \/ driver' = [driver EXCEPT !.i = @ + 1]
                                            \/ driver' = [driver EXCEPT !.pc = "expelLater"]
      <3>1. driver' \in Driver
        BY <2>3, <1>1 DEF Driver, Places
      <3>2. driver.i + 1 \in 1..Len(driver.chain) + 1
        BY <2>1, <1>1
      <3>3. Shape'
        BY <2>3, <3>2, <2>1, <1>1 DEF Shape, At, Under, Building, Driver
      <3> QED
        BY <3>1, <3>3, <2>3, DriverSteps DEF Refold, labels, tip, mainline, QueueTypeOK
    <2>4. CASE /\ staging # NoBranch /\ Worded(p, driver.chain[driver.i].was)
               /\ driver' = [driver EXCEPT !.i = @ + 1]
      <3>1. driver' \in Driver
        BY <2>4, <1>1, DriverMoves, DriverPlaces
      <3>2. driver.i + 1 \in 1..Len(driver.chain) + 1
        BY <2>1, <1>1
      <3>3. Shape'
        BY <2>4, <3>2, <2>1, <1>1 DEF Shape, At, Under, Building, Driver
      <3>4. staging' \in History /\ faults' \in 0..MaxFaults
            /\ ci' \in {"none", "pending", "green", "failed"}
        BY <2>2, <2>4, WordedTyped
      <3> QED
        BY <3>1, <3>3, <3>4, DriverSteps DEF Refold, labels, mainline, QueueTypeOK
    <2> QED
      BY <1>1, <1>3, <2>3, <2>4 DEF Refold, Go, p
  <1> QED
    BY <1>1, <1>2, <1>3

\* The next batch is one of pull requests.
LEMMA NextBatchTyped == ASSUME QueueTypeOK PROVE NextBatch \in Seq(PRs)
  <1> DEFINE all == Ascending(Waiting)
  <1>1. Waiting \in SUBSET PRs
    BY DEF Waiting, QueueTypeOK
  <1>2. all \in Seq(PRs)
    BY <1>1, AscendingType, SeqMonotonic
  <1> HIDE DEF all
  <1>3. Len(all) \in Nat /\ MaxBatch \in Nat
    BY <1>2, QueueAssumption
  <1>4. SubSeq(all, 1, IF Len(all) < MaxBatch THEN Len(all) ELSE MaxBatch) \in Seq(PRs)
    BY <1>2, <1>3
  <1> QED
    BY <1>4 DEF NextBatch, all

\* The types survive the listing of the queue.
LEMMA ListTyped == ASSUME QueueTypeOK, Shape, ListQueued PROVE QueueTypeOK' /\ Shape'
  <1> DEFINE batch == NextBatch
  <1>1. driver.pc = "list" /\ driver \in Driver /\ batch \in Seq(PRs) /\ main \in History
    BY NextBatchTyped DEF ListQueued, At, QueueTypeOK
  <1> HIDE DEF batch
  <1>2. CASE Waiting # {}
    <2>1. driver' = [driver EXCEPT !.pc = "reset", !.todo = batch] /\ UNCHANGED <<tip, advance>>
      BY <1>2 DEF ListQueued, Go, batch
    <2>2. driver' \in Driver
      BY <1>1, <2>1 DEF Driver, Places
    <2>3. Shape'
      BY <1>1, <2>1 DEF Shape, At, Under, Building, Driver
    <2> QED
      BY <2>1, <2>2, <2>3, DriverSteps DEF ListQueued, labels, tip, QueueTypeOK
  <1>3. CASE Waiting = {}
    <2>1. driver' = Idle
      BY <1>3 DEF ListQueued, Go
    <2>2. \/ UNCHANGED <<tip, advance>>
          \/ DeleteBranch
          \/ MoveStaging(main) /\ UNCHANGED advance
      BY <1>3 DEF ListQueued
    <2>3. staging' \in History \cup {NoBranch} /\ ci' \in {"none", "pending", "green", "failed"}
          /\ advance' \in [open : BOOLEAN, approved : History \cup {NoBranch}]
      <3>1. staging \in History \cup {NoBranch} /\ ci \in {"none", "pending", "green", "failed"}
            /\ advance \in [open : BOOLEAN, approved : History \cup {NoBranch}]
        BY DEF QueueTypeOK
      <3>2. NoAdvance \in [open : BOOLEAN, approved : History \cup {NoBranch}]
        BY DEF NoAdvance
      <3>3. MoveStaging(main) => staging' \in History
            /\ ci' \in {"none", "pending", "green", "failed"}
        BY <1>1, MoveStagingTyped
      <3> QED
        BY <2>2, <3>1, <3>2, <3>3 DEF tip, DeleteBranch
    <2> QED
      BY <2>1, <2>3, IdleTyped, IdleShape, DriverSteps DEF ListQueued, labels, QueueTypeOK
  <1> QED
    BY <1>2, <1>3

\* The types survive the reset of staging.
LEMMA ResetTyped == ASSUME QueueTypeOK, Shape, ResetStaging PROVE QueueTypeOK' /\ Shape'
  <1>1. driver.pc = "reset" /\ driver \in Driver /\ main \in History
    BY DEF ResetStaging, At, QueueTypeOK
  <1>2. CASE driver' = Idle /\ UNCHANGED tip
    BY <1>2, IdleTyped, IdleShape, DriverSteps DEF ResetStaging, labels, tip, mainline, QueueTypeOK
  <1>3. CASE MoveStaging(main)
             /\ driver' = [driver EXCEPT !.pc = "read", !.tip = main, !.chain = <<>>]
    <2>1. <<>> \in Seq(Entry)
      OBVIOUS
    <2>2. driver' \in Driver
      BY <1>1, <1>3, <2>1 DEF Driver, Places
    <2>3. Shape'
      BY <1>1, <1>3, Bounds DEF Shape, At, Under, Building, Driver
    <2>4. staging' \in History /\ ci' \in {"none", "pending", "green", "failed"}
      BY <1>1, <1>3, MoveStagingTyped
    <2> QED
      BY <2>2, <2>3, <2>4, DriverSteps DEF ResetStaging, labels, mainline, QueueTypeOK
  <1> QED
    BY <1>2, <1>3 DEF ResetStaging, Go

\* What the driver has to do is about pull requests.
LEMMA TodoHead == ASSUME QueueTypeOK, driver.todo # <<>>
                  PROVE  Head(driver.todo) \in PRs /\ Tail(driver.todo) \in Seq(PRs)
  <1>1. driver.todo \in Seq(PRs)
    BY DEF QueueTypeOK, Driver
  <1> QED
    BY <1>1

\* The types survive the reading of a head.
LEMMA ReadTyped == ASSUME QueueTypeOK, Shape, ReadMember PROVE QueueTypeOK' /\ Shape'
  <1> DEFINE p == Head(driver.todo)
             later == Tail(driver.todo)
             bad == driver.bad \cup {p}
  <1>1. driver.pc = "read" /\ driver \in Driver /\ driver.good \in Seq(PRs)
        /\ driver.bad \subseteq PRs
        /\ driver.tip # NoBranch
    BY DEF ReadMember, Shape, At, Building, QueueTypeOK, Driver
  <1>2. CASE driver.todo = <<>>
    <2>1. driver' = [driver EXCEPT !.pc = "swap", !.todo = driver.good] /\ UNCHANGED faults
      BY <1>2 DEF ReadMember, Go
    <2>2. driver' \in Driver
      BY <1>1, <2>1 DEF Driver, Places
    <2>3. Shape'
      BY <1>1, <2>1 DEF Shape, At, Under, Building, Driver
    <2> QED
      BY <2>1, <2>2, <2>3, DriverSteps DEF ReadMember, labels, tip, mainline, QueueTypeOK
  <1>3. CASE driver.todo # <<>>
    <2>1. p \in PRs /\ later \in Seq(PRs) /\ bad \subseteq PRs /\ head[p] \in 0..MaxHead
      <3>1. p \in PRs /\ later \in Seq(PRs)
        BY <1>3, TodoHead
      <3>2. head[p] \in 1..MaxHead
        BY <3>1 DEF QueueTypeOK
      <3> QED
        BY <3>1, <3>2, <1>1, Bounds
    <2>2. \/ driver' = [driver EXCEPT !.todo = later, !.bad = bad]
          \/ driver' = [driver EXCEPT !.pc = "fold", !.was = head[p]]
      BY <1>3 DEF ReadMember, Go
    <2>3. faults' \in 0..MaxFaults
      BY <1>3, DisturbTyped DEF ReadMember, QueueTypeOK
    <2> HIDE DEF p, later, bad
    <2>4. driver' \in Driver
      BY <1>1, <2>1, <2>2 DEF Driver, Places
    <2>5. Shape'
      BY <1>1, <1>3, <2>2 DEF Shape, At, Under, Building, Driver
    <2> QED
      BY <2>3, <2>4, <2>5, DriverSteps DEF ReadMember, labels, tip, mainline, QueueTypeOK
  <1> QED
    BY <1>2, <1>3

\* The types survive the merge of a member.
LEMMA FoldMemberTyped == ASSUME QueueTypeOK, Shape, FoldMember PROVE QueueTypeOK' /\ Shape'
  <1> DEFINE p == Head(driver.todo)
             later == Tail(driver.todo)
             bad == driver.bad \cup {p}
             good == Append(driver.good, p)
  <1>1. driver.pc = "fold" /\ driver \in Driver /\ driver.good \in Seq(PRs)
        /\ driver.bad \subseteq PRs
        /\ driver.tip # NoBranch /\ driver.todo # <<>> /\ driver.was \in 0..MaxHead
    BY DEF FoldMember, Shape, At, Building, QueueTypeOK, Driver
  <1>2. p \in PRs /\ later \in Seq(PRs) /\ bad \subseteq PRs /\ good \in Seq(PRs)
        /\ 0 \in 0..MaxHead
    BY <1>1, TodoHead, Bounds
  <1>3. \/ /\ staging # NoBranch /\ Worded(p, driver.was)
           /\ driver' = [driver EXCEPT !.pc = "read", !.todo = later, !.was = 0, !.good = good]
        \/ /\ driver' = [driver EXCEPT !.pc = "read", !.todo = later, !.was = 0, !.bad = bad]
           /\ UNCHANGED <<tip, faults>>
        \/ driver' = Idle /\ UNCHANGED <<tip, faults>>
    BY <1>1 DEF FoldMember, Go, Driver
  <1> HIDE DEF p, later, bad, good
  <1>4. driver' \in Driver
    BY <1>1, <1>2, <1>3, IdleTyped, ZenonT(60) DEF Driver, Places
  <1>5. Shape'
    BY <1>1, <1>3, IdleShape, ZenonT(60) DEF Shape, At, Under, Building, Driver
  <1>6. staging' \in History \cup {NoBranch} /\ faults' \in 0..MaxFaults
        /\ ci' \in {"none", "pending", "green", "failed"}
    BY <1>1, <1>2, <1>3, WordedTyped DEF tip, QueueTypeOK
  <1> QED
    BY <1>4, <1>5, <1>6, DriverSteps DEF FoldMember, labels, mainline, QueueTypeOK

\* The types survive the removal of the queued label.
LEMMA SwapTyped == ASSUME QueueTypeOK, Shape, SwapQueued PROVE QueueTypeOK' /\ Shape'
  <1>1. driver.pc = "swap" /\ driver \in Driver /\ driver.tip # NoBranch
    BY DEF SwapQueued, Shape, At, Building, QueueTypeOK
  <1>2. \/ driver.todo = <<>> /\ driver' = [driver EXCEPT !.pc = "refuse"]
        \/ driver.todo # <<>> /\ driver' = [driver EXCEPT !.pc = "mark"]
    BY DEF SwapQueued, Go
  <1>3. queued' \subseteq PRs /\ faults' \in 0..MaxFaults
    BY DisturbTyped DEF SwapQueued, QueueTypeOK
  <1>4. driver' \in Driver
    BY <1>1, <1>2 DEF Driver, Places
  <1>5. Shape'
    BY <1>1, <1>2 DEF Shape, At, Under, Building, Driver
  <1> QED
    BY <1>3, <1>4, <1>5, DriverSteps DEF SwapQueued, tip, mainline, QueueTypeOK

\* The types survive the testing label.
LEMMA MarkTyped == ASSUME QueueTypeOK, Shape, MarkTesting PROVE QueueTypeOK' /\ Shape'
  <1>1. driver.pc = "mark" /\ driver \in Driver /\ driver.tip # NoBranch /\ driver.todo # <<>>
    BY DEF MarkTesting, Shape, At, Building, QueueTypeOK
  <1>2. Head(driver.todo) \in PRs /\ Tail(driver.todo) \in Seq(PRs)
    BY <1>1, TodoHead
  <1>3. driver' = [driver EXCEPT !.pc = "swap", !.todo = Tail(driver.todo)]
    BY <1>1 DEF MarkTesting, Go, Driver
  <1>4. testing' \subseteq PRs /\ faults' \in 0..MaxFaults
    BY <1>2, DisturbTyped DEF MarkTesting, QueueTypeOK
  <1>5. driver' \in Driver
    BY <1>1, <1>2, <1>3 DEF Driver, Places
  <1>6. Shape'
    BY <1>1, <1>3 DEF Shape, At, Under, Building, Driver
  <1> QED
    BY <1>4, <1>5, <1>6, DriverSteps DEF MarkTesting, tip, mainline, QueueTypeOK

\* The types survive the end of start_batch.
LEMMA RefuseTyped == ASSUME QueueTypeOK, Shape, RefuseMember PROVE QueueTypeOK' /\ Shape'
  <1>1. driver.pc = "refuse" /\ driver \in Driver /\ driver.tip \in History
        /\ driver.bad \subseteq PRs
    BY Bounds DEF RefuseMember, Shape, At, Building, QueueTypeOK, Driver
  <1>2. CASE \E p \in driver.bad : Unlabel(p) /\ Go([driver EXCEPT !.bad = @ \ {p}])
             /\ UNCHANGED tip
    <2>1. PICK p \in driver.bad : Unlabel(p) /\ driver' = [driver EXCEPT !.bad = @ \ {p}]
               /\ UNCHANGED tip
      BY <1>2 DEF Go
    <2>2. queued' \subseteq PRs /\ testing' \subseteq PRs /\ faults' \in 0..MaxFaults
      BY <1>1, <2>1, UnlabelTyped
    <2>3. driver' \in Driver
      BY <1>1, <2>1 DEF Driver
    <2>4. driver'.pc = "refuse" /\ driver'.tip = driver.tip
      BY <1>1, <2>1 DEF Driver
    <2>5. Shape'
      BY <2>4, <1>1, Bounds DEF Shape, At, Under, Building
    <2> QED
      BY <2>1, <2>2, <2>3, <2>5, DriverSteps DEF RefuseMember, tip, mainline, QueueTypeOK
  <1>3. CASE /\ IF driver.good = <<>> /\ staging # NoBranch THEN MoveStaging(driver.tip)
                ELSE UNCHANGED tip
             /\ Go(Idle) /\ UNCHANGED <<queued, testing, faults>>
    <2>1. staging' \in History \cup {NoBranch} /\ ci' \in {"none", "pending", "green", "failed"}
      BY <1>1, <1>3, MoveStagingTyped DEF tip, QueueTypeOK
    <2> QED
      BY <2>1, <1>3, IdleTyped, IdleShape, DriverSteps DEF RefuseMember, Go, mainline, QueueTypeOK
  <1> QED
    BY <1>2, <1>3 DEF RefuseMember

\* A driver that has landed its batch is well formed.
LEMMA MergedTyped == ASSUME QueueTypeOK, driver' = Merged PROVE driver' \in Driver /\ Shape'
  <1> DEFINE prs == [j \in DOMAIN driver.chain |-> driver.chain[j].pr]
  <1>1. prs \in Seq(PRs) /\ driver \in Driver
    BY ChainPrs DEF QueueTypeOK
  <1>2. driver' = [driver EXCEPT !.pc = "complete", !.todo = prs]
    BY DEF Merged
  <1> HIDE DEF prs
  <1>3. driver' \in Driver
    BY <1>1, <1>2 DEF Driver, Places
  <1>4. Shape'
    BY <1>1, <1>2 DEF Shape, At, Under, Building, Driver
  <1> QED
    BY <1>3, <1>4

\* The last entry of the chain.
LEMMA LastTyped == ASSUME QueueTypeOK, driver.chain # <<>>
                   PROVE  /\ Last(driver.chain) \in Entry
                          /\ Len(driver.chain) \in DOMAIN driver.chain
                          /\ Last(driver.chain).at \in History \cup {NoBranch}
  <1>1. driver.chain \in Seq(Entry)
    BY DEF QueueTypeOK, Driver
  <1>2. Len(driver.chain) \in DOMAIN driver.chain
    BY <1>1
  <1> QED
    BY <1>2, EntryAt DEF Last

-----------------------------------------------------------------------------
(* The verdict, whatever goes wrong. *)

\* While the driver looks at a batch, staging is the tip it looked up or is gone;
\* what it advances to has passed.
Verdict ==
    /\ driver.pc \in Under /\ driver.tip # NoBranch =>
          /\ staging \in {NoBranch, driver.tip}
          /\ Last(driver.chain).at = driver.tip
    /\ driver.pc \in {"check", "ci"} /\ driver.tip # NoBranch /\ ci = "green" =>
          Contents(driver.tip) \in passed
    /\ driver.pc \in {"ci", "advance", "merge"} => driver.tip # NoBranch
    /\ driver.pc \in {"advance", "merge"} => Contents(driver.tip) \in passed
    /\ driver.pc = "merge" => method = "pr"

\* The types survive advance_main.
LEMMA AdvanceTyped == ASSUME QueueTypeOK, Shape, Verdict, Advance PROVE QueueTypeOK' /\ Shape'
  <1> DEFINE target == Last(driver.chain).at
  <1>1. driver.pc = "advance" /\ driver \in Driver /\ driver.chain # <<>>
    BY DEF Advance, Shape, At, Under, QueueTypeOK
  <1>2. target \in History
    <2>1. target \in History \cup {NoBranch}
      BY <1>1, LastTyped
    <2>2. target # NoBranch
      BY <1>1 DEF Verdict, Under
    <2> QED
      BY <2>1, <2>2
  <1> HIDE DEF target
  <1>3. UNCHANGED <<labels, tip, absorbed, faults>> /\ Others
    BY DEF Advance
  <1>4. CASE method = "ref" /\ IsPrefix(main, target) /\ MoveMain(target) /\ Go(Merged)
             /\ UNCHANGED advance
    <2>1. main' = target
      BY <1>4 DEF MoveMain
    <2>2. target \in History
      BY <1>2
    <2> QED
      BY <2>1, <2>2, <1>3, <1>4, MergedTyped, MoveMainTyped, DriverSteps DEF Go, labels, tip,
         QueueTypeOK
  <1>5. CASE Go(Idle) /\ UNCHANGED <<main, pr, advance>>
    BY <1>3, <1>5, IdleTyped, IdleShape, DriverSteps DEF Go, labels, tip, QueueTypeOK
  <1>6. CASE advance' = NoAdvance /\ Go(Merged) /\ UNCHANGED <<main, pr>>
    BY <1>3, <1>6, MergedTyped, DriverSteps DEF Go, NoAdvance, labels, tip, QueueTypeOK
  <1>7. CASE /\ advance' = [NoAdvance EXCEPT !.open = TRUE]
             /\ Go([driver EXCEPT !.pc = "merge"]) /\ UNCHANGED <<main, pr>>
    <2>1. driver' = [driver EXCEPT !.pc = "merge"]
      BY <1>7 DEF Go
    <2>2. driver' \in Driver
      BY <1>1, <2>1 DEF Driver, Places
    <2>3. Shape'
      BY <1>1, <2>1 DEF Shape, At, Under, Building, Driver
    <2>4. advance' \in [open : BOOLEAN, approved : History \cup {NoBranch}]
      BY <1>7 DEF NoAdvance
    <2> QED
      BY <2>2, <2>3, <2>4, <1>3, <1>7, DriverSteps DEF labels, tip, QueueTypeOK
  <1> QED
    BY <1>4, <1>5, <1>6, <1>7 DEF Advance, target

\* The types survive the merge of the advance pull request.
LEMMA MergeTyped == ASSUME QueueTypeOK, Shape, advance.open => staging # NoBranch, MergeAdvance
                    PROVE  QueueTypeOK' /\ Shape'
  <1>1. CASE Go(Idle) /\ UNCHANGED <<pr, mainline>>
    BY <1>1, IdleTyped, IdleShape, DriverSteps DEF MergeAdvance, Go, mainline, labels, tip,
       QueueTypeOK
  <1>2. CASE ~(Go(Idle) /\ UNCHANGED <<pr, mainline>>)
    <2>1. /\ advance.open
          /\ MoveMain(Append(main, Plain(Contents(staging) \ Contents(main))))
          /\ absorbed' = absorbed \cup {staging}
          /\ advance' = NoAdvance
          /\ driver' = Merged
      BY <1>2 DEF MergeAdvance, Go
    <2>2. staging \in History /\ main \in History
      BY <2>1 DEF QueueTypeOK
    <2>3. Plain(Contents(staging) \ Contents(main)) \in Commit
      BY <2>2, ContentsTyped, PlainTyped
    <2>4. main' \in History
      BY <2>1, <2>2, <2>3, ContentsAppend DEF MoveMain
    <2>5. pr' \in [PRs -> {"open", "closed", "merged"}]
      BY <2>1, MoveMainTyped
    <2>6. absorbed' \subseteq History
      BY <2>1, <2>2 DEF QueueTypeOK
    <2>7. driver' \in Driver /\ Shape'
      BY <2>1, MergedTyped
    <2>8. advance' \in [open : BOOLEAN, approved : History \cup {NoBranch}]
      BY <2>1 DEF NoAdvance
    <2> QED
      BY <2>4, <2>5, <2>6, <2>7, <2>8, DriverSteps DEF MergeAdvance, labels, tip, QueueTypeOK
  <1> QED
    BY <1>1, <1>2

\* The types survive an announcement.
LEMMA CompleteTyped == ASSUME QueueTypeOK, Shape, CompleteMember PROVE QueueTypeOK' /\ Shape'
  <1>1. driver.pc = "complete" /\ driver \in Driver /\ driver.todo # <<>>
    BY DEF CompleteMember, At, QueueTypeOK
  <1>2. Tail(driver.todo) \in Seq(PRs)
    BY <1>1, TodoHead
  <1>3. driver' = [driver EXCEPT !.todo = Tail(driver.todo)]
    BY <1>1 DEF CompleteMember, Go, Driver
  <1>4. testing' \subseteq PRs /\ faults' \in 0..MaxFaults
    BY DisturbTyped DEF CompleteMember, QueueTypeOK
  <1>5. driver' \in Driver
    BY <1>1, <1>2, <1>3 DEF Driver
  <1>6. Shape'
    BY <1>1, <1>3 DEF Shape, At, Under, Building, Driver
  <1> QED
    BY <1>4, <1>5, <1>6, DriverSteps DEF CompleteMember, tip, mainline, QueueTypeOK

\* The types survive the deletion of staging.
LEMMA DeleteTyped == ASSUME QueueTypeOK, Shape, DeleteStaging PROVE QueueTypeOK' /\ Shape'
  <1>1. driver' = Idle
    BY DEF DeleteStaging, Go
  <1>2. staging' \in History \cup {NoBranch} /\ ci' \in {"none", "pending", "green", "failed"}
    BY DEF DeleteStaging, DeleteBranch, tip, QueueTypeOK
  <1>3. advance' \in [open : BOOLEAN, approved : History \cup {NoBranch}]
    <2>1. NoAdvance \in [open : BOOLEAN, approved : History \cup {NoBranch}]
      BY DEF NoAdvance
    <2>2. advance' \in {advance, NoAdvance}
      BY DEF DeleteStaging, DeleteBranch
    <2> QED
      BY <2>1, <2>2 DEF QueueTypeOK
  <1>4. faults' \in 0..MaxFaults
    BY DisturbTyped DEF DeleteStaging, QueueTypeOK
  <1> QED
    BY <1>1, <1>2, <1>3, <1>4, IdleTyped, IdleShape, DriverSteps DEF DeleteStaging, labels,
       QueueTypeOK

\* The types survive errors and crashes.
LEMMA StopTyped == ASSUME QueueTypeOK, Shape, CallFails \/ Crash PROVE QueueTypeOK' /\ Shape'
  <1>1. driver' = Idle /\ faults' \in 0..MaxFaults
    BY DisturbTyped DEF CallFails, Crash, Go
  <1>2. CASE CallFails
    BY <1>1, <1>2, IdleTyped, IdleShape, DriverSteps DEF CallFails, labels, tip, mainline,
       QueueTypeOK
  <1>3. CASE Crash
    BY <1>1, <1>3, IdleTyped, IdleShape DEF Crash, github, labels, tip, mainline, QueueTypeOK
  <1> QED
    BY <1>2, <1>3

\* The types are inductive, given Verdict.
LEMMA NextTyped == ASSUME QueueTypeOK, Shape, Verdict, advance.open => staging # NoBranch,
                          [Next]_vars
                   PROVE  QueueTypeOK' /\ Shape'
  <1>1. CASE Outside
    BY <1>1, OutsideTyped, OutsideShape
  <1>2. CASE DriverStep
    BY <1>2, TickTyped, CheckTyped, CiTyped, ExpireTyped, RebuildTyped, ExpelTyped, RefoldTyped,
       ListTyped,
       ResetTyped, ReadTyped, FoldMemberTyped, SwapTyped, MarkTyped, RefuseTyped, AdvanceTyped,
       MergeTyped,
       CompleteTyped, DeleteTyped DEF DriverStep
  <1>3. CASE CallFails \/ Crash
    BY <1>3, StopTyped
  <1>4. CASE UNCHANGED vars
    BY <1>4 DEF vars, github, labels, tip, mainline, QueueTypeOK, Shape, At
  <1> QED
    BY <1>1, <1>2, <1>3, <1>4 DEF Next, Outside

\* An advance pull request has a branch, and a green tip has passed.
Tips ==
    /\ advance.open => staging # NoBranch
    /\ staging # NoBranch /\ ci = "green" => Contents(staging) \in passed

\* What holds whatever goes wrong.
GreenIInv == QueueTypeOK /\ Shape /\ Tips /\ Verdict

\* The fields of the driver.
LEMMA DriverDomain == ASSUME QueueTypeOK
    PROVE  DOMAIN driver = {"pc", "tip", "chain", "i", "todo", "was", "good", "bad"}
  BY DEF QueueTypeOK, Driver

\* A merge into staging moves staging.
LEMMA WordedIsMove == ASSUME QueueTypeOK, NEW p \in PRs, NEW was \in 0..MaxHead,
                             staging # NoBranch, Worded(p, was)
                      PROVE  \E h : h # NoBranch /\ MoveStaging(h)
  <1>1. PICK marked \in BOOLEAN :
            /\ IF marked THEN UNCHANGED faults ELSE Disturb("rename")
            /\ MoveStaging(Append(staging, FoldOf(p, was, marked)))
    BY DEF Worded
  <1>2. Append(staging, FoldOf(p, was, marked)) \in History
    BY FoldTyped, ContentsAppend DEF QueueTypeOK
  <1> QED
    BY <1>1, <1>2, Bounds

\* How the driver moves staging and the advance pull request.
LEMMA TipMoves ==
    ASSUME QueueTypeOK, Shape, DriverStep
    PROVE  /\ \/ UNCHANGED tip /\ (advance' = advance \/ (advance'.open => staging # NoBranch))
              \/ DeleteBranch
              \/ (\E h : h # NoBranch /\ MoveStaging(h)) /\ UNCHANGED advance
           /\ passed' = passed
  <1> DEFINE Moved == \/ /\ UNCHANGED tip
                         /\ advance' = advance \/ (advance'.open => staging # NoBranch)
                      \/ DeleteBranch
                      \/ (\E h : h # NoBranch /\ MoveStaging(h)) /\ UNCHANGED advance
  <1>1. passed' = passed
    BY DEF DriverStep, Others, Tick, CheckMember, ReadCI, TimeOut, ExpireMember, Rebuild, Expel,
           Refold,
           ListQueued, ResetStaging, ReadMember, FoldMember, SwapQueued, MarkTesting, RefuseMember,
           Advance,
           MergeAdvance, CompleteMember, DeleteStaging
  <1> SUFFICES Moved
    BY <1>1
  <1>2. CASE Tick \/ CheckMember \/ ReadCI \/ TimeOut \/ ExpireMember \/ Expel \/ ReadMember
             \/ SwapQueued
             \/ MarkTesting \/ CompleteMember
    BY <1>2 DEF Tick, CheckMember, ReadCI, TimeOut, ExpireMember, Expel, ReadMember, SwapQueued,
       MarkTesting,
                CompleteMember, mainline
  <1>3. CASE Rebuild
    BY <1>3 DEF Rebuild, mainline
  <1>4. CASE Refold
    <2>1. advance' = advance
      BY <1>4 DEF Refold, mainline
    <2>2. CASE UNCHANGED tip
      BY <2>1, <2>2
    <2>3. CASE ~UNCHANGED tip
      <3>1. /\ driver.i <= Len(driver.chain) /\ staging # NoBranch
            /\ Worded(driver.chain[driver.i].pr, driver.chain[driver.i].was)
        BY <1>4, <2>3 DEF Refold
      <3>2. driver.i \in DOMAIN driver.chain
        <4>1. driver.chain \in Seq(Entry) /\ driver.i \in 1..Len(driver.chain) + 1
          BY <1>4 DEF Refold, Shape, At, QueueTypeOK, Driver
        <4> QED
          BY <4>1, <3>1
      <3>3. driver.chain[driver.i].pr \in PRs /\ driver.chain[driver.i].was \in 0..MaxHead
        BY <3>2, EntryAt
      <3> QED
        BY <2>1, <3>1, <3>3, WordedIsMove
    <2> QED
      BY <2>2, <2>3
  <1>5. CASE ListQueued
    <2>1. main # NoBranch
      BY Bounds DEF QueueTypeOK
    <2> QED
      BY <1>5, <2>1 DEF ListQueued
  <1>6. CASE ResetStaging
    <2>1. main # NoBranch
      BY Bounds DEF QueueTypeOK
    <2> QED
      BY <1>6, <2>1 DEF ResetStaging, mainline
  <1>7. CASE FoldMember
    <2>1. advance' = advance
      BY <1>7 DEF FoldMember, mainline
    <2>2. CASE UNCHANGED tip
      BY <2>1, <2>2
    <2>3. CASE ~UNCHANGED tip
      <3>1. staging # NoBranch /\ Worded(Head(driver.todo), driver.was)
        BY <1>7, <2>3 DEF FoldMember
      <3>2. Head(driver.todo) \in PRs /\ driver.was \in 0..MaxHead
        BY <1>7, TodoHead DEF FoldMember, Shape, At, QueueTypeOK, Driver
      <3> QED
        BY <2>1, <3>1, <3>2, WordedIsMove
    <2> QED
      BY <2>2, <2>3
  <1>8. CASE RefuseMember
    BY <1>8 DEF RefuseMember, Shape, At, Building, mainline
  <1>9. CASE Advance
    <2>1. \/ advance' = advance \/ advance' = NoAdvance
          \/ ~NothingToMerge
      BY <1>9 DEF Advance
    <2>2. UNCHANGED tip
      BY <1>9 DEF Advance
    <2> QED
      BY <2>1, <2>2 DEF NothingToMerge, NoAdvance
  <1>10. CASE MergeAdvance
    BY <1>10 DEF MergeAdvance, NoAdvance, mainline
  <1>11. CASE DeleteStaging
    BY <1>11 DEF DeleteStaging
  <1> QED
    BY <1>2, <1>3, <1>4, <1>5, <1>6, <1>7, <1>8, <1>9, <1>10, <1>11 DEF DriverStep

\* Tips is inductive.
LEMMA TipsStep == ASSUME QueueTypeOK, Shape, Tips, [Next]_vars PROVE Tips'
  <1>1. CASE DriverStep
    <2>1. CASE UNCHANGED tip /\ (advance' = advance \/ (advance'.open => staging # NoBranch))
               /\ passed' = passed
      BY <2>1 DEF Tips, tip
    <2>2. CASE DeleteBranch /\ passed' = passed
      BY <2>2 DEF DeleteBranch, NoAdvance, Tips
    <2>3. CASE (\E h : h # NoBranch /\ MoveStaging(h)) /\ UNCHANGED advance /\ passed' = passed
      BY <2>3 DEF MoveStaging, Tips
    <2> QED
      BY <1>1, <2>1, <2>2, <2>3, TipMoves
  <1>2. CASE \/ \E p \in PRs : \/ Approve(p) \/ AddQueued(p) \/ Withdraw(p)
                               \/ Close(p) \/ Dequeue(p) \/ PushHead(p)
             \/ CallFails \/ Crash \/ UNCHANGED vars
    BY <1>2 DEF Approve, AddQueued, Withdraw, Close, Dequeue, PushHead, CallFails, Crash, Rest,
       Others, vars,
                github, tip, mainline, Tips
  <1>3. CASE PushMain \/ CiStarts \/ CiReruns
    BY <1>3 DEF PushMain, CiStarts, CiReruns, CiChanges, Rest, tip, mainline, Tips
  <1>4. CASE CiEnds
    BY <1>4 DEF CiEnds, CiChanges, mainline, Tips
  <1>5. CASE StagingDeleted
    BY <1>5 DEF StagingDeleted, DeleteBranch, NoAdvance, Tips
  <1>6. CASE ApproveAdvance
    <2>1. advance'.open => advance.open
      BY <1>6 DEF ApproveAdvance
    <2> QED
      BY <1>6, <2>1 DEF ApproveAdvance, Others, tip, Tips
  <1> QED
    BY <1>1, <1>2, <1>3, <1>4, <1>5, <1>6 DEF Next

\* Verdict says nothing of the other places.
LEMMA Elsewhere == ASSUME driver'.pc \notin Under PROVE Verdict'
  BY DEF Verdict, Under

\* What others do while the driver looks at its batch.
LEMMA VerdictStands ==
    ASSUME Verdict, driver' = driver, method' = method,
           staging' \in {staging, NoBranch},
           passed \subseteq passed',
           \/ ci' = ci \/ ci' # "green"
           \/ staging # NoBranch /\ Contents(staging) \in passed'
    PROVE  Verdict'
  BY DEF Verdict, Under

\* Verdict is inductive.
LEMMA VerdictStep == ASSUME QueueTypeOK, Shape, Tips, Verdict, [Next]_vars PROVE Verdict'
  <1>1. CASE \/ \E p \in PRs : \/ Approve(p) \/ AddQueued(p) \/ Withdraw(p)
                               \/ Close(p) \/ Dequeue(p) \/ PushHead(p)
             \/ PushMain \/ ApproveAdvance \/ CiStarts \/ CiReruns \/ UNCHANGED vars
    <2>1. driver' = driver /\ method' = method /\ passed' = passed /\ staging' = staging
          /\ (ci' = ci \/ ci' # "green")
      BY <1>1 DEF Approve, AddQueued, Withdraw, Close, Dequeue, PushHead, PushMain, ApproveAdvance,
         CiStarts,
                  CiReruns, CiChanges, Rest, Others, vars, github, tip, mainline
    <2> QED
      BY <2>1, VerdictStands
  <1>2. CASE CiEnds
    <2>1. CASE passed' = passed \cup {Contents(staging)}
      BY <1>2, <2>1, VerdictStands DEF CiEnds, CiChanges
    <2>2. CASE ci' = "failed" /\ passed' = passed
      BY <1>2, <2>2, VerdictStands DEF CiEnds, CiChanges
    <2> QED
      BY <1>2, <2>1, <2>2 DEF CiEnds, CiChanges
  <1>3. CASE StagingDeleted
    BY <1>3, VerdictStands DEF StagingDeleted, DeleteBranch, Others
  <1>4. CASE CallFails \/ Crash
    BY <1>4, Elsewhere DEF CallFails, Crash, Go, Idle, Under
  <1>5. CASE DriverStep
    <2>1. driver \in Driver
      BY DEF QueueTypeOK
    <2>2. CASE TimeOut \/ ExpireMember \/ Rebuild \/ Expel \/ Refold \/ ListQueued \/ ResetStaging
               \/ ReadMember
               \/ FoldMember \/ SwapQueued \/ MarkTesting \/ RefuseMember \/ MergeAdvance
                  \/ CompleteMember
               \/ DeleteStaging
      <3>1. driver'.pc \notin Under
        <4>1. CASE TimeOut
          BY <4>1, DriverDomain DEF TimeOut, Go, Merged, Idle, Under, At
        <4>2. CASE ExpireMember
          BY <4>2, DriverDomain DEF ExpireMember, Go, Merged, Idle, Under, At
        <4>3. CASE Rebuild
          BY <4>3, DriverDomain DEF Rebuild, Go, Merged, Idle, Under, At
        <4>4. CASE Expel
          BY <4>4, DriverDomain DEF Expel, Go, Merged, Idle, Under, At
        <4>5. CASE Refold
          BY <4>5, DriverDomain DEF Refold, Go, Merged, Idle, Under, At
        <4>6. CASE ListQueued
          <5>1. driver' = Idle
                \/ \E batch : driver' = [driver EXCEPT !.pc = "reset", !.todo = batch]
            BY <4>6 DEF ListQueued, Go, At
          <5>2. CASE driver' = Idle
            BY <5>2 DEF Idle, Under
          <5>3. CASE \E batch : driver' = [driver EXCEPT !.pc = "reset", !.todo = batch]
            BY <5>3, DriverDomain DEF Under
          <5> QED
            BY <5>1, <5>2, <5>3
        <4>7. CASE ResetStaging
          <5>1. driver' = Idle
                \/ driver' = [driver EXCEPT !.pc = "read", !.tip = main, !.chain = <<>>]
            BY <4>7 DEF ResetStaging, Go, At
          <5>2. CASE driver' = Idle
            BY <5>2 DEF Idle, Under
          <5>3. CASE driver' = [driver EXCEPT !.pc = "read", !.tip = main, !.chain = <<>>]
            BY <5>3, DriverDomain DEF Under
          <5> QED
            BY <5>1, <5>2, <5>3
        <4>8. CASE ReadMember
          BY <4>8, DriverDomain DEF ReadMember, Go, Merged, Idle, Under, At
        <4>9. CASE FoldMember
          <5>1. \/ driver' = Idle
                \/ \E todo, good :
                   driver' = [driver EXCEPT !.pc = "read", !.todo = todo, !.was = 0, !.good = good]
                \/ \E todo, bad :
                   driver' = [driver EXCEPT !.pc = "read", !.todo = todo, !.was = 0, !.bad = bad]
            BY <4>9 DEF FoldMember, Go, At
          <5>2. CASE driver' = Idle
            BY <5>2 DEF Idle, Under
          <5>3. CASE \E todo, good :
                     driver' = [driver EXCEPT !.pc = "read", !.todo = todo, !.was = 0, !.good = good]
            BY <5>3, DriverDomain DEF Under
          <5>4. CASE \E todo, bad :
                     driver' = [driver EXCEPT !.pc = "read", !.todo = todo, !.was = 0, !.bad = bad]
            BY <5>4, DriverDomain DEF Under
          <5> QED
            BY <5>1, <5>2, <5>3, <5>4
        <4>10. CASE SwapQueued
          BY <4>10, DriverDomain DEF SwapQueued, Go, Merged, Idle, Under, At
        <4>11. CASE MarkTesting
          BY <4>11, DriverDomain DEF MarkTesting, Go, Merged, Idle, Under, At
        <4>12. CASE RefuseMember
          BY <4>12, DriverDomain DEF RefuseMember, Go, Merged, Idle, Under, At
        <4>13. CASE MergeAdvance
          <5>1. driver' = Idle
                \/ \E todo : driver' = [driver EXCEPT !.pc = "complete", !.todo = todo]
            BY <4>13 DEF MergeAdvance, Go, At, Merged
          <5>2. CASE driver' = Idle
            BY <5>2 DEF Idle, Under
          <5>3. CASE \E todo : driver' = [driver EXCEPT !.pc = "complete", !.todo = todo]
            BY <5>3, DriverDomain DEF Under
          <5> QED
            BY <5>1, <5>2, <5>3
        <4>14. CASE CompleteMember
          BY <4>14, DriverDomain DEF CompleteMember, Go, Merged, Idle, Under, At
        <4>15. CASE DeleteStaging
          BY <4>15, DriverDomain DEF DeleteStaging, Go, Merged, Idle, Under, At
        <4> QED
          BY <2>2, <4>1, <4>2, <4>3, <4>4, <4>5, <4>6, <4>7, <4>8, <4>9, <4>10, <4>11, <4>12,
             <4>13, <4>14, <4>15
      <3> QED
        BY <3>1, Elsewhere
    <2>3. CASE Tick
      <3>1. CASE Stripped = {} /\ TickChain # <<>>
        <4>1. driver' = [Idle EXCEPT !.pc = "check", !.chain = TickChain, !.tip = staging]
          BY <2>3, <3>1, TickUnfolds
        <4>2. driver'.pc = "check" /\ driver'.chain = TickChain /\ driver'.tip = staging
          BY <4>1 DEF Idle
        <4>3. staging' = staging /\ ci' = ci /\ passed' = passed
          BY <2>3 DEF Tick, tip, Others
        <4>4. staging # NoBranch => Last(TickChain).at = staging
          <5> SUFFICES ASSUME staging # NoBranch PROVE Last(TickChain).at = staging
            OBVIOUS
          <5>1. TickChain \in Seq(Entry) /\ Len(Marked) \in Nat /\ Len(Unmarked) \in Nat
                /\ Len(TickChain) = Len(Marked) + Len(Unmarked) /\ Len(TickChain) > 0
            BY <3>1, TickParts
          <5>2. CASE Len(Unmarked) > 0
            <6>1. Len(TickChain) \in Len(Marked) + 1..Len(TickChain)
              BY <5>1, <5>2
            <6> QED
              BY <6>1, TickParts DEF Last
          <5>3. CASE Len(Unmarked) = 0
            <6>1. Len(TickChain) = Len(Marked) /\ Len(Marked) \in 1..Len(Marked)
              BY <5>1, <5>3
            <6>2. Last(TickChain) = Marked[Len(Marked)]
              BY <6>1, TickParts DEF Last
            <6>3. Marked = ParseChain(staging) /\ staging \in History
              BY DEF Marked, QueueTypeOK
            <6>4. Marked[Len(Marked)].at = SubSeq(staging, 1, Len(staging))
              <7>1. Len(Marked) = Len(staging) - Base(staging) /\ Base(staging) \in 0..Len(staging)
                    /\ Len(staging) \in Nat
                BY <6>3, ParseFacts DEF History
              <7>2. Base(staging) + Len(Marked) = Len(staging)
                    /\ Len(Marked) \in 1..(Len(staging) - Base(staging))
                BY <6>1, <7>1
              <7>3. Marked[Len(Marked)] =
                      [pr |-> staging[Base(staging) + Len(Marked)].pr,
                       was |-> staging[Base(staging) + Len(Marked)].was,
                       at |-> SubSeq(staging, 1, Base(staging) + Len(Marked))]
                BY <6>3, <7>2, ParseFacts
              <7> QED
                BY <7>2, <7>3
            <6> QED
              BY <6>2, <6>3, <6>4, SubSeqFull DEF History
          <5> QED
            BY <5>1, <5>2, <5>3
        <4> QED
          BY <4>2, <4>3, <4>4 DEF Tips, Verdict, Under
      <3>2. CASE ~(Stripped = {} /\ TickChain # <<>>)
        <4>1. driver'.pc \in {"rebuild", "list"}
          BY <2>3, <3>2, TickUnfolds DEF Idle
        <4> QED
          BY <4>1, Elsewhere DEF Under
      <3> QED
        BY <3>1, <3>2
    <2>4. CASE CheckMember
      <3>1. driver.pc = "check" /\ staging' = staging /\ ci' = ci /\ passed' = passed
        BY <2>4 DEF CheckMember, At, tip, Others
      <3>2. /\ driver'.tip = driver.tip /\ driver'.chain = driver.chain
            /\ driver'.pc \in {"rebuild", "check", "list", "ci"}
            /\ driver'.pc = "ci" => driver.tip # NoBranch
        BY <2>1, <2>4 DEF CheckMember, Go, At, Driver
      <3> QED
        BY <3>1, <3>2 DEF Verdict, Under
    <2>5. CASE ReadCI
      <3>1. driver.pc = "ci" /\ staging' = staging /\ ci' = ci /\ passed' = passed
        BY <2>5 DEF ReadCI, At, tip, Others
      <3>2. CASE ci = "green"
        <4>1. driver' = [driver EXCEPT !.pc = "advance"]
          BY <2>5, <3>2 DEF ReadCI, Go
        <4> QED
          BY <4>1, <3>1, <3>2, <2>1 DEF Verdict, Under, Driver
      <3>3. CASE ci # "green"
        <4>1. driver'.pc \in {"rebuild", "idle"}
          BY <2>5, <3>3, <2>1 DEF ReadCI, Go, Idle, Driver
        <4> QED
          BY <4>1, Elsewhere DEF Under
      <3> QED
        BY <3>2, <3>3
    <2>6. CASE Advance
      <3>1. driver.pc = "advance" /\ staging' = staging /\ ci' = ci /\ passed' = passed
            /\ method' = method
        BY <2>6 DEF Advance, At, tip, Others
      <3>2. \/ driver'.pc \in {"complete", "idle"}
            \/ /\ driver'.pc = "merge" /\ driver'.tip = driver.tip /\ driver'.chain = driver.chain
               /\ method = "pr"
        <4>1. \/ driver' = Idle
              \/ driver' = [driver EXCEPT !.pc = "merge"] /\ method = "pr"
              \/ \E todo : driver' = [driver EXCEPT !.pc = "complete", !.todo = todo]
          <5>1. \/ driver' = Idle
                \/ driver' = [driver EXCEPT !.pc = "merge"] /\ method = "pr"
                \/ driver' = Merged
            BY <2>6 DEF Advance, Go
          <5>2. driver' = Merged
                => \E todo : driver' = [driver EXCEPT !.pc = "complete", !.todo = todo]
            BY DEF Merged
          <5> QED
            BY <5>1, <5>2
        <4>2. CASE driver' = Idle
          BY <4>2 DEF Idle
        <4>3. CASE driver' = [driver EXCEPT !.pc = "merge"] /\ method = "pr"
          BY <4>3, DriverDomain
        <4>4. CASE \E todo : driver' = [driver EXCEPT !.pc = "complete", !.todo = todo]
          BY <4>4, DriverDomain
        <4> QED
          BY <4>1, <4>2, <4>3, <4>4
      <3> QED
        BY <3>1, <3>2, Elsewhere DEF Verdict, Under
    <2> QED
      BY <1>5, <2>2, <2>3, <2>4, <2>5, <2>6 DEF DriverStep
  <1> QED
    BY <1>1, <1>2, <1>3, <1>4, <1>5 DEF Next

-----------------------------------------------------------------------------
(* What moves main. *)

\* Only these two steps of the driver move main.
LEMMA LandingSteps == ASSUME [Next]_vars, Landing PROVE Advance \/ MergeAdvance
  <1>1. driver.pc \in {"advance", "merge"} /\ driver' # driver /\ main' # main
    BY DEF Landing
  <1>2. ~\E p \in PRs : \/ Approve(p) \/ AddQueued(p) \/ Withdraw(p) \/ Close(p) \/ Dequeue(p)
        \/ PushHead(p)
    BY <1>1 DEF Approve, AddQueued, Withdraw, Close, Dequeue, PushHead, github, mainline
  <1>3. ~(PushMain \/ ApproveAdvance \/ CiStarts \/ CiEnds \/ CiReruns \/ StagingDeleted)
    BY <1>1 DEF PushMain, ApproveAdvance, CiStarts, CiEnds, CiReruns, CiChanges, StagingDeleted,
       mainline
  <1>4. ~(CallFails \/ Crash \/ UNCHANGED vars)
    BY <1>1 DEF CallFails, Crash, github, mainline, vars
  <1>5. ~(Tick \/ CheckMember \/ ReadCI \/ TimeOut \/ ExpireMember \/ Rebuild \/ Expel \/ Refold)
    BY <1>1 DEF Tick, CheckMember, ReadCI, TimeOut, ExpireMember, Rebuild, Expel, Refold, At
  <1>6. ~(ListQueued \/ ResetStaging \/ ReadMember \/ FoldMember \/ SwapQueued \/ MarkTesting)
    BY <1>1 DEF ListQueued, ResetStaging, ReadMember, FoldMember, SwapQueued, MarkTesting, At
  <1>7. ~(RefuseMember \/ CompleteMember \/ DeleteStaging)
    BY <1>1 DEF RefuseMember, CompleteMember, DeleteStaging, At
  <1> QED
    BY <1>2, <1>3, <1>4, <1>5, <1>6, <1>7 DEF Next, DriverStep

\* What an advance brings to main has passed.
LEMMA GreenStep ==
    ASSUME GreenIInv, [Next]_vars, Landing
    PROVE  \/ Contents(main') \in passed
           \/ method = "pr" /\ ~(Contents(main) \subseteq Contents(staging))
  <1>1. QueueTypeOK /\ Shape /\ Tips /\ Verdict
    BY DEF GreenIInv
  <1>2. main' # main
    BY DEF Landing
  <1>3. CASE Advance
    <2>1. driver.pc = "advance" /\ main' = Last(driver.chain).at
      BY <1>2, <1>3 DEF Advance, MoveMain, At
    <2>2. driver.tip # NoBranch /\ Last(driver.chain).at = driver.tip
          /\ Contents(driver.tip) \in passed
      BY <1>1, <2>1 DEF Verdict, Under
    <2> QED
      BY <2>1, <2>2
  <1>4. CASE MergeAdvance
    <2>1. driver.pc = "merge" /\ advance.open
          /\ main' = Append(main, Plain(Contents(staging) \ Contents(main)))
      BY <1>2, <1>4 DEF MergeAdvance, MoveMain, At, mainline
    <2>2. staging = driver.tip /\ staging # NoBranch /\ Contents(staging) \in passed
      BY <1>1, <2>1 DEF Tips, Verdict, Under
    <2>3. staging \in History /\ main \in History
      BY <1>1, <2>2 DEF QueueTypeOK
    <2>4. Plain(Contents(staging) \ Contents(main)) \in Commit
      BY <2>3, ContentsTyped, PlainTyped
    <2>5. Contents(main') = Contents(main) \cup (Contents(staging) \ Contents(main))
      BY <2>1, <2>3, <2>4, ContentsAppend DEF Plain
    <2>6. CASE Contents(main) \subseteq Contents(staging)
      <3>1. Contents(main') = Contents(staging)
        BY <2>5, <2>6
      <3> QED
        BY <3>1, <2>2
    <2>7. method = "pr"
      BY <1>1, <2>1 DEF Verdict
    <2> QED
      BY <2>6, <2>7
  <1> QED
    BY <1>3, <1>4, LandingSteps

-----------------------------------------------------------------------------
(* The queue while nothing is disturbed. *)

\* A history is well based on what main is now.
BasedNow(h) == Based(h, head, Contents(main))
\* A pull request rides on staging.
On(p) == staging # NoBranch /\ Rides(staging, p)

\* Every history is made of main and of sound merges, and no open pull request
\* has landed.
Histories ==
    /\ \A x \in absorbed : Contents(x) \subseteq Contents(main)
    /\ \A p \in PRs, v \in Nat : <<p, v>> \in Contents(main) => v <= head[p]
    /\ \A p \in PRs : pr[p] = "open" => <<p, head[p]>> \notin Contents(main)
    /\ BasedNow(main)
    /\ staging # NoBranch => BasedNow(staging)
    /\ driver.pc \in Building => BasedNow(driver.tip)

\* The chain in hand is that of staging; its checked entries are exact.
Charted ==
    /\ driver.pc \in Under =>
          staging = driver.tip /\ staging # NoBranch /\ driver.chain = ParseChain(staging)
    /\ At("rebuild") => staging # NoBranch /\ driver.chain = ParseChain(staging)
    /\ At("check") => \A j \in 1..driver.i - 1 : Exact(driver.chain[j])
    /\ driver.pc \in {"ci", "advance", "merge"}
       => \A j \in DOMAIN driver.chain : Exact(driver.chain[j])
    /\ driver.pc \in Expelling =>
          \A j \in DOMAIN driver.chain : driver.chain[j].was \in 1..head[driver.chain[j].pr]
    /\ At("fold") => driver.was \in 1..head[Head(driver.todo)]
    /\ At("complete")
       => \A p \in ToSet(driver.todo) : \E v \in 1..head[p] : <<p, v>> \in Contents(main)

\* Every open pull request under test rides on staging, or the driver is about to
\* fold it, label it or announce it.
Placed ==
    /\ driver.pc \in Under \cup {"idle", "timeout", "rebuild"} => \A p \in LabelledOpen : On(p)
    /\ driver.pc \in Expelling => \A p \in LabelledOpen :
          On(p) \/ \E k \in driver.i..Len(driver.chain) : driver.chain[k].pr = p
    /\ driver.pc \in {"list", "reset", "read", "fold"} => LabelledOpen = {}
    /\ driver.pc \in {"swap", "mark", "refuse"} => LabelledOpen \subseteq ToSet(driver.good)
    /\ driver.pc \in {"swap", "mark"} => ToSet(driver.todo) \subseteq ToSet(driver.good)
    /\ driver.pc \in Building => \A p \in ToSet(driver.good) : On(p)
    /\ driver.pc \in {"list", "reset"} => driver.good = <<>>
    /\ At("complete") => LabelledOpen \subseteq ToSet(driver.todo)

\* What holds while no fault has happened.
Undisturbed == Histories /\ Charted /\ Placed

\* Faults are not forgotten.
LEMMA FaultsGrow == ASSUME QueueTypeOK, [Next]_vars, faults' = 0 PROVE faults = 0
  <1>1. \A kind : Disturb(kind) => faults' # 0
    BY DisturbTyped
  <1>2. ASSUME faults' # faults PROVE \E kind : Disturb(kind)
    <2>1. CASE \E p \in PRs : \/ Approve(p) \/ AddQueued(p) \/ Withdraw(p) \/ Close(p)
               \/ Dequeue(p) \/ PushHead(p)
      BY <1>2, <2>1 DEF Approve, AddQueued, Withdraw, Close, Dequeue, PushHead, Rest, Unlabel
    <2>2. CASE PushMain \/ ApproveAdvance \/ CiStarts \/ CiEnds \/ CiReruns \/ StagingDeleted
               \/ CallFails \/ Crash
               \/ UNCHANGED vars
      BY <1>2, <2>2 DEF PushMain, ApproveAdvance, CiStarts, CiEnds, CiReruns, StagingDeleted, Rest,
         CallFails,
                        Crash, vars
    <2>3. CASE Tick \/ CheckMember \/ ReadCI \/ TimeOut \/ ExpireMember \/ Rebuild \/ Expel
      BY <1>2, <2>3 DEF Tick, CheckMember, ReadCI, TimeOut, ExpireMember, Rebuild, Expel, Unlabel
    <2>4. CASE Refold \/ FoldMember
      BY <1>2, <2>4 DEF Refold, FoldMember, Worded
    <2>5. CASE ListQueued \/ ResetStaging \/ ReadMember \/ SwapQueued \/ MarkTesting
      BY <1>2, <2>5 DEF ListQueued, ResetStaging, ReadMember, SwapQueued, MarkTesting
    <2>6. CASE RefuseMember \/ Advance \/ MergeAdvance \/ CompleteMember \/ DeleteStaging
      BY <1>2, <2>6 DEF RefuseMember, Advance, MergeAdvance, CompleteMember, DeleteStaging, Unlabel
    <2> QED
      BY <2>1, <2>2, <2>3, <2>4, <2>5, <2>6 DEF Next, DriverStep
  <1> QED
    BY <1>1, <1>2

\* As long as there is no fault, nothing is disturbed.
LEMMA NoDisturbance == ASSUME QueueTypeOK, faults' = 0, NEW kind PROVE ~Disturb(kind)
  BY DisturbTyped

\* Only a push moves a head.
LEMMA HeadStep == [Next]_vars => \/ UNCHANGED head
                                 \/ \E p \in PRs : PushHead(p)
  <1>1. ASSUME NEW p \in PRs, Approve(p) \/ AddQueued(p) \/ Withdraw(p) \/ Close(p) \/ Dequeue(p)
        PROVE  UNCHANGED head
    BY <1>1 DEF Approve, AddQueued, Withdraw, Close, Dequeue, github
  <1>2. CASE PushMain \/ ApproveAdvance \/ CiStarts \/ CiEnds \/ CiReruns \/ StagingDeleted
             \/ CallFails \/ Crash
             \/ UNCHANGED vars
    BY <1>2 DEF PushMain, ApproveAdvance, CiStarts, CiEnds, CiReruns, CiChanges, StagingDeleted,
       Others,
                CallFails, Crash, vars, github
  <1>3. CASE DriverStep
    BY <1>3 DEF DriverStep, Others, Tick, CheckMember, ReadCI, TimeOut, ExpireMember, Rebuild,
       Expel, Refold,
           ListQueued, ResetStaging, ReadMember, FoldMember, SwapQueued, MarkTesting, RefuseMember,
           Advance,
           MergeAdvance, CompleteMember, DeleteStaging
  <1> QED
    BY <1>1, <1>2, <1>3 DEF Next

\* Heads only move on.
LEMMA HeadsGrow == ASSUME QueueTypeOK, QueueTypeOK', [Next]_vars
                   PROVE  /\ head \in Heads /\ head' \in Heads
                          /\ \A p \in PRs : head[p] \in Nat /\ head'[p] \in Nat
                             /\ head[p] <= head'[p]
  <1>1. head \in Heads /\ head' \in Heads
    BY DEF QueueTypeOK, Heads
  <1>2. \A p \in PRs : head[p] \in 1..MaxHead /\ head'[p] \in 1..MaxHead
    BY <1>1 DEF Heads
  <1>3. \A p \in PRs : head[p] \in Nat /\ head'[p] \in Nat
    BY <1>2, Bounds
  <1>4. \A p \in PRs : head[p] <= head'[p]
    <2>1. CASE UNCHANGED head
      BY <2>1, <1>3
    <2>2. CASE \E p \in PRs : PushHead(p)
      <3>1. PICK q \in PRs : head' = [head EXCEPT ![q] = @ + 1]
        BY <2>2 DEF PushHead
      <3> QED
        BY <3>1, <1>1, <1>3 DEF Heads
    <2> QED
      BY <2>1, <2>2, HeadStep
  <1> QED
    BY <1>1, <1>3, <1>4

\* How main moves.
LEMMA MainSteps == ASSUME [Next]_vars
    PROVE  \/ main' = main /\ absorbed' = absorbed /\ (pr' = pr \/ \E p \in PRs : Close(p))
           \/ PushMain
           \/ Advance /\ method = "ref" /\ IsPrefix(main, main') /\ main' = Last(driver.chain).at
              /\ MoveMain(main') /\ absorbed' = absorbed /\ head' = head
           \/ MergeAdvance /\ advance.open
  <1>1. ASSUME NEW p \in PRs, Approve(p) \/ AddQueued(p) \/ Withdraw(p) \/ Dequeue(p) \/ PushHead(p)
        PROVE  main' = main /\ absorbed' = absorbed /\ pr' = pr
    BY <1>1 DEF Approve, AddQueued, Withdraw, Dequeue, PushHead, github, mainline
  <1>2. ASSUME NEW p \in PRs, Close(p)
        PROVE  main' = main /\ absorbed' = absorbed
    BY <1>2 DEF Close, mainline
  <1>3. CASE ApproveAdvance \/ CiStarts \/ CiEnds \/ CiReruns \/ StagingDeleted \/ CallFails
             \/ Crash
             \/ UNCHANGED vars
    BY <1>3 DEF ApproveAdvance, CiStarts, CiEnds, CiReruns, CiChanges, StagingDeleted, Others,
                CallFails, Crash, vars, github, mainline
  <1>4. CASE Tick \/ CheckMember \/ ReadCI \/ TimeOut \/ ExpireMember \/ Rebuild \/ Expel \/ Refold
    BY <1>4 DEF Tick, CheckMember, ReadCI, TimeOut, ExpireMember, Rebuild, Expel, Refold, mainline
  <1>5. CASE ListQueued \/ ResetStaging \/ ReadMember \/ FoldMember \/ SwapQueued \/ MarkTesting
    BY <1>5 DEF ListQueued, ResetStaging, ReadMember, FoldMember, SwapQueued, MarkTesting, mainline
  <1>6. CASE RefuseMember \/ CompleteMember \/ DeleteStaging
    BY <1>6 DEF RefuseMember, CompleteMember, DeleteStaging, mainline
  <1>7. CASE Advance
    BY <1>7 DEF Advance, Others, MoveMain
  <1>8. CASE MergeAdvance
    BY <1>8 DEF MergeAdvance, mainline
  <1> QED
    BY <1>1, <1>2, <1>3, <1>4, <1>5, <1>6, <1>7, <1>8 DEF Next, DriverStep

\* Main loses nothing.
LEMMA MainGrows == ASSUME QueueTypeOK, QueueTypeOK', Tips, [Next]_vars
                   PROVE  /\ main \in History /\ main' \in History
                          /\ Contents(main) \subseteq Contents(main')
  <1>1. main \in History /\ main' \in History
    BY DEF QueueTypeOK
  <1>2. CASE main' = main
    BY <1>1, <1>2
  <1>3. CASE PushMain
    <2>1. PICK c \in {<<0, moves + 1>>} \cup {<<p, head[p]>> : p \in {q \in PRs : pr[q] = "open"}} :
             MoveMain(Append(main, Plain({c})))
      BY <1>3 DEF PushMain
    <2>2. c \in Changes
      BY <2>1, Bounds DEF Changes, QueueTypeOK
    <2>3. Plain({c}) \in Commit
      BY <2>2, PlainTyped
    <2> QED
      BY <1>1, <2>1, <2>3, ContentsAppend DEF MoveMain
  <1>4. CASE IsPrefix(main, main')
    BY <1>1, <1>4, ContentsPrefix
  <1>5. CASE MergeAdvance /\ advance.open /\ main' # main
    <2>1. main' = Append(main, Plain(Contents(staging) \ Contents(main)))
      BY <1>5 DEF MergeAdvance, MoveMain, mainline
    <2>2. staging \in History
      BY <1>5 DEF Tips, QueueTypeOK
    <2>3. Plain(Contents(staging) \ Contents(main)) \in Commit
      BY <1>1, <2>2, ContentsTyped, PlainTyped
    <2> QED
      BY <1>1, <2>1, <2>3, ContentsAppend
  <1> QED
    BY <1>2, <1>3, <1>4, <1>5, MainSteps

\* A well-based history stays well based.
LEMMA StillBased == ASSUME QueueTypeOK, QueueTypeOK', Tips, [Next]_vars
                    PROVE  \A h \in History : BasedNow(h) => Based(h, head', Contents(main'))
  BY HeadsGrow, MainGrows, BasedLater DEF BasedNow

\* The fields of an entry of the chain.
LEMMA ParseEntries == \A h \in History : \A j \in 1..(Len(h) - Base(h)) :
    /\ ParseChain(h)[j].pr = h[Base(h) + j].pr
    /\ ParseChain(h)[j].was = h[Base(h) + j].was
    /\ ParseChain(h)[j].at = SubSeq(h, 1, Base(h) + j)
  <1> TAKE h \in History
  <1> TAKE j \in 1..(Len(h) - Base(h))
  <1> DEFINE e == ParseChain(h)[j]
             p == h[Base(h) + j].pr
             w == h[Base(h) + j].was
             a == SubSeq(h, 1, Base(h) + j)
  <1>1. e = [pr |-> p, was |-> w, at |-> a]
    BY ParseFacts
  <1> HIDE DEF e, p, w, a
  <1>2. e.pr = p /\ e.was = w /\ e.at = a
    BY <1>1
  <1> QED
    BY <1>2 DEF e, p, w, a

\* In a well-based history every entry of the chain is a sound merge.
LEMMA ChainSound == \A h \in History : \A heads, landed : Based(h, heads, landed) =>
    \A j \in DOMAIN ParseChain(h) :
       /\ Base(h) + j \in DOMAIN h
       /\ ParseChain(h)[j].pr = h[Base(h) + j].pr
       /\ ParseChain(h)[j].was = h[Base(h) + j].was
       /\ ParseChain(h)[j].at = SubSeq(h, 1, Base(h) + j)
       /\ Last(ParseChain(h)[j].at) = h[Base(h) + j]
       /\ h[Base(h) + j].marked
       /\ Sound(h[Base(h) + j], heads)
  <1> SUFFICES ASSUME NEW h \in History, NEW heads, NEW landed, Based(h, heads, landed),
                      NEW j \in DOMAIN ParseChain(h)
               PROVE  /\ Base(h) + j \in DOMAIN h
                      /\ ParseChain(h)[j].pr = h[Base(h) + j].pr
                      /\ ParseChain(h)[j].was = h[Base(h) + j].was
                      /\ ParseChain(h)[j].at = SubSeq(h, 1, Base(h) + j)
                      /\ Last(ParseChain(h)[j].at) = h[Base(h) + j]
                      /\ h[Base(h) + j].marked
                      /\ Sound(h[Base(h) + j], heads)
    OBVIOUS
  <1> DEFINE b == Base(h)
             n == b + j
  <1>1. b \in 0..Len(h) /\ DOMAIN ParseChain(h) = 1..(Len(h) - b)
    BY ParseFacts
  <1>2. Len(h) \in Nat /\ DOMAIN h = 1..Len(h)
    BY DEF History
  <1> HIDE DEF b
  <1>3. n \in Nat /\ n >= 1 /\ n <= Len(h) /\ n \in DOMAIN h /\ n \in b + 1..Len(h)
        /\ j \in 1..(Len(h) - b)
    BY <1>1, <1>2
  <1> USE DEF b
  <1>4. ParseChain(h)[j].pr = h[n].pr /\ ParseChain(h)[j].was = h[n].was
        /\ ParseChain(h)[j].at = SubSeq(h, 1, n)
    BY <1>3, ParseEntries
  <1>5. h[n].marked
    BY <1>3, BaseFacts
  <1>6. Sound(h[n], heads)
    BY <1>3, <1>5 DEF Based
  <1>7. Len(SubSeq(h, 1, n)) = n /\ SubSeq(h, 1, n)[n] = h[n]
    BY <1>3, PrefixOf
  <1> HIDE DEF n, b
  <1>8. Last(ParseChain(h)[j].at) = h[n]
    BY <1>3, <1>4, <1>7 DEF Last
  <1> QED
    BY <1>3, <1>5, <1>4, <1>6, <1>8 DEF n, b

\* The history a rebuild goes back to.
LEMMA TargetIsPrefix ==
    ASSUME NEW h \in History, NEW i \in DOMAIN ParseChain(h),
               ResetTarget(ParseChain(h), i) # NoBranch
    PROVE  /\ Base(h) + i - 1 \in 1..Len(h)
           /\ ResetTarget(ParseChain(h), i) = SubSeq(h, 1, Base(h) + i - 1)
  <1> DEFINE b == Base(h)
             chain == ParseChain(h)
  <1>1. b \in 0..Len(h) /\ DOMAIN chain = 1..(Len(h) - b)
        /\ \A j \in 1..(Len(h) - b) : chain[j].at = SubSeq(h, 1, b + j)
    BY ParseFacts, ParseEntries
  <1>2. Len(h) \in Nat
    BY DEF History
  <1> HIDE DEF b, chain
  <1>3. i \in 1..(Len(h) - b)
    BY <1>1 DEF chain
  <1>4. ResetTarget(chain, i) # NoBranch
    BY DEF chain
  <1>5. CASE i > 1
    <2>1. i - 1 \in 1..(Len(h) - b) /\ b + (i - 1) = b + i - 1 /\ b + i - 1 \in 1..Len(h)
      BY <1>1, <1>2, <1>3, <1>5
    <2>2. ResetTarget(chain, i) = chain[i - 1].at
      BY <1>5 DEF ResetTarget
    <2>3. chain[i - 1].at = SubSeq(h, 1, b + (i - 1))
      BY <1>1, <2>1
    <2> QED
      BY <2>1, <2>2, <2>3 DEF b, chain
  <1>6. CASE ~(i > 1)
    <2>1. i = 1 /\ 1 \in 1..(Len(h) - b) /\ b + 1 \in Nat /\ b + 1 <= Len(h) /\ b \in Nat
      BY <1>1, <1>2, <1>3, <1>6
    <2>2. chain[1].at = SubSeq(h, 1, b + 1)
      BY <1>1, <2>1
    <2>3. Len(SubSeq(h, 1, b + 1)) = b + 1
      BY <2>1, PrefixOf
    <2>4. ResetTarget(chain, i) = Front(chain[1].at) /\ Len(chain[1].at) # 1
      BY <1>4, <1>6 DEF ResetTarget
    <2>5. b # 0
      BY <2>2, <2>3, <2>4
    <2>6. Front(SubSeq(h, 1, b + 1)) = SubSeq(h, 1, b)
      <3>1. Front(SubSeq(h, 1, b + 1)) = SubSeq(SubSeq(h, 1, b + 1), 1, b)
        BY <2>1, <2>3 DEF Front
      <3>2. h \in Seq(Commit) /\ 1 \in 1..Len(h) /\ b + 1 \in 1..Len(h) /\ 1 \in 1..b + 1 - 1 + 1
            /\ b \in 1..b + 1 - 1 + 1
        BY <2>1, <2>5, <1>2 DEF History
      <3>3. SubSeq(SubSeq(h, 1, b + 1), 1, b) = SubSeq(h, 1 + 1 - 1, 1 + b - 1)
        BY <3>2, SubSeqOfSubSeq
      <3> QED
        BY <3>1, <3>3, <2>1
    <2>7. b + i - 1 = b /\ b \in 1..Len(h)
      BY <2>1, <2>5, <1>2
    <2> QED
      BY <2>2, <2>4, <2>6, <2>7 DEF b, chain
  <1> QED
    BY <1>5, <1>6

\* A merge of the live head under an earlier one is sound.
LEMMA FoldSound == ASSUME QueueTypeOK
                   PROVE  \A p \in PRs : \A was \in 1..head[p] :
                            /\ FoldOf(p, was, TRUE) \in Commit
                            /\ FoldOf(p, was, TRUE).marked /\ FoldOf(p, was, TRUE).pr = p
                            /\ Sound(FoldOf(p, was, TRUE), head)
  <1> TAKE p \in PRs
  <1> TAKE was \in 1..head[p]
  <1>1. head[p] \in 1..MaxHead /\ head[p] \in Nat
    BY Bounds DEF QueueTypeOK
  <1>2. was \in 0..MaxHead /\ head[p] \in was..head[p]
    BY <1>1, Bounds
  <1>3. FoldOf(p, was, TRUE) \in Commit
    BY <1>2, FoldTyped
  <1>4. FoldOf(p, was, TRUE).marked = TRUE /\ FoldOf(p, was, TRUE).pr = p
        /\ FoldOf(p, was, TRUE).was = was
        /\ FoldOf(p, was, TRUE).adds = {<<p, head[p]>>}
    BY DEF FoldOf
  <1> QED
    BY <1>2, <1>3, <1>4 DEF Sound

\* GitHub words the commit as asked.
LEMMA WordedUndisturbed == ASSUME QueueTypeOK, faults' = 0, NEW p, NEW was, Worded(p, was)
                           PROVE  MoveStaging(Append(staging, FoldOf(p, was, TRUE)))
  <1>1. PICK marked \in BOOLEAN :
            /\ IF marked THEN UNCHANGED faults ELSE Disturb("rename")
            /\ MoveStaging(Append(staging, FoldOf(p, was, marked)))
    BY DEF Worded
  <1>2. marked = TRUE
    BY <1>1, NoDisturbance
  <1> QED
    BY <1>1, <1>2

\* How staging moves when nothing is disturbed.
LEMMA StagingSteps ==
    ASSUME GreenIInv, Undisturbed, [Next]_vars, faults' = 0, staging' # staging, staging' # NoBranch
    PROVE  \/ staging' = main /\ (ListQueued \/ ResetStaging)
           \/ staging' = driver.tip /\ RefuseMember
           \/ /\ Rebuild /\ staging # NoBranch /\ driver.i \in DOMAIN driver.chain
              /\ driver.chain = ParseChain(staging)
              /\ ResetTarget(driver.chain, driver.i) # NoBranch
              /\ staging' = ResetTarget(driver.chain, driver.i)
           \/ /\ Refold \/ FoldMember
              /\ staging # NoBranch
              /\ \E p \in PRs : \E was \in 1..head[p] :
                 staging' = Append(staging, FoldOf(p, was, TRUE))
  <1>1. QueueTypeOK /\ Shape /\ Charted
    BY DEF GreenIInv, Undisturbed
  <1>2. \A h : MoveStaging(h) => staging' = h
    BY DEF MoveStaging
  <1>3. ~\E p \in PRs : \/ Approve(p) \/ AddQueued(p) \/ Withdraw(p) \/ Close(p) \/ Dequeue(p)
        \/ PushHead(p)
    BY DEF Approve, AddQueued, Withdraw, Close, Dequeue, PushHead, github, tip
  <1>4. ~(\/ PushMain \/ ApproveAdvance \/ CiStarts \/ CiEnds \/ CiReruns \/ StagingDeleted
          \/ CallFails \/ Crash \/ UNCHANGED vars)
    BY DEF PushMain, ApproveAdvance, CiStarts, CiEnds, CiReruns, CiChanges, StagingDeleted,
           DeleteBranch, CallFails, Crash, vars, github, tip
  <1>5. ~(\/ Tick \/ CheckMember \/ ReadCI \/ TimeOut \/ ExpireMember \/ Expel
          \/ ReadMember \/ SwapQueued \/ MarkTesting)
    BY DEF Tick, CheckMember, ReadCI, TimeOut, ExpireMember, Expel, ReadMember, SwapQueued,
           MarkTesting, tip
  <1>6. ~(Advance \/ MergeAdvance \/ CompleteMember \/ DeleteStaging)
    BY DEF Advance, MergeAdvance, CompleteMember, DeleteStaging, DeleteBranch, tip
  <1>7. CASE ListQueued
    BY <1>7, <1>2 DEF ListQueued, DeleteBranch, tip
  <1>8. CASE ResetStaging
    BY <1>8, <1>2 DEF ResetStaging, tip
  <1>9. CASE RefuseMember
    BY <1>9, <1>2 DEF RefuseMember, tip
  <1>10. CASE Rebuild
    BY <1>10, <1>1, <1>2 DEF Rebuild, tip, Shape, Charted, At
  <1>11. CASE Refold
    <2>1. /\ driver.i <= Len(driver.chain) /\ staging # NoBranch
          /\ Worded(driver.chain[driver.i].pr, driver.chain[driver.i].was)
      BY <1>11 DEF Refold, tip
    <2>2. driver.i \in DOMAIN driver.chain
      <3>1. driver.chain \in Seq(Entry) /\ driver.i \in 1..Len(driver.chain) + 1
        BY <1>1, <1>11 DEF Refold, Shape, At, QueueTypeOK, Driver
      <3> QED
        BY <3>1, <2>1
    <2>3. driver.chain[driver.i].pr \in PRs
          /\ driver.chain[driver.i].was \in 1..head[driver.chain[driver.i].pr]
      BY <1>1, <1>11, <2>2, EntryAt DEF Refold, Charted, Expelling, At
    <2>4. staging'
            = Append(staging, FoldOf(driver.chain[driver.i].pr, driver.chain[driver.i].was, TRUE))
      BY <1>1, <1>2, <2>1, WordedUndisturbed
    <2> QED
      BY <1>11, <2>1, <2>3, <2>4
  <1>12. CASE FoldMember
    <2>1. staging # NoBranch /\ Worded(Head(driver.todo), driver.was)
      BY <1>12 DEF FoldMember, tip
    <2>2. Head(driver.todo) \in PRs /\ driver.was \in 1..head[Head(driver.todo)]
      BY <1>1, <1>12, TodoHead DEF FoldMember, Shape, Charted, At
    <2>3. staging' = Append(staging, FoldOf(Head(driver.todo), driver.was, TRUE))
      BY <1>1, <1>2, <2>1, WordedUndisturbed
    <2> QED
      BY <1>12, <2>1, <2>2, <2>3
  <1> QED
    BY <1>3, <1>4, <1>5, <1>6, <1>7, <1>8, <1>9, <1>10, <1>11, <1>12 DEF Next, DriverStep

-----------------------------------------------------------------------------
(* The fields of the driver after each of its steps. *)

\* A tick looks at staging and decides.
LEMMA TickFields == ASSUME QueueTypeOK, Tick
    PROVE  /\ driver.pc = "idle"
           /\ \/ Stripped # {} /\ driver'.pc = "rebuild" /\ driver'.chain = Marked
                 /\ driver'.i = Min(Stripped)
              \/ Stripped = {} /\ TickChain = <<>> /\ driver'.pc = "list" /\ driver'.good = <<>>
              \/ Stripped = {} /\ TickChain # <<>> /\ driver'.pc = "check"
                 /\ driver'.chain = TickChain
                 /\ driver'.tip = staging /\ driver'.i = 1
           /\ staging' = staging /\ UNCHANGED <<pr, labels, mainline>> /\ head' = head
  <1>1. /\ At("idle")
        /\ driver' = IF Stripped # {}
                     THEN [Idle EXCEPT !.pc = "rebuild", !.chain = Marked, !.i = Min(Stripped)]
                     ELSE IF TickChain = <<>> THEN [Idle EXCEPT !.pc = "list", !.tip = staging]
                     ELSE [Idle EXCEPT !.pc = "check", !.chain = TickChain, !.tip = staging]
        /\ UNCHANGED <<pr, labels, tip, mainline, faults>> /\ Others
    BY TickUnfolds
  <1>2. CASE Stripped # {}
    BY <1>1, <1>2 DEF Idle, tip, Others, At
  <1>3. CASE Stripped = {} /\ TickChain = <<>>
    BY <1>1, <1>3 DEF Idle, tip, Others, At
  <1>4. CASE Stripped = {} /\ TickChain # <<>>
    BY <1>1, <1>4 DEF Idle, tip, Others, At
  <1> QED
    BY <1>2, <1>3, <1>4

\* A member is healthy, or the batch is rebuilt from it.
LEMMA CheckFields == ASSUME QueueTypeOK, CheckMember, faults' = 0
    PROVE  /\ driver.pc = "check" /\ driver'.chain = driver.chain /\ driver'.tip = driver.tip
           /\ \/ driver'.pc = "rebuild" /\ driver'.i = driver.i
              \/ /\ ~Unhealthy(driver.chain[driver.i])
                 /\ \/ driver.i < Len(driver.chain) /\ driver'.pc = "check"
                       /\ driver'.i = driver.i + 1
                    \/ /\ ~(driver.i < Len(driver.chain)) /\ driver'.i = driver.i
                       /\ driver'.pc = IF driver.tip = NoBranch THEN "list" ELSE "ci"
           /\ staging' = staging /\ UNCHANGED <<pr, labels, mainline>> /\ head' = head
  <1> DEFINE e == driver.chain[driver.i]
             n == Len(driver.chain)
             i == driver.i
             place == IF driver.tip = NoBranch THEN "list" ELSE "ci"
  <1>1. \A kind : ~Disturb(kind)
    BY NoDisturbance
  <1>2. \/ driver' = [driver EXCEPT !.pc = "rebuild"]
        \/ ~Unhealthy(e) /\ i < n /\ driver' = [driver EXCEPT !.i = i + 1]
        \/ ~Unhealthy(e) /\ ~(i < n) /\ driver' = [driver EXCEPT !.pc = place]
    BY <1>1 DEF CheckMember, Go
  <1>3. driver.pc = "check" /\ staging' = staging /\ UNCHANGED <<pr, labels, mainline>>
        /\ head' = head
    BY DEF CheckMember, At, tip, Others
  <1>4. DOMAIN driver = {"pc", "tip", "chain", "i", "todo", "was", "good", "bad"} /\ i = driver.i
    BY DriverDomain
  <1> HIDE DEF e, n, place, i
  <1>5. CASE driver' = [driver EXCEPT !.pc = "rebuild"]
    BY <1>3, <1>4, <1>5
  <1>6. CASE ~Unhealthy(e) /\ i < n /\ driver' = [driver EXCEPT !.i = i + 1]
    <2>1. driver'.chain = driver.chain /\ driver'.tip = driver.tip /\ driver'.i = i + 1
          /\ driver'.pc = driver.pc
      BY <1>4, <1>6
    <2> QED
      BY <2>1, <1>3, <1>6 DEF e, n, i
  <1>7. CASE ~Unhealthy(e) /\ ~(i < n) /\ driver' = [driver EXCEPT !.pc = place]
    <2>1. driver'.chain = driver.chain /\ driver'.tip = driver.tip /\ driver'.i = driver.i
          /\ driver'.pc = place
      BY <1>4, <1>7
    <2> QED
      BY <2>1, <1>3, <1>7 DEF e, n, i, place
  <1> QED
    BY <1>2, <1>5, <1>6, <1>7

\* The verdict is acted on.
LEMMA CiFields == ASSUME QueueTypeOK, ReadCI \/ TimeOut
    PROVE  /\ driver.pc = "ci"
           /\ \/ driver' = Idle
              \/ /\ driver'.chain = driver.chain /\ driver'.tip = driver.tip
                 /\ driver'.pc \in {"advance", "rebuild", "timeout"}
           /\ staging' = staging /\ UNCHANGED <<pr, labels, mainline>> /\ head' = head
  <1> DEFINE n == Len(driver.chain)
             todo == [j \in DOMAIN driver.chain |-> driver.chain[j].pr]
  <1>1. \/ driver' = [driver EXCEPT !.pc = "advance"]
        \/ driver' = [driver EXCEPT !.pc = "rebuild", !.i = n]
        \/ driver' = Idle
        \/ driver' = [driver EXCEPT !.pc = "timeout", !.todo = todo]
    BY DEF ReadCI, TimeOut, Go
  <1>2. driver.pc = "ci" /\ staging' = staging /\ UNCHANGED <<pr, labels, mainline>> /\ head' = head
    BY DEF ReadCI, TimeOut, At, tip, Others
  <1>3. DOMAIN driver = {"pc", "tip", "chain", "i", "todo", "was", "good", "bad"}
    BY DriverDomain
  <1> HIDE DEF n, todo
  <1>4. CASE driver' = [driver EXCEPT !.pc = "advance"]
    BY <1>2, <1>3, <1>4
  <1>5. CASE driver' = [driver EXCEPT !.pc = "rebuild", !.i = n]
    BY <1>2, <1>3, <1>5
  <1>6. CASE driver' = Idle
    BY <1>2, <1>6
  <1>7. CASE driver' = [driver EXCEPT !.pc = "timeout", !.todo = todo]
    BY <1>2, <1>3, <1>7
  <1> QED
    BY <1>1, <1>4, <1>5, <1>6, <1>7

\* A batch times out.
LEMMA ExpireFields == ASSUME QueueTypeOK, ExpireMember
    PROVE  /\ driver.pc = "timeout" /\ driver'.pc \in {"idle", "timeout"}
           /\ staging' = staging /\ UNCHANGED <<pr, mainline>> /\ head' = head
              /\ testing' \subseteq testing
  <1> DEFINE later == Tail(driver.todo)
  <1>1. driver' = Idle \/ driver' = [driver EXCEPT !.todo = later]
    BY DEF ExpireMember, Go
  <1>2. driver.pc = "timeout" /\ staging' = staging /\ UNCHANGED <<pr, mainline>> /\ head' = head
        /\ testing' \subseteq testing
    BY DEF ExpireMember, Unlabel, At, tip, Others
  <1>3. DOMAIN driver = {"pc", "tip", "chain", "i", "todo", "was", "good", "bad"}
    BY DriverDomain
  <1> HIDE DEF later
  <1>4. CASE driver' = Idle
    BY <1>2, <1>4 DEF Idle
  <1>5. CASE driver' = [driver EXCEPT !.todo = later]
    BY <1>2, <1>3, <1>5
  <1> QED
    BY <1>1, <1>4, <1>5

\* Staging goes back to before a member.
LEMMA RebuildFields == ASSUME QueueTypeOK, Rebuild
    PROVE  /\ driver.pc = "rebuild" /\ UNCHANGED <<pr, labels, mainline>> /\ head' = head
           /\ \/ driver'.pc = "idle" /\ staging' = staging
              \/ /\ staging # NoBranch /\ ResetTarget(driver.chain, driver.i) # NoBranch
                 /\ staging' = ResetTarget(driver.chain, driver.i)
                 /\ driver'.pc = "expel" /\ driver'.chain = driver.chain /\ driver'.i = driver.i
  <1>1. \/ driver' = Idle /\ staging' = staging
        \/ /\ staging # NoBranch /\ ResetTarget(driver.chain, driver.i) # NoBranch
           /\ staging' = ResetTarget(driver.chain, driver.i)
           /\ driver' = [driver EXCEPT !.pc = "expel"]
    BY DEF Rebuild, Go, MoveStaging, tip
  <1>2. driver.pc = "rebuild" /\ UNCHANGED <<pr, labels, mainline>> /\ head' = head
    BY DEF Rebuild, At, Others
  <1>3. CASE driver' = Idle /\ staging' = staging
    BY <1>2, <1>3 DEF Idle
  <1>4. CASE driver' = [driver EXCEPT !.pc = "expel"]
    <2>1. driver'.pc = "expel" /\ driver'.chain = driver.chain /\ driver'.i = driver.i
      BY <1>4, DriverDomain
    <2>2. ~(driver' = Idle)
      BY <2>1 DEF Idle
    <2> QED
      BY <1>1, <1>2, <2>1, <2>2
  <1> QED
    BY <1>1, <1>3, <1>4

\* A member loses its labels.
LEMMA ExpelFields == ASSUME QueueTypeOK, Expel, faults' = 0
    PROVE  /\ driver.pc \in {"expel", "expelLater"} /\ driver'.pc = "refold"
           /\ driver'.chain = driver.chain /\ driver'.i = driver.i + 1
           /\ testing' = testing \ {driver.chain[driver.i].pr}
           /\ staging' = staging /\ UNCHANGED <<pr, mainline>> /\ head' = head
  <1> DEFINE i == driver.i
             k == i + 1
  <1>1. driver.pc \in {"expel", "expelLater"} /\ driver' = [driver EXCEPT !.pc = "refold", !.i = k]
        /\ Unlabel(driver.chain[driver.i].pr)
        /\ staging' = staging /\ UNCHANGED <<pr, mainline>> /\ head' = head
    BY DEF Expel, Go, tip, Others
  <1>2. testing' = testing \ {driver.chain[driver.i].pr}
    BY <1>1, NoDisturbance DEF Unlabel
  <1> HIDE DEF k
  <1>3. driver'.pc = "refold" /\ driver'.chain = driver.chain /\ driver'.i = k
    BY <1>1, DriverDomain
  <1> QED
    BY <1>1, <1>2, <1>3 DEF k

\* A later member is merged again, or dropped.
LEMMA RefoldFields == ASSUME QueueTypeOK, Refold, faults' = 0
    PROVE  LET p == driver.chain[driver.i].pr IN
           /\ driver.pc = "refold" /\ UNCHANGED <<pr, labels, mainline>> /\ head' = head
           /\ \/ driver.i > Len(driver.chain) /\ driver'.pc = "idle" /\ staging' = staging
              \/ /\ driver.i <= Len(driver.chain) /\ staging # NoBranch
                 /\ \/ <<p, head[p]>> \in Contents(staging) /\ staging' = staging
                    \/ staging' = Append(staging, FoldOf(p, driver.chain[driver.i].was, TRUE))
                 /\ driver'.pc = "refold" /\ driver'.chain = driver.chain
                    /\ driver'.i = driver.i + 1
              \/ /\ driver.i <= Len(driver.chain) /\ staging' = staging
                 /\ driver'.pc = "expelLater" /\ driver'.chain = driver.chain
                    /\ driver'.i = driver.i
  <1> DEFINE p == driver.chain[driver.i].pr
             w == driver.chain[driver.i].was
             i == driver.i
             k == i + 1
             n == Len(driver.chain)
             again == /\ staging # NoBranch
                      /\ \/ <<p, head[p]>> \in Contents(staging) /\ staging' = staging
                         \/ staging' = Append(staging, FoldOf(p, w, TRUE))
  <1>1. driver.pc = "refold" /\ UNCHANGED <<pr, labels, mainline>> /\ head' = head
    BY DEF Refold, At, Others
  <1>2. Worded(p, w) => staging' = Append(staging, FoldOf(p, w, TRUE))
    BY WordedUndisturbed DEF MoveStaging
  <1>3. \/ i > n /\ driver' = Idle /\ staging' = staging
        \/ i <= n /\ again /\ driver' = [driver EXCEPT !.i = k]
        \/ i <= n /\ staging' = staging /\ driver' = [driver EXCEPT !.pc = "expelLater"]
    <2> HIDE DEF p, w
    <2> QED
      BY <1>2 DEF Refold, Go, tip, p, w
  <1>4. DOMAIN driver = {"pc", "tip", "chain", "i", "todo", "was", "good", "bad"}
    BY DriverDomain
  <1> HIDE DEF k, again, n, i
  <1>5. CASE i > n /\ driver' = Idle /\ staging' = staging
    BY <1>1, <1>5 DEF Idle, i, n
  <1>6. CASE i <= n /\ again /\ driver' = [driver EXCEPT !.i = k]
    <2>1. driver'.pc = driver.pc /\ driver'.chain = driver.chain /\ driver'.i = k
      BY <1>4, <1>6
    <2>2. again
      BY <1>6
    <2> QED
      BY <1>1, <1>6, <2>1, <2>2 DEF i, n, k, again
  <1>7. CASE i <= n /\ staging' = staging /\ driver' = [driver EXCEPT !.pc = "expelLater"]
    <2>1. driver'.pc = "expelLater" /\ driver'.chain = driver.chain /\ driver'.i = driver.i
      BY <1>4, <1>7
    <2> QED
      BY <1>1, <1>7, <2>1 DEF i, n
  <1> QED
    BY <1>3, <1>5, <1>6, <1>7

\* The queue is listed.
LEMMA ListFields == ASSUME QueueTypeOK, ListQueued
    PROVE  /\ driver.pc = "list" /\ UNCHANGED <<pr, labels, main, absorbed>> /\ head' = head
           /\ \/ driver'.pc = "idle"
              \/ driver'.pc = "reset" /\ driver'.good = driver.good /\ staging' = staging
  <1> DEFINE batch == NextBatch
  <1>1. driver.pc = "list" /\ UNCHANGED <<pr, labels, main, absorbed>> /\ head' = head
    BY DEF ListQueued, At, Others
  <1>2. \/ driver' = Idle
        \/ staging' = staging /\ driver' = [driver EXCEPT !.pc = "reset", !.todo = batch]
    BY DEF ListQueued, Go, tip
  <1> HIDE DEF batch
  <1>3. CASE driver' = Idle
    BY <1>1, <1>3 DEF Idle
  <1>4. CASE staging' = staging /\ driver' = [driver EXCEPT !.pc = "reset", !.todo = batch]
    BY <1>1, <1>4, DriverDomain
  <1> QED
    BY <1>2, <1>3, <1>4

\* A batch starts on main.
LEMMA ResetFields == ASSUME QueueTypeOK, ResetStaging
    PROVE  /\ driver.pc = "reset" /\ UNCHANGED <<pr, labels, mainline>> /\ head' = head
           /\ \/ driver'.pc = "idle" /\ staging' = staging
              \/ /\ driver'.pc = "read" /\ driver'.good = driver.good /\ driver'.tip = main
                 /\ staging' = main
  <1>1. driver.pc = "reset" /\ UNCHANGED <<pr, labels, mainline>> /\ head' = head
    BY DEF ResetStaging, At, Others
  <1>2. \/ driver' = Idle /\ staging' = staging
        \/ /\ staging' = main
           /\ driver' = [driver EXCEPT !.pc = "read", !.tip = main, !.chain = <<>>]
    BY DEF ResetStaging, Go, MoveStaging, tip
  <1>3. CASE driver' = Idle /\ staging' = staging
    BY <1>1, <1>3 DEF Idle
  <1>4. CASE /\ staging' = main
             /\ driver' = [driver EXCEPT !.pc = "read", !.tip = main, !.chain = <<>>]
    BY <1>1, <1>4, DriverDomain
  <1> QED
    BY <1>2, <1>3, <1>4

\* The head of the next member is read.
LEMMA ReadFields == ASSUME QueueTypeOK, ReadMember
    PROVE  /\ driver.pc = "read" /\ UNCHANGED <<pr, labels, mainline>> /\ head' = head
              /\ staging' = staging
           /\ driver'.good = driver.good /\ driver'.tip = driver.tip
           /\ \/ driver'.pc = "swap" /\ driver'.todo = driver.good
              \/ driver'.pc = "read"
              \/ driver'.pc = "fold" /\ driver'.todo = driver.todo /\ driver.todo # <<>>
                 /\ driver'.was = head[Head(driver.todo)]
  <1> DEFINE p == Head(driver.todo)
             later == Tail(driver.todo)
             bad == driver.bad \cup {p}
             now == head[p]
             good == driver.good
  <1>1. driver.pc = "read" /\ UNCHANGED <<pr, labels, mainline>> /\ head' = head
        /\ staging' = staging
    BY DEF ReadMember, At, tip, Others
  <1>2. \/ driver' = [driver EXCEPT !.pc = "swap", !.todo = good]
        \/ driver' = [driver EXCEPT !.todo = later, !.bad = bad]
        \/ driver.todo # <<>> /\ driver' = [driver EXCEPT !.pc = "fold", !.was = now]
    BY DEF ReadMember, Go
  <1>3. DOMAIN driver = {"pc", "tip", "chain", "i", "todo", "was", "good", "bad"}
        /\ good = driver.good
    BY DriverDomain
  <1> HIDE DEF p, later, bad, now, good
  <1>4. CASE driver' = [driver EXCEPT !.pc = "swap", !.todo = good]
    BY <1>1, <1>3, <1>4
  <1>5. CASE driver' = [driver EXCEPT !.todo = later, !.bad = bad]
    BY <1>1, <1>3, <1>5
  <1>6. CASE driver.todo # <<>> /\ driver' = [driver EXCEPT !.pc = "fold", !.was = now]
    <2>1. driver'.pc = "fold" /\ driver'.was = now /\ driver'.todo = driver.todo
          /\ driver'.good = driver.good
          /\ driver'.tip = driver.tip
      BY <1>3, <1>6
    <2> QED
      BY <1>1, <1>6, <2>1 DEF now, p
  <1> QED
    BY <1>2, <1>4, <1>5, <1>6

\* A member is merged or refused.
LEMMA FoldFields == ASSUME QueueTypeOK, FoldMember, faults' = 0
    PROVE  LET p == Head(driver.todo) IN
           /\ driver.pc = "fold" /\ UNCHANGED <<pr, labels, mainline>> /\ head' = head
           /\ \/ /\ staging # NoBranch /\ staging' = Append(staging, FoldOf(p, driver.was, TRUE))
                 /\ driver'.pc = "read" /\ driver'.good = Append(driver.good, p)
                    /\ driver'.tip = driver.tip
              \/ /\ staging' = staging
                 /\ driver'.pc = "read" /\ driver'.good = driver.good /\ driver'.tip = driver.tip
              \/ staging' = staging /\ driver'.pc = "idle"
  <1> DEFINE p == Head(driver.todo)
             later == Tail(driver.todo)
             bad == driver.bad \cup {p}
             good == Append(driver.good, p)
             old == driver.good
             folded == staging # NoBranch /\ staging' = Append(staging, FoldOf(p, driver.was, TRUE))
  <1>1. driver.pc = "fold" /\ UNCHANGED <<pr, labels, mainline>> /\ head' = head
    BY DEF FoldMember, At, Others
  <1>2. DOMAIN driver = {"pc", "tip", "chain", "i", "todo", "was", "good", "bad"}
        /\ old = driver.good
    BY DriverDomain
  <1>3. Worded(p, driver.was) => staging' = Append(staging, FoldOf(p, driver.was, TRUE))
    BY WordedUndisturbed DEF MoveStaging
  <1>4. \/ folded
           /\ driver' = [driver EXCEPT !.pc = "read", !.todo = later, !.was = 0, !.good = good]
        \/ staging' = staging
           /\ driver' = [driver EXCEPT !.pc = "read", !.todo = later, !.was = 0, !.bad = bad]
        \/ staging' = staging /\ driver' = Idle
    BY <1>2, <1>3 DEF FoldMember, Go, tip
  <1> HIDE DEF p, later, bad, good, old, folded
  <1>5. CASE folded
             /\ driver' = [driver EXCEPT !.pc = "read", !.todo = later, !.was = 0, !.good = good]
    <2>1. driver'.pc = "read" /\ driver'.good = good /\ driver'.tip = driver.tip
      BY <1>2, <1>5
    <2>2. folded
      BY <1>5
    <2> QED
      BY <1>1, <2>1, <2>2 DEF folded, good, p
  <1>6. CASE staging' = staging
             /\ driver' = [driver EXCEPT !.pc = "read", !.todo = later, !.was = 0, !.bad = bad]
    <2>1. driver'.pc = "read" /\ driver'.good = driver.good /\ driver'.tip = driver.tip
      BY <1>2, <1>6
    <2> QED
      BY <1>1, <1>6, <2>1
  <1>7. CASE staging' = staging /\ driver' = Idle
    BY <1>1, <1>7 DEF Idle
  <1> QED
    BY <1>4, <1>5, <1>6, <1>7

\* The queued label goes.
LEMMA SwapFields == ASSUME QueueTypeOK, SwapQueued
    PROVE  /\ driver.pc = "swap" /\ UNCHANGED <<pr, testing, mainline>> /\ head' = head
              /\ staging' = staging
           /\ driver'.good = driver.good /\ driver'.tip = driver.tip /\ driver'.todo = driver.todo
           /\ \/ driver'.pc = "refuse"
              \/ driver'.pc = "mark"
  <1>1. driver.pc = "swap" /\ UNCHANGED <<pr, testing, mainline>> /\ head' = head
        /\ staging' = staging
    BY DEF SwapQueued, At, tip, Others
  <1>2. \/ driver' = [driver EXCEPT !.pc = "refuse"]
        \/ driver' = [driver EXCEPT !.pc = "mark"]
    BY DEF SwapQueued, Go
  <1>3. DOMAIN driver = {"pc", "tip", "chain", "i", "todo", "was", "good", "bad"}
    BY DriverDomain
  <1>4. CASE driver' = [driver EXCEPT !.pc = "refuse"]
    BY <1>1, <1>3, <1>4
  <1>5. CASE driver' = [driver EXCEPT !.pc = "mark"]
    BY <1>1, <1>3, <1>5
  <1> QED
    BY <1>2, <1>4, <1>5

\* The testing label comes.
LEMMA MarkFields == ASSUME QueueTypeOK, MarkTesting
    PROVE  /\ driver.pc = "mark" /\ UNCHANGED <<pr, queued, mainline>> /\ head' = head
              /\ staging' = staging
           /\ testing' \subseteq testing \cup {Head(driver.todo)}
           /\ driver'.good = driver.good /\ driver'.tip = driver.tip
              /\ driver'.todo = Tail(driver.todo)
           /\ driver'.pc = "swap"
  <1> DEFINE later == Tail(driver.todo)
  <1>1. driver.pc = "mark" /\ UNCHANGED <<pr, queued, mainline>> /\ head' = head
        /\ staging' = staging
        /\ testing' \subseteq testing \cup {Head(driver.todo)}
    BY DEF MarkTesting, At, tip, Others
  <1>2. driver' = [driver EXCEPT !.pc = "swap", !.todo = later]
    BY DEF MarkTesting, Go
  <1> HIDE DEF later
  <1>3. driver'.good = driver.good /\ driver'.tip = driver.tip /\ driver'.todo = later
        /\ driver'.pc = "swap"
    BY <1>2, DriverDomain
  <1> QED
    BY <1>1, <1>3 DEF later

\* Refused members lose their labels.
LEMMA RefuseFields == ASSUME QueueTypeOK, RefuseMember
    PROVE  /\ driver.pc = "refuse" /\ UNCHANGED <<pr, mainline>> /\ head' = head
           /\ testing' \subseteq testing
           /\ \/ staging' = staging /\ driver'.good = driver.good /\ driver'.tip = driver.tip
                 /\ driver'.pc = "refuse"
              \/ driver'.pc = "idle" /\ (staging' = staging \/ driver.good = <<>>)
  <1>1. driver.pc = "refuse" /\ UNCHANGED <<pr, mainline>> /\ head' = head
        /\ testing' \subseteq testing
    BY DEF RefuseMember, Unlabel, At, tip, Others
  <1>2. \/ staging' = staging /\ \E bad : driver' = [driver EXCEPT !.bad = bad]
        \/ driver' = Idle /\ (staging' = staging \/ driver.good = <<>>)
    BY DEF RefuseMember, Go, MoveStaging, tip
  <1>3. CASE staging' = staging /\ \E bad : driver' = [driver EXCEPT !.bad = bad]
    <2>1. driver'.pc = driver.pc /\ driver'.good = driver.good /\ driver'.tip = driver.tip
      BY <1>3, DriverDomain
    <2> QED
      BY <1>1, <1>3, <2>1
  <1>4. CASE driver' = Idle /\ (staging' = staging \/ driver.good = <<>>)
    BY <1>1, <1>4 DEF Idle
  <1> QED
    BY <1>2, <1>3, <1>4

\* The members of the chain in order.
Batch == [j \in DOMAIN driver.chain |-> driver.chain[j].pr]

\* Main is advanced, or the advance pull request opened.
LEMMA AdvanceFields == ASSUME QueueTypeOK, Advance
    PROVE  /\ driver.pc = "advance" /\ UNCHANGED labels /\ head' = head /\ staging' = staging
           /\ absorbed' = absorbed
           /\ \/ driver'.pc = "idle" /\ UNCHANGED <<main, pr>>
              \/ /\ driver'.pc = "merge" /\ driver'.chain = driver.chain /\ driver'.tip = driver.tip
                 /\ UNCHANGED <<main, pr>>
              \/ /\ driver'.pc = "complete" /\ driver'.todo = Batch
                 /\ \/ main' = Last(driver.chain).at /\ MoveMain(main')
                    \/ NothingToMerge /\ UNCHANGED <<main, pr>>
  <1> DEFINE todo == Batch
  <1>1. driver.pc = "advance" /\ UNCHANGED labels /\ head' = head /\ staging' = staging
        /\ absorbed' = absorbed
    BY DEF Advance, At, tip, Others
  <1>2. \/ driver' = Idle /\ UNCHANGED <<main, pr>>
        \/ driver' = [driver EXCEPT !.pc = "merge"] /\ UNCHANGED <<main, pr>>
        \/ /\ driver' = [driver EXCEPT !.pc = "complete", !.todo = todo]
           /\ \/ main' = Last(driver.chain).at /\ MoveMain(main')
              \/ NothingToMerge /\ UNCHANGED <<main, pr>>
    BY DEF Advance, Go, Merged, Batch, MoveMain
  <1>3. DOMAIN driver = {"pc", "tip", "chain", "i", "todo", "was", "good", "bad"}
    BY DriverDomain
  <1> HIDE DEF todo
  <1>4. CASE driver' = Idle /\ UNCHANGED <<main, pr>>
    BY <1>1, <1>4 DEF Idle
  <1>5. CASE driver' = [driver EXCEPT !.pc = "merge"] /\ UNCHANGED <<main, pr>>
    BY <1>1, <1>3, <1>5
  <1>6. CASE /\ driver' = [driver EXCEPT !.pc = "complete", !.todo = todo]
             /\ \/ main' = Last(driver.chain).at /\ MoveMain(main')
                \/ NothingToMerge /\ UNCHANGED <<main, pr>>
    <2>1. driver'.pc = "complete" /\ driver'.todo = todo
      BY <1>3, <1>6
    <2>2. todo = Batch
      BY DEF todo
    <2> HIDE DEF Batch
    <2> QED
      BY <1>1, <1>6, <2>1, <2>2
  <1> QED
    BY <1>2, <1>4, <1>5, <1>6

\* The advance pull request is merged.
LEMMA MergeFields == ASSUME QueueTypeOK, MergeAdvance
    PROVE  /\ driver.pc = "merge" /\ UNCHANGED labels /\ head' = head /\ staging' = staging
           /\ \/ driver'.pc = "idle" /\ UNCHANGED <<pr, main, absorbed>>
              \/ /\ driver'.pc = "complete" /\ driver'.todo = Batch
                 /\ advance.open
                 /\ main' = Append(main, Plain(Contents(staging) \ Contents(main)))
                    /\ MoveMain(main')
                 /\ absorbed' = absorbed \cup {staging}
  <1> DEFINE todo == Batch
             merged == /\ advance.open
                       /\ main' = Append(main, Plain(Contents(staging) \ Contents(main)))
                          /\ MoveMain(main')
                       /\ absorbed' = absorbed \cup {staging}
  <1>1. driver.pc = "merge" /\ UNCHANGED labels /\ head' = head /\ staging' = staging
    BY DEF MergeAdvance, At, tip, Others
  <1>2. \/ driver' = Idle /\ UNCHANGED <<pr, main, absorbed>>
        \/ driver' = [driver EXCEPT !.pc = "complete", !.todo = todo] /\ merged
    BY DEF MergeAdvance, Go, Merged, Batch, MoveMain, mainline
  <1> HIDE DEF todo, merged
  <1>3. CASE driver' = Idle /\ UNCHANGED <<pr, main, absorbed>>
    BY <1>1, <1>3 DEF Idle
  <1>4. CASE driver' = [driver EXCEPT !.pc = "complete", !.todo = todo] /\ merged
    <2>1. driver'.pc = "complete" /\ driver'.todo = todo
      BY <1>4, DriverDomain
    <2>2. merged
      BY <1>4
    <2> QED
      BY <1>1, <2>1, <2>2 DEF todo, merged
  <1> QED
    BY <1>2, <1>3, <1>4

\* A member is announced.
LEMMA CompleteFields == ASSUME QueueTypeOK, CompleteMember, faults' = 0
    PROVE  /\ driver.pc = "complete" /\ driver.todo # <<>>
           /\ UNCHANGED <<pr, queued, mainline>> /\ head' = head /\ staging' = staging
           /\ testing' = testing \ {Head(driver.todo)}
           /\ driver'.pc = "complete" /\ driver'.todo = Tail(driver.todo)
  <1> DEFINE later == Tail(driver.todo)
  <1>1. /\ driver.pc = "complete" /\ driver.todo # <<>>
        /\ UNCHANGED <<pr, queued, mainline>> /\ head' = head /\ staging' = staging
        /\ testing' = testing \ {Head(driver.todo)}
    BY NoDisturbance DEF CompleteMember, At, tip, Others
  <1>2. driver' = [driver EXCEPT !.todo = later]
    BY DEF CompleteMember, Go
  <1> HIDE DEF later
  <1>3. driver'.pc = driver.pc /\ driver'.todo = later
    BY <1>2, DriverDomain
  <1> QED
    BY <1>1, <1>3 DEF later

\* Staging is deleted.
LEMMA DeleteFields == ASSUME QueueTypeOK, DeleteStaging
    PROVE  /\ driver.pc = "complete" /\ driver.todo = <<>>
           /\ UNCHANGED <<pr, labels, main, absorbed>> /\ head' = head
           /\ driver'.pc = "idle"
  BY DEF DeleteStaging, Go, Idle, At, Others

\* What others do while the driver waits or works.
LEMMA OutsideFields == ASSUME QueueTypeOK, Outside \/ UNCHANGED vars, faults' = 0
    PROVE  driver' = driver /\ staging' = staging /\ LabelledOpen' \subseteq LabelledOpen
  <1>1. ~StagingDeleted
    BY NoDisturbance DEF StagingDeleted
  <1>2. driver' = driver /\ staging' = staging
    BY <1>1 DEF Outside, Approve, AddQueued, Withdraw, Close, Dequeue, PushHead, PushMain,
       ApproveAdvance,
           CiStarts, CiEnds, CiReruns, CiChanges, Others, Rest, vars, github, tip
  <1>3. testing' \subseteq testing
    BY <1>1 DEF Outside, Approve, AddQueued, Withdraw, Close, Dequeue, Unlabel, PushHead, PushMain,
       ApproveAdvance,
           CiStarts, CiEnds, CiReruns, CiChanges, Others, Rest, vars, github, labels
  <1>4. \A p \in PRs : pr'[p] = "open" => pr[p] = "open"
    <2>1. CASE pr' = pr
      BY <2>1
    <2>2. CASE \E p \in PRs : Close(p)
      BY <2>2 DEF Close, QueueTypeOK
    <2>3. CASE PushMain
      BY <2>3 DEF PushMain, MoveMain
    <2>4. (Outside \/ UNCHANGED vars) => pr' = pr \/ (\E p \in PRs : Close(p)) \/ PushMain
      BY <1>1 DEF Outside, Approve, AddQueued, Withdraw, Dequeue, PushHead, ApproveAdvance,
           CiStarts, CiEnds, CiReruns, CiChanges, Others, Rest, vars, github
    <2> QED
      BY <2>1, <2>2, <2>3, <2>4
  <1>5. testing \subseteq PRs
    BY DEF QueueTypeOK
  <1> QED
    BY <1>2, <1>3, <1>4, <1>5 DEF LabelledOpen

-----------------------------------------------------------------------------
(* Histories is inductive. *)

\* No history holds a head that was never pushed.
LEMMA BasedBound == \A h \in History, heads \in Heads : \A landed :
    /\ Based(h, heads, landed)
    /\ \A p \in PRs, v \in Nat : <<p, v>> \in landed => v <= heads[p]
    => \A p \in PRs, v \in Nat : <<p, v>> \in Contents(h) => v <= heads[p]
  <1> SUFFICES ASSUME NEW h \in History, NEW heads \in Heads, NEW landed, Based(h, heads, landed),
                      \A p \in PRs, v \in Nat : <<p, v>> \in landed => v <= heads[p],
                      NEW p \in PRs, NEW v \in Nat, <<p, v>> \in Contents(h)
               PROVE  v <= heads[p]
    OBVIOUS
  <1>1. PICK k \in DOMAIN h : <<p, v>> \in h[k].adds
    BY ContentsIn
  <1>2. CASE h[k].marked
    <2>1. Sound(h[k], heads)
      BY <1>1, <1>2 DEF Based
    <2>2. PICK w \in h[k].was..heads[h[k].pr] : h[k].adds = {<<h[k].pr, w>>}
      BY <2>1 DEF Sound
    <2>3. <<p, v>> = <<h[k].pr, w>>
      BY <1>1, <2>2
    <2>4. h[k].pr = p /\ w = v
      BY <2>3
    <2>5. heads[p] \in Nat
      BY Bounds DEF Heads
    <2> QED
      BY <2>2, <2>4, <2>5
  <1>3. CASE ~h[k].marked
    <2>1. k \in 1..k
      BY <1>1 DEF History
    <2>2. h[k].adds \subseteq landed
      BY <1>1, <1>3, <2>1 DEF Based
    <2> QED
      BY <1>1, <2>2
  <1> QED
    BY <1>2, <1>3

\* A commit of main itself on top.
LEMMA PlainOnTop == \A h \in History, c \in Commit : \A heads, landed, further :
    /\ Based(h, heads, landed) /\ ~c.marked
    /\ Contents(Append(h, c)) \subseteq further
    => Based(Append(h, c), heads, further)
  <1> SUFFICES ASSUME NEW h \in History, NEW c \in Commit, NEW heads, NEW landed, NEW further,
                      Based(h, heads, landed), ~c.marked, Contents(Append(h, c)) \subseteq further
               PROVE  Based(Append(h, c), heads, further)
    OBVIOUS
  <1>1. Len(h) \in Nat /\ DOMAIN h = 1..Len(h) /\ DOMAIN Append(h, c) = 1..(Len(h) + 1)
        /\ Append(h, c) \in History
    BY DEF History
  <1>2. (\A j \in 1..Len(h) : Append(h, c)[j] = h[j]) /\ Append(h, c)[Len(h) + 1] = c
    BY DEF History
  <1>3. \A j \in DOMAIN Append(h, c) : Append(h, c)[j].marked => Sound(Append(h, c)[j], heads)
    <2> SUFFICES ASSUME NEW j \in 1..(Len(h) + 1), Append(h, c)[j].marked
                 PROVE  Sound(Append(h, c)[j], heads)
      BY <1>1
    <2>1. j # Len(h) + 1
      BY <1>2
    <2>2. j \in 1..Len(h)
      BY <1>1, <2>1
    <2> QED
      BY <2>2, <1>1, <1>2 DEF Based
  <1> QED
    BY <1>1, <1>3, LandedIsBased

\* No head among these changes is later than the pull request's own.
Recorded(changes) == \A p \in PRs, v \in Nat : <<p, v>> \in changes => v <= head[p]

\* A pull request whose head has landed is not open.
LEMMA MovedMain == ASSUME QueueTypeOK, NEW h, MoveMain(h), head' = head
    PROVE  \A p \in PRs : pr'[p] = "open" => <<p, head'[p]>> \notin Contents(main')
  BY DEF MoveMain

\* What is known of main and of what it has absorbed.
LEMMA MainHistories ==
    ASSUME GreenIInv, GreenIInv', Histories, Charted, [Next]_vars, faults' = 0
    PROVE  /\ \A x \in absorbed' : Contents(x) \subseteq Contents(main')
           /\ \A p \in PRs, v \in Nat : <<p, v>> \in Contents(main') => v <= head'[p]
           /\ \A p \in PRs : pr'[p] = "open" => <<p, head'[p]>> \notin Contents(main')
           /\ Based(main', head', Contents(main'))
  <1>1. QueueTypeOK /\ QueueTypeOK' /\ Tips /\ Verdict /\ Shape
    BY DEF GreenIInv
  <1>2. /\ head \in Heads /\ head' \in Heads
        /\ \A p \in PRs : head[p] \in Nat /\ head'[p] \in Nat /\ head[p] <= head'[p]
    BY <1>1, HeadsGrow
  <1>3. /\ main \in History /\ main' \in History
        /\ Contents(main) \subseteq Contents(main')
    BY <1>1, MainGrows
  <1>4. \A h \in History : BasedNow(h) => Based(h, head', Contents(main'))
    BY <1>1, StillBased
  <1>5. Recorded(Contents(main)) /\ BasedNow(main) /\ (staging # NoBranch => BasedNow(staging))
        /\ \A x \in absorbed : Contents(x) \subseteq Contents(main)
    BY DEF Histories, Recorded
  <1>6. staging # NoBranch => staging \in History /\ Recorded(Contents(staging))
    <2>1. staging # NoBranch => staging \in History
      BY <1>1 DEF QueueTypeOK
    <2> QED
      BY <2>1, <1>2, <1>5, BasedBound DEF Recorded, BasedNow
  <1>7. CASE main' = main /\ absorbed' = absorbed /\ (pr' = pr \/ \E p \in PRs : Close(p))
    <2>1. \A p \in PRs, v \in Nat : <<p, v>> \in Contents(main') => v <= head'[p]
      BY <1>2, <1>5, <1>7 DEF Recorded
    <2>2. \A p \in PRs : pr'[p] = "open" => <<p, head'[p]>> \notin Contents(main')
      <3> SUFFICES ASSUME NEW p \in PRs, pr'[p] = "open" PROVE <<p, head'[p]>> \notin Contents(main)
        BY <1>7
      <3>1. pr[p] = "open"
        BY <1>1, <1>7 DEF Close, QueueTypeOK
      <3>2. CASE head'[p] = head[p]
        BY <3>1, <3>2 DEF Histories
      <3>3. CASE head'[p] # head[p]
        BY <3>3, <1>2, <1>5 DEF Recorded
      <3> QED
        BY <3>2, <3>3
    <2> QED
      BY <2>1, <2>2, <1>3, <1>4, <1>5, <1>7
  <1>8. CASE PushMain
    <2>1. PICK c \in {<<0, moves + 1>>} \cup {<<p, head[p]>> : p \in {q \in PRs : pr[q] = "open"}} :
             MoveMain(Append(main, Plain({c})))
      BY <1>8 DEF PushMain
    <2>2. c \in Changes
      BY <2>1, <1>1, Bounds DEF Changes, QueueTypeOK
    <2>3. Plain({c}) \in Commit /\ ~Plain({c}).marked /\ Plain({c}).adds = {c}
      BY <2>2, PlainTyped DEF Plain
    <2>4. main' = Append(main, Plain({c})) /\ head' = head /\ absorbed' = absorbed
      BY <2>1, <1>8 DEF MoveMain, PushMain
    <2>5. Contents(main') = Contents(main) \cup {c}
      BY <1>3, <2>3, <2>4, ContentsAppend
    <2>6. \A p \in PRs, v \in Nat : <<p, v>> = c => v <= head[p]
      BY <2>1, <1>2, Bounds
    <2>7. \A p \in PRs, v \in Nat : <<p, v>> \in Contents(main') => v <= head'[p]
      BY <2>4, <2>5, <2>6, <1>5 DEF Recorded
    <2>8. Based(main', head', Contents(main'))
      BY <1>3, <1>5, <2>3, <2>4, PlainOnTop DEF BasedNow
    <2>9. \A p \in PRs : pr'[p] = "open" => <<p, head'[p]>> \notin Contents(main')
      BY <1>1, <2>1, <2>4, MovedMain
    <2> QED
      BY <2>4, <2>7, <2>8, <2>9, <1>3, <1>5
  <1>9. CASE Advance /\ main' = Last(driver.chain).at /\ MoveMain(main') /\ absorbed' = absorbed
             /\ head' = head
    <2>1. driver.pc = "advance"
      BY <1>9 DEF Advance, At
    <2>2. main' = staging /\ staging # NoBranch
      BY <2>1, <1>1, <1>9 DEF Charted, Verdict, Under
    <2>3. \A p \in PRs, v \in Nat : <<p, v>> \in Contents(main') => v <= head'[p]
      BY <2>2, <1>6, <1>9 DEF Recorded
    <2>4. Based(main', head', Contents(main'))
      BY <2>2, <1>4, <1>5, <1>6
    <2>5. \A p \in PRs : pr'[p] = "open" => <<p, head'[p]>> \notin Contents(main')
      BY <1>1, <1>9, MovedMain
    <2> QED
      BY <2>3, <2>4, <2>5, <1>3, <1>5, <1>9
  <1>10. CASE /\ main' = Append(main, Plain(Contents(staging) \ Contents(main))) /\ MoveMain(main')
              /\ absorbed' = absorbed \cup {staging} /\ advance.open /\ head' = head
    <2>1. staging # NoBranch
      BY <1>1, <1>10 DEF Tips
    <2>2. Plain(Contents(staging) \ Contents(main)) \in Commit
      BY <1>3, <1>6, <2>1, ContentsTyped, PlainTyped
    <2>3. Contents(main') = Contents(main) \cup Contents(staging)
      <3>1. Contents(main') = Contents(main) \cup (Contents(staging) \ Contents(main))
        BY <1>3, <1>10, <2>2, ContentsAppend DEF Plain
      <3> QED
        BY <3>1
    <2>4. \A p \in PRs, v \in Nat : <<p, v>> \in Contents(main') => v <= head'[p]
      BY <2>1, <2>3, <1>5, <1>6, <1>10 DEF Recorded
    <2>5. Based(main', head', Contents(main'))
      <3>1. ~Plain(Contents(staging) \ Contents(main)).marked
        BY DEF Plain
      <3> QED
        BY <1>3, <1>5, <1>10, <2>2, <3>1, PlainOnTop DEF BasedNow
    <2>6. \A p \in PRs : pr'[p] = "open" => <<p, head'[p]>> \notin Contents(main')
      BY <1>1, <1>10, MovedMain
    <2>7. \A x \in absorbed' : Contents(x) \subseteq Contents(main')
      BY <1>5, <1>10, <2>3
    <2> QED
      BY <2>4, <2>5, <2>6, <2>7
  <1>11. CASE MergeAdvance /\ advance.open
    <2>1. CASE driver'.pc = "idle" /\ UNCHANGED <<pr, main, absorbed>>
      BY <2>1, <1>7
    <2> QED
      BY <2>1, <1>1, <1>10, <1>11, MergeFields
  <1> QED
    BY <1>7, <1>8, <1>9, <1>11, MainSteps

\* A batch keeps the tip it was started on.
LEMMA BuildingSteps == ASSUME QueueTypeOK, Shape, [Next]_vars, faults' = 0, driver'.pc \in Building
    PROVE  \/ driver.pc \in Building /\ driver'.tip = driver.tip
           \/ driver'.tip = main /\ ResetStaging
  <1>1. CASE Outside \/ UNCHANGED vars
    BY <1>1, OutsideFields
  <1>2. CASE CallFails \/ Crash
    BY <1>2, NoDisturbance DEF CallFails, Crash
  <1>3. ~(Tick \/ CheckMember \/ ReadCI \/ TimeOut \/ ExpireMember)
    BY TickFields, CheckFields, CiFields, ExpireFields DEF Building, Idle
  <1>4. ~(Rebuild \/ Expel \/ Refold \/ ListQueued)
    BY RebuildFields, ExpelFields, RefoldFields, ListFields DEF Building
  <1>5. CASE ResetStaging
    BY <1>5, ResetFields DEF Building
  <1>6. CASE ReadMember \/ FoldMember \/ SwapQueued \/ MarkTesting \/ RefuseMember
    BY <1>6, ReadFields, FoldFields, SwapFields, MarkFields, RefuseFields DEF Building
  <1>7. ~(Advance \/ MergeAdvance \/ CompleteMember \/ DeleteStaging)
    BY AdvanceFields, MergeFields, CompleteFields, DeleteFields DEF Building
  <1> QED
    BY <1>1, <1>2, <1>3, <1>4, <1>5, <1>6, <1>7 DEF Next, DriverStep, Outside

\* Histories is inductive.
LEMMA HistoriesStep ==
    ASSUME GreenIInv, GreenIInv', Undisturbed, [Next]_vars, faults' = 0
    PROVE  Histories'
  <1>1. QueueTypeOK /\ QueueTypeOK' /\ Tips /\ Shape /\ Shape' /\ Histories /\ Charted
    BY DEF GreenIInv, Undisturbed
  <1>2. /\ \A x \in absorbed' : Contents(x) \subseteq Contents(main')
        /\ \A p \in PRs, v \in Nat : <<p, v>> \in Contents(main') => v <= head'[p]
        /\ \A p \in PRs : pr'[p] = "open" => <<p, head'[p]>> \notin Contents(main')
        /\ Based(main', head', Contents(main'))
    BY <1>1, MainHistories
  <1>3. \A h \in History : BasedNow(h) => Based(h, head', Contents(main'))
    BY <1>1, StillBased
  <1>4. main \in History /\ BasedNow(main)
        /\ (staging # NoBranch => staging \in History /\ BasedNow(staging))
    BY <1>1 DEF Histories, QueueTypeOK
  <1>5. driver.pc \in Building => driver.tip \in History /\ BasedNow(driver.tip)
    BY <1>1 DEF Histories, QueueTypeOK, Driver, Shape
  <1>6. ASSUME staging' # NoBranch PROVE Based(staging', head', Contents(main'))
    <2>1. CASE staging' = staging
      BY <2>1, <1>3, <1>4, <1>6
    <2>2. CASE staging' = main
      BY <2>2, <1>3, <1>4
    <2>3. CASE staging' = driver.tip /\ RefuseMember
      <3>1. driver.pc \in Building
        BY <2>3 DEF RefuseMember, At, Building
      <3> QED
        BY <2>3, <3>1, <1>3, <1>5
    <2>4. CASE /\ staging # NoBranch /\ driver.i \in DOMAIN driver.chain
               /\ driver.chain = ParseChain(staging)
               /\ ResetTarget(driver.chain, driver.i) # NoBranch
               /\ staging' = ResetTarget(driver.chain, driver.i)
      <3>1. PICK n \in Nat : n <= Len(staging) /\ staging' = SubSeq(staging, 1, n)
        <4>1. Base(staging) + driver.i - 1 \in 1..Len(staging)
              /\ ResetTarget(ParseChain(staging), driver.i)
                   = SubSeq(staging, 1, Base(staging) + driver.i - 1)
          BY <2>4, <1>4, TargetIsPrefix
        <4> DEFINE n == Base(staging) + driver.i - 1
        <4>2. Len(staging) \in Nat
          BY <2>4, <1>4 DEF History
        <4>3. n \in 1..Len(staging) /\ staging' = SubSeq(staging, 1, n)
          BY <2>4, <4>1
        <4> HIDE DEF n
        <4>4. n \in Nat /\ n <= Len(staging)
          BY <4>2, <4>3
        <4> QED
          BY <4>3, <4>4
      <3>2. Based(staging, head', Contents(main'))
        BY <2>4, <1>3, <1>4
      <3> QED
        BY <3>1, <3>2, <2>4, <1>4, BasedPrefix
    <2>5. CASE /\ staging # NoBranch
               /\ \E p \in PRs : \E was \in 1..head[p] :
                  staging' = Append(staging, FoldOf(p, was, TRUE))
      <3>1. PICK p \in PRs : \E was \in 1..head[p] :
                 staging' = Append(staging, FoldOf(p, was, TRUE))
        BY <2>5
      <3>2. PICK was \in 1..head[p] : staging' = Append(staging, FoldOf(p, was, TRUE))
        BY <3>1
      <3> DEFINE c == FoldOf(p, was, TRUE)
      <3>3. c \in Commit /\ c.marked /\ Sound(c, head)
        BY <1>1, <3>2, FoldSound
      <3> HIDE DEF c
      <3>4. Append(staging, c) \in History
        BY <2>5, <3>2, <3>3, <1>4, ContentsAppend
      <3>5. BasedNow(Append(staging, c))
        BY <2>5, <3>2, <3>3, <1>4, BasedAppend DEF BasedNow
      <3> QED
        BY <3>2, <3>4, <3>5, <1>3 DEF c
    <2> QED
      BY <2>1, <2>2, <2>3, <2>4, <2>5, <1>6, StagingSteps
  <1>7. ASSUME driver'.pc \in Building PROVE Based(driver'.tip, head', Contents(main'))
    BY <1>7, <1>1, <1>3, <1>4, <1>5, BuildingSteps
  <1> QED
    BY <1>2, <1>6, <1>7 DEF Histories, BasedNow

-----------------------------------------------------------------------------
(* Charted is inductive. *)

\* A pull request rides on staging when it is in its chain.
LEMMA OnIsMember == ASSUME QueueTypeOK, staging # NoBranch
                    PROVE  \A p \in PRs : On(p) <=> p \in Members(ParseChain(staging))
  BY MembersRide DEF On, QueueTypeOK

\* With nothing disturbed, labels and folded commits agree on the batch.
LEMMA TickBatch == ASSUME QueueTypeOK, \A p \in LabelledOpen : On(p)
    PROVE  /\ TickChain = Marked
           /\ LabelledOpen \subseteq Members(Marked)
           /\ Marked # <<>> => staging # NoBranch /\ Marked = ParseChain(staging)
  <1>1. Marked # <<>> => staging # NoBranch /\ Marked = ParseChain(staging)
    BY DEF Marked
  <1>2. LabelledOpen \subseteq Members(Marked)
    <2> SUFFICES ASSUME NEW p \in LabelledOpen PROVE p \in Members(Marked)
      OBVIOUS
    <2>1. On(p) /\ p \in PRs
      BY DEF LabelledOpen, QueueTypeOK
    <2>2. staging # NoBranch
      BY <2>1 DEF On
    <2> QED
      BY <2>1, <2>2, OnIsMember DEF Marked
  <1>3. Unmarked = <<>>
    <2>1. LabelledOpen \ Members(Marked) = {}
      BY <1>2
    <2>2. Descending({}) \in Seq({})
      BY DescendingType
    <2>3. Descending({}) = <<>>
      BY <2>2
    <2> QED
      BY <2>1, <2>3 DEF Unmarked
  <1>4. TickChain = Marked
    <2>1. Marked \in Seq(Entry) /\ TickChain \in Seq(Entry)
          /\ Len(TickChain) = Len(Marked) + Len(Unmarked)
          /\ \A j \in 1..Len(Marked) : TickChain[j] = Marked[j]
      BY TickParts
    <2>2. Len(Unmarked) = 0
      BY <1>3
    <2> HIDE DEF TickChain, Marked, Unmarked
    <2>3. Len(TickChain) = Len(Marked)
      BY <2>1, <2>2
    <2> QED
      BY <2>1, <2>3
  <1> QED
    BY <1>1, <1>2, <1>4

\* Marked entries and the pull requests they name.
LEMMA EntrySound == ASSUME QueueTypeOK, Histories, staging # NoBranch
    PROVE  \A j \in DOMAIN ParseChain(staging) :
              /\ ParseChain(staging)[j].pr \in PRs
              /\ ParseChain(staging)[j].was \in 1..head[ParseChain(staging)[j].pr]
              /\ \E v \in ParseChain(staging)[j].was..head[ParseChain(staging)[j].pr] :
                    Last(ParseChain(staging)[j].at).adds = {<<ParseChain(staging)[j].pr, v>>}
              /\ Last(ParseChain(staging)[j].at).adds \subseteq Contents(staging)
  <1> SUFFICES ASSUME NEW j \in DOMAIN ParseChain(staging)
               PROVE  /\ ParseChain(staging)[j].pr \in PRs
                      /\ ParseChain(staging)[j].was \in 1..head[ParseChain(staging)[j].pr]
                      /\ \E v \in ParseChain(staging)[j].was..head[ParseChain(staging)[j].pr] :
                            Last(ParseChain(staging)[j].at).adds
                              = {<<ParseChain(staging)[j].pr, v>>}
                      /\ Last(ParseChain(staging)[j].at).adds \subseteq Contents(staging)
    OBVIOUS
  <1> DEFINE e == ParseChain(staging)[j]
             c == staging[Base(staging) + j]
  <1>1. staging \in History /\ Based(staging, head, Contents(main))
    BY DEF QueueTypeOK, Histories, BasedNow
  <1>2. Base(staging) + j \in DOMAIN staging /\ e.pr = c.pr /\ e.was = c.was /\ Last(e.at) = c
        /\ Sound(c, head)
    BY <1>1, ChainSound
  <1>3. c.adds \subseteq Contents(staging)
    BY <1>2, ContentsIn
  <1> HIDE DEF e, c
  <1>4. /\ e.pr \in PRs /\ e.was \in 1..head[e.pr]
        /\ \E v \in e.was..head[e.pr] : Last(e.at).adds = {<<e.pr, v>>}
    BY <1>2 DEF Sound
  <1>5. Last(e.at).adds \subseteq Contents(staging)
    BY <1>2, <1>3
  <1> QED
    BY <1>4, <1>5 DEF e

\* Charted says nothing of the other places.
LEMMA Uncharted ==
    ASSUME driver'.pc \notin Under \cup Expelling \cup {"rebuild", "fold", "complete"}
    PROVE  Charted'
  BY DEF Charted, Under, Expelling, At

\* Charted survives what the others do.
LEMMA OutsideCharted ==
    ASSUME GreenIInv, GreenIInv', Undisturbed, Outside \/ UNCHANGED vars, faults' = 0
    PROVE  Charted'
  <1>1. QueueTypeOK /\ QueueTypeOK' /\ Tips /\ Shape /\ Charted
    BY DEF GreenIInv, Undisturbed
  <1>2. driver' = driver /\ staging' = staging
    BY <1>1, OutsideFields
  <1>3. [Next]_vars
    BY DEF Outside, Next
  <1>4. \A p \in PRs : head[p] \in Nat /\ head'[p] \in Nat /\ head[p] <= head'[p]
    BY <1>1, <1>3, HeadsGrow
  <1>5. Contents(main) \subseteq Contents(main')
    BY <1>1, <1>3, MainGrows
  <1>6. \A p \in PRs : \A v \in 1..head[p] : v \in 1..head'[p]
    BY <1>4
  <1>7. \A j \in DOMAIN driver.chain : driver.chain[j].pr \in PRs
    BY <1>1, EntryAt
  <1>8. At("fold") => Head(driver.todo) \in PRs
    BY <1>1, TodoHead DEF Shape, At
  <1>9. \A p \in ToSet(driver.todo) : p \in PRs
    BY <1>1 DEF QueueTypeOK, Driver, ToSet
  <1>10. driver.pc \in Expelling =>
            \A j \in DOMAIN driver.chain : driver.chain[j].was \in 1..head'[driver.chain[j].pr]
    BY <1>1, <1>6, <1>7 DEF Charted
  <1>11. At("fold") => driver.was \in 1..head'[Head(driver.todo)]
    BY <1>1, <1>6, <1>8 DEF Charted
  <1>12. At("complete")
         => \A p \in ToSet(driver.todo) : \E v \in 1..head'[p] : <<p, v>> \in Contents(main')
    BY <1>1, <1>5, <1>6, <1>9 DEF Charted
  <1> QED
    BY <1>1, <1>2, <1>10, <1>11, <1>12 DEF Charted, At

\* Charted survives a tick.
LEMMA TickCharted == ASSUME GreenIInv, Undisturbed, Tick, faults' = 0
                     PROVE  Charted'
  <1>1. QueueTypeOK /\ Placed
    BY DEF GreenIInv, Undisturbed
  <1>2. /\ driver.pc = "idle"
        /\ \/ Stripped # {} /\ driver'.pc = "rebuild" /\ driver'.chain = Marked
              /\ driver'.i = Min(Stripped)
           \/ Stripped = {} /\ TickChain = <<>> /\ driver'.pc = "list" /\ driver'.good = <<>>
           \/ Stripped = {} /\ TickChain # <<>> /\ driver'.pc = "check" /\ driver'.chain = TickChain
              /\ driver'.tip = staging /\ driver'.i = 1
        /\ staging' = staging
    BY <1>1, TickFields
  <1>3. \A p \in LabelledOpen : On(p)
    BY <1>1, <1>2 DEF Placed
  <1>4. TickChain = Marked /\ (Marked # <<>> => staging # NoBranch /\ Marked = ParseChain(staging))
    BY <1>1, <1>3, TickBatch
  <1>5. CASE Stripped # {} /\ driver'.pc = "rebuild" /\ driver'.chain = Marked
    <2>1. Marked # <<>>
      BY <1>5 DEF Stripped
    <2> QED
      BY <1>2, <1>4, <1>5, <2>1 DEF Charted, Under, Expelling, At
  <1>6. CASE driver'.pc = "list"
    BY <1>6, Uncharted DEF Under, Expelling
  <1>7. CASE TickChain # <<>> /\ driver'.pc = "check" /\ driver'.chain = TickChain
             /\ driver'.tip = staging /\ driver'.i = 1
    <2>1. 1..(driver'.i - 1) = {}
      BY <1>7
    <2> QED
      BY <1>2, <1>4, <1>7, <2>1 DEF Charted, Under, Expelling, At
  <1> QED
    BY <1>2, <1>5, <1>6, <1>7

\* A healthy member was merged at the head its marker records.
LEMMA CheckCharted == ASSUME GreenIInv, Undisturbed, CheckMember, faults' = 0
                      PROVE  Charted'
  <1>1. QueueTypeOK /\ Histories /\ Charted /\ Shape
    BY DEF GreenIInv, Undisturbed
  <1>2. /\ driver.pc = "check" /\ driver'.chain = driver.chain /\ driver'.tip = driver.tip
        /\ \/ driver'.pc = "rebuild" /\ driver'.i = driver.i
           \/ /\ ~Unhealthy(driver.chain[driver.i])
              /\ \/ driver.i < Len(driver.chain) /\ driver'.pc = "check" /\ driver'.i = driver.i + 1
                 \/ /\ ~(driver.i < Len(driver.chain)) /\ driver'.i = driver.i
                    /\ driver'.pc = IF driver.tip = NoBranch THEN "list" ELSE "ci"
        /\ staging' = staging
    BY <1>1, CheckFields
  <1>3. /\ staging = driver.tip /\ staging # NoBranch /\ driver.chain = ParseChain(staging)
        /\ \A j \in 1..driver.i - 1 : Exact(driver.chain[j])
    BY <1>1, <1>2 DEF Charted, Under, At
  <1>4. driver.i \in DOMAIN driver.chain /\ DOMAIN driver.chain = 1..Len(driver.chain)
        /\ Len(driver.chain) \in Nat
    BY <1>1, <1>2 DEF Shape, QueueTypeOK, Driver
  <1>5. CASE driver'.pc = "rebuild"
    BY <1>2, <1>3, <1>5 DEF Charted, Under, Expelling, At
  <1>6. ASSUME ~Unhealthy(driver.chain[driver.i])
        PROVE  Exact(driver.chain[driver.i])
    <2> DEFINE e == driver.chain[driver.i]
    <2>1. e.pr \in PRs /\ e.was \in 1..head[e.pr]
          /\ \E v \in e.was..head[e.pr] : Last(e.at).adds = {<<e.pr, v>>}
      BY <1>1, <1>3, <1>4, EntrySound
    <2>2. head[e.pr] \in 1..MaxHead
      BY <1>1, <2>1 DEF QueueTypeOK
    <2> HIDE DEF e
    <2>3. head[e.pr] = e.was
      <3>1. ~Unhealthy(e)
        BY <1>6 DEF e
      <3>2. e.was # 0
        BY <2>1
      <3> QED
        BY <3>1, <3>2 DEF Unhealthy
    <2>4. PICK v \in e.was..head[e.pr] : Last(e.at).adds = {<<e.pr, v>>}
      BY <2>1
    <2>5. v = e.was
      BY <2>2, <2>3, <2>4, Bounds
    <2>6. Exact(e)
      BY <2>4, <2>5 DEF Exact
    <2> QED
      BY <2>6 DEF e
  <1>7. CASE ~Unhealthy(driver.chain[driver.i]) /\ driver'.pc = "check" /\ driver'.i = driver.i + 1
    <2>1. \A j \in 1..(driver'.i - 1) : Exact(driver.chain[j])
      <3>1. \A j \in 1..(driver'.i - 1) : j \in 1..driver.i - 1 \/ j = driver.i
        BY <1>4, <1>7
      <3> QED
        BY <3>1, <1>3, <1>6, <1>7
    <2> QED
      BY <2>1, <1>2, <1>3, <1>7 DEF Charted, Under, Expelling, At
  <1>8. CASE ~Unhealthy(driver.chain[driver.i]) /\ ~(driver.i < Len(driver.chain))
             /\ driver'.pc = "ci"
    <2>1. \A j \in DOMAIN driver.chain : Exact(driver.chain[j])
      <3>1. \A j \in DOMAIN driver.chain : j \in 1..driver.i - 1 \/ j = driver.i
        BY <1>4, <1>8
      <3> QED
        BY <3>1, <1>3, <1>6, <1>8
    <2> QED
      BY <2>1, <1>2, <1>3, <1>8 DEF Charted, Under, Expelling, At
  <1> QED
    BY <1>2, <1>3, <1>5, <1>7, <1>8

\* Charted survives the verdict.
LEMMA CiCharted == ASSUME GreenIInv, Undisturbed, ReadCI \/ TimeOut, faults' = 0
                   PROVE  Charted'
  <1>1. QueueTypeOK /\ Charted
    BY DEF GreenIInv, Undisturbed
  <1>2. /\ driver.pc = "ci"
        /\ \/ driver' = Idle
           \/ /\ driver'.chain = driver.chain /\ driver'.tip = driver.tip
              /\ driver'.pc \in {"advance", "rebuild", "timeout"}
        /\ staging' = staging
    BY <1>1, CiFields
  <1>3. /\ staging = driver.tip /\ staging # NoBranch /\ driver.chain = ParseChain(staging)
        /\ \A j \in DOMAIN driver.chain : Exact(driver.chain[j])
    BY <1>1, <1>2 DEF Charted, Under
  <1>4. CASE driver' = Idle
    BY <1>4, Uncharted DEF Idle, Under, Expelling
  <1>5. CASE driver'.pc \in {"advance", "rebuild", "timeout"} /\ driver'.chain = driver.chain
             /\ driver'.tip = driver.tip
    BY <1>2, <1>3, <1>5 DEF Charted, Under, Expelling, At
  <1> QED
    BY <1>2, <1>4, <1>5

\* Charted survives a rebuild.
LEMMA RebuildCharted == ASSUME GreenIInv, Undisturbed, Rebuild, faults' = 0
                        PROVE  Charted'
  <1>1. QueueTypeOK /\ Charted /\ Histories
    BY DEF GreenIInv, Undisturbed
  <1>2. /\ driver.pc = "rebuild" /\ head' = head
        /\ \/ driver'.pc = "idle"
           \/ driver'.pc = "expel" /\ driver'.chain = driver.chain
    BY <1>1, RebuildFields
  <1>3. CASE driver'.pc = "idle"
    BY <1>3, Uncharted DEF Under, Expelling
  <1>4. CASE driver'.pc = "expel" /\ driver'.chain = driver.chain
    <2>1. staging # NoBranch /\ driver.chain = ParseChain(staging)
      BY <1>1, <1>2 DEF Charted, At
    <2>2. \A j \in DOMAIN driver.chain : driver.chain[j].was \in 1..head[driver.chain[j].pr]
      BY <1>1, <2>1, EntrySound
    <2> QED
      BY <1>2, <1>4, <2>2 DEF Charted, Under, Expelling, At
  <1> QED
    BY <1>2, <1>3, <1>4

\* Charted survives the removal and the merges that follow.
LEMMA ExpelCharted == ASSUME GreenIInv, Undisturbed, Expel \/ Refold, faults' = 0
                      PROVE  Charted'
  <1>1. QueueTypeOK /\ Charted
    BY DEF GreenIInv, Undisturbed
  <1>2. /\ driver.pc \in Expelling /\ head' = head
        /\ \/ driver'.pc = "idle"
           \/ driver'.pc \in {"refold", "expelLater"} /\ driver'.chain = driver.chain
    BY <1>1, ExpelFields, RefoldFields DEF Expelling
  <1>3. CASE driver'.pc = "idle"
    BY <1>3, Uncharted DEF Under, Expelling
  <1>4. CASE driver'.pc \in {"refold", "expelLater"} /\ driver'.chain = driver.chain
    <2>1. \A j \in DOMAIN driver.chain : driver.chain[j].was \in 1..head[driver.chain[j].pr]
      BY <1>1, <1>2 DEF Charted
    <2> QED
      BY <1>2, <1>4, <2>1 DEF Charted, Under, Expelling, At
  <1> QED
    BY <1>2, <1>3, <1>4

\* Charted survives the reading of a head.
LEMMA ReadCharted == ASSUME GreenIInv, Undisturbed, ReadMember, faults' = 0
                     PROVE  Charted'
  <1>1. QueueTypeOK
    BY DEF GreenIInv
  <1>2. /\ head' = head
        /\ \/ driver'.pc = "swap"
           \/ driver'.pc = "read"
           \/ driver'.pc = "fold" /\ driver'.todo = driver.todo /\ driver.todo # <<>>
              /\ driver'.was = head[Head(driver.todo)]
    BY <1>1, ReadFields
  <1>3. CASE driver'.pc \in {"swap", "read"}
    BY <1>3, Uncharted DEF Under, Expelling
  <1>4. CASE driver'.pc = "fold" /\ driver'.todo = driver.todo /\ driver.todo # <<>>
             /\ driver'.was = head[Head(driver.todo)]
    <2>1. head[Head(driver.todo)] \in 1..MaxHead
      BY <1>1, <1>4, TodoHead DEF QueueTypeOK
    <2>2. head[Head(driver.todo)] \in 1..head[Head(driver.todo)]
      BY <2>1, Bounds
    <2> QED
      BY <1>2, <1>4, <2>2 DEF Charted, Under, Expelling, At
  <1> QED
    BY <1>2, <1>3, <1>4

\* When staging has landed, every member of its chain has.
LEMMA BatchLanded ==
    ASSUME QueueTypeOK, Histories, staging # NoBranch, driver.chain = ParseChain(staging),
           \A j \in DOMAIN driver.chain : Exact(driver.chain[j])
    PROVE  \A p \in ToSet(Batch) : \E v \in 1..head[p] : <<p, v>> \in Contents(staging)
  <1> SUFFICES ASSUME NEW p \in ToSet(Batch)
               PROVE  \E v \in 1..head[p] : <<p, v>> \in Contents(staging)
    OBVIOUS
  <1>1. PICK j \in DOMAIN driver.chain : p = driver.chain[j].pr
    BY DEF ToSet, Batch
  <1> DEFINE e == driver.chain[j]
  <1>2. e.was \in 1..head[e.pr] /\ Last(e.at).adds \subseteq Contents(staging)
    BY <1>1, EntrySound
  <1>3. Last(e.at).adds = {<<e.pr, e.was>>}
    BY <1>1 DEF Exact
  <1> HIDE DEF e
  <1>4. e.was \in 1..head[e.pr] /\ <<e.pr, e.was>> \in Contents(staging)
    BY <1>2, <1>3
  <1> QED
    BY <1>1, <1>4 DEF e

\* There is nothing to merge only when main has it all.
LEMMA NothingNew == ASSUME QueueTypeOK, Histories, staging # NoBranch, NothingToMerge
                    PROVE  Contents(staging) \subseteq Contents(main)
  <1>1. PICK history \in {main} \cup absorbed : IsPrefix(staging, history)
    BY DEF NothingToMerge
  <1>2. staging \in History /\ history \in History
    BY <1>1 DEF QueueTypeOK
  <1>3. Contents(staging) \subseteq Contents(history)
    BY <1>1, <1>2, ContentsPrefix
  <1>4. Contents(history) \subseteq Contents(main)
    BY <1>1 DEF Histories
  <1> QED
    BY <1>3, <1>4

\* What is announced has landed.
LEMMA LandingCharted == ASSUME GreenIInv, GreenIInv', Undisturbed, Advance \/ MergeAdvance,
                               faults' = 0
                        PROVE  Charted'
  <1>1. QueueTypeOK /\ QueueTypeOK' /\ Histories /\ Charted /\ Verdict
    BY DEF GreenIInv, Undisturbed
  <1>2. /\ driver.pc \in {"advance", "merge"} /\ head' = head /\ staging' = staging
        /\ \/ driver'.pc = "idle"
           \/ driver'.pc = "merge" /\ driver'.chain = driver.chain /\ driver'.tip = driver.tip
           \/ /\ driver'.pc = "complete" /\ driver'.todo = Batch
              /\ \/ main' = Last(driver.chain).at
                 \/ NothingToMerge /\ main' = main
                 \/ main' = Append(main, Plain(Contents(staging) \ Contents(main)))
    BY <1>1, AdvanceFields, MergeFields
  <1>3. /\ staging = driver.tip /\ staging # NoBranch /\ driver.chain = ParseChain(staging)
        /\ \A j \in DOMAIN driver.chain : Exact(driver.chain[j])
    BY <1>1, <1>2 DEF Charted, Under
  <1>4. staging \in History /\ main \in History
    BY <1>1, <1>3 DEF QueueTypeOK
  <1>5. CASE driver'.pc = "idle"
    BY <1>5, Uncharted DEF Under, Expelling
  <1>6. CASE driver'.pc = "merge" /\ driver'.chain = driver.chain /\ driver'.tip = driver.tip
    BY <1>2, <1>3, <1>6 DEF Charted, Under, Expelling, At
  <1>7. CASE /\ driver'.pc = "complete" /\ driver'.todo = Batch
             /\ \/ main' = Last(driver.chain).at
                \/ NothingToMerge /\ main' = main
                \/ main' = Append(main, Plain(Contents(staging) \ Contents(main)))
    <2>1. Contents(staging) \subseteq Contents(main')
      <3>1. CASE main' = Last(driver.chain).at
        <4>1. main' = staging
          BY <1>1, <1>2, <1>3, <3>1 DEF Verdict, Under
        <4> QED
          BY <4>1
      <3>2. CASE NothingToMerge /\ main' = main
        BY <1>1, <1>3, <3>2, NothingNew
      <3>3. CASE main' = Append(main, Plain(Contents(staging) \ Contents(main)))
        <4>1. Plain(Contents(staging) \ Contents(main)) \in Commit
          BY <1>4, ContentsTyped, PlainTyped
        <4>2. Contents(main') = Contents(main) \cup (Contents(staging) \ Contents(main))
          BY <1>4, <3>3, <4>1, ContentsAppend DEF Plain
        <4> QED
          BY <4>2
      <3> QED
        BY <1>7, <3>1, <3>2, <3>3
    <2>2. \A p \in ToSet(Batch) : \E v \in 1..head[p] : <<p, v>> \in Contents(main')
      <3>1. \A p \in ToSet(Batch) : \E v \in 1..head[p] : <<p, v>> \in Contents(staging)
        BY <1>1, <1>3, BatchLanded
      <3> QED
        BY <2>1, <3>1
    <2>3. \A p \in ToSet(driver'.todo) : \E v \in 1..head'[p] : <<p, v>> \in Contents(main')
      BY <1>2, <1>7, <2>2
    <2> QED
      BY <1>7, <2>3 DEF Charted, Under, Expelling, At
  <1> QED
    BY <1>2, <1>5, <1>6, <1>7

\* The head and the rest of what is to do.
LEMMA RestOfTodo == ASSUME QueueTypeOK, driver.todo # <<>>
    PROVE  /\ ToSet(Tail(driver.todo)) \subseteq ToSet(driver.todo)
           /\ Head(driver.todo) \in ToSet(driver.todo)
           /\ ToSet(driver.todo) \subseteq ToSet(Tail(driver.todo)) \cup {Head(driver.todo)}
  <1> DEFINE s == driver.todo
             n == Len(s)
  <1>1. s \in Seq(PRs) /\ n \in Nat /\ n # 0 /\ DOMAIN s = 1..n /\ Head(s) = s[1]
    BY DEF QueueTypeOK, Driver
  <1>2. Len(Tail(s)) = n - 1 /\ DOMAIN Tail(s) = 1..(n - 1)
        /\ \A j \in 1..(n - 1) : Tail(s)[j] = s[j + 1]
    BY <1>1
  <1> HIDE DEF s, n
  <1>3. \A x : x \in ToSet(s) <=> \E j \in 1..n : x = s[j]
    BY <1>1 DEF ToSet
  <1>4. \A x : x \in ToSet(Tail(s)) <=> \E j \in 1..(n - 1) : x = s[j + 1]
    BY <1>2 DEF ToSet
  <1>5. \A j \in 1..(n - 1) : j + 1 \in 1..n
    BY <1>1
  <1>6. \A j \in 1..n : j = 1 \/ (j - 1 \in 1..(n - 1) /\ (j - 1) + 1 = j)
    BY <1>1
  <1>7. 1 \in 1..n
    BY <1>1
  <1>8. ToSet(Tail(s)) \subseteq ToSet(s)
    BY <1>3, <1>4, <1>5
  <1>9. Head(s) \in ToSet(s)
    BY <1>1, <1>3, <1>7
  <1>10. ToSet(s) \subseteq ToSet(Tail(s)) \cup {Head(s)}
    <2> SUFFICES ASSUME NEW x \in ToSet(s), x # s[1] PROVE x \in ToSet(Tail(s))
      BY <1>1
    <2>1. PICK j \in 1..n : x = s[j]
      BY <1>3
    <2>2. j - 1 \in 1..(n - 1) /\ (j - 1) + 1 = j
      BY <2>1, <1>6
    <2>3. x = s[(j - 1) + 1]
      BY <2>1, <2>2
    <2> QED
      BY <2>2, <2>3, <1>4
  <1> QED
    BY <1>8, <1>9, <1>10 DEF s

\* Charted survives an announcement.
LEMMA CompleteCharted == ASSUME GreenIInv, Undisturbed, CompleteMember, faults' = 0
                         PROVE  Charted'
  <1>1. QueueTypeOK /\ Charted
    BY DEF GreenIInv, Undisturbed
  <1>2. /\ driver.pc = "complete" /\ driver.todo # <<>> /\ main' = main /\ head' = head
        /\ driver'.pc = "complete" /\ driver'.todo = Tail(driver.todo)
    BY <1>1, CompleteFields DEF mainline
  <1>3. \A p \in ToSet(driver.todo) : \E v \in 1..head[p] : <<p, v>> \in Contents(main)
    BY <1>1, <1>2 DEF Charted, At
  <1>4. ToSet(driver'.todo) \subseteq ToSet(driver.todo)
    BY <1>1, <1>2, RestOfTodo
  <1>5. \A p \in ToSet(driver'.todo) : \E v \in 1..head'[p] : <<p, v>> \in Contents(main')
    BY <1>2, <1>3, <1>4
  <1> QED
    BY <1>2, <1>5 DEF Charted, Under, Expelling, At

\* Charted is inductive.
LEMMA ChartedStep ==
    ASSUME GreenIInv, GreenIInv', Undisturbed, [Next]_vars, faults' = 0
    PROVE  Charted'
  <1>1. QueueTypeOK
    BY DEF GreenIInv
  <1>2. CASE Outside \/ UNCHANGED vars
    BY <1>2, OutsideCharted
  <1>3. ~(CallFails \/ Crash)
    BY <1>1, NoDisturbance DEF CallFails, Crash
  <1>4. CASE Tick \/ CheckMember \/ ReadCI \/ TimeOut \/ Rebuild \/ Expel \/ Refold \/ ReadMember
    BY <1>4, TickCharted, CheckCharted, CiCharted, RebuildCharted, ExpelCharted, ReadCharted
  <1>5. CASE Advance \/ MergeAdvance \/ CompleteMember
    BY <1>5, LandingCharted, CompleteCharted
  <1>6. CASE ExpireMember \/ ListQueued \/ ResetStaging \/ DeleteStaging
    BY <1>1, <1>6, Uncharted, ExpireFields, ListFields, ResetFields, DeleteFields DEF Under,
       Expelling
  <1>7. CASE FoldMember \/ SwapQueued \/ MarkTesting \/ RefuseMember
    BY <1>1, <1>7, Uncharted, FoldFields, SwapFields, MarkFields, RefuseFields DEF Under, Expelling
  <1> QED
    BY <1>2, <1>3, <1>4, <1>5, <1>6, <1>7 DEF Next, DriverStep, Outside

-----------------------------------------------------------------------------
(* Placed is inductive. *)

\* Nothing falls off staging while staging stays.
LEMMA SameBranch == ASSUME QueueTypeOK, staging' = staging PROVE \A p : On(p)' <=> On(p)
  BY DEF On

\* The places where every open pull request under test rides on staging.
Tight == Under \cup {"idle", "timeout", "rebuild"}

\* At these places that is all Placed says.
LEMMA PlacedTight == ASSUME driver'.pc \in Tight, \A p \in LabelledOpen' : On(p)' PROVE Placed'
  BY DEF Placed, Tight, Under, Expelling, Building, At

\* No label comes.
LEMMA FewerLabels == ASSUME QueueTypeOK, testing' \subseteq testing, pr' = pr
                     PROVE  LabelledOpen' \subseteq LabelledOpen
  BY DEF LabelledOpen

\* What is labelled is a pull request.
LEMMA LabelledPrs == QueueTypeOK => LabelledOpen \subseteq PRs
  BY DEF LabelledOpen, QueueTypeOK

\* Main moves and closes pull requests, it opens none.
LEMMA MovedOpen == ASSUME QueueTypeOK, NEW h, MoveMain(h)
                   PROVE  \A p \in PRs : pr'[p] = "open" => pr[p] = "open"
  BY DEF MoveMain

\* Placed survives what the others do.
LEMMA OutsidePlaced == ASSUME GreenIInv, Undisturbed, Outside \/ UNCHANGED vars, faults' = 0
                       PROVE  Placed'
  <1>1. QueueTypeOK /\ Placed
    BY DEF GreenIInv, Undisturbed
  <1>2. driver' = driver /\ staging' = staging /\ LabelledOpen' \subseteq LabelledOpen
    BY <1>1, OutsideFields
  <1>3. \A p : On(p)' <=> On(p)
    BY <1>1, <1>2, SameBranch
  <1> QED
    BY <1>1, <1>2, <1>3 DEF Placed, At

\* Placed survives the look at the batch and its time-out.
LEMMA TightPlaced ==
    ASSUME GreenIInv, Undisturbed, Tick \/ CheckMember \/ ReadCI \/ TimeOut \/ ExpireMember,
           faults' = 0
    PROVE  Placed'
  <1>1. QueueTypeOK /\ Placed /\ Charted
    BY DEF GreenIInv, Undisturbed
  <1>2. driver.pc \in Tight /\ staging' = staging /\ pr' = pr /\ testing' \subseteq testing
    BY <1>1, TickFields, CheckFields, CiFields, ExpireFields DEF Tight, Under, labels
  <1>3. \A p \in LabelledOpen : On(p)
    BY <1>1, <1>2 DEF Placed, Tight
  <1>4. \A p \in LabelledOpen' : On(p)'
    BY <1>1, <1>2, <1>3, SameBranch, FewerLabels
  <1>5. CASE driver'.pc \in Tight
    BY <1>4, <1>5, PlacedTight
  <1>6. CASE Tick /\ driver'.pc = "list"
    <2>1. TickChain = <<>> /\ driver'.good = <<>>
      BY <1>1, <1>6, TickFields
    <2>2. TickChain = Marked /\ LabelledOpen \subseteq Members(Marked)
      BY <1>1, <1>3, TickBatch
    <2>3. LabelledOpen = {}
      BY <2>1, <2>2 DEF Members
    <2>4. LabelledOpen' = {}
      BY <1>1, <1>2, <2>3, FewerLabels
    <2> QED
      BY <1>6, <2>1, <2>4 DEF Placed, Under, Expelling, Building, At
  <1>7. \/ driver'.pc \in Tight
        \/ Tick /\ driver'.pc = "list"
    <2>1. CASE Tick
      BY <2>1, <1>1, TickFields DEF Tight, Under
    <2>2. CASE CheckMember
      <3>1. driver.tip # NoBranch
        BY <1>1, <2>2, CheckFields DEF Charted, Under
      <3> QED
        BY <2>2, <3>1, <1>1, CheckFields DEF Tight, Under
    <2>3. CASE ReadCI \/ TimeOut
      BY <2>3, <1>1, CiFields DEF Tight, Under, Idle
    <2>4. CASE ExpireMember
      BY <2>4, <1>1, ExpireFields DEF Tight
    <2> QED
      BY <2>1, <2>2, <2>3, <2>4
  <1> QED
    BY <1>5, <1>6, <1>7

\* What a rebuild takes off staging is still to be folded.
LEMMA RebuildPlaced == ASSUME GreenIInv, Undisturbed, Rebuild, faults' = 0
                       PROVE  Placed'
  <1>1. QueueTypeOK /\ Placed /\ Charted /\ Shape
    BY DEF GreenIInv, Undisturbed
  <1>2. /\ driver.pc = "rebuild" /\ pr' = pr /\ testing' = testing
        /\ \/ driver'.pc = "idle" /\ staging' = staging
           \/ /\ staging # NoBranch /\ ResetTarget(driver.chain, driver.i) # NoBranch
              /\ staging' = ResetTarget(driver.chain, driver.i)
              /\ driver'.pc = "expel" /\ driver'.chain = driver.chain /\ driver'.i = driver.i
    BY <1>1, RebuildFields DEF labels
  <1>3. \A p \in LabelledOpen : On(p)
    BY <1>1, <1>2 DEF Placed
  <1>4. LabelledOpen' = LabelledOpen
    BY <1>2 DEF LabelledOpen
  <1>5. CASE driver'.pc = "idle" /\ staging' = staging
    <2>1. \A p \in LabelledOpen' : On(p)'
      BY <1>1, <1>3, <1>4, <1>5, SameBranch
    <2> QED
      BY <1>5, <2>1, PlacedTight DEF Tight
  <1>6. CASE /\ staging # NoBranch /\ ResetTarget(driver.chain, driver.i) # NoBranch
             /\ staging' = ResetTarget(driver.chain, driver.i)
             /\ driver'.pc = "expel" /\ driver'.chain = driver.chain /\ driver'.i = driver.i
    <2> DEFINE h == staging
               b == Base(h)
               i == driver.i
               n == b + i - 1
    <2>1. h \in History /\ driver.chain = ParseChain(h) /\ i \in DOMAIN ParseChain(h)
      BY <1>1, <1>2, <1>6 DEF Charted, At, Shape, QueueTypeOK
    <2>2. n \in 1..Len(h) /\ staging' = SubSeq(h, 1, n)
      BY <1>6, <2>1, TargetIsPrefix
    <2>3. Len(h) \in Nat /\ b \in 0..Len(h) /\ DOMAIN ParseChain(h) = 1..(Len(h) - b)
          /\ \A j \in b + 1..Len(h) : h[j].marked
      BY <2>1, ParseFacts, BaseFacts DEF History
    <2>4. \A j \in 1..(Len(h) - b) : ParseChain(h)[j].pr = h[b + j].pr
      BY <2>1, ParseEntries
    <2>5. DOMAIN SubSeq(h, 1, n) = 1..n /\ Len(SubSeq(h, 1, n)) = n
          /\ \A j \in 1..n : SubSeq(h, 1, n)[j] = h[j]
      BY <2>1, <2>2, <2>3, PrefixOf
    <2>6. staging' # NoBranch
      BY <1>6
    <2>7. ASSUME NEW p \in LabelledOpen'
          PROVE  On(p)' \/ \E k \in driver'.i..Len(driver'.chain) : driver'.chain[k].pr = p
      <3>1. p \in PRs /\ On(p)
        BY <1>1, <1>3, <1>4, <2>7, LabelledPrs
      <3>2. PICK j \in 1..(Len(h) - b) : ParseChain(h)[j].pr = p
        BY <3>1, <1>1, <1>6, <2>3, OnIsMember DEF Members
      <3>3. CASE j >= i
        <4>1. j \in i..Len(driver.chain)
          BY <2>1, <2>3, <3>2, <3>3, ParseFacts
        <4> QED
          BY <4>1, <3>2, <2>1, <1>6
      <3>4. CASE ~(j >= i)
        <4> HIDE DEF b, h, i
        <4>1. b + j \in 1..n /\ \A k \in (b + j)..n : k \in b + 1..Len(h) /\ k \in 1..n
          BY <2>1, <2>2, <2>3, <3>2, <3>4
        <4> HIDE DEF n
        <4>2. SubSeq(h, 1, n)[b + j].pr = p
          BY <4>1, <2>4, <2>5, <3>2
        <4>3. \A k \in (b + j)..n : SubSeq(h, 1, n)[k].marked
          BY <4>1, <2>3, <2>5
        <4>4. Rides(SubSeq(h, 1, n), p)
          BY <4>1, <4>2, <4>3, <2>5 DEF Rides
        <4> QED
          BY <4>4, <2>2, <2>6 DEF On
      <3> QED
        BY <3>2, <3>3, <3>4, <2>1, <2>3
    <2> QED
      BY <1>6, <2>7 DEF Placed, Under, Expelling, Building, At
  <1> QED
    BY <1>2, <1>5, <1>6

\* The member taken off staging loses its label.
LEMMA ExpelPlaced == ASSUME GreenIInv, Undisturbed, Expel, faults' = 0
                     PROVE  Placed'
  <1>1. QueueTypeOK /\ Placed /\ Shape
    BY DEF GreenIInv, Undisturbed
  <1>2. /\ driver.pc \in {"expel", "expelLater"} /\ driver'.pc = "refold"
        /\ driver'.chain = driver.chain /\ driver'.i = driver.i + 1
        /\ testing' = testing \ {driver.chain[driver.i].pr}
        /\ staging' = staging /\ pr' = pr
    BY <1>1, ExpelFields
  <1>3. \A p \in LabelledOpen : On(p)
        \/ \E k \in driver.i..Len(driver.chain) : driver.chain[k].pr = p
    BY <1>1, <1>2 DEF Placed, Expelling
  <1>4. driver.i \in Nat /\ Len(driver.chain) \in Nat
    BY <1>1 DEF QueueTypeOK, Driver
  <1>5. ASSUME NEW p \in LabelledOpen'
        PROVE  On(p)' \/ \E k \in driver'.i..Len(driver'.chain) : driver'.chain[k].pr = p
    <2>1. p \in LabelledOpen /\ p # driver.chain[driver.i].pr
      BY <1>2, <1>5 DEF LabelledOpen
    <2>2. CASE On(p)
      BY <2>2, <1>1, <1>2, SameBranch
    <2>3. CASE \E k \in driver.i..Len(driver.chain) : driver.chain[k].pr = p
      <3>1. PICK k \in driver.i..Len(driver.chain) : driver.chain[k].pr = p
        BY <2>3
      <3>2. k \in driver.i + 1..Len(driver.chain)
        BY <1>4, <2>1, <3>1
      <3> QED
        BY <1>2, <3>1, <3>2
    <2> QED
      BY <1>3, <2>1, <2>2, <2>3
  <1> QED
    BY <1>2, <1>5 DEF Placed, Under, Expelling, Building, At

\* A merge makes one more pull request ride on staging.
LEMMA AppendRides == ASSUME QueueTypeOK, staging # NoBranch, NEW q \in PRs, NEW was \in 1..head[q],
                            staging' = Append(staging, FoldOf(q, was, TRUE))
                     PROVE  \A p \in PRs : On(p)' <=> On(p) \/ p = q
  <1> DEFINE c == FoldOf(q, was, TRUE)
  <1>1. c \in Commit /\ c.marked /\ c.pr = q
    BY FoldSound
  <1>2. staging \in History
    BY DEF QueueTypeOK
  <1> HIDE DEF c
  <1>3. Append(staging, c) \in History
    BY <1>1, <1>2, ContentsAppend
  <1>4. staging' # NoBranch
    BY <1>3, Bounds DEF c
  <1>5. \A p \in PRs : Rides(Append(staging, c), p) <=> Rides(staging, p) \/ p = q
    BY <1>1, <1>2, RidesAppend
  <1> QED
    BY <1>4, <1>5 DEF On, c

\* An open pull request whose head is contained in staging rides there.
LEMMA NewsOn == ASSUME QueueTypeOK, Histories, staging # NoBranch, NEW q \in PRs,
                       pr[q] = "open", <<q, head[q]>> \in Contents(staging)
                PROVE  On(q)
  <1> DEFINE v == head[q]
             heads == head
             landed == Contents(main)
             h == staging
  <1>1. v \in 1..MaxHead /\ heads \in Heads /\ h \in History
    BY DEF QueueTypeOK, Heads
  <1>2. v \in Nat
    BY <1>1, Bounds
  <1>3. Based(h, heads, landed)
    BY DEF Histories, BasedNow
  <1>4. <<q, v>> \in Contents(h)
    OBVIOUS
  <1>5. <<q, v>> \notin landed
    BY DEF Histories
  <1> HIDE DEF v, heads, landed, h
  <1>6. Rides(h, q)
    BY <1>1, <1>2, <1>3, <1>4, <1>5, NewsRides
  <1> QED
    BY <1>6 DEF On, h

\* A later member is on staging again, or loses its label next.
LEMMA RefoldPlaced == ASSUME GreenIInv, Undisturbed, Refold, faults' = 0
                      PROVE  Placed'
  <1> DEFINE q == driver.chain[driver.i].pr
             w == driver.chain[driver.i].was
  <1>1. QueueTypeOK /\ Placed /\ Charted /\ Histories /\ Shape
    BY DEF GreenIInv, Undisturbed
  <1>2. /\ driver.pc = "refold" /\ pr' = pr /\ testing' = testing
        /\ \/ driver.i > Len(driver.chain) /\ driver'.pc = "idle" /\ staging' = staging
           \/ /\ driver.i <= Len(driver.chain) /\ staging # NoBranch
              /\ \/ <<q, head[q]>> \in Contents(staging) /\ staging' = staging
                 \/ staging' = Append(staging, FoldOf(q, w, TRUE))
              /\ driver'.pc = "refold" /\ driver'.chain = driver.chain /\ driver'.i = driver.i + 1
           \/ /\ driver.i <= Len(driver.chain) /\ staging' = staging
              /\ driver'.pc = "expelLater" /\ driver'.chain = driver.chain /\ driver'.i = driver.i
    BY <1>1, RefoldFields DEF labels
  <1>3. \A p \in LabelledOpen : On(p)
        \/ \E k \in driver.i..Len(driver.chain) : driver.chain[k].pr = p
    BY <1>1, <1>2 DEF Placed, Expelling
  <1>4. LabelledOpen' = LabelledOpen
    BY <1>2 DEF LabelledOpen
  <1>5. driver.i \in Nat /\ driver.i >= 1 /\ Len(driver.chain) \in Nat
        /\ DOMAIN driver.chain = 1..Len(driver.chain)
    BY <1>1, <1>2 DEF QueueTypeOK, Driver, Shape, At
  <1>6. CASE driver.i > Len(driver.chain) /\ driver'.pc = "idle" /\ staging' = staging
    <2>1. \A p \in LabelledOpen' : On(p)'
      BY <1>1, <1>3, <1>4, <1>5, <1>6, SameBranch
    <2> QED
      BY <1>6, <2>1, PlacedTight DEF Tight
  <1>7. CASE /\ driver.i <= Len(driver.chain) /\ staging # NoBranch
             /\ \/ <<q, head[q]>> \in Contents(staging) /\ staging' = staging
                \/ staging' = Append(staging, FoldOf(q, w, TRUE))
             /\ driver'.pc = "refold" /\ driver'.chain = driver.chain /\ driver'.i = driver.i + 1
    <2>1. q \in PRs /\ w \in 1..head[q]
      BY <1>1, <1>2, <1>5, <1>7, EntryAt DEF Charted, Expelling
    <2>2. \A p \in LabelledOpen : On(p) \/ p = q => On(p)'
      <3>1. CASE <<q, head[q]>> \in Contents(staging) /\ staging' = staging
        <4>1. q \in LabelledOpen => On(q)
          <5> SUFFICES ASSUME q \in LabelledOpen PROVE On(q)
            OBVIOUS
          <5>1. pr[q] = "open"
            BY DEF LabelledOpen
          <5> QED
            BY <1>1, <1>7, <2>1, <3>1, <5>1, NewsOn
        <4> QED
          BY <4>1, <3>1, <1>1, SameBranch
      <3>2. CASE staging' = Append(staging, FoldOf(q, w, TRUE))
        <4>1. \A p \in PRs : On(p)' <=> On(p) \/ p = q
          BY <3>2, <1>1, <1>7, <2>1, AppendRides
        <4> QED
          BY <4>1, <1>1, LabelledPrs
      <3> QED
        BY <1>7, <3>1, <3>2
    <2>3. ASSUME NEW p \in LabelledOpen'
          PROVE  On(p)' \/ \E k \in driver'.i..Len(driver'.chain) : driver'.chain[k].pr = p
      <3>1. CASE On(p) \/ p = q
        BY <3>1, <2>2, <2>3, <1>4
      <3>2. CASE ~On(p) /\ p # q
        <4>1. PICK k \in driver.i..Len(driver.chain) : driver.chain[k].pr = p
          BY <1>3, <1>4, <2>3, <3>2
        <4>2. k # driver.i
          BY <3>2, <4>1
        <4>3. k \in driver.i + 1..Len(driver.chain)
          BY <1>5, <4>1, <4>2
        <4> QED
          BY <1>7, <4>1, <4>3
      <3> QED
        BY <3>1, <3>2
    <2> QED
      BY <1>7, <2>3 DEF Placed, Under, Expelling, Building, At
  <1>8. CASE /\ staging' = staging
             /\ driver'.pc = "expelLater" /\ driver'.chain = driver.chain /\ driver'.i = driver.i
    <2>1. \A p \in LabelledOpen' : On(p)'
          \/ \E k \in driver'.i..Len(driver'.chain) : driver'.chain[k].pr = p
      BY <1>1, <1>3, <1>4, <1>8, SameBranch
    <2> QED
      BY <1>8, <2>1 DEF Placed, Under, Expelling, Building, At
  <1> QED
    BY <1>2, <1>6, <1>7, <1>8

\* A batch starts when nobody is under test.
LEMMA ListPlaced == ASSUME GreenIInv, Undisturbed, ListQueued \/ ResetStaging, faults' = 0
                    PROVE  Placed'
  <1>1. QueueTypeOK /\ Placed
    BY DEF GreenIInv, Undisturbed
  <1>2. /\ driver.pc \in {"list", "reset"} /\ pr' = pr /\ testing' = testing
        /\ \/ driver'.pc = "idle"
           \/ driver'.pc \in {"reset", "read"} /\ driver'.good = driver.good
    BY <1>1, ListFields, ResetFields DEF labels
  <1>3. LabelledOpen = {} /\ driver.good = <<>>
    BY <1>1, <1>2 DEF Placed
  <1>4. LabelledOpen' = {}
    BY <1>2, <1>3 DEF LabelledOpen
  <1>5. CASE driver'.pc = "idle"
    BY <1>4, <1>5, PlacedTight DEF Tight
  <1>6. CASE driver'.pc \in {"reset", "read"} /\ driver'.good = driver.good
    <2>1. ToSet(driver'.good) = {}
      BY <1>3, <1>6 DEF ToSet
    <2> QED
      BY <1>3, <1>4, <1>6, <2>1 DEF Placed, Under, Expelling, Building, At
  <1> QED
    BY <1>2, <1>5, <1>6

\* Placed survives the reading of a head.
LEMMA ReadPlaced == ASSUME GreenIInv, Undisturbed, ReadMember, faults' = 0
                    PROVE  Placed'
  <1>1. QueueTypeOK /\ Placed
    BY DEF GreenIInv, Undisturbed
  <1>2. /\ driver.pc = "read" /\ pr' = pr /\ testing' = testing /\ staging' = staging
        /\ driver'.good = driver.good
        /\ \/ driver'.pc = "swap" /\ driver'.todo = driver.good
           \/ driver'.pc \in {"read", "fold"}
    BY <1>1, ReadFields DEF labels
  <1>3. LabelledOpen = {} /\ \A p \in ToSet(driver.good) : On(p)
    BY <1>1, <1>2 DEF Placed, Building
  <1>4. LabelledOpen' = {}
    BY <1>2, <1>3 DEF LabelledOpen
  <1>5. \A p \in ToSet(driver'.good) : On(p)'
    BY <1>1, <1>2, <1>3, SameBranch
  <1> QED
    BY <1>2, <1>4, <1>5 DEF Placed, Under, Expelling, Building, At

\* The members of a sequence with one more.
LEMMA ToSetAppend == ASSUME NEW s \in Seq(PRs), NEW p \in PRs
                            PROVE ToSet(Append(s, p)) = ToSet(s) \cup {p}
  <1>1. Len(s) \in Nat /\ DOMAIN s = 1..Len(s) /\ DOMAIN Append(s, p) = 1..(Len(s) + 1)
    OBVIOUS
  <1>2. (\A j \in 1..Len(s) : Append(s, p)[j] = s[j]) /\ Append(s, p)[Len(s) + 1] = p
    OBVIOUS
  <1>3. \A x : x \in ToSet(Append(s, p)) <=> \E j \in 1..(Len(s) + 1) : x = Append(s, p)[j]
    BY <1>1 DEF ToSet
  <1>4. \A x : x \in ToSet(s) <=> \E j \in 1..Len(s) : x = s[j]
    BY <1>1 DEF ToSet
  <1>5. \A j : j \in 1..(Len(s) + 1) <=> j \in 1..Len(s) \/ j = Len(s) + 1
    BY <1>1
  <1>6. \A x : x \in ToSet(Append(s, p)) <=> x \in ToSet(s) \/ x = p
    BY <1>2, <1>3, <1>4, <1>5
  <1> QED
    BY <1>6

\* A member that was merged rides on staging.
LEMMA FoldPlaced == ASSUME GreenIInv, Undisturbed, FoldMember, faults' = 0
                    PROVE  Placed'
  <1> DEFINE q == Head(driver.todo)
  <1>1. QueueTypeOK /\ Placed /\ Charted /\ Shape
    BY DEF GreenIInv, Undisturbed
  <1>2. /\ driver.pc = "fold" /\ pr' = pr /\ testing' = testing
        /\ \/ /\ staging # NoBranch /\ staging' = Append(staging, FoldOf(q, driver.was, TRUE))
              /\ driver'.pc = "read" /\ driver'.good = Append(driver.good, q)
           \/ staging' = staging /\ driver'.pc = "read" /\ driver'.good = driver.good
           \/ staging' = staging /\ driver'.pc = "idle"
    BY <1>1, FoldFields DEF labels
  <1>3. LabelledOpen = {} /\ \A p \in ToSet(driver.good) : On(p)
    BY <1>1, <1>2 DEF Placed, Building
  <1>4. LabelledOpen' = {}
    BY <1>2, <1>3 DEF LabelledOpen
  <1>5. q \in PRs /\ driver.was \in 1..head[q] /\ driver.good \in Seq(PRs)
    BY <1>1, <1>2, TodoHead DEF Shape, Charted, At, QueueTypeOK, Driver
  <1>6. CASE driver'.pc = "idle"
    BY <1>4, <1>6, PlacedTight DEF Tight
  <1>7. CASE staging' = staging /\ driver'.pc = "read" /\ driver'.good = driver.good
    <2>1. \A p \in ToSet(driver'.good) : On(p)'
      BY <1>1, <1>3, <1>7, SameBranch
    <2> QED
      BY <1>4, <1>7, <2>1 DEF Placed, Under, Expelling, Building, At
  <1>8. CASE /\ staging # NoBranch /\ staging' = Append(staging, FoldOf(q, driver.was, TRUE))
             /\ driver'.pc = "read" /\ driver'.good = Append(driver.good, q)
    <2>1. \A p \in PRs : On(p)' <=> On(p) \/ p = q
      BY <1>1, <1>5, <1>8, AppendRides
    <2>2. ToSet(driver'.good) = ToSet(driver.good) \cup {q} /\ ToSet(driver.good) \subseteq PRs
      BY <1>5, <1>8, ToSetAppend, SMTT(60) DEF ToSet
    <2>3. \A p \in ToSet(driver'.good) : On(p)'
      BY <2>1, <2>2, <1>3, <1>5
    <2> QED
      BY <1>4, <1>8, <2>3 DEF Placed, Under, Expelling, Building, At
  <1> QED
    BY <1>2, <1>6, <1>7, <1>8

\* Only members that were merged are labelled as under test.
LEMMA SwapPlaced == ASSUME GreenIInv, Undisturbed, SwapQueued \/ MarkTesting, faults' = 0
                    PROVE  Placed'
  <1>1. QueueTypeOK /\ Placed /\ Shape
    BY DEF GreenIInv, Undisturbed
  <1>2. driver.pc \in {"swap", "mark"} /\ staging' = staging /\ pr' = pr
        /\ driver'.good = driver.good
        /\ driver'.pc \in {"swap", "mark", "refuse"}
    BY <1>1, SwapFields, MarkFields
  <1>3. /\ LabelledOpen \subseteq ToSet(driver.good)
           /\ ToSet(driver.todo) \subseteq ToSet(driver.good)
        /\ \A p \in ToSet(driver.good) : On(p)
    BY <1>1, <1>2 DEF Placed, Building
  <1>4. LabelledOpen' \subseteq ToSet(driver.good)
        /\ ToSet(driver'.todo) \subseteq ToSet(driver.good)
    <2>1. CASE SwapQueued
      <3>1. testing' = testing /\ driver'.todo = driver.todo
        BY <1>1, <2>1, SwapFields
      <3> QED
        BY <3>1, <1>2, <1>3 DEF LabelledOpen
    <2>2. CASE MarkTesting
      <3>1. testing' \subseteq testing \cup {Head(driver.todo)} /\ driver'.todo = Tail(driver.todo)
            /\ driver.pc = "mark"
        BY <1>1, <2>2, MarkFields
      <3>2. driver.todo # <<>>
        BY <1>1, <3>1 DEF Shape
      <3>3. Head(driver.todo) \in ToSet(driver.good)
            /\ ToSet(driver'.todo) \subseteq ToSet(driver.good)
        BY <1>1, <1>3, <3>1, <3>2, RestOfTodo
      <3>4. \A p \in LabelledOpen' : p \in LabelledOpen \/ p = Head(driver.todo)
        BY <3>1, <1>2 DEF LabelledOpen
      <3> QED
        BY <3>3, <3>4, <1>3
    <2> QED
      BY <2>1, <2>2, SwapFields, MarkFields, <1>1
  <1>5. \A p \in ToSet(driver'.good) : On(p)'
    BY <1>1, <1>2, <1>3, SameBranch
  <1> QED
    BY <1>2, <1>4, <1>5 DEF Placed, Under, Expelling, Building, At

\* Placed survives the end of start_batch.
LEMMA RefusePlaced == ASSUME GreenIInv, Undisturbed, RefuseMember, faults' = 0
                      PROVE  Placed'
  <1>1. QueueTypeOK /\ Placed
    BY DEF GreenIInv, Undisturbed
  <1>2. /\ driver.pc = "refuse" /\ pr' = pr /\ testing' \subseteq testing
        /\ \/ staging' = staging /\ driver'.good = driver.good /\ driver'.pc = "refuse"
           \/ driver'.pc = "idle" /\ (staging' = staging \/ driver.good = <<>>)
    BY <1>1, RefuseFields
  <1>3. LabelledOpen \subseteq ToSet(driver.good) /\ \A p \in ToSet(driver.good) : On(p)
    BY <1>1, <1>2 DEF Placed, Building
  <1>4. LabelledOpen' \subseteq LabelledOpen
    BY <1>1, <1>2, FewerLabels
  <1>5. CASE staging' = staging /\ driver'.good = driver.good /\ driver'.pc = "refuse"
    <2>1. \A p \in ToSet(driver'.good) : On(p)'
      BY <1>1, <1>3, <1>5, SameBranch
    <2> QED
      BY <1>3, <1>4, <1>5, <2>1 DEF Placed, Under, Expelling, Building, At
  <1>6. CASE driver'.pc = "idle" /\ staging' = staging
    <2>1. \A p \in LabelledOpen' : On(p)'
      BY <1>1, <1>3, <1>4, <1>6, SameBranch
    <2> QED
      BY <1>6, <2>1, PlacedTight DEF Tight
  <1>7. CASE driver'.pc = "idle" /\ driver.good = <<>>
    <2>1. LabelledOpen' = {}
      BY <1>3, <1>4, <1>7 DEF ToSet
    <2> QED
      BY <1>7, <2>1, PlacedTight DEF Tight
  <1> QED
    BY <1>2, <1>5, <1>6, <1>7

\* Everybody under test is announced.
LEMMA LandingPlaced == ASSUME GreenIInv, Undisturbed, Advance \/ MergeAdvance, faults' = 0
                       PROVE  Placed'
  <1>1. QueueTypeOK /\ Placed /\ Charted
    BY DEF GreenIInv, Undisturbed
  <1>2. /\ driver.pc \in {"advance", "merge"} /\ testing' = testing /\ staging' = staging
        /\ \/ driver'.pc \in {"idle", "merge"} /\ pr' = pr
           \/ driver'.pc = "complete" /\ driver'.todo = Batch /\ (pr' = pr \/ MoveMain(main'))
    BY <1>1, AdvanceFields, MergeFields DEF labels
  <1>3. \A p \in LabelledOpen : On(p)
    BY <1>1, <1>2 DEF Placed, Under
  <1>4. LabelledOpen' \subseteq LabelledOpen
    <2>1. \A p \in PRs : pr'[p] = "open" => pr[p] = "open"
      BY <1>1, <1>2, MovedOpen
    <2> QED
      BY <1>1, <1>2, <2>1 DEF LabelledOpen, QueueTypeOK
  <1>5. CASE driver'.pc \in {"idle", "merge"}
    <2>1. \A p \in LabelledOpen' : On(p)'
      BY <1>1, <1>2, <1>3, <1>4, SameBranch
    <2> QED
      BY <1>5, <2>1, PlacedTight DEF Tight, Under
  <1>6. CASE driver'.pc = "complete" /\ driver'.todo = Batch
    <2>1. staging # NoBranch /\ driver.chain = ParseChain(staging)
      BY <1>1, <1>2 DEF Charted, Under
    <2>2. LabelledOpen \subseteq Members(driver.chain)
      BY <1>1, <1>3, <2>1, OnIsMember, LabelledPrs
    <2>3. Members(driver.chain) = ToSet(Batch)
      BY DEF Members, ToSet, Batch
    <2> QED
      BY <1>4, <1>6, <2>2, <2>3 DEF Placed, Under, Expelling, Building, At
  <1> QED
    BY <1>2, <1>5, <1>6

\* Who has been announced is no longer under test.
LEMMA CompletePlaced == ASSUME GreenIInv, Undisturbed, CompleteMember \/ DeleteStaging, faults' = 0
                        PROVE  Placed'
  <1>1. QueueTypeOK /\ Placed
    BY DEF GreenIInv, Undisturbed
  <1>2. CASE CompleteMember
    <2>1. /\ driver.pc = "complete" /\ driver.todo # <<>> /\ pr' = pr
          /\ testing' = testing \ {Head(driver.todo)}
          /\ driver'.pc = "complete" /\ driver'.todo = Tail(driver.todo)
      BY <1>1, <1>2, CompleteFields
    <2>2. LabelledOpen \subseteq ToSet(driver.todo)
      BY <1>1, <2>1 DEF Placed, At
    <2>3. ToSet(driver.todo) \subseteq ToSet(Tail(driver.todo)) \cup {Head(driver.todo)}
      BY <1>1, <2>1, RestOfTodo
    <2>4. LabelledOpen' \subseteq LabelledOpen \ {Head(driver.todo)}
      BY <2>1 DEF LabelledOpen
    <2>5. LabelledOpen' \subseteq ToSet(driver'.todo)
      BY <2>1, <2>2, <2>3, <2>4
    <2> QED
      BY <2>1, <2>5 DEF Placed, Under, Expelling, Building, At
  <1>3. CASE DeleteStaging
    <2>1. driver.pc = "complete" /\ driver.todo = <<>> /\ pr' = pr /\ testing' = testing
          /\ driver'.pc = "idle"
      BY <1>1, <1>3, DeleteFields DEF labels
    <2>2. LabelledOpen = {}
      BY <1>1, <2>1 DEF Placed, At, ToSet
    <2>3. LabelledOpen' = {}
      BY <2>1, <2>2 DEF LabelledOpen
    <2> QED
      BY <2>1, <2>3, PlacedTight DEF Tight
  <1> QED
    BY <1>2, <1>3

\* Placed is inductive.
LEMMA PlacedStep == ASSUME GreenIInv, Undisturbed, [Next]_vars, faults' = 0
                    PROVE  Placed'
  <1>1. QueueTypeOK
    BY DEF GreenIInv
  <1>2. CASE Outside \/ UNCHANGED vars
    BY <1>2, OutsidePlaced
  <1>3. ~(CallFails \/ Crash)
    BY <1>1, NoDisturbance DEF CallFails, Crash
  <1>4. CASE DriverStep
    BY <1>4, TightPlaced, RebuildPlaced, ExpelPlaced, RefoldPlaced, ListPlaced, ReadPlaced,
       FoldPlaced,
       SwapPlaced, RefusePlaced, LandingPlaced, CompletePlaced DEF DriverStep
  <1> QED
    BY <1>2, <1>3, <1>4 DEF Next, Outside

-----------------------------------------------------------------------------
(* The properties. *)

\* The inductive invariant.
QueueIInv == GreenIInv /\ (faults = 0 => Undisturbed)

\* Undisturbed holds at first.
LEMMA UndisturbedInit == Init => Undisturbed
  <1> SUFFICES ASSUME Init PROVE Undisturbed
    OBVIOUS
  <1> DEFINE first == Plain({})
             second == Plain({<<0, 0>>})
  <1>1. {} \in SUBSET Changes /\ {<<0, 0>>} \in SUBSET Changes
    BY DEF Changes
  <1>2. first \in Commit /\ second \in Commit
    BY <1>1, PlainTyped
  <1>3. ~first.marked /\ ~second.marked /\ first.adds = {} /\ second.adds = {<<0, 0>>}
    BY DEF Plain
  <1>4. main = <<first, second>> /\ driver = Idle /\ staging = NoBranch /\ absorbed = {}
        /\ testing = {}
    BY DEF Init
  <1> HIDE DEF first, second
  <1>5. main \in History /\ DOMAIN main = 1..2 /\ main[1] = first /\ main[2] = second
    BY <1>2, <1>4 DEF History
  <1>6. Contents(main) = {<<0, 0>>}
    <2>1. \A x : x \in Contents(main) <=> \E j \in 1..2 : x \in main[j].adds
      BY <1>5, ContentsIn
    <2>2. \A j : j \in 1..2 <=> j = 1 \/ j = 2
      OBVIOUS
    <2>3. \A x : x \in Contents(main) <=> x \in first.adds \/ x \in second.adds
      BY <2>1, <2>2, <1>5
    <2> QED
      BY <2>3, <1>3
  <1>7. \A p \in PRs : \A v : <<p, v>> \notin Contents(main)
    <2>1. 0 \notin PRs
      BY Bounds
    <2> QED
      BY <1>6, <2>1
  <1>8. Based(main, head, Contents(main))
    <2>1. \A j \in DOMAIN main : ~main[j].marked
      <3>1. \A j : j \in 1..2 => j = 1 \/ j = 2
        OBVIOUS
      <3> QED
        BY <3>1, <1>3, <1>5
    <2> QED
      BY <2>1, <1>5, LandedIsBased
  <1>9. Histories
    BY <1>4, <1>7, <1>8 DEF Histories, BasedNow, Idle, Building
  <1>10. Charted
    BY <1>4 DEF Charted, Idle, Under, Expelling, At
  <1>11. Placed
    BY <1>4 DEF Placed, LabelledOpen, Idle, Under, Expelling, Building, At
  <1> QED
    BY <1>9, <1>10, <1>11 DEF Undisturbed

\* GreenIInv holds at first.
LEMMA GreenInit == Init => GreenIInv
  <1> SUFFICES ASSUME Init PROVE GreenIInv
    OBVIOUS
  <1>1. QueueTypeOK /\ Shape
    BY InitTyped
  <1>2. Tips
    BY DEF Init, Tips, NoAdvance
  <1>3. Verdict
    BY DEF Init, Verdict, Idle, Under
  <1> QED
    BY <1>1, <1>2, <1>3 DEF GreenIInv

\* GreenIInv is inductive.
LEMMA GreenNext == GreenIInv /\ [Next]_vars => GreenIInv'
  <1> SUFFICES ASSUME GreenIInv, [Next]_vars PROVE GreenIInv'
    OBVIOUS
  <1>1. QueueTypeOK /\ Shape /\ Tips /\ Verdict
    BY DEF GreenIInv
  <1>2. advance.open => staging # NoBranch
    BY <1>1 DEF Tips
  <1>3. QueueTypeOK' /\ Shape'
    BY <1>1, <1>2, NextTyped
  <1>4. Tips' /\ Verdict'
    BY <1>1, TipsStep, VerdictStep
  <1> QED
    BY <1>3, <1>4 DEF GreenIInv

\* The invariant is inductive.
LEMMA QueueNext == QueueIInv /\ [Next]_vars => QueueIInv'
  <1> SUFFICES ASSUME QueueIInv, [Next]_vars PROVE QueueIInv'
    OBVIOUS
  <1>1. GreenIInv /\ GreenIInv'
    BY GreenNext DEF QueueIInv
  <1>2. ASSUME faults' = 0 PROVE Undisturbed'
    <2>1. QueueTypeOK
      BY <1>1 DEF GreenIInv
    <2>2. faults = 0
      BY <1>2, <2>1, FaultsGrow
    <2>3. Undisturbed
      BY <2>2 DEF QueueIInv
    <2> QED
      BY <1>1, <1>2, <2>3, HistoriesStep, ChartedStep, PlacedStep DEF Undisturbed
  <1> QED
    BY <1>1, <1>2 DEF QueueIInv

\* What an advance lands when nothing was disturbed.
LEMMA LandedAsRecorded ==
    ASSUME GreenIInv, Undisturbed, driver.pc \in {"advance", "merge"},
           NEW c \in ToSet(Last(driver.chain).at), c.marked, ~(c.adds \subseteq Contents(main))
    PROVE  c.pr \in Members(driver.chain) /\ c.adds = {<<c.pr, c.was>>}
  <1>1. QueueTypeOK /\ Verdict /\ Charted /\ Histories
    BY DEF GreenIInv, Undisturbed
  <1> DEFINE h == staging
             b == Base(h)
  <1>2. /\ h \in History /\ Last(driver.chain).at = h /\ driver.chain = ParseChain(h)
        /\ \A j \in DOMAIN ParseChain(h) : Exact(ParseChain(h)[j])
        /\ Based(h, head, Contents(main))
    BY <1>1 DEF Verdict, Charted, Under, QueueTypeOK, Histories, BasedNow
  <1>3. PICK k \in DOMAIN h : c = h[k]
    BY <1>2 DEF ToSet
  <1>4. b \in 0..Len(h) /\ Len(h) \in Nat /\ DOMAIN h = 1..Len(h) /\ (b > 0 => ~h[b].marked)
        /\ DOMAIN ParseChain(h) = 1..(Len(h) - b)
    BY <1>2, BaseFacts, ParseFacts DEF History
  <1>5. k > b
    <2> SUFFICES ASSUME ~(k > b) PROVE FALSE
      OBVIOUS
    <2> HIDE DEF h, b
    <2>1. b > 0 /\ b \in DOMAIN h /\ k \in 1..b
      BY <1>3, <1>4
    <2>2. \A j \in 1..b : h[j].adds \subseteq Contents(main)
      BY <1>2, <1>4, <2>1 DEF Based
    <2> QED
      BY <1>3, <2>1, <2>2
  <1> DEFINE j == k - b
  <1>6. j \in DOMAIN ParseChain(h) /\ b + j = k
    <2> HIDE DEF h, b
    <2> QED
      BY <1>3, <1>4, <1>5
  <1> HIDE DEF j
  <1> DEFINE e == ParseChain(h)[j]
  <1>7. e.pr = c.pr /\ e.was = c.was /\ Last(e.at) = c
    BY <1>2, <1>3, <1>6, ChainSound
  <1>8. Last(e.at).adds = {<<e.pr, e.was>>}
    BY <1>2, <1>6 DEF Exact
  <1>9. e.pr \in Members(driver.chain)
    BY <1>2, <1>6 DEF Members
  <1> HIDE DEF e
  <1> QED
    BY <1>7, <1>8, <1>9

\* The same as a statement about steps.
LEMMA RecordedStep ==
    QueueIInv /\ [Next]_vars =>
        (Landing /\ faults = 0 =>
            LET tested == Last(driver.chain).at IN
            \A c \in ToSet(tested) :
               c.marked /\ ~(c.adds \subseteq Contents(main)) =>
                   c.pr \in Members(driver.chain) /\ c.adds = {<<c.pr, c.was>>})
  BY LandedAsRecorded DEF QueueIInv, Landing

\* The inductive invariant is an invariant of the queue.
THEOREM QueueInvariant == Spec => []QueueIInv
  <1>1. Init => QueueIInv
    BY GreenInit, UndisturbedInit DEF QueueIInv
  <1>2. QueueIInv /\ [Next]_vars => QueueIInv'
    BY QueueNext
  <1> QED
    BY <1>1, <1>2, PTL DEF Spec

\* Labels, branches and the tick in flight are well formed, and complete_batch thanks
\* only pull requests whose change is in main, as long as nothing was disturbed.
THEOREM AnnouncedHaveLanded == Spec => []QueueInv
  <1>1. QueueIInv => QueueInv
    BY DEF QueueIInv, GreenIInv, Undisturbed, Charted, QueueInv, AnnouncedAreMerged
  <1> QED
    BY <1>1, QueueInvariant, PTL

\* Whatever fails, crashes or is deleted, pump_one moves main only to a combination
\* that CI reported green (or GitHub merges a green one into a main that moved).
THEOREM OnlyGreenAdvances == Spec => AdvancesGreen
  <1> DEFINE A == Landing => \/ Contents(main') \in passed
                             \/ method = "pr" /\ ~(Contents(main) \subseteq Contents(staging))
  <1>1. QueueIInv /\ [Next]_vars => A
    BY GreenStep DEF QueueIInv
  <1>2. AdvancesGreen <=> [][A]_vars
    BY DEF AdvancesGreen
  <1> HIDE DEF A
  <1> QED
    BY <1>1, <1>2, QueueInvariant, PTL DEF Spec

\* While nothing was disturbed, every marked commit an advance brings into main is of
\* a member that was checked, at the very head its marker records.
THEOREM RecordedHeadsLand == Spec => LandsRecordedHeads
  <1> DEFINE A == Landing /\ faults = 0 =>
                    LET tested == Last(driver.chain).at IN
                    \A c \in ToSet(tested) :
                       c.marked /\ ~(c.adds \subseteq Contents(main)) =>
                           c.pr \in Members(driver.chain) /\ c.adds = {<<c.pr, c.was>>}
  <1>1. QueueIInv /\ [Next]_vars => A
    BY RecordedStep
  <1>2. LandsRecordedHeads <=> [][A]_vars
    BY DEF LandsRecordedHeads
  <1> HIDE DEF A
  <1> QED
    BY <1>1, <1>2, QueueInvariant, PTL DEF Spec

=============================================================================
