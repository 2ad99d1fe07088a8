------------------------ MODULE IdleWorkflowsProofs ------------------------
(***************************************************************************)
(* Theorems about the idle-time scheduler for any number of commits, runs, *)
(* moves by people and faults, and any number of retries: a commit gets no *)
(* more attempts than allowed, the scheduler has one run of a commit at a  *)
(* time, and it starts nothing that was decided.                           *)
(*                                                                         *)
(* IdleIInv is about a dispatched run that GitHub does not list yet: it is *)
(* tracked by the stored request, or counted and found again through what  *)
(* is stored of its commit (NoneLost).  That is why a pass that finds no   *)
(* run may dispatch one (ChosenFormed), and why every attempt is covered   *)
(* by the count before it is made, except the one of a commit that was     *)
(* pushed between the decision and the dispatch, which its run stands for  *)
(* (Counted).  A dispatch names a branch: one forced back to an older      *)
(* commit in between is the exception to all of it (returned).             *)
(***************************************************************************)
EXTENDS IdleWorkflows, SequenceTheorems, FiniteSetTheorems, WellFoundedInduction, TLAPS

-----------------------------------------------------------------------------
(* The inductive invariant. *)

\* The runs on GitHub.
R == ToSet(runs)
\* The scheduler started it.
Bot(r) == r.by = "bot"
\* Runs have numbers of their own.
Distinct(s) == \A r, q \in DOMAIN s : s[r].id = s[q].id => r = q
\* The pass has chosen a commit and what to run.
Chosen == pass.pc \in {"gate", "fresh", "send"}
\* An attempt at a commit is counted and not yet made.
Due(s) == IF pass.pc \in {"send", "refused"} /\ pass.sha = s THEN 1 ELSE 0

\* Runs have numbers and commits that exist.  Only runs the scheduler has just
\* dispatched are not listed.
RunsFormed == \A r \in R :
    /\ r.id <= used /\ r.sha <= pushed /\ r.tries >= 1
    /\ ~r.listed => r.state = "active" /\ Bot(r)
    /\ Bot(r) => made[r.sha] >= 1
\* The stored request is about runs that exist; once its grace has passed every run
\* is listed, and at most one dispatched run is newer than it.
RequestFormed ==
    /\ \A s \in Shas : builds[s].run <= used
    /\ pending # None => pending.since <= used /\ \A k \in pending.known : k <= used
    /\ pending.run <= used /\ (pending.run = 0 => pending.tries = 0)
    /\ \A r \in R : r.id = pending.run => Equivalent(r)
    /\ pending # None /\ grace => \A r \in R : r.listed
    /\ pending # None => \A r, q \in R :
         Bot(r) /\ Bot(q) /\ r.id > pending.since /\ q.id > pending.since => r.id = q.id
\* The stored request finds a run: by number, or as the newest one it does not know.
Tracked(r) ==
    /\ pending # None /\ pending.tries = 0
    /\ \/ pending.run = r.id
       \/ pending.run = 0 /\ r.id > pending.since /\ r.id \notin pending.known
\* The next reading of its commit finds a run, or one in its place.
Found(r) ==
    /\ builds[r.sha].attempts >= 1
    /\ \/ r.sha \in hidden \cup returned \/ builds[r.sha].run = r.id
       \/ \E z \in R : z.sha = r.sha /\ z.listed /\ Equivalent(z)
\* A run that GitHub does not list is tracked or found.
NoneLost == \A r \in R : r.listed \/ Tracked(r) \/ Found(r)
\* The scheduler has one run of a commit, whatever its state.
OneRun == \A r, q \in R : Bot(r) /\ Bot(q) /\ r.sha = q.sha => r.id = q.id
    \/ r.sha \in hidden \cup returned
\* Nothing is known or made of a commit that was not pushed.
Unpushed == \A s \in Shas : s > pushed => made[s] = 0 /\ builds[s].terminal = "none"
\* Attempts made are covered by the stored count, or by the only run.
Counted == \A s \in Shas \ (unseen \cup returned) :
    \/ made[s] + Due(s) <= builds[s].attempts
    \/ made[s] = 1 /\ Due(s) = 0 /\ \E r \in R : r.sha = s /\ Bot(r)

\* What the pass saw existed; no run was dispatched since it began until it sends.
PassFormed ==
    /\ pass.since <= used /\ (\A r \in pass.before : r.id <= used /\ r.tries >= 1)
    /\ \A k \in pass.settled : k <= used
    /\ pass.pc \in {"read", "gate", "fresh"} => pending = None
    /\ pass.pc \in {"pending", "read", "gate", "fresh"} => \A r \in R : Bot(r) => r.id <= pass.since
    /\ pass.pc \in {"pending", "read"} => \A r \in R : r.id \in pass.settled => Decided(r)
\* Nothing was started or decided of a commit.
Untried(s) ==
    /\ made[s] = 0 /\ builds[s].terminal = "none"
    /\ \A r \in R : r.id \in pass.settled => r.sha # s
\* The commit chosen is undecided, and the branch is there, at one pushed since, or
\* forced back to another; no run of the chosen one exists, or its run is the one to
\* run again.
ChosenFormed == Chosen =>
    /\ pass.target <= used /\ pass.sha <= pushed /\ builds[pass.sha].terminal = "none"
    /\ \A r \in R : r.id \in pass.settled => r.sha # pass.sha
    /\ pass.pc \in {"fresh", "send"} => head \in returned \cup {pass.sha} \/ Untried(head)
    /\ pass.target # 0 => \A r \in R : r.id = pass.target => r.sha = pass.sha /\ Equivalent(r)
    /\ pass.target = 0 =>
         pass.sha \in hidden \cup returned \/ \A r \in R : Bot(r) => r.sha # pass.sha
\* There is an attempt left.
ReadyFormed == pass.pc \in {"gate", "fresh"} =>
    /\ builds[pass.sha].attempts <= max_retries
    /\ pass.sha \in unseen \cup returned \/ made[pass.sha] <= builds[pass.sha].attempts
    /\ pass.target # 0 => \E r \in pass.before : r.id = pass.target
\* The request is stored before it is sent.
SentFormed ==
    /\ pass.pc \in {"send", "refused", "answer"} => pending # None /\ ~grace
    /\ pass.pc \in {"send", "refused"} =>
         /\ pending.run = pass.target /\ (pending.run # 0 => pending.tries >= 1)
         /\ builds[pass.sha].attempts \in 1..(max_retries + 1)
         /\ \A r \in R : Bot(r) => r.id <= pending.since
         /\ \A r \in R : r.sha = pass.sha /\ ~r.listed => builds[pass.sha].attempts >= 2
    /\ pass.pc = "answer" =>
         /\ pass.target \in 1..used /\ \A r \in R : r.id = pass.target => Equivalent(r)
         /\ pending.tries = 0 => \A r \in R : r.id = pass.target \/ r.listed \/ ~Tracked(r)

\* What holds of GitHub and of what is stored ...
Standing == RunsFormed /\ RequestFormed /\ NoneLost /\ OneRun /\ Unpushed /\ AttemptsBounded
\* ... and of the pass.
Passing == PassFormed /\ ChosenFormed /\ ReadyFormed /\ SentFormed
\* The inductive invariant.
IdleIInv == IdleTypeOK /\ Standing /\ Counted /\ Passing

-----------------------------------------------------------------------------
(* Sets and sequences of runs. *)

\* A set of numbers has a least element.
LEMMA LeastElement ==
    \A S \in SUBSET Nat : S # {} => \E x \in S : \A y \in S : x <= y
  <1> SUFFICES ASSUME NEW S \in SUBSET Nat, S # {}
               PROVE  \E x \in S : \A y \in S : x <= y
    OBVIOUS
  <1>1. PICK x \in S : \A y \in S : <<y, x>> \notin OpToRel(<, Nat)
    BY NatLessThanWellFounded, WFMin
  <1>2. \A y \in S : ~(y < x)
    BY <1>1 DEF OpToRel
  <1> QED
    BY <1>2

\* What a finite set is mapped onto is finite.
LEMMA ImageFinite ==
    ASSUME NEW S, NEW T, NEW f \in [S -> T], \A t \in T : \E s \in S : f[s] = t, IsFiniteSet(S)
    PROVE  IsFiniteSet(T)
  <1>1. f \in Surjection(S, T)
    BY DEF Surjection
  <1> QED
    BY <1>1, FS_Surjection

\* A finite set of numbers has a greatest element.
LEMMA GreatestElement ==
    \A S \in SUBSET Nat : IsFiniteSet(S) /\ S # {} => \E x \in S : \A y \in S : x >= y
  <1> DEFINE Fits(n) == \A S \in SUBSET Nat :
                 IsFiniteSet(S) /\ S # {} /\ Cardinality(S) = n => \E x \in S : \A y \in S : x >= y
             Bad == {n \in Nat : ~Fits(n)}
  <1>1. Bad = {}
    <2> SUFFICES ASSUME Bad # {} PROVE FALSE
      OBVIOUS
    <2>1. PICK n \in Bad : \A k \in Bad : n <= k
      BY LeastElement
    <2>2. PICK S \in SUBSET Nat : IsFiniteSet(S) /\ S # {} /\ Cardinality(S) = n
                                 /\ ~\E x \in S : \A y \in S : x >= y
      BY <2>1
    <2>3. PICK x \in S : TRUE
      BY <2>2
    <2> DEFINE T == S \ {x}
    <2>4. IsFiniteSet(T) /\ Cardinality(T) = n - 1 /\ T \in SUBSET Nat
      BY <2>2, <2>3, FS_RemoveElement
    <2>5. n - 1 \in Nat
      BY <2>1, <2>4, FS_CardinalityType
    <2>6. Fits(n - 1)
      <3>1. n - 1 \notin Bad
        BY <2>1, <2>5
      <3> QED BY <2>5, <3>1
    <2>7. CASE T = {}
      BY <2>2, <2>3, <2>7
    <2>8. CASE T # {}
      <3>1. PICK z \in T : \A y \in T : z >= y
        BY <2>4, <2>6, <2>8
      <3> QED BY <2>2, <2>3, <2>4, <3>1
    <2> QED BY <2>7, <2>8
  <1> SUFFICES ASSUME NEW S \in SUBSET Nat, IsFiniteSet(S), S # {}
               PROVE \E x \in S : \A y \in S : x >= y
    OBVIOUS
  <1>2. Cardinality(S) \in Nat
    BY FS_CardinalityType
  <1> QED BY <1>1, <1>2

\* Max is the greatest element.
LEMMA MaxIs ==
    ASSUME NEW S \in SUBSET Nat, IsFiniteSet(S), S # {}
    PROVE  Max(S) \in S /\ \A y \in S : Max(S) >= y
  BY GreatestElement DEF Max

\* A run of a new number joins the others.
LEMMA RunsAppend ==
    ASSUME NEW s \in Seq(Run), Distinct(s), NEW n \in Run, \A q \in ToSet(s) : q.id # n.id
    PROVE  Append(s, n) \in Seq(Run) /\ Distinct(Append(s, n))
           /\ ToSet(Append(s, n)) = ToSet(s) \cup {n}
  <1>1. Append(s, n) \in Seq(Run) /\ Len(Append(s, n)) = Len(s) + 1
        /\ DOMAIN Append(s, n) = 1..(Len(s) + 1) /\ DOMAIN s = 1..Len(s) /\ Len(s) \in Nat
        /\ (\A i \in 1..Len(s) : Append(s, n)[i] = s[i]) /\ Append(s, n)[Len(s) + 1] = n
    OBVIOUS
  <1>2. ToSet(Append(s, n)) = ToSet(s) \cup {n}
    <2> DEFINE t == Append(s, n)
    <2> HIDE DEF t
    <2>1. DOMAIN t = 1..(Len(s) + 1) /\ DOMAIN s = 1..Len(s) /\ Len(s) \in Nat
          /\ (\A i \in 1..Len(s) : t[i] = s[i]) /\ t[Len(s) + 1] = n
      BY <1>1 DEF t
    <2>2. ToSet(t) = ToSet(s) \cup {n}
      BY <2>1 DEF ToSet
    <2> QED BY <2>2 DEF t
  <1>3. Distinct(Append(s, n))
    <2>1. \A i \in 1..Len(s) : s[i].id # n.id
      BY <1>1 DEF ToSet
    <2> QED BY <1>1, <2>1 DEF Distinct
  <1> QED BY <1>1, <1>2, <1>3

\* RemoveAt takes away one run.
LEMMA RunsRemove ==
    ASSUME NEW s \in Seq(Run), Distinct(s), NEW i \in DOMAIN s
    PROVE  /\ RemoveAt(s, i) \in Seq(Run) /\ Distinct(RemoveAt(s, i))
           /\ ToSet(RemoveAt(s, i)) = ToSet(s) \ {s[i]}
  <1> DEFINE t == RemoveAt(s, i)
  <1>1. Len(s) \in Nat /\ DOMAIN s = 1..Len(s) /\ i \in 1..Len(s)
    OBVIOUS
  <1>2. /\ SubSeq(s, 1, i - 1) \in Seq(Run) /\ Len(SubSeq(s, 1, i - 1)) = i - 1
        /\ \A j \in 1..(i - 1) : SubSeq(s, 1, i - 1)[j] = s[j]
    BY <1>1
  <1>3. /\ SubSeq(s, i + 1, Len(s)) \in Seq(Run) /\ Len(SubSeq(s, i + 1, Len(s))) = Len(s) - i
        /\ \A j \in 1..(Len(s) - i) : SubSeq(s, i + 1, Len(s))[j] = s[j + i]
    BY <1>1
  <1>4. t \in Seq(Run) /\ Len(t) = Len(s) - 1 /\ DOMAIN t = 1..(Len(s) - 1)
    BY <1>1, <1>2, <1>3 DEF RemoveAt
  <1>5. ASSUME NEW j \in 1..(Len(s) - 1) PROVE t[j] = IF j < i THEN s[j] ELSE s[j + 1]
    <2> DEFINE u == SubSeq(s, 1, i - 1)
               v == SubSeq(s, i + 1, Len(s))
    <2>1. t = u \o v
      BY DEF RemoveAt
    <2>2. u \in Seq(Run) /\ v \in Seq(Run) /\ Len(u) = i - 1 /\ Len(v) = Len(s) - i
      BY <1>2, <1>3
    <2>3. (\A k \in 1..(i - 1) : u[k] = s[k]) /\ (\A k \in 1..(Len(s) - i) : v[k] = s[k + i])
      BY <1>2, <1>3
    <2> HIDE DEF t, u, v
    <2>4. t[j] = IF j <= Len(u) THEN u[j] ELSE v[j - Len(u)]
      <3>1. j \in 1..(Len(u) + Len(v))
        BY <1>1, <2>2
      <3> QED BY <2>1, <2>2, <3>1, SMTT(30)
    <2>5. CASE j < i
      BY <1>1, <2>2, <2>3, <2>4, <2>5
    <2>6. CASE ~(j < i)
      <3>1. j - Len(u) \in 1..(Len(s) - i) /\ ~(j <= Len(u)) /\ (j - Len(u)) + i = j + 1
        BY <1>1, <2>2, <2>6
      <3> QED BY <1>1, <2>3, <2>4, <2>6, <3>1
    <2> QED BY <2>5, <2>6
  <1> HIDE DEF t
  <1>6. Distinct(t)
    <2> DEFINE k(j) == IF j < i THEN j ELSE j + 1
    <2>1. \A j \in 1..(Len(s) - 1) : k(j) \in 1..Len(s) /\ t[j] = s[k(j)]
      BY <1>1, <1>5
    <2>2. \A j, l \in 1..(Len(s) - 1) : k(j) = k(l) => j = l
      BY <1>1
    <2> HIDE DEF k
    <2> QED BY <1>1, <1>4, <2>1, <2>2 DEF Distinct
  <1>7. ToSet(t) = ToSet(s) \ {s[i]}
    <2>1. ASSUME NEW x \in ToSet(t) PROVE x \in ToSet(s) \ {s[i]}
      <3>1. PICK j \in 1..(Len(s) - 1) : x = t[j]
        BY <1>4 DEF ToSet
      <3>2. PICK k \in 1..Len(s) : k # i /\ x = s[k]
        BY <1>1, <1>5, <3>1
      <3> QED BY <1>1, <3>2 DEF ToSet, Distinct
    <2>2. ASSUME NEW x \in ToSet(s) \ {s[i]} PROVE x \in ToSet(t)
      <3>1. PICK k \in 1..Len(s) : x = s[k] /\ k # i
        BY <1>1 DEF ToSet
      <3>2. CASE k < i
        BY <1>1, <1>4, <1>5, <3>1, <3>2 DEF ToSet
      <3>3. CASE k > i
        <4>1. k - 1 \in 1..(Len(s) - 1) /\ t[k - 1] = s[k]
          BY <1>1, <1>5, <3>1, <3>3
        <4> QED BY <1>4, <3>1, <4>1 DEF ToSet
      <3> QED BY <1>1, <3>1, <3>2, <3>3
    <2> QED BY <2>1, <2>2
  <1> QED BY <1>4, <1>6, <1>7 DEF t

\* Put replaces a run by its update.
LEMMA RunsPut ==
    ASSUME IdleTypeOK, NEW i \in DOMAIN runs, NEW n \in Run, n.id = runs[i].id
    PROVE  Put(i, n) \in Seq(Run) /\ Distinct(Put(i, n))
           /\ ToSet(Put(i, n)) = (R \ {runs[i]}) \cup {n}
  <1>1. runs \in Seq(Run) /\ Distinct(runs)
    BY DEF IdleTypeOK, Distinct
  <1>2. \A q \in R \ {runs[i]} : q.id # n.id
    BY <1>1 DEF Distinct, R, ToSet
  <1> QED BY <1>1, <1>2, RunsRemove, RunsAppend DEF Put, R

\* A run is updated in place.
LEMMA RunsSet ==
    ASSUME IdleTypeOK, NEW i \in DOMAIN runs, NEW n \in Run, n.id = runs[i].id
    PROVE  /\ [runs EXCEPT ![i] = n] \in Seq(Run) /\ Distinct([runs EXCEPT ![i] = n])
           /\ ToSet([runs EXCEPT ![i] = n]) = (R \ {runs[i]}) \cup {n}
  <1> DEFINE t == [runs EXCEPT ![i] = n]
  <1>1. runs \in Seq(Run) /\ Distinct(runs)
    BY DEF IdleTypeOK, Distinct
  <1>2. DOMAIN t = DOMAIN runs /\ t[i] = n /\ (\A j \in DOMAIN runs \ {i} : t[j] = runs[j])
    BY <1>1
  <1>3. t \in Seq(Run)
    BY <1>1
  <1> HIDE DEF t
  <1>4. Distinct(t)
    BY <1>1, <1>2 DEF Distinct
  <1>5. ToSet(t) = (R \ {runs[i]}) \cup {n}
    BY <1>1, <1>2 DEF ToSet, R, Distinct
  <1> QED BY <1>3, <1>4, <1>5 DEF t

\* The types of the runs.
LEMMA RunsTyped ==
    ASSUME IdleTypeOK
    PROVE  /\ R \subseteq Run /\ (\A r, q \in R : r.id = q.id => r = q) /\ IsFiniteSet(R)
           /\ \A r \in R : r.id \in Nat \ {0} /\ r.sha \in Shas /\ r.sha \in Nat /\ r.tries \in Nat
  <1>1. runs \in Seq(Run) /\ Distinct(runs) /\ DOMAIN runs = 1..Len(runs) /\ Len(runs) \in Nat
    BY DEF IdleTypeOK, Distinct
  <1>2. R \subseteq Run /\ (\A r, q \in R : r.id = q.id => r = q)
    BY <1>1 DEF R, ToSet, Distinct
  <1>3. IsFiniteSet(R)
    <2>1. IsFiniteSet(1..Len(runs))
      BY <1>1, FS_Interval
    <2>2. runs \in [1..Len(runs) -> R] /\ \A r \in R : \E i \in 1..Len(runs) : runs[i] = r
      BY <1>1 DEF R, ToSet
    <2> QED BY <2>1, <2>2, ImageFinite
  <1> QED BY <1>2, <1>3, IdleAssumption DEF Run, Ids, Shas

-----------------------------------------------------------------------------
(* What a reading records. *)

\* What is known of a commit.
Build == [terminal : {"none", "success", "cancelled"}, attempts : Nat, run : Ids \cup {0}]

\* Recording runs counts their attempts; nothing is decided only if none of them is.
LEMMA RecordIs ==
    ASSUME NEW b \in Build, NEW noted \in SUBSET Run, IsFiniteSet(noted), NEW run \in Ids
    PROVE  /\ Record(b, noted, run) \in Build /\ Record(b, noted, run).run = run
           /\ Record(b, noted, run).attempts >= b.attempts
           /\ \A r \in noted : Record(b, noted, run).attempts >= r.tries
           /\ Record(b, noted, run).terminal = "none" =>
                b.terminal = "none" /\ \A r \in noted : r.state \notin {"success", "cancelled"}
  <1> DEFINE tries == {r.tries : r \in noted}
             S == {b.attempts} \cup tries
  <1>1. \A r \in noted : r.tries \in Nat
    BY DEF Run
  <1>2. IsFiniteSet(tries)
    <2> DEFINE f == [r \in noted |-> r.tries]
    <2>1. f \in [noted -> tries] /\ \A t \in tries : \E r \in noted : f[r] = t
      OBVIOUS
    <2> HIDE DEF f, tries
    <2> QED BY <2>1, ImageFinite
  <1>3. IsFiniteSet(S) /\ S \in SUBSET Nat /\ S # {}
    <2>1. IsFiniteSet(S)
      BY <1>2, FS_Singleton, FS_Union
    <2> QED BY <1>1, <2>1 DEF Build
  <1>4. Max(S) \in Nat /\ Max(S) >= b.attempts /\ \A r \in noted : Max(S) >= r.tries
    <2> HIDE DEF S
    <2>1. Max(S) \in S /\ \A y \in S : Max(S) >= y
      BY <1>3, MaxIs
    <2> QED BY <1>3, <2>1 DEF S
  <1>5. Record(b, noted, run).attempts = Max(S) /\ Record(b, noted, run).run = run
    BY DEF Record, Build
  <1>6. /\ Record(b, noted, run).terminal \in {"none", "success", "cancelled"}
        /\ Record(b, noted, run).terminal = "none" =>
             b.terminal = "none" /\ \A r \in noted : r.state \notin {"success", "cancelled"}
    BY DEF Record, Build
  <1>7. Record(b, noted, run) \in Build
    <2> HIDE DEF S
    <2>1. Max(S) \in Nat
      BY <1>4
    <2> DEFINE end == IF b.terminal = "success"
                      \/ \E r \in noted : r.state = "success" THEN "success"
                      ELSE IF \E r \in noted :
                      r.state = "cancelled" THEN "cancelled" ELSE b.terminal
               most == Max(S)
    <2>2. end \in {"none", "success", "cancelled"}
      BY DEF Build
    <2>3. Record(b, noted, run) = [b EXCEPT !.run = run, !.attempts = most, !.terminal = end]
      BY DEF Record, S
    <2> HIDE DEF end, most
    <2> QED BY <2>1, <2>2, <2>3 DEF Build, most
  <1> QED BY <1>4, <1>5, <1>6, <1>7

\* Latest is one of the equivalent runs.
LEMMA LatestIs ==
    ASSUME IdleTypeOK, NEW sha \in Shas, Matching(sha) # {}
    PROVE  Latest(sha) \in Matching(sha)
  <1> DEFINE D == {i \in DOMAIN runs : runs[i] \in Matching(sha)}
  <1>1. DOMAIN runs = 1..Len(runs) /\ Len(runs) \in Nat
    BY DEF IdleTypeOK
  <1>2. D \in SUBSET Nat /\ IsFiniteSet(D)
    <2>1. IsFiniteSet(1..Len(runs))
      BY <1>1, FS_Interval
    <2>2. D \subseteq 1..Len(runs)
      BY <1>1
    <2>3. D \in SUBSET Nat
      BY <1>1
    <2> HIDE DEF D
    <2>4. IsFiniteSet(D)
      BY <2>1, <2>2, FS_Subset
    <2> QED BY <2>3, <2>4
  <1>3. D # {}
    BY DEF Matching, Listed, ToSet
  <1> HIDE DEF D
  <1>4. Max(D) \in D
    BY <1>2, <1>3, MaxIs
  <1> QED BY <1>4 DEF D, Latest

\* There are finitely many attempts.
LEMMA AttemptsFinite ==
    ASSUME IdleTypeOK, NEW sha \in Shas
    PROVE  Cardinality(Attempts(sha)) \in Nat
  <1> DEFINE M == Matching(sha)
             f == [r \in M |-> {r.id} \X (1..r.tries)]
             T == {{r.id} \X (1..r.tries) : r \in M}
  <1>1. M \subseteq R /\ IsFiniteSet(M) /\ M \subseteq Run
    BY RunsTyped, FS_Subset DEF Matching, Listed, R
  <1>2. f \in [M -> T] /\ \A t \in T : \E r \in M : f[r] = t
    OBVIOUS
  <1>3. IsFiniteSet(T)
    <2> HIDE DEF M, f, T
    <2> QED BY <1>1, <1>2, ImageFinite
  <1>4. ASSUME NEW t \in T PROVE IsFiniteSet(t)
    <2>1. PICK r \in M : t = {r.id} \X (1..r.tries)
      OBVIOUS
    <2>2. r.tries \in Nat
      BY <1>1 DEF Run
    <2>3. IsFiniteSet(1..r.tries)
      BY <2>2, FS_Interval
    <2>4. IsFiniteSet({r.id})
      BY FS_Singleton
    <2> QED BY <2>1, <2>3, <2>4, FS_Product
  <1>5. IsFiniteSet(UNION T)
    <2> HIDE DEF T
    <2> QED BY <1>3, <1>4, FS_UNION
  <1>6. Attempts(sha) = UNION T
    BY DEF Attempts
  <1> QED BY <1>5, <1>6, FS_CardinalityType

\* What a reading of a commit leaves: no fewer attempts, the number of the latest run,
\* and nothing decided only if no run decides.
LEMMA KnownIs ==
    ASSUME IdleTypeOK, NEW sha \in Shas
    PROVE  /\ Known(sha) \in Build /\ Known(sha).attempts >= builds[sha].attempts
           /\ \A r \in Matching(sha) : Known(sha).attempts >= r.tries
           /\ Matching(sha) # {} => Known(sha).run = Latest(sha).id
           /\ Known(sha).run = builds[sha].run \/ \E r \in R : Known(sha).run = r.id
           /\ Known(sha).terminal = "none" =>
                /\ builds[sha].terminal = "none" /\ \A r \in Matching(sha) : r.state # "success"
                /\ \A r \in Listed(sha) : r.state # "cancelled"
  <1> DEFINE mine == Matching(sha)
             cancelled == {r \in Listed(sha) : r.state = "cancelled"}
             noted == mine \cup cancelled
             run == IF mine # {} THEN Latest(sha).id ELSE Max({r.id : r \in noted})
             b == IF noted = {} THEN builds[sha] ELSE Record(builds[sha], noted, run)
             card == Cardinality(Attempts(sha))
  <1>1. mine \subseteq R /\ cancelled \subseteq R /\ R \subseteq Run /\ IsFiniteSet(R)
    BY RunsTyped DEF Matching, Listed, R
  <1>2. noted \in SUBSET Run /\ IsFiniteSet(noted)
    BY <1>1, FS_Subset
  <1>3. builds[sha] \in Build
    BY DEF IdleTypeOK, Build
  <1>4. noted # {} => \E r \in R : run = r.id
    <2>1. CASE mine # {}
      BY <1>1, <2>1, LatestIs
    <2>2. CASE mine = {} /\ noted # {}
      <3> DEFINE ids == {r.id : r \in noted}
                 f == [r \in noted |-> r.id]
      <3>1. f \in [noted -> ids] /\ \A t \in ids : \E r \in noted : f[r] = t
        OBVIOUS
      <3>2. ids \in SUBSET Nat /\ ids # {}
        BY <1>2, <2>2 DEF Run, Ids
      <3>3. IsFiniteSet(ids)
        <4> HIDE DEF f, ids, noted
        <4> QED BY <1>2, <3>1, ImageFinite
      <3>4. Max(ids) \in ids
        <4> HIDE DEF ids
        <4> QED BY <3>2, <3>3, MaxIs
      <3> QED BY <1>1, <2>2, <3>4
    <2> QED BY <2>1, <2>2
  <1>5. noted # {} => run \in Ids
    BY <1>1, <1>4 DEF Run
  <1>6. /\ b \in Build /\ b.attempts >= builds[sha].attempts
        /\ \A r \in noted : b.attempts >= r.tries
        /\ noted # {} => b.run = run
        /\ noted = {} => b.run = builds[sha].run
        /\ b.terminal = "none" =>
             builds[sha].terminal = "none"
             /\ \A r \in noted : r.state \notin {"success", "cancelled"}
    <2>1. CASE noted = {}
      <3>1. b = builds[sha]
        BY <2>1
      <3>2. builds[sha].attempts \in Nat
        BY <1>3 DEF Build
      <3> HIDE DEF b, noted
      <3> QED BY <1>3, <2>1, <3>1, <3>2
    <2>2. CASE noted # {}
      <3>1. b = Record(builds[sha], noted, run)
        BY <2>2
      <3> HIDE DEF b, noted, run
      <3> QED BY <1>2, <1>3, <1>5, <2>2, <3>1, RecordIs
    <2> QED BY <2>1, <2>2
  <1>7. card \in Nat
    BY AttemptsFinite
  <1>8. Max({b.attempts, card}) \in Nat /\ Max({b.attempts, card}) >= b.attempts
    <2> HIDE DEF b, card
    <2>1. b.attempts \in Nat
      BY <1>6 DEF Build
    <2>2. IsFiniteSet({b.attempts, card})
      <3>1. {b.attempts, card} = {b.attempts} \cup {card}
        OBVIOUS
      <3>2. IsFiniteSet({b.attempts}) /\ IsFiniteSet({card})
        BY FS_Singleton
      <3> QED BY <3>1, <3>2, FS_Union
    <2> DEFINE S == {b.attempts, card}
    <2>3. S \in SUBSET Nat /\ S # {} /\ b.attempts \in S
      BY <1>7, <2>1
    <2> HIDE DEF S
    <2>4. Max(S) \in S /\ \A y \in S : Max(S) >= y
      BY <2>2, <2>3, MaxIs DEF S
    <2> QED BY <2>3, <2>4 DEF S
  <1>9. Known(sha) = [b EXCEPT !.attempts = Max({@, card})]
    BY DEF Known
  <1> HIDE DEF b, card
  <1>10. Known(sha) \in Build /\ Known(sha).run = b.run /\ Known(sha).terminal = b.terminal
         /\ Known(sha).attempts = Max({b.attempts, card})
    BY <1>6, <1>8, <1>9 DEF Build
  <1>11. b.attempts \in Nat /\ builds[sha].attempts \in Nat /\ \A r \in noted : r.tries \in Nat
    BY <1>2, <1>3, <1>6 DEF Build, Run
  <1>12. Known(sha).attempts >= builds[sha].attempts
         /\ \A r \in noted : Known(sha).attempts >= r.tries
    <2> HIDE DEF noted
    <2>1. Known(sha).attempts \in Nat /\ Known(sha).attempts >= b.attempts
      BY <1>8, <1>10
    <2> QED BY <1>6, <1>11, <2>1
  <1>13. mine # {} => Known(sha).run = Latest(sha).id
    BY <1>6, <1>10
  <1>14. Known(sha).run = builds[sha].run \/ \E r \in R : Known(sha).run = r.id
    BY <1>4, <1>6, <1>10
  <1> QED BY <1>6, <1>10, <1>12, <1>13, <1>14

-----------------------------------------------------------------------------
(* The initial state. *)

\* The initial states satisfy the invariant.
LEMMA InitHolds == Init => IdleIInv
  <1> SUFFICES ASSUME Init PROVE IdleIInv
    OBVIOUS
  <1> USE IdleAssumption
  <1>1. runs \in Seq(Run) /\ used \in 0..MaxRuns /\ Distinct(runs) /\ R \subseteq Run
        /\ \A r \in R : r.id <= used /\ r.sha = 1 /\ r.tries = 1 /\ r.listed /\ ~Bot(r)
    <2>1. CASE runs = <<>> /\ used = 0
      BY <2>1 DEF Distinct, R, ToSet
    <2>2. CASE ~(runs = <<>> /\ used = 0)
      <3>1. PICK end \in {"failure", "cancelled"}, by \in {"people", "cron"} :
               used = 1
               /\ runs = <<[id |-> 1, sha |-> 1, tries |-> 1, state |-> end, by |-> by,
                            listed |-> TRUE]>>
        BY <2>2 DEF Init
      <3> DEFINE r == [id |-> 1, sha |-> 1, tries |-> 1, state |-> end, by |-> by, listed |-> TRUE]
      <3>2. r \in Run
        BY DEF Run, Ids, Shas, Ends
      <3>3. runs = <<r>> /\ used = 1 /\ ~Bot(r) /\ r.id = 1 /\ r.sha = 1 /\ r.tries = 1 /\ r.listed
        BY <3>1 DEF Bot
      <3> HIDE DEF r
      <3>4. runs \in Seq(Run) /\ DOMAIN runs = 1..1 /\ runs[1] = r
        BY <3>2, <3>3
      <3>5. R = {r}
        BY <3>4 DEF R, ToSet
      <3>6. Distinct(runs)
        BY <3>4 DEF Distinct
      <3> QED BY <3>2, <3>3, <3>4, <3>5, <3>6
    <2> QED BY <2>1, <2>2
  <1>2. /\ builds \in [Shas -> Build] /\ \A s \in Shas : builds[s].run = 0 /\ builds[s].attempts = 0
                                                 /\ builds[s].terminal = "none"
    BY DEF Init, Unbuilt, Build
  <1>3. pass \in Pass
    BY DEF Init, Pass, Free, Shas, Ids
  <1>4. IdleTypeOK
    <2>1. /\ head \in Shas /\ pushed \in Shas /\ head <= pushed /\ made \in [Shas -> Nat]
          /\ unseen \subseteq Shas /\ hidden \subseteq Shas /\ returned \subseteq Shas
      BY DEF Init, Shas
    <2>2. pass.pc \notin {"send", "answer", "refused"} /\ pending \in Pending \cup {None}
      BY DEF Init, Free
    <2>3. /\ seen \in Shas \cup {0} /\ quiet \in BOOLEAN /\ grace \in BOOLEAN
             /\ recent \subseteq Shas
          /\ up \in BOOLEAN
      BY DEF Init
    <2>4. moves \in 0..MaxMoves /\ faults \in 0..MaxFaults
      BY IdleAssumption DEF Init
    <2>5. \A r, q \in DOMAIN runs : runs[r].id = runs[q].id => r = q
      BY <1>1 DEF Distinct
    <2>6. builds \in [Shas -> [terminal : {"none", "success", "cancelled"}, attempts : Nat,
                               run : Ids \cup {0}]]
      BY <1>2 DEF Build
    <2> QED BY <1>1, <1>3, <2>1, <2>2, <2>3, <2>5, <2>6, <2>4 DEF IdleTypeOK
  <1>5. pending.run = 0 /\ pending.tries = 0 /\ pending = None /\ pass.pc = "idle"
        /\ pass.before = {}
        /\ pass.settled = {} /\ pass.since = 0
    BY DEF Init, None, Free
  <1>6. RunsFormed /\ OneRun /\ NoneLost
    BY <1>1 DEF Init, RunsFormed, OneRun, NoneLost, Shas
  <1>7. RequestFormed
    BY <1>1, <1>2, <1>5, IdleAssumption DEF RequestFormed, Run, Ids
  <1>8. Unpushed /\ AttemptsBounded
    BY <1>2 DEF Init, Unpushed, AttemptsBounded
  <1>9. Counted
    BY <1>2, <1>5 DEF Counted, Due, Init
  <1>10. Passing
    BY <1>1, <1>5 DEF Passing, PassFormed, ChosenFormed, ReadyFormed, SentFormed, Chosen
  <1> QED BY <1>4, <1>6, <1>7, <1>8, <1>9, <1>10 DEF IdleIInv, Standing

-----------------------------------------------------------------------------
(* What GitHub and people do. *)

\* Nothing of the scheduler changes ...
Apart == UNCHANGED <<builds, pending, seen, pass>>
\* ... flags and counters keep their types.
World == /\ quiet' \in BOOLEAN /\ grace' \in BOOLEAN /\ recent' \subseteq Shas /\ up' \in BOOLEAN
         /\ moves' \in 0..MaxMoves /\ faults' \in 0..MaxFaults
\* A run and its update.
Same(r, q) == /\ r.id = q.id /\ r.sha = q.sha /\ r.by = q.by /\ r.tries = q.tries
              /\ (q.listed => r.listed) /\ (r.listed \/ r = q) /\ (Decided(q) => Decided(r))

\* A run ends, is cancelled or appears.
LEMMA UpdateKeeps ==
    ASSUME IdleIInv, NEW i \in DOMAIN runs, NEW n \in Run,
           n.id = runs[i].id, n.sha = runs[i].sha, n.by = runs[i].by, n.tries = runs[i].tries,
           n.listed,
           runs[i].state = "active" \/ n.state = runs[i].state,
           runs' \in Seq(Run), Distinct(runs'), ToSet(runs') = (R \ {runs[i]}) \cup {n},
           UNCHANGED <<head, pushed, used, made, unseen, hidden, returned, grace>>, Apart, World
    PROVE  IdleIInv'
  <1>1. IdleTypeOK'
    BY DEF IdleIInv, IdleTypeOK, Apart, World, Distinct
  <1>2. R' = (R \ {runs[i]}) \cup {n} /\ runs[i] \in R /\ R \subseteq Run
    BY RunsTyped DEF R, ToSet, IdleIInv
  <1>3. Same(n, runs[i])
    BY <1>2 DEF Same, Decided, Equivalent
  <1>4. \A r \in R' : \E q \in R : Same(r, q)
    <2>1. \A q \in R : Same(q, q)
      BY DEF Same
    <2> QED BY <1>2, <1>3, <2>1
  <1>5. \A q \in R : \E r \in R' : Same(r, q)
    <2>1. \A q \in R : Same(q, q)
      BY DEF Same
    <2> QED BY <1>2, <1>3, <2>1
  <1> HIDE DEF R
  <1>6. RunsFormed'
    BY <1>4 DEF IdleIInv, Standing, RunsFormed, Same, Bot
  <1>7. RequestFormed'
    BY <1>4 DEF IdleIInv, Standing, RequestFormed, Same, Bot, Apart, Equivalent
  <1>8. NoneLost'
    <2> SUFFICES ASSUME NEW r \in R', ~r.listed PROVE (Tracked(r) \/ Found(r))'
      BY DEF NoneLost
    <2>1. r \in R
      BY <1>4 DEF Same
    <2>2. Tracked(r) \/ Found(r)
      BY <2>1 DEF IdleIInv, Standing, NoneLost
    <2>3. CASE Tracked(r)
      BY <2>3 DEF Tracked, Apart
    <2>4. CASE Found(r)
      <3>1. (\E z \in R : z.sha = r.sha /\ z.listed /\ Equivalent(z))
             => \E z \in R' : z.sha = r.sha /\ z.listed /\ Equivalent(z)
        BY <1>5 DEF Same, Equivalent
      <3> QED BY <2>4, <3>1 DEF Found, Apart, Equivalent
    <2> QED BY <2>2, <2>3, <2>4
  <1>9. OneRun'
    BY <1>4 DEF IdleIInv, Standing, OneRun, Same, Bot
  <1>10. Unpushed' /\ AttemptsBounded'
    BY DEF IdleIInv, Standing, Unpushed, AttemptsBounded, Apart
  <1>11. Counted'
    <2>1. \A s \in Shas : (\E r \in R : r.sha = s /\ Bot(r)) => \E r \in R' : r.sha = s /\ Bot(r)
      BY <1>5 DEF Same, Bot
    <2>2. \A s \in Shas : Due(s)' = Due(s)
      BY DEF Due, Apart
    <2> QED BY <2>1, <2>2 DEF IdleIInv, Counted, Apart, Bot
  <1>12. PassFormed'
    BY <1>4, <1>5, <1>2 DEF IdleIInv, Passing, PassFormed, Same, Bot, Apart, Decided, Equivalent
  <1>13. ChosenFormed' /\ ReadyFormed'
    <2>1. Untried(head) => Untried(head)'
      BY <1>4 DEF Untried, Same, Apart
    <2> QED
      BY <1>4, <2>1 DEF IdleIInv, Passing, ChosenFormed, ReadyFormed, Chosen, Same, Bot, Apart,
         Equivalent
  <1>14. SentFormed'
    BY <1>4 DEF IdleIInv, Passing, SentFormed, Same, Bot, Apart, Equivalent, Tracked
  <1> QED
    BY <1>1, <1>6, <1>7, <1>8, <1>9, <1>10, <1>11, <1>12, <1>13, <1>14 DEF IdleIInv, Standing,
       Passing

\* The fields of Free.
LEMMA FreeIs == Free \in Pass /\ Free.pc = "idle" /\ Free.since = 0 /\ Free.before = {}
                /\ Free.settled = {}
  BY IdleAssumption DEF Free, Pass, Shas, Ids

\* GitHub's runs and what is stored stay; the pass may end.
LEMMA StandKeeps ==
    ASSUME IdleIInv, UNCHANGED <<runs, used, made, unseen, hidden, builds, pending>>,
           head' \in Shas, pushed' \in Shas, head' <= pushed', pushed' >= pushed,
           returned \subseteq returned', returned' \subseteq Shas,
           pass.pc \in {"fresh", "send"} =>
               head' = head \/ head' > pushed \/ head' \in returned' \cup {pass.sha},
           pass' \in {pass, Free}, seen' \in Shas \cup {0}, World,
           grace' = grace \/ (pass.pc = "idle" /\ \A r \in R : r.listed)
    PROVE  IdleIInv'
  <1>1. IdleTypeOK'
    <2>1. pass' \in Pass /\ (pass'.pc \in {"send", "answer", "refused"} => pending' # None)
      BY FreeIs DEF IdleIInv, IdleTypeOK
    <2> QED BY <2>1 DEF IdleIInv, IdleTypeOK, World
  <1>2. R' = R /\ R \subseteq Run /\ \A r \in R : r.id \in Nat /\ r.sha \in Nat
    BY RunsTyped DEF IdleIInv, R
  <1>3. pass' = pass
        \/ (pass'.pc = "idle" /\ pass'.since = 0 /\ pass'.before = {} /\ pass'.settled = {})
    BY FreeIs
  <1>4. used \in Nat /\ pushed \in Nat /\ pushed' \in Nat /\ head' \in Nat /\ Shas \subseteq Nat
    BY IdleAssumption DEF IdleIInv, IdleTypeOK, Shas
  <1> HIDE DEF R
  <1>5. RunsFormed'
    BY <1>2, <1>4 DEF IdleIInv, Standing, RunsFormed, Bot
  <1>6. RequestFormed'
    BY <1>2 DEF IdleIInv, Standing, RequestFormed, Bot, Equivalent
  <1>7. NoneLost' /\ OneRun'
    BY <1>2 DEF IdleIInv, Standing, NoneLost, OneRun, Bot, Tracked, Found, Equivalent
  <1>8. Unpushed' /\ AttemptsBounded'
    BY <1>4 DEF IdleIInv, Standing, Unpushed, AttemptsBounded
  <1>9. Counted'
    <2>1. \A s \in Shas : Due(s)' = Due(s) \/ (Due(s)' = 0 /\ Due(s) \in {0, 1})
      BY <1>3 DEF Due
    <2>2. \A s \in Shas : made[s] \in Nat /\ builds[s].attempts \in Nat
      BY DEF IdleIInv, IdleTypeOK
    <2> HIDE DEF Due
    <2> QED BY <1>2, <2>1, <2>2 DEF IdleIInv, Counted, Bot
  <1>10. PassFormed'
    BY <1>2, <1>3, <1>4 DEF IdleIInv, Passing, PassFormed, Bot, Decided, Equivalent
  <1>11. ChosenFormed'
    <2>1. pass'.pc = "idle" => ChosenFormed'
      BY DEF ChosenFormed, Chosen
    <2>2. pass' = pass => ChosenFormed'
      <3> SUFFICES ASSUME pass' = pass PROVE ChosenFormed'
        OBVIOUS
      <3>1. pass.sha \in Nat
        BY <1>4 DEF IdleIInv, IdleTypeOK, Pass
      <3>2. pass.sha <= pushed => pass.sha <= pushed'
        BY <1>4, <3>1
      <3>3. ASSUME pass.pc \in {"fresh", "send"}
            PROVE  head' \in returned' \cup {pass.sha} \/ Untried(head')
        <4>1. CASE head' = head
          BY <3>3, <4>1 DEF IdleIInv, Passing, ChosenFormed, Chosen
        <4>2. CASE head' > pushed
          <5>1. \A r \in R : r.sha # head'
            BY <1>2, <1>4, <4>2 DEF IdleIInv, Standing, RunsFormed
          <5> QED BY <4>2, <5>1 DEF IdleIInv, Standing, Unpushed, Untried
        <4> QED BY <3>3, <4>1, <4>2
      <3>4. pass.pc \in {"fresh", "send"} => head' \in returned' \cup {pass.sha} \/ Untried(head)'
        BY <1>2, <3>3 DEF Untried
      <3> QED
        BY <1>2, <3>2, <3>4 DEF IdleIInv, Passing, ChosenFormed, Chosen, Bot, Equivalent
    <2> QED BY <1>3, <2>1, <2>2
  <1>12. ReadyFormed'
    BY <1>3 DEF IdleIInv, Passing, ReadyFormed
  <1>13. SentFormed'
    <2>1. pass'.pc = "idle" => SentFormed'
      BY DEF SentFormed
    <2>2. CASE pass' = pass /\ pass.pc # "idle"
      BY <1>2, <2>2 DEF IdleIInv, Passing, SentFormed, Bot, Equivalent, Tracked
    <2> QED BY <1>3, <2>1, <2>2
  <1> QED
    BY <1>1, <1>5, <1>6, <1>7, <1>8, <1>9, <1>10, <1>11, <1>12, <1>13 DEF IdleIInv, Standing,
       Passing

\* People start a run.
LEMMA StartRunKeeps ==
    ASSUME IdleIInv, NEW by \in {"people", "cron"}, StartRun(by)
    PROVE IdleIInv'
  <1> DEFINE n == [id |-> used + 1, sha |-> head, tries |-> 1, state |-> "active", by |-> by,
                   listed |-> TRUE]
  <1> USE IdleAssumption
  <1>1. n \in Run /\ ~Bot(n) /\ n.listed /\ n.id = used + 1 /\ n.sha = head /\ n.tries = 1
    BY DEF StartRun, IdleIInv, IdleTypeOK, Run, Ids, Shas, Ends, Bot
  <1>2. \A q \in R : q.id <= used /\ q.id # n.id
    BY <1>1, RunsTyped DEF IdleIInv, Standing, RunsFormed, Run, Ids, IdleTypeOK
  <1>3. runs' = Append(runs, n) /\ used' = used + 1 /\ used' \in 0..MaxRuns /\ used \in Nat
        /\ UNCHANGED <<head, pushed, made, unseen, hidden, returned, builds, pending, seen, pass,
                       quiet, recent,
                       grace, up, faults>>
        /\ moves' \in 0..MaxMoves
    BY DEF StartRun, Move, stored, clocks, IdleIInv, IdleTypeOK
  <1> HIDE DEF n
  <1>4. runs' \in Seq(Run) /\ Distinct(runs') /\ R' = R \cup {n}
    BY <1>1, <1>2, <1>3, RunsAppend DEF IdleIInv, IdleTypeOK, Distinct, R
  <1>5. IdleTypeOK'
    BY <1>3, <1>4 DEF IdleIInv, IdleTypeOK, Distinct
  <1>6. R \subseteq Run /\ \A r \in R : r.id \in Nat /\ r.sha \in Nat
    BY RunsTyped DEF IdleIInv
  <1>7. Equivalent(n) \/ ~Equivalent(n)
    OBVIOUS
  <1> HIDE DEF R
  <1>8. RunsFormed'
    <2>1. \A r \in R : r.id <= used'
      BY <1>2, <1>3, <1>6
    <2>2. n.id <= used' /\ n.sha <= pushed' /\ n.tries >= 1
      BY <1>1, <1>3 DEF IdleIInv, IdleTypeOK, Shas
    <2> QED BY <1>1, <1>3, <1>4, <2>1, <2>2 DEF IdleIInv, Standing, RunsFormed, Bot
  <1>9. RequestFormed'
    <2>1. pending # None => pending.since <= used' /\ \A k \in pending.known : k <= used'
      BY <1>3 DEF IdleIInv, Standing, RequestFormed, IdleTypeOK, Pending, Ids
    <2>2. \A s \in Shas : builds[s].run <= used'
      BY <1>3 DEF IdleIInv, Standing, RequestFormed, IdleTypeOK, Ids
    <2>3. n.id # pending.run /\ pending.run <= used'
      <3>1. pending.run \in Nat /\ pending.run <= used
        BY DEF None, IdleIInv, Standing, RequestFormed, IdleTypeOK, Pending, Ids
      <3> QED BY <1>1, <1>3, <3>1
    <2> QED
      BY <1>1, <1>3, <1>4, <2>1, <2>2, <2>3 DEF IdleIInv, Standing, RequestFormed, Bot, Equivalent
  <1>10. NoneLost' /\ OneRun'
    BY <1>1, <1>3, <1>4 DEF IdleIInv, Standing, NoneLost, OneRun, Bot, Tracked, Found, Equivalent
  <1>11. Unpushed' /\ AttemptsBounded'
    BY <1>3 DEF IdleIInv, Standing, Unpushed, AttemptsBounded
  <1>12. Counted'
    BY <1>3, <1>4 DEF IdleIInv, Counted, Bot, Due
  <1>13. PassFormed'
    <2>1. pass.since \in Nat /\ (\A r \in pass.before : r.id \in Nat)
          /\ \A k \in pass.settled : k \in Nat
      BY DEF IdleIInv, IdleTypeOK, Pass, Run, Ids
    <2>2. n.id \notin pass.settled
      BY <1>1, <1>3, <2>1 DEF IdleIInv, Passing, PassFormed
    <2> QED
      BY <1>1, <1>3, <1>4, <2>1, <2>2 DEF IdleIInv, Passing, PassFormed, Bot, Decided, Equivalent
  <1>14. ChosenFormed'
    <2>1. pass.target \in Nat /\ \A k \in pass.settled : k \in Nat
      BY DEF IdleIInv, IdleTypeOK, Pass, Ids
    <2>2. n.id \notin pass.settled /\ (Chosen => n.id # pass.target /\ pass.target <= used')
      BY <1>1, <1>3, <2>1 DEF IdleIInv, Passing, PassFormed, ChosenFormed
    <2>3. Untried(head) => Untried(head)'
      BY <1>3, <1>4, <2>2 DEF Untried
    <2> QED
      BY <1>1, <1>3, <1>4, <2>2, <2>3 DEF IdleIInv, Passing, ChosenFormed, Chosen, Bot, Equivalent
  <1>15. ReadyFormed'
    BY <1>3 DEF IdleIInv, Passing, ReadyFormed
  <1>16. SentFormed'
    <2>1. pass.target \in Nat
      BY DEF IdleIInv, IdleTypeOK, Pass, Ids
    <2>2. pass.pc = "answer" => n.id # pass.target /\ pass.target \in 1..used'
      BY <1>1, <1>3, <2>1 DEF IdleIInv, Passing, SentFormed
    <2> QED BY <1>1, <1>3, <1>4, <2>2 DEF IdleIInv, Passing, SentFormed, Bot, Equivalent, Tracked
  <1> QED
    BY <1>5, <1>8, <1>9, <1>10, <1>11, <1>12, <1>13, <1>14, <1>15, <1>16 DEF IdleIInv, Standing,
       Passing

\* The counters keep their bounds.
LEMMA CountersTyped == IdleTypeOK =>
    /\ Move => moves' \in 0..MaxMoves /\ UNCHANGED <<up, faults>>
    /\ Fails => faults' \in 0..MaxFaults /\ UNCHANGED <<up, moves>>
    /\ faults < MaxFaults /\ faults' = faults + 1 => faults' \in 0..MaxFaults
  <1>1. MaxMoves \in Nat /\ MaxFaults \in Nat
    BY IdleAssumption
  <1> QED BY <1>1 DEF IdleTypeOK, Move, Fails

\* People delete a run: if it stood for one that is not listed the commit is hidden,
\* if it was not counted the commit is unseen.
LEMMA DeleteKeeps ==
    ASSUME IdleIInv, NEW i \in DOMAIN runs, Delete(i)
    PROVE IdleIInv'
  <1> DEFINE old == runs[i]
  <1>1. /\ runs' = RemoveAt(runs, i) /\ old.state # "active" /\ moves' \in 0..MaxMoves
        /\ unseen' = IF old.tries > builds[old.sha].attempts THEN unseen \cup {old.sha} ELSE unseen
        /\ hidden' = IF \E q \in R : q.sha = old.sha
           /\ ~q.listed THEN hidden \cup {old.sha} ELSE hidden
        /\ UNCHANGED <<head, pushed, used, made, returned, builds, pending, seen, quiet, recent,
                       grace,
                       pass, up, faults>>
    BY CountersTyped DEF Delete, stored, clocks, R, IdleIInv
  <1>2. runs' \in Seq(Run) /\ Distinct(runs') /\ R' = R \ {old}
    BY <1>1, RunsRemove DEF IdleIInv, IdleTypeOK, Distinct, R
  <1>3. old \in R
    BY DEF R, ToSet
  <1>4. R \subseteq Run /\ (\A r, q \in R : r.id = q.id => r = q)
        /\ \A r \in R : r.id \in Nat /\ r.sha \in Shas /\ r.sha \in Nat /\ r.tries \in Nat
    BY RunsTyped DEF IdleIInv
  <1>5. unseen \subseteq unseen' /\ hidden \subseteq hidden' /\ unseen' \subseteq Shas
        /\ hidden' \subseteq Shas
    BY <1>1, <1>3, <1>4 DEF IdleIInv, IdleTypeOK
  <1>6. IdleTypeOK'
    BY <1>1, <1>2, <1>5 DEF IdleIInv, IdleTypeOK, Distinct
  <1>7. old.listed
    BY <1>1, <1>3 DEF IdleIInv, Standing, RunsFormed
  <1> HIDE DEF R, old
  <1>8. RunsFormed'
    BY <1>1, <1>2 DEF IdleIInv, Standing, RunsFormed, Bot
  <1>9. RequestFormed'
    BY <1>1, <1>2 DEF IdleIInv, Standing, RequestFormed, Bot, Equivalent
  <1>10. NoneLost'
    <2> SUFFICES ASSUME NEW r \in R, r \in R', ~r.listed PROVE (Tracked(r) \/ Found(r))'
      BY <1>2 DEF NoneLost
    <2>1. Tracked(r) \/ Found(r)
      BY DEF IdleIInv, Standing, NoneLost
    <2>2. CASE Tracked(r)
      BY <1>1, <2>2 DEF Tracked
    <2>3. CASE Found(r) /\ r.sha = old.sha
      <3>1. r.sha \in hidden'
        BY <1>1, <2>3
      <3> QED BY <1>1, <2>3, <3>1 DEF Found
    <2>4. CASE Found(r) /\ r.sha # old.sha
      <3>1. (\E z \in R : z.sha = r.sha /\ z.listed /\ Equivalent(z))
             => \E z \in R' : z.sha = r.sha /\ z.listed /\ Equivalent(z)
        BY <1>2, <2>4
      <3> QED BY <1>1, <1>5, <2>4, <3>1 DEF Found, Equivalent
    <2> QED BY <2>1, <2>2, <2>3, <2>4
  <1>11. OneRun'
    BY <1>1, <1>2, <1>5 DEF IdleIInv, Standing, OneRun, Bot
  <1>12. Unpushed' /\ AttemptsBounded'
    BY <1>1, <1>5 DEF IdleIInv, Standing, Unpushed, AttemptsBounded
  <1>13. Counted'
    <2> SUFFICES ASSUME NEW s \in Shas \ (unseen' \cup returned)
                 PROVE  \/ made[s] + Due(s) <= builds[s].attempts
                        \/ made[s] = 1 /\ Due(s) = 0 /\ \E r \in R' : r.sha = s /\ Bot(r)
      BY <1>1 DEF Counted, Due, Bot
    <2>1. s \in Shas \ (unseen \cup returned)
      BY <1>5
    <2>2. CASE made[s] + Due(s) <= builds[s].attempts
      BY <2>2
    <2>3. CASE made[s] = 1 /\ Due(s) = 0 /\ \E r \in R : r.sha = s /\ Bot(r)
      <3>1. CASE s # old.sha
        BY <1>2, <2>3, <3>1
      <3>2. CASE s = old.sha
        <4>1. ~(old.tries > builds[s].attempts)
          BY <1>1, <3>2
        <4>2. builds[s].attempts \in Nat /\ old.tries >= 1 /\ old.tries \in Nat
          BY <1>3, <1>4 DEF IdleIInv, IdleTypeOK, Standing, RunsFormed
        <4> QED BY <2>3, <4>1, <4>2
      <3> QED BY <3>1, <3>2
    <2> QED BY <2>1, <2>2, <2>3 DEF IdleIInv, Counted
  <1>14. PassFormed'
    BY <1>1, <1>2 DEF IdleIInv, Passing, PassFormed, Bot, Decided, Equivalent
  <1>15. ChosenFormed' /\ ReadyFormed'
    BY <1>1, <1>2, <1>5 DEF IdleIInv, Passing, ChosenFormed, ReadyFormed, Chosen, Untried, Bot,
       Equivalent
  <1>16. SentFormed'
    BY <1>1, <1>2 DEF IdleIInv, Passing, SentFormed, Bot, Equivalent, Tracked
  <1> QED
    BY <1>6, <1>8, <1>9, <1>10, <1>11, <1>12, <1>13, <1>14, <1>15, <1>16 DEF IdleIInv, Standing,
       Passing

\* People cancel a run.
LEMMA CancelKeeps ==
    ASSUME IdleIInv, NEW i \in DOMAIN runs, Cancel(i)
    PROVE IdleIInv'
  <1> DEFINE n == [runs[i] EXCEPT !.state = "cancelled", !.listed = TRUE]
  <1>1. runs[i] \in Run
    BY DEF IdleIInv, IdleTypeOK
  <1>2. n \in Run /\ n.id = runs[i].id /\ n.sha = runs[i].sha /\ n.by = runs[i].by
        /\ n.tries = runs[i].tries /\ n.listed
    BY <1>1 DEF Run, Ends
  <1>3. /\ runs' = Put(i, n) /\ runs[i].state = "active" /\ moves' \in 0..MaxMoves
        /\ UNCHANGED <<head, pushed, used, made, unseen, hidden, returned, builds, pending, seen,
                       quiet, grace, pass,
                       up, faults>>
        /\ recent' \subseteq Shas
    <2>1. recent \subseteq Shas /\ runs[i].sha \in Shas
      BY <1>1 DEF IdleIInv, IdleTypeOK, Run
    <2> QED BY <2>1, CountersTyped DEF Cancel, stored, IdleIInv
  <1> HIDE DEF n
  <1>4. Apart /\ World
    BY <1>3 DEF Apart, World, IdleIInv, IdleTypeOK
  <1>5. runs' \in Seq(Run) /\ Distinct(runs') /\ ToSet(runs') = (R \ {runs[i]}) \cup {n}
    BY <1>2, <1>3, RunsPut DEF IdleIInv
  <1> QED BY <1>2, <1>3, <1>4, <1>5, UpdateKeeps

\* A run ends.
LEMMA CompleteKeeps ==
    ASSUME IdleIInv, NEW i \in DOMAIN runs, Complete(i)
    PROVE IdleIInv'
  <1>1. PICK end \in Ends \ {"cancelled"} :
             runs' = Put(i, [runs[i] EXCEPT !.state = end, !.listed = TRUE])
    BY DEF Complete
  <1> DEFINE n == [runs[i] EXCEPT !.state = end, !.listed = TRUE]
  <1>2. runs[i] \in Run
    BY DEF IdleIInv, IdleTypeOK
  <1>3. n \in Run /\ n.id = runs[i].id /\ n.sha = runs[i].sha /\ n.by = runs[i].by
        /\ n.tries = runs[i].tries /\ n.listed
    BY <1>2 DEF Run, Ends
  <1>4. /\ runs' = Put(i, n) /\ runs[i].state = "active"
        /\ UNCHANGED <<head, pushed, used, made, unseen, hidden, returned, builds, pending, seen,
                       quiet, grace, pass,
                       up, moves, faults>>
        /\ recent' \subseteq Shas
    BY <1>1, <1>2 DEF Complete, stored, IdleIInv, IdleTypeOK, Run
  <1> HIDE DEF n
  <1>5. Apart /\ World
    BY <1>4 DEF Apart, World, IdleIInv, IdleTypeOK
  <1>6. runs' \in Seq(Run) /\ Distinct(runs') /\ ToSet(runs') = (R \ {runs[i]}) \cup {n}
    BY <1>3, <1>4, RunsPut DEF IdleIInv
  <1> QED BY <1>3, <1>4, <1>5, <1>6, UpdateKeeps

\* GitHub lists a run.
LEMMA AppearKeeps ==
    ASSUME IdleIInv, NEW i \in DOMAIN runs, Appear(i)
    PROVE IdleIInv'
  <1> DEFINE n == [runs[i] EXCEPT !.listed = TRUE]
  <1>1. runs[i] \in Run
    BY DEF IdleIInv, IdleTypeOK
  <1>2. n \in Run /\ n.id = runs[i].id /\ n.sha = runs[i].sha /\ n.by = runs[i].by
        /\ n.tries = runs[i].tries /\ n.listed
        /\ n.state = runs[i].state
    BY <1>1 DEF Run
  <1>3. /\ runs' = [runs EXCEPT ![i] = n]
        /\ UNCHANGED <<head, pushed, used, made, unseen, hidden, returned, builds, pending, seen,
                       quiet, recent,
                       grace, pass, up, moves, faults>>
    BY DEF Appear, stored, clocks
  <1> HIDE DEF n
  <1>4. Apart /\ World
    BY <1>3 DEF Apart, World, IdleIInv, IdleTypeOK
  <1>5. runs' \in Seq(Run) /\ Distinct(runs') /\ ToSet(runs') = (R \ {runs[i]}) \cup {n}
    BY <1>2, <1>3, RunsSet DEF IdleIInv
  <1> QED BY <1>2, <1>3, <1>4, <1>5, UpdateKeeps

\* Pushes, the passing of time, the end of a pass, crashes and restarts.
LEMMA QuietStepsKeep ==
    ASSUME IdleIInv, Push \/ (\E s \in Shas : Rewind(s))
          \/ IdlePasses \/ RetryPasses \/ GracePasses \/ Boot \/ Abort \/ Crash
    PROVE  IdleIInv'
  <1> USE IdleAssumption
  <1>1. UNCHANGED <<runs, used, made, unseen, hidden, builds, pending, seen>>
    BY DEF Push, Rewind, IdlePasses, RetryPasses, GracePasses, Boot, Abort, Crash, Elapse, github,
    stored
  <1>2. /\ head' \in Shas /\ pushed' \in Shas /\ head' <= pushed' /\ pushed' >= pushed
        /\ returned \subseteq returned' /\ returned' \subseteq Shas
        /\ pass.pc \in {"fresh", "send"} =>
               head' = head \/ head' > pushed \/ head' \in returned' \cup {pass.sha}
    <2>1. head \in Shas /\ pushed \in Shas /\ head <= pushed /\ MaxHeads \in Nat
          /\ returned \subseteq Shas
      BY DEF IdleIInv, IdleTypeOK
    <2>2. CASE Push
      BY <2>1, <2>2 DEF Push, Shas
    <2>3. ASSUME NEW s \in Shas, Rewind(s)
          PROVE  /\ head' \in Shas /\ pushed' \in Shas /\ head' <= pushed' /\ pushed' >= pushed
                 /\ returned \subseteq returned' /\ returned' \subseteq Shas
                 /\ pass.pc \in {"fresh", "send"} => head' \in returned' \cup {pass.sha}
      BY <2>1, <2>3 DEF Rewind, Shas
    <2>4. CASE UNCHANGED <<head, pushed, returned>>
      BY <2>1, <2>4 DEF Shas
    <2> QED BY <2>2, <2>3, <2>4 DEF IdlePasses, RetryPasses, GracePasses, Boot, Abort, Crash,
       Elapse, github
  <1>3. pass' \in {pass, Free}
    BY DEF Push, Rewind, IdlePasses, RetryPasses, GracePasses, Boot, Abort, Crash, Elapse, End
  <1>4. World
    <2>1. /\ quiet \in BOOLEAN /\ grace \in BOOLEAN /\ recent \subseteq Shas /\ up \in BOOLEAN
          /\ moves \in 0..MaxMoves /\ faults \in 0..MaxFaults
      BY DEF IdleIInv, IdleTypeOK
    <2>2. CASE Push \/ \E s \in Shas : Rewind(s)
      BY <2>1, <2>2, CountersTyped DEF World, Push, Rewind, IdleIInv
    <2>3. CASE Abort \/ Crash
      BY <2>1, <2>3, CountersTyped DEF World, Abort, Crash, clocks, IdleIInv
    <2>4. CASE IdlePasses \/ RetryPasses \/ GracePasses \/ Boot
      BY <2>1, <2>4 DEF World, IdlePasses, RetryPasses, GracePasses, Boot, Elapse
    <2> QED BY <2>2, <2>3, <2>4
  <1>5. grace' = grace \/ (pass.pc = "idle" /\ \A r \in R : r.listed)
    <2>1. CASE GracePasses
      BY <2>1, FreeIs DEF GracePasses, Elapse, R, ToSet
    <2> QED BY <2>1 DEF Push, Rewind, IdlePasses, RetryPasses, Boot, Abort, Crash, Elapse, clocks
  <1>6. seen' \in Shas \cup {0}
    BY <1>1 DEF IdleIInv, IdleTypeOK
  <1> QED BY <1>1, <1>2, <1>3, <1>4, <1>5, <1>6, StandKeeps

-----------------------------------------------------------------------------
(* A pass up to its decision. *)

\* Runs, what is stored of them and the request stay.
Steady == UNCHANGED <<runs, used, head, pushed, made, unseen, hidden, returned, builds, pending,
                      grace>>

\* A pass goes on without changing them.
LEMMA SteadyKeeps ==
    ASSUME IdleIInv, Steady, World, seen' \in Shas \cup {0}, pass' \in Pass,
           pass'.pc \in {"send", "answer", "refused"} => pending # None,
           \A s \in Shas : Due(s)' = Due(s) \/ Due(s)' = 0
    PROVE  IdleTypeOK' /\ Standing' /\ Counted' /\ R' = R
  <1>1. IdleTypeOK'
    BY DEF IdleIInv, IdleTypeOK, World, Steady
  <1>2. R' = R
    BY DEF R, Steady
  <1> HIDE DEF R
  <1>3. Standing'
    BY <1>2 DEF IdleIInv, Standing, RunsFormed, RequestFormed, NoneLost, OneRun, Bot, Tracked,
       Found, Equivalent,
              Unpushed, AttemptsBounded, Steady
  <1>4. Counted'
    <2>1. \A s \in Shas : Due(s) \in {0, 1} /\ made[s] \in Nat /\ builds[s].attempts \in Nat
      BY DEF Due, IdleIInv, IdleTypeOK
    <2> HIDE DEF Due
    <2> QED BY <1>2, <2>1 DEF IdleIInv, Counted, Bot, Steady
  <1> QED BY <1>1, <1>2, <1>3, <1>4

\* A pass ends without changing them.
LEMMA FailKeeps ==
    ASSUME IdleIInv, Steady, Fail \/ (Well /\ End /\ quiet' \in BOOLEAN /\ recent' = recent),
           seen' \in Shas \cup {0}
    PROVE  IdleIInv'
  <1>1. /\ head' \in Shas /\ pushed' \in Shas /\ head' <= pushed' /\ pushed' >= pushed
        /\ head' = head /\ returned' = returned /\ returned \subseteq Shas
    BY IdleAssumption DEF Steady, IdleIInv, IdleTypeOK, Shas
  <1>2. World
    <2>1. /\ quiet \in BOOLEAN /\ grace \in BOOLEAN /\ recent \subseteq Shas /\ up \in BOOLEAN
          /\ moves \in 0..MaxMoves /\ faults \in 0..MaxFaults
      BY DEF IdleIInv, IdleTypeOK
    <2> QED BY <2>1, CountersTyped DEF World, Fail, Steady, Well, IdleIInv
  <1>3. pass' \in {pass, Free}
    BY DEF Fail, End
  <1> QED BY <1>1, <1>2, <1>3, StandKeeps DEF Steady

\* A pass begins.
LEMMA StartKeeps ==
    ASSUME IdleIInv, Start
    PROVE IdleIInv'
  <1>1. head \in Shas /\ seen \in Shas \cup {0} /\ used \in Nat /\ used <= MaxRuns
    BY DEF IdleIInv, IdleTypeOK
  <1>2. Steady
    BY DEF Start, Steady, github, Fail, Activity
  <1>3. CASE Fail /\ UNCHANGED seen
    BY <1>1, <1>2, <1>3, FailKeeps
  <1> DEFINE settled == {r.id : r \in {q \in R : Decided(q)}}
  <1>4. CASE Well /\ seen' = head /\ Activity(head)
             /\ pass' = [Free EXCEPT !.pc = "pending", !.since = used, !.settled = settled]
    <2>1. \A r \in R : r.id \in Ids /\ r.id \in Nat
      BY RunsTyped DEF IdleIInv, Run
    <2>2. settled \subseteq Ids
      BY <2>1
    <2>3. pass' \in Pass /\ pass'.pc = "pending" /\ pass'.since = used /\ pass'.settled = settled
          /\ pass'.before = {}
      <3>1. used \in 0..MaxRuns
        BY DEF IdleIInv, IdleTypeOK
      <3> HIDE DEF settled
      <3> QED BY <1>4, <2>2, <3>1, FreeIs DEF Pass
    <2>4. World
      BY <1>4 DEF World, Well, Activity, IdleIInv, IdleTypeOK, Steady
    <2>5. IdleTypeOK' /\ Standing' /\ Counted' /\ R' = R
      BY <1>1, <1>2, <1>4, <2>3, <2>4, SteadyKeeps DEF Due
    <2>6. \A r \in R : r.id <= used
      BY DEF IdleIInv, Standing, RunsFormed
    <2>7. \A r \in R : r.id \in settled => Decided(r)
      BY RunsTyped DEF IdleIInv
    <2> HIDE DEF R
    <2>8. \A k \in settled : k <= used
      BY <2>6
    <2> HIDE DEF settled
    <2>9. PassFormed'
      BY <1>1, <1>2, <2>3, <2>5, <2>6, <2>7, <2>8 DEF PassFormed, Steady, Bot, Decided, Equivalent
    <2>10. ChosenFormed' /\ ReadyFormed' /\ SentFormed'
      BY <2>3 DEF ChosenFormed, Chosen, ReadyFormed, SentFormed
    <2> QED BY <2>5, <2>9, <2>10 DEF IdleIInv, Passing
  <1> QED BY <1>3, <1>4 DEF Start, R

\* The pass goes on to another place.
LEMMA GoIs == ASSUME IdleIInv, NEW pc \in {"read", "fresh", "send", "refused"}, Go(pc)
              PROVE  /\ pass' \in Pass /\ pass'.pc = pc
                     /\ pass'.sha = pass.sha /\ pass'.before = pass.before
                        /\ pass'.target = pass.target
                     /\ pass'.since = pass.since /\ pass'.settled = pass.settled
  BY DEF Go, IdleIInv, IdleTypeOK, Pass

\* No request is stored.
LEMMA ToRead ==
    ASSUME IdleIInv, pass.pc = "pending", Go("read"), Steady, pending = None, Well,
           UNCHANGED <<clocks, seen>>
    PROVE  IdleIInv'
  <1>1. World
    BY DEF World, Well, clocks, IdleIInv, IdleTypeOK
  <1>2. seen' \in Shas \cup {0}
    BY DEF IdleIInv, IdleTypeOK
  <1>3. pass' \in Pass /\ pass'.pc = "read"
        /\ pass'.sha = pass.sha /\ pass'.before = pass.before /\ pass'.target = pass.target
        /\ pass'.since = pass.since /\ pass'.settled = pass.settled
    BY GoIs
  <1>4. IdleTypeOK' /\ Standing' /\ Counted' /\ R' = R
    BY <1>1, <1>2, <1>3, SteadyKeeps DEF Due
  <1>5. PassFormed'
    BY <1>3, <1>4 DEF PassFormed, Steady, Bot, Decided, Equivalent, IdleIInv, Passing
  <1>6. ChosenFormed' /\ ReadyFormed' /\ SentFormed'
    BY <1>3 DEF ChosenFormed, Chosen, ReadyFormed, SentFormed
  <1> QED BY <1>4, <1>5, <1>6 DEF IdleIInv, Passing

\* The request is given up: every run is listed by now.
LEMMA GraceKeeps ==
    ASSUME IdleIInv, pass.pc = "pending", pending # None, grace, pending' = None, Go("read"), Well,
           UNCHANGED <<clocks, seen, builds, github>>
    PROVE  IdleIInv'
  <1>1. UNCHANGED <<head, pushed, runs, used, made, unseen, hidden, returned, quiet, recent,
                    grace, up, moves,
                    faults>>
    BY DEF github, clocks, Well
  <1>2. pass' \in Pass /\ pass'.pc = "read"
        /\ pass'.sha = pass.sha /\ pass'.before = pass.before /\ pass'.target = pass.target
        /\ pass'.since = pass.since /\ pass'.settled = pass.settled
    BY GoIs
  <1>3. IdleTypeOK'
    BY <1>1, <1>2 DEF IdleIInv, IdleTypeOK
  <1>4. R' = R /\ \A r \in R : r.listed
    BY <1>1 DEF IdleIInv, Standing, RequestFormed, R
  <1>5. None.run = 0 /\ None.tries = 0 /\ \A r \in R : r.id # 0
    BY RunsTyped DEF None, IdleIInv
  <1>6. used >= 0
    BY DEF IdleIInv, IdleTypeOK
  <1> HIDE DEF R
  <1>7. RunsFormed' /\ OneRun' /\ Unpushed' /\ AttemptsBounded' /\ NoneLost'
    BY <1>1, <1>4 DEF IdleIInv, Standing, RunsFormed, OneRun, Unpushed, AttemptsBounded,
       NoneLost, Bot
  <1>8. RequestFormed'
    BY <1>6, <1>1, <1>4, <1>5 DEF IdleIInv, Standing, RequestFormed, Equivalent, Bot
  <1>9. Counted'
    <2>1. \A s \in Shas : Due(s) = 0 /\ Due(s)' = 0
      BY <1>2 DEF Due
    <2> QED BY <1>1, <1>4, <2>1 DEF IdleIInv, Counted, Bot
  <1>10. PassFormed'
    BY <1>1, <1>2, <1>4 DEF PassFormed, Bot, Decided, Equivalent, IdleIInv, Passing
  <1>11. ChosenFormed' /\ ReadyFormed' /\ SentFormed'
    BY <1>2 DEF ChosenFormed, Chosen, ReadyFormed, SentFormed
  <1> QED BY <1>3, <1>7, <1>8, <1>9, <1>10, <1>11 DEF IdleIInv, Standing, Passing

\* The run that answers the request.
LEMMA AskedIs ==
    ASSUME IdleIInv, pending # None, NEW r \in Asked
    PROVE  /\ r \in R /\ Equivalent(r)
           /\ pending.run # 0 => r.id = pending.run
           /\ pending.run = 0 => Bot(r) /\ r.listed /\ r.id > pending.since
  <1>1. CASE pending.run # 0
    BY <1>1 DEF Asked, Find, R, IdleIInv, Standing, RequestFormed
  <1>2. CASE pending.run = 0
    BY <1>2 DEF Asked, R, Bot, Equivalent
  <1> QED BY <1>1, <1>2

\* The run the request asked for is recorded.
LEMMA RecordKeeps ==
    ASSUME IdleIInv, pass.pc = "pending", pending # None, NEW r \in Asked,
           builds' = [builds EXCEPT ![r.sha] = Record(@, {r}, r.id)],
           pending' = None, Go("read"), Well, UNCHANGED <<clocks, seen, github>>
    PROVE  IdleIInv'
  <1>1. UNCHANGED <<head, pushed, runs, used, made, unseen, hidden, returned, quiet, recent,
                    grace, up, moves,
                    faults>>
    BY DEF github, clocks, Well
  <1>2. pass' \in Pass /\ pass'.pc = "read"
        /\ pass'.sha = pass.sha /\ pass'.before = pass.before /\ pass'.target = pass.target
        /\ pass'.since = pass.since /\ pass'.settled = pass.settled
    BY GoIs
  <1>3. /\ r \in R /\ Equivalent(r) /\ (pending.run # 0 => r.id = pending.run)
        /\ pending.run = 0 => Bot(r) /\ r.listed /\ r.id > pending.since
    BY AskedIs
  <1>4. R \subseteq Run /\ (\A q, z \in R : q.id = z.id => q = z)
        /\ \A q \in R : q.id \in Nat \ {0} /\ q.sha \in Shas /\ q.sha \in Nat /\ q.tries \in Nat
    BY RunsTyped DEF IdleIInv
  <1>5. builds \in [Shas -> Build] /\ r \in Run /\ r.id \in Ids /\ r.sha \in Shas
    BY <1>3, <1>4 DEF IdleIInv, IdleTypeOK, Build, Run
  <1> DEFINE b == Record(builds[r.sha], {r}, r.id)
  <1>6. b \in Build /\ b.run = r.id /\ b.attempts >= builds[r.sha].attempts /\ b.attempts >= r.tries
    <2>1. IsFiniteSet({r})
      BY FS_Singleton
    <2>2. {r} \in SUBSET Run /\ builds[r.sha] \in Build
      BY <1>5
    <2> QED BY <1>5, <2>1, <2>2, RecordIs
  <1>7. builds' = [builds EXCEPT ![r.sha] = b]
    OBVIOUS
  <1> HIDE DEF b
  <1>8. /\ builds' \in [Shas -> Build] /\ builds'[r.sha] = b /\ \A s \in Shas : s # r.sha
           => builds'[s] = builds[s]
        /\ \A s \in Shas : builds'[s].attempts \in Nat /\ builds[s].attempts \in Nat
           /\ builds'[s].attempts >= builds[s].attempts
    <2>1. builds' \in [Shas -> Build] /\ builds'[r.sha] = b /\ \A s \in Shas : s # r.sha
          => builds'[s] = builds[s]
      BY <1>5, <1>6, <1>7
    <2>2. \A s \in Shas : builds'[s].attempts \in Nat /\ builds[s].attempts \in Nat
      BY <1>5, <2>1 DEF Build
    <2>3. ASSUME NEW s \in Shas PROVE builds'[s].attempts >= builds[s].attempts
      <3>1. CASE s = r.sha
        BY <1>6, <2>1, <3>1
      <3>2. CASE s # r.sha
        <4>1. builds'[s].attempts = builds[s].attempts /\ builds[s].attempts \in Nat
          BY <2>1, <2>2, <3>2
        <4> QED BY <4>1
      <3> QED BY <3>1, <3>2
    <2> QED BY <2>1, <2>2, <2>3
  <1>9. IdleTypeOK'
    BY <1>1, <1>2, <1>8 DEF IdleIInv, IdleTypeOK, Build
  <1>10. R' = R
    BY <1>1 DEF R
  <1>11. None.run = 0 /\ None.tries = 0 /\ used >= 0
    BY DEF None, IdleIInv, IdleTypeOK
  <1> HIDE DEF R
  <1>12. RunsFormed' /\ OneRun' /\ AttemptsBounded'
    BY <1>1, <1>10 DEF IdleIInv, Standing, RunsFormed, OneRun, AttemptsBounded, Bot
  <1>13. Unpushed'
    <2>1. r.sha <= pushed
      BY <1>3 DEF IdleIInv, Standing, RunsFormed
    <2>2. pushed \in Nat /\ Shas \subseteq Nat
      BY DEF IdleIInv, IdleTypeOK, Shas
    <2>3. \A s \in Shas : s > pushed => s # r.sha
      BY <1>5, <2>1, <2>2
    <2> QED BY <1>1, <1>8, <2>3 DEF IdleIInv, Standing, Unpushed
  <1>14. RequestFormed'
    <2>1. r.id <= used
      BY <1>3 DEF IdleIInv, Standing, RunsFormed
    <2> QED BY <1>1, <1>4, <1>6, <1>8, <1>10, <1>11, <2>1 DEF IdleIInv, Standing, RequestFormed
  <1>15. NoneLost'
    <2> SUFFICES ASSUME NEW q \in R, ~q.listed PROVE Found(q)'
      BY <1>10 DEF NoneLost
    <2>1. Bot(q) /\ (Tracked(q) \/ Found(q))
      BY DEF IdleIInv, Standing, NoneLost, RunsFormed
    <2>2. q.sha \in Shas /\ builds'[q.sha].attempts \in Nat /\ builds[q.sha].attempts \in Nat
      BY <1>4, <1>8
    <2>3. CASE q.id = r.id
      <3>1. q = r /\ r.tries >= 1
        BY <1>3, <1>4, <2>3 DEF IdleIInv, Standing, RunsFormed
      <3>2. builds'[q.sha].attempts >= 1 /\ builds'[q.sha].run = q.id
        BY <1>4, <1>6, <1>8, <2>2, <3>1
      <3> QED BY <3>2 DEF Found
    <2>4. CASE q.id # r.id
      <3>1. ~Tracked(q)
        <4>1. q.id # 0
          BY <1>4
        <4> QED BY <1>3, <2>1, <2>4, <4>1 DEF Tracked, IdleIInv, Standing, RequestFormed
      <3>2. Found(q)
        BY <2>1, <3>1
      <3>3. builds'[q.sha].attempts >= 1
        <4>1. builds[q.sha].attempts >= 1
          BY <3>2 DEF Found
        <4>2. builds'[q.sha].attempts >= builds[q.sha].attempts
          BY <1>8, <2>2
        <4> QED BY <2>2, <4>1, <4>2
      <3>4. CASE q.sha # r.sha
        BY <1>1, <1>8, <1>10, <2>2, <3>2, <3>3, <3>4 DEF Found, Equivalent
      <3>5. CASE q.sha = r.sha /\ r.listed
        BY <1>3, <1>10, <3>3, <3>5 DEF Found, Equivalent
      <3>6. CASE q.sha = r.sha /\ ~r.listed
        <4>1. Bot(r)
          BY <1>3, <3>6 DEF IdleIInv, Standing, RunsFormed
        <4>2. q.sha \in hidden \cup returned
          BY <1>3, <2>1, <2>4, <3>6, <4>1 DEF IdleIInv, Standing, OneRun
        <4> QED BY <1>1, <3>3, <4>2 DEF Found
      <3> QED BY <3>4, <3>5, <3>6
    <2> QED BY <2>3, <2>4
  <1>16. Counted'
    <2>1. \A s \in Shas : Due(s) = 0 /\ Due(s)' = 0
      BY <1>2 DEF Due
    <2>2. \A s \in Shas : made[s] \in Nat
      BY DEF IdleIInv, IdleTypeOK
    <2>3. ASSUME NEW s \in Shas, made[s] + Due(s) <= builds[s].attempts
          PROVE  made[s] + Due(s)' <= builds'[s].attempts
      <3>1. builds'[s].attempts \in Nat /\ builds[s].attempts \in Nat
            /\ builds'[s].attempts >= builds[s].attempts
        BY <1>8
      <3> HIDE DEF Due
      <3> QED BY <2>1, <2>2, <2>3, <3>1
    <2> HIDE DEF Due
    <2> QED BY <1>1, <1>10, <2>1, <2>3 DEF IdleIInv, Counted, Bot
  <1>17. PassFormed'
    BY <1>1, <1>2, <1>10 DEF PassFormed, Bot, Decided, Equivalent, IdleIInv, Passing
  <1>18. ChosenFormed' /\ ReadyFormed' /\ SentFormed'
    BY <1>2 DEF ChosenFormed, Chosen, ReadyFormed, SentFormed
  <1> QED BY <1>9, <1>12, <1>13, <1>14, <1>15, <1>16, <1>17, <1>18 DEF IdleIInv, Standing, Passing

\* The stored request is answered, given up or waited for.
LEMMA ReconcileKeeps ==
    ASSUME IdleIInv, Reconcile
    PROVE IdleIInv'
  <1>1. pass.pc = "pending" /\ UNCHANGED <<head, pushed, runs, used, made, unseen, hidden,
                                           returned, seen, github>>
        /\ seen' \in Shas \cup {0}
    BY DEF Reconcile, At, github, IdleIInv, IdleTypeOK
  <1>2. CASE Fail /\ UNCHANGED <<builds, pending>>
    BY <1>1, <1>2, FailKeeps DEF Steady, Fail
  <1>3. CASE Well /\ UNCHANGED clocks /\ pending = None /\ Go("read")
             /\ UNCHANGED <<builds, pending>>
    BY <1>1, <1>3, ToRead DEF Steady, clocks
  <1>4. CASE /\ Well /\ UNCHANGED clocks /\ pending # None
             /\ \E r \in Asked : builds' = [builds EXCEPT ![r.sha] = Record(@, {r}, r.id)]
             /\ pending' = None /\ Go("read")
    <2>1. PICK r \in Asked : builds' = [builds EXCEPT ![r.sha] = Record(@, {r}, r.id)]
      BY <1>4
    <2> QED BY <1>1, <1>4, <2>1, RecordKeeps
  <1>5. CASE Well /\ UNCHANGED clocks /\ pending # None /\ grace /\ pending' = None /\ Go("read")
             /\ UNCHANGED builds
    BY <1>1, <1>5, GraceKeeps
  <1>6. CASE Well /\ UNCHANGED clocks /\ UNCHANGED pending /\ End /\ UNCHANGED builds
    <2>1. quiet' \in BOOLEAN /\ recent' = recent /\ grace' = grace
      BY <1>6 DEF clocks, IdleIInv, IdleTypeOK
    <2> QED BY <1>1, <1>6, <2>1, FailKeeps DEF Steady
  <1> QED BY <1>2, <1>3, <1>4, <1>5, <1>6 DEF Reconcile

\* With no request stored, a commit nobody sees a run of has none of the scheduler's.
LEMMA NotLost ==
    ASSUME IdleIInv, pending = None, NEW q \in R, Bot(q), Matching(q.sha) = {}
    PROVE  q.sha \in hidden \cup returned
  <1>1. q \notin Listed(q.sha) /\ ~q.listed
    BY DEF Matching, Listed, R, Equivalent, Bot
  <1>2. Found(q)
    BY <1>1 DEF IdleIInv, Standing, NoneLost, Tracked
  <1>3. builds[q.sha].run # q.id
    BY <1>1 DEF Listed, R
  <1>4. ~\E z \in R : z.sha = q.sha /\ z.listed /\ Equivalent(z)
    BY DEF Matching, Listed, R
  <1> QED BY <1>2, <1>3, <1>4 DEF Found

\* A reading counts every attempt made.
LEMMA MadeCounted ==
    ASSUME IdleIInv, pending = None, NEW s \in Shas, s \notin unseen \cup returned, Due(s) = 0
    PROVE  made[s] <= Known(s).attempts
  <1>1. made[s] \in Nat /\ builds[s].attempts \in Nat
    BY DEF IdleIInv, IdleTypeOK
  <1>2. /\ Known(s).attempts \in Nat /\ Known(s).attempts >= builds[s].attempts
        /\ \A r \in Matching(s) : Known(s).attempts >= r.tries
    BY KnownIs DEF IdleIInv, Build
  <1>3. CASE made[s] + Due(s) <= builds[s].attempts
    BY <1>1, <1>2, <1>3
  <1>4. CASE made[s] = 1 /\ \E r \in R : r.sha = s /\ Bot(r)
    <2>1. PICK q \in R : q.sha = s /\ Bot(q)
      BY <1>4
    <2>2. CASE q.listed
      <3>1. q \in Matching(s)
        BY <2>1, <2>2 DEF Matching, Listed, R, Equivalent, Bot
      <3>2. q.tries \in Nat /\ q.tries >= 1
        BY RunsTyped DEF IdleIInv, Standing, RunsFormed
      <3> QED BY <1>2, <1>4, <3>1, <3>2
    <2>3. CASE ~q.listed
      <3>1. Found(q)
        BY <2>3 DEF IdleIInv, Standing, NoneLost, Tracked
      <3> QED BY <1>1, <1>2, <1>4, <2>1, <3>1 DEF Found
    <2> QED BY <2>2, <2>3
  <1> QED BY <1>3, <1>4 DEF IdleIInv, Counted

\* A reading is stored.
LEMMA ReadStanding ==
    ASSUME IdleIInv, pass.pc = "read",
           UNCHANGED <<head, pushed, runs, used, made, unseen, hidden, returned, pending, grace>>,
                       World,
           seen' \in Shas \cup {0}, builds' = [builds EXCEPT ![head] = Known(head)], pass' \in Pass,
           pass'.pc \in {"idle", "gate"}
    PROVE  IdleTypeOK' /\ Standing' /\ Counted' /\ R' = R
  <1>1. head \in Shas /\ builds \in [Shas -> Build] /\ pending = None /\ Shas \subseteq Nat
    BY DEF IdleIInv, IdleTypeOK, Build, Passing, PassFormed, Shas
  <1> DEFINE K == Known(head)
  <1>2. /\ K \in Build /\ K.attempts >= builds[head].attempts
        /\ Matching(head) # {} => K.run = Latest(head).id
        /\ K.run = builds[head].run \/ \E r \in R : K.run = r.id
    BY <1>1, KnownIs DEF IdleIInv
  <1>3. Matching(head) # {} => Latest(head) \in Matching(head)
    BY <1>1, LatestIs DEF IdleIInv
  <1> HIDE DEF K
  <1>4. builds' = [builds EXCEPT ![head] = K]
    BY DEF K
  <1>5. /\ builds' \in [Shas -> Build] /\ builds'[head] = K
        /\ \A s \in Shas : s # head => builds'[s] = builds[s]
    BY <1>1, <1>2, <1>4
  <1>6. \A s \in Shas : builds'[s].attempts \in Nat /\ builds[s].attempts \in Nat
    BY <1>1, <1>5 DEF Build
  <1>7. ASSUME NEW s \in Shas PROVE builds'[s].attempts >= builds[s].attempts
    <2>1. CASE s = head
      BY <1>2, <1>5, <2>1
    <2>2. CASE s # head
      <3>1. builds'[s].attempts = builds[s].attempts
        BY <1>5, <2>2
      <3> QED BY <1>6, <3>1
    <2> QED BY <2>1, <2>2
  <1>8. IdleTypeOK'
    BY <1>5 DEF IdleIInv, IdleTypeOK, Build, World
  <1>9. R' = R
    BY DEF R
  <1>10. \A r \in R : r.id \in Nat \ {0} /\ r.sha \in Shas
    BY RunsTyped DEF IdleIInv
  <1>11. RequestFormed'
    <2>1. \A r \in R : r.id <= used
      BY DEF IdleIInv, Standing, RunsFormed
    <2>2. K.run <= used
      BY <1>1, <1>2, <2>1 DEF IdleIInv, Standing, RequestFormed
    <2> HIDE DEF R
    <2> QED BY <1>1, <1>5, <1>9, <2>2 DEF IdleIInv, Standing, RequestFormed, Bot, Equivalent
  <1>12. NoneLost'
    <2> SUFFICES ASSUME NEW q \in R, ~q.listed PROVE Found(q)'
      BY <1>9 DEF NoneLost
    <2>1. Found(q) /\ Bot(q)
      BY <1>1 DEF IdleIInv, Standing, NoneLost, Tracked, RunsFormed
    <2>2. builds'[q.sha].attempts >= 1
      <3>1. builds[q.sha].attempts >= 1 /\ builds'[q.sha].attempts >= builds[q.sha].attempts
        BY <1>7, <1>10, <2>1 DEF Found
      <3> QED BY <1>6, <1>10, <3>1
    <2>3. CASE q.sha # head \/ builds[q.sha].run # q.id
      <3> HIDE DEF R
      <3> QED BY <1>5, <1>9, <1>10, <2>1, <2>2, <2>3 DEF Found, Equivalent
    <2>4. CASE q.sha = head /\ builds[head].run = q.id
      <3>1. q \in Matching(head)
        BY <2>1, <2>4 DEF Matching, Listed, R, Equivalent, Bot
      <3>2. Latest(head) \in Matching(head) /\ K.run = Latest(head).id
        BY <1>2, <1>3, <3>1
      <3> DEFINE z == Latest(head)
      <3>3. z \in R /\ z.sha = head /\ Equivalent(z) /\ (z.listed \/ z.id = q.id)
        BY <2>4, <3>2 DEF Matching, Listed, R
      <3> HIDE DEF z, R
      <3>4. CASE z.id = q.id
        BY <1>5, <2>2, <2>4, <3>2, <3>4 DEF Found, z
      <3>5. CASE z.listed
        BY <1>9, <2>2, <2>4, <3>3, <3>5 DEF Found, Equivalent
      <3> QED BY <3>3, <3>4, <3>5
    <2> QED BY <2>3, <2>4
  <1> HIDE DEF R
  <1>13. RunsFormed' /\ OneRun' /\ AttemptsBounded'
    BY <1>9 DEF IdleIInv, Standing, RunsFormed, OneRun, AttemptsBounded, Bot
  <1>14. Unpushed'
    <2>1. head <= pushed /\ pushed \in Nat /\ head \in Nat
      BY <1>1 DEF IdleIInv, IdleTypeOK
    <2>2. \A s \in Shas : s > pushed => s # head
      BY <1>1, <2>1
    <2> QED BY <1>1, <1>5, <2>2 DEF IdleIInv, Standing, Unpushed
  <1>15. Counted'
    <2>1. \A s \in Shas : Due(s) = 0 /\ Due(s)' = 0
      BY DEF Due
    <2>2. \A s \in Shas : made[s] \in Nat
      BY DEF IdleIInv, IdleTypeOK
    <2>3. ASSUME NEW s \in Shas, made[s] + Due(s) <= builds[s].attempts
          PROVE  made[s] + Due(s)' <= builds'[s].attempts
      <3>1. builds'[s].attempts \in Nat /\ builds[s].attempts \in Nat
            /\ builds'[s].attempts >= builds[s].attempts
        BY <1>6, <1>7
      <3> HIDE DEF Due
      <3> QED BY <2>1, <2>2, <2>3, <3>1
    <2> HIDE DEF Due
    <2> QED BY <1>9, <2>1, <2>3 DEF IdleIInv, Counted, Bot
  <1> QED BY <1>8, <1>9, <1>11, <1>12, <1>13, <1>14, <1>15 DEF Standing

\* The latest commit is read.
LEMMA ReadKeeps ==
    ASSUME IdleIInv, Read
    PROVE IdleIInv'
  <1>1. /\ pass.pc = "read" /\ head \in Shas
        /\ UNCHANGED <<head, pushed, runs, used, made, unseen, hidden, returned, pending>>
    BY DEF Read, At, github, IdleIInv, IdleTypeOK
  <1>2. CASE Fail /\ UNCHANGED <<builds, seen>>
    <2>1. seen' \in Shas \cup {0}
      BY <1>2 DEF IdleIInv, IdleTypeOK
    <2> QED BY <1>1, <1>2, <2>1, FailKeeps DEF Steady, Fail
  <1> DEFINE K == Known(head)
             mine == Matching(head)
             stop == \/ K.terminal # "none"
                     \/ \E r \in Listed(head) : r.state = "active"
                     \/ mine # {} /\ Latest(head).state # "failure"
                     \/ K.attempts > max_retries
                     \/ head \in recent
  <1>3. CASE /\ Well /\ Activity(head) /\ seen' = head
             /\ builds' = IF builds[head].terminal = "success" THEN builds
                          ELSE [builds EXCEPT ![head] = K]
             /\ IF stop THEN End
                ELSE pass' = [pass EXCEPT !.pc = "gate", !.sha = head, !.before = Listed(head),
                                 !.target = IF mine = {} THEN 0 ELSE Latest(head).id]
    <2>1. World /\ quiet' \in BOOLEAN /\ recent' = recent /\ grace' = grace
      BY <1>3 DEF World, Well, Activity, IdleIInv, IdleTypeOK
    <2>2. /\ K \in Build
          /\ K.terminal = "none" =>
                /\ builds[head].terminal = "none" /\ \A r \in mine : r.state # "success"
                /\ \A r \in Listed(head) : r.state # "cancelled"
      BY <1>1, KnownIs DEF IdleIInv
    <2>3. CASE builds[head].terminal = "success"
      <3>1. stop
        BY <2>2, <2>3
      <3>2. End /\ builds' = builds
        BY <1>3, <2>3, <3>1
      <3> QED BY <1>1, <1>3, <2>1, <3>2, FailKeeps DEF Steady
    <2>4. CASE builds[head].terminal # "success" /\ stop
      <3>1. pass' = Free /\ builds' = [builds EXCEPT ![head] = Known(head)]
        BY <1>3, <2>4 DEF End
      <3>2. IdleTypeOK' /\ Standing' /\ Counted' /\ R' = R
        BY <1>1, <1>3, <2>1, <3>1, ReadStanding, FreeIs
      <3>3. Passing'
        <4>1. used >= 0
          BY DEF IdleIInv, IdleTypeOK
        <4> QED
          BY <1>1, <3>1, <4>1, FreeIs DEF Passing, PassFormed, ChosenFormed, Chosen, ReadyFormed,
             SentFormed
      <3> QED BY <3>2, <3>3 DEF IdleIInv
    <2>5. CASE builds[head].terminal # "success" /\ ~stop
      <3> DEFINE target == IF mine = {} THEN 0 ELSE Latest(head).id
                 before == Listed(head)
      <3>1. /\ builds' = [builds EXCEPT ![head] = Known(head)]
            /\ pass' = [pass EXCEPT !.pc = "gate", !.sha = head, !.before = before,
                        !.target = target]
        BY <1>3, <2>5
      <3>2. /\ K.terminal = "none" /\ ~(K.attempts > max_retries)
        BY <2>5
      <3>3. R \subseteq Run /\ (\A q, z \in R : q.id = z.id => q = z)
            /\ \A q \in R : q.id \in Nat \ {0} /\ q.id \in Ids /\ q.sha \in Shas /\ q.sha \in Nat
               /\ q.tries \in Nat
        BY RunsTyped DEF IdleIInv, Run
      <3>4. mine # {} => Latest(head) \in mine /\ Latest(head) \in R
        BY <1>1, LatestIs DEF IdleIInv, Matching, Listed, R
      <3>5. before \subseteq R /\ mine \subseteq before
            /\ (\A r \in mine : r.sha = head /\ Equivalent(r))
        BY DEF Listed, Matching, R
      <3>6. target \in Ids \cup {0} /\ (target = 0 <=> mine = {})
        BY <3>3, <3>4
      <3>7. \A r \in R : r.id <= used /\ r.tries >= 1
        BY DEF IdleIInv, Standing, RunsFormed
      <3>8. \A r \in R : r.id \in pass.settled => r.sha # head
        <4> SUFFICES ASSUME NEW r \in R, r.id \in pass.settled, r.sha = head PROVE FALSE
          OBVIOUS
        <4>1. Decided(r)
          BY <1>1 DEF IdleIInv, Passing, PassFormed
        <4>2. r \in Listed(head)
          BY <4>1 DEF Decided, Listed, R
        <4> QED BY <2>2, <3>2, <4>1, <4>2 DEF Decided, Matching
      <3>9. mine = {} => head \in hidden \cup returned \/ \A r \in R : Bot(r) => r.sha # head
        BY <1>1, NotLost DEF IdleIInv, Passing, PassFormed
      <3>10. head \in unseen \cup returned \/ made[head] <= K.attempts
        <4>1. Due(head) = 0
          BY <1>1 DEF Due
        <4> QED BY <1>1, <4>1, MadeCounted DEF IdleIInv, Passing, PassFormed
      <3> HIDE DEF target, before, R, K
      <3>11. pass' \in Pass /\ pass'.pc = "gate" /\ pass'.sha = head /\ pass'.before = before
             /\ pass'.target = target
             /\ pass'.since = pass.since /\ pass'.settled = pass.settled
        <4>1. before \in SUBSET Run
          BY <3>3, <3>5
        <4>2. pass \in Pass
          BY DEF IdleIInv, IdleTypeOK
        <4> QED BY <1>1, <3>1, <3>6, <4>1, <4>2 DEF Pass
      <3>12. IdleTypeOK' /\ Standing' /\ Counted' /\ R' = R
        BY <1>1, <1>3, <2>1, <3>1, <3>11, ReadStanding
      <3>13. builds'[head] = K
        BY <1>1, <3>1 DEF K, IdleIInv, IdleTypeOK
      <3>14. PassFormed'
        BY <1>1, <3>5, <3>7, <3>11, <3>12 DEF IdleIInv, Passing, PassFormed, Bot
      <3>15. ChosenFormed'
        <4>1. target <= used
          <5>1. used \in Nat
            BY DEF IdleIInv, IdleTypeOK
          <5> QED BY <3>4, <3>7, <5>1 DEF target
        <4>2. target # 0 => \A r \in R : r.id = target => r.sha = head /\ Equivalent(r)
          <5> SUFFICES ASSUME target # 0, NEW r \in R, r.id = target PROVE r.sha = head
                              /\ Equivalent(r)
            OBVIOUS
          <5>1. Latest(head) \in mine /\ Latest(head) \in R /\ target = Latest(head).id
            BY <3>4, <3>6 DEF target
          <5>2. r = Latest(head)
            BY <3>3, <5>1
          <5> QED BY <3>5, <5>1, <5>2
        <4>3. pass'.sha <= pushed'
          BY <1>1, <3>11 DEF IdleIInv, IdleTypeOK
        <4>4. builds'[head].terminal = "none"
          BY <3>2, <3>13
        <4> QED
          BY <1>1, <3>6, <3>8, <3>9, <3>11, <3>12, <4>1, <4>2, <4>3, <4>4 DEF ChosenFormed,
             Bot, Equivalent
      <3>16. ReadyFormed'
        <4>1. K.attempts <= max_retries
          BY <2>2, <3>2, IdleAssumption DEF Build, K
        <4>2. target # 0 => \E r \in before : r.id = target
          BY <3>4, <3>5, <3>6 DEF target
        <4> QED BY <1>1, <3>10, <3>11, <3>13, <4>1, <4>2 DEF ReadyFormed
      <3>17. SentFormed'
        BY <3>11 DEF SentFormed
      <3> QED BY <3>12, <3>14, <3>15, <3>16, <3>17 DEF IdleIInv, Passing
    <2> QED BY <2>3, <2>4, <2>5
  <1> QED BY <1>2, <1>3 DEF Read

\* The idle period and running checks.
LEMMA GateKeeps ==
    ASSUME IdleIInv, Gate
    PROVE IdleIInv'
  <1>1. /\ pass.pc = "gate" /\ seen' \in Shas \cup {0}
        /\ UNCHANGED <<head, pushed, runs, used, made, unseen, hidden, returned, pending, builds>>
    BY DEF Gate, At, github, stored, IdleIInv, IdleTypeOK
  <1>2. CASE Fail
    BY <1>1, <1>2, FailKeeps DEF Steady, Fail
  <1>3. CASE Well /\ End /\ (UNCHANGED clocks \/ (quiet' = FALSE /\ UNCHANGED <<recent, grace>>))
    <2>1. quiet' \in BOOLEAN /\ UNCHANGED <<recent, grace>>
      BY <1>3 DEF clocks, IdleIInv, IdleTypeOK
    <2> QED BY <1>1, <1>3, <2>1, FailKeeps DEF Steady
  <1>4. CASE Well /\ Go("fresh") /\ UNCHANGED clocks /\ head = pass.sha
    <2>1. pass' \in Pass /\ pass'.pc = "fresh"
          /\ pass'.sha = pass.sha /\ pass'.before = pass.before /\ pass'.target = pass.target
          /\ pass'.since = pass.since /\ pass'.settled = pass.settled
      BY <1>4, GoIs
    <2>2. Steady /\ World
      BY <1>1, <1>4 DEF Steady, clocks, World, Well, IdleIInv, IdleTypeOK
    <2>3. IdleTypeOK' /\ Standing' /\ Counted' /\ R' = R
      BY <1>1, <2>1, <2>2, SteadyKeeps DEF Due
    <2>4. PassFormed' /\ ReadyFormed' /\ SentFormed'
      BY <1>1, <2>1, <2>3 DEF PassFormed, ReadyFormed, SentFormed, Bot, IdleIInv, Passing
    <2>5. ChosenFormed'
      BY <1>1, <1>4, <2>1, <2>3 DEF ChosenFormed, Chosen, Bot, Equivalent, IdleIInv, Passing
    <2> QED BY <2>3, <2>4, <2>5 DEF IdleIInv, Passing
  <1> QED BY <1>2, <1>3, <1>4 DEF Gate

-----------------------------------------------------------------------------
(* The request. *)

\* The request is stored and its attempt counted.
LEMMA RequestKeeps ==
    ASSUME IdleIInv, pass.pc = "fresh", NEW k, NEW t \in Nat,
           pending' = [run |-> pass.target, tries |-> t, known |-> k, since |-> pass.since],
           t = IF pass.target = 0 THEN 0 ELSE (CHOOSE r \in pass.before : r.id = pass.target).tries,
           k = ({builds[s].run : s \in Shas} \ {0})
                 \cup {r.id : r \in {q \in pass.before : Equivalent(q)}},
           builds' = [builds EXCEPT ![pass.sha].attempts = @ + 1],
           recent' = recent \cup {pass.sha}, grace' = FALSE, Go("send"), Well,
           UNCHANGED <<github, seen, quiet>>
    PROVE  IdleIInv'
  <1>1. UNCHANGED <<head, pushed, runs, used, made, unseen, hidden, returned, seen, quiet, up,
                    moves, faults>>
        /\ R' = R
    BY DEF github, Well, R
  <1>2. pass' \in Pass /\ pass'.pc = "send"
        /\ pass'.sha = pass.sha /\ pass'.before = pass.before /\ pass'.target = pass.target
        /\ pass'.since = pass.since /\ pass'.settled = pass.settled
    BY GoIs
  <1>3. pass.sha \in Shas /\ pass.target \in Ids \cup {0} /\ pass.since \in 0..MaxRuns
        /\ pass.before \subseteq Run
    BY DEF IdleIInv, IdleTypeOK, Pass
  <1>4. R \subseteq Run /\ (\A q, z \in R : q.id = z.id => q = z)
        /\ \A q \in R : q.id \in Nat \ {0} /\ q.sha \in Shas /\ q.sha \in Nat /\ q.tries \in Nat
    BY RunsTyped DEF IdleIInv
  <1>5. k \subseteq Ids /\ \A j \in k : j <= used
    <2>1. \A s \in Shas : builds[s].run \in Ids \cup {0} /\ builds[s].run <= used
      BY DEF IdleIInv, IdleTypeOK, Standing, RequestFormed
    <2>2. \A r \in pass.before : r.id \in Ids /\ r.id <= used
      BY <1>3 DEF IdleIInv, Passing, PassFormed, Run
    <2> QED BY <2>1, <2>2
  <1>6. pass.target # 0 => t >= 1
    <2> SUFFICES ASSUME pass.target # 0 PROVE t >= 1
      OBVIOUS
    <2>1. \E r \in pass.before : r.id = pass.target
      BY DEF IdleIInv, Passing, ReadyFormed
    <2>2. (CHOOSE r \in pass.before : r.id = pass.target) \in pass.before
      BY <2>1
    <2> QED BY <2>2 DEF IdleIInv, Passing, PassFormed
  <1>7. /\ pending' \in Pending /\ pending' # None /\ pending'.run = pass.target
           /\ pending'.tries = t
        /\ pending'.known = k /\ pending'.since = pass.since
    <2>1. 0 \notin k
      BY <1>5 DEF Ids
    <2> QED BY <1>3, <1>5, <2>1 DEF Pending, None
  <1>8. builds \in [Shas -> Build] /\ \A s \in Shas : builds[s].attempts \in Nat
    BY DEF IdleIInv, IdleTypeOK, Build
  <1>9. /\ builds' \in [Shas -> Build] /\ \A s \in Shas : s # pass.sha => builds'[s] = builds[s]
        /\ builds'[pass.sha].attempts = builds[pass.sha].attempts + 1
        /\ \A s \in Shas : builds'[s].run = builds[s].run
           /\ builds'[s].terminal = builds[s].terminal
    BY <1>3, <1>8 DEF Build
  <1>10. pending = None
    BY DEF IdleIInv, Passing, PassFormed
  <1>11. used >= 0 /\ used \in Nat /\ max_retries \in Nat
    BY IdleAssumption DEF IdleIInv, IdleTypeOK
  <1> HIDE DEF R
  <1>12. IdleTypeOK'
    BY <1>1, <1>2, <1>3, <1>7, <1>9, ZenonT(60) DEF IdleIInv, IdleTypeOK, Build
  <1>13. RunsFormed' /\ OneRun' /\ AttemptsBounded'
    BY <1>1 DEF IdleIInv, Standing, RunsFormed, OneRun, AttemptsBounded, Bot
  <1>14. Unpushed'
    BY <1>1, <1>9 DEF IdleIInv, Standing, Unpushed
  <1>15. RequestFormed'
    <2>1. \A r \in R : r.id = pass.target => Equivalent(r)
      BY <1>4 DEF IdleIInv, Passing, ChosenFormed, Chosen
    <2>2. \A r \in R : Bot(r) => r.id <= pass.since /\ r.id \in Nat
      BY <1>4 DEF IdleIInv, Passing, PassFormed
    <2>3. \A r \in R : Bot(r) => ~(r.id > pass.since)
      BY <1>3, <2>2
    <2>4. pass.target <= used /\ pass.since <= used
      BY DEF IdleIInv, Passing, PassFormed, ChosenFormed, Chosen
    <2>5. \A s \in Shas : builds'[s].run <= used
      BY <1>9 DEF IdleIInv, Standing, RequestFormed
    <2>6. pass.target = 0 => t = 0
      OBVIOUS
    <2> QED BY <1>1, <1>5, <1>7, <2>1, <2>3, <2>4, <2>5, <2>6 DEF RequestFormed, Bot, Equivalent
  <1>16. NoneLost'
    <2> SUFFICES ASSUME NEW q \in R, ~q.listed PROVE Found(q)'
      BY <1>1 DEF NoneLost
    <2>1. Found(q)
      BY <1>10 DEF IdleIInv, Standing, NoneLost, Tracked
    <2>2. builds'[q.sha].attempts >= 1
      <3>1. q.sha \in Shas /\ builds[q.sha].attempts >= 1 /\ builds[q.sha].attempts \in Nat
        BY <1>4, <1>8, <2>1 DEF Found
      <3>2. CASE q.sha = pass.sha
        BY <1>9, <3>1, <3>2
      <3>3. CASE q.sha # pass.sha
        BY <1>9, <3>1, <3>3
      <3> QED BY <3>2, <3>3
    <2> QED BY <1>1, <1>4, <1>9, <2>1, <2>2 DEF Found, Equivalent
  <1>17. Counted'
    <2>1. \A s \in Shas : made[s] \in Nat
      BY DEF IdleIInv, IdleTypeOK
    <2> SUFFICES ASSUME NEW s \in Shas \ (unseen \cup returned) PROVE
            \/ made[s] + Due(s)' <= builds'[s].attempts
            \/ made[s] = 1 /\ Due(s)' = 0 /\ \E r \in R : r.sha = s /\ Bot(r)
      BY <1>1 DEF Counted, Bot
    <2>2. CASE s = pass.sha
      <3>1. Due(s)' = 1 /\ made[s] <= builds[s].attempts
        BY <1>2, <2>2 DEF Due, IdleIInv, Passing, ReadyFormed
      <3> HIDE DEF Due
      <3> QED BY <1>8, <1>9, <2>1, <2>2, <3>1
    <2>3. CASE s # pass.sha
      <3>1. Due(s)' = 0 /\ Due(s) = 0
        BY <1>2, <2>3 DEF Due
      <3> HIDE DEF Due
      <3> QED BY <1>9, <2>3, <3>1 DEF IdleIInv, Counted
    <2> QED BY <2>2, <2>3
  <1>18. PassFormed'
    BY <1>1, <1>2 DEF PassFormed, IdleIInv, Passing
  <1>19. ChosenFormed'
    <2>1. head \in Shas /\ (Untried(head) => Untried(head)')
      BY <1>1, <1>2, <1>9 DEF Untried, IdleIInv, IdleTypeOK
    <2> QED
      BY <1>1, <1>2, <1>3, <1>9, <2>1 DEF ChosenFormed, Chosen, Bot, Equivalent, IdleIInv, Passing
  <1>20. ReadyFormed'
    BY <1>2 DEF ReadyFormed
  <1>21. SentFormed'
    <2>1. builds'[pass.sha].attempts \in 1..(max_retries + 1)
      <3>1. builds[pass.sha].attempts <= max_retries /\ builds[pass.sha].attempts \in Nat
        BY <1>3, <1>8 DEF IdleIInv, Passing, ReadyFormed
      <3> QED BY <1>9, <1>11, <3>1
    <2>2. \A q \in R : q.sha = pass.sha /\ ~q.listed => builds'[pass.sha].attempts >= 2
      <3> SUFFICES ASSUME NEW q \in R, q.sha = pass.sha, ~q.listed
                          PROVE builds'[pass.sha].attempts >= 2
        OBVIOUS
      <3>1. builds[pass.sha].attempts >= 1
        BY <1>10 DEF IdleIInv, Standing, NoneLost, Tracked, Found
      <3> QED BY <1>3, <1>8, <1>9, <3>1
    <2> QED BY <1>1, <1>2, <1>6, <1>7, <2>1, <2>2 DEF SentFormed, IdleIInv, Passing, PassFormed, Bot
  <1> QED
    BY <1>12, <1>13, <1>14, <1>15, <1>16, <1>17, <1>18, <1>19, <1>20, <1>21 DEF IdleIInv, Standing,
       Passing

\* The request is made, or something changed.
LEMMA ReserveKeeps ==
    ASSUME IdleIInv, Reserve
    PROVE IdleIInv'
  <1>1. /\ pass.pc = "fresh" /\ seen' \in Shas \cup {0}
        /\ UNCHANGED <<head, pushed, runs, used, made, unseen, hidden, returned, seen, github>>
    BY DEF Reserve, At, github, IdleIInv, IdleTypeOK
  <1>2. CASE Fail /\ UNCHANGED <<builds, pending>>
    BY <1>1, <1>2, FailKeeps DEF Steady, Fail
  <1>3. CASE Well /\ UNCHANGED quiet /\ End /\ UNCHANGED <<builds, pending, recent, grace>>
    <2>1. quiet' \in BOOLEAN
      BY <1>3 DEF IdleIInv, IdleTypeOK
    <2> QED BY <1>1, <1>3, <2>1, FailKeeps DEF Steady
  <1> DEFINE t == IF pass.target = 0 THEN 0
                  ELSE (CHOOSE r \in pass.before : r.id = pass.target).tries
             k == ({builds[s].run : s \in Shas} \ {0})
                    \cup {r.id : r \in {q \in pass.before : Equivalent(q)}}
  <1>4. t \in Nat
    <2>1. CASE pass.target # 0
      <3>1. \E r \in pass.before : r.id = pass.target
        BY <1>1, <2>1 DEF IdleIInv, Passing, ReadyFormed
      <3>2. (CHOOSE r \in pass.before : r.id = pass.target) \in pass.before
        BY <3>1
      <3>3. pass.before \subseteq Run
        BY DEF IdleIInv, IdleTypeOK, Pass
      <3> QED BY <2>1, <3>2, <3>3 DEF Run
    <2>2. CASE pass.target = 0
      BY <2>2
    <2> QED BY <2>1, <2>2
  <1>5. CASE /\ Well /\ UNCHANGED quiet
             /\ pending' = [run |-> pass.target, tries |-> t, known |-> k, since |-> pass.since]
             /\ builds' = [builds EXCEPT ![pass.sha].attempts = @ + 1]
             /\ recent' = recent \cup {pass.sha} /\ grace' = FALSE /\ Go("send")
    <2> HIDE DEF t, k
    <2>1. PICK u \in Nat : u = t
      BY <1>4
    <2>2. PICK v : v = k
      OBVIOUS
    <2>3. pending' = [run |-> pass.target, tries |-> u, known |-> v, since |-> pass.since]
      BY <1>5, <2>1, <2>2
    <2> USE DEF t, k
    <2> QED BY <1>1, <1>5, <2>1, <2>2, <2>3, RequestKeeps
  <1> QED BY <1>2, <1>3, <1>5 DEF Reserve

\* The pass after the call: it awaits the answer, or the answer is lost.
SentPass == \/ /\ pass'.pc = "answer"
               /\ pass'.target = (IF pass.target = 0 THEN used + 1 ELSE pass.target)
               /\ pass'.since = pass.since /\ pass'.before = pass.before
                  /\ pass'.settled = pass.settled
            \/ pass'.pc = "idle" /\ pass'.since = 0 /\ pass'.before = {} /\ pass'.settled = {}

\* What the call leaves.
LEMMA SentIs ==
    ASSUME IdleIInv, pass.pc = "send",
           NEW id \in Ids, id = IF pass.target = 0 THEN used + 1 ELSE pass.target, Sent(id)
    PROVE  SentPass /\ pass' \in Pass /\ UNCHANGED <<recent, grace>> /\ World
  <1>1. pass \in Pass /\ quiet \in BOOLEAN /\ grace \in BOOLEAN /\ recent \subseteq Shas
        /\ up \in BOOLEAN
        /\ moves \in 0..MaxMoves /\ faults \in 0..MaxFaults
    BY DEF IdleIInv, IdleTypeOK
  <1>2. CASE Well /\ UNCHANGED clocks /\ pass' = [pass EXCEPT !.pc = "answer", !.target = id]
    <2>1. pass' \in Pass /\ pass'.pc = "answer" /\ pass'.target = id
          /\ pass'.since = pass.since /\ pass'.before = pass.before /\ pass'.settled = pass.settled
      BY <1>1, <1>2 DEF Pass
    <2> QED BY <1>1, <1>2, <2>1 DEF SentPass, Well, clocks, World
  <1>3. CASE Fail
    BY <1>1, <1>3, FreeIs, CountersTyped DEF Fail, End, SentPass, World, IdleIInv
  <1> QED BY <1>2, <1>3 DEF Sent

\* The attempt about to be made is counted.
LEMMA Allowed ==
    ASSUME IdleIInv, pass.pc \in {"send", "refused"}
    PROVE  /\ pass.sha \in Shas \ (unseen \cup returned) =>
                made[pass.sha] + 1 <= builds[pass.sha].attempts
           /\ builds[pass.sha].attempts \in 1..(max_retries + 1)
  <1>1. pass.sha \in Shas /\ Due(pass.sha) = 1
    BY DEF IdleIInv, IdleTypeOK, Pass, Due
  <1>2. builds[pass.sha].attempts \in 1..(max_retries + 1)
    BY DEF IdleIInv, Passing, SentFormed
  <1> HIDE DEF Due
  <1> QED BY <1>1, <1>2 DEF IdleIInv, Counted

\* A dispatch lands: no run of the branch's commit is the scheduler's yet.
LEMMA DispatchKeeps ==
    ASSUME IdleIInv, pass.pc = "send", pass.target = 0, used < MaxRuns, used' = used + 1,
           NEW n \in Run,
           n.id = used + 1, n.sha = head, n.tries = 1, n.state = "active", n.by = "bot",
           runs' = Append(runs, n), made' = [made EXCEPT ![head] = @ + 1], SentPass, pass' \in Pass,
           UNCHANGED <<head, pushed, unseen, hidden, returned, builds, pending, seen, recent,
                       grace>>, World
    PROVE  IdleIInv'
  <1>1. head \in Shas /\ used \in Nat /\ used' \in 0..MaxRuns /\ made \in [Shas -> Nat]
        /\ Shas \subseteq Nat
        /\ pass \in Pass /\ builds \in [Shas -> Build] /\ pass.sha \in Shas
    <2>1. head \in Shas /\ made \in [Shas -> Nat] /\ used \in 0..MaxRuns /\ Shas \subseteq Nat
      BY DEF IdleIInv, IdleTypeOK, Shas
    <2>2. pass \in Pass /\ builds \in [Shas -> Build] /\ pass.sha \in Shas
      BY DEF IdleIInv, IdleTypeOK, Build, Pass
    <2>3. used \in Nat /\ used' \in 0..MaxRuns
      BY <2>1, IdleAssumption
    <2> QED BY <2>1, <2>2, <2>3
  <1>2. \A q \in R : q.id <= used /\ q.id # n.id
    BY <1>1, RunsTyped, SMTT(60) DEF IdleIInv, Standing, RunsFormed, Run, Ids, IdleTypeOK
  <1>3. runs' \in Seq(Run) /\ Distinct(runs') /\ R' = R \cup {n}
    BY <1>2, RunsAppend DEF IdleIInv, IdleTypeOK, Distinct, R
  <1>4. R \subseteq Run /\ (\A q, z \in R : q.id = z.id => q = z)
        /\ \A q \in R : q.id \in Nat \ {0} /\ q.sha \in Shas /\ q.sha \in Nat /\ q.tries \in Nat
    BY RunsTyped DEF IdleIInv
  <1>5. /\ made' \in [Shas -> Nat] /\ made'[head] = made[head] + 1
        /\ \A s \in Shas : s # head => made'[s] = made[s]
    BY <1>1
  <1>6. \A s \in Shas : made[s] \in Nat /\ made'[s] \in Nat /\ made'[s] >= made[s]
    <2> SUFFICES ASSUME NEW s \in Shas PROVE made[s] \in Nat /\ made'[s] \in Nat
                            /\ made'[s] >= made[s]
      OBVIOUS
    <2>1. CASE s = head
      BY <1>1, <1>5, <2>1
    <2>2. CASE s # head
      <3>1. made'[s] = made[s] /\ made[s] \in Nat
        BY <1>1, <1>5, <2>2
      <3> QED BY <3>1
    <2> QED BY <2>1, <2>2
  <1>7. pending \in Pending /\ pending # None /\ ~grace /\ pending.run = 0 /\ pending.tries = 0
        /\ \A r \in R : Bot(r) => r.id <= pending.since
    BY DEF IdleIInv, Passing, SentFormed, IdleTypeOK, Standing, RequestFormed
  <1>8. pending.since \in Nat /\ pending.since <= used /\ \A k \in pending.known : k \in Nat
        /\ k <= used
    BY <1>7 DEF IdleIInv, Standing, RequestFormed, Pending, Ids
  <1>9. Bot(n) /\ Equivalent(n)
    BY DEF Bot, Equivalent
  <1>10. /\ pass.sha = head \/ made[head] = 0 \/ head \in returned
         /\ head \in hidden \cup returned \/ \A r \in R : Bot(r) => r.sha # head
    <2>1. head \in returned \cup {pass.sha} \/ made[head] = 0
      BY DEF IdleIInv, Passing, ChosenFormed, Chosen, Untried
    <2>2. pass.sha \in hidden \cup returned \/ \A r \in R : Bot(r) => r.sha # pass.sha
      BY DEF IdleIInv, Passing, ChosenFormed, Chosen
    <2>3. made[head] = 0 => \A r \in R : Bot(r) => r.sha # head
      BY DEF IdleIInv, Standing, RunsFormed
    <2> QED BY <2>1, <2>2, <2>3
  <1>11. pass'.pc \in {"idle", "answer"} /\ \A s \in Shas : Due(s)' = 0
    BY DEF SentPass, Due
  <1> HIDE DEF R
  <1>12. IdleTypeOK'
    BY <1>1, <1>3, <1>5, <1>7 DEF IdleIInv, IdleTypeOK, Distinct, World
  <1>13. RunsFormed'
    <2>1. \A r \in R : r.id <= used'
      BY <1>1, <1>2, <1>4
    <2>2. \A r \in R : Bot(r) => made'[r.sha] >= 1
      <3> SUFFICES ASSUME NEW r \in R, Bot(r) PROVE made'[r.sha] >= 1
        OBVIOUS
      <3>1. made[r.sha] >= 1 /\ r.sha \in Shas
        BY <1>4 DEF IdleIInv, Standing, RunsFormed
      <3> QED BY <1>6, <3>1
    <2>3. n.id <= used' /\ n.sha <= pushed /\ n.tries >= 1 /\ made'[n.sha] >= 1
      BY <1>1, <1>5 DEF IdleIInv, IdleTypeOK
    <2> QED BY <1>3, <1>9, <2>1, <2>2, <2>3 DEF IdleIInv, Standing, RunsFormed, Bot
  <1>14. RequestFormed'
    <2>1. \A s \in Shas : builds[s].run \in Nat /\ builds[s].run <= used
      BY <1>1 DEF IdleIInv, Standing, RequestFormed, Build, Ids
    <2>2. \A s \in Shas : builds[s].run <= used'
      BY <1>1, <2>1
    <2>3. pending.since <= used' /\ (\A k \in pending.known : k <= used') /\ 0 <= used'
      BY <1>1, <1>8
    <2>4. \A r \in R' : r.id # 0
      BY <1>1, <1>3, <1>4
    <2>5. \A r \in R : Bot(r) => ~(r.id > pending.since)
      <3> SUFFICES ASSUME NEW r \in R, Bot(r) PROVE ~(r.id > pending.since)
        OBVIOUS
      <3>1. r.id \in Nat /\ r.id <= pending.since
        BY <1>4, <1>7
      <3> QED BY <1>8, <3>1
    <2>6. ~grace' /\ pending' = pending
      BY <1>7
    <2> QED BY <1>3, <1>7, <2>2, <2>3, <2>4, <2>5, <2>6 DEF RequestFormed, Bot
  <1>15. NoneLost'
    <2> SUFFICES ASSUME NEW q \in R', ~q.listed PROVE (Tracked(q) \/ Found(q))'
      BY DEF NoneLost
    <2>1. CASE q = n
      <3>1. n.id > pending.since /\ n.id \notin pending.known
        BY <1>1, <1>8
      <3> QED BY <1>7, <2>1, <3>1 DEF Tracked
    <2>2. CASE q \in R
      BY <1>3, <2>2 DEF IdleIInv, Standing, NoneLost, Tracked, Found, Equivalent
    <2> QED BY <1>3, <2>1, <2>2
  <1>16. OneRun'
    BY <1>3, <1>9, <1>10 DEF IdleIInv, Standing, OneRun, Bot
  <1>17. Unpushed'
    <2>1. head <= pushed /\ pushed \in Nat
      BY DEF IdleIInv, IdleTypeOK, Shas
    <2>2. \A s \in Shas : s > pushed => s # head
      BY <1>1, <2>1
    <2> QED BY <1>5, <2>2 DEF IdleIInv, Standing, Unpushed
  <1>18. max_retries \in Nat
         /\ (pass.sha \notin unseen \cup returned
               => made[pass.sha] + 1 <= builds[pass.sha].attempts)
         /\ builds[pass.sha].attempts \in 1..(max_retries + 1)
    BY Allowed, IdleAssumption, <1>1
  <1>19. AttemptsBounded'
    <2> SUFFICES ASSUME NEW s \in Shas, s \notin unseen \cup returned
            PROVE made'[s] <= max_retries + 1
      BY DEF AttemptsBounded
    <2>1. CASE s # head
      BY <1>5, <2>1 DEF IdleIInv, Standing, AttemptsBounded
    <2>2. CASE s = head /\ s = pass.sha
      BY <1>5, <1>6, <1>18, <2>2
    <2>3. CASE s = head /\ s # pass.sha
      BY <1>5, <1>10, <1>18, <2>3
    <2> QED BY <2>1, <2>2, <2>3
  <1>20. Counted'
    <2> SUFFICES ASSUME NEW s \in Shas, s \notin unseen \cup returned
                 PROVE  \/ made'[s] <= builds[s].attempts
                        \/ made'[s] = 1 /\ \E r \in R' : r.sha = s /\ Bot(r)
      BY <1>6, <1>11 DEF Counted, Bot
    <2>1. CASE s # head
      <3>1. made'[s] = made[s] /\ Due(s) \in {0, 1} /\ builds[s].attempts \in Nat
        BY <1>1, <1>5, <2>1 DEF Due, Build
      <3> HIDE DEF Due
      <3>2. \/ made[s] + Due(s) <= builds[s].attempts
            \/ made[s] = 1 /\ \E r \in R : r.sha = s /\ Bot(r)
        BY DEF IdleIInv, Counted
      <3> QED BY <1>3, <1>6, <3>1, <3>2
    <2>2. CASE s = head /\ s = pass.sha
      BY <1>5, <1>18, <2>2
    <2>3. CASE s = head /\ s # pass.sha
      <3>1. made'[s] = 1
        BY <1>5, <1>10, <2>3
      <3> QED BY <1>3, <1>9, <2>3, <3>1
    <2> QED BY <2>1, <2>2, <2>3
  <1>21. PassFormed'
    <2>1. pass.since \in Nat /\ pass.since <= used
          /\ (\A r \in pass.before : r.id \in Nat /\ r.id <= used /\ r.tries >= 1)
          /\ \A k \in pass.settled : k \in Nat /\ k <= used
      BY <1>1 DEF IdleIInv, Passing, PassFormed, Pass, Run, Ids
    <2>2. pass.since <= used' /\ (\A r \in pass.before : r.id <= used' /\ r.tries >= 1)
          /\ (\A k \in pass.settled : k <= used') /\ 0 <= used'
      BY <1>1, <2>1
    <2> QED BY <1>11, <2>2 DEF SentPass, PassFormed
  <1>22. ChosenFormed' /\ ReadyFormed'
    BY <1>11 DEF ChosenFormed, Chosen, ReadyFormed
  <1>23. SentFormed'
    <2>1. CASE pass'.pc = "idle"
      BY <2>1 DEF SentFormed
    <2>2. CASE pass'.pc = "answer"
      <3>1. pass'.target = n.id /\ pass'.target \in 1..used'
        BY <1>1, <2>2 DEF SentPass
      <3>2. \A r \in R' : r.id = n.id => r = n
        BY <1>2, <1>3
      <3>3. \A r \in R : r.listed \/ ~(r.id > pending.since)
        <4> SUFFICES ASSUME NEW r \in R, ~r.listed PROVE ~(r.id > pending.since)
          OBVIOUS
        <4>1. r.id \in Nat /\ r.id <= pending.since
          BY <1>4, <1>7 DEF IdleIInv, Standing, RunsFormed
        <4> QED BY <1>8, <4>1
      <3>4. \A r \in R : r.id # 0
        BY <1>4
      <3> QED BY <1>3, <1>7, <1>9, <2>2, <3>1, <3>2, <3>3, <3>4 DEF SentFormed, Tracked, Equivalent
    <2> QED BY <1>11, <2>1, <2>2
  <1> QED
    BY <1>12, <1>13, <1>14, <1>15, <1>16, <1>17, <1>19, <1>20, <1>21, <1>22, <1>23 DEF IdleIInv,
       Standing, Passing

\* A re-run lands.
LEMMA RerunKeeps ==
    ASSUME IdleIInv, pass.pc = "send", pass.target # 0, NEW i \in DOMAIN runs, NEW n \in Run,
           runs[i].id = pass.target, runs[i].state # "active",
           n.id = runs[i].id, n.sha = runs[i].sha, n.by = runs[i].by, n.tries = runs[i].tries + 1,
           n.listed = runs[i].listed,
           runs' = Put(i, n), made' = [made EXCEPT ![runs[i].sha] = @ + 1], SentPass,
           pass' \in Pass,
           UNCHANGED <<head, pushed, used, unseen, hidden, returned, builds, pending, seen,
                       recent, grace>>, World
    PROVE  IdleIInv'
  <1> DEFINE old == runs[i]
  <1>1. R \subseteq Run /\ (\A q, z \in R : q.id = z.id => q = z)
        /\ \A q \in R : q.id \in Nat \ {0} /\ q.sha \in Shas /\ q.sha \in Nat /\ q.tries \in Nat
    BY RunsTyped DEF IdleIInv
  <1>2. old \in R
    BY DEF R, ToSet
  <1>3. runs' \in Seq(Run) /\ Distinct(runs') /\ R' = (R \ {old}) \cup {n}
    BY RunsPut DEF IdleIInv, R
  <1> HIDE DEF old
  <1>4. old.id = pass.target /\ n.id = old.id /\ n.sha = old.sha /\ n.by = old.by
        /\ n.tries = old.tries + 1
        /\ made' = [made EXCEPT ![old.sha] = @ + 1]
        /\ n.listed = old.listed /\ old.listed
    BY <1>2 DEF old, IdleIInv, Standing, RunsFormed
  <1>5. old.sha = pass.sha /\ Equivalent(old) /\ Equivalent(n) /\ n.listed
    BY <1>2, <1>4 DEF IdleIInv, Passing, ChosenFormed, Chosen, Equivalent
  <1>6. pass.sha \in Shas /\ head \in Shas /\ Shas \subseteq Nat /\ made \in [Shas -> Nat]
        /\ used \in Nat
        /\ builds \in [Shas -> Build] /\ pass \in Pass /\ pass.target \in Nat
    <2>1. head \in Shas /\ Shas \subseteq Nat /\ made \in [Shas -> Nat] /\ used \in Nat
      BY DEF IdleIInv, IdleTypeOK, Shas
    <2>2. pass \in Pass /\ builds \in [Shas -> Build]
      BY DEF IdleIInv, IdleTypeOK, Build
    <2>3. pass.sha \in Shas /\ pass.target \in Nat
      BY <2>2 DEF Pass, Ids
    <2> QED BY <2>1, <2>2, <2>3
  <1>7. /\ made' \in [Shas -> Nat] /\ made'[pass.sha] = made[pass.sha] + 1
        /\ \A s \in Shas : s # pass.sha => made'[s] = made[s]
    <2>1. made' = [made EXCEPT ![pass.sha] = @ + 1]
      BY <1>4, <1>5
    <2>2. made[pass.sha] \in Nat /\ made[pass.sha] + 1 \in Nat
      BY <1>6
    <2> QED BY <1>6, <2>1, <2>2
  <1>8. \A s \in Shas : made[s] \in Nat /\ made'[s] \in Nat /\ made'[s] >= made[s]
    <2> SUFFICES ASSUME NEW s \in Shas PROVE made[s] \in Nat /\ made'[s] \in Nat
                            /\ made'[s] >= made[s]
      OBVIOUS
    <2>1. CASE s = pass.sha
      BY <1>6, <1>7, <2>1
    <2>2. CASE s # pass.sha
      <3>1. made'[s] = made[s] /\ made[s] \in Nat
        BY <1>6, <1>7, <2>2
      <3> QED BY <3>1
    <2> QED BY <2>1, <2>2
  <1>9. pending \in Pending /\ pending # None /\ ~grace /\ pending.run = pass.target
        /\ pending.tries >= 1
    BY DEF IdleIInv, Passing, SentFormed, IdleTypeOK
  <1>10. pass'.pc \in {"idle", "answer"} /\ \A s \in Shas : Due(s)' = 0
    BY DEF SentPass, Due
  <1> HIDE DEF R
  <1>11. /\ \A r \in R' : \E q \in R : r.id = q.id /\ r.sha = q.sha /\ r.by = q.by
         /\ \A q \in R : \E r \in R' : r.id = q.id /\ r.sha = q.sha /\ r.by = q.by
            /\ r.listed = q.listed
    BY <1>2, <1>3, <1>4, ZenonT(60)
  <1>12. IdleTypeOK'
    BY <1>3, <1>6, <1>7, <1>9 DEF IdleIInv, IdleTypeOK, Distinct, World
  <1>13. RunsFormed'
    <2>1. \A r \in R : Bot(r) => made'[r.sha] >= 1
      <3> SUFFICES ASSUME NEW r \in R, Bot(r) PROVE made'[r.sha] >= 1
        OBVIOUS
      <3>1. made[r.sha] >= 1 /\ r.sha \in Shas
        BY <1>1 DEF IdleIInv, Standing, RunsFormed
      <3> QED BY <1>8, <3>1
    <2>2. n.id <= used /\ n.sha <= pushed /\ n.tries >= 1 /\ (Bot(n) => made'[n.sha] >= 1)
      <3>1. old.id <= used /\ old.sha <= pushed /\ old.tries \in Nat
        BY <1>1, <1>2 DEF IdleIInv, Standing, RunsFormed
      <3>2. made'[n.sha] >= 1
        <4>1. n.sha = pass.sha
          BY <1>4, <1>5
        <4>2. made[pass.sha] \in Nat /\ made'[pass.sha] = made[pass.sha] + 1
          BY <1>6, <1>7
        <4> QED BY <4>1, <4>2
      <3> QED BY <1>4, <3>1, <3>2
    <2> QED BY <1>3, <1>5, <2>1, <2>2 DEF IdleIInv, Standing, RunsFormed, Bot
  <1>14. RequestFormed'
    <2>1. \A r \in R' : r.id = pending.run => Equivalent(r)
      BY <1>11 DEF IdleIInv, Standing, RequestFormed, Equivalent
    <2>2. \A r, q \in R' : Bot(r) /\ Bot(q) /\ r.id > pending.since /\ q.id > pending.since
          => r.id = q.id
      BY <1>9, <1>11 DEF IdleIInv, Standing, RequestFormed, Bot
    <2> QED BY <1>9, <2>1, <2>2 DEF IdleIInv, Standing, RequestFormed, Equivalent, Bot
  <1>15. NoneLost'
    <2> SUFFICES ASSUME NEW q \in R', ~q.listed PROVE Found(q)'
      BY DEF NoneLost
    <2>1. q \in R
      BY <1>3, <1>5
    <2>2. ~Tracked(q)
      BY <1>9 DEF Tracked
    <2>3. Found(q)
      BY <2>1, <2>2 DEF IdleIInv, Standing, NoneLost
    <2>4. (\E z \in R : z.sha = q.sha /\ z.listed /\ Equivalent(z))
             => \E z \in R' : z.sha = q.sha /\ z.listed /\ Equivalent(z)
      BY <1>11 DEF Equivalent
    <2> QED BY <2>3, <2>4 DEF Found, Equivalent
  <1>16. OneRun'
    BY <1>11 DEF IdleIInv, Standing, OneRun, Bot
  <1>17. Unpushed'
    <2>1. pass.sha <= pushed /\ pushed \in Nat
      BY DEF IdleIInv, Passing, ChosenFormed, Chosen, IdleTypeOK, Shas
    <2>2. \A s \in Shas : s > pushed => s # pass.sha
      BY <1>6, <2>1
    <2> QED BY <1>7, <2>2 DEF IdleIInv, Standing, Unpushed
  <1>18. max_retries \in Nat
         /\ (pass.sha \notin unseen \cup returned
               => made[pass.sha] + 1 <= builds[pass.sha].attempts)
         /\ builds[pass.sha].attempts \in 1..(max_retries + 1)
    BY Allowed, IdleAssumption, <1>6
  <1>19. AttemptsBounded'
    <2> SUFFICES ASSUME NEW s \in Shas, s \notin unseen \cup returned
            PROVE made'[s] <= max_retries + 1
      BY DEF AttemptsBounded
    <2>1. CASE s # pass.sha
      BY <1>7, <2>1 DEF IdleIInv, Standing, AttemptsBounded
    <2>2. CASE s = pass.sha
      BY <1>7, <1>8, <1>18, <2>2
    <2> QED BY <2>1, <2>2
  <1>20. Counted'
    <2> SUFFICES ASSUME NEW s \in Shas, s \notin unseen \cup returned
                 PROVE  \/ made'[s] <= builds[s].attempts
                        \/ made'[s] = 1 /\ \E r \in R' : r.sha = s /\ Bot(r)
      BY <1>8, <1>10 DEF Counted, Bot
    <2>1. CASE s # pass.sha
      <3>1. made'[s] = made[s] /\ Due(s) \in {0, 1} /\ builds[s].attempts \in Nat
        BY <1>6, <1>7, <2>1 DEF Due, Build
      <3> HIDE DEF Due
      <3>2. \/ made[s] + Due(s) <= builds[s].attempts
            \/ made[s] = 1 /\ \E r \in R : r.sha = s /\ Bot(r)
        BY DEF IdleIInv, Counted
      <3>3. (\E r \in R : r.sha = s /\ Bot(r)) => \E r \in R' : r.sha = s /\ Bot(r)
        BY <1>11 DEF Bot
      <3> QED BY <1>8, <3>1, <3>2, <3>3
    <2>2. CASE s = pass.sha
      BY <1>7, <1>18, <2>2
    <2> QED BY <2>1, <2>2
  <1>21. PassFormed'
    BY <1>6, <1>10 DEF IdleIInv, Passing, SentPass, PassFormed
  <1>22. ChosenFormed' /\ ReadyFormed'
    BY <1>10 DEF ChosenFormed, Chosen, ReadyFormed
  <1>23. SentFormed'
    <2>1. CASE pass'.pc = "idle"
      BY <2>1 DEF SentFormed
    <2>2. CASE pass'.pc = "answer"
      <3>1. pass'.target = pass.target
        BY <2>2 DEF SentPass
      <3>2. pass.target <= used
        BY DEF IdleIInv, Passing, ChosenFormed, Chosen
      <3>3. pass.target \in 1..used
        BY <1>6, <3>2
      <3>4. \A r \in R' : r.id = pass.target => Equivalent(r)
        BY <1>9, <1>11 DEF IdleIInv, Standing, RequestFormed, Equivalent
      <3> QED BY <1>9, <2>2, <3>1, <3>3, <3>4 DEF SentFormed, Equivalent
    <2> QED BY <1>10, <2>1, <2>2
  <1> QED
    BY <1>12, <1>13, <1>14, <1>15, <1>16, <1>17, <1>19, <1>20, <1>21, <1>22, <1>23 DEF IdleIInv,
       Standing, Passing

\* The request is refused.
LEMMA TurnedDownKeeps ==
    ASSUME IdleIInv, pass.pc = "send", Steady, seen' = seen, Well \/ Fails, UNCHANGED clocks,
           Go("refused")
    PROVE  IdleIInv'
  <1>1. pass' \in Pass /\ pass'.pc = "refused"
        /\ pass'.sha = pass.sha /\ pass'.before = pass.before /\ pass'.target = pass.target
        /\ pass'.since = pass.since /\ pass'.settled = pass.settled
    BY GoIs
  <1>2. World
    <2>1. /\ quiet \in BOOLEAN /\ grace \in BOOLEAN /\ recent \subseteq Shas /\ up \in BOOLEAN
          /\ moves \in 0..MaxMoves /\ faults \in 0..MaxFaults
      BY DEF IdleIInv, IdleTypeOK
    <2> QED BY <2>1, CountersTyped DEF World, Fails, Well, clocks, IdleIInv
  <1>3. seen' \in Shas \cup {0} /\ pending # None
    BY DEF IdleIInv, IdleTypeOK
  <1>4. IdleTypeOK' /\ Standing' /\ Counted' /\ R' = R
    BY <1>1, <1>2, <1>3, SteadyKeeps DEF Due
  <1>5. PassFormed' /\ ChosenFormed' /\ ReadyFormed'
    BY <1>1 DEF PassFormed, ChosenFormed, Chosen, ReadyFormed, Steady, IdleIInv, Passing
  <1>6. SentFormed'
    BY <1>1, <1>4 DEF SentFormed, Steady, Bot, IdleIInv, Passing
  <1> QED BY <1>4, <1>5, <1>6 DEF IdleIInv, Passing

\* A request lands.
LEMMA LandsKeeps ==
    ASSUME IdleIInv, pass.pc = "send", Lands,
           UNCHANGED <<head, pushed, unseen, hidden, returned, builds, pending, seen>>
    PROVE  IdleIInv'
  <1>1. used \in Nat /\ used <= MaxRuns /\ head \in Shas /\ pass.target \in Ids \cup {0}
        /\ MaxRuns \in Nat
    BY IdleAssumption DEF IdleIInv, IdleTypeOK, Pass
  <1>2. CASE pass.target = 0
    <2>1. used < MaxRuns /\ used' = used + 1 /\ made' = [made EXCEPT ![head] = @ + 1]
          /\ Sent(used + 1)
          /\ \E listed \in BOOLEAN : runs' = Append(runs, [id |-> used + 1, sha |-> head,
                tries |-> 1, state |-> "active", by |-> "bot", listed |-> listed])
      BY <1>2 DEF Lands
    <2>2. used + 1 \in Ids
      BY <1>1, <2>1 DEF Ids
    <2>3. PICK listed \in BOOLEAN : runs' = Append(runs, [id |-> used + 1, sha |-> head,
                tries |-> 1, state |-> "active", by |-> "bot", listed |-> listed])
      BY <2>1
    <2> DEFINE n == [id |-> used + 1, sha |-> head, tries |-> 1, state |-> "active", by |-> "bot",
                     listed |-> listed]
    <2>4. n \in Run /\ n.id = used + 1 /\ n.sha = head /\ n.tries = 1 /\ n.state = "active"
          /\ n.by = "bot"
      BY <1>1, <2>2 DEF Run
    <2>5. runs' = Append(runs, n)
      BY <2>3
    <2> HIDE DEF n
    <2>6. SentPass /\ pass' \in Pass /\ UNCHANGED <<recent, grace>> /\ World
      BY <1>2, <2>1, <2>2, SentIs
    <2> QED BY <1>2, <2>1, <2>4, <2>5, <2>6, DispatchKeeps
  <1>3. CASE pass.target # 0
    <2>1. PICK i \in DOMAIN runs :
             /\ runs[i].id = pass.target /\ runs[i].state # "active"
             /\ runs' = Put(i, [runs[i] EXCEPT !.tries = @ + 1, !.state = "active"])
             /\ made' = [made EXCEPT ![runs[i].sha] = @ + 1] /\ UNCHANGED used
             /\ Sent(pass.target)
      BY <1>3 DEF Lands
    <2> DEFINE n == [runs[i] EXCEPT !.tries = @ + 1, !.state = "active"]
    <2>2. runs[i] \in Run
      BY DEF IdleIInv, IdleTypeOK
    <2>3. n \in Run /\ n.id = runs[i].id /\ n.sha = runs[i].sha /\ n.by = runs[i].by
          /\ n.tries = runs[i].tries + 1
          /\ n.listed = runs[i].listed
      <3>1. runs[i].tries \in Nat /\ runs[i].tries + 1 \in Nat
        BY <2>2 DEF Run
      <3>2. n.id = runs[i].id /\ n.sha = runs[i].sha /\ n.by = runs[i].by
            /\ n.tries = runs[i].tries + 1
            /\ n.listed = runs[i].listed /\ n.state = "active"
        BY <2>2 DEF Run
      <3>3. n \in Run
        BY <2>2, <3>1 DEF Run
      <3> QED BY <3>2, <3>3
    <2>4. runs' = Put(i, n)
      BY <2>1
    <2> HIDE DEF n
    <2>5. SentPass /\ pass' \in Pass /\ UNCHANGED <<recent, grace>> /\ World
      BY <1>1, <1>3, <2>1, SentIs
    <2> QED BY <1>3, <2>1, <2>3, <2>4, <2>5, RerunKeeps
  <1> QED BY <1>2, <1>3

\* The request is sent.
LEMMA SendKeeps ==
    ASSUME IdleIInv, Send
    PROVE IdleIInv'
  <1>1. /\ pass.pc = "send" /\ seen' \in Shas \cup {0} /\ seen' = seen
        /\ UNCHANGED <<head, pushed, unseen, hidden, returned, builds, pending, seen>>
    BY DEF Send, At, stored, IdleIInv, IdleTypeOK
  <1>2. CASE Lands
    BY <1>1, <1>2, LandsKeeps
  <1>3. CASE UNCHANGED <<runs, used, made>> /\ Fail
    BY <1>1, <1>3, FailKeeps DEF Steady, Fail
  <1>4. CASE UNCHANGED <<runs, used, made>> /\ (Fails \/ Well) /\ UNCHANGED clocks /\ Go("refused")
    BY <1>1, <1>4, TurnedDownKeeps DEF Steady, clocks
  <1> QED BY <1>2, <1>3, <1>4 DEF Send

-----------------------------------------------------------------------------
(* The answer. *)

\* The answer names the run, or does not.
LEMMA AnswerKeeps ==
    ASSUME IdleIInv, Answer
    PROVE IdleIInv'
  <1>1. /\ pass.pc = "answer" /\ pass' = Free /\ R' = R
        /\ UNCHANGED <<head, pushed, runs, used, made, unseen, hidden, returned, builds, seen,
                       quiet, recent, grace,
                       up, moves, faults>>
    BY DEF Answer, At, End, github, clocks, Well, R
  <1>2. pending \in Pending /\ pending # None /\ ~grace
        /\ pass.target \in 1..used /\ (\A r \in R : r.id = pass.target => Equivalent(r))
        /\ (pending.tries = 0 => \A r \in R : r.id = pass.target \/ r.listed \/ ~Tracked(r))
    BY <1>1 DEF IdleIInv, IdleTypeOK, Passing, SentFormed
  <1>3. pass.target \in Ids /\ used \in Nat /\ used >= 0 /\ pass.target <= used
    <2>1. used \in 0..MaxRuns /\ pass.target \in Ids \cup {0}
      BY DEF IdleIInv, IdleTypeOK, Pass
    <2> QED BY <1>2, <2>1 DEF Ids
  <1>4. PICK id \in {0, pass.target} : pending' = [pending EXCEPT !.run = id]
             /\ (id = 0 => pending.run = 0)
    <2>1. pending' \in {[pending EXCEPT !.run = id] : id \in
                           IF pending.run = 0 THEN {0, pass.target} ELSE {pass.target}}
      BY DEF Answer
    <2>2. PICK id \in (IF pending.run = 0 THEN {0, pass.target} ELSE {pass.target}) :
             pending' = [pending EXCEPT !.run = id]
      BY <2>1
    <2>3. id \in {0, pass.target} /\ (id = 0 => pending.run = 0)
      BY <1>2, <2>2
    <2> QED BY <2>2, <2>3
  <1>5. /\ pending' \in Pending /\ pending' # None /\ pending'.run = id
           /\ pending'.tries = pending.tries
        /\ pending'.known = pending.known /\ pending'.since = pending.since
    <2>1. pending' \in Pending /\ pending'.run = id /\ pending'.tries = pending.tries
          /\ pending'.known = pending.known /\ pending'.since = pending.since
      BY <1>2, <1>3, <1>4 DEF Pending
    <2>2. pending' # None
      BY <2>1 DEF None, Pending, Ids
    <2> QED BY <2>1, <2>2
  <1> HIDE DEF R
  <1>6. IdleTypeOK'
    BY <1>1, <1>5, FreeIs DEF IdleIInv, IdleTypeOK
  <1>7. RunsFormed' /\ OneRun' /\ Unpushed' /\ AttemptsBounded'
    BY <1>1 DEF IdleIInv, Standing, RunsFormed, OneRun, Unpushed, AttemptsBounded, Bot
  <1>8. RequestFormed'
    <2>1. id <= used /\ (id = 0 => pending.tries = 0)
      BY <1>3, <1>4 DEF IdleIInv, Standing, RequestFormed
    <2>2. \A r \in R : r.id = id => Equivalent(r)
      <3>1. id = 0 => \A r \in R : r.id # id
        BY RunsTyped DEF IdleIInv
      <3> QED BY <1>2, <3>1
    <2> QED BY <1>1, <1>2, <1>5, <2>1, <2>2 DEF IdleIInv, Standing, RequestFormed, Bot, Equivalent
  <1>9. NoneLost'
    <2> SUFFICES ASSUME NEW q \in R, ~q.listed PROVE (Tracked(q) \/ Found(q))'
      BY <1>1 DEF NoneLost
    <2>1. CASE Found(q)
      BY <1>1, <2>1 DEF Found, Equivalent
    <2>2. CASE Tracked(q)
      <3>1. q.id = pass.target
        BY <1>2, <2>2 DEF Tracked
      <3>2. CASE id = 0
        BY <1>4, <1>5, <2>2, <3>2 DEF Tracked
      <3>3. CASE id # 0
        BY <1>4, <1>5, <2>2, <3>1, <3>3 DEF Tracked
      <3> QED BY <3>2, <3>3
    <2> QED BY <2>1, <2>2 DEF IdleIInv, Standing, NoneLost
  <1>10. Counted'
    <2>1. \A s \in Shas : Due(s) = 0 /\ Due(s)' = 0
      BY <1>1, FreeIs DEF Due
    <2> HIDE DEF Due
    <2> QED BY <1>1, <2>1 DEF IdleIInv, Counted, Bot
  <1>11. Passing'
    BY <1>1, <1>3, FreeIs DEF Passing, PassFormed, ChosenFormed, Chosen, ReadyFormed, SentFormed
  <1> QED BY <1>6, <1>7, <1>8, <1>9, <1>10, <1>11 DEF IdleIInv, Standing

\* A refused attempt is given back.
LEMMA RefusedKeeps ==
    ASSUME IdleIInv, Refused
    PROVE IdleIInv'
  <1>1. /\ pass.pc = "refused" /\ pass' = Free /\ R' = R /\ quiet' = FALSE /\ pending' = None
        /\ builds' = [builds EXCEPT ![pass.sha].attempts = @ - 1]
        /\ UNCHANGED <<head, pushed, runs, used, made, unseen, hidden, returned, seen, recent,
                       grace, up, moves,
                       faults>>
    BY DEF Refused, At, End, github, Well, R
  <1>2. pending \in Pending /\ pending # None /\ ~grace /\ (pending.run # 0 => pending.tries >= 1)
        /\ (\A r \in R : Bot(r) => r.id <= pending.since)
        /\ \A r \in R : r.sha = pass.sha /\ ~r.listed => builds[pass.sha].attempts >= 2
    BY <1>1 DEF IdleIInv, IdleTypeOK, Passing, SentFormed
  <1>3. /\ builds \in [Shas -> Build] /\ pass.sha \in Shas /\ max_retries \in Nat
        /\ pass.sha \notin unseen \cup returned => made[pass.sha] + 1 <= builds[pass.sha].attempts
        /\ builds[pass.sha].attempts \in 1..(max_retries + 1)
    <2>1. builds \in [Shas -> Build]
      BY DEF IdleIInv, IdleTypeOK, Build
    <2>2. pass.sha \in Shas
      BY DEF IdleIInv, IdleTypeOK, Pass
    <2> QED BY <1>1, <2>1, <2>2, Allowed, IdleAssumption
  <1>4. builds[pass.sha].attempts \in Nat /\ builds[pass.sha].attempts >= 1
        /\ builds[pass.sha].attempts - 1 \in Nat
        /\ \A s \in Shas : builds[s].attempts \in Nat
    BY <1>3 DEF Build
  <1>5. /\ builds' \in [Shas -> Build] /\ \A s \in Shas : s # pass.sha => builds'[s] = builds[s]
        /\ builds'[pass.sha].attempts = builds[pass.sha].attempts - 1
        /\ \A s \in Shas : builds'[s].run = builds[s].run
           /\ builds'[s].terminal = builds[s].terminal
    BY <1>1, <1>3, <1>4 DEF Build
  <1>6. None.run = 0 /\ None.tries = 0 /\ used >= 0 /\ \A r \in R : r.id \in Nat \ {0}
        /\ r.sha \in Shas
    BY RunsTyped DEF None, IdleIInv, IdleTypeOK
  <1> HIDE DEF R
  <1>7. IdleTypeOK'
    BY <1>1, <1>5, FreeIs DEF IdleIInv, IdleTypeOK, Build
  <1>8. RunsFormed' /\ OneRun' /\ Unpushed' /\ AttemptsBounded'
    BY <1>1, <1>5 DEF IdleIInv, Standing, RunsFormed, OneRun, Unpushed, AttemptsBounded, Bot
  <1>9. RequestFormed'
    BY <1>1, <1>5, <1>6 DEF IdleIInv, Standing, RequestFormed, Bot, Equivalent
  <1>10. NoneLost'
    <2> SUFFICES ASSUME NEW q \in R, ~q.listed PROVE Found(q)'
      BY <1>1 DEF NoneLost
    <2>1. ~Tracked(q)
      <3>1. q.id <= pending.since /\ q.id \in Nat /\ pending.since \in Nat
        BY <1>2, <1>6 DEF IdleIInv, Standing, RunsFormed, Pending
      <3>2. ~(q.id > pending.since)
        BY <3>1
      <3>3. pending.run = 0 \/ ~(pending.tries = 0)
        BY <1>2
      <3> QED BY <1>6, <3>2, <3>3 DEF Tracked
    <2>2. Found(q)
      BY <2>1 DEF IdleIInv, Standing, NoneLost
    <2>3. builds'[q.sha].attempts >= 1
      <3>1. CASE q.sha = pass.sha
        BY <1>2, <1>4, <1>5, <3>1
      <3>2. CASE q.sha # pass.sha
        BY <1>5, <1>6, <2>2, <3>2 DEF Found
      <3> QED BY <3>1, <3>2
    <2> QED BY <1>1, <1>5, <1>6, <2>2, <2>3 DEF Found, Equivalent
  <1>11. Counted'
    <2>1. \A s \in Shas : Due(s)' = 0 /\ made[s] \in Nat
      BY <1>1, FreeIs DEF Due, IdleIInv, IdleTypeOK
    <2> SUFFICES ASSUME NEW s \in Shas, s \notin unseen \cup returned
                 PROVE  \/ made[s] <= builds'[s].attempts
                        \/ made[s] = 1 /\ \E r \in R : r.sha = s /\ Bot(r)
      BY <1>1, <2>1 DEF Counted, Bot
    <2>2. CASE s = pass.sha
      BY <1>3, <1>4, <1>5, <2>1, <2>2
    <2>3. CASE s # pass.sha
      <3>1. builds'[s] = builds[s] /\ Due(s) = 0
        BY <1>5, <2>3 DEF Due
      <3> HIDE DEF Due
      <3> QED BY <2>1, <3>1 DEF IdleIInv, Counted
    <2> QED BY <2>2, <2>3
  <1>12. Passing'
    BY <1>1, <1>6, FreeIs DEF Passing, PassFormed, ChosenFormed, Chosen, ReadyFormed, SentFormed
  <1> QED BY <1>7, <1>8, <1>9, <1>10, <1>11, <1>12 DEF IdleIInv, Standing

-----------------------------------------------------------------------------
(* The properties. *)

\* Stuttering.
LEMMA StutterKeeps ==
    ASSUME IdleIInv, UNCHANGED vars
    PROVE IdleIInv'
  <1>1. UNCHANGED <<head, pushed, runs, used, builds, pending, seen, quiet, recent, grace, pass,
                    made,
                    unseen, hidden, returned, up, moves, faults>>
        /\ UNCHANGED R
    BY DEF vars, github, stored, clocks, R
  <1>2. Due(1)' = Due(1) /\ \A s \in Shas : Due(s)' = Due(s)
    BY <1>1 DEF Due
  <1> HIDE DEF R
  <1>3. IdleTypeOK' /\ RunsFormed' /\ RequestFormed' /\ NoneLost' /\ OneRun' /\ Unpushed'
        /\ AttemptsBounded'
    BY <1>1 DEF IdleIInv, Standing, IdleTypeOK, RunsFormed, RequestFormed, NoneLost, OneRun,
       Unpushed, AttemptsBounded,
                Bot, Tracked, Found, Equivalent
  <1>4. Counted'
    <2> HIDE DEF Due
    <2> QED BY <1>1, <1>2 DEF IdleIInv, Counted, Bot
  <1>5. Passing'
    BY <1>1 DEF IdleIInv, Passing, PassFormed, ChosenFormed, Chosen, Untried, ReadyFormed,
       SentFormed, Bot, Equivalent, Decided, Tracked
  <1> QED BY <1>3, <1>4, <1>5 DEF IdleIInv, Standing

\* Every step keeps the invariant.
LEMMA NextKeeps == IdleIInv /\ [Next]_vars => IdleIInv'
  <1> SUFFICES ASSUME IdleIInv, [Next]_vars PROVE IdleIInv'
    OBVIOUS
  <1>1. CASE Push \/ (\E s \in Shas : Rewind(s))
        \/ IdlePasses \/ RetryPasses \/ GracePasses \/ Boot \/ Abort \/ Crash
    BY <1>1, QuietStepsKeep
  <1>2. CASE \E by \in {"people", "cron"} : StartRun(by)
    BY <1>2, StartRunKeeps
  <1>3. ASSUME NEW r \in DOMAIN runs, Cancel(r) \/ Delete(r) \/ Appear(r) \/ Complete(r)
               PROVE IdleIInv'
    BY <1>3, CancelKeeps, DeleteKeeps, AppearKeeps, CompleteKeeps
  <1>4. CASE Start
    BY <1>4, StartKeeps
  <1>5. CASE Reconcile
    BY <1>5, ReconcileKeeps
  <1>6. CASE Read
    BY <1>6, ReadKeeps
  <1>7. CASE Gate
    BY <1>7, GateKeeps
  <1>8. CASE Reserve
    BY <1>8, ReserveKeeps
  <1>9. CASE Send
    BY <1>9, SendKeeps
  <1>10. CASE Answer
    BY <1>10, AnswerKeeps
  <1>11. CASE Refused
    BY <1>11, RefusedKeeps
  <1>12. CASE UNCHANGED vars
    BY <1>12, StutterKeeps
  <1> QED
    BY <1>1, <1>2, <1>3, <1>4, <1>5, <1>6, <1>7, <1>8, <1>9, <1>10, <1>11, <1>12 DEF Next, Steps

\* IdleIInv is an invariant.
LEMMA IdleInvariant == Spec => []IdleIInv
  BY InitHolds, NextKeeps, PTL DEF Spec

\* Type correctness of the scheduler's state, whatever is lost or restarted.
THEOREM TypeCorrect == Spec => []IdleTypeOK
  <1>1. IdleIInv => IdleTypeOK
    BY DEF IdleIInv
  <1> QED BY <1>1, IdleInvariant, PTL

\* The invariant implies what the runs check.
LEMMA Implied == IdleIInv => IdleInv
  <1> SUFFICES ASSUME IdleIInv PROVE IdleInv
    OBVIOUS
  <1>1. IdleTypeOK /\ AttemptsBounded
    BY DEF IdleIInv, Standing
  <1>2. OneAtATime
    BY DEF IdleIInv, Standing, OneRun, OneAtATime, Bot, R
  <1> QED BY <1>1, <1>2 DEF IdleInv

\* A commit gets no more attempts than the task allows, and the scheduler has no two
\* runs of it going (reconcile_pending, reconcile_task, record_attempt): for any number
\* of crashes, lost answers, forced pushes and runs that appear late.
THEOREM FewAndOneAtATime == Spec => []IdleInv
  BY Implied, IdleInvariant, PTL

\* Only a request that lands makes an attempt.
LEMMA OnlyLandsMakes ==
    ASSUME IdleIInv, [Next]_vars, made' # made
    PROVE pass.pc = "send" /\ Lands
  BY DEF vars, github, Next, Steps, Push, Rewind, StartRun, IdlePasses, RetryPasses, GracePasses,
  Elapse,
         Cancel, Delete, Appear,
         Complete, Start, Reconcile, Read, Gate, Reserve, Send, Answer, Refused, Abort, Crash,
         Boot, At

\* A request that lands is for a commit that nothing has decided, or for one the branch
\* was forced back to.
LEMMA LandsAllowed ==
    ASSUME IdleIInv, pass.pc = "send", Lands, NEW s \in Shas, made'[s] # made[s],
           ~(s \in returned /\ s # pass.sha)
    PROVE  /\ builds[s].terminal = "none"
           /\ ~\E r \in R : r.sha = s /\ r.id \in pass.settled /\ Decided(r)
  <1>1. made \in [Shas -> Nat] /\ head \in Shas /\ pass.sha \in Shas
    BY DEF IdleIInv, IdleTypeOK, Pass
  <1>2. /\ builds[pass.sha].terminal = "none"
        /\ \A r \in R : r.id \in pass.settled => r.sha # pass.sha
        /\ head \in returned \cup {pass.sha} \/ Untried(head)
        /\ pass.target # 0 => \A r \in R : r.id = pass.target => r.sha = pass.sha
    BY DEF IdleIInv, Passing, ChosenFormed, Chosen
  <1>3. s = head \/ s = pass.sha
    <2>1. CASE pass.target = 0
      BY <1>1, <2>1 DEF Lands
    <2>2. CASE pass.target # 0
      <3>1. PICK i \in DOMAIN runs : runs[i].id = pass.target
                 /\ made' = [made EXCEPT ![runs[i].sha] = @ + 1]
        BY <2>2 DEF Lands
      <3>2. runs[i] \in R
        BY DEF R, ToSet
      <3> QED BY <1>1, <1>2, <2>2, <3>1, <3>2
    <2> QED BY <2>1, <2>2
  <1> HIDE DEF R
  <1>4. s = pass.sha \/ Untried(s)
    BY <1>2, <1>3
  <1> QED BY <1>2, <1>4 DEF Untried

\* A commit that was built or cancelled is not started again (reconcile_task): neither
\* one that an earlier pass saw decided, nor one that this pass could see decided; only
\* a branch forced back to it while another commit is being requested starts it.
THEOREM DecisionsStay == Spec => DecisionsKept
  <1>1. IdleIInv /\ [Next]_vars => [\A s \in Shas :
            made'[s] # made[s] /\ ~(s \in returned /\ s # pass.sha) =>
                /\ builds[s].terminal = "none"
                /\ ~\E r \in ToSet(runs) : r.sha = s /\ r.id \in pass.settled /\ Decided(r)]_vars
    <2> SUFFICES ASSUME IdleIInv, [Next]_vars, NEW s \in Shas, made'[s] # made[s],
                        ~(s \in returned /\ s # pass.sha)
                 PROVE  /\ builds[s].terminal = "none"
                        /\ ~\E r \in ToSet(runs) : r.sha = s /\ r.id \in pass.settled /\ Decided(r)
      OBVIOUS
    <2>1. pass.pc = "send" /\ Lands
      BY OnlyLandsMakes
    <2> QED BY <2>1, LandsAllowed DEF R
  <1> QED BY <1>1, IdleInvariant, PTL DEF Spec, DecisionsKept

=============================================================================
