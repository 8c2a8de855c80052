-------------------------- MODULE AvailabilityProofs --------------------------
(***************************************************************************)
(* Availability proved for any window, history, page size and limit: its   *)
(* types, and that the seconds reported for a state are those a count      *)
(* second by second gives.                                                 *)
(***************************************************************************)
EXTENDS Availability, FiniteSetTheorems, WellFoundedInduction, TLAPS

InWindow(i) == Start <= history[i].time /\ history[i].time < End

(* Every change inside the window was read.                                *)
Complete == \A i \in DOMAIN history : InWindow(i) => history[i] \in found

(* What was read was recorded, and pages that were read left nothing out,  *)
(* also when the rows moved on meanwhile.                                  *)
ReadInv ==
    /\ \A ch \in found : \E i \in DOMAIN history : history[i] = ch
    /\ stage = "opening" => page = 1
    /\ stage = "reading" =>
        \A i \in DOMAIN history : (InWindow(i) /\ Len(history) - (page - 1) * PAGE < i) => history[i] \in found
    /\ (stage \in {"downtimes", "measuring", "reported"} /\ ~truncated) => Complete

(* The opening state is that of the window's first second, if there is one.*)
OpeningInv ==
    stage \in {"reading", "downtimes"} =>
        IF opening = NoState
        THEN \A i \in DOMAIN history : history[i].time > Start
        ELSE Held(opening, Start)

Counted(s, a, b) == Cardinality({t \in a .. b - 1 : Held(s, t)})

(* The seconds up to the cursor are counted, the state at the cursor known.*)
CountInv ==
    /\ stage \in {"opening", "reading", "downtimes"} => total = [s \in States |-> 0]
    /\ (stage = "measuring" /\ ~truncated /\ Untied) =>
        /\ cursor < End => Held(current, cursor)
        /\ \A s \in States : total[s] = Counted(s, from, cursor)
    /\ (stage = "reported" /\ ~truncated /\ Untied) => \A s \in States : total[s] = Counted(s, from, End)

(* The inductive invariants: of the types, and of what is counted.         *)
TypeInv == ReportTypeOK /\ Ordered(history) /\ (stage \in {"measuring", "reported"} => from <= cursor)
IInv == TypeInv /\ ReadInv /\ OpeningInv /\ CountInv

-----------------------------------------------------------------------------
(* The smallest and the greatest of a set.                                 *)

(* A set of natural numbers has a smallest one.                            *)
LEMMA Least ==
    ASSUME NEW S \in SUBSET Nat, S # {}
    PROVE  \E m \in S : \A n \in S : m <= n
<1>1. \E R : IsWellFoundedOn(R, Nat) /\ \A m, n \in Nat : n < m => <<n, m>> \in R
  <2>1. \A m, n \in Nat : n < m => <<n, m>> \in OpToRel(<, Nat)
    BY DEF OpToRel
  <2> QED
    BY <2>1, NatLessThanWellFounded
<1>2. PICK R : IsWellFoundedOn(R, Nat) /\ \A m, n \in Nat : n < m => <<n, m>> \in R
  BY <1>1
<1>3. \E m \in S : \A n \in S : ~ (<<n, m>> \in R)
  BY <1>2, WFMin
<1>4. \A m, n \in Nat : n < m => <<n, m>> \in R
  BY <1>2
<1>5. PICK m \in S : \A n \in S : ~ (<<n, m>> \in R)
  BY <1>3
<1>6. \A n \in S : ~ (n < m)
  BY <1>4, <1>5
<1>7. \A n \in S : m <= n
  BY <1>6
<1> QED
  BY <1>7

(* The newest of some records is one of them, and none is newer.           *)
LEMMA NewestIsLast ==
    ASSUME NEW n \in Nat, NEW I \in SUBSET (1 .. n), I # {}
    PROVE  Newest(I) \in I /\ \A j \in I : j <= Newest(I)
<1> DEFINE D == {n - i : i \in I}
<1>1. D \in SUBSET Nat /\ D # {}
  <2>1. \A i \in I : i \in Int /\ n - i \in Nat
    OBVIOUS
  <2> QED
    BY <2>1
<1>2. PICK m \in D : \A k \in D : m <= k
  BY <1>1, Least
<1>3. PICK i \in I : m = n - i
  BY <1>2
<1>4. \A j \in I : n - j \in D
  OBVIOUS
<1>5. \A j \in I : j <= i
  BY <1>2, <1>3, <1>4
<1> QED
  BY <1>3, <1>5 DEF Newest

(* The first of some changes is one of them, and none precedes it.         *)
LEMMA FirstIsLeast ==
    ASSUME NEW C \in SUBSET StateChange, C # {}
    PROVE  First(C) \in C /\ \A b \in C : Precedes(First(C), b)
<1> DEFINE T == {a.time : a \in C}
<1>1. T \in SUBSET Nat /\ T # {}
  BY WindowAssumption DEF StateChange
<1>2. PICK t \in T : \A u \in T : t <= u
  BY <1>1, Least
<1> DEFINE S == {a.state : a \in {b \in C : b.time = t}}
<1>3. S \in SUBSET Nat /\ S # {}
  BY <1>2, StatesAssumption DEF StateChange
<1>4. PICK s \in S : \A u \in S : s <= u
  BY <1>3, Least
<1>5. PICK a \in C : a.time = t /\ a.state = s
  BY <1>4
<1>6. ASSUME NEW b \in C PROVE Precedes(a, b)
  <2>1. b.time \in T /\ (b.time = t => b.state \in S)
    OBVIOUS
  <2>2. t <= b.time /\ (b.time = t => s <= b.state)
    BY <1>2, <1>4, <2>1
  <2>3. t \in Nat /\ b.time \in Nat
    BY <1>1, <2>1
  <2> QED
    BY <1>5, <2>2, <2>3 DEF Precedes
<1> QED
  BY <1>5, <1>6 DEF First

-----------------------------------------------------------------------------
(* Sums and merges.  Nothing is said of them by induction: what fails for  *)
(* some subset fails for a smallest one.                                   *)

(* Of the subsets a set of subsets holds, one has none of it right below.  *)
LEMMA SmallestSubset ==
    ASSUME NEW S, IsFiniteSet(S), NEW B \in SUBSET (SUBSET S), B # {}
    PROVE  \E s \in B : \A x \in s : s \ {x} \notin B
<1> DEFINE N == {Cardinality(s) : s \in B}
<1>1. \A s \in B : IsFiniteSet(s) /\ Cardinality(s) \in Nat
  BY FS_Subset, FS_CardinalityType
<1>2. N \in SUBSET Nat /\ N # {}
  BY <1>1
<1>3. PICK m \in N : \A n \in N : m <= n
  BY <1>2, Least
<1>4. PICK s \in B : Cardinality(s) = m
  BY <1>3
<1>5. ASSUME NEW x \in s PROVE s \ {x} \notin B
  <2>1. Cardinality(s \ {x}) = m - 1 /\ m \in Nat
    BY <1>1, <1>4, FS_RemoveElement
  <2> SUFFICES ASSUME s \ {x} \in B PROVE FALSE
    OBVIOUS
  <2>2. Cardinality(s \ {x}) \in N
    OBVIOUS
  <2> QED
    BY <1>3, <2>1, <2>2
<1> QED
  BY <1>5

(* MapThenSumSet adds one element after the other, in the order of Some.   *)
Some(s) == CHOOSE x \in s : TRUE
PartialSums(f, S) ==
    CHOOSE sum : sum = [s \in SUBSET S |-> IF s = {} THEN 0 ELSE f[Some(s)] + sum[s \ {Some(s)}]]

(* It is one of those that are left.                                       *)
LEMMA SomeIsIn == ASSUME NEW s, s # {} PROVE Some(s) \in s
BY DEF Some

(* Such sums exist: those of some size follow from those of one less.      *)
LEMMA SumsExist ==
    ASSUME NEW S, IsFiniteSet(S), NEW f
    PROVE  PartialSums(f, S) =
             [s \in SUBSET S |-> IF s = {} THEN 0 ELSE f[Some(s)] + PartialSums(f, S)[s \ {Some(s)}]]
<1> DEFINE Upto(n) == {s \in SUBSET S : Cardinality(s) <= n}
           Adds(sum, n) == sum = [s \in Upto(n) |-> IF s = {} THEN 0 ELSE f[Some(s)] + sum[s \ {Some(s)}]]
           Bad == {n \in Nat : ~ \E sum : Adds(sum, n)}
<1>1. \A s \in SUBSET S : IsFiniteSet(s) /\ Cardinality(s) \in Nat /\ Cardinality(s) <= Cardinality(S)
  BY FS_Subset, FS_CardinalityType
<1>2. \A s \in SUBSET S : s # {} => Some(s) \in s /\ s \ {Some(s)} \in SUBSET S
                                    /\ Cardinality(s \ {Some(s)}) = Cardinality(s) - 1
  BY <1>1, SomeIsIn, FS_RemoveElement
<1>3. Bad = {}
  <2> SUFFICES ASSUME Bad # {} PROVE FALSE
    OBVIOUS
  <2>1. Bad \in SUBSET Nat
    OBVIOUS
  <2>2. PICK m \in Bad : \A n \in Bad : m <= n
    BY <2>1, Least
  <2>3. ASSUME m = 0 PROVE FALSE
    <3> DEFINE sum == [s \in Upto(0) |-> 0]
    <3>1. \A s \in Upto(0) : s = {}
      BY <1>1, FS_EmptySet
    <3>2. Adds(sum, 0)
      BY <3>1
    <3> QED
      BY <2>2, <2>3, <3>2
  <2>4. ASSUME m # 0 PROVE FALSE
    <3>0. m \in Nat /\ m - 1 \in Nat
      BY <2>2, <2>4
    <3>1. m - 1 \notin Bad
      <4> HIDE DEF Bad
      <4> QED
        BY <2>2, <3>0
    <3>2. PICK g : Adds(g, m - 1)
      BY <3>0, <3>1
    <3> DEFINE sum == [s \in Upto(m) |-> IF s = {} THEN 0 ELSE f[Some(s)] + g[s \ {Some(s)}]]
    <3>3. \A s \in Upto(m - 1) : s \in Upto(m) /\ g[s] = sum[s]
      <4>1. \A s \in Upto(m - 1) : s \in Upto(m)
        BY <1>1, <3>0
      <4>2. \A s \in Upto(m - 1) : g[s] = IF s = {} THEN 0 ELSE f[Some(s)] + g[s \ {Some(s)}]
        BY <3>2
      <4> QED
        BY <4>1, <4>2
    <3>4. ASSUME NEW s \in Upto(m), s # {} PROVE s \ {Some(s)} \in Upto(m - 1)
      <4>1. s \in SUBSET S /\ Cardinality(s) <= m /\ Cardinality(s) \in Nat
        BY <1>1
      <4>2. s \ {Some(s)} \in SUBSET S /\ Cardinality(s \ {Some(s)}) = Cardinality(s) - 1
        BY <1>2, <3>4, <4>1
      <4> QED
        BY <3>0, <4>1, <4>2
    <3>5. \A s \in Upto(m) : s # {} => g[s \ {Some(s)}] = sum[s \ {Some(s)}]
      BY <3>3, <3>4
    <3>6. sum = [s \in Upto(m) |-> IF s = {} THEN 0 ELSE f[Some(s)] + sum[s \ {Some(s)}]]
      BY <3>5
    <3>7. Adds(sum, m)
      BY <3>6
    <3> QED
      BY <2>2, <3>7
  <2> QED
    BY <2>3, <2>4
<1>4. Upto(Cardinality(S)) = SUBSET S
  BY <1>1
<1>5. Cardinality(S) \in Nat
  BY FS_CardinalityType
<1>6. \E sum : Adds(sum, Cardinality(S))
  BY <1>3, <1>5
<1>7. \E sum : sum = [s \in SUBSET S |-> IF s = {} THEN 0 ELSE f[Some(s)] + sum[s \ {Some(s)}]]
  BY <1>4, <1>6
<1> QED
  BY <1>7, Zenon DEF PartialSums

(* One step of such a sum after the other.                                 *)
SumSteps(f, S, sum) ==
    \A s \in SUBSET S :
        /\ s = {} => sum[s] = 0
        /\ s # {} => /\ Some(s) \in s /\ s \ {Some(s)} \in SUBSET S
                     /\ sum[s] = f[Some(s)] + sum[s \ {Some(s)}]

LEMMA SumStep ==
    ASSUME NEW S, IsFiniteSet(S), NEW f
    PROVE  SumSteps(f, S, PartialSums(f, S))
<1> DEFINE sum == PartialSums(f, S)
<1>1. sum = [t \in SUBSET S |-> IF t = {} THEN 0 ELSE f[Some(t)] + sum[t \ {Some(t)}]]
  BY SumsExist
<1>2. \A s \in SUBSET S : sum[s] = IF s = {} THEN 0 ELSE f[Some(s)] + sum[s \ {Some(s)}]
  <2> HIDE DEF sum
  <2> QED
    BY <1>1
<1>3. \A s \in SUBSET S : s # {} => Some(s) \in s
  BY SomeIsIn
<1> HIDE DEF sum
<1> QED
  BY <1>2, <1>3 DEF sum, SumSteps

(* The sizes of disjoint sets add up to the size of their union.           *)
LEMMA SumOfSizes ==
    ASSUME NEW S, IsFiniteSet(S), NEW f, NEW C,
           \A x \in S : IsFiniteSet(C[x]) /\ f[x] = Cardinality(C[x]),
           \A x, y \in S : x # y => C[x] \cap C[y] = {}
    PROVE  PartialSums(f, S)[S] = Cardinality(UNION {C[x] : x \in S})
<1>0. PICK sum : sum = PartialSums(f, S) /\ SumSteps(f, S, sum)
  BY SumStep
<1> DEFINE U(s) == UNION {C[x] : x \in s}
           Bad == {s \in SUBSET S : ~ (IsFiniteSet(U(s)) /\ sum[s] = Cardinality(U(s)))}
<1>1. Bad = {}
  <2> SUFFICES ASSUME Bad # {} PROVE FALSE
    OBVIOUS
  <2>1. Bad \in SUBSET (SUBSET S)
    OBVIOUS
  <2>2. PICK s \in Bad : \A x \in s : s \ {x} \notin Bad
    BY <2>1, SmallestSubset
  <2>3. CASE s = {}
    <3>1. U(s) = {}
      BY <2>3
    <3>2. IsFiniteSet(U(s)) /\ Cardinality(U(s)) = 0
      BY <3>1, FS_EmptySet
    <3>3. sum[s] = 0
      BY <1>0, <2>2, <2>3 DEF SumSteps
    <3> QED
      BY <2>2, <3>2, <3>3
  <2>4. CASE s # {}
    <3> DEFINE x == Some(s)
               r == s \ {x}
    <3>1. x \in s /\ r \in SUBSET S /\ sum[s] = f[x] + sum[r]
      BY <1>0, <2>2, <2>4 DEF SumSteps
    <3>2. IsFiniteSet(U(r)) /\ sum[r] = Cardinality(U(r))
      BY <2>2, <3>1
    <3>3. IsFiniteSet(C[x]) /\ f[x] = Cardinality(C[x])
      BY <2>2, <3>1
    <3>4. U(s) = U(r) \cup C[x]
      BY <3>1
    <3>5. U(r) \cap C[x] = {}
      BY <2>2, <3>1
    <3>6. Cardinality(U(r)) \in Nat /\ Cardinality(C[x]) \in Nat
      BY <3>2, <3>3, FS_CardinalityType
    <3> HIDE DEF U, x, r
    <3>7. IsFiniteSet(U(r) \cup C[x])
          /\ Cardinality(U(r) \cup C[x]) = Cardinality(U(r)) + Cardinality(C[x]) - Cardinality(U(r) \cap C[x])
      BY <3>2, <3>3, FS_Union
    <3>8. Cardinality(U(r) \cap C[x]) = 0
      BY <3>5, FS_EmptySet
    <3>9. sum[s] = Cardinality(U(s)) /\ IsFiniteSet(U(s))
      BY <3>1, <3>2, <3>3, <3>4, <3>6, <3>7, <3>8
    <3> QED
      BY <2>2, <3>9
  <2> QED
    BY <2>3, <2>4
<1>2. S \in SUBSET S /\ S \notin Bad
  BY <1>1
<1> QED
  BY <1>0, <1>2

(* Numbers have a sum ...                                                  *)
LEMMA SumType ==
    ASSUME NEW S, IsFiniteSet(S), NEW f, \A x \in S : f[x] \in Nat
    PROVE  \A s \in SUBSET S : PartialSums(f, S)[s] \in Nat
<1>0. PICK sum : sum = PartialSums(f, S) /\ SumSteps(f, S, sum)
  BY SumStep
<1> DEFINE Bad == {s \in SUBSET S : sum[s] \notin Nat}
<1>1. Bad = {}
  <2> SUFFICES ASSUME Bad # {} PROVE FALSE
    OBVIOUS
  <2>1. Bad \in SUBSET (SUBSET S)
    OBVIOUS
  <2>2. PICK s \in Bad : \A x \in s : s \ {x} \notin Bad
    BY <2>1, SmallestSubset
  <2>3. s # {}
    <3>1. s \in SUBSET S /\ sum[s] \notin Nat
      BY <2>2
    <3>2. s = {} => sum[s] = 0
      BY <1>0, <3>1 DEF SumSteps
    <3> QED
      BY <3>1, <3>2
  <2>4. Some(s) \in s /\ s \ {Some(s)} \in SUBSET S /\ sum[s] = f[Some(s)] + sum[s \ {Some(s)}]
    BY <1>0, <2>2, <2>3 DEF SumSteps
  <2>5. sum[s \ {Some(s)}] \in Nat /\ f[Some(s)] \in Nat
    BY <2>2, <2>4
  <2> QED
    BY <2>2, <2>4, <2>5
<1> QED
  BY <1>0, <1>1

(* ... that grows by as much as one of them does.                          *)
LEMMA SumOfMore ==
    ASSUME NEW S, IsFiniteSet(S), NEW f, \A x \in S : f[x] \in Nat,
           NEW g, NEW c \in S, NEW k \in Int, g[c] = f[c] + k, \A x \in S \ {c} : g[x] = f[x]
    PROVE  PartialSums(g, S)[S] = PartialSums(f, S)[S] + k
<1>a. PICK old : old = PartialSums(f, S) /\ SumSteps(f, S, old)
  BY SumStep
<1>b. PICK new : new = PartialSums(g, S) /\ SumSteps(g, S, new)
  BY SumStep
<1> DEFINE Bad == {s \in SUBSET S : ~ (new[s] = old[s] + (IF c \in s THEN k ELSE 0))}
<1>0. \A s \in SUBSET S : old[s] \in Nat
  BY <1>a, SumType
<1>1. Bad = {}
  <2> SUFFICES ASSUME Bad # {} PROVE FALSE
    OBVIOUS
  <2>1. Bad \in SUBSET (SUBSET S)
    OBVIOUS
  <2>2. PICK s \in Bad : \A x \in s : s \ {x} \notin Bad
    BY <2>1, SmallestSubset
  <2>3. CASE s = {}
    <3>1. new[s] = 0 /\ old[s] = 0
      BY <1>a, <1>b, <2>2, <2>3 DEF SumSteps
    <3> QED
      BY <2>2, <2>3, <3>1
  <2>4. CASE s # {}
    <3> DEFINE x == Some(s)
               r == s \ {x}
    <3>1. x \in s /\ r \in SUBSET S /\ old[s] = f[x] + old[r]
      BY <1>a, <2>2, <2>4 DEF SumSteps
    <3>2. new[s] = g[x] + new[r]
      BY <1>b, <2>2, <2>4 DEF SumSteps
    <3>3. new[r] = old[r] + (IF c \in r THEN k ELSE 0)
      BY <2>2, <3>1
    <3>4. old[r] \in Nat /\ f[x] \in Nat
      BY <1>0, <2>2, <3>1
    <3>5. CASE x = c
      <4>1. g[x] = f[x] + k /\ c \notin r /\ c \in s
        BY <3>1, <3>5
      <4> HIDE DEF x, r
      <4>2. new[s] = old[s] + k
        BY <3>1, <3>2, <3>3, <3>4, <4>1
      <4> QED
        BY <2>2, <4>1, <4>2
    <3>6. CASE x # c
      <4>1. g[x] = f[x] /\ (c \in r <=> c \in s)
        BY <2>2, <3>1, <3>6
      <4> HIDE DEF x, r
      <4>2. new[s] = old[s] + (IF c \in s THEN k ELSE 0)
        BY <3>1, <3>2, <3>3, <3>4, <4>1
      <4> QED
        BY <2>2, <4>2
    <3> QED
      BY <3>5, <3>6
  <2> QED
    BY <2>3, <2>4
<1>2. S \in SUBSET S /\ S \notin Bad
  BY <1>1
<1> QED
  BY <1>a, <1>b, <1>2

(* Nothings add up to nothing.                                             *)
LEMMA SumOfZeros ==
    ASSUME NEW S, IsFiniteSet(S), NEW f, \A x \in S : f[x] = 0
    PROVE  PartialSums(f, S)[S] = 0
<1>0. PICK sum : sum = PartialSums(f, S) /\ SumSteps(f, S, sum)
  BY SumStep
<1> DEFINE Bad == {s \in SUBSET S : sum[s] # 0}
<1>1. Bad = {}
  <2> SUFFICES ASSUME Bad # {} PROVE FALSE
    OBVIOUS
  <2>1. Bad \in SUBSET (SUBSET S)
    OBVIOUS
  <2>2. PICK s \in Bad : \A x \in s : s \ {x} \notin Bad
    BY <2>1, SmallestSubset
  <2>3. s # {} /\ Some(s) \in s /\ s \ {Some(s)} \in SUBSET S /\ sum[s] = f[Some(s)] + sum[s \ {Some(s)}]
    BY <1>0, <2>2 DEF SumSteps
  <2>4. sum[s \ {Some(s)}] = 0 /\ f[Some(s)] = 0
    BY <2>2, <2>3
  <2> QED
    BY <2>2, <2>3, <2>4
<1>2. S \in SUBSET S /\ S \notin Bad
  BY <1>1
<1> QED
  BY <1>0, <1>2

-----------------------------------------------------------------------------
(* The merged periods.                                                     *)

(* A stretch of time, and the seconds of it.                               *)
Stretch == [begin : Nat, end : Nat]
Lasts(w, t) == w.begin <= t /\ t < w.end

(* The last of some periods is one of them, and none comes after it.       *)
Latest(s) == CHOOSE w \in s : \A v \in s : InOrder(v, w)

LEMMA LatestIsLast ==
    ASSUME NEW S \in SUBSET Stretch, IsFiniteSet(S), S # {}
    PROVE  Latest(S) \in S /\ \A v \in S : InOrder(v, Latest(S))
<1> DEFINE Bad == {s \in SUBSET S : s # {} /\ ~ \E w \in s : \A v \in s : InOrder(v, w)}
<1>a. \A v \in Stretch : InOrder(v, v)
  BY DEF Stretch, InOrder
<1>b. \A v, w \in Stretch : InOrder(v, w) \/ InOrder(w, v)
  BY DEF Stretch, InOrder
<1>c. \A u, v, w \in Stretch : (InOrder(u, v) /\ InOrder(v, w)) => InOrder(u, w)
  BY DEF Stretch, InOrder
<1>1. Bad = {}
  <2> SUFFICES ASSUME Bad # {} PROVE FALSE
    OBVIOUS
  <2>1. Bad \in SUBSET (SUBSET S)
    OBVIOUS
  <2>2. PICK s \in Bad : \A x \in s : s \ {x} \notin Bad
    BY <2>1, SmallestSubset
  <2>3. PICK x : x \in s
    BY <2>2
  <2>4. CASE s \ {x} = {}
    <3>1. \A v \in s : v = x
      BY <2>3, <2>4
    <3>2. x \in Stretch
      BY <2>2, <2>3
    <3>3. \A v \in s : InOrder(v, x)
      BY <1>a, <3>1, <3>2
    <3> QED
      BY <2>2, <2>3, <3>3
  <2>5. CASE s \ {x} # {}
    <3>1. PICK m \in s \ {x} : \A v \in s \ {x} : InOrder(v, m)
      BY <2>2, <2>3, <2>5
    <3>2. x \in Stretch /\ m \in Stretch /\ \A v \in s : v \in Stretch
      BY <2>2, <2>3, <3>1
    <3>3. CASE InOrder(x, m)
      <4>1. m \in s /\ \A v \in s : InOrder(v, m)
        BY <3>1, <3>3
      <4> QED
        BY <2>2, <4>1
    <3>4. CASE InOrder(m, x)
      <4>1. \A v \in s : InOrder(v, x)
        <5> SUFFICES ASSUME NEW v \in s, v # x PROVE InOrder(v, x)
          BY <1>a, <3>2
        <5>1. InOrder(v, m) /\ v \in Stretch
          BY <3>1, <3>2
        <5> QED
          BY <1>c, <3>2, <3>4, <5>1
      <4> QED
        BY <2>2, <2>3, <4>1
    <3> QED
      BY <1>b, <3>2, <3>3, <3>4
  <2> QED
    BY <2>4, <2>5
<1>2. S \in SUBSET S /\ S \notin Bad
  BY <1>1
<1>3. \E w \in S : \A v \in S : InOrder(v, w)
  BY <1>2
<1> QED
  BY <1>3 DEF Latest

(* merge joins one after the other, the latest of those left last.         *)
PartialMerges(S) ==
    CHOOSE m : m = [s \in SUBSET S |-> IF s = {} THEN <<>> ELSE Join(Latest(s), m[s \ {Latest(s)}])]

(* Such merges exist.                                                      *)
LEMMA MergesExist ==
    ASSUME NEW S \in SUBSET Stretch, IsFiniteSet(S)
    PROVE  PartialMerges(S) =
             [s \in SUBSET S |-> IF s = {} THEN <<>> ELSE Join(Latest(s), PartialMerges(S)[s \ {Latest(s)}])]
<1> DEFINE Upto(n) == {s \in SUBSET S : Cardinality(s) <= n}
           Joins(m, n) == m = [s \in Upto(n) |-> IF s = {} THEN <<>> ELSE Join(Latest(s), m[s \ {Latest(s)}])]
           Bad == {n \in Nat : ~ \E m : Joins(m, n)}
<1>1. \A s \in SUBSET S : IsFiniteSet(s) /\ Cardinality(s) \in Nat /\ Cardinality(s) <= Cardinality(S)
  BY FS_Subset, FS_CardinalityType
<1>2. \A s \in SUBSET S : s # {} => Latest(s) \in s /\ s \ {Latest(s)} \in SUBSET S
                                    /\ Cardinality(s \ {Latest(s)}) = Cardinality(s) - 1
  <2>1. \A s \in SUBSET S : s # {} => Latest(s) \in s
    BY <1>1, LatestIsLast
  <2> QED
    BY <1>1, <2>1, FS_RemoveElement
<1>3. Bad = {}
  <2> SUFFICES ASSUME Bad # {} PROVE FALSE
    OBVIOUS
  <2>1. Bad \in SUBSET Nat
    OBVIOUS
  <2>2. PICK n \in Bad : \A k \in Bad : n <= k
    BY <2>1, Least
  <2>3. ASSUME n = 0 PROVE FALSE
    <3> DEFINE m == [s \in Upto(0) |-> <<>>]
    <3>1. \A s \in Upto(0) : s = {}
      BY <1>1, FS_EmptySet
    <3>2. Joins(m, 0)
      BY <3>1
    <3> QED
      BY <2>2, <2>3, <3>2
  <2>4. ASSUME n # 0 PROVE FALSE
    <3>0. n \in Nat /\ n - 1 \in Nat
      BY <2>2, <2>4
    <3>1. n - 1 \notin Bad
      <4> HIDE DEF Bad
      <4> QED
        BY <2>2, <3>0
    <3>2. PICK g : Joins(g, n - 1)
      BY <3>0, <3>1
    <3> DEFINE m == [s \in Upto(n) |-> IF s = {} THEN <<>> ELSE Join(Latest(s), g[s \ {Latest(s)}])]
    <3>3. \A s \in Upto(n - 1) : s \in Upto(n) /\ g[s] = m[s]
      <4>1. \A s \in Upto(n - 1) : s \in Upto(n)
        BY <1>1, <3>0
      <4>2. \A s \in Upto(n - 1) : g[s] = IF s = {} THEN <<>> ELSE Join(Latest(s), g[s \ {Latest(s)}])
        BY <3>2
      <4> QED
        BY <4>1, <4>2
    <3>4. ASSUME NEW s \in Upto(n), s # {} PROVE s \ {Latest(s)} \in Upto(n - 1)
      <4>1. s \in SUBSET S /\ Cardinality(s) <= n /\ Cardinality(s) \in Nat
        BY <1>1
      <4>2. s \ {Latest(s)} \in SUBSET S /\ Cardinality(s \ {Latest(s)}) = Cardinality(s) - 1
        BY <1>2, <3>4, <4>1
      <4> QED
        BY <3>0, <4>1, <4>2
    <3>5. \A s \in Upto(n) : s # {} => g[s \ {Latest(s)}] = m[s \ {Latest(s)}]
      BY <3>3, <3>4
    <3>6. m = [s \in Upto(n) |-> IF s = {} THEN <<>> ELSE Join(Latest(s), m[s \ {Latest(s)}])]
      BY <3>5
    <3>7. Joins(m, n)
      BY <3>6
    <3> QED
      BY <2>2, <3>7
  <2> QED
    BY <2>3, <2>4
<1>4. Upto(Cardinality(S)) = SUBSET S
  BY <1>1
<1>5. Cardinality(S) \in Nat
  BY FS_CardinalityType
<1>6. \E m : Joins(m, Cardinality(S))
  BY <1>3, <1>5
<1>7. \E m : m = [s \in SUBSET S |-> IF s = {} THEN <<>> ELSE Join(Latest(s), m[s \ {Latest(s)}])]
  BY <1>4, <1>6
<1> QED
  BY <1>7, Zenon DEF PartialMerges

(* What is merged are periods that lie apart, in order, begin where one of *)
(* those they were merged from does, and last the seconds these last.      *)
Apart(m) == \A i, j \in DOMAIN m : i < j => m[i].end < m[j].begin
Merged(m, s) ==
    /\ m \in Seq(Stretch) /\ Apart(m)
    /\ \A i \in DOMAIN m : m[i].begin < m[i].end /\ \E v \in s : v.begin = m[i].begin
    /\ \A t \in Int : (\E i \in DOMAIN m : Lasts(m[i], t)) <=> \E v \in s : Lasts(v, t)

(* Joining a period that begins after all those merged keeps this.         *)
LEMMA JoinMerges ==
    ASSUME NEW s \in SUBSET Stretch, NEW m, Merged(m, s), NEW w \in Stretch, w.begin < w.end,
           \A v \in s : v.begin <= w.begin
    PROVE  Merged(Join(w, m), s \cup {w})
<1> DEFINE n == Len(m)
<1>1. /\ n \in Nat /\ DOMAIN m = 1 .. n /\ w.begin \in Nat /\ w.end \in Nat
      /\ \A i \in DOMAIN m : m[i] \in Stretch /\ m[i].begin \in Nat /\ m[i].end \in Nat
      /\ m \in Seq(Stretch)
  <2>1. m \in Seq(Stretch)
    BY DEF Merged
  <2>2. n \in Nat /\ DOMAIN m = 1 .. n /\ \A i \in DOMAIN m : m[i] \in Stretch
    BY <2>1
  <2>3. \A v \in Stretch : v.begin \in Nat /\ v.end \in Nat
    BY DEF Stretch
  <2> HIDE DEF n
  <2> QED
    BY <2>1, <2>2, <2>3
<1>2. \A i \in DOMAIN m : m[i].begin <= w.begin
  BY DEF Merged
<1>3. CASE n > 0 /\ w.begin <= m[n].end
  <2>0. n \in DOMAIN m
    BY <1>1, <1>3
  <2> DEFINE e == LargerOf(m[n].end, w.end)
             j == Join(w, m)
  <2>1. e \in Nat /\ m[n].end <= e /\ w.end <= e /\ (e = m[n].end \/ e = w.end)
    BY <1>1, <2>0 DEF LargerOf
  <2>2. j = [m EXCEPT ![n].end = e]
    BY <1>3 DEF Join
  <2>3. j \in Seq(Stretch) /\ DOMAIN j = DOMAIN m /\ (\A i \in DOMAIN m : i # n => j[i] = m[i])
        /\ j[n].begin = m[n].begin /\ j[n].end = e
    BY <1>1, <2>0, <2>1, <2>2 DEF Stretch
  <2> HIDE DEF e, j
  <2>4. Apart(j)
    <3> SUFFICES ASSUME NEW i \in DOMAIN m, NEW k \in DOMAIN m, i < k PROVE j[i].end < j[k].begin
      BY <2>3 DEF Apart
    <3>1. i # n
      BY <1>1
    <3>2. m[i].end < m[k].begin
      BY DEF Merged, Apart
    <3> QED
      BY <2>3, <3>1, <3>2
  <2>5. ASSUME NEW i \in DOMAIN m PROVE j[i].begin < j[i].end /\ \E v \in s \cup {w} : v.begin = j[i].begin
    <3>1. j[i].begin = m[i].begin
      BY <2>3
    <3>2. m[i].begin < m[i].end /\ \E v \in s : v.begin = m[i].begin
      BY DEF Merged
    <3>3. m[i].end <= j[i].end
      BY <1>1, <2>1, <2>3
    <3>4. m[i].begin \in Nat /\ m[i].end \in Nat /\ j[i].end \in Nat
      BY <1>1, <2>1, <2>3
    <3> QED
      BY <3>1, <3>2, <3>3, <3>4
  <2>6. ASSUME NEW t \in Int PROVE (\E i \in DOMAIN m : Lasts(j[i], t)) <=> \E v \in s \cup {w} : Lasts(v, t)
    <3>1. Lasts(j[n], t) <=> Lasts(m[n], t) \/ Lasts(w, t)
      BY <1>1, <1>2, <1>3, <2>0, <2>1, <2>3 DEF Lasts
    <3>2. (\E i \in DOMAIN m : Lasts(m[i], t)) <=> \E v \in s : Lasts(v, t)
      BY DEF Merged
    <3>3. \A i \in DOMAIN m : i # n => j[i] = m[i]
      BY <2>3
    <3>4. (\E i \in DOMAIN m : Lasts(j[i], t)) <=> (\E i \in DOMAIN m : Lasts(m[i], t)) \/ Lasts(w, t)
      BY <2>0, <3>1, <3>3
    <3> QED
      BY <3>2, <3>4
  <2> QED
    BY <2>3, <2>4, <2>5, <2>6 DEF Merged, j
<1>4. CASE ~ (n > 0 /\ w.begin <= m[n].end)
  <2> DEFINE j == Join(w, m)
  <2>1. j = Append(m, w)
    BY <1>4 DEF Join
  <2>2. j \in Seq(Stretch) /\ DOMAIN j = DOMAIN m \cup {n + 1} /\ n + 1 \notin DOMAIN m
        /\ (\A i \in DOMAIN m : j[i] = m[i]) /\ j[n + 1] = w
    BY <1>1, <2>1
  <2> HIDE DEF j
  <2>3. ASSUME NEW i \in DOMAIN m PROVE m[i].end < w.begin
    <3>1. n \in DOMAIN m /\ m[n].end < w.begin
      BY <1>1, <1>4
    <3>2. CASE i = n
      BY <3>1, <3>2
    <3>3. CASE i # n
      <4>1. i < n
        BY <1>1, <3>3
      <4>2. m[i].end < m[n].begin /\ m[n].begin < m[n].end
        BY <3>1, <4>1 DEF Merged, Apart
      <4> QED
        BY <1>1, <3>1, <4>2
    <3> QED
      BY <3>2, <3>3
  <2>4. Apart(j)
    <3> SUFFICES ASSUME NEW i \in DOMAIN j, NEW k \in DOMAIN j, i < k PROVE j[i].end < j[k].begin
      BY DEF Apart
    <3>1. i \in DOMAIN m
      BY <1>1, <2>2
    <3>2. CASE k = n + 1
      BY <2>2, <2>3, <3>1, <3>2
    <3>3. CASE k # n + 1
      <4>1. k \in DOMAIN m
        BY <2>2, <3>3
      <4> QED
        BY <2>2, <3>1, <4>1 DEF Merged, Apart
    <3> QED
      BY <3>2, <3>3
  <2>5. ASSUME NEW i \in DOMAIN j PROVE j[i].begin < j[i].end /\ \E v \in s \cup {w} : v.begin = j[i].begin
    BY <2>2 DEF Merged
  <2>6. ASSUME NEW t \in Int PROVE (\E i \in DOMAIN j : Lasts(j[i], t)) <=> \E v \in s \cup {w} : Lasts(v, t)
    <3>1. (\E i \in DOMAIN m : Lasts(m[i], t)) <=> \E v \in s : Lasts(v, t)
      BY DEF Merged
    <3> QED
      BY <2>2, <3>1
  <2> QED
    BY <2>2, <2>4, <2>5, <2>6 DEF Merged, j
<1> QED
  BY <1>3, <1>4

(* merge keeps the seconds of all periods, and leaves none that overlap.   *)
LEMMA MergeMerges ==
    ASSUME NEW W \in SUBSET Stretch, IsFiniteSet(W)
    PROVE  Merged(Merge(W), {w \in W : w.end > w.begin})
<1> DEFINE S == {w \in W : w.end > w.begin}
<1>1. S \in SUBSET Stretch /\ IsFiniteSet(S) /\ \A w \in S : w.begin < w.end
  <2>1. S \in SUBSET Stretch /\ IsFiniteSet(S)
    BY FS_Subset
  <2>2. \A w \in S : w.begin \in Nat /\ w.end \in Nat
    BY DEF Stretch
  <2> QED
    BY <2>1, <2>2
<1>2. Merge(W) = PartialMerges(S)[S]
  BY DEF Merge, MapThenFoldSet, PartialMerges, Latest
<1> DEFINE m == PartialMerges(S)
<1>3. m = [s \in SUBSET S |-> IF s = {} THEN <<>> ELSE Join(Latest(s), m[s \ {Latest(s)}])]
  BY <1>1, MergesExist
<1> HIDE DEF m, S
<1>4. \A s \in SUBSET S : m[s] = IF s = {} THEN <<>> ELSE Join(Latest(s), m[s \ {Latest(s)}])
  BY <1>3
<1> DEFINE Bad == {s \in SUBSET S : ~ Merged(m[s], s)}
<1>5. Bad = {}
  <2> SUFFICES ASSUME Bad # {} PROVE FALSE
    OBVIOUS
  <2>1. Bad \in SUBSET (SUBSET S)
    OBVIOUS
  <2>2. PICK s \in Bad : \A x \in s : s \ {x} \notin Bad
    BY <1>1, <2>1, SmallestSubset
  <2>3. CASE s = {}
    <3>1. m[s] = <<>>
      BY <1>4, <2>2, <2>3
    <3>2. Merged(<<>>, s)
      BY <2>3 DEF Merged, Apart
    <3> QED
      BY <2>2, <3>1, <3>2
  <2>4. CASE s # {}
    <3> DEFINE w == Latest(s)
               r == s \ {w}
    <3>1. s \in SUBSET Stretch /\ IsFiniteSet(s)
      BY <1>1, <2>2, FS_Subset
    <3>2. w \in s /\ \A v \in s : InOrder(v, w)
      BY <2>4, <3>1, LatestIsLast
    <3>3. m[s] = Join(w, m[r]) /\ Merged(m[r], r)
      BY <1>4, <2>2, <2>4, <3>2
    <3>4. w \in Stretch /\ w.begin < w.end /\ r \in SUBSET Stretch /\ r \cup {w} = s
      BY <1>1, <2>2, <3>1, <3>2
    <3>5. \A v \in r : v.begin <= w.begin
      <4>1. \A v \in r : InOrder(v, w) /\ v \in Stretch
        BY <3>2, <3>4
      <4> HIDE DEF w, r
      <4> QED
        BY <3>4, <4>1 DEF InOrder, Stretch
    <3> HIDE DEF w, r
    <3>6. Merged(Join(w, m[r]), r \cup {w})
      BY <3>3, <3>4, <3>5, JoinMerges
    <3> QED
      BY <2>2, <3>3, <3>4, <3>6
  <2> QED
    BY <2>3, <2>4
<1>6. Merged(m[S], S)
  BY <1>5
<1> QED
  BY <1>2, <1>6 DEF m, S

-----------------------------------------------------------------------------
(* Types.                                                                  *)

(* The seconds between two times of the window are a number.               *)
LEMMA SecondsType ==
    ASSUME NEW a \in Start .. End, NEW b \in Start .. End, a < b
    PROVE  Seconds(a, b) \in Nat
BY WindowAssumption DEF Seconds

(* A page is a finite set of places in the history.                        *)
LEMMA PageType ==
    ASSUME ReportTypeOK, NEW p
    PROVE  PageRows(p) \subseteq 1 .. Len(history) /\ IsFiniteSet(PageRows(p)) /\ Cardinality(PageRows(p)) \in Nat
<1>1. Len(history) \in Nat /\ DOMAIN history = 1 .. Len(history)
  BY DEF ReportTypeOK
<1>2. PageRows(p) \in SUBSET (1 .. Len(history)) /\ IsFiniteSet(1 .. Len(history))
  BY <1>1, FS_Interval DEF PageRows
<1> QED
  BY <1>2, FS_Subset, FS_CardinalityType

(* A recorded change is a change.                                          *)
LEMMA HistoryType ==
    ASSUME ReportTypeOK
    PROVE  /\ Len(history) \in Nat /\ DOMAIN history = 1 .. Len(history)
           /\ \A i \in DOMAIN history :
                /\ history[i] \in StateChange /\ history[i].time \in Nat /\ history[i].time <= End
                /\ history[i].state \in States
<1>1. Len(history) \in Nat /\ DOMAIN history = 1 .. Len(history) /\ \A i \in DOMAIN history : history[i] \in StateChange
  BY DEF ReportTypeOK
<1>2. \A ch \in StateChange : ch.time \in Nat /\ ch.time <= End /\ ch.state \in States
  BY WindowAssumption DEF StateChange
<1> QED
  BY <1>1, <1>2

(* A change recorded at the end of the window comes after all others.      *)
LEMMA RecordExtends ==
    ASSUME ReportTypeOK, NEW s \in States, Record(s)
    PROVE  /\ Len(history') = Len(history) + 1
           /\ DOMAIN history' = DOMAIN history \cup {Len(history) + 1}
           /\ \A i \in DOMAIN history : history'[i] = history[i] /\ i < Len(history) + 1
           /\ history'[Len(history) + 1] = [time |-> End, state |-> s]
           /\ history' \in Seq(StateChange)
<1>1. [time |-> End, state |-> s] \in StateChange
  BY WindowAssumption DEF StateChange
<1> QED
  BY <1>1 DEF Record, ReportTypeOK

(* The periods are finitely many.                                          *)
LEMMA PeriodsType ==
    ASSUME ReportTypeOK
    PROVE  Periods \in SUBSET Stretch /\ IsFiniteSet(Periods)
<1> DEFINE R == {e \in rows : Ran(e)}
<1>1. R \in SUBSET Downtimes /\ IsFiniteSet(R)
  BY DowntimesAssumption, FS_Subset DEF ReportTypeOK
<1>2. \A d \in R : Period(d) \in Stretch
  <2> SUFFICES ASSUME NEW d \in R PROVE Period(d) \in Stretch
    OBVIOUS
  <2>1. d.begin \in Nat /\ d.scheduled \in Nat /\ d.actual \in Nat
    BY <1>1, DowntimesAssumption
  <2> QED
    BY <2>1 DEF Period, Stretch
<1> HIDE DEF R
<1>3. IsFiniteSet({Period(d) : d \in R})
  <2> DEFINE T == {Period(d) : d \in R}
             f == [d \in R |-> Period(d)]
  <2>1. f \in Surjection(R, T)
    BY DEF Surjection
  <2> HIDE DEF f, T
  <2>2. IsFiniteSet(T)
    BY <1>1, <2>1, FS_Surjection
  <2> QED
    BY <2>2 DEF T
<1> QED
  BY <1>2, <1>3 DEF Periods, R

(* The planned seconds of a span are a sum of numbers.                     *)
InDowntime(a, b) ==
    LET merged == Merge(Periods)
    IN  MapThenSumSet(LAMBDA i : Overlap(a, b, merged[i]), DOMAIN merged)

LEMMA PlannedIsSum ==
    ASSUME ReportTypeOK, NEW a, NEW b
    PROVE  LET m == Merge(Periods)
               f == [i \in DOMAIN m |-> Overlap(a, b, m[i])]
           IN  /\ m \in Seq(Stretch) /\ IsFiniteSet(DOMAIN m)
               /\ InDowntime(a, b) = PartialSums(f, DOMAIN m)[DOMAIN m]
<1> DEFINE m == Merge(Periods)
           f == [i \in DOMAIN m |-> Overlap(a, b, m[i])]
<1>1. m \in Seq(Stretch)
  BY PeriodsType, MergeMerges DEF Merged
<1>2. IsFiniteSet(DOMAIN m)
  <2> HIDE DEF m
  <2>1. Len(m) \in Nat /\ DOMAIN m = 1 .. Len(m)
    BY <1>1
  <2> QED
    BY <2>1, FS_Interval
<1>3. InDowntime(a, b) = PartialSums(f, DOMAIN m)[DOMAIN m]
  BY DEF InDowntime, MapThenSumSet, MapThenFoldSet, PartialSums, Some
<1> HIDE DEF m, f
<1> QED
  BY <1>1, <1>2, <1>3 DEF m, f

LEMMA InDowntimeType ==
    ASSUME ReportTypeOK, NEW a \in Int, NEW b \in Int
    PROVE  InDowntime(a, b) \in Nat
<1> DEFINE m == Merge(Periods)
           f == [i \in DOMAIN m |-> Overlap(a, b, m[i])]
<1>1. m \in Seq(Stretch) /\ IsFiniteSet(DOMAIN m) /\ InDowntime(a, b) = PartialSums(f, DOMAIN m)[DOMAIN m]
  BY PlannedIsSum
<1> HIDE DEF m
<1>2. \A i \in DOMAIN m : m[i] \in Stretch
  BY <1>1
<1>3. \A w \in Stretch : Overlap(a, b, w) \in Nat
  BY WindowAssumption DEF Stretch, Overlap, LargerOf, SmallerOf, Seconds
<1>4. \A i \in DOMAIN m : f[i] \in Nat
  BY <1>2, <1>3
<1> HIDE DEF f
<1> QED
  BY <1>1, <1>4, SumType

(* A number added to one of some.                                          *)
LEMMA Added ==
    ASSUME NEW f \in [States -> Nat], NEW c \in States, NEW k \in Nat
    PROVE  [f EXCEPT ![c] = @ + k] \in [States -> Nat]
OBVIOUS

(* The types hold at the start ...                                         *)
LEMMA TypeInit == ReportInit => TypeInv
<1> SUFFICES ASSUME ReportInit PROVE TypeInv
  OBVIOUS
<1>1. history \in Seq(StateChange) /\ Ordered(history)
  BY DEF ReportInit
<1>2. [s \in States |-> 0] \in [States -> Nat]
  OBVIOUS
<1>3. /\ stage = "opening" /\ opening = NoState /\ page = 1 /\ read = 0 /\ truncated = FALSE
      /\ found = {} /\ matched = {} /\ rows = {} /\ from = Start /\ cursor = Start /\ current = NoState
      /\ total \in [States -> Nat] /\ planned \in [States -> Nat]
  BY <1>2 DEF ReportInit
<1>4. Start \in Start .. End
  BY WindowAssumption
<1>5. ReportTypeOK
  <2>0. page = 1 /\ read = 0
    BY <1>3
  <2>1. page \in Nat \ {0} /\ read \in Nat
    BY <2>0
  <2>4. truncated \in BOOLEAN /\ stage \in Stages
    BY <1>3 DEF Stages
  <2>2. {from, cursor} \subseteq Start .. End /\ opening \in States \cup {NoState}
    BY <1>3, <1>4
  <2>3. current \in States \cup (IF stage \in {"measuring", "reported"} THEN {} ELSE {NoState})
    BY <1>3
  <2> QED
    BY <1>1, <1>3, <2>1, <2>2, <2>3, <2>4 DEF ReportTypeOK
<1> QED
  BY <1>1, <1>3, <1>5 DEF TypeInv

(* ... and every step keeps them.                                          *)
LEMMA TypeNext == TypeInv /\ [ReportNext]_reportVars => TypeInv'
<1> SUFFICES ASSUME TypeInv, [ReportNext]_reportVars PROVE TypeInv'
  OBVIOUS
<1> USE DEF Stages
<1>0. ReportTypeOK /\ Ordered(history) /\ (stage \in {"measuring", "reported"} => from <= cursor)
  BY DEF TypeInv
<1>1. CASE UNCHANGED reportVars
  BY <1>0, <1>1 DEF reportVars, TypeInv, ReportTypeOK, Ordered
<1>2. CASE ReadOpening
  <2>1. opening' \in States \cup {NoState}
    <3>1. CASE Before(Start) = {}
      BY <1>2, <3>1 DEF ReadOpening
    <3>2. CASE Before(Start) # {}
      <4>1. Newest(Before(Start)) \in DOMAIN history
        BY <1>0, <3>2, HistoryType, NewestIsLast DEF Before
      <4> QED
        BY <1>0, <1>2, <3>2, <4>1, HistoryType DEF ReadOpening
    <3> QED
      BY <3>1, <3>2
  <2> QED
    BY <1>0, <1>2, <2>1 DEF ReadOpening, answered, measuring, TypeInv, ReportTypeOK, Ordered
<1>3. CASE ReadPage
  <2>1. Cardinality(PageRows(page)) \in Nat
        /\ \A i \in PageRows(page) : history[i] \in {ch \in StateChange : ch.time >= Start}
    BY <1>0, PageType, HistoryType DEF PageRows
  <2>2. found' \subseteq {ch \in StateChange : ch.time >= Start} /\ read' \in Nat /\ truncated' \in BOOLEAN /\ page' \in Nat \ {0}
        /\ stage' \in {"reading", "downtimes"}
    BY <1>0, <1>3, <2>1 DEF ReadPage, ReportTypeOK, NextPage
  <2> QED
    BY <1>0, <1>3, <2>2 DEF ReadPage, answered, measuring, TypeInv, ReportTypeOK, Ordered
<1>4. ASSUME ReadDowntimes PROVE TypeInv'
  <2>0. matched' \subseteq Downtimes /\ rows' \subseteq matched'
    BY <1>4 DEF ReadDowntimes, Pages
  <2>1. CASE opening = NoState /\ found = {}
    BY <1>0, <1>4, <2>0, <2>1 DEF ReadDowntimes, measuring, reading, answered, TypeInv, ReportTypeOK, Ordered
  <2>2. CASE ~(opening = NoState /\ found = {})
    <3>1. CoveredFrom \in Start .. End /\ FirstState \in States
      <4>1. CASE opening = NoState
        <5>1. First(found) \in {ch \in StateChange : ch.time >= Start}
          BY <1>0, <2>2, <4>1, FirstIsLeast DEF ReportTypeOK
        <5> QED
          BY <4>1, <5>1, WindowAssumption DEF CoveredFrom, FirstState, StateChange
      <4>2. CASE opening # NoState
        BY <1>0, <4>2, WindowAssumption DEF CoveredFrom, FirstState, ReportTypeOK
      <4> QED
        BY <4>1, <4>2
    <3> QED
      BY <1>0, <1>4, <2>0, <2>2, <3>1, WindowAssumption DEF ReadDowntimes, reading, answered, TypeInv, ReportTypeOK, Ordered
  <2> QED
    BY <2>1, <2>2
<1>5. CASE NextChange
  <2> DEFINE ch == First(Ahead)
  <2>1. ch \in Ahead /\ ch \in StateChange /\ ch.time \in Start .. End /\ ch.state \in States /\ cursor <= ch.time
        /\ from <= ch.time
    <3>1. ch \in Ahead /\ ch \in StateChange
      BY <1>0, <1>5, FirstIsLeast DEF NextChange, Ahead, ReportTypeOK
    <3>2. from \in Start .. End /\ cursor \in Start .. End
      BY <1>0 DEF ReportTypeOK
    <3> QED
      BY <3>1, <3>2, WindowAssumption DEF Ahead, StateChange
  <2>2. total' \in [States -> Nat] /\ planned' \in [States -> Nat]
    <3>1. CASE ch.time > cursor
      <4>1. Seconds(cursor, ch.time) \in Nat
        BY <1>0, <2>1, <3>1, SecondsType, WindowAssumption DEF ReportTypeOK
      <4>2. InDowntime(cursor, ch.time) \in Nat
        <5>1. cursor \in Int /\ ch.time \in Int
          BY <1>0, <2>1, WindowAssumption DEF ReportTypeOK
        <5> HIDE DEF ch
        <5> QED
          BY <1>0, <5>1, InDowntimeType
      <4>0. total \in [States -> Nat] /\ planned \in [States -> Nat] /\ current \in States
        BY <1>0, <1>5 DEF ReportTypeOK, NextChange, Report
      <4>3. /\ total' = [total EXCEPT ![current] = @ + Seconds(cursor, ch.time)]
            /\ planned' = [planned EXCEPT ![current] = @ + InDowntime(cursor, ch.time)]
        BY <1>5, <3>1 DEF NextChange, Span, InDowntime
      <4> QED
        BY <4>0, <4>1, <4>2, <4>3, Added
    <3>2. CASE ~ (ch.time > cursor)
      BY <1>0, <1>5, <3>2 DEF NextChange, ReportTypeOK
    <3> QED
      BY <3>1, <3>2
  <2> QED
    BY <1>0, <1>5, <2>1, <2>2 DEF NextChange, reading, answered, TypeInv, ReportTypeOK, Ordered
<1>6. CASE Report
  <2>1. total' \in [States -> Nat] /\ planned' \in [States -> Nat]
    <3>1. CASE End > cursor
      <4>1. Seconds(cursor, End) \in Nat
        BY <1>0, <3>1, SecondsType, WindowAssumption DEF ReportTypeOK
      <4>2. InDowntime(cursor, End) \in Nat
        BY <1>0, InDowntimeType, WindowAssumption DEF ReportTypeOK
      <4>0. total \in [States -> Nat] /\ planned \in [States -> Nat] /\ current \in States
        BY <1>0, <1>6 DEF ReportTypeOK, NextChange, Report
      <4>3. /\ total' = [total EXCEPT ![current] = @ + Seconds(cursor, End)]
            /\ planned' = [planned EXCEPT ![current] = @ + InDowntime(cursor, End)]
        BY <1>6, <3>1 DEF Report, Span, InDowntime
      <4> QED
        BY <4>0, <4>1, <4>2, <4>3, Added
    <3>2. CASE ~ (End > cursor)
      BY <1>0, <1>6, <3>2 DEF Report, ReportTypeOK
    <3> QED
      BY <3>1, <3>2
  <2> QED
    BY <1>0, <1>6, <2>1 DEF Report, reading, answered, TypeInv, ReportTypeOK, Ordered
<1>7. CASE ReadFails
  BY <1>0, <1>7 DEF ReadFails, reading, answered, measuring, TypeInv, ReportTypeOK, Ordered
<1>8. ASSUME NEW s \in States, Record(s) PROVE TypeInv'
  <2> DEFINE n == Len(history) + 1
  <2>1. Ordered(history')
    <3>1. n \in Nat /\ \A i \in DOMAIN history : i \in Nat /\ i < n /\ history[i].time <= End
      BY <1>0, HistoryType
    <3>2. /\ DOMAIN history' = DOMAIN history \cup {n} /\ history'[n].time = End
          /\ \A i \in DOMAIN history : history'[i] = history[i]
      <4>1. history'[n] = [time |-> End, state |-> s]
        BY <1>0, <1>8, RecordExtends
      <4>2. DOMAIN history' = DOMAIN history \cup {n} /\ \A i \in DOMAIN history : history'[i] = history[i]
        BY <1>0, <1>8, RecordExtends
      <4> QED
        BY <4>1, <4>2
    <3> SUFFICES ASSUME NEW i \in DOMAIN history', NEW j \in DOMAIN history', i < j
                 PROVE  history'[i].time <= history'[j].time
      BY DEF Ordered
    <3>3. CASE j = n
      BY <3>1, <3>2, <3>3, WindowAssumption
    <3>4. CASE j # n
      BY <1>0, <3>1, <3>2, <3>4 DEF Ordered
    <3> QED
      BY <3>3, <3>4
  <2> QED
    BY <1>0, <1>8, <2>1, RecordExtends DEF Record, reading, answered, measuring, TypeInv, ReportTypeOK
<1> QED
  BY <1>1, <1>2, <1>3, <1>4, <1>5, <1>6, <1>7, <1>8 DEF ReportNext, ReportStep, Over

(* Every variable keeps its type, whatever is recorded and answered.       *)
THEOREM TypeCorrect == ReportSpec => []ReportTypeOK
<1>1. TypeInv => ReportTypeOK
  BY DEF TypeInv
<1> QED
  BY <1>1, TypeInit, TypeNext, PTL DEF ReportSpec

-----------------------------------------------------------------------------
(* The pages leave nothing out.                                            *)

(* A page that is not full reaches the first change of the window.         *)
LEMMA ShortPageIsLast ==
    ASSUME ReportTypeOK, Ordered(history), Cardinality(PageRows(page)) < PAGE,
           NEW i \in DOMAIN history, InWindow(i)
    PROVE  Len(history) - page * PAGE < i
<1> DEFINE n == Len(history)
           a == n - page * PAGE
           b == n - (page - 1) * PAGE
<1>1. n \in Nat /\ DOMAIN history = 1 .. n /\ page \in Nat /\ page >= 1 /\ PAGE \in Nat /\ PAGE >= 1
      /\ i \in 1 .. n
  BY HistoryType, PagesAssumption DEF ReportTypeOK
<1>2. page * PAGE \in Int /\ (page - 1) * PAGE \in Nat /\ (page - 1) * PAGE = page * PAGE - PAGE
  BY <1>1
<1>3. a \in Int /\ b = a + PAGE /\ b <= n
  BY <1>1, <1>2
<1> HIDE DEF n, a, b
<1> SUFFICES ASSUME i <= a PROVE FALSE
  BY <1>1, <1>3 DEF a, n
<1>4. \A k \in i .. n : history[k].time >= Start
  <2> SUFFICES ASSUME NEW k \in i .. n PROVE history[k].time >= Start
    OBVIOUS
  <2>1. i = k \/ (i < k /\ k \in DOMAIN history)
    BY <1>1
  <2>2. history[i].time <= history[k].time
    BY <1>1, <2>1, HistoryType DEF Ordered
  <2> QED
    BY <1>1, <2>1, <2>2, HistoryType, WindowAssumption DEF InWindow
<1>5. PageRows(page) = (a + 1) .. b
  <2>1. \A k \in DOMAIN history : k \in PageRows(page) <=> history[k].time >= Start /\ a < k /\ k <= b
    BY DEF PageRows, a, b, n
  <2>2. \A k \in (a + 1) .. b : k \in i .. n /\ k \in DOMAIN history /\ a < k /\ k <= b
    BY <1>1, <1>3
  <2>3. PageRows(page) \subseteq DOMAIN history
    BY DEF PageRows
  <2>4. \A k \in PageRows(page) : k \in (a + 1) .. b
    BY <1>1, <1>3, <2>1, <2>3
  <2> QED
    BY <1>4, <2>1, <2>2, <2>4
<1>6. Cardinality((a + 1) .. b) = PAGE
  BY <1>1, <1>3, FS_Interval
<1> QED
  BY <1>1, <1>5, <1>6

(* Reading keeps what was read sound and the pages complete.               *)
LEMMA ReadNext == TypeInv /\ ReadInv /\ [ReportNext]_reportVars => ReadInv'
<1> SUFFICES ASSUME TypeInv, ReadInv, [ReportNext]_reportVars PROVE ReadInv'
  OBVIOUS
<1>0. ReportTypeOK /\ Ordered(history)
  BY DEF TypeInv
<1>1. CASE UNCHANGED <<history, found, truncated>> /\ (stage' \in {"opening", "reading"} => stage' = stage /\ page' = page)
           /\ (stage' \in {"downtimes", "measuring", "reported"} => stage \in {"downtimes", "measuring", "reported"})
  BY <1>1 DEF ReadInv, InWindow, Complete
<1>2. CASE ReadOpening
  <2>1. stage' = "reading" /\ page' = page /\ UNCHANGED <<history, found, truncated>>
    BY <1>2 DEF ReadOpening
  <2>2. page = 1
    BY <1>2 DEF ReadOpening, ReadInv
  <2>3. \A i \in DOMAIN history : ~ (Len(history) - (page - 1) * PAGE < i)
    BY <1>0, <2>2, HistoryType, PagesAssumption
  <2>4. \A i \in DOMAIN history' : ~ (Len(history') - (page' - 1) * PAGE < i)
    BY <2>1, <2>3
  <2>5. \A ch \in found' : \E i \in DOMAIN history' : history'[i] = ch
    BY <2>1 DEF ReadInv
  <2> QED
    BY <2>1, <2>4, <2>5 DEF ReadInv
<1>3. CASE ReadPage
  <2> DEFINE n == Len(history)
  <2>0. n \in Nat /\ DOMAIN history = 1 .. n /\ page \in Nat /\ page >= 1 /\ PAGE \in Nat
    BY <1>0, HistoryType, PagesAssumption DEF ReportTypeOK
  <2>1. history' = history /\ found' = found \cup {history[i] : i \in PageRows(page)} /\ stage = "reading"
    BY <1>3 DEF ReadPage
  <2>2. \A ch \in found' : \E i \in DOMAIN history : history[i] = ch
    BY <2>1 DEF ReadInv, PageRows
  <2>3. ASSUME NEW i \in DOMAIN history, InWindow(i), n - page * PAGE < i
        PROVE  history[i] \in found'
    <3>1. CASE n - (page - 1) * PAGE < i
      BY <2>1, <2>3, <3>1 DEF ReadInv
    <3>2. CASE ~ (n - (page - 1) * PAGE < i)
      <4>1. i <= n - (page - 1) * PAGE
        BY <2>0, <3>2
      <4>2. history[i].time >= Start
        BY <1>0, <2>3, HistoryType, WindowAssumption DEF InWindow
      <4>3. i \in PageRows(page)
        BY <2>3, <4>1, <4>2 DEF PageRows
      <4> QED
        BY <2>1, <4>3
    <3> QED
      BY <3>1, <3>2
  <2>4. CASE Cardinality(PageRows(page)) < PAGE
    <3>1. \A i \in DOMAIN history : InWindow(i) => history[i] \in found'
      BY <1>0, <2>3, <2>4, ShortPageIsLast
    <3>2. stage' = "downtimes"
      BY <1>3, <2>4 DEF ReadPage, LastPage
    <3> QED
      BY <2>1, <2>2, <3>1, <3>2 DEF ReadInv, Complete, InWindow
  <2>5. CASE ~ (Cardinality(PageRows(page)) < PAGE) /\ truncated'
    BY <1>3, <2>1, <2>2, <2>5 DEF ReadPage, LastPage, ReadInv
  <2>6. CASE ~ (Cardinality(PageRows(page)) < PAGE) /\ ~truncated'
    <3>0. PageRows(page) # {}
      BY <2>6, FS_EmptySet, PagesAssumption
    <3>1. page' = page + 1 /\ stage' = "reading"
      BY <1>3, <2>1, <2>6, <3>0 DEF ReadPage, NextPage, LastPage
    <3>2. page' - 1 = page
      BY <2>0, <3>1
    <3>3. \A i \in DOMAIN history : InWindow(i) /\ Len(history) - (page' - 1) * PAGE < i => history[i] \in found'
      BY <2>3, <3>2
    <3> QED
      BY <2>1, <2>2, <3>1, <3>3 DEF ReadInv, InWindow
  <2> QED
    BY <2>4, <2>5, <2>6
<1>4. ASSUME NEW s \in States, Record(s) PROVE ReadInv'
  <2> DEFINE n == Len(history)
  <2>1. /\ Len(history') = n + 1 /\ DOMAIN history' = DOMAIN history \cup {n + 1}
        /\ \A i \in DOMAIN history : history'[i] = history[i]
        /\ history'[n + 1].time = End
    <3>1. history'[n + 1] = [time |-> End, state |-> s]
      BY <1>0, <1>4, RecordExtends
    <3>2. /\ Len(history') = n + 1 /\ DOMAIN history' = DOMAIN history \cup {n + 1}
          /\ \A i \in DOMAIN history : history'[i] = history[i]
      BY <1>0, <1>4, RecordExtends
    <3> QED
      BY <3>1, <3>2
  <2>2. UNCHANGED <<stage, page, found, truncated>>
    BY <1>4 DEF Record, reading, answered
  <2>3. \A i \in DOMAIN history' : InWindow(i)' => i \in DOMAIN history /\ InWindow(i)
    BY <2>1, WindowAssumption DEF InWindow
  <2>4. n \in Nat /\ DOMAIN history = 1 .. n /\ (page - 1) * PAGE \in Int
    BY <1>0, HistoryType, PagesAssumption DEF ReportTypeOK
  <2>5. \A i \in DOMAIN history : n + 1 - (page - 1) * PAGE < i => n - (page - 1) * PAGE < i
    BY <2>4
  <2>6. \A ch \in found' : \E i \in DOMAIN history' : history'[i] = ch
    BY <2>1, <2>2 DEF ReadInv
  <2>7. ASSUME stage' = "reading", NEW i \in DOMAIN history', InWindow(i)',
               Len(history') - (page' - 1) * PAGE < i
        PROVE  history'[i] \in found'
    <3>1. i \in DOMAIN history /\ InWindow(i) /\ history'[i] = history[i]
      BY <2>1, <2>3, <2>7
    <3>2. n + 1 - (page - 1) * PAGE < i
      <4>1. page' = page /\ Len(history') = n + 1
        BY <2>1, <2>2
      <4>2. (page' - 1) * PAGE = (page - 1) * PAGE
        BY <4>1
      <4> QED
        BY <2>4, <2>7, <4>1, <4>2
    <3>3. stage = "reading" /\ n - (page - 1) * PAGE < i
      BY <2>2, <2>5, <2>7, <3>1, <3>2
    <3> QED
      BY <2>2, <3>1, <3>3 DEF ReadInv
  <2>8. (stage' \in {"downtimes", "measuring", "reported"} /\ ~truncated') => Complete'
    BY <2>1, <2>2, <2>3 DEF ReadInv, Complete
  <2>9. stage' = "opening" => page' = 1
    BY <2>2 DEF ReadInv
  <2> QED
    BY <2>6, <2>7, <2>8, <2>9 DEF ReadInv
<1> QED
  BY <1>1, <1>2, <1>3, <1>4 DEF ReportNext, ReportStep, ReadDowntimes, NextChange, Report, ReadFails, Over, reportVars, reading, answered, measuring

-----------------------------------------------------------------------------
(* What the object is in.                                                  *)

(* An object is in one state at a time.                                    *)
LEMMA HeldUnique ==
    ASSUME ReportTypeOK, NEW t \in Int, NEW s1, NEW s2, Held(s1, t), Held(s2, t)
    PROVE  s1 = s2
<1>1. PICK i \in DOMAIN history : history[i].state = s1 /\ history[i].time <= t
                                 /\ \A j \in DOMAIN history : i < j => history[j].time > t
  BY DEF Held
<1>2. PICK k \in DOMAIN history : history[k].state = s2 /\ history[k].time <= t
                                 /\ \A j \in DOMAIN history : k < j => history[j].time > t
  BY DEF Held
<1>3. i \in Int /\ k \in Int /\ history[i].time \in Int /\ history[k].time \in Int
  BY HistoryType
<1>4. i = k
  BY <1>1, <1>2, <1>3
<1> QED
  BY <1>1, <1>2, <1>4

(* What is recorded at the end says nothing of the window.                 *)
LEMMA HeldRecord ==
    ASSUME ReportTypeOK, NEW r \in States, Record(r), NEW s, NEW t \in Int, t < End
    PROVE  Held(s, t)' <=> Held(s, t)
<1> DEFINE n == Len(history) + 1
<1>1. history'[n] = [time |-> End, state |-> r]
  BY RecordExtends
<1>2. DOMAIN history' = DOMAIN history \cup {n} /\ \A i \in DOMAIN history : history'[i] = history[i] /\ i < n
  BY RecordExtends
<1>3. history'[n].time = End /\ n \in Int /\ \A i \in DOMAIN history : i \in Int
  BY <1>1, HistoryType
<1> HIDE DEF n
<1>4. ASSUME Held(s, t) PROVE Held(s, t)'
  <2>1. PICK i \in DOMAIN history : history[i].state = s /\ history[i].time <= t
                                   /\ \A j \in DOMAIN history : i < j => history[j].time > t
    BY <1>4 DEF Held
  <2>2. \A j \in DOMAIN history' : i < j => history'[j].time > t
    BY <1>2, <1>3, <2>1, WindowAssumption
  <2> QED
    BY <1>2, <2>1, <2>2 DEF Held
<1>5. ASSUME Held(s, t)' PROVE Held(s, t)
  <2>1. PICK i \in DOMAIN history' : history'[i].state = s /\ history'[i].time <= t
                                   /\ \A j \in DOMAIN history' : i < j => history'[j].time > t
    BY <1>5 DEF Held
  <2>2. i # n
    BY <1>3, <2>1, WindowAssumption
  <2>3. i \in DOMAIN history /\ history'[i] = history[i]
    BY <1>2, <2>1, <2>2
  <2>4. \A j \in DOMAIN history : i < j => history[j].time > t
    BY <1>2, <2>1
  <2> QED
    BY <2>1, <2>3, <2>4 DEF Held
<1> QED
  BY <1>4, <1>5

(* A change the window has alone in its second is what the object is in.   *)
LEMMA HeldFrom ==
    ASSUME ReportTypeOK, Ordered(history), Untied, NEW i \in DOMAIN history, Start < history[i].time, history[i].time < End
    PROVE  Held(history[i].state, history[i].time)
<1>1. ASSUME NEW j \in DOMAIN history, i < j PROVE history[j].time > history[i].time
  <2>1. history[i].time <= history[j].time /\ history[i].time \in Nat /\ history[j].time \in Nat
    BY <1>1, HistoryType DEF Ordered
  <2>2. CASE history[j].time < End
    BY <1>1, <2>2 DEF Untied
  <2>3. CASE ~ (history[j].time < End)
    BY <2>1, <2>3, WindowAssumption
  <2> QED
    BY <2>2, <2>3
<1> QED
  BY <1>1, HistoryType DEF Held

(* The opening state is the one at the begin of the window.                *)
LEMMA OpeningNext == TypeInv /\ OpeningInv /\ [ReportNext]_reportVars => OpeningInv'
<1> SUFFICES ASSUME TypeInv, OpeningInv, [ReportNext]_reportVars PROVE OpeningInv'
  OBVIOUS
<1>0. ReportTypeOK /\ Ordered(history)
  BY DEF TypeInv
<1>1. CASE UNCHANGED <<history, opening>>
           /\ (stage' \in {"reading", "downtimes"} => stage \in {"reading", "downtimes"})
  BY <1>1 DEF OpeningInv, Held
<1>2. CASE ReadOpening
  <2>1. stage' = "reading" /\ history' = history
    BY <1>2 DEF ReadOpening
  <2>2. CASE Before(Start) = {}
    <3>1. opening' = NoState /\ \A i \in DOMAIN history : ~ (history[i].time <= Start)
      BY <1>2, <2>2 DEF ReadOpening, Before
    <3>2. \A i \in DOMAIN history : history[i].time > Start
      BY <1>0, <3>1, HistoryType, WindowAssumption
    <3> QED
      BY <2>1, <3>1, <3>2 DEF OpeningInv
  <2>3. CASE Before(Start) # {}
    <3> DEFINE i == Newest(Before(Start))
    <3>1. Before(Start) \in SUBSET (1 .. Len(history)) /\ Len(history) \in Nat
      BY <1>0, HistoryType DEF Before
    <3>2. i \in Before(Start) /\ \A j \in Before(Start) : j <= i
      BY <2>3, <3>1, NewestIsLast
    <3>3. opening' = history[i].state
      BY <1>2, <2>3 DEF ReadOpening
    <3> HIDE DEF i
    <3>4. i \in DOMAIN history /\ history[i].time <= Start /\ history[i].state \in States
      BY <1>0, <3>2, HistoryType DEF Before
    <3>5. \A j \in DOMAIN history : i < j => history[j].time > Start
      <4>1. \A j \in DOMAIN history : j \in Int /\ i \in Int /\ history[j].time \in Int
        BY <1>0, <3>4, HistoryType
      <4>2. \A j \in DOMAIN history : i < j => j \notin Before(Start)
        BY <3>2, <4>1
      <4> QED
        BY <4>1, <4>2, WindowAssumption DEF Before
    <3>6. Held(opening', Start)
      BY <3>3, <3>4, <3>5 DEF Held
    <3>7. opening' # NoState
      BY <3>3, <3>4, StatesAssumption DEF NoState
    <3> QED
      BY <2>1, <3>6, <3>7 DEF OpeningInv, Held
  <2> QED
    BY <2>2, <2>3
<1>3. ASSUME NEW r \in States, Record(r) PROVE OpeningInv'
  <2>1. UNCHANGED <<stage, opening>>
    BY <1>3 DEF Record, reading, answered
  <2>2. CASE opening = NoState /\ stage \in {"reading", "downtimes"}
    <3>1. history'[Len(history) + 1] = [time |-> End, state |-> r]
      BY <1>0, <1>3, RecordExtends
    <3>2. /\ DOMAIN history' = DOMAIN history \cup {Len(history) + 1}
          /\ \A i \in DOMAIN history : history'[i] = history[i]
      BY <1>0, <1>3, RecordExtends
    <3>3. \A i \in DOMAIN history' : history'[i].time > Start
      BY <2>2, <3>1, <3>2, WindowAssumption DEF OpeningInv
    <3> QED
      BY <2>1, <2>2, <3>3 DEF OpeningInv
  <2>3. CASE opening # NoState /\ stage \in {"reading", "downtimes"}
    <3>1. ASSUME NEW s, s = opening PROVE Held(s, Start)'
      BY <1>0, <1>3, <2>3, <3>1, HeldRecord, WindowAssumption DEF OpeningInv
    <3>2. opening' = opening
      BY <2>1
    <3>3. Held(opening, Start)'
      BY <3>1, <3>2 DEF Held
    <3> QED
      BY <2>1, <2>3, <3>3 DEF OpeningInv
  <2> QED
    BY <2>1, <2>2, <2>3 DEF OpeningInv
<1> QED
  BY <1>1, <1>2, <1>3 DEF ReportNext, ReportStep, ReadPage, ReadDowntimes, NextChange, Report, ReadFails, Over, reportVars,
     reading, answered, measuring

-----------------------------------------------------------------------------
(* What is counted.                                                        *)

(* The seconds of a state are finitely many.                               *)
LEMMA CountedType ==
    ASSUME NEW s, NEW a \in Int, NEW b \in Int
    PROVE  IsFiniteSet({t \in a .. b - 1 : Held(s, t)}) /\ Counted(s, a, b) \in Nat
<1>1. {t \in a .. b - 1 : Held(s, t)} \in SUBSET (a .. b - 1) /\ IsFiniteSet(a .. b - 1)
  BY FS_Interval
<1> QED
  BY <1>1, FS_Subset, FS_CardinalityType DEF Counted

(* The object keeps its state until the next change.                       *)
LEMMA HeldUntil ==
    ASSUME ReportTypeOK, NEW s, NEW c \in Int, NEW m \in Int, Held(s, c),
           \A i \in DOMAIN history : ~ (c < history[i].time /\ history[i].time < m)
    PROVE  \A t \in c .. m - 1 : Held(s, t)
<1>1. PICK i \in DOMAIN history : history[i].state = s /\ history[i].time <= c
                                 /\ \A j \in DOMAIN history : i < j => history[j].time > c
  BY DEF Held
<1> SUFFICES ASSUME NEW t \in c .. m - 1 PROVE Held(s, t)
  OBVIOUS
<1>2. ASSUME NEW j \in DOMAIN history, i < j PROVE history[j].time > t
  <2>1. history[j].time > c /\ ~ (history[j].time < m) /\ history[j].time \in Int
    BY <1>1, <1>2, HistoryType
  <2> QED
    BY <2>1
<1>3. history[i].time <= t
  BY <1>1, HistoryType
<1> QED
  BY <1>1, <1>2, <1>3 DEF Held

(* A span added to the state held over it keeps the count.                 *)
LEMMA SpanCounts ==
    ASSUME ReportTypeOK, NEW a \in Int, NEW c \in Int, NEW m \in Int, a <= c, c < m, NEW s, NEW r, Held(r, c),
           \A i \in DOMAIN history : ~ (c < history[i].time /\ history[i].time < m)
    PROVE  Counted(s, a, m) = Counted(s, a, c) + (IF s = r THEN m - c ELSE 0)
<1> DEFINE A == {t \in a .. c - 1 : Held(s, t)}
           B == IF s = r THEN c .. m - 1 ELSE {}
<1>1. \A t \in c .. m - 1 : Held(r, t)
  BY HeldUntil
<1>2. \A t \in c .. m - 1 : Held(s, t) <=> s = r
  <2>1. ASSUME NEW t \in c .. m - 1, Held(s, t) PROVE s = r
    <3>1. t \in Int /\ Held(r, t)
      BY <1>1
    <3> QED
      BY <2>1, <3>1, HeldUnique
  <2> QED
    BY <1>1, <2>1
<1>3. {t \in a .. m - 1 : Held(s, t)} = A \cup B
  <2>1. \A t : t \in a .. m - 1 <=> t \in a .. c - 1 \/ t \in c .. m - 1
    OBVIOUS
  <2> QED
    BY <1>2, <2>1
<1>4. A \cap B = {}
  OBVIOUS
<1>5. IsFiniteSet(A) /\ Cardinality(A) \in Nat
  BY CountedType DEF Counted
<1>6. IsFiniteSet(B) /\ Cardinality(B) = IF s = r THEN m - c ELSE 0
  BY FS_Interval, FS_EmptySet
<1>7. Cardinality(A \cup B) = Cardinality(A) + Cardinality(B) - Cardinality(A \cap B)
  BY <1>5, <1>6, FS_Union
<1>8. Cardinality(A \cap B) = 0
  BY <1>4, FS_EmptySet
<1>9. Counted(s, a, m) = Cardinality(A \cup B) /\ Counted(s, a, c) = Cardinality(A)
  BY <1>3 DEF Counted
<1> HIDE DEF A, B
<1> QED
  BY <1>5, <1>6, <1>7, <1>8, <1>9

(* Nothing of the window lies between the cursor and the next change read. *)
LEMMA NextIsNext ==
    ASSUME TypeInv, Complete, stage = "measuring", NEW m \in Int, m <= End,
           \A b \in Ahead : m <= b.time
    PROVE  \A i \in DOMAIN history : ~ (cursor < history[i].time /\ history[i].time < m)
<1> SUFFICES ASSUME NEW i \in DOMAIN history, cursor < history[i].time, history[i].time < m
             PROVE  FALSE
  OBVIOUS
<1>1. ReportTypeOK /\ from <= cursor /\ from \in Start .. End /\ cursor \in Start .. End
  BY DEF TypeInv, ReportTypeOK
<1>2. history[i].time \in Nat
  BY <1>1, HistoryType
<1>3. InWindow(i) /\ from < history[i].time
  BY <1>1, <1>2, WindowAssumption DEF InWindow
<1>4. history[i] \in Ahead
  BY <1>3 DEF Complete, Ahead, InWindow
<1> QED
  BY <1>2, <1>4

(* What the next span is: the object keeps its state until the next change *)
(* read, which is a later one.                                             *)
LEMMA NextSpan ==
    ASSUME TypeInv, ReadInv, CountInv, NextChange, ~truncated, Untied, NEW ch, ch = First(Ahead)
    PROVE  /\ ch.time \in Int /\ cursor < ch.time /\ ch.time < End /\ ch.state \in States
           /\ Held(current, cursor) /\ Held(ch.state, ch.time)
           /\ \A j \in DOMAIN history : ~ (cursor < history[j].time /\ history[j].time < ch.time)
<1>0. ReportTypeOK /\ Ordered(history) /\ from \in Start .. End /\ cursor \in Start .. End
      /\ Start \in Int /\ End \in Int /\ Start < End
  BY WindowAssumption DEF TypeInv, ReportTypeOK
<1>1. stage = "measuring" /\ Ahead # {}
  BY DEF NextChange
<1>2. ch \in Ahead /\ \A b \in Ahead : Precedes(ch, b)
  BY <1>0, <1>1, FirstIsLeast DEF Ahead, ReportTypeOK
<1>3. PICK i \in DOMAIN history : history[i] = ch
  BY <1>2 DEF ReadInv, Ahead
<1>4. ch.time \in Int /\ from <= cursor /\ cursor <= ch.time /\ Start < ch.time /\ ch.time < End /\ ch.state \in States
  BY <1>0, <1>1, <1>2, <1>3, HistoryType DEF Ahead, TypeInv
<1>5. \A b \in Ahead : b.time \in Int /\ ch.time <= b.time
  <2>1. \A b \in Ahead : b \in StateChange /\ b.time \in Int
    BY <1>0 DEF Ahead, ReportTypeOK, StateChange
  <2>2. \A b \in Ahead : ch.time < b.time \/ ch.time = b.time
    BY <1>2 DEF Precedes
  <2> QED
    BY <1>4, <2>1, <2>2
<1>6. Held(current, cursor) /\ Complete
  BY <1>0, <1>1, <1>4 DEF CountInv, ReadInv
<1>7. Held(ch.state, ch.time)
  BY <1>0, <1>3, <1>4, HeldFrom
<1>8. cursor < ch.time
  <2> SUFFICES ASSUME cursor = ch.time PROVE FALSE
    BY <1>0, <1>4
  <2>1. current = ch.state
    BY <1>0, <1>6, <1>7, HeldUnique
  <2>2. cursor < ch.time \/ current < ch.state
    BY <1>2 DEF Ahead
  <2>3. ch.state \in Int
    <3>1. \A s \in States : s \in Int
      BY StatesAssumption
    <3> QED
      BY <1>4, <3>1
  <2> QED
    BY <1>0, <1>4, <2>1, <2>2, <2>3
<1>9. \A j \in DOMAIN history : ~ (cursor < history[j].time /\ history[j].time < ch.time)
  BY <1>0, <1>1, <1>4, <1>5, <1>6, NextIsNext
<1> QED
  BY <1>4, <1>6, <1>7, <1>8, <1>9

(* And what the last span is: up to the end it keeps the state it is in.   *)
LEMMA LastSpan ==
    ASSUME TypeInv, ReadInv, CountInv, Report, ~truncated, Untied, cursor < End
    PROVE  /\ Held(current, cursor)
           /\ \A j \in DOMAIN history : ~ (cursor < history[j].time /\ history[j].time < End)
<1>1. stage = "measuring" /\ Ahead = {} /\ Complete
  BY DEF Report, ReadInv
<1>2. \A j \in DOMAIN history : ~ (cursor < history[j].time /\ history[j].time < End)
  BY <1>1, NextIsNext, WindowAssumption
<1> QED
  BY <1>1, <1>2 DEF CountInv

(* With no clock set back in the window, each step keeps the counts.       *)
LEMMA CountNext ==
    ASSUME Shift = 0
    PROVE  TypeInv /\ ReadInv /\ OpeningInv /\ CountInv /\ [ReportNext]_reportVars => CountInv'
<1> SUFFICES ASSUME TypeInv, ReadInv, OpeningInv, CountInv, [ReportNext]_reportVars PROVE CountInv'
  OBVIOUS
<1>0. ReportTypeOK /\ Ordered(history) /\ from \in Start .. End /\ cursor \in Start .. End
      /\ Start \in Int /\ End \in Int /\ Start < End
  BY WindowAssumption DEF TypeInv, ReportTypeOK
<1>1. CASE UNCHANGED <<history, truncated, from, cursor, current, total>>
           /\ (stage' \in {"opening", "reading", "downtimes"} => stage \in {"opening", "reading", "downtimes"})
           /\ (stage' \in {"measuring", "reported"} => stage' = stage)
  <2>1. CASE stage' \in {"opening", "reading", "downtimes"}
    BY <1>1, <2>1 DEF CountInv
  <2>2. CASE stage' \in {"measuring", "reported"}
    BY <1>1, <2>2 DEF CountInv, Counted, Held, Untied
  <2>3. CASE stage' \notin {"opening", "reading", "downtimes", "measuring", "reported"}
    BY <2>3 DEF CountInv
  <2> QED
    BY <2>1, <2>2, <2>3
<1>2. CASE ReadPage
  <2>1. stage = "reading" /\ stage' \in {"reading", "downtimes"} /\ total' = total
    BY <1>2 DEF ReadPage, measuring
  <2> QED
    BY <2>1 DEF CountInv
<1>3. ASSUME ReadDowntimes PROVE CountInv'
  <2>1. stage = "downtimes" /\ UNCHANGED <<history, found, truncated, opening>> /\ total' = total
        /\ total = [s \in States |-> 0]
    BY <1>3 DEF ReadDowntimes, reading, answered, measuring, CountInv
  <2>2. CASE opening = NoState /\ found = {}
    BY <1>3, <2>2 DEF ReadDowntimes, CountInv
  <2>3. CASE ~ (opening = NoState /\ found = {})
    <3>1. stage' = "measuring" /\ from' = CoveredFrom /\ cursor' = CoveredFrom /\ current' = FirstState
      BY <1>3, <2>3 DEF ReadDowntimes
    <3>2. ASSUME Untied, CoveredFrom < End PROVE Held(FirstState, CoveredFrom)
      <4>1. CASE opening = NoState
        <5>1. First(found) \in found
          BY <1>0, <2>3, <4>1, FirstIsLeast DEF ReportTypeOK
        <5>2. PICK i \in DOMAIN history : history[i] = First(found)
          BY <5>1 DEF ReadInv
        <5>3. history[i].time > Start
          BY <2>1, <4>1 DEF OpeningInv
        <5>4. Start < history[i].time /\ history[i].time < End
          BY <1>0, <3>2, <4>1, <5>2, <5>3, HistoryType DEF CoveredFrom
        <5>5. Held(history[i].state, history[i].time)
          BY <1>0, <3>2, <5>4, HeldFrom
        <5> QED
          BY <4>1, <5>2, <5>5 DEF CoveredFrom, FirstState
      <4>2. CASE opening # NoState
        BY <2>1, <4>2 DEF OpeningInv, CoveredFrom, FirstState
      <4> QED
        BY <4>1, <4>2
    <3>3. CoveredFrom \in Int
      <4>1. ReportTypeOK'
        BY TypeNext DEF TypeInv
      <4> QED
        BY <3>1, <4>1, WindowAssumption DEF ReportTypeOK
    <3>4. (Untied' /\ cursor' < End) => Held(current, cursor)'
      BY <2>1, <3>1, <3>2 DEF Untied, Held
    <3>5. \A s \in States : total'[s] = Counted(s, from, cursor)'
      <4> SUFFICES ASSUME NEW s \in States PROVE total'[s] = Counted(s, from, cursor)'
        OBVIOUS
      <4>1. from' .. cursor' - 1 = {}
        BY <3>1, <3>3
      <4>2. Counted(s, from, cursor)' = 0
        BY <4>1, FS_EmptySet DEF Counted
      <4>3. total'[s] = 0
        BY <2>1
      <4> QED
        BY <4>2, <4>3
    <3> QED
      BY <3>1, <3>4, <3>5 DEF CountInv
  <2> QED
    BY <2>2, <2>3
<1>4. CASE NextChange
  <2> DEFINE ch == First(Ahead)
  <2>1. stage = "measuring" /\ stage' = "measuring" /\ UNCHANGED <<history, truncated, from>>
        /\ cursor' = ch.time /\ current' = ch.state /\ Ahead # {}
    BY <1>4 DEF NextChange, reading, answered
  <2>6. CASE truncated \/ ~Untied
    BY <2>1, <2>6 DEF CountInv, Untied
  <2>7. CASE ~truncated /\ Untied
    <3>1. \A s \in States : total[s] = Counted(s, from, cursor)
      BY <2>1, <2>7 DEF CountInv
    <3>2. /\ ch.time \in Int /\ cursor < ch.time /\ Held(current, cursor) /\ Held(ch.state, ch.time)
          /\ \A j \in DOMAIN history : ~ (cursor < history[j].time /\ history[j].time < ch.time)
      BY <1>4, <2>7, NextSpan
    <3>3. from <= cursor /\ ch.time < End /\ Start <= cursor
      BY <1>0, <1>4, <2>1, <2>7, NextSpan DEF TypeInv
    <3>5. \A s \in States :
             Counted(s, from, ch.time) = Counted(s, from, cursor) + (IF s = current THEN ch.time - cursor ELSE 0)
      BY <1>0, <3>2, <3>3, SpanCounts
    <3>6. total' = [total EXCEPT ![current] = @ + (ch.time - cursor)]
      BY <1>0, <1>4, <3>2, <3>3 DEF NextChange, Span, Seconds
    <3>7. \A s \in States : total'[s] = Counted(s, from, ch.time)
      BY <1>0, <3>1, <3>2, <3>5, <3>6 DEF ReportTypeOK
    <3>8. \A s, t : Held(s, t)' <=> Held(s, t)
      BY <2>1 DEF Held
    <3>9. Held(current, cursor)'
      <4>1. Held(current', cursor')
        BY <2>1, <3>2
      <4> QED
        BY <2>1, <4>1 DEF Held
    <3>10. \A s \in States : total'[s] = Counted(s, from, cursor)'
      BY <2>1, <3>7, <3>8 DEF Counted
    <3> QED
      BY <2>1, <3>9, <3>10 DEF CountInv
  <2> QED
    BY <2>6, <2>7
<1>5. CASE Report
  <2>1. stage = "measuring" /\ stage' = "reported" /\ UNCHANGED <<history, truncated, from>> /\ Ahead = {}
    BY <1>5 DEF Report, reading, answered
  <2>2. from <= cursor
    BY <2>1 DEF TypeInv
  <2>3. CASE truncated \/ ~Untied
    BY <2>1, <2>3 DEF CountInv, Untied
  <2>4. CASE ~truncated /\ Untied
    <3>1. \A s \in States : total[s] = Counted(s, from, cursor)
      BY <2>1, <2>4 DEF CountInv
    <3>2. CASE cursor < End
      <4>1. /\ Held(current, cursor)
            /\ \A j \in DOMAIN history : ~ (cursor < history[j].time /\ history[j].time < End)
        BY <1>5, <2>4, <3>2, LastSpan
      <4>2. \A s \in States :
               Counted(s, from, End) = Counted(s, from, cursor) + (IF s = current THEN End - cursor ELSE 0)
        <5>1. ReportTypeOK /\ from \in Int /\ cursor \in Int /\ End \in Int
          BY <1>0
        <5> QED
          BY <2>2, <3>2, <4>1, <5>1, SpanCounts
      <4>3. total' = [total EXCEPT ![current] = @ + (End - cursor)]
        BY <1>0, <1>5, <3>2 DEF Report, Span, Seconds
      <4>4. \A s \in States : total'[s] = Counted(s, from, End)
        BY <1>0, <3>1, <4>2, <4>3 DEF ReportTypeOK
      <4> QED
        BY <2>1, <4>4 DEF CountInv, Counted, Held
    <3>3. CASE ~ (cursor < End)
      <4>1. cursor = End /\ total' = total
        BY <1>0, <1>5, <3>3 DEF Report
      <4> QED
        BY <2>1, <3>1, <4>1 DEF CountInv, Counted, Held
    <3> QED
      BY <3>2, <3>3
  <2> QED
    BY <2>3, <2>4
<1>6. ASSUME NEW r \in States, Record(r) PROVE CountInv'
  <2>1. UNCHANGED <<stage, truncated, from, cursor, current, total>>
    BY <1>6 DEF Record, reading, answered, measuring
  <2>2. Untied' => Untied
    <3>1. DOMAIN history \subseteq DOMAIN history' /\ \A i \in DOMAIN history : history'[i] = history[i]
      BY <1>0, <1>6, RecordExtends
    <3> QED
      BY <3>1 DEF Untied
  <2>3. ASSUME NEW s, NEW t \in Int, t < End PROVE Held(s, t)' <=> Held(s, t)
    BY <1>0, <1>6, <2>3, HeldRecord
  <2>4. ASSUME NEW s, NEW a \in Int, NEW b \in Int, b <= End PROVE Counted(s, a, b)' = Counted(s, a, b)
    <3>1. \A t \in a .. b - 1 : t \in Int /\ t < End
      BY <1>0, <2>4
    <3>2. \A t \in a .. b - 1 : Held(s, t)' <=> Held(s, t)
      BY <2>3, <3>1
    <3>3. {t \in a .. b - 1 : Held(s, t)'} = {t \in a .. b - 1 : Held(s, t)}
      BY <3>2
    <3> QED
      BY <3>3 DEF Counted
  <2>5. CASE stage \in {"opening", "reading", "downtimes"}
    BY <2>1, <2>5 DEF CountInv
  <2>6. CASE stage = "measuring" /\ ~truncated /\ Untied
    <3>1. cursor < End => Held(current, cursor)
      BY <2>6 DEF CountInv
    <3>2. cursor < End => Held(current, cursor)'
      <4>1. ASSUME NEW s, s = current, NEW t \in Int, t = cursor, t < End PROVE Held(s, t)'
        BY <2>3, <3>1, <4>1
      <4> QED
        BY <1>0, <2>1, <4>1 DEF Held
    <3>3. \A s \in States : total[s] = Counted(s, from, cursor)
      BY <2>6 DEF CountInv
    <3>4. \A s \in States : total[s] = Counted(s, from, cursor)'
      <4>1. ASSUME NEW s \in States, NEW a \in Int, a = from, NEW b \in Int, b = cursor
            PROVE  total[s] = Counted(s, a, b)'
        BY <1>0, <2>4, <3>3, <4>1
      <4> QED
        BY <1>0, <2>1, <4>1 DEF Counted
    <3> QED
      BY <2>1, <2>6, <3>2, <3>4 DEF CountInv
  <2>7. CASE stage = "reported" /\ ~truncated /\ Untied
    <3>1. \A s \in States : total[s] = Counted(s, from, End)
      BY <2>7 DEF CountInv
    <3>2. \A s \in States : total[s] = Counted(s, from, End)'
      <4>1. ASSUME NEW s \in States, NEW a \in Int, a = from PROVE total[s] = Counted(s, a, End)'
        BY <1>0, <2>4, <3>1, <4>1
      <4> QED
        BY <1>0, <2>1, <4>1 DEF Counted
    <3> QED
      BY <2>1, <2>7, <3>2 DEF CountInv
  <2>8. CASE stage \notin {"opening", "reading", "downtimes"}
             /\ (stage \in {"measuring", "reported"} => truncated \/ ~Untied)
    BY <2>1, <2>2, <2>8 DEF CountInv
  <2> QED
    BY <2>5, <2>6, <2>7, <2>8
<1> QED
  BY <1>1, <1>2, <1>3, <1>4, <1>5, <1>6 DEF ReportNext, ReportStep, ReadOpening, ReadFails, Over, reportVars, measuring, reading, answered

(* Where the window holds no change of the clocks, a report that read      *)
(* everything shows for each state the seconds the object was in it,       *)
(* whatever was recorded, and meanwhile, and however the pages fall.       *)
THEOREM ReportMeasures ==
    ASSUME Shift = 0
    PROVE  ReportSpec => []MeasuresHistory
<1>1. ReportInit => IInv
  <2> SUFFICES ASSUME ReportInit PROVE IInv
    OBVIOUS
  <2>1. ReadInv /\ OpeningInv /\ CountInv
    BY DEF ReportInit, ReadInv, OpeningInv, CountInv
  <2> QED
    BY <2>1, TypeInit DEF IInv
<1>2. IInv /\ [ReportNext]_reportVars => IInv'
  BY TypeNext, ReadNext, OpeningNext, CountNext DEF IInv
<1>3. IInv => MeasuresHistory
  BY DEF IInv, CountInv, MeasuresHistory, RealTotal, Counted
<1> QED
  BY <1>1, <1>2, <1>3, PTL DEF ReportSpec

-----------------------------------------------------------------------------
(* What is counted of the downtimes.                                       *)

(* The second lies in a downtime that ran.                                 *)
Halted(t) == \E d \in rows : InForce(d, t)
Stopped(a, b) == {t \in a .. b - 1 : Halted(t)}

(* The part of a span a period overlaps are its seconds in that span.      *)
LEMMA OverlapCounts ==
    ASSUME Shift = 0, NEW a \in Int, NEW b \in Int, NEW w \in Stretch
    PROVE  /\ IsFiniteSet({t \in a .. b - 1 : Lasts(w, t)})
           /\ Overlap(a, b, w) = Cardinality({t \in a .. b - 1 : Lasts(w, t)})
<1> DEFINE lo == LargerOf(a, w.begin)
           hi == SmallerOf(b, w.end)
<1>1. w.begin \in Int /\ w.end \in Int
  BY DEF Stretch
<1>2. lo \in Int /\ hi \in Int /\ \A t \in Int : (lo <= t <=> a <= t /\ w.begin <= t) /\ (t < hi <=> t < b /\ t < w.end)
  BY <1>1 DEF LargerOf, SmallerOf
<1>3. Overlap(a, b, w) = LargerOf(0, Seconds(lo, hi))
  BY DEF Overlap
<1> HIDE DEF lo, hi
<1>4. Seconds(lo, hi) = hi - lo
  BY <1>2 DEF Seconds
<1>5. {t \in a .. b - 1 : Lasts(w, t)} = lo .. hi - 1
  <2>1. \A t : t \in {u \in a .. b - 1 : Lasts(w, u)} <=> t \in Int /\ a <= t /\ t <= b - 1 /\ w.begin <= t /\ t < w.end
    BY DEF Lasts
  <2>2. \A t \in Int : (t < hi <=> t <= hi - 1) /\ (t < b <=> t <= b - 1)
    BY <1>2
  <2>3. \A t : t \in lo .. hi - 1 <=> t \in Int /\ lo <= t /\ t <= hi - 1
    BY <1>2
  <2>4. \A t : t \in {u \in a .. b - 1 : Lasts(w, u)} <=> t \in lo .. hi - 1
    BY <1>2, <2>1, <2>2, <2>3
  <2> QED
    BY <2>4
<1>6. IsFiniteSet(lo .. hi - 1) /\ Cardinality(lo .. hi - 1) = IF lo > hi - 1 THEN 0 ELSE hi - 1 - lo + 1
  BY <1>2, FS_Interval
<1>7. LargerOf(0, hi - lo) = Cardinality(lo .. hi - 1)
  BY <1>2, <1>6 DEF LargerOf
<1> QED
  BY <1>3, <1>4, <1>5, <1>6, <1>7

(* The periods that are merged last the seconds that lie in a downtime.    *)
LEMMA PeriodsHalt ==
    ASSUME ReportTypeOK, NEW t \in Int
    PROVE  Halted(t) <=> \E w \in {v \in Periods : v.end > v.begin} : Lasts(w, t)
<1>1. \A d \in rows : InForce(d, t) <=> Ran(d) /\ Lasts(Period(d), t)
  BY DEF InForce, Ran, Period, Lasts
<1>2. \A w \in Periods : Lasts(w, t) => w.end > w.begin
  <2>1. \A w \in Periods : w.begin \in Int /\ w.end \in Int
    BY PeriodsType DEF Stretch
  <2> QED
    BY <2>1 DEF Lasts
<1>3. Halted(t) <=> \E w \in Periods : Lasts(w, t)
  BY <1>1 DEF Halted, Periods
<1> QED
  BY <1>2, <1>3

(* The seconds of a span in downtimes are counted once each.               *)
LEMMA InDowntimeCounts ==
    ASSUME Shift = 0, ReportTypeOK, NEW a \in Int, NEW b \in Int
    PROVE  InDowntime(a, b) = Cardinality(Stopped(a, b))
<1> DEFINE m == Merge(Periods)
           f == [i \in DOMAIN m |-> Overlap(a, b, m[i])]
           C == [i \in DOMAIN m |-> {t \in a .. b - 1 : Lasts(m[i], t)}]
           S == {v \in Periods : v.end > v.begin}
<1>1. IsFiniteSet(DOMAIN m) /\ InDowntime(a, b) = PartialSums(f, DOMAIN m)[DOMAIN m]
  BY PlannedIsSum
<1>2. Merged(m, S)
  BY PeriodsType, MergeMerges
<1>3. \A t \in Int : Halted(t) <=> \E w \in S : Lasts(w, t)
  BY PeriodsHalt
<1> HIDE DEF m, S
<1>4. m \in Seq(Stretch) /\ DOMAIN m = 1 .. Len(m) /\ \A i \in DOMAIN m : m[i] \in Stretch /\ i \in Int
  BY <1>2 DEF Merged
<1>5. \A i \in DOMAIN m : IsFiniteSet(C[i]) /\ f[i] = Cardinality(C[i])
  <2> SUFFICES ASSUME NEW i \in DOMAIN m PROVE IsFiniteSet(C[i]) /\ f[i] = Cardinality(C[i])
    OBVIOUS
  <2>1. m[i] \in Stretch
    BY <1>4
  <2> QED
    BY <2>1, OverlapCounts
<1>6. \A i, j \in DOMAIN m : i # j => C[i] \cap C[j] = {}
  <2>1. ASSUME NEW i \in DOMAIN m, NEW j \in DOMAIN m, i < j, NEW t \in Int PROVE ~ (Lasts(m[i], t) /\ Lasts(m[j], t))
    <3>1. m[i].end < m[j].begin
      BY <1>2, <2>1 DEF Merged, Apart
    <3>2. m[i].end \in Int /\ m[j].begin \in Int
      BY <1>4 DEF Stretch
    <3> QED
      BY <3>1, <3>2 DEF Lasts
  <2> SUFFICES ASSUME NEW i \in DOMAIN m, NEW j \in DOMAIN m, i # j, NEW t \in C[i], t \in C[j] PROVE FALSE
    OBVIOUS
  <2>2. t \in Int /\ Lasts(m[i], t) /\ Lasts(m[j], t)
    OBVIOUS
  <2>3. i < j \/ j < i
    BY <1>4
  <2> QED
    BY <2>1, <2>2, <2>3
<1>7. UNION {C[i] : i \in DOMAIN m} = Stopped(a, b)
  <2>1. \A t \in Int : Halted(t) <=> \E i \in DOMAIN m : Lasts(m[i], t)
    BY <1>2, <1>3 DEF Merged
  <2>2. \A t : t \in UNION {C[i] : i \in DOMAIN m} <=> t \in a .. b - 1 /\ \E i \in DOMAIN m : Lasts(m[i], t)
    OBVIOUS
  <2>3. \A t \in a .. b - 1 : t \in Int
    OBVIOUS
  <2>4. \A t : t \in Stopped(a, b) <=> t \in a .. b - 1 /\ Halted(t)
    BY DEF Stopped
  <2>5. \A t : t \in UNION {C[i] : i \in DOMAIN m} <=> t \in Stopped(a, b)
    <3> HIDE DEF C
    <3> QED
      BY <2>1, <2>2, <2>3, <2>4
  <2> HIDE DEF C
  <2> QED
    BY <2>5
<1> HIDE DEF f, C
<1>8. PartialSums(f, DOMAIN m)[DOMAIN m] = Cardinality(UNION {C[i] : i \in DOMAIN m})
  BY <1>1, <1>5, <1>6, SumOfSizes
<1> QED
  BY <1>1, <1>7, <1>8

(* They are no more than the span has.                                     *)
LEMMA StoppedType ==
    ASSUME NEW a \in Int, NEW b \in Int
    PROVE  /\ IsFiniteSet(Stopped(a, b)) /\ Cardinality(Stopped(a, b)) \in Nat
           /\ a <= b => Cardinality(Stopped(a, b)) <= b - a
<1>1. Stopped(a, b) \in SUBSET (a .. b - 1)
  BY DEF Stopped
<1>2. IsFiniteSet(a .. b - 1) /\ Cardinality(a .. b - 1) = IF a > b - 1 THEN 0 ELSE b - 1 - a + 1
  BY FS_Interval
<1>3. IsFiniteSet(Stopped(a, b)) /\ Cardinality(Stopped(a, b)) <= Cardinality(a .. b - 1)
  BY <1>1, <1>2, FS_Subset
<1>4. Cardinality(Stopped(a, b)) \in Nat
  BY <1>3, FS_CardinalityType
<1> QED
  BY <1>2, <1>3, <1>4

(* The seconds an object was in a state and in a downtime.                 *)
BothIn(s, a, b) == {t \in a .. b - 1 : Held(s, t) /\ Halted(t)}

(* A span adds those of it to the state held over it.                      *)
LEMMA SpanPlans ==
    ASSUME ReportTypeOK, NEW a \in Int, NEW c \in Int, NEW m \in Int, a <= c, c < m, NEW r, Held(r, c),
           \A i \in DOMAIN history : ~ (c < history[i].time /\ history[i].time < m)
    PROVE  /\ Cardinality(BothIn(r, a, m)) = Cardinality(BothIn(r, a, c)) + Cardinality(Stopped(c, m))
           /\ \A s : s # r => BothIn(s, a, m) = BothIn(s, a, c)
<1>1. \A t \in c .. m - 1 : Held(r, t)
  BY HeldUntil
<1>2. \A t : t \in a .. m - 1 <=> t \in a .. c - 1 \/ t \in c .. m - 1
  OBVIOUS
<1>3. Cardinality(BothIn(r, a, m)) = Cardinality(BothIn(r, a, c)) + Cardinality(Stopped(c, m))
  <2> DEFINE A == BothIn(r, a, c)
             B == Stopped(c, m)
  <2>1. BothIn(r, a, m) = A \cup B
    BY <1>1, <1>2 DEF BothIn, Stopped
  <2>2. A \cap B = {}
    BY DEF BothIn, Stopped
  <2>3. IsFiniteSet(A) /\ Cardinality(A) \in Nat
    <3>1. A \in SUBSET (a .. c - 1) /\ IsFiniteSet(a .. c - 1)
      BY FS_Interval DEF BothIn
    <3> QED
      BY <3>1, FS_Subset, FS_CardinalityType
  <2>4. IsFiniteSet(B) /\ Cardinality(B) \in Nat
    BY StoppedType
  <2>5. Cardinality(A \cup B) = Cardinality(A) + Cardinality(B) - Cardinality(A \cap B)
    BY <2>3, <2>4, FS_Union
  <2>6. Cardinality(A \cap B) = 0
    BY <2>2, FS_EmptySet
  <2> HIDE DEF A, B
  <2>7. Cardinality(A \cup B) = Cardinality(A) + Cardinality(B)
    BY <2>3, <2>4, <2>5, <2>6
  <2> QED
    BY <2>1, <2>7 DEF A, B
<1>4. ASSUME NEW s, s # r PROVE BothIn(s, a, m) = BothIn(s, a, c)
  <2>1. ASSUME NEW t \in c .. m - 1, Held(s, t) PROVE FALSE
    <3>1. t \in Int /\ Held(r, t)
      BY <1>1
    <3> QED
      BY <1>4, <2>1, <3>1, HeldUnique
  <2> QED
    BY <1>2, <2>1 DEF BothIn
<1> QED
  BY <1>3, <1>4

(* What is planned up to the cursor.                                       *)
PlannedInv ==
    /\ stage \in {"opening", "reading", "downtimes"} => planned = [s \in States |-> 0]
    /\ (stage = "measuring" /\ ~truncated /\ Untied) => \A s \in States : planned[s] = Cardinality(BothIn(s, from, cursor))
    /\ (stage = "reported" /\ ~truncated /\ Untied) => \A s \in States : planned[s] = Cardinality(BothIn(s, from, End))

(* The seconds up to the cursor are those of all states, and no more of a  *)
(* state is planned than there is of it.                                   *)
AllOf(f) == PartialSums(f, States)[States]
SharesInv ==
    /\ stage = "measuring" => AllOf(total) = cursor - from
    /\ stage = "reported" => AllOf(total) = End - from
    /\ \A s \in States : planned[s] <= total[s]

(* What a span adds, of a state's seconds and of those planned.            *)
LEMMA SpanAdds ==
    ASSUME Shift = 0, ReportTypeOK, stage = "measuring", NEW m \in Int, Start <= m, m <= End, cursor < m, Span(m)
    PROVE  /\ current \in States /\ m - cursor \in Nat /\ Cardinality(Stopped(cursor, m)) \in Nat
           /\ Cardinality(Stopped(cursor, m)) <= m - cursor
           /\ total' = [total EXCEPT ![current] = @ + (m - cursor)]
           /\ planned' = [planned EXCEPT ![current] = @ + Cardinality(Stopped(cursor, m))]
<1>1. cursor \in Int /\ current \in States
  BY WindowAssumption DEF ReportTypeOK
<1>2. Seconds(cursor, m) = m - cursor /\ m - cursor \in Nat
  BY <1>1 DEF Seconds
<1>3. InDowntime(cursor, m) = Cardinality(Stopped(cursor, m))
  BY <1>1, InDowntimeCounts
<1>4. Cardinality(Stopped(cursor, m)) \in Nat /\ Cardinality(Stopped(cursor, m)) <= m - cursor
  <2>1. cursor <= m
    BY <1>1
  <2> QED
    BY <1>1, <2>1, StoppedType
<1>5. /\ total' = [total EXCEPT ![current] = @ + Seconds(cursor, m)]
      /\ planned' = [planned EXCEPT ![current] = @ + InDowntime(cursor, m)]
  BY DEF Span, InDowntime
<1> QED
  BY <1>1, <1>2, <1>3, <1>4, <1>5

(* Seconds recorded at the end change none of those before.                *)
LEMMA BothKept ==
    ASSUME ReportTypeOK, NEW r \in States, Record(r), NEW s, NEW a \in Int, NEW b \in Int, b <= End
    PROVE  BothIn(s, a, b)' = BothIn(s, a, b)
<1>1. rows' = rows
  BY DEF Record, answered
<1>2. \A t \in a .. b - 1 : t \in Int /\ t < End
  BY WindowAssumption
<1>3. \A t : Halted(t)' <=> Halted(t)
  BY <1>1 DEF Halted
<1>4. ASSUME NEW t \in a .. b - 1 PROVE Held(s, t)' <=> Held(s, t)
  <2>1. t \in Int /\ t < End
    BY <1>2
  <2> QED
    BY <2>1, HeldRecord
<1> QED
  BY <1>3, <1>4 DEF BothIn

(* With no clock set back in the window, each step keeps what is planned.  *)
LEMMA PlannedNext ==
    ASSUME Shift = 0
    PROVE  TypeInv /\ ReadInv /\ CountInv /\ PlannedInv /\ [ReportNext]_reportVars => PlannedInv'
<1> SUFFICES ASSUME TypeInv, ReadInv, CountInv, PlannedInv, [ReportNext]_reportVars PROVE PlannedInv'
  OBVIOUS
<1>0. ReportTypeOK /\ from \in Start .. End /\ cursor \in Start .. End /\ from \in Int /\ cursor \in Int
      /\ Start \in Int /\ End \in Int /\ Start < End
  BY WindowAssumption DEF TypeInv, ReportTypeOK
<1>1. CASE UNCHANGED <<history, truncated, rows, from, cursor, planned>>
           /\ (stage' \in {"opening", "reading", "downtimes"} => stage \in {"opening", "reading", "downtimes"})
           /\ (stage' \in {"measuring", "reported"} => stage' = stage)
  <2>1. CASE stage' \in {"opening", "reading", "downtimes"}
    BY <1>1, <2>1 DEF PlannedInv
  <2>2. CASE stage' \in {"measuring", "reported"}
    <3>1. \A s, a, b : BothIn(s, a, b)' = BothIn(s, a, b)
      BY <1>1 DEF BothIn, Held, Halted
    <3>2. Untied' <=> Untied
      BY <1>1 DEF Untied
    <3>3. ASSUME NEW s \in States, stage = "measuring", ~truncated, Untied
          PROVE  planned'[s] = Cardinality(BothIn(s, from, cursor)')
      BY <1>1, <3>1, <3>3 DEF PlannedInv
    <3>4. ASSUME NEW s \in States, stage = "reported", ~truncated, Untied
          PROVE  planned'[s] = Cardinality(BothIn(s, from, End)')
      BY <1>1, <3>1, <3>4 DEF PlannedInv
    <3> QED
      BY <1>1, <2>2, <3>2, <3>3, <3>4 DEF PlannedInv, BothIn, Held, Halted
  <2>3. CASE stage' \notin {"opening", "reading", "downtimes", "measuring", "reported"}
    BY <2>3 DEF PlannedInv
  <2> QED
    BY <2>1, <2>2, <2>3
<1>2. CASE ReadPage
  <2>1. stage = "reading" /\ stage' \in {"reading", "downtimes"} /\ planned' = planned
    BY <1>2 DEF ReadPage, measuring
  <2> QED
    BY <2>1 DEF PlannedInv
<1>3. ASSUME ReadDowntimes PROVE PlannedInv'
  <2>1. planned' = [s \in States |-> 0]
    BY <1>3 DEF ReadDowntimes, measuring, PlannedInv
  <2>2. stage' = "no_history" \/ (stage' = "measuring" /\ from' = cursor')
    BY <1>3 DEF ReadDowntimes
  <2>3. CASE stage' = "no_history"
    BY <2>3 DEF PlannedInv
  <2>4. CASE stage' = "measuring" /\ from' = cursor'
    <3>1. from' \in Int
      BY TypeNext, WindowAssumption DEF TypeInv, ReportTypeOK
    <3>2. \A s : BothIn(s, from, cursor)' = {}
      <4>0. \A x \in Int : x .. x - 1 = {}
        OBVIOUS
      <4>1. from' .. cursor' - 1 = {}
        BY <2>4, <3>1, <4>0
      <4> QED
        BY <4>1 DEF BothIn
    <3>3. \A s \in States : planned'[s] = Cardinality(BothIn(s, from, cursor)')
      BY <2>1, <3>2, FS_EmptySet
    <3> QED
      BY <2>4, <3>3 DEF PlannedInv
  <2> QED
    BY <2>2, <2>3, <2>4
<1>4. CASE NextChange
  <2>1. stage = "measuring" /\ stage' = "measuring" /\ UNCHANGED <<history, truncated, rows, from>>
        /\ cursor' = First(Ahead).time
    BY <1>4 DEF NextChange, reading, answered
  <2>2. CASE truncated \/ ~Untied
    BY <2>1, <2>2 DEF PlannedInv, Untied
  <2>3. CASE ~truncated /\ Untied
    <3>0. PICK ch : ch = First(Ahead)
      OBVIOUS
    <3>1. /\ ch.time \in Int /\ cursor < ch.time /\ ch.time < End /\ Held(current, cursor)
          /\ \A j \in DOMAIN history : ~ (cursor < history[j].time /\ history[j].time < ch.time)
      BY <1>4, <2>3, <3>0, NextSpan
    <3>2. from <= cursor /\ Start <= ch.time
      BY <1>0, <2>1, <3>1 DEF TypeInv
    <3>3. Span(ch.time)
      BY <1>4, <3>0, <3>1 DEF NextChange
    <3>4. /\ Cardinality(BothIn(current, from, ch.time)) =
                Cardinality(BothIn(current, from, cursor)) + Cardinality(Stopped(cursor, ch.time))
          /\ \A s : s # current => BothIn(s, from, ch.time) = BothIn(s, from, cursor)
      <4>1. ReportTypeOK /\ from \in Int /\ cursor \in Int
        BY <1>0
      <4> QED
        BY <3>1, <3>2, <4>1, SpanPlans
    <3>5. /\ current \in States /\ Cardinality(Stopped(cursor, ch.time)) \in Nat
          /\ planned' = [planned EXCEPT ![current] = @ + Cardinality(Stopped(cursor, ch.time))]
      BY <1>0, <2>1, <3>1, <3>2, <3>3, SpanAdds
    <3>6. \A s \in States : planned[s] = Cardinality(BothIn(s, from, cursor)) /\ planned[s] \in Nat
      BY <1>0, <2>1, <2>3 DEF PlannedInv, ReportTypeOK
    <3>7. \A s \in States : planned'[s] = Cardinality(BothIn(s, from, ch.time))
      BY <1>0, <3>4, <3>5, <3>6 DEF ReportTypeOK
    <3>8. \A s : BothIn(s, from, ch.time) = BothIn(s, from, cursor)'
      BY <2>1, <3>0 DEF BothIn, Held, Halted
    <3>9. \A s \in States : planned'[s] = Cardinality(BothIn(s, from, cursor)')
      BY <3>7, <3>8
    <3> QED
      BY <2>1, <3>9 DEF PlannedInv
  <2> QED
    BY <2>2, <2>3
<1>5. CASE Report
  <2>1. stage = "measuring" /\ stage' = "reported" /\ UNCHANGED <<history, truncated, rows, from>>
    BY <1>5 DEF Report, reading, answered
  <2>2. CASE truncated \/ ~Untied
    BY <2>1, <2>2 DEF PlannedInv, Untied
  <2>3. CASE ~truncated /\ Untied
    <3>1. \A s \in States : planned[s] = Cardinality(BothIn(s, from, cursor)) /\ planned[s] \in Nat
      BY <1>0, <2>1, <2>3 DEF PlannedInv, ReportTypeOK
    <3>2. \A s : BothIn(s, from, End)' = BothIn(s, from, End)
      BY <2>1 DEF BothIn, Held, Halted
    <3>3. CASE cursor < End
      <4>1. /\ Held(current, cursor)
            /\ \A j \in DOMAIN history : ~ (cursor < history[j].time /\ history[j].time < End)
        BY <1>5, <2>3, <3>3, LastSpan
      <4>2. from <= cursor
        BY <2>1 DEF TypeInv
      <4>3. /\ Cardinality(BothIn(current, from, End)) =
                  Cardinality(BothIn(current, from, cursor)) + Cardinality(Stopped(cursor, End))
            /\ \A s : s # current => BothIn(s, from, End) = BothIn(s, from, cursor)
        <5>1. ReportTypeOK /\ from \in Int /\ cursor \in Int /\ End \in Int
          BY <1>0
        <5>2. PICK m \in Int : m = End
          BY <5>1
        <5>3. /\ cursor < m /\ Held(current, cursor)
              /\ \A j \in DOMAIN history : ~ (cursor < history[j].time /\ history[j].time < m)
          BY <3>3, <4>1, <5>2
        <5>4. /\ Cardinality(BothIn(current, from, m)) =
                    Cardinality(BothIn(current, from, cursor)) + Cardinality(Stopped(cursor, m))
              /\ \A s : s # current => BothIn(s, from, m) = BothIn(s, from, cursor)
          BY <4>2, <5>1, <5>3, SpanPlans
        <5> QED
          BY <5>2, <5>4
      <4>4. Span(End)
        BY <1>5, <3>3 DEF Report
      <4>5. /\ current \in States /\ Cardinality(Stopped(cursor, End)) \in Nat
            /\ planned' = [planned EXCEPT ![current] = @ + Cardinality(Stopped(cursor, End))]
        BY <1>0, <2>1, <3>3, <4>4, SpanAdds
      <4>6. \A s \in States : planned'[s] = Cardinality(BothIn(s, from, End)')
        BY <1>0, <3>1, <3>2, <4>3, <4>5 DEF ReportTypeOK
      <4> QED
        BY <2>1, <4>6 DEF PlannedInv
    <3>4. CASE ~ (cursor < End)
      <4>1. cursor = End /\ planned' = planned
        BY <1>0, <1>5, <3>4 DEF Report
      <4>2. \A s \in States : planned'[s] = Cardinality(BothIn(s, from, End)')
        BY <3>1, <3>2, <4>1
      <4> QED
        BY <2>1, <4>2 DEF PlannedInv
    <3> QED
      BY <3>3, <3>4
  <2> QED
    BY <2>2, <2>3
<1>6. ASSUME NEW r \in States, Record(r) PROVE PlannedInv'
  <2>1. UNCHANGED <<stage, truncated, rows, from, cursor, planned>>
    BY <1>6 DEF Record, reading, answered, measuring
  <2>2. Untied' => Untied
    <3>1. DOMAIN history \subseteq DOMAIN history' /\ \A i \in DOMAIN history : history'[i] = history[i]
      BY <1>0, <1>6, RecordExtends
    <3> QED
      BY <3>1 DEF Untied
  <2>3. \A s : BothIn(s, from, cursor)' = BothIn(s, from, cursor)
    <3>1. ASSUME NEW s, NEW a \in Int, a = from, NEW b \in Int, b = cursor
          PROVE  BothIn(s, a, b)' = BothIn(s, a, b)
      BY <1>0, <1>6, <3>1, BothKept
    <3> QED
      BY <1>0, <2>1, <3>1 DEF BothIn
  <2>4. \A s : BothIn(s, from, End)' = BothIn(s, from, End)
    <3>1. ASSUME NEW s, NEW a \in Int, a = from PROVE BothIn(s, a, End)' = BothIn(s, a, End)
      BY <1>0, <1>6, <3>1, BothKept
    <3> QED
      BY <1>0, <2>1, <3>1 DEF BothIn
  <2>5. (stage \in {"opening", "reading", "downtimes"} => planned = [s \in States |-> 0])'
    BY <2>1 DEF PlannedInv
  <2>6. (stage = "measuring" /\ ~truncated /\ Untied') => \A s \in States : planned[s] = Cardinality(BothIn(s, from, cursor)')
    BY <2>2, <2>3 DEF PlannedInv
  <2>7. (stage = "reported" /\ ~truncated /\ Untied') => \A s \in States : planned[s] = Cardinality(BothIn(s, from, End)')
    BY <2>2, <2>4 DEF PlannedInv
  <2> QED
    BY <2>1, <2>5, <2>6, <2>7 DEF PlannedInv
<1> QED
  BY <1>1, <1>2, <1>3, <1>4, <1>5, <1>6 DEF ReportNext, ReportStep, ReadOpening, ReadFails, Over, reportVars, measuring, reading, answered

(* A span adds as much to the sum over all states, and of what is planned  *)
(* no more than to the state.                                              *)
LEMMA SpanShares ==
    ASSUME Shift = 0, ReportTypeOK, stage = "measuring", NEW m \in Int, Start <= m, m <= End, cursor < m, Span(m), SharesInv
    PROVE  AllOf(total') = m - from /\ \A s \in States : planned'[s] <= total'[s]
<1>1. /\ current \in States /\ m - cursor \in Nat /\ Cardinality(Stopped(cursor, m)) \in Nat
      /\ Cardinality(Stopped(cursor, m)) <= m - cursor
      /\ total' = [total EXCEPT ![current] = @ + (m - cursor)]
      /\ planned' = [planned EXCEPT ![current] = @ + Cardinality(Stopped(cursor, m))]
  BY SpanAdds
<1>2. total \in [States -> Nat] /\ planned \in [States -> Nat] /\ from \in Int /\ cursor \in Int
  BY WindowAssumption DEF ReportTypeOK
<1>3. AllOf(total') = AllOf(total) + (m - cursor)
  <2> DEFINE f == total
             g == total'
             k == m - cursor
  <2>1. g[current] = f[current] + k /\ \A x \in States \ {current} : g[x] = f[x]
    BY <1>1, <1>2
  <2>2. IsFiniteSet(States) /\ k \in Int /\ \A x \in States : f[x] \in Nat
    BY <1>1, <1>2, StatesAssumption
  <2> HIDE DEF f, g, k
  <2>3. PartialSums(g, States)[States] = PartialSums(f, States)[States] + k
    BY <1>1, <2>1, <2>2, SumOfMore
  <2> QED
    BY <2>3 DEF AllOf, f, g, k
<1>4. AllOf(total) = cursor - from
  BY DEF SharesInv
<1>5. \A s \in States : planned'[s] <= total'[s]
  <2> SUFFICES ASSUME NEW s \in States PROVE planned'[s] <= total'[s]
    OBVIOUS
  <2>1. planned[s] <= total[s] /\ planned[s] \in Nat /\ total[s] \in Nat
    BY <1>2 DEF SharesInv
  <2>2. CASE s = current
    BY <1>1, <1>2, <2>1, <2>2
  <2>3. CASE s # current
    BY <1>1, <1>2, <2>1, <2>3
  <2> QED
    BY <2>2, <2>3
<1> QED
  BY <1>2, <1>3, <1>4, <1>5

(* With no clock set back in the window, each step keeps the shares.       *)
LEMMA SharesNext ==
    ASSUME Shift = 0
    PROVE  TypeInv /\ CountInv /\ SharesInv /\ [ReportNext]_reportVars => SharesInv'
<1> SUFFICES ASSUME TypeInv, CountInv, SharesInv, [ReportNext]_reportVars PROVE SharesInv'
  OBVIOUS
<1>0. ReportTypeOK /\ from \in Int /\ cursor \in Int /\ Start <= cursor /\ cursor <= End
      /\ Start \in Int /\ End \in Int /\ Start < End
  BY WindowAssumption DEF TypeInv, ReportTypeOK
<1>1. CASE UNCHANGED <<from, cursor, total, planned>> /\ (stage' \in {"measuring", "reported"} => stage' = stage)
  BY <1>1 DEF SharesInv, AllOf
<1>2. ASSUME ReadDowntimes PROVE SharesInv'
  <2>1. total = [s \in States |-> 0] /\ UNCHANGED <<total, planned>>
    BY <1>2 DEF ReadDowntimes, measuring, CountInv
  <2>2. stage' = "no_history" \/ (stage' = "measuring" /\ from' = cursor')
    BY <1>2 DEF ReadDowntimes
  <2>3. AllOf(total) = 0
    BY <2>1, StatesAssumption, SumOfZeros DEF AllOf
  <2>4. cursor' \in Int
    BY TypeNext, WindowAssumption DEF TypeInv, ReportTypeOK
  <2>5. stage' = "measuring" => AllOf(total') = cursor' - from'
    <3>1. \A x \in Int : x - x = 0
      OBVIOUS
    <3>2. AllOf(total') = 0
      BY <2>1, <2>3
    <3>3. stage' = "measuring" => cursor' - from' = 0
      BY <2>2, <2>4, <3>1
    <3> QED
      BY <3>2, <3>3
  <2> QED
    BY <2>1, <2>2, <2>5 DEF SharesInv, AllOf
<1>3. CASE NextChange
  <2>1. PICK ch : ch = First(Ahead)
    OBVIOUS
  <2>2. stage = "measuring" /\ stage' = "measuring" /\ from' = from /\ cursor' = ch.time
        /\ (IF ch.time > cursor THEN Span(ch.time) ELSE UNCHANGED <<total, planned>>)
    BY <1>3, <2>1 DEF NextChange
  <2>3. ch \in Ahead /\ ch.time \in Int
    <3>1. ch \in Ahead /\ ch \in StateChange
      BY <1>0, <1>3, <2>1, FirstIsLeast DEF NextChange, Ahead, ReportTypeOK
    <3> QED
      BY <1>0, <3>1 DEF StateChange
  <2>4. ch.time < End /\ (cursor < ch.time \/ cursor = ch.time)
    BY <2>3 DEF Ahead
  <2>5. CASE cursor < ch.time
    <3>1. AllOf(total') = ch.time - from /\ \A s \in States : planned'[s] <= total'[s]
      BY <1>0, <2>2, <2>3, <2>4, <2>5, SpanShares
    <3> QED
      BY <2>2, <3>1 DEF SharesInv, AllOf
  <2>6. CASE cursor = ch.time
    <3>1. total' = total /\ planned' = planned /\ cursor' = cursor
      BY <1>0, <2>2, <2>3, <2>6
    <3> QED
      BY <2>2, <3>1 DEF SharesInv, AllOf
  <2> QED
    BY <2>4, <2>5, <2>6
<1>4. CASE Report
  <2>1. stage = "measuring" /\ stage' = "reported" /\ from' = from
        /\ (IF End > cursor THEN Span(End) ELSE UNCHANGED <<total, planned>>)
    BY <1>4 DEF Report
  <2>2. CASE cursor < End
    <3>1. AllOf(total') = End - from /\ \A s \in States : planned'[s] <= total'[s]
      BY <1>0, <2>1, <2>2, SpanShares
    <3> QED
      BY <2>1, <3>1 DEF SharesInv, AllOf
  <2>3. CASE ~ (cursor < End)
    <3>1. total' = total /\ planned' = planned /\ cursor = End
      BY <1>0, <2>1, <2>3
    <3> QED
      BY <2>1, <3>1 DEF SharesInv, AllOf
  <2> QED
    BY <2>2, <2>3
<1> QED
  BY <1>1, <1>2, <1>3, <1>4 DEF ReportNext, ReportStep, ReadOpening, ReadPage, ReadFails, Record, Over, reportVars, measuring, reading, answered

(* The invariants hold at the start.                                       *)
LEMMA PlanInit == ReportInit => IInv /\ PlannedInv /\ SharesInv
<1> SUFFICES ASSUME ReportInit PROVE IInv /\ PlannedInv /\ SharesInv
  OBVIOUS
<1>1. ReadInv /\ OpeningInv /\ CountInv /\ PlannedInv
  BY DEF ReportInit, ReadInv, OpeningInv, CountInv, PlannedInv
<1>2. SharesInv
  BY DEF ReportInit, SharesInv
<1> QED
  BY <1>1, <1>2, TypeInit DEF IInv

(* Every step keeps the counts.                                            *)
LEMMA IInvNext == ASSUME Shift = 0 PROVE IInv /\ [ReportNext]_reportVars => IInv'
BY TypeNext, ReadNext, OpeningNext, CountNext DEF IInv

(* What is measured are rows the endpoint answered of those the filter     *)
(* matched.                                                                *)
RowsInv == stage \in {"measuring", "reported"} => rows \in Pages(matched)

(* Every step keeps it.                                                    *)
LEMMA RowsNext == RowsInv /\ [ReportNext]_reportVars => RowsInv'
<1> SUFFICES ASSUME RowsInv, [ReportNext]_reportVars PROVE RowsInv'
  OBVIOUS
<1>1. UNCHANGED matched => Pages(matched)' = Pages(matched)
  BY DEF Pages
<1>2. CASE ReadDowntimes
  <2>1. rows' \in Pages(matched')
    BY <1>2 DEF ReadDowntimes
  <2>2. Pages(matched') = Pages(matched)'
    BY DEF Pages
  <2> QED
    BY <2>1, <2>2 DEF RowsInv
<1>3. CASE UNCHANGED answered /\ (stage' \in {"measuring", "reported"} => stage \in {"measuring", "reported"})
  BY <1>1, <1>3 DEF RowsInv, answered
<1> QED
  BY <1>2, <1>3 DEF ReportNext, ReportStep, ReadOpening, ReadPage, NextChange, Report, ReadFails, Record, Over,
     reportVars, answered

(* Where nothing keeps a row of the object's own from being read, and the  *)
(* filter matches no other, the rows read are the object's own.            *)
LEMMA OwnAreRead ==
    ASSUME ReportTypeOK, OwnRead, rows \in Pages(matched)
    PROVE  rows = Own
<1> DEFINE all == {d \in matched : d.begin >= Since}
<1>1. all = matched /\ matched = Own
  BY DEF OwnRead
<1>2. IsFiniteSet(matched) /\ rows \subseteq matched /\ (rows # matched => Cardinality(rows) = LIMIT)
  <2>1. matched \in SUBSET Downtimes /\ IsFiniteSet(Downtimes)
    BY DowntimesAssumption DEF ReportTypeOK
  <2>2. IsFiniteSet(matched)
    BY <2>1, FS_Subset
  <2> QED
    BY <1>1, <2>2 DEF Pages
<1>3. Cardinality(matched) <= LIMIT /\ Cardinality(matched) \in Nat /\ LIMIT \in Nat
  BY <1>1, <1>2, FS_CardinalityType, DowntimesAssumption DEF OwnRead
<1>4. rows # matched => Cardinality(rows) < Cardinality(matched)
  <2>1. IsFiniteSet(rows) /\ Cardinality(rows) <= Cardinality(matched)
        /\ (Cardinality(rows) = Cardinality(matched) => rows = matched)
    BY <1>2, FS_Subset
  <2>2. Cardinality(rows) \in Nat
    BY <2>1, FS_CardinalityType
  <2> QED
    BY <1>3, <2>1, <2>2
<1> QED
  BY <1>1, <1>2, <1>3, <1>4

(* And the seconds shown as planned are those the object was in the state  *)
(* and in a downtime that ran, each counted once however many of them      *)
(* overlap, began before the window, end after it or ended early: the      *)
(* object's own downtimes, where the filter matches no other's and the     *)
(* endpoint answers them all.                                              *)
THEOREM PlannedCountsOnce ==
    ASSUME Shift = 0
    PROVE  ReportSpec => []PlannedOnce
<1>1. IInv /\ PlannedInv /\ [ReportNext]_reportVars => IInv' /\ PlannedInv'
  BY IInvNext, PlannedNext DEF IInv
<1>2. IInv /\ PlannedInv /\ RowsInv => PlannedOnce
  <2> SUFFICES ASSUME IInv, PlannedInv, RowsInv, stage = "reported", ~truncated, Untied, NEW s \in States
               PROVE  /\ planned[s] = RealPlanned(rows, s)
                      /\ OwnRead => planned[s] = RealPlanned(Own, s)
    BY DEF PlannedOnce
  <2>1. planned[s] = RealPlanned(rows, s)
    BY DEF PlannedInv, RealPlanned, BothIn, Halted
  <2>2. OwnRead => rows = Own
    BY OwnAreRead DEF IInv, TypeInv, RowsInv
  <2> QED
    BY <2>1, <2>2
<1>3. ReportInit => RowsInv
  BY DEF ReportInit, RowsInv
<1> QED
  BY <1>1, <1>2, <1>3, RowsNext, PlanInit, PTL DEF ReportSpec

(* The seconds of all states are those of the window, also in a report     *)
(* that was cut short or has changes of one second, and no more of a state *)
(* is planned than there is of it: no percentage exceeds 100.              *)
THEOREM SharesAddUp ==
    ASSUME Shift = 0
    PROVE  ReportSpec => []SharesOfWindow
<1>1. IInv /\ SharesInv /\ [ReportNext]_reportVars => IInv' /\ SharesInv'
  BY IInvNext, SharesNext DEF IInv
<1>2. IInv /\ SharesInv => SharesOfWindow
  <2> SUFFICES ASSUME IInv, SharesInv, stage = "reported"
               PROVE  /\ MapThenSumSet(LAMBDA s : total[s], States) = Seconds(from, End)
                      /\ \A s \in States : planned[s] <= total[s]
    BY DEF SharesOfWindow
  <2>1. MapThenSumSet(LAMBDA s : total[s], States) = AllOf(total)
    BY DEF MapThenSumSet, MapThenFoldSet, AllOf, PartialSums, Some
  <2>2. from \in Int /\ End \in Int
    BY WindowAssumption DEF IInv, TypeInv, ReportTypeOK
  <2>3. Seconds(from, End) = End - from
    BY <2>2 DEF Seconds
  <2> QED
    BY <2>1, <2>3 DEF SharesInv
<1> QED
  BY <1>1, <1>2, PlanInit, PTL DEF ReportSpec

-----------------------------------------------------------------------------
(* The report comes to an end.                                             *)

(* How many requests the report can still make and spans still measure:    *)
(* a page that does not end the reading brings changes, and no more than   *)
(* MAX_CHANGES are read before the last page.                              *)
StepsLeft ==
    LET most == 2 * (MAX_CHANGES + PAGE) + 4
    IN  [opening |-> most, reading |-> most - 1 - read, downtimes |-> Cardinality(found) + 2,
         measuring |-> Cardinality(Ahead) + 1, reported |-> 0, no_history |-> 0, raised |-> 0][stage]

(* Every page, request and span leaves fewer to come, however the history  *)
(* grows meanwhile: no answer keeps the report reading, and no change is   *)
(* measured again.                                                         *)
EveryStepCounts == [][ReportStep \/ ReadFails => StepsLeft' < StepsLeft]_reportVars

(* A page is no longer than PAGE.                                          *)
LEMMA PageIsShort ==
    ASSUME ReportTypeOK
    PROVE  Cardinality(PageRows(page)) \in 0 .. PAGE
<1> DEFINE a == Len(history) - page * PAGE
<1>1. Len(history) \in Nat /\ DOMAIN history = 1 .. Len(history) /\ page \in Nat /\ PAGE \in Nat /\ PAGE >= 1
  BY HistoryType, PagesAssumption DEF ReportTypeOK
<1>2. page * PAGE \in Int /\ (page - 1) * PAGE = page * PAGE - PAGE
  BY <1>1
<1>3. a \in Int /\ Len(history) - (page - 1) * PAGE = a + PAGE
  BY <1>1, <1>2
<1> HIDE DEF a
<1>4. PageRows(page) \in SUBSET ((a + 1) .. (a + PAGE))
  <2>1. \A i \in PageRows(page) : i \in DOMAIN history /\ a < i /\ i <= a + PAGE
    BY <1>3 DEF PageRows, a
  <2> QED
    BY <1>1, <1>3, <2>1
<1>5. IsFiniteSet((a + 1) .. (a + PAGE)) /\ Cardinality((a + 1) .. (a + PAGE)) = PAGE
  <2>1. \A b \in Int : b >= a + 1 =>
            IsFiniteSet((a + 1) .. b) /\ Cardinality((a + 1) .. b) = b - (a + 1) + 1
    <3>1. a + 1 \in Int
      BY <1>3
    <3> QED
      BY <3>1, FS_Interval
  <2>2. a + PAGE \in Int /\ a + PAGE >= a + 1 /\ (a + PAGE) - (a + 1) + 1 = PAGE
    BY <1>1, <1>3
  <2> QED
    BY <2>1, <2>2
<1>6. Cardinality(PageRows(page)) <= PAGE
  <2>1. Cardinality(PageRows(page)) <= Cardinality((a + 1) .. (a + PAGE))
    BY <1>4, <1>5, FS_Subset
  <2> QED
    BY <1>5, <2>1
<1> QED
  BY <1>1, <1>6, PageType

(* What a page adds to the changes read is no more than it has rows.       *)
LEMMA PageAdds ==
    ASSUME ReportTypeOK, IsFiniteSet(found), ReadPage
    PROVE  /\ IsFiniteSet(found') /\ Cardinality(found') \in Nat
           /\ Cardinality(found') <= Cardinality(found) + Cardinality(PageRows(page))
<1> DEFINE rowsOfPage == PageRows(page)
           changes == {history[i] : i \in rowsOfPage}
           f == [i \in rowsOfPage |-> history[i]]
<1>1. IsFiniteSet(rowsOfPage) /\ Cardinality(rowsOfPage) \in Nat
  BY PageType
<1>2. f \in Surjection(rowsOfPage, changes)
  BY DEF Surjection
<1>3. found' = found \cup changes
  BY DEF ReadPage
<1> HIDE DEF f, changes, rowsOfPage
<1>4. IsFiniteSet(changes) /\ Cardinality(changes) <= Cardinality(rowsOfPage)
  BY <1>1, <1>2, FS_Surjection
<1>5. /\ IsFiniteSet(found \cup changes)
      /\ Cardinality(found \cup changes) = Cardinality(found) + Cardinality(changes) - Cardinality(found \cap changes)
  BY <1>4, FS_Union
<1>6. IsFiniteSet(found \cap changes)
  BY <1>4, FS_Subset
<1>7. Cardinality(found) \in Nat /\ Cardinality(changes) \in Nat /\ Cardinality(found \cap changes) \in Nat
      /\ Cardinality(found \cup changes) \in Nat
  BY <1>4, <1>5, <1>6, FS_CardinalityType
<1> QED
  BY <1>1, <1>3, <1>4, <1>5, <1>7 DEF rowsOfPage

(* The reading goes on only with less than MAX_CHANGES read, and what was  *)
(* read counts every change found.                                         *)
BoundInv ==
    /\ IsFiniteSet(found) /\ Cardinality(found) \in Nat
    /\ Cardinality(found) <= read /\ read <= MAX_CHANGES + PAGE
    /\ stage = "opening" => read = 0
    /\ stage = "reading" => read = 0 \/ read < MAX_CHANGES

(* Reading keeps within the limit.                                         *)
LEMMA BoundNext == ReportTypeOK /\ BoundInv /\ [ReportNext]_reportVars => BoundInv'
<1> SUFFICES ASSUME ReportTypeOK, BoundInv, [ReportNext]_reportVars PROVE BoundInv'
  OBVIOUS
<1>1. MAX_CHANGES \in Nat /\ PAGE \in Nat /\ read \in Nat /\ stage \in Stages
  BY PagesAssumption DEF ReportTypeOK
<1>2. CASE ReadPage
  <2>1. Cardinality(PageRows(page)) \in 0 .. PAGE /\ read' = read + Cardinality(PageRows(page))
    BY <1>2, PageIsShort DEF ReadPage
  <2>2. stage = "reading" /\ (stage' = "downtimes" \/ (stage' = "reading" /\ ~(read' >= MAX_CHANGES)))
    BY <1>2 DEF ReadPage
  <2>3. IsFiniteSet(found') /\ Cardinality(found') \in Nat /\ Cardinality(found') <= read'
    <3>1. /\ IsFiniteSet(found') /\ Cardinality(found') \in Nat
          /\ Cardinality(found') <= Cardinality(found) + Cardinality(PageRows(page))
      BY <1>2, PageAdds DEF BoundInv
    <3> QED
      BY <1>1, <2>1, <3>1 DEF BoundInv
  <2>4. read' <= MAX_CHANGES + PAGE
    BY <1>1, <2>1, <2>2 DEF BoundInv
  <2> QED
    BY <1>1, <2>1, <2>2, <2>3, <2>4 DEF BoundInv
<1>3. CASE UNCHANGED reading /\ (stage' = stage \/ stage' \notin {"opening", "reading"})
  BY <1>3 DEF reading, answered, BoundInv
<1>4. CASE ReadOpening
  BY <1>4 DEF ReadOpening, BoundInv
<1> QED
  BY <1>2, <1>3, <1>4 DEF ReportNext, ReportStep, ReadDowntimes, NextChange, Report, ReadFails, Record, Over, reportVars, reading, answered

(* What is ahead is finite, and the change that comes next is not ahead    *)
(* once it has come.                                                       *)
LEMMA AheadShrinks ==
    ASSUME ReportTypeOK, IsFiniteSet(found), NextChange
    PROVE  Cardinality(Ahead') < Cardinality(Ahead) /\ Cardinality(Ahead') \in Nat /\ Cardinality(Ahead) \in Nat
<1> DEFINE ch == First(Ahead)
<1>1. Ahead \in SUBSET StateChange /\ Ahead # {} /\ Ahead \in SUBSET found
  BY DEF NextChange, Ahead, ReportTypeOK
<1>2. ch \in Ahead /\ \A b \in Ahead : Precedes(ch, b)
  BY <1>1, FirstIsLeast
<1>3. cursor' = ch.time /\ current' = ch.state /\ found' = found /\ from' = from
  BY DEF NextChange, reading, answered
<1>4. \A b \in found : b.time \in Nat /\ b.state \in Nat
  <2>1. \A b \in StateChange : b.time \in Nat /\ b.state \in Nat
    <3>1. \A b \in StateChange : b.time \in 0 .. End /\ b.state \in States
      BY DEF StateChange
    <3>2. States \subseteq Nat
      BY StatesAssumption
    <3>3. 0 .. End \subseteq Nat
      BY WindowAssumption
    <3> QED
      BY <3>1, <3>2, <3>3
  <2>2. found \subseteq StateChange
    BY DEF ReportTypeOK
  <2> QED
    BY <2>1, <2>2
<1> HIDE DEF ch
<1>5. ASSUME NEW b \in Ahead' PROVE b \in Ahead \ {ch}
  <2>1. b \in found /\ from < b.time /\ b.time < End /\ (ch.time < b.time \/ (ch.time = b.time /\ ch.state < b.state))
    BY <1>3, <1>5 DEF Ahead
  <2>2. ch \in found /\ (cursor < ch.time \/ (cursor = ch.time /\ current < ch.state))
    BY <1>2 DEF Ahead
  <2>3. cursor \in Int /\ current \in Int
    BY WindowAssumption, StatesAssumption DEF ReportTypeOK, NoState
  <2>4. b # ch
    BY <1>4, <2>1, <2>2
  <2>5. cursor < b.time \/ (cursor = b.time /\ current < b.state)
    BY <1>4, <2>1, <2>2, <2>3
  <2> QED
    BY <2>1, <2>4, <2>5 DEF Ahead
<1>6. IsFiniteSet(Ahead)
  BY <1>1, FS_Subset
<1>7. Ahead' \in SUBSET (Ahead \ {ch})
  BY <1>5
<1>8. Cardinality(Ahead \ {ch}) = Cardinality(Ahead) - 1 /\ IsFiniteSet(Ahead \ {ch})
  BY <1>2, <1>6, FS_RemoveElement
<1>9. Cardinality(Ahead') <= Cardinality(Ahead \ {ch}) /\ IsFiniteSet(Ahead')
  BY <1>7, <1>8, FS_Subset
<1>10. Cardinality(Ahead) \in Nat /\ Cardinality(Ahead') \in Nat
  BY <1>6, <1>9, FS_CardinalityType
<1> QED
  BY <1>8, <1>9, <1>10

(* What is left at each step.                                              *)
LEMMA LeftAt ==
    ASSUME MAX_CHANGES \in Nat, PAGE \in Nat, read \in Nat
    PROVE  /\ stage = "opening" => StepsLeft = 2 * (MAX_CHANGES + PAGE) + 4
           /\ stage = "reading" => StepsLeft = 2 * (MAX_CHANGES + PAGE) + 3 - read
           /\ stage = "downtimes" => StepsLeft = Cardinality(found) + 2
           /\ stage = "measuring" => StepsLeft = Cardinality(Ahead) + 1
           /\ stage \in {"reported", "no_history", "raised"} => StepsLeft = 0
BY DEF StepsLeft

(* The same after a step.                                                  *)
LEMMA LeftAfter ==
    ASSUME MAX_CHANGES \in Nat, PAGE \in Nat
    PROVE  /\ stage' = "reading" /\ read' \in Nat => StepsLeft' = 2 * (MAX_CHANGES + PAGE) + 3 - read'
           /\ stage' = "downtimes" => StepsLeft' = Cardinality(found') + 2
           /\ stage' = "measuring" => StepsLeft' = Cardinality(Ahead') + 1
           /\ stage' \in {"reported", "no_history", "raised"} => StepsLeft' = 0
BY DEF StepsLeft

(* A report that is not over has a step left.                              *)
LEMMA OpenHasSomeLeft ==
    ASSUME ReportTypeOK, BoundInv, stage \notin {"reported", "no_history", "raised"}
    PROVE  StepsLeft \in Nat \ {0}
<1>1. MAX_CHANGES \in Nat /\ PAGE \in Nat /\ read \in Nat
      /\ stage \in {"opening", "reading", "downtimes", "measuring"}
  BY PagesAssumption DEF ReportTypeOK, Stages
<1>2. Ahead \in SUBSET found
  BY DEF Ahead
<1>3. Cardinality(Ahead) \in Nat
  BY <1>2, FS_Subset, FS_CardinalityType DEF BoundInv
<1> QED
  BY <1>1, <1>3, LeftAt DEF BoundInv

(* No step leaves as many to come as there were before it.                 *)
LEMMA EachCounts ==
    ASSUME ReportTypeOK, BoundInv, ReportStep \/ ReadFails
    PROVE  StepsLeft' < StepsLeft
<1>1. MAX_CHANGES \in Nat /\ PAGE \in Nat /\ PAGE >= 1 /\ read \in Nat /\ Cardinality(found) \in Nat
      /\ Cardinality(found) <= read /\ read <= MAX_CHANGES + PAGE
  BY PagesAssumption DEF ReportTypeOK, BoundInv
<1>2. ASSUME stage \notin {"reported", "no_history", "raised"}, stage' \in {"reported", "no_history", "raised"}
      PROVE  StepsLeft' < StepsLeft
  BY <1>1, <1>2, LeftAfter, OpenHasSomeLeft
<1>3. CASE ReadOpening
  <2>1. stage = "opening" /\ stage' = "reading" /\ read' = read
    BY <1>3 DEF ReadOpening
  <2> QED
    BY <1>1, <2>1, LeftAt, LeftAfter
<1>4. CASE ReadPage
  <2> DEFINE size == Cardinality(PageRows(page))
  <2>1. size \in 0 .. PAGE /\ read' = read + size /\ stage = "reading"
    BY <1>4, PageIsShort DEF ReadPage
  <2>2. stage' = "downtimes" \/ (stage' = "reading" /\ ~(size < PAGE))
    BY <1>4 DEF ReadPage, LastPage
  <2>3. StepsLeft = 2 * (MAX_CHANGES + PAGE) + 3 - read
    BY <1>1, <2>1, LeftAt
  <2>4. read = 0 \/ read < MAX_CHANGES
    BY <2>1 DEF BoundInv
  <2>5. Cardinality(found') \in Nat /\ Cardinality(found') <= Cardinality(found) + size
    BY <1>4, PageAdds DEF BoundInv
  <2> HIDE DEF size
  <2>6. CASE stage' = "reading" /\ ~(size < PAGE)
    <3>1. StepsLeft' = 2 * (MAX_CHANGES + PAGE) + 3 - read'
      BY <1>1, <2>1, <2>6, LeftAfter
    <3> QED
      BY <1>1, <2>1, <2>3, <2>6, <3>1
  <2>7. CASE stage' = "downtimes"
    <3>1. StepsLeft' = Cardinality(found') + 2
      BY <1>1, <2>1, <2>7, LeftAfter
    <3>2. Cardinality(found') <= read + PAGE
      BY <1>1, <2>1, <2>5
    <3> QED
      BY <1>1, <2>3, <2>4, <2>5, <3>1, <3>2
  <2> QED
    BY <2>2, <2>6, <2>7
<1>5. ASSUME ReadDowntimes PROVE StepsLeft' < StepsLeft
  <2>1. stage = "downtimes" /\ (stage' = "no_history" \/ stage' = "measuring") /\ found' = found
    BY <1>5 DEF ReadDowntimes, reading, answered
  <2>2. CASE stage' = "measuring"
    <3>1. Ahead' \in SUBSET found
      BY <2>1 DEF Ahead
    <3>2. Cardinality(Ahead') \in Nat /\ Cardinality(Ahead') <= Cardinality(found)
      BY <3>1, FS_Subset, FS_CardinalityType DEF BoundInv
    <3> QED
      BY <1>1, <2>1, <2>2, <3>2, LeftAt, LeftAfter
  <2> QED
    BY <1>2, <2>1, <2>2
<1>6. CASE NextChange
  <2>1. stage = "measuring" /\ stage' = "measuring"
    BY <1>6 DEF NextChange
  <2>2. Cardinality(Ahead') < Cardinality(Ahead) /\ Cardinality(Ahead') \in Nat /\ Cardinality(Ahead) \in Nat
    BY <1>6, AheadShrinks DEF BoundInv
  <2> QED
    BY <1>1, <2>1, <2>2, LeftAt, LeftAfter
<1>7. CASE Report \/ ReadFails
  BY <1>2, <1>7 DEF Report, ReadFails
<1> QED
  BY <1>3, <1>4, <1>5, <1>6, <1>7 DEF ReportStep

(* Every page, request and span leaves fewer to come, for any history,     *)
(* page size and limit and changes recorded meanwhile: ReportReturns up to *)
(* the fairness of the report's own thread.                                *)
THEOREM StepsRunOut == ReportSpec => EveryStepCounts
<1>1. ReportInit => BoundInv
  BY FS_EmptySet, PagesAssumption DEF ReportInit, BoundInv
<1>2. ReportTypeOK /\ BoundInv /\ [ReportNext]_reportVars => [ReportStep \/ ReadFails => StepsLeft' < StepsLeft]_reportVars
  BY EachCounts
<1> QED
  BY <1>1, <1>2, BoundNext, TypeCorrect, PTL DEF ReportSpec, EveryStepCounts
(* What is left is a number, and one above 0 until the report is over.     *)
SomeLeft ==
    /\ StepsLeft \in Nat
    /\ StepsLeft = 0 <=> stage \in {"reported", "no_history", "raised"}

(* A report that is not over always has a step left: the count that every  *)
(* step lowers cannot go below 0.                                          *)
THEOREM StepsAreLeft == ReportSpec => []SomeLeft
<1>1. ReportInit => BoundInv
  BY FS_EmptySet, PagesAssumption DEF ReportInit, BoundInv
<1>2. ReportTypeOK /\ BoundInv => SomeLeft
  <2> SUFFICES ASSUME ReportTypeOK, BoundInv PROVE SomeLeft
    OBVIOUS
  <2>1. CASE stage \in {"reported", "no_history", "raised"}
    <3>1. StepsLeft = 0
      BY <2>1, LeftAt, PagesAssumption DEF ReportTypeOK
    <3> QED
      BY <2>1, <3>1 DEF SomeLeft
  <2>2. CASE stage \notin {"reported", "no_history", "raised"}
    BY <2>2, OpenHasSomeLeft DEF SomeLeft
  <2> QED
    BY <2>1, <2>2
<1> QED
  BY <1>1, <1>2, BoundNext, TypeCorrect, PTL DEF ReportSpec
=============================================================================
