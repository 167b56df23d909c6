---------------------------- MODULE Figures_proofs ----------------------------
(* Theorems about the figures of a test, for any number of agents, tests and  *)
(* reports, any caps on the logs, and reports that are lost or come late.     *)
EXTENDS Figures, TestManager_proofs, SequenceTheorems, FiniteSetTheorems,
        WellFoundedInduction, TLAPS

-----------------------------------------------------------------------------
(* Sums over the agents of a test.  MapThenSumSet adds up a set in the order  *)
(* in which CHOOSE picks its elements; the lemmas say that a total does not   *)
(* depend on it.  They argue by a smallest counterexample, so that no         *)
(* induction principle has to be instantiated.                                *)

Pick(s) == CHOOSE x \in s : TRUE

(* g maps every set of S's elements to the sum of f over it.                  *)
Adds(g, f, S) ==
  g = [s \in SUBSET S |-> IF s = {} THEN 0 ELSE f[Pick(s)] + g[s \ {Pick(s)}]]

LEMMA PickIsMember == ASSUME NEW s, s # {} PROVE Pick(s) \in s
BY DEF Pick

LEMMA SmallestNumber ==
  ASSUME NEW T \in SUBSET Nat, T # {}
  PROVE  \E n \in T : \A m \in T : n <= m
<1>1. \E n \in T : \A m \in T : ~(<<m, n>> \in OpToRel(<, Nat))
  <2>1. IsWellFoundedOn(OpToRel(<, Nat), Nat)
    BY NatLessThanWellFounded
  <2> DEFINE R == OpToRel(<, Nat)
  <2> HIDE DEF R
  <2>2. \E n \in T : \A m \in T : ~(<<m, n>> \in R)
    <3>1. IsWellFoundedOn(R, Nat)
      BY <2>1 DEF R
    <3> QED
      BY <3>1, WFMin
  <2> QED
    BY <2>2 DEF R
<1>2. \A m, n \in Nat : m < n => <<m, n>> \in OpToRel(<, Nat)
  BY DEF OpToRel
<1>3. PICK n \in T : \A m \in T : ~(<<m, n>> \in OpToRel(<, Nat))
  BY <1>1
<1>4. \A m \in T : ~(m < n)
  BY <1>2, <1>3
<1>5. \A m \in T : m \in Nat /\ n \in Nat
  OBVIOUS
<1> QED
  BY <1>4, <1>5

LEMMA SmallestSet ==
  ASSUME NEW S, IsFiniteSet(S), NEW B \in SUBSET (SUBSET S), B # {}
  PROVE  \E T \in B : \A U \in B : Cardinality(T) <= Cardinality(U)
<1> DEFINE sizes == {Cardinality(T) : T \in B}
<1>1. \A T \in B : Cardinality(T) \in Nat
  BY FS_Subset, FS_CardinalityType
<1>2. sizes \in SUBSET Nat /\ sizes # {}
  BY <1>1
<1>3. PICK n \in sizes : \A m \in sizes : n <= m
  BY <1>2, SmallestNumber
<1> QED
  BY <1>3

(* A subset without one of its elements is smaller.                           *)
LEMMA Smaller ==
  ASSUME NEW S, IsFiniteSet(S), NEW T \in SUBSET S, NEW x \in T
  PROVE  /\ T \ {x} \in SUBSET S
         /\ Cardinality(T) \in Nat /\ Cardinality(T \ {x}) \in Nat
         /\ Cardinality(T \ {x}) = Cardinality(T) - 1
<1>1. IsFiniteSet(T) /\ IsFiniteSet(T \ {x})
  BY FS_Subset
<1>2. Cardinality(T \ {x}) = Cardinality(T) - 1
  BY <1>1, FS_RemoveElement
<1> QED
  BY <1>1, <1>2, FS_CardinalityType

LEMMA SumExists ==
  ASSUME NEW S, IsFiniteSet(S), NEW f
  PROVE  \E g : Adds(g, f, S)
<1> DEFINE Small(n) == {s \in SUBSET S : Cardinality(s) <= n}
           UpTo(h, n) == h = [s \in Small(n) |-> IF s = {} THEN 0
                                                 ELSE f[Pick(s)] + h[s \ {Pick(s)}]]
           bad == {n \in Nat : ~\E h : UpTo(h, n)}
<1>1. UpTo([s \in Small(0) |-> 0], 0)
  <2>1. \A s \in Small(0) : s = {}
    <3> SUFFICES ASSUME NEW s \in SUBSET S, Cardinality(s) <= 0, s # {}
                 PROVE  FALSE
      OBVIOUS
    <3>1. Cardinality(s) \in Nat /\ Cardinality(s \ {Pick(s)}) \in Nat
          /\ Cardinality(s \ {Pick(s)}) = Cardinality(s) - 1
      BY PickIsMember, Smaller
    <3> QED
      BY <3>1
  <2> QED
    BY <2>1
<1>2. ASSUME NEW n \in Nat, NEW h, UpTo(h, n)
      PROVE  \E k : UpTo(k, n + 1)
  <2> DEFINE k == [s \in Small(n + 1) |-> IF s = {} THEN 0
                                          ELSE f[Pick(s)] + h[s \ {Pick(s)}]]
  <2>1. ASSUME NEW s \in Small(n + 1), s # {}
        PROVE  h[s \ {Pick(s)}] = k[s \ {Pick(s)}]
    <3> DEFINE u == s \ {Pick(s)}
    <3>1. u \in SUBSET S /\ Cardinality(u) \in Nat /\ Cardinality(s) \in Nat
          /\ Cardinality(u) = Cardinality(s) - 1
      BY <2>1, PickIsMember, Smaller
    <3>2. u \in Small(n) /\ u \in Small(n + 1)
      BY <3>1
    <3>3. h[u] = IF u = {} THEN 0 ELSE f[Pick(u)] + h[u \ {Pick(u)}]
      BY <1>2, <3>2
    <3>4. k[u] = IF u = {} THEN 0 ELSE f[Pick(u)] + h[u \ {Pick(u)}]
      BY <3>2
    <3> QED
      BY <3>3, <3>4
  <2>2. UpTo(k, n + 1)
    BY <2>1
  <2> HIDE DEF k
  <2> QED
    BY <2>2
<1>3. bad = {}
  <2> SUFFICES ASSUME bad # {}
               PROVE  FALSE
    OBVIOUS
  <2> HIDE DEF UpTo
  <2>1. PICK m \in bad : \A n \in bad : m <= n
    BY SmallestNumber
  <2>2. m # 0
    BY <1>1
  <2>3. m - 1 \in Nat /\ m - 1 \notin bad
    BY <2>1, <2>2
  <2>4. PICK h : UpTo(h, m - 1)
    BY <2>3
  <2>5. \E k : UpTo(k, (m - 1) + 1)
    BY <1>2, <2>3, <2>4
  <2> QED
    BY <2>3, <2>5
<1>4. Cardinality(S) \in Nat /\ Small(Cardinality(S)) = SUBSET S
  BY FS_CardinalityType, FS_Subset
<1>5. PICK g : UpTo(g, Cardinality(S))
  <2> HIDE DEF UpTo
  <2> QED
    BY <1>3, <1>4
<1>6. Adds(g, f, S)
  BY <1>4, <1>5 DEF Adds
<1> QED
  BY <1>6

(* Any element of a set may be added last.                                    *)
LEMMA SumStep ==
  ASSUME NEW S, IsFiniteSet(S), NEW f, NEW g, Adds(g, f, S), \A x \in S : f[x] \in Nat
  PROVE  /\ g[{}] = 0
         /\ \A T \in SUBSET S : g[T] \in Nat /\ \A x \in T : g[T] = f[x] + g[T \ {x}]
<1> DEFINE Fine(T) == g[T] \in Nat /\ \A x \in T : g[T] = f[x] + g[T \ {x}]
           bad == {T \in SUBSET S : ~Fine(T)}
<1>1. g[{}] = 0
  BY DEF Adds
<1>2. ASSUME NEW T \in bad, \A U \in bad : Cardinality(T) <= Cardinality(U)
      PROVE  FALSE
  <2>1. T # {}
    BY <1>1
  <2> DEFINE y == Pick(T)
  <2>2. y \in T /\ g[T] = f[y] + g[T \ {y}]
    BY <2>1, PickIsMember DEF Adds
  <2> HIDE DEF y
  <2>3. ASSUME NEW x \in T
        PROVE  Fine(T \ {x})
    <3>1. T \ {x} \in SUBSET S /\ Cardinality(T) \in Nat
          /\ Cardinality(T \ {x}) = Cardinality(T) - 1
      BY Smaller
    <3>2. ~(Cardinality(T) <= Cardinality(T \ {x}))
      BY <3>1
    <3> QED
      BY <1>2, <3>1, <3>2
  <2>4. g[T] \in Nat
    <3>1. g[T \ {y}] \in Nat /\ f[y] \in Nat
      BY <2>2, <2>3
    <3> QED
      BY <2>2, <3>1
  <2>5. ASSUME NEW x \in T, x # y
        PROVE  g[T] = f[x] + g[T \ {x}]
    <3>1. g[T \ {y}] = f[x] + g[(T \ {y}) \ {x}]
      BY <2>2, <2>3, <2>5
    <3>2. g[T \ {x}] = f[y] + g[(T \ {x}) \ {y}]
      BY <2>2, <2>3, <2>5
    <3>3. (T \ {y}) \ {x} = (T \ {x}) \ {y}
      OBVIOUS
    <3>4. Fine((T \ {x}) \ {y}) \/ g[(T \ {x}) \ {y}] \in Int
      <4>1. T \ {x} \in SUBSET S /\ y \in T \ {x}
        BY <2>2, <2>5
      <4>2. /\ Cardinality((T \ {x}) \ {y}) = Cardinality(T \ {x}) - 1
            /\ Cardinality(T \ {x}) = Cardinality(T) - 1 /\ Cardinality(T) \in Nat
            /\ (T \ {x}) \ {y} \in SUBSET S
        BY <4>1, Smaller
      <4>3. ~(Cardinality(T) <= Cardinality((T \ {x}) \ {y}))
        BY <4>2
      <4> QED
        BY <1>2, <4>2, <4>3
    <3>5. g[(T \ {x}) \ {y}] \in Int /\ f[x] \in Nat /\ f[y] \in Nat
      BY <2>2, <3>4
    <3>6. \A i, j, k \in Int : i + (j + k) = j + (i + k)
      OBVIOUS
    <3>7. f[y] + (f[x] + g[(T \ {x}) \ {y}]) = f[x] + (f[y] + g[(T \ {x}) \ {y}])
      BY <3>5, <3>6
    <3> QED
      BY <2>2, <3>1, <3>2, <3>3, <3>7
  <2> QED
    BY <2>2, <2>4, <2>5
<1>3. bad = {}
  <2> HIDE DEF Fine
  <2> QED
    BY <1>2, SmallestSet
<1> QED
  BY <1>1, <1>3

(* A sum of greater terms is not smaller.                                     *)
LEMMA SumMonotone ==
  ASSUME NEW S, IsFiniteSet(S), NEW f, NEW g, NEW e, NEW h, Adds(g, f, S), Adds(h, e, S),
         \A x \in S : f[x] \in Nat /\ e[x] \in Nat /\ f[x] <= e[x]
  PROVE  g[S] <= h[S]
<1> DEFINE bad == {T \in SUBSET S : ~(g[T] <= h[T])}
<1>1. /\ g[{}] = 0 /\ h[{}] = 0
      /\ \A T \in SUBSET S : g[T] \in Nat /\ \A x \in T : g[T] = f[x] + g[T \ {x}]
      /\ \A T \in SUBSET S : h[T] \in Nat /\ \A x \in T : h[T] = e[x] + h[T \ {x}]
  BY SumStep
<1>2. ASSUME NEW T \in bad, \A U \in bad : Cardinality(T) <= Cardinality(U)
      PROVE  FALSE
  <2>1. T # {}
    <3> SUFFICES ASSUME T = {}
                 PROVE  FALSE
      OBVIOUS
    <3>1. g[T] = 0 /\ h[T] = 0
      BY <1>1
    <3>2. ~(g[T] <= h[T])
      BY <1>2
    <3> QED
      BY <3>1, <3>2
  <2>a. PICK x \in T : TRUE
    BY <2>1
  <2>2. T \ {x} \in SUBSET S /\ Cardinality(T) \in Nat
        /\ Cardinality(T \ {x}) = Cardinality(T) - 1
    BY Smaller
  <2>3. g[T \ {x}] <= h[T \ {x}]
    BY <1>2, <2>2
  <2>4. /\ g[T] = f[x] + g[T \ {x}] /\ h[T] = e[x] + h[T \ {x}]
        /\ g[T \ {x}] \in Nat /\ h[T \ {x}] \in Nat
        /\ f[x] \in Nat /\ e[x] \in Nat /\ f[x] <= e[x]
    BY <1>1, <2>2
  <2> QED
    BY <2>3, <2>4
<1>3. bad = {}
  BY <1>2, SmallestSet
<1> QED
  BY <1>3

(* Terms that are zero may be left out.                                       *)
LEMMA SumOfSome ==
  ASSUME NEW S, IsFiniteSet(S), NEW R \in SUBSET S, NEW f, NEW g, NEW e, NEW h,
         Adds(g, f, S), Adds(h, e, R),
         \A x \in S : f[x] \in Nat,
         \A x \in R : e[x] = f[x],
         \A x \in S \ R : f[x] = 0
  PROVE  g[S] = h[R]
<1> DEFINE bad == {T \in SUBSET S : g[T] # h[T \cap R]}
<1>0. IsFiniteSet(R)
  BY FS_Subset
<1>1. /\ g[{}] = 0 /\ h[{}] = 0
      /\ \A T \in SUBSET S : g[T] \in Nat /\ \A x \in T : g[T] = f[x] + g[T \ {x}]
      /\ \A T \in SUBSET R : h[T] \in Nat /\ \A x \in T : h[T] = e[x] + h[T \ {x}]
  BY <1>0, SumStep
<1>2. ASSUME NEW T \in bad, \A U \in bad : Cardinality(T) <= Cardinality(U)
      PROVE  FALSE
  <2>1. PICK x \in T : TRUE
    BY <1>1
  <2>2. T \ {x} \in SUBSET S /\ Cardinality(T) \in Nat
        /\ Cardinality(T \ {x}) = Cardinality(T) - 1
    BY Smaller
  <2>3. g[T \ {x}] = h[(T \ {x}) \cap R]
    BY <1>2, <2>2
  <2>4. g[T] = f[x] + g[T \ {x}] /\ g[T \ {x}] \in Nat /\ x \in S
    BY <1>1, <2>2
  <2>5. CASE x \in R
    <3>1. x \in T \cap R /\ (T \cap R) \ {x} = (T \ {x}) \cap R
      BY <2>5
    <3>2. h[T \cap R] = e[x] + h[(T \ {x}) \cap R]
      BY <1>1, <3>1
    <3> QED
      BY <2>3, <2>4, <2>5, <3>2
  <2>6. CASE x \notin R
    <3>1. (T \ {x}) \cap R = T \cap R
      BY <2>6
    <3>2. g[T] = g[T \ {x}]
      BY <2>4, <2>6
    <3>3. g[T] # h[T \cap R]
      OBVIOUS
    <3> QED
      BY <2>3, <3>1, <3>2, <3>3
  <2> QED
    BY <2>5, <2>6
<1>3. bad = {}
  BY <1>2, SmallestSet
<1>4. S \cap R = R
  OBVIOUS
<1> QED
  BY <1>3, <1>4

-----------------------------------------------------------------------------
(* The logs of one agent: p are the reports taken of it.                      *)

(* What a cap leaves of a log and one more entry: everything while there is   *)
(* room, and then all but the oldest.                                         *)
LogTakes(q, s, e, n) ==
  /\ Len(q) = IF Len(s) < n THEN Len(s) + 1 ELSE n
  /\ DOMAIN q = 1..Len(q) /\ Len(q) \in Nat \ {0}
  /\ q[Len(q)] = e
  /\ \A i \in 1..(Len(q) - 1) : q[i] = IF Len(s) < n THEN s[i] ELSE s[i + 1]

LEMMA NewestOfAppended ==
  ASSUME NEW T, NEW s \in Seq(T), NEW e \in T, NEW n \in Nat \ {0}, Len(s) <= n
  PROVE  /\ Newest(Append(s, e), n) \in Seq(T)
         /\ LogTakes(Newest(Append(s, e), n), s, e, n)
<1> DEFINE u == Append(s, e)
           q == Newest(u, n)
<1> SUFFICES q \in Seq(T) /\ LogTakes(q, s, e, n)
  OBVIOUS
<1> USE DEF LogTakes
<1>1. /\ u \in Seq(T) /\ Len(u) = Len(s) + 1 /\ Len(s) \in Nat
      /\ \A i \in 1..Len(s) : u[i] = s[i]
      /\ u[Len(s) + 1] = e
  BY AppendProperties, LenProperties
<1>2. \A i \in 1..(Len(s) + 1) : u[i] \in T
  BY <1>1, ElementOfSeq
<1> HIDE DEF u
<1>3. CASE Len(s) < n
  <2>1. q = SubSeq(u, 1, Len(u))
    <3>1. (IF Len(u) > n THEN Len(u) - n ELSE 0) + 1 = 1
      BY <1>1, <1>3
    <3> QED
      BY <3>1 DEF Newest
  <2>2. q = u
    BY <1>1, <2>1, SubSeqFull
  <2>3. DOMAIN u = 1..(Len(s) + 1)
    BY <1>1, LenProperties
  <2> QED
    BY <1>1, <1>3, <2>2, <2>3 DEF u
<1>4. CASE ~(Len(s) < n)
  <2>1. Len(s) = n /\ q = SubSeq(u, 2, n + 1)
    <3>1. Len(s) = n /\ Len(u) = n + 1
      BY <1>1, <1>4
    <3>2. (IF Len(u) > n THEN Len(u) - n ELSE 0) + 1 = 2
      BY <3>1
    <3> QED
      BY <3>1, <3>2 DEF Newest
  <2>2. /\ q \in Seq(T) /\ Len(q) = n
        /\ \A i \in 1..n : q[i] = u[i + 1]
    <3>1. 2 \in Int /\ n + 1 \in Int /\ \A i \in 2..(n + 1) : u[i] \in T
      BY <1>2, <2>1
    <3>2. /\ SubSeq(u, 2, n + 1) \in Seq(T)
          /\ Len(SubSeq(u, 2, n + 1)) = IF 2 <= n + 1 THEN (n + 1) - 2 + 1 ELSE 0
          /\ \A i \in 1..((n + 1) - 2 + 1) : SubSeq(u, 2, n + 1)[i] = u[2 + i - 1]
      BY <3>1, SubSeqProperties
    <3>3. \A i \in 1..n : 2 + i - 1 = i + 1
      OBVIOUS
    <3> QED
      BY <2>1, <3>2, <3>3
  <2>3. DOMAIN q = 1..n
    BY <2>2, LenProperties
  <2>4. q[n] = e
    BY <1>1, <2>1, <2>2
  <2>5. \A i \in 1..(n - 1) : q[i] = s[i + 1]
    BY <1>1, <2>1, <2>2
  <2> QED
    BY <2>1, <2>2, <2>3, <2>4, <2>5 DEF u
<1> QED
  BY <1>3, <1>4

(* What a cap leaves of a list: all but the oldest entries, as many as there  *)
(* are too many.                                                              *)
TooMany(s, n) == IF Len(s) > n THEN Len(s) - n ELSE 0

LEMMA NewestIs ==
  ASSUME NEW T, NEW s \in Seq(T), NEW n \in Nat \ {0}
  PROVE  /\ TooMany(s, n) \in 0..Len(s)
         /\ Newest(s, n) \in Seq(T)
         /\ Len(Newest(s, n)) = Len(s) - TooMany(s, n)
         /\ \A i \in 1..(Len(s) - TooMany(s, n)) : Newest(s, n)[i] = s[i + TooMany(s, n)]
<1> DEFINE l == Len(s)
           d == TooMany(s, n)
<1>1. l \in Nat /\ d \in 0..l
  BY LenProperties DEF TooMany
<1>2. \A i \in 1..l : s[i] \in T
  BY ElementOfSeq
<1>3. Newest(s, n) = SubSeq(s, d + 1, l)
  BY DEF Newest, TooMany
<1> HIDE DEF l, d
<1>4. d + 1 \in Int /\ l \in Int /\ \A i \in (d + 1)..l : s[i] \in T
  BY <1>1, <1>2
<1>5. /\ SubSeq(s, d + 1, l) \in Seq(T)
      /\ Len(SubSeq(s, d + 1, l)) = IF d + 1 <= l THEN l - (d + 1) + 1 ELSE 0
      /\ \A i \in 1..(l - (d + 1) + 1) : SubSeq(s, d + 1, l)[i] = s[(d + 1) + i - 1]
  BY <1>4, SubSeqProperties
<1>6. (IF d + 1 <= l THEN l - (d + 1) + 1 ELSE 0) = l - d
  BY <1>1
<1>7. \A i \in 1..(l - d) : i \in 1..(l - (d + 1) + 1) /\ (d + 1) + i - 1 = i + d
  BY <1>1
<1>8. \A i \in 1..(l - d) : SubSeq(s, d + 1, l)[i] = s[i + d]
  BY <1>5, <1>7
<1> QED
  BY <1>1, <1>3, <1>5, <1>6, <1>8 DEF l, d

LEMMA NewestFits ==
  ASSUME NEW T, NEW s \in Seq(T), NEW n \in Nat \ {0}
  PROVE  Len(Newest(s, n)) <= n
<1>1. Len(Newest(s, n)) = Len(s) - TooMany(s, n) /\ Len(s) \in Nat
  BY NewestIs, LenProperties
<1> QED
  BY <1>1 DEF TooMany

(* A log that is cut after every batch is cut as if all had come at once.     *)
LEMMA NewestTwice ==
  ASSUME NEW T, NEW s \in Seq(T), NEW u \in Seq(T), NEW n \in Nat \ {0}
  PROVE  /\ Newest(Newest(s, n) \o u, n) = Newest(s \o u, n)
         /\ s \o u \in Seq(T)
<1> DEFINE v  == Newest(s, n)
           x  == v \o u
           y  == s \o u
           d  == TooMany(s, n)
           dx == TooMany(x, n)
           dy == TooMany(y, n)
           ls == Len(s)
           lu == Len(u)
<1>1. /\ d \in 0..ls /\ v \in Seq(T) /\ Len(v) = ls - d
      /\ \A i \in 1..(ls - d) : v[i] = s[i + d]
      /\ ls \in Nat /\ lu \in Nat
  BY NewestIs, LenProperties
<1> HIDE DEF v
<1>2. /\ x \in Seq(T) /\ Len(x) = (ls - d) + lu
      /\ \A i \in 1..((ls - d) + lu) : x[i] = IF i <= ls - d THEN v[i] ELSE u[i - (ls - d)]
  <2>1. /\ v \o u \in Seq(T) /\ Len(v \o u) = Len(v) + Len(u)
        /\ \A i \in 1..(Len(v) + Len(u)) :
             (v \o u)[i] = IF i <= Len(v) THEN v[i] ELSE u[i - Len(v)]
    BY <1>1, ConcatProperties
  <2> QED
    BY <1>1, <2>1
<1>3. /\ y \in Seq(T) /\ Len(y) = ls + lu
      /\ \A i \in 1..(ls + lu) : y[i] = IF i <= ls THEN s[i] ELSE u[i - ls]
  BY <1>1, ConcatProperties
<1>4. d = (IF ls > n THEN ls - n ELSE 0)
  BY DEF TooMany
<1>5. dx = (IF (ls - d) + lu > n THEN ((ls - d) + lu) - n ELSE 0)
  BY <1>2 DEF TooMany
<1>6. dy = (IF ls + lu > n THEN (ls + lu) - n ELSE 0)
  BY <1>3 DEF TooMany
<1> HIDE DEF x, y, d, dx, dy, ls, lu
<1>7. dy = d + dx /\ dx \in Nat /\ dx <= (ls - d) + lu /\ dy \in Nat /\ dy <= ls + lu
  BY <1>1, <1>4, <1>5, <1>6
<1>8. \A i \in 1..((ls - d) + lu) : x[i] = y[i + d]
  <2> SUFFICES ASSUME NEW i \in 1..((ls - d) + lu)
               PROVE  x[i] = y[i + d]
    OBVIOUS
  <2>1. i + d \in 1..(ls + lu) /\ (i <= ls - d <=> i + d <= ls) /\ i - (ls - d) = (i + d) - ls
    BY <1>1
  <2>2. i <= ls - d => i \in 1..(ls - d)
    BY <1>1
  <2> QED
    BY <1>1, <1>2, <1>3, <2>1, <2>2
<1>9. /\ Newest(x, n) \in Seq(T) /\ Len(Newest(x, n)) = ((ls - d) + lu) - dx
      /\ \A i \in 1..(((ls - d) + lu) - dx) : Newest(x, n)[i] = x[i + dx]
  BY <1>2, NewestIs DEF dx
<1>10. /\ Newest(y, n) \in Seq(T) /\ Len(Newest(y, n)) = (ls + lu) - dy
       /\ \A i \in 1..((ls + lu) - dy) : Newest(y, n)[i] = y[i + dy]
  BY <1>3, NewestIs DEF dy
<1>11. ((ls - d) + lu) - dx = (ls + lu) - dy
  BY <1>1, <1>7
<1>12. ASSUME NEW i \in 1..((ls + lu) - dy)
       PROVE  Newest(x, n)[i] = Newest(y, n)[i]
  <2>1. i + dx \in 1..((ls - d) + lu) /\ (i + dx) + d = i + dy
    BY <1>1, <1>7
  <2> QED
    BY <1>8, <1>9, <1>10, <1>11, <2>1
<1>13. Newest(x, n) = Newest(y, n)
  <2> DEFINE nx == Newest(x, n)
             ny == Newest(y, n)
  <2>1. /\ nx \in Seq(T) /\ ny \in Seq(T) /\ Len(nx) = Len(ny)
        /\ Len(nx) = (ls + lu) - dy
        /\ \A i \in 1..((ls + lu) - dy) : nx[i] = ny[i]
    BY <1>9, <1>10, <1>11, <1>12
  <2> HIDE DEF nx, ny
  <2>2. nx = ny
    BY <2>1, SeqEqual
  <2> QED
    BY <2>2 DEF nx, ny
<1> QED
  BY <1>3, <1>13 DEF x, y, v

LEMMA Appended ==
  ASSUME NEW T, NEW p \in Seq(T), NEW k \in T
  PROVE  /\ Append(p, k) \in Seq(T) /\ Len(p) \in Nat
         /\ Len(Append(p, k)) = Len(p) + 1
         /\ DOMAIN p = 1..Len(p) /\ DOMAIN Append(p, k) = 1..(Len(p) + 1)
         /\ \A i \in 1..Len(p) : Append(p, k)[i] = p[i]
         /\ Append(p, k)[Len(p) + 1] = k
BY AppendProperties, LenProperties

LEMMA RoomOrFull ==
  ASSUME NEW l \in Nat, NEW n \in Nat, l <= n
  PROVE  (l < n /\ l # n) \/ (l = n /\ ~(l < n))
OBVIOUS

(* A log stays the newest of its kind when a report is not for it ...         *)
LEMMA NewestSkips ==
  ASSUME NEW p \in Seq(Nat), NEW k \in Nat, NEW S \in SUBSET (DOMAIN p), NEW log \in Seq(Nat),
         NEW n \in Nat, NewestOf(log, p, S, n)
  PROVE  NewestOf(log, Append(p, k), S, n)
<1>1. \A i \in DOMAIN p : Append(p, k)[i] = p[i]
  BY Appended
<1>2. PICK f \in [DOMAIN log -> S] :
        /\ \A i \in DOMAIN log : log[i] = p[f[i]]
        /\ \A i, j \in DOMAIN log : i < j => f[i] < f[j]
        /\ \A i \in S : \/ \E j \in DOMAIN log : f[j] = i
                        \/ Len(log) = n /\ \A j \in DOMAIN log : i < f[j]
  BY DEF NewestOf
<1>3. \A i \in DOMAIN log : log[i] = Append(p, k)[f[i]]
  BY <1>1, <1>2
<1>4. Len(log) <= n
  BY DEF NewestOf
<1> QED
  BY <1>2, <1>3, <1>4 DEF NewestOf

(* ... and when it takes a report, dropping its oldest entry at the cap.      *)
LEMMA NewestTakes ==
  ASSUME NEW p \in Seq(Nat), NEW k \in Nat, NEW S \in SUBSET (DOMAIN p), NEW log \in Seq(Nat),
         NEW n \in Nat \ {0}, NewestOf(log, p, S, n)
  PROVE  NewestOf(Newest(Append(log, k), n), Append(p, k), S \cup {Len(p) + 1}, n)
<1> DEFINE q  == Newest(Append(log, k), n)
           pk == Append(p, k)
           new == Len(p) + 1
<1>1. /\ Len(p) \in Nat /\ DOMAIN p = 1..Len(p)
      /\ \A i \in 1..Len(p) : pk[i] = p[i]
      /\ pk[new] = k
  BY Appended
<1>2. PICK f \in [DOMAIN log -> S] :
        /\ \A i \in DOMAIN log : log[i] = p[f[i]]
        /\ \A i, j \in DOMAIN log : i < j => f[i] < f[j]
        /\ \A i \in S : \/ \E j \in DOMAIN log : f[j] = i
                        \/ Len(log) = n /\ \A j \in DOMAIN log : i < f[j]
  BY DEF NewestOf
<1>3. Len(log) <= n /\ Len(log) \in Nat /\ DOMAIN log = 1..Len(log)
  BY LenProperties DEF NewestOf
<1>4. /\ Len(q) = IF Len(log) < n THEN Len(log) + 1 ELSE n
      /\ DOMAIN q = 1..Len(q) /\ Len(q) \in Nat \ {0}
      /\ q[Len(q)] = k
      /\ \A i \in 1..(Len(q) - 1) : q[i] = IF Len(log) < n THEN log[i] ELSE log[i + 1]
  <2>1. Len(log) <= n
    BY <1>3
  <2>2. LogTakes(q, log, k, n)
    BY <2>1, NewestOfAppended
  <2> QED
    BY <2>2 DEF LogTakes
<1>5. \A i \in S : i \in 1..Len(p) /\ i < new
  BY <1>1
<1>a. (Len(log) < n /\ Len(log) # n) \/ (Len(log) = n /\ ~(Len(log) < n))
  BY <1>3, RoomOrFull
<1> HIDE DEF q, pk
<1>6. CASE Len(log) < n /\ Len(log) # n
  <2> DEFINE h == [i \in DOMAIN q |-> IF i = Len(q) THEN new ELSE f[i]]
  <2>a. Len(q) = Len(log) + 1 /\ Len(log) \in Nat
    BY <1>3, <1>4, <1>6
  <2>1. Len(q) = Len(log) + 1 /\ \A i \in DOMAIN q : i # Len(q) => i \in DOMAIN log
    <3>1. \A l \in Nat : \A i \in 1..(l + 1) : i # l + 1 => i \in 1..l
      OBVIOUS
    <3> QED
      BY <1>3, <1>4, <2>a, <3>1
  <2>2. h \in [DOMAIN q -> S \cup {new}]
    BY <1>2, <2>1
  <2>3. \A i \in DOMAIN q : q[i] = pk[h[i]]
    <3> SUFFICES ASSUME NEW i \in DOMAIN q
                 PROVE  q[i] = pk[h[i]]
      OBVIOUS
    <3>1. CASE i = Len(q)
      BY <1>1, <1>4, <3>1
    <3>2. CASE i # Len(q)
      <4>1. i \in DOMAIN log /\ i \in 1..(Len(q) - 1)
        BY <1>4, <2>1, <3>2
      <4>2. q[i] = log[i] /\ log[i] = p[f[i]] /\ f[i] \in S
        BY <1>2, <1>4, <1>6, <4>1
      <4> QED
        BY <1>1, <1>5, <3>2, <4>2
    <3> QED
      BY <3>1, <3>2
  <2>4. \A i, j \in DOMAIN q : i < j => h[i] < h[j]
    <3> SUFFICES ASSUME NEW i \in DOMAIN q, NEW j \in DOMAIN q, i < j
                 PROVE  h[i] < h[j]
      OBVIOUS
    <3>1. i # Len(q) /\ i \in DOMAIN log /\ f[i] \in S
      BY <1>2, <1>4, <2>1
    <3>2. CASE j = Len(q)
      BY <1>5, <3>1, <3>2
    <3>3. CASE j # Len(q)
      BY <1>2, <2>1, <3>1, <3>3
    <3> QED
      BY <3>2, <3>3
  <2>5. \A i \in S \cup {new} : \E j \in DOMAIN q : h[j] = i
    <3>1. h[Len(q)] = new /\ Len(q) \in DOMAIN q
      BY <1>4
    <3>2. ASSUME NEW i \in S
          PROVE  \E j \in DOMAIN q : h[j] = i
      <4>1. PICK j \in DOMAIN log : f[j] = i
        BY <1>2, <1>6
      <4>2. j \in DOMAIN q /\ j # Len(q)
        BY <1>3, <1>4, <2>1
      <4> QED
        BY <4>1, <4>2
    <3> QED
      BY <3>1, <3>2
  <2>6. Len(q) <= n
    <3>1. \A l, m \in Nat : l < m => l + 1 <= m
      OBVIOUS
    <3>2. Len(log) \in Nat /\ n \in Nat /\ Len(log) < n
      BY <1>6, <2>a
    <3>3. Len(log) + 1 <= n
      BY <3>1, <3>2
    <3> QED
      BY <2>a, <3>3
  <2> HIDE DEF h
  <2>7. \E g \in [DOMAIN q -> S \cup {new}] :
          /\ \A i \in DOMAIN q : q[i] = pk[g[i]]
          /\ \A i, j \in DOMAIN q : i < j => g[i] < g[j]
          /\ \A i \in S \cup {new} : \/ \E j \in DOMAIN q : g[j] = i
                                     \/ Len(q) = n /\ \A j \in DOMAIN q : i < g[j]
    <3> WITNESS h \in [DOMAIN q -> S \cup {new}]
    <3> QED
      BY <2>3, <2>4, <2>5
  <2>8. NewestOf(q, pk, S \cup {new}, n)
    BY <2>6, <2>7 DEF NewestOf
  <2> QED
    BY <2>8 DEF q, pk
<1>7. CASE Len(log) = n /\ ~(Len(log) < n)
  <2> DEFINE h == [i \in DOMAIN q |-> IF i = n THEN new ELSE f[i + 1]]
  <2>1. /\ Len(log) = n /\ Len(q) = n /\ DOMAIN q = 1..n /\ DOMAIN log = 1..n
        /\ \A i \in 1..n : i # n => i + 1 \in 1..n
    <3>1. Len(log) = n
      BY <1>7
    <3>2. Len(q) = n
      BY <1>4, <1>7
    <3> QED
      BY <1>3, <1>4, <3>1, <3>2
  <2>2. h \in [DOMAIN q -> S \cup {new}]
    BY <1>2, <2>1
  <2>3. \A i \in DOMAIN q : q[i] = pk[h[i]]
    <3> SUFFICES ASSUME NEW i \in 1..n
                 PROVE  q[i] = pk[h[i]]
      BY <2>1
    <3>1. CASE i = n
      BY <1>1, <1>4, <2>1, <3>1
    <3>2. CASE i # n
      <4>1. i + 1 \in 1..n /\ i \in 1..(n - 1)
        BY <3>2
      <4>2. q[i] = log[i + 1] /\ log[i + 1] = p[f[i + 1]] /\ f[i + 1] \in S
        BY <1>2, <1>4, <1>7, <2>1, <4>1
      <4> QED
        BY <1>1, <1>5, <2>1, <3>2, <4>2
    <3> QED
      BY <3>1, <3>2
  <2>4. \A i, j \in DOMAIN q : i < j => h[i] < h[j]
    <3> SUFFICES ASSUME NEW i \in 1..n, NEW j \in 1..n, i < j
                 PROVE  h[i] < h[j]
      BY <2>1
    <3>0. i # n /\ i + 1 \in 1..n
      OBVIOUS
    <3>1. i # n /\ i + 1 \in 1..n /\ f[i + 1] \in S
      <4>1. i + 1 \in DOMAIN log
        BY <2>1, <3>0
      <4> QED
        BY <1>2, <3>0, <4>1
    <3>2. CASE j = n
      BY <1>5, <2>1, <3>1, <3>2
    <3>3. CASE j # n
      <4>1. i + 1 \in DOMAIN log /\ j + 1 \in DOMAIN log /\ i + 1 < j + 1
        BY <2>1, <3>0, <3>3
      <4>2. f[i + 1] < f[j + 1]
        BY <1>2, <4>1
      <4> QED
        BY <2>1, <3>0, <3>3, <4>2
    <3> QED
      BY <3>2, <3>3
  <2>5. ASSUME NEW i \in S \cup {new}
        PROVE  (\E j \in DOMAIN q : h[j] = i) \/ \A j \in DOMAIN q : i < h[j]
    <3>1. CASE i = new
      <4>1. n \in DOMAIN q /\ h[n] = new
        BY <2>1
      <4> QED
        BY <3>1, <4>1
    <3>2. ASSUME i \in S, NEW m \in DOMAIN log, f[m] = i, m # 1
          PROVE  \E j \in DOMAIN q : h[j] = i
      <4>1. m - 1 \in DOMAIN q /\ m - 1 # n /\ (m - 1) + 1 = m
        <5>1. \A l \in Nat \ {0} : \A j \in 1..l : j # 1 => j - 1 \in 1..l /\ j - 1 # l /\ (j - 1) + 1 = j
          OBVIOUS
        <5>2. m \in 1..n /\ DOMAIN q = 1..n /\ m # 1
          BY <2>1, <3>2
        <5> QED
          BY <5>1, <5>2
      <4> QED
        BY <3>2, <4>1
    <3>3. ASSUME i \in S, f[1] = i
          PROVE  \A j \in DOMAIN q : i < h[j]
      <4> SUFFICES ASSUME NEW j \in 1..n
                   PROVE  i < h[j]
        BY <2>1
      <4>1. CASE j = n
        BY <1>5, <2>1, <3>3, <4>1
      <4>2. CASE j # n
        <5>1. 1 \in DOMAIN log /\ j + 1 \in DOMAIN log /\ 1 < j + 1
          BY <2>1, <4>2
        <5>2. f[1] < f[j + 1]
          BY <1>2, <5>1
        <5> QED
          BY <2>1, <3>3, <4>2, <5>2
      <4> QED
        BY <4>1, <4>2
    <3>4. ASSUME i \in S, \A j \in DOMAIN log : i < f[j]
          PROVE  \A j \in DOMAIN q : i < h[j]
      BY <1>5, <2>1, <3>4
    <3> QED
      BY <1>2, <3>1, <3>2, <3>3, <3>4
  <2>6. Len(q) <= n
    BY <2>1
  <2> HIDE DEF h
  <2>7. \E g \in [DOMAIN q -> S \cup {new}] :
          /\ \A i \in DOMAIN q : q[i] = pk[g[i]]
          /\ \A i, j \in DOMAIN q : i < j => g[i] < g[j]
          /\ \A i \in S \cup {new} : \/ \E j \in DOMAIN q : g[j] = i
                                     \/ Len(q) = n /\ \A j \in DOMAIN q : i < g[j]
    <3> WITNESS h \in [DOMAIN q -> S \cup {new}]
    <3> QED
      BY <2>1, <2>3, <2>4, <2>5
  <2>8. NewestOf(q, pk, S \cup {new}, n)
    BY <2>6, <2>7 DEF NewestOf
  <2> QED
    BY <2>8 DEF q, pk
<1> QED
  BY <1>a, <1>6, <1>7

-----------------------------------------------------------------------------
(* The two sums of the model are such sums.                                   *)

LatestSum(r, S) == MapThenSumSet(LAMBDA a : r[a].latest, S)
FinalSum(S)     == MapThenSumSet(Final, S)

LEMMA LatestSumAdds ==
  ASSUME NEW S, IsFiniteSet(S), NEW r
  PROVE  \E g : Adds(g, [a \in S |-> r[a].latest], S) /\ LatestSum(r, S) = g[S]
<1> DEFINE f == [a \in S |-> r[a].latest]
           It(g) == g = [s \in SUBSET S |-> IF s = {} THEN 0
                           ELSE r[CHOOSE x \in s : TRUE].latest + g[s \ {CHOOSE x \in s : TRUE}]]
<1>1. PICK g : Adds(g, f, S)
  BY SumExists
<1>2. ASSUME NEW h
      PROVE  It(h) <=> Adds(h, f, S)
  <2>1. \A s \in SUBSET S : s # {} => f[Pick(s)] = r[CHOOSE x \in s : TRUE].latest
    BY PickIsMember DEF Pick
  <2>2. [s \in SUBSET S |-> IF s = {} THEN 0
                           ELSE r[CHOOSE x \in s : TRUE].latest + h[s \ {CHOOSE x \in s : TRUE}]]
        = [s \in SUBSET S |-> IF s = {} THEN 0 ELSE f[Pick(s)] + h[s \ {Pick(s)}]]
    <3> HIDE DEF f
    <3> QED
      BY <2>1 DEF Pick
  <2> QED
    BY <2>2 DEF Adds
<1>3. It(CHOOSE g_1 : It(g_1))
  <2>1. It(g)
    BY <1>1, <1>2
  <2> HIDE DEF It
  <2> QED
    BY <2>1
<1>4. LatestSum(r, S) = (CHOOSE g_1 : It(g_1))[S]
  BY DEF LatestSum, MapThenSumSet, MapThenFoldSet
<1> QED
  BY <1>2, <1>3, <1>4

LEMMA FinalSumAdds ==
  ASSUME NEW S, IsFiniteSet(S)
  PROVE  \E g : Adds(g, [a \in S |-> Final(a)], S) /\ FinalSum(S) = g[S]
<1> DEFINE f == [a \in S |-> Final(a)]
           It(g) == g = [s \in SUBSET S |-> IF s = {} THEN 0
                           ELSE Final(CHOOSE x \in s : TRUE) + g[s \ {CHOOSE x \in s : TRUE}]]
<1>1. PICK g : Adds(g, f, S)
  BY SumExists
<1>2. ASSUME NEW h
      PROVE  It(h) <=> Adds(h, f, S)
  <2>1. \A s \in SUBSET S : s # {} => f[Pick(s)] = Final(CHOOSE x \in s : TRUE)
    BY PickIsMember DEF Pick
  <2>2. [s \in SUBSET S |-> IF s = {} THEN 0
                           ELSE Final(CHOOSE x \in s : TRUE) + h[s \ {CHOOSE x \in s : TRUE}]]
        = [s \in SUBSET S |-> IF s = {} THEN 0 ELSE f[Pick(s)] + h[s \ {Pick(s)}]]
    <3> HIDE DEF f
    <3> QED
      BY <2>1 DEF Pick
  <2> QED
    BY <2>2 DEF Adds
<1>3. It(CHOOSE g_1 : It(g_1))
  <2>1. It(g)
    BY <1>1, <1>2
  <2> HIDE DEF It
  <2> QED
    BY <2>1
<1>4. FinalSum(S) = (CHOOSE g_1 : It(g_1))[S]
  BY DEF FinalSum, MapThenSumSet, MapThenFoldSet
<1> QED
  BY <1>2, <1>3, <1>4

-----------------------------------------------------------------------------
(* What is kept of one agent, r, after the reports p were taken of it, with   *)
(* their failed requests f, and the events n were noted.                      *)

Links      == STRING \cup {NoLink}
LinkChange == {"wifi_lost", "wifi_back", "roam"} \X Links \X Links
AnyEvent   == LinkChange \cup {PresenceEvent}
Failure(a) == (1..Final(a)) \X Nat

ResultType(a) ==
  [latest  : 0..Final(a),
   history : Seq(1..Running[a]),
   errors  : Seq(Failure(a)),
   events  : Seq(AnyEvent),
   seen    : BOOLEAN,
   link    : Links]

LastFigures(a, r, p) == r.latest = IF p = << >> THEN 0 ELSE Requests(a, p[Len(p)])

(* The last entry of the history is the greatest running report so far.       *)
HistoryEndsAtTop(a, r, p) ==
  \A i \in DOMAIN p : p[i] <= Running[a] =>
    r.history # << >> /\ p[i] <= r.history[Len(r.history)]

(* All events noted after readings of the links H, of which the last is shown.*)
EventsLead(n, seen, link, H) ==
  /\ IF seen THEN link \in H ELSE H = {} /\ LinksIn(n) = {}
  /\ \A j \in LinksIn(n) : n[j][2] \in H
  /\ Hidden \notin H =>
       /\ LinksIn(n) = {} => H \subseteq {link}
       /\ \A j \in LinksIn(n) : (\A k \in LinksIn(n) : k <= j) => n[j][3] = link
       /\ \A i, j \in LinksIn(n) : i < j /\ (\A k \in LinksIn(n) : k <= i \/ j <= k)
                                   => n[i][3] = n[j][2]

Good(a, r, p, f, n) ==
  /\ p \in Seq(1..Summary(a)) /\ f \in Seq(Failure(a)) /\ n \in Seq(AnyEvent)
  /\ r \in ResultType(a)
  /\ LastFigures(a, r, p)
  /\ HistoryEndsAtTop(a, r, p)
  /\ NewestOf(r.history, p, Advances(a, p), maxHistory)
  /\ r.errors = Newest(f, maxErrorLog)
  /\ r.events = Newest(n, maxEvents)
  /\ EventsLead(n, r.seen, r.link, Heard(a, p))

LEMMA Constants ==
  /\ maxHistory \in Nat \ {0} /\ maxErrorLog \in Nat \ {0} /\ maxEvents \in Nat \ {0}
  /\ \A a \in Agents : /\ Running[a] \in Nat /\ Final(a) = Running[a] + 1
                       /\ Summary(a) = Running[a] + 2
                       /\ \A k \in 1..Final(a) : /\ Reading[a][k] \in Links
                                                /\ Batch(a, k) \in Seq(Failure(a))
<1>2. ASSUME NEW a \in Agents, NEW k \in 1..Final(a)
      PROVE  Batch(a, k) \in Seq(Failure(a))
  <2> DEFINE l == Failed[a][k]
  <2>1. l \in Nat
    <3>1. Failed[a] \in Seq(Nat) /\ Len(Failed[a]) = Running[a] + 1
      BY FiguresAssumption DEF FiguresAssumption
    <3> QED
      BY <3>1, ElementOfSeq DEF Final
  <2> HIDE DEF l
  <2>2. \A i \in 1..l : <<k, i>> \in Failure(a)
    BY DEF Failure
  <2>3. [i \in 1..l |-> <<k, i>>] \in Seq(Failure(a))
    BY <2>1, <2>2
  <2> QED
    BY <2>3 DEF Batch, l
<1>1. ASSUME NEW a \in Agents, NEW k \in 1..Final(a)
      PROVE  Reading[a][k] \in Links
  <2>1. Reading[a] \in Seq(STRING) /\ Len(Reading[a]) = Running[a] + 1
    BY FiguresAssumption DEF FiguresAssumption
  <2> QED
    BY <2>1, ElementOfSeq DEF Final, Links
<1> QED
  BY <1>1, <1>2, FiguresAssumption DEF FiguresAssumption, Final, Summary

(* Positions of the reports when one more is taken.                           *)
LEMMA HeardAppend ==
  ASSUME NEW a \in Agents, NEW p \in Seq(1..Summary(a)), NEW k \in 1..Summary(a)
  PROVE  Heard(a, Append(p, k)) =
           Heard(a, p) \cup (IF k = Summary(a) THEN {} ELSE {Reading[a][k]})
<1> DEFINE F(q) == {j \in DOMAIN q : q[j] # Summary(a)}
<1>1. /\ DOMAIN p = 1..Len(p) /\ Len(p) \in Nat
      /\ DOMAIN Append(p, k) = 1..(Len(p) + 1)
      /\ \A i \in 1..Len(p) : Append(p, k)[i] = p[i]
      /\ Append(p, k)[Len(p) + 1] = k
  BY Appended
<1>2. F(p) \subseteq 1..Len(p)
  BY <1>1
<1>3. F(Append(p, k)) = F(p) \cup (IF k = Summary(a) THEN {} ELSE {Len(p) + 1})
  BY <1>1
<1>4. Heard(a, p) = {Reading[a][p[i]] : i \in F(p)}
      /\ Heard(a, Append(p, k)) = {Reading[a][Append(p, k)[i]] : i \in F(Append(p, k))}
  BY DEF Heard
<1> HIDE DEF F
<1> QED
  BY <1>1, <1>2, <1>3, <1>4

LEMMA AdvancesAppend ==
  ASSUME NEW a \in Agents, NEW p \in Seq(1..Summary(a)), NEW k \in 1..Summary(a)
  PROVE  Advances(a, Append(p, k)) =
           Advances(a, p) \cup
             (IF k <= Running[a] /\ (\A j \in DOMAIN p : p[j] <= Running[a] => p[j] < k)
              THEN {Len(p) + 1} ELSE {})
<1>1. /\ DOMAIN p = 1..Len(p) /\ Len(p) \in Nat
      /\ DOMAIN Append(p, k) = 1..(Len(p) + 1)
      /\ \A i \in 1..Len(p) : Append(p, k)[i] = p[i]
      /\ Append(p, k)[Len(p) + 1] = k
  BY Appended
<1>2. \A i \in 1..Len(p) : i \in Advances(a, Append(p, k)) <=> i \in Advances(a, p)
  <2>1. \A i \in 1..Len(p) : \A j \in 1..(i - 1) : j \in 1..Len(p)
    BY <1>1
  <2> QED
    BY <1>1, <2>1 DEF Advances
<1>3. Len(p) + 1 \in Advances(a, Append(p, k)) <=>
        k <= Running[a] /\ (\A j \in DOMAIN p : p[j] <= Running[a] => p[j] < k)
  <2>1. 1..((Len(p) + 1) - 1) = DOMAIN p
    BY <1>1
  <2>2. Len(p) + 1 \in DOMAIN Append(p, k)
    BY <1>1
  <2> QED
    BY <1>1, <2>1, <2>2 DEF Advances
<1>4. Advances(a, Append(p, k)) \subseteq 1..(Len(p) + 1) /\ Advances(a, p) \subseteq 1..Len(p)
  BY <1>1 DEF Advances
<1>5. \A i \in 1..(Len(p) + 1) : i \in 1..Len(p) \/ i = Len(p) + 1
  BY <1>1
<1>6. Len(p) + 1 \notin 1..Len(p)
  BY <1>1
<1> QED
  BY <1>2, <1>3, <1>4, <1>5, <1>6

-----------------------------------------------------------------------------
(* The events.                                                                *)

LEMMA LinkEventIs ==
  ASSUME NEW from \in Links, NEW to \in Links
  PROVE  \/ LinkEvent(from, to) = << >> /\ (from = to \/ Hidden \in {from, to})
         \/ \E e \in LinkChange : LinkEvent(from, to) = <<e>> /\ e[2] = from /\ e[3] = to
<1>2. NoLink # Hidden
  BY DEF NoLink, Hidden
<1>3. CASE from # NoLink /\ to = NoLink
  <2> DEFINE e == <<"wifi_lost", from, to>>
  <2>1. LinkEvent(from, to) = <<e>>
    BY <1>3 DEF LinkEvent
  <2>2. e \in LinkChange /\ e[2] = from /\ e[3] = to
    BY DEF LinkChange
  <2> HIDE DEF e
  <2> QED
    BY <2>1, <2>2
<1>4. CASE from = NoLink /\ to # NoLink
  <2> DEFINE e == <<"wifi_back", from, to>>
  <2>1. LinkEvent(from, to) = <<e>>
    BY <1>4 DEF LinkEvent
  <2>2. e \in LinkChange /\ e[2] = from /\ e[3] = to
    BY DEF LinkChange
  <2> HIDE DEF e
  <2> QED
    BY <2>1, <2>2
<1>5. CASE {from, to} \cap {NoLink, Hidden} = {} /\ from # to
  <2> DEFINE e == <<"roam", from, to>>
  <2>1. LinkEvent(from, to) = <<e>>
    BY <1>5 DEF LinkEvent
  <2>2. e \in LinkChange /\ e[2] = from /\ e[3] = to
    BY DEF LinkChange
  <2> HIDE DEF e
  <2> QED
    BY <2>1, <2>2
<1>6. CASE /\ ~(from # NoLink /\ to = NoLink)
           /\ ~(from = NoLink /\ to # NoLink)
           /\ ~({from, to} \cap {NoLink, Hidden} = {} /\ from # to)
  <2>1. LinkEvent(from, to) = << >>
    BY <1>6 DEF LinkEvent
  <2>2. from = to \/ Hidden \in {from, to}
    BY <1>2, <1>6
  <2> QED
    BY <2>1, <2>2
<1> QED
  BY <1>3, <1>4, <1>5, <1>6

LEMMA OneEvent ==
  ASSUME NEW n \in Seq(AnyEvent), NEW e \in AnyEvent
  PROVE  /\ n \o <<e>> = Append(n, e)
         /\ n \o << >> = n
         /\ <<e>> \in Seq(AnyEvent) /\ << >> \in Seq(AnyEvent)
BY ConcatEmptySeq

(* Where the link events are when one more event is noted.                    *)
LEMMA LinksInAppended ==
  ASSUME NEW n \in Seq(AnyEvent), NEW e \in AnyEvent
  PROVE  /\ LinksIn(Append(n, e)) =
              LinksIn(n) \cup (IF e = PresenceEvent THEN {} ELSE {Len(n) + 1})
         /\ Len(n) \in Nat /\ LinksIn(n) \subseteq 1..Len(n)
         /\ \A i \in LinksIn(n) : Append(n, e)[i] = n[i]
         /\ Append(n, e)[Len(n) + 1] = e
BY Appended DEF LinksIn

(* A drop or a return of the connection changes nothing of the links.         *)
LEMMA PresenceNoted ==
  ASSUME NEW n \in Seq(AnyEvent), NEW seen, NEW link, NEW H, EventsLead(n, seen, link, H)
  PROVE  EventsLead(Append(n, PresenceEvent), seen, link, H)
<1> DEFINE q == Append(n, PresenceEvent)
<1>1. LinksIn(q) = LinksIn(n) /\ \A i \in LinksIn(n) : q[i] = n[i]
  <2>1. PresenceEvent \in AnyEvent
    BY DEF AnyEvent
  <2>2. LinksIn(q) = LinksIn(n) \cup (IF PresenceEvent = PresenceEvent THEN {} ELSE {Len(n) + 1})
        /\ \A i \in LinksIn(n) : q[i] = n[i]
    BY <2>1, LinksInAppended
  <2> HIDE DEF q
  <2> QED
    BY <2>2
<1> HIDE DEF q
<1>2. EventsLead(q, seen, link, H)
  BY <1>1 DEF EventsLead
<1> QED
  BY <1>2 DEF q

(* A change of the link begins where the last one ended.                      *)
LEMMA ChangeNoted ==
  ASSUME NEW n \in Seq(AnyEvent), NEW link \in Links, NEW new \in Links, NEW H,
         EventsLead(n, TRUE, link, H), NEW e \in LinkChange, e[2] = link, e[3] = new
  PROVE  EventsLead(Append(n, e), TRUE, new, H \cup {new})
<1> DEFINE q == Append(n, e)
           L == LinksIn(n)
           l == Len(n)
<1>1. e # PresenceEvent
  <2>1. e[1] # "presence" /\ PresenceEvent[1] = "presence"
    BY DEF LinkChange, PresenceEvent
  <2> QED
    BY <2>1
<1>2. /\ LinksIn(q) = L \cup {l + 1} /\ l \in Nat /\ L \subseteq 1..l
      /\ \A i \in L : q[i] = n[i]
      /\ q[l + 1] = e
  BY <1>1, LinksInAppended DEF AnyEvent
<1>3. link \in H /\ \A j \in L : n[j][2] \in H
  BY DEF EventsLead
<1>4. \A j \in LinksIn(q) : q[j][2] \in H \cup {new}
  BY <1>2, <1>3
<1>5. ASSUME Hidden \notin H
      PROVE  /\ \A j \in L : (\A k \in L : k <= j) => n[j][3] = link
             /\ \A i, j \in L : i < j /\ (\A k \in L : k <= i \/ j <= k) => n[i][3] = n[j][2]
  BY <1>5 DEF EventsLead
<1> HIDE DEF q, L, l
<1>6. LinksIn(q) # {}
  BY <1>2
<1>7. \A j \in LinksIn(q) : (\A k \in LinksIn(q) : k <= j) => q[j][3] = new
  <2> SUFFICES ASSUME NEW j \in LinksIn(q), \A k \in LinksIn(q) : k <= j
               PROVE  q[j][3] = new
    OBVIOUS
  <2>1. l + 1 <= j /\ (j \in 1..l \/ j = l + 1)
    BY <1>2
  <2>2. j = l + 1
    BY <1>2, <2>1
  <2> QED
    BY <1>2, <2>2
<1>8. ASSUME Hidden \notin H, NEW i \in LinksIn(q), NEW j \in LinksIn(q), i < j,
             \A k \in LinksIn(q) : k <= i \/ j <= k
      PROVE  q[i][3] = q[j][2]
  <2>1. (i \in L \/ i = l + 1) /\ (j \in L \/ j = l + 1) /\ \A k \in L : k \in 1..l
    BY <1>2
  <2>2. i \in L /\ i \in 1..l
    <3>1. i # l + 1
      <4>1. j \in 1..(l + 1) /\ l \in Nat
        <5>1. l \in Nat /\ (j \in 1..l \/ j = l + 1)
          BY <1>2, <2>1
        <5> QED
          BY <5>1
      <4>2. ~(l + 1 < j)
        BY <4>1
      <4> QED
        BY <1>8, <4>2
    <3> QED
      BY <2>1, <3>1
  <2>3. CASE j \in L
    <3>1. \A k \in L : k <= i \/ j <= k
      BY <1>2, <1>8
    <3>2. n[i][3] = n[j][2]
      BY <1>5, <1>8, <2>2, <2>3, <3>1
    <3> QED
      BY <1>2, <2>2, <2>3, <3>2
  <2>4. CASE j = l + 1
    <3>1. \A k \in L : k <= i
      <4> SUFFICES ASSUME NEW k \in L
                   PROVE  k <= i
        OBVIOUS
      <4>1. k \in 1..l /\ (k <= i \/ l + 1 <= k)
        BY <1>2, <1>8, <2>4
      <4> QED
        BY <1>2, <4>1
    <3>2. n[i][3] = link
      BY <1>5, <1>8, <2>2, <3>1
    <3> QED
      BY <1>2, <2>2, <2>4, <3>2
  <2> QED
    BY <2>1, <2>3, <2>4
<1>9. EventsLead(q, TRUE, new, H \cup {new})
  BY <1>4, <1>6, <1>7, <1>8 DEF EventsLead
<1> QED
  BY <1>9 DEF q

(* A reading, the first or a later one.                                       *)
LEMMA ReadingNoted ==
  ASSUME NEW n \in Seq(AnyEvent), NEW a \in Agents, NEW r \in ResultType(a),
         NEW new \in Links, NEW H, EventsLead(n, r.seen, r.link, H)
  PROVE  /\ LinkEvents(r, new) \in Seq(AnyEvent)
         /\ n \o LinkEvents(r, new) \in Seq(AnyEvent)
         /\ EventsLead(n \o LinkEvents(r, new), TRUE, new, H \cup {new})
<1>0. n \o << >> = n /\ << >> \in Seq(AnyEvent) /\ r.seen \in BOOLEAN /\ r.link \in Links
  BY ConcatEmptySeq DEF ResultType
<1>1. CASE ~r.seen
  <2>1. LinkEvents(r, new) = << >>
    BY <1>1 DEF LinkEvents
  <2>2. LinksIn(n) = {} /\ H = {}
    BY <1>1 DEF EventsLead
  <2>3. EventsLead(n, TRUE, new, H \cup {new})
    BY <2>2 DEF EventsLead
  <2> QED
    BY <1>0, <2>1, <2>3
<1>2. ASSUME r.seen, LinkEvent(r.link, new) = << >>, r.link = new \/ Hidden \in {r.link, new}
      PROVE  /\ LinkEvents(r, new) = << >>
             /\ EventsLead(n, TRUE, new, H \cup {new})
  <2>1. LinkEvents(r, new) = << >>
    BY <1>2 DEF LinkEvents
  <2>2. r.link \in H /\ EventsLead(n, TRUE, r.link, H)
    BY <1>2 DEF EventsLead
  <2>3. CASE r.link = new
    <3>1. H \cup {new} = H
      BY <2>2, <2>3
    <3> QED
      BY <2>1, <2>2, <2>3, <3>1
  <2>4. CASE Hidden \in {r.link, new}
    <3>1. \A j \in LinksIn(n) : n[j][2] \in H \cup {new}
      BY <2>2 DEF EventsLead
    <3>2. Hidden \in H \cup {new} /\ new \in H \cup {new}
      BY <2>2, <2>4
    <3> QED
      BY <2>1, <3>1, <3>2 DEF EventsLead
  <2> QED
    BY <1>2, <2>1, <2>3, <2>4
<1>3. ASSUME r.seen, NEW e \in LinkChange, LinkEvent(r.link, new) = <<e>>,
             e[2] = r.link, e[3] = new
      PROVE  /\ LinkEvents(r, new) = <<e>> /\ e \in AnyEvent
             /\ EventsLead(Append(n, e), TRUE, new, H \cup {new})
  <2>1. EventsLead(n, TRUE, r.link, H)
    BY <1>3 DEF EventsLead
  <2>2. EventsLead(Append(n, e), TRUE, new, H \cup {new})
    BY <1>0, <1>3, <2>1, ChangeNoted
  <2> QED
    BY <1>3, <2>2 DEF LinkEvents, AnyEvent
<1>4. \/ LinkEvent(r.link, new) = << >> /\ (r.link = new \/ Hidden \in {r.link, new})
      \/ \E e \in LinkChange : LinkEvent(r.link, new) = <<e>> /\ e[2] = r.link /\ e[3] = new
  BY <1>0, LinkEventIs
<1>5. CASE r.seen /\ LinkEvent(r.link, new) = << >> /\ (r.link = new \/ Hidden \in {r.link, new})
  BY <1>0, <1>2, <1>5
<1>6. ASSUME r.seen, NEW e \in LinkChange, LinkEvent(r.link, new) = <<e>>,
             e[2] = r.link, e[3] = new
      PROVE  /\ LinkEvents(r, new) \in Seq(AnyEvent)
             /\ n \o LinkEvents(r, new) \in Seq(AnyEvent)
             /\ EventsLead(n \o LinkEvents(r, new), TRUE, new, H \cup {new})
  <2>1. /\ LinkEvents(r, new) = <<e>> /\ e \in AnyEvent
        /\ EventsLead(Append(n, e), TRUE, new, H \cup {new})
    BY <1>3, <1>6
  <2>2. n \o <<e>> = Append(n, e) /\ <<e>> \in Seq(AnyEvent) /\ Append(n, e) \in Seq(AnyEvent)
    BY <2>1, OneEvent, AppendProperties
  <2> QED
    BY <2>1, <2>2
<1> QED
  BY <1>1, <1>4, <1>5, <1>6

(* What the cap leaves of the events still leads from link to link.           *)
LEMMA KeptLead ==
  ASSUME NEW n \in Seq(AnyEvent), NEW seen, NEW link, NEW H, EventsLead(n, seen, link, H),
         Hidden \notin H, NEW q, q = Newest(n, maxEvents)
  PROVE  /\ LinksIn(q) = {} => H \subseteq {link} \/ Len(q) = maxEvents
         /\ \A j \in LinksIn(q) :
              /\ q[j][2] \in H
              /\ (\A k \in LinksIn(q) : k <= j) => q[j][3] = link
              /\ \A i \in LinksIn(q) :
                   i < j /\ (\A k \in LinksIn(q) : k <= i \/ j <= k) => q[i][3] = q[j][2]
<1> DEFINE l == Len(n)
           d == TooMany(n, maxEvents)
           m == maxEvents
           L == LinksIn(n)
<1>1. /\ l \in Nat /\ d \in 0..l /\ q \in Seq(AnyEvent) /\ Len(q) = l - d
      /\ \A i \in 1..(l - d) : q[i] = n[i + d]
      /\ DOMAIN q = 1..(l - d) /\ DOMAIN n = 1..l
  <2>1. /\ TooMany(n, m) \in 0..Len(n) /\ Newest(n, m) \in Seq(AnyEvent)
        /\ Len(Newest(n, m)) = Len(n) - TooMany(n, m)
        /\ \A i \in 1..(Len(n) - TooMany(n, m)) : Newest(n, m)[i] = n[i + TooMany(n, m)]
    BY Constants, NewestIs
  <2>2. l \in Nat /\ DOMAIN n = 1..l /\ d \in 0..l /\ q \in Seq(AnyEvent) /\ Len(q) = l - d
        /\ \A i \in 1..(l - d) : q[i] = n[i + d]
    BY <2>1, LenProperties
  <2> HIDE DEF l, d
  <2>3. DOMAIN q = 1..Len(q)
    BY <2>2, LenProperties
  <2> QED
    BY <2>2, <2>3
<1>2. d = 0 \/ l - d = m
  BY Constants, <1>1 DEF TooMany
<1>3. L \subseteq 1..l
  BY <1>1 DEF LinksIn
<1>4. \A i \in 1..(l - d) : i \in LinksIn(q) <=> i + d \in L
  <2> SUFFICES ASSUME NEW i \in 1..(l - d)
               PROVE  i \in LinksIn(q) <=> i + d \in L
    OBVIOUS
  <2>1. i \in DOMAIN q /\ i + d \in DOMAIN n /\ q[i] = n[i + d]
    BY <1>1
  <2> QED
    BY <2>1 DEF LinksIn
<1>5. LinksIn(q) \subseteq 1..(l - d)
  BY <1>1 DEF LinksIn
<1>6. /\ L = {} => H \subseteq {link}
      /\ \A j \in L : n[j][2] \in H
      /\ \A j \in L : (\A k \in L : k <= j) => n[j][3] = link
      /\ \A i, j \in L : i < j /\ (\A k \in L : k <= i \/ j <= k) => n[i][3] = n[j][2]
  BY DEF EventsLead
<1> HIDE DEF l, d, m, L
<1>7. ASSUME LinksIn(q) = {}
      PROVE  H \subseteq {link} \/ Len(q) = m
  <2>1. CASE d = 0
    <3>1. L = {}
      <4> SUFFICES ASSUME NEW k \in L
                   PROVE  FALSE
        OBVIOUS
      <4>1. k \in 1..(l - d) /\ k + d = k
        BY <1>1, <1>3, <2>1
      <4> QED
        BY <1>4, <1>7, <4>1
    <3> QED
      BY <1>6, <3>1
  <2>2. CASE l - d = m
    BY <1>1, <2>2
  <2> QED
    BY <1>2, <2>1, <2>2
<1>8. ASSUME NEW j \in LinksIn(q)
      PROVE  /\ j \in 1..(l - d) /\ j + d \in L /\ q[j] = n[j + d]
             /\ \A k \in L : k <= d \/ (k - d \in LinksIn(q) /\ (k - d) + d = k)
  <2>1. j \in 1..(l - d) /\ j + d \in L /\ q[j] = n[j + d]
    BY <1>1, <1>4, <1>5
  <2>2. ASSUME NEW k \in L, ~(k <= d)
        PROVE  k - d \in LinksIn(q) /\ (k - d) + d = k
    <3>1. k - d \in 1..(l - d) /\ (k - d) + d = k
      BY <1>1, <1>3, <2>2
    <3> QED
      BY <1>4, <3>1
  <2> QED
    BY <2>1, <2>2
<1>9. ASSUME NEW j \in LinksIn(q), \A k \in LinksIn(q) : k <= j
      PROVE  q[j][3] = link
  <2>1. j \in 1..(l - d) /\ j + d \in L /\ q[j] = n[j + d]
    BY <1>8
  <2>2. \A k \in L : k <= j + d
    <3> SUFFICES ASSUME NEW k \in L
                 PROVE  k <= j + d
      OBVIOUS
    <3>1. k \in 1..l /\ d \in Nat /\ j \in Nat
      BY <1>1, <1>3, <2>1
    <3>2. CASE k <= d
      BY <3>1, <3>2
    <3>3. CASE k - d \in LinksIn(q) /\ (k - d) + d = k
      <4>1. k - d <= j
        BY <1>9, <3>3
      <4> QED
        BY <3>1, <4>1
    <3> QED
      BY <1>8, <3>2, <3>3
  <2> QED
    BY <1>6, <2>1, <2>2
<1>10. ASSUME NEW i \in LinksIn(q), NEW j \in LinksIn(q), i < j,
              \A k \in LinksIn(q) : k <= i \/ j <= k
       PROVE  q[i][3] = q[j][2]
  <2>1. /\ i \in 1..(l - d) /\ i + d \in L /\ q[i] = n[i + d]
        /\ j \in 1..(l - d) /\ j + d \in L /\ q[j] = n[j + d]
    BY <1>8
  <2>2. i + d < j + d /\ d \in Nat
    BY <1>1, <1>10, <2>1
  <2>3. \A k \in L : k <= i + d \/ j + d <= k
    <3> SUFFICES ASSUME NEW k \in L
                 PROVE  k <= i + d \/ j + d <= k
      OBVIOUS
    <3>1. k \in 1..l /\ d \in Nat /\ j \in Nat /\ i \in Nat
      BY <1>1, <1>3, <2>1
    <3>2. CASE k <= d
      BY <3>1, <3>2
    <3>3. CASE k - d \in LinksIn(q) /\ (k - d) + d = k
      <4>1. k - d <= i \/ j <= k - d
        BY <1>10, <3>3
      <4> QED
        BY <3>1, <4>1
    <3> QED
      BY <1>8, <3>2, <3>3
  <2> QED
    BY <1>6, <2>1, <2>2, <2>3
<1>11. \A j \in LinksIn(q) : q[j][2] \in H
  BY <1>6, <1>8
<1> QED
  BY <1>7, <1>9, <1>10, <1>11 DEF m

-----------------------------------------------------------------------------
(* One report taken.                                                          *)

LEMMA NothingTaken ==
  ASSUME NEW a \in Agents
  PROVE  Good(a, NoResult, << >>, << >>, << >>)
<1>1. Running[a] \in Nat /\ Final(a) \in Nat
  BY Constants
<1>2. /\ NoResult.history = << >> /\ NoResult.errors = << >> /\ NoResult.events = << >>
      /\ NoResult.latest = 0 /\ NoResult.seen = FALSE /\ NoResult.link = NoLink
  BY DEF NoResult
<1>3. NoResult \in ResultType(a)
  <2>1. NoLink \in Links /\ 0 \in 0..Final(a)
    BY <1>1 DEF Links
  <2> QED
    BY <2>1, EmptySeq DEF NoResult, ResultType
<1>4. DOMAIN << >> = {} /\ Len(<< >>) = 0
  BY EmptySeq
<1>5. Advances(a, << >>) = {} /\ Heard(a, << >>) = {}
  BY DEF Advances, Heard
<1>6. NewestOf(<< >>, << >>, {}, maxHistory)
  <2>1. 0 <= maxHistory
    BY Constants
  <2>2. [i \in {} |-> 0] \in [DOMAIN << >> -> {}]
    BY <1>4
  <2> QED
    BY <1>4, <2>1, <2>2 DEF NewestOf
<1>7. EventsLead(<< >>, FALSE, NoLink, {})
  BY DEF EventsLead, LinksIn
<1>8. LastFigures(a, NoResult, << >>) /\ HistoryEndsAtTop(a, NoResult, << >>)
  BY <1>2 DEF LastFigures, HistoryEndsAtTop
<1>9. Newest(<< >>, maxErrorLog) = << >> /\ Newest(<< >>, maxEvents) = << >>
  <2>1. ASSUME NEW n \in Nat \ {0}
        PROVE  Newest(<< >>, n) = << >>
    <3>1. << >> \in Seq(Nat)
      OBVIOUS
    <3>2. /\ Newest(<< >>, n) \in Seq(Nat) /\ TooMany(<< >>, n) \in 0..0
          /\ Len(Newest(<< >>, n)) = 0 - TooMany(<< >>, n)
      BY <1>4, <3>1, NewestIs
    <3>3. Len(Newest(<< >>, n)) = 0
      BY <3>2
    <3> QED
      BY <3>2, <3>3, EmptySeq
  <2> QED
    BY <2>1, Constants
<1> QED
  BY <1>2, <1>3, <1>5, <1>6, <1>7, <1>8, <1>9, EmptySeq DEF Good

(* noteWifi, as a record.                                                     *)
LEMMA NoteReportRecord ==
  ASSUME NEW a \in Agents, NEW r \in ResultType(a), NEW k \in 1..Final(a)
  PROVE  NoteReport(r, a, k) =
           [latest  |-> Requests(a, k),
            history |-> IF k = Final(a) THEN r.history ELSE NoteHistory(r.history, k),
            errors  |-> NoteErrors(r.errors, Batch(a, k)),
            events  |-> AddEvents(r.events, LinkEvents(r, Reading[a][k])),
            seen    |-> TRUE,
            link    |-> Reading[a][k]]
<1> DEFINE h  == IF k = Final(a) THEN r.history ELSE NoteHistory(r.history, k)
           es == NoteErrors(r.errors, Batch(a, k))
           ev == AddEvents(r.events, LinkEvents(r, Reading[a][k]))
           w  == [latest |-> r.latest, history |-> r.history, errors |-> r.errors,
                  events |-> ev, seen |-> TRUE, link |-> Reading[a][k]]
<1>1. NoteWifi(r, Reading[a][k]) = w
  <2> HIDE DEF ev
  <2>1. NoteWifi(r, Reading[a][k]) = [r EXCEPT !.events = ev, !.seen = TRUE, !.link = Reading[a][k]]
    BY DEF NoteWifi, ev
  <2> QED
    BY <2>1 DEF ResultType
<1>2. NoteReport(r, a, k) = [w EXCEPT !.errors = es, !.latest = Requests(a, k), !.history = h]
  BY <1>1 DEF NoteReport
<1> HIDE DEF h, es, ev
<1>3. NoteReport(r, a, k) = [latest |-> Requests(a, k), history |-> h, errors |-> es,
                             events |-> ev, seen |-> TRUE, link |-> Reading[a][k]]
  BY <1>2
<1> QED
  BY <1>3 DEF h, es, ev

LEMMA HistoryStep ==
  ASSUME NEW a \in Agents, NEW r \in ResultType(a), NEW p \in Seq(1..Summary(a)),
         NEW k \in 1..Running[a], NEW r2,
         HistoryEndsAtTop(a, r, p), NewestOf(r.history, p, Advances(a, p), maxHistory),
         r2.history = NoteHistory(r.history, k)
  PROVE  /\ r2.history \in Seq(1..Running[a])
         /\ HistoryEndsAtTop(a, r2, Append(p, k))
         /\ NewestOf(r2.history, Append(p, k), Advances(a, Append(p, k)), maxHistory)
<1> DEFINE h == r.history
           S == Advances(a, p)
           q == Append(p, k)
<1>1. /\ h \in Seq(1..Running[a]) /\ h \in Seq(Nat) /\ p \in Seq(Nat)
      /\ S \in SUBSET (DOMAIN p)
      /\ Running[a] \in Nat /\ k \in Nat /\ k \in 1..Summary(a) /\ k <= Running[a]
      /\ maxHistory \in Nat \ {0} /\ maxHistory \in Nat
  <2>1. Running[a] \in Nat /\ Summary(a) = Running[a] + 2
    BY Constants
  <2>2. h \in Seq(1..Running[a])
    BY DEF ResultType
  <2>3. 1..Running[a] \subseteq Nat /\ 1..Summary(a) \subseteq Nat
    OBVIOUS
  <2>4. h \in Seq(Nat) /\ p \in Seq(Nat)
    BY <2>2, <2>3, SeqMonotonic
  <2> QED
    BY <2>1, <2>2, <2>3, <2>4, Constants DEF Advances
<1>2. /\ DOMAIN p = 1..Len(p) /\ Len(p) \in Nat
      /\ DOMAIN q = 1..(Len(p) + 1)
      /\ \A i \in 1..Len(p) : q[i] = p[i]
      /\ q[Len(p) + 1] = k
  BY <1>1, Appended
<1>3. Len(h) \in Nat /\ DOMAIN h = 1..Len(h) /\ (h # << >> => Len(h) \in DOMAIN h)
  BY <1>1, LenProperties, EmptySeq
<1>4. CASE h = << >> \/ k > h[Len(h)]
  <2>1. r2.history = Newest(Append(h, k), maxHistory)
    BY <1>4 DEF NoteHistory
  <2>2. Len(h) <= maxHistory
    BY DEF NewestOf
  <2>3. r2.history \in Seq(1..Running[a]) /\ LogTakes(r2.history, h, k, maxHistory)
    BY <1>1, <2>1, <2>2, NewestOfAppended
  <2>4. \A j \in DOMAIN p : p[j] <= Running[a] => p[j] < k
    <3> SUFFICES ASSUME NEW j \in DOMAIN p, p[j] <= Running[a]
                 PROVE  p[j] < k
      OBVIOUS
    <3>1. h # << >> /\ p[j] <= h[Len(h)]
      BY DEF HistoryEndsAtTop
    <3>2. p[j] \in Nat /\ h[Len(h)] \in Nat
      <4>1. j \in 1..Len(p) /\ Len(h) \in 1..Len(h)
        BY <1>2, <1>3, <3>1
      <4>2. p \in Seq(Nat) /\ h \in Seq(Nat)
        BY <1>1
      <4> HIDE DEF h
      <4> QED
        BY <4>1, <4>2, ElementOfSeq
    <3> QED
      BY <1>1, <1>4, <3>1, <3>2
  <2>5. Advances(a, q) = S \cup {Len(p) + 1}
    BY <1>1, <2>4, AdvancesAppend
  <2>6. NewestOf(r2.history, q, Advances(a, q), maxHistory)
    BY <1>1, <2>1, <2>5, NewestTakes
  <2>7. r2.history # << >> /\ r2.history[Len(r2.history)] = k
    BY <2>3, EmptySeq DEF LogTakes
  <2>8. HistoryEndsAtTop(a, r2, q)
    <3> SUFFICES ASSUME NEW i \in DOMAIN q, q[i] <= Running[a]
                 PROVE  q[i] <= k
      BY <2>7 DEF HistoryEndsAtTop
    <3>1. CASE i \in 1..Len(p)
      <4>1. p[i] \in Nat /\ p[i] < k /\ q[i] = p[i]
        BY <1>1, <1>2, <2>4, <3>1, ElementOfSeq
      <4> QED
        BY <1>1, <4>1
    <3>2. CASE i = Len(p) + 1
      BY <1>1, <1>2, <3>2
    <3> QED
      BY <1>2, <3>1, <3>2
  <2> QED
    BY <2>3, <2>6, <2>8
<1>5. CASE ~(h = << >> \/ k > h[Len(h)])
  <2>1. r2.history = h
    BY <1>5 DEF NoteHistory
  <2>2. h[Len(h)] \in Nat /\ k <= h[Len(h)] /\ Len(h) \in DOMAIN h /\ h # << >>
    <3>1. h[Len(h)] \in Nat
      BY <1>1, <1>3, <1>5, ElementOfSeq
    <3> QED
      BY <1>1, <1>3, <1>5, <3>1
  <2>3. PICK i \in S : h[Len(h)] = p[i]
    BY <2>2 DEF NewestOf
  <2>4. i \in DOMAIN p /\ p[i] <= Running[a] /\ ~(p[i] < k)
    BY <1>1, <2>2, <2>3 DEF Advances
  <2>5. Advances(a, q) = S
    BY <1>1, <2>4, AdvancesAppend
  <2>6. NewestOf(h, q, Advances(a, q), maxHistory)
    BY <1>1, <2>5, NewestSkips
  <2>7. HistoryEndsAtTop(a, r2, q)
    <3> SUFFICES ASSUME NEW j \in DOMAIN q, q[j] <= Running[a]
                 PROVE  q[j] <= h[Len(h)]
      BY <2>1, <2>2 DEF HistoryEndsAtTop
    <3>1. CASE j \in 1..Len(p)
      BY <1>2, <3>1 DEF HistoryEndsAtTop
    <3>2. CASE j = Len(p) + 1
      BY <1>2, <2>2, <3>2
    <3> QED
      BY <1>2, <3>1, <3>2
  <2> QED
    BY <1>1, <2>1, <2>6, <2>7
<1> QED
  BY <1>4, <1>5

(* A report that brings no running figures leaves the history as it is.       *)
LEMMA HistoryStays ==
  ASSUME NEW a \in Agents, NEW r \in ResultType(a), NEW p \in Seq(1..Summary(a)),
         NEW k \in {Final(a), Summary(a)}, NEW r2,
         HistoryEndsAtTop(a, r, p), NewestOf(r.history, p, Advances(a, p), maxHistory),
         r2.history = r.history
  PROVE  /\ HistoryEndsAtTop(a, r2, Append(p, k))
         /\ NewestOf(r2.history, Append(p, k), Advances(a, Append(p, k)), maxHistory)
<1> DEFINE h == r.history
           S == Advances(a, p)
           q == Append(p, k)
<1>1. /\ h \in Seq(Nat) /\ p \in Seq(Nat) /\ S \in SUBSET (DOMAIN p)
      /\ k \in Nat /\ k \in 1..Summary(a) /\ ~(k <= Running[a])
      /\ maxHistory \in Nat \ {0} /\ maxHistory \in Nat
  <2>1. Running[a] \in Nat /\ Summary(a) = Running[a] + 2 /\ Final(a) = Running[a] + 1
    BY Constants
  <2>2. h \in Seq(1..Running[a])
    BY DEF ResultType
  <2>3. 1..Running[a] \subseteq Nat /\ 1..Summary(a) \subseteq Nat
    OBVIOUS
  <2>4. h \in Seq(Nat) /\ p \in Seq(Nat)
    BY <2>2, <2>3, SeqMonotonic
  <2> QED
    BY <2>1, <2>2, <2>3, <2>4, Constants DEF Advances
<1>2. /\ DOMAIN q = 1..(Len(p) + 1) /\ DOMAIN p = 1..Len(p) /\ Len(p) \in Nat
      /\ \A i \in 1..Len(p) : q[i] = p[i]
      /\ q[Len(p) + 1] = k
  BY <1>1, Appended
<1>3. Advances(a, q) = S
  <2>1. Advances(a, q) = S \cup
          (IF k <= Running[a] /\ (\A j \in DOMAIN p : p[j] <= Running[a] => p[j] < k)
           THEN {Len(p) + 1} ELSE {})
    BY <1>1, AdvancesAppend
  <2> HIDE DEF S, q
  <2> QED
    BY <1>1, <2>1
<1>4. NewestOf(h, q, Advances(a, q), maxHistory)
  BY <1>1, <1>3, NewestSkips
<1>5. HistoryEndsAtTop(a, r2, q)
  <2> SUFFICES ASSUME NEW j \in DOMAIN q, q[j] <= Running[a]
               PROVE  h # << >> /\ q[j] <= h[Len(h)]
    BY DEF HistoryEndsAtTop
  <2>1. j \in 1..Len(p)
    BY <1>1, <1>2
  <2> QED
    BY <1>2, <2>1 DEF HistoryEndsAtTop
<1> QED
  BY <1>4, <1>5

LEMMA RequestsType ==
  ASSUME NEW a \in Agents, NEW k \in 1..Summary(a)
  PROVE  Requests(a, k) \in 0..Final(a)
BY Constants DEF Requests

LEMMA ReportTaken ==
  ASSUME NEW a \in Agents, NEW r, NEW p, NEW f, NEW e, Good(a, r, p, f, e),
         NEW k \in 1..Final(a)
  PROVE  Good(a, NoteReport(r, a, k), Append(p, k), f \o Batch(a, k),
              e \o LinkEvents(r, Reading[a][k]))
<1> DEFINE q == Append(p, k)
           n == NoteReport(r, a, k)
           b == Batch(a, k)
           x == Reading[a][k]
           w == LinkEvents(r, x)
<1>1. r \in ResultType(a) /\ p \in Seq(1..Summary(a))
      /\ f \in Seq(Failure(a)) /\ e \in Seq(AnyEvent)
  BY DEF Good
<1>2. k \in 1..Summary(a) /\ k # Summary(a) /\ (k = Final(a) \/ k \in 1..Running[a])
      /\ b \in Seq(Failure(a)) /\ x \in Links
  BY Constants
<1>3. q \in Seq(1..Summary(a)) /\ Len(q) = Len(p) + 1 /\ q[Len(q)] = k /\ Len(p) \in Nat
  BY <1>1, <1>2, Appended
<1>4. q # << >>
  BY <1>3, EmptySeq
<1>5. n = [latest  |-> Requests(a, k),
           history |-> IF k = Final(a) THEN r.history ELSE NoteHistory(r.history, k),
           errors  |-> NoteErrors(r.errors, b),
           events  |-> AddEvents(r.events, w),
           seen    |-> TRUE,
           link    |-> x]
  BY <1>1, NoteReportRecord
<1> HIDE DEF q, n, b, x, w
<1>6. LastFigures(a, n, q)
  BY <1>3, <1>4, <1>5 DEF LastFigures
<1>7. /\ n.history \in Seq(1..Running[a])
      /\ HistoryEndsAtTop(a, n, q)
      /\ NewestOf(n.history, q, Advances(a, q), maxHistory)
  <2>1. HistoryEndsAtTop(a, r, p) /\ NewestOf(r.history, p, Advances(a, p), maxHistory)
    BY DEF Good
  <2>2. CASE k = Final(a)
    <3>1. n.history = r.history /\ r.history \in Seq(1..Running[a])
      BY <1>1, <1>5, <2>2 DEF ResultType
    <3> QED
      BY <1>1, <2>1, <2>2, <3>1, HistoryStays DEF q
  <2>3. CASE k # Final(a)
    <3>1. n.history = NoteHistory(r.history, k) /\ k \in 1..Running[a]
      BY <1>2, <1>5, <2>3
    <3> QED
      BY <1>1, <2>1, <3>1, HistoryStep DEF q
  <2> QED
    BY <2>2, <2>3
<1>8. /\ n.errors \in Seq(Failure(a))
      /\ n.errors = Newest(f \o b, maxErrorLog)
      /\ f \o b \in Seq(Failure(a))
  <2>1. n.errors = Newest(Newest(f, maxErrorLog) \o b, maxErrorLog)
    BY <1>5 DEF Good, NoteErrors
  <2>a. /\ Newest(Newest(f, maxErrorLog) \o b, maxErrorLog) = Newest(f \o b, maxErrorLog)
        /\ f \o b \in Seq(Failure(a))
    <3>1. maxErrorLog \in Nat \ {0}
      BY Constants
    <3> QED
      BY <1>1, <1>2, <3>1, NewestTwice
  <2>2. n.errors = Newest(f \o b, maxErrorLog) /\ f \o b \in Seq(Failure(a))
    BY <2>1, <2>a
  <2>3. Newest(f \o b, maxErrorLog) \in Seq(Failure(a))
    <3>1. maxErrorLog \in Nat \ {0}
      BY Constants
    <3> QED
      BY <2>2, <3>1, NewestIs
  <2> QED
    BY <2>2, <2>3
<1>9. /\ w \in Seq(AnyEvent) /\ e \o w \in Seq(AnyEvent)
      /\ EventsLead(e \o w, TRUE, x, Heard(a, q))
  <2> DEFINE H == Heard(a, p)
  <2>1. EventsLead(e, r.seen, r.link, H)
    BY DEF Good
  <2>3. Heard(a, q) = H \cup {x}
    BY <1>1, <1>2, HeardAppend DEF q, x
  <2> HIDE DEF H
  <2>4. /\ LinkEvents(r, x) \in Seq(AnyEvent)
        /\ e \o LinkEvents(r, x) \in Seq(AnyEvent)
        /\ EventsLead(e \o LinkEvents(r, x), TRUE, x, H \cup {x})
    <3>1. e \in Seq(AnyEvent) /\ x \in Links
      BY <1>1, <1>2
    <3> QED
      BY <1>1, <2>1, <3>1, ReadingNoted
  <2> QED
    BY <2>3, <2>4 DEF w
<1>10. n.events \in Seq(AnyEvent) /\ n.events = Newest(e \o w, maxEvents)
  <2>1. n.events = Newest(Newest(e, maxEvents) \o w, maxEvents)
    BY <1>5 DEF Good, AddEvents
  <2>a. Newest(Newest(e, maxEvents) \o w, maxEvents) = Newest(e \o w, maxEvents)
    <3>1. maxEvents \in Nat \ {0}
      BY Constants
    <3> QED
      BY <1>1, <1>9, <3>1, NewestTwice
  <2>2. n.events = Newest(e \o w, maxEvents)
    BY <2>1, <2>a
  <2>3. Newest(e \o w, maxEvents) \in Seq(AnyEvent)
    <3>1. maxEvents \in Nat \ {0}
      BY Constants
    <3> QED
      BY <1>9, <3>1, NewestIs
  <2> QED
    BY <2>2, <2>3
<1>11. n \in ResultType(a) /\ n.seen = TRUE /\ n.link = x
  <2>1. n = [latest |-> n.latest, history |-> n.history, errors |-> n.errors,
             events |-> n.events, seen |-> n.seen, link |-> n.link]
    BY <1>5
  <2>2. n.latest \in 0..Final(a) /\ n.seen = TRUE /\ n.link = x
    BY <1>2, <1>5, RequestsType
  <2> QED
    BY <1>2, <1>7, <1>8, <1>10, <2>1, <2>2 DEF ResultType
<1>12. EventsLead(e \o w, n.seen, n.link, Heard(a, q))
  BY <1>9, <1>11
<1>13. Good(a, n, q, f \o b, e \o w)
  BY <1>3, <1>6, <1>7, <1>8, <1>9, <1>10, <1>11, <1>12 DEF Good
<1> QED
  BY <1>13 DEF q, n, b, x, w

LEMMA SummaryTaken ==
  ASSUME NEW a \in Agents, NEW r, NEW p, NEW f, NEW e, Good(a, r, p, f, e)
  PROVE  Good(a, NoteSummary(r, a), Append(p, Summary(a)), f, e)
<1> DEFINE k == Summary(a)
           q == Append(p, k)
           n == NoteSummary(r, a)
<1>1. r \in ResultType(a) /\ p \in Seq(1..Summary(a))
      /\ f \in Seq(Failure(a)) /\ e \in Seq(AnyEvent)
  BY DEF Good
<1>2. k \in 1..Summary(a)
  BY Constants
<1>3. q \in Seq(1..Summary(a)) /\ Len(q) = Len(p) + 1 /\ q[Len(q)] = k /\ Len(p) \in Nat
  BY <1>1, <1>2, Appended
<1>4. q # << >>
  BY <1>3, EmptySeq
<1>5. n = [latest |-> Requests(a, k), history |-> r.history, errors |-> r.errors,
           events |-> r.events, seen |-> r.seen, link |-> r.link]
  <2> DEFINE v == Requests(a, k)
  <2>1. n = [r EXCEPT !.latest = v]
    BY DEF NoteSummary
  <2> HIDE DEF v, n
  <2>2. n = [latest |-> v, history |-> r.history, errors |-> r.errors,
             events |-> r.events, seen |-> r.seen, link |-> r.link]
    BY <1>1, <2>1 DEF ResultType
  <2> QED
    BY <2>2 DEF v
<1>6. n \in ResultType(a)
  <2>1. Requests(a, k) \in 0..Final(a)
    BY <1>2, RequestsType
  <2> QED
    BY <1>1, <1>5, <2>1 DEF ResultType
<1>7. n.history = r.history /\ n.errors = r.errors /\ n.events = r.events /\ n.seen = r.seen
      /\ n.link = r.link /\ n.latest = Requests(a, k)
  BY <1>5
<1> HIDE DEF q, n
<1>8. LastFigures(a, n, q)
  BY <1>3, <1>4, <1>7 DEF LastFigures
<1>9. /\ HistoryEndsAtTop(a, n, q)
      /\ NewestOf(n.history, q, Advances(a, q), maxHistory)
  <2>1. HistoryEndsAtTop(a, r, p) /\ NewestOf(r.history, p, Advances(a, p), maxHistory)
    BY DEF Good
  <2> QED
    BY <1>1, <1>7, <2>1, HistoryStays DEF q
<1>10. EventsLead(e, n.seen, n.link, Heard(a, q))
  <2>1. Heard(a, q) = Heard(a, p)
    <3>1. Heard(a, q) = Heard(a, p) \cup (IF k = Summary(a) THEN {} ELSE {Reading[a][k]})
      BY <1>1, <1>2, HeardAppend DEF q
    <3> QED
      BY <3>1
  <2> QED
    BY <1>7, <2>1 DEF Good
<1>11. n.errors = Newest(f, maxErrorLog) /\ n.events = Newest(e, maxEvents)
  BY <1>7 DEF Good
<1> QED
  BY <1>1, <1>3, <1>6, <1>8, <1>9, <1>10, <1>11 DEF Good, q, n

(* OnPresence leaves everything but the events as it is.                      *)
LEMMA PresenceTaken ==
  ASSUME NEW a \in Agents, NEW r, NEW p, NEW f, NEW e, Good(a, r, p, f, e), NEW n,
         n = [r EXCEPT !.events = AddEvents(r.events, <<PresenceEvent>>)]
  PROVE  /\ Good(a, n, p, f, Append(e, PresenceEvent))
         /\ n.latest = r.latest
<1> DEFINE v  == AddEvents(r.events, <<PresenceEvent>>)
           e2 == Append(e, PresenceEvent)
<1>1. r \in ResultType(a) /\ e \in Seq(AnyEvent)
  BY DEF Good
<1>2. /\ e \o <<PresenceEvent>> = e2 /\ <<PresenceEvent>> \in Seq(AnyEvent)
      /\ e2 \in Seq(AnyEvent) /\ PresenceEvent \in AnyEvent
  BY <1>1, OneEvent, AppendProperties DEF AnyEvent
<1>3. v \in Seq(AnyEvent) /\ v = Newest(e2, maxEvents)
  <2>1. v = Newest(Newest(e, maxEvents) \o <<PresenceEvent>>, maxEvents)
    BY DEF Good, AddEvents
  <2>a. Newest(Newest(e, maxEvents) \o <<PresenceEvent>>, maxEvents)
          = Newest(e \o <<PresenceEvent>>, maxEvents)
    <3>1. maxEvents \in Nat \ {0}
      BY Constants
    <3>2. e \in Seq(AnyEvent) /\ <<PresenceEvent>> \in Seq(AnyEvent)
      BY <1>1, <1>2
    <3> QED
      BY <3>1, <3>2, NewestTwice
  <2>2. v = Newest(e2, maxEvents)
    BY <1>2, <2>1, <2>a
  <2> QED
    BY <1>2, <2>2, Constants, NewestIs
<1> HIDE DEF v
<1>4. n = [r EXCEPT !.events = v]
  BY DEF v
<1>5. /\ n \in ResultType(a)
      /\ n.latest = r.latest /\ n.history = r.history /\ n.errors = r.errors
      /\ n.seen = r.seen /\ n.link = r.link /\ n.events = v
  BY <1>1, <1>3, <1>4 DEF ResultType
<1>6. EventsLead(e2, r.seen, r.link, Heard(a, p))
  BY <1>1, PresenceNoted DEF Good
<1> HIDE DEF e2
<1>7. /\ p \in Seq(1..Summary(a)) /\ f \in Seq(Failure(a))
      /\ LastFigures(a, r, p) /\ HistoryEndsAtTop(a, r, p)
      /\ NewestOf(r.history, p, Advances(a, p), maxHistory)
      /\ r.errors = Newest(f, maxErrorLog)
  BY DEF Good
<1>8. LastFigures(a, n, p) /\ HistoryEndsAtTop(a, n, p)
  BY <1>5, <1>7 DEF LastFigures, HistoryEndsAtTop
<1>9. Good(a, n, p, f, e2)
  BY <1>2, <1>3, <1>5, <1>6, <1>7, <1>8 DEF Good
<1> QED
  BY <1>5, <1>9 DEF e2

-----------------------------------------------------------------------------
(* The invariant.                                                             *)

AnyResult  == UNION {ResultType(a) : a \in Agents}
AnyFailure == Nat \X Nat

FigTypes ==
  /\ reached \in [Tests -> SUBSET Agents]
  /\ next \in [Tests -> [Agents -> Nat]]
  /\ held \in [Tests -> [Agents -> SUBSET Nat]]
  /\ result \in [Tests -> [Agents -> AnyResult]]
  /\ passed \in [Tests -> [Agents -> Seq(Nat)]]
  /\ failed \in [Tests -> [Agents -> Seq(AnyFailure)]]
  /\ noted \in [Tests -> [Agents -> Seq(AnyEvent)]]
  /\ totals \in [Tests -> Nat]
  /\ \A t \in Tests, a \in Agents : next[t][a] \in 1..(Summary(a) + 1) /\ held[t][a] \subseteq 1..Summary(a)

(* What is kept of every agent is what its reports make of it.                *)
AllGood == \A t \in Tests, a \in Agents :
             Good(a, result[t][a], passed[t][a], failed[t][a], noted[t][a])

(* An agent that was not sent the start of a test says nothing of it.         *)
Silent == \A t \in Tests, a \in Agents :
            a \notin reached[t] => held[t][a] = {} /\ passed[t][a] = << >>

(* A call of Start sends to each agent once: either the start reaches it or   *)
(* it is marked as done at once, and before that it is neither.               *)
Unsent ==
  /\ \A t \in Tests : t >= nextTest => reached[t] = {} /\ arDone[t] = {}
  /\ \A s \in Starters : Sending(s) =>
       start[s].todo \cap (reached[start[s].test] \cup arDone[start[s].test]) = {}

(* An agent that was sent the start is done when it has said so.              *)
Ended == \A t \in Tests, a \in Agents :
           a \in arDone[t] /\ a \in reached[t] =>
             \E i \in DOMAIN passed[t][a] : passed[t][a][i] >= Final(a)

FigInv == TMTypeOK /\ FreshInv /\ FigTypes /\ AllGood /\ Silent /\ Unsent /\ Ended

LEMMA FigInit ==
  ASSUME Init
  PROVE  FigInv
<1> USE DEF Init
<1>1. TMTypeOK
  BY TypeInit
<1>2. FreshInv
  BY DEF TMInit, FreshInv, Sending, Idle
<1>3. \A a \in Agents : Good(a, NoResult, << >>, << >>, << >>)
  BY NothingTaken
<1>4. AllGood
  BY <1>3 DEF AllGood
<1>5. FigTypes
  <2>1. \A a \in Agents : NoResult \in AnyResult
    BY <1>3 DEF Good, AnyResult
  <2>2. << >> \in Seq(Nat) /\ << >> \in Seq(AnyFailure) /\ << >> \in Seq(AnyEvent)
    BY EmptySeq
  <2>3. \A a \in Agents : 1 \in 1..(Summary(a) + 1)
    BY Constants
  <2> QED
    BY <2>1, <2>2, <2>3 DEF FigTypes
<1>6. Silent /\ Unsent /\ Ended
  BY DEF Silent, Unsent, Ended, TMInit, Sending, Idle
<1> QED
  BY <1>1, <1>2, <1>4, <1>5, <1>6 DEF FigInv

(* Each step of the figures is a step of the manager, or none.                *)
LEMMA ManagerStep ==
  ASSUME [Next]_vars
  PROVE  [TMNext]_tmVars
<1>1. ASSUME Calls
      PROVE  TMNext
  BY <1>1 DEF Calls, TMNext, TMStart, TMTick
<1>2. ASSUME NEW s \in Starters, NEW a \in Agents, NEW ok \in BOOLEAN, StartReaches(s, a, ok)
      PROVE  TMNext
  BY <1>2 DEF StartReaches, TMNext, TMStart
<1>3. ASSUME NEW t \in Tests, Tick(t)
      PROVE  [TMNext]_tmVars
  BY <1>3 DEF Tick, TMNext, TMTick
<1>4. ASSUME NEW t \in Tests, NEW a \in Agents, NEW k, Take(a, t, k)
      PROVE  [TMNext]_tmVars
  <2>1. CASE k = Final(a)
    BY <1>4, <2>1 DEF Take, TMNext, OnReport
  <2>2. CASE k # Final(a) /\ k = Summary(a)
    BY <1>4, <2>2 DEF Take, TMNext, OnReport
  <2>3. CASE k # Final(a) /\ k # Summary(a)
    BY <1>4, <2>3 DEF Take
  <2> QED
    BY <2>1, <2>2, <2>3
<1>5. ASSUME NEW t \in Tests, NEW a \in Agents,
             ReportArrives(a, t) \/ ReportMissing(a, t) \/ ReportHeld(a, t) \/ HeldArrives(a, t)
      PROVE  [TMNext]_tmVars
  BY <1>4, <1>5 DEF ReportArrives, ReportMissing, ReportHeld, HeldArrives, tmVars
<1>7. ASSUME NEW t \in Tests, NEW a \in Agents, OnPresence(a, t)
      PROVE  [TMNext]_tmVars
  BY <1>7 DEF OnPresence
<1>6. ASSUME UNCHANGED vars
      PROVE  [TMNext]_tmVars
  BY <1>6 DEF vars
<1> QED
  BY <1>1, <1>2, <1>3, <1>5, <1>6, <1>7 DEF Next

(* What the manager does with report k.                                       *)
Kept(a, t, k) ==
  /\ Known(a, t)
  /\ passed'[t][a] = Append(passed[t][a], k)
  /\ result'[t][a] = IF k = Summary(a) THEN NoteSummary(result[t][a], a)
                     ELSE NoteReport(result[t][a], a, k)

Dropped(a, t) == ~Known(a, t) /\ result'[t][a] = result[t][a] /\ passed'[t][a] = passed[t][a]

(* Nothing changes of what is kept of an agent.                               *)
SameKept(u, b) ==
  /\ result'[u][b] = result[u][b] /\ passed'[u][b] = passed[u][b]
  /\ failed'[u][b] = failed[u][b] /\ noted'[u][b] = noted[u][b]

KeptTypes ==
  /\ result \in [Tests -> [Agents -> AnyResult]]
  /\ passed \in [Tests -> [Agents -> Seq(Nat)]]
  /\ failed \in [Tests -> [Agents -> Seq(AnyFailure)]]
  /\ noted \in [Tests -> [Agents -> Seq(AnyEvent)]]

LEMMA GoodTypes ==
  ASSUME NEW a \in Agents, NEW r, NEW p, NEW f, NEW e, Good(a, r, p, f, e)
  PROVE  r \in AnyResult /\ p \in Seq(Nat) /\ f \in Seq(AnyFailure) /\ e \in Seq(AnyEvent)
<1>1. r \in ResultType(a) /\ p \in Seq(1..Summary(a))
      /\ f \in Seq(Failure(a)) /\ e \in Seq(AnyEvent)
  BY DEF Good
<1>2. 1..Summary(a) \subseteq Nat /\ Failure(a) \subseteq AnyFailure
  BY DEF Failure, AnyFailure
<1>3. p \in Seq(Nat) /\ f \in Seq(AnyFailure)
  BY <1>1, <1>2, SeqMonotonic
<1> QED
  BY <1>1, <1>3 DEF AnyResult

LEMMA TakeStep ==
  ASSUME FigTypes, AllGood, NEW t \in Tests, NEW a \in Agents, NEW k \in 1..Summary(a),
         Take(a, t, k)
  PROVE  /\ KeptTypes'
         /\ \A u \in Tests, b \in Agents : u # t \/ b # a => SameKept(u, b)
         /\ Kept(a, t, k) \/ Dropped(a, t)
         /\ Good(a, result'[t][a], passed'[t][a], failed'[t][a], noted'[t][a])
         /\ UNCHANGED <<reached, totals, start, nextTest, status, members>>
         /\ \/ arDone' = arDone
            \/ /\ k >= Final(a) /\ Known(a, t)
               /\ arDone' = [arDone EXCEPT ![t] = @ \cup {a}]
<1>0. KeptTypes
  BY DEF FigTypes, KeptTypes
<1>1. Good(a, result[t][a], passed[t][a], failed[t][a], noted[t][a])
  BY DEF AllGood
<1> DEFINE last == k = Summary(a)
           r == IF last THEN NoteSummary(result[t][a], a) ELSE NoteReport(result[t][a], a, k)
           p == Append(passed[t][a], k)
           f == IF last THEN failed[t][a] ELSE failed[t][a] \o Batch(a, k)
           e == IF last THEN noted[t][a]
                ELSE noted[t][a] \o LinkEvents(result[t][a], Reading[a][k])
<1>2. Good(a, r, p, f, e)
  <2>1. CASE last
    BY <1>1, <2>1, SummaryTaken
  <2>2. CASE ~last
    <3>1. k \in 1..Final(a)
      BY <2>2, Constants
    <3> QED
      BY <1>1, <2>2, <3>1, ReportTaken
  <2> QED
    BY <2>1, <2>2
<1>3. /\ UNCHANGED <<reached, totals, start, nextTest, status, members>>
      /\ \/ arDone' = arDone
         \/ /\ k >= Final(a) /\ Known(a, t)
            /\ arDone' = [arDone EXCEPT ![t] = @ \cup {a}]
  <2>1. CASE k = Final(a)
    <3>1. OnProgress(a, t) /\ k >= Final(a) /\ UNCHANGED <<reached, totals>>
      BY <2>1, Constants DEF Take
    <3> QED
      BY <3>1 DEF OnProgress, MarkDone
  <2>2. CASE k # Final(a) /\ k = Summary(a)
    <3>1. OnDone(a, t) /\ k >= Final(a) /\ UNCHANGED <<reached, totals>>
      BY <2>2, Constants DEF Take
    <3> QED
      BY <3>1 DEF OnDone, MarkDone
  <2>3. CASE k # Final(a) /\ k # Summary(a)
    BY <2>3 DEF Take, tmVars
  <2> QED
    BY <2>1, <2>2, <2>3
<1>4. r \in AnyResult /\ p \in Seq(Nat) /\ f \in Seq(AnyFailure) /\ e \in Seq(AnyEvent)
  <2> HIDE DEF r, p, f, e
  <2> QED
    BY <1>2, GoodTypes
<1>5. CASE Known(a, t)
  <2>1. result' = [result EXCEPT ![t][a] = r] /\ passed' = [passed EXCEPT ![t][a] = p]
    BY <1>5 DEF Take
  <2>2. failed' = [failed EXCEPT ![t][a] = f] /\ noted' = [noted EXCEPT ![t][a] = e]
    <3>1. CASE last
      <4>1. failed' = failed /\ noted' = noted /\ f = failed[t][a] /\ e = noted[t][a]
        BY <1>5, <3>1 DEF Take
      <4> QED
        BY <1>0, <4>1 DEF KeptTypes
    <3>2. CASE ~last
      BY <1>5, <3>2 DEF Take
    <3> QED
      BY <3>1, <3>2
  <2> HIDE DEF r, p, f, e
  <2>3. /\ result' \in [Tests -> [Agents -> AnyResult]]
        /\ passed' \in [Tests -> [Agents -> Seq(Nat)]]
        /\ \A u \in Tests, b \in Agents : u # t \/ b # a =>
              result'[u][b] = result[u][b] /\ passed'[u][b] = passed[u][b]
        /\ result'[t][a] = r /\ passed'[t][a] = p
    BY <1>0, <1>4, <2>1 DEF KeptTypes
  <2>4. /\ failed' \in [Tests -> [Agents -> Seq(AnyFailure)]]
        /\ noted' \in [Tests -> [Agents -> Seq(AnyEvent)]]
        /\ \A u \in Tests, b \in Agents : u # t \/ b # a =>
              failed'[u][b] = failed[u][b] /\ noted'[u][b] = noted[u][b]
        /\ failed'[t][a] = f /\ noted'[t][a] = e
    BY <1>0, <1>4, <2>2 DEF KeptTypes
  <2>5. Kept(a, t, k)
    BY <1>5, <2>3 DEF Kept, r, p
  <2>6. Good(a, result'[t][a], passed'[t][a], failed'[t][a], noted'[t][a])
    BY <1>2, <2>3, <2>4
  <2>7. KeptTypes' /\ \A u \in Tests, b \in Agents : u # t \/ b # a => SameKept(u, b)
    BY <2>3, <2>4 DEF KeptTypes, SameKept
  <2> QED
    BY <1>3, <2>5, <2>6, <2>7
<1>6. CASE ~Known(a, t)
  <2>1. UNCHANGED <<result, passed, failed, noted>>
    BY <1>6 DEF Take
  <2>2. Good(a, result'[t][a], passed'[t][a], failed'[t][a], noted'[t][a])
    BY <1>1, <2>1
  <2>3. KeptTypes' /\ \A u \in Tests, b \in Agents : SameKept(u, b)
    BY <1>0, <2>1 DEF KeptTypes, SameKept
  <2>4. Dropped(a, t)
    BY <1>6, <2>1 DEF Dropped
  <2> QED
    BY <1>3, <2>2, <2>3, <2>4
<1> QED
  BY <1>5, <1>6

LEMMA PresenceStep ==
  ASSUME FigTypes, AllGood, NEW t \in Tests, NEW a \in Agents, OnPresence(a, t)
  PROVE  /\ KeptTypes'
         /\ \A u \in Tests, b \in Agents : u # t \/ b # a => SameKept(u, b)
         /\ Good(a, result'[t][a], passed'[t][a], failed'[t][a], noted'[t][a])
         /\ passed' = passed /\ result'[t][a].latest = result[t][a].latest
         /\ UNCHANGED <<tmVars, reached, next, held, totals>>
<1> DEFINE r == [result[t][a] EXCEPT !.events = AddEvents(result[t][a].events, <<PresenceEvent>>)]
           e == Append(noted[t][a], PresenceEvent)
<1>0. KeptTypes
  BY DEF FigTypes, KeptTypes
<1>1. Good(a, result[t][a], passed[t][a], failed[t][a], noted[t][a])
  BY DEF AllGood
<1>2. Good(a, r, passed[t][a], failed[t][a], e) /\ r.latest = result[t][a].latest
  BY <1>1, PresenceTaken
<1>3. /\ result' = [result EXCEPT ![t][a] = r]
      /\ noted' = [noted EXCEPT ![t][a] = e]
      /\ UNCHANGED <<tmVars, reached, next, held, totals, passed, failed>>
  <2>1. /\ result' = [result EXCEPT ![t][a].events = AddEvents(@, <<PresenceEvent>>)]
        /\ noted' = [noted EXCEPT ![t][a] = Append(@, PresenceEvent)]
        /\ UNCHANGED <<tmVars, reached, next, held, totals, passed, failed>>
    BY DEF OnPresence
  <2> QED
    BY <2>1
<1> HIDE DEF r, e
<1>4. r \in AnyResult /\ e \in Seq(AnyEvent)
  BY <1>2, GoodTypes
<1>5. /\ result' \in [Tests -> [Agents -> AnyResult]]
      /\ \A u \in Tests, b \in Agents : u # t \/ b # a => result'[u][b] = result[u][b]
      /\ result'[t][a] = r
  BY <1>0, <1>3, <1>4 DEF KeptTypes
<1>6. /\ noted' \in [Tests -> [Agents -> Seq(AnyEvent)]]
      /\ \A u \in Tests, b \in Agents : u # t \/ b # a => noted'[u][b] = noted[u][b]
      /\ noted'[t][a] = e
  BY <1>0, <1>3, <1>4 DEF KeptTypes
<1>7. KeptTypes' /\ \A u \in Tests, b \in Agents : u # t \/ b # a => SameKept(u, b)
  BY <1>0, <1>3, <1>5, <1>6 DEF KeptTypes, SameKept
<1> QED
  BY <1>2, <1>3, <1>5, <1>6, <1>7

(* The totals a tick would find are a number.                                 *)
LEMMA AggregateIsNatural ==
  ASSUME TMTypeOK, AllGood, NEW t \in Tests
  PROVE  Aggregate(t) \in Nat
<1> DEFINE S == members[t]
           f == [a \in S |-> result[t][a].latest]
<1>1. S \subseteq Agents /\ IsFiniteSet(S)
  BY AgentsAssumption, FS_Subset DEF TMTypeOK, AgentsAssumption
<1>2. \A a \in S : f[a] \in Nat
  <2> SUFFICES ASSUME NEW a \in S
               PROVE  result[t][a].latest \in Nat
    OBVIOUS
  <2>1. result[t][a] \in ResultType(a)
    BY <1>1 DEF AllGood, Good
  <2> QED
    BY <2>1 DEF ResultType
<1>3. PICK g : Adds(g, f, S) /\ LatestSum(result[t], S) = g[S]
  BY <1>1, LatestSumAdds
<1>4. Aggregate(t) = LatestSum(result[t], S)
  BY DEF Aggregate, LatestSum
<1>5. g[S] \in Nat
  <2> HIDE DEF f
  <2> QED
    BY <1>1, <1>2, <1>3, SumStep
<1> QED
  BY <1>3, <1>4, <1>5

(* The steps that take nothing from an agent.                                 *)
Untaken == UNCHANGED <<result, passed, failed, noted>>

LEMMA UntakenGood ==
  ASSUME AllGood, Untaken
  PROVE  AllGood'
BY DEF AllGood, Untaken

LEMMA AllStillGood ==
  ASSUME AllGood, NEW t \in Tests, NEW a \in Agents,
         \A u \in Tests, b \in Agents : u # t \/ b # a => SameKept(u, b),
         Good(a, result'[t][a], passed'[t][a], failed'[t][a], noted'[t][a])
  PROVE  AllGood'
<1>1. ASSUME NEW u \in Tests, NEW b \in Agents
      PROVE  Good(b, result'[u][b], passed'[u][b], failed'[u][b], noted'[u][b])
  <2>1. Good(b, result[u][b], passed[u][b], failed[u][b], noted[u][b])
    BY DEF AllGood
  <2>2. CASE u = t /\ b = a
    BY <2>2
  <2>3. CASE u # t \/ b # a
    <3>1. SameKept(u, b)
      BY <2>3
    <3> QED
      BY <2>1, <3>1 DEF SameKept
  <2> QED
    BY <2>2, <2>3
<1> QED
  BY <1>1 DEF AllGood

LEMMA DataStep ==
  ASSUME FigInv, [Next]_vars
  PROVE  FigTypes' /\ AllGood' /\ Silent'
<1> USE DEF FigInv
<1>0. \A a \in Agents : Summary(a) \in Nat \ {0}
  BY Constants
<1>1. ASSUME Calls \/ UNCHANGED vars
      PROVE  FigTypes' /\ AllGood' /\ Silent'
  <2>1. UNCHANGED figVars
    BY <1>1 DEF Calls, vars
  <2> QED
    BY <2>1, UntakenGood DEF figVars, Untaken, FigTypes, Silent
<1>2. ASSUME NEW s \in Starters, NEW a \in Agents, NEW ok \in BOOLEAN, StartReaches(s, a, ok)
      PROVE  FigTypes' /\ AllGood' /\ Silent'
  <2>1. UNCHANGED <<next, held, result, totals, passed, failed, noted>>
    BY <1>2 DEF StartReaches
  <2>2. start[s].test \in Tests
    BY <1>2 DEF StartReaches, StartSend, FreshInv, Sending
  <2>3. /\ reached' \in [Tests -> SUBSET Agents]
        /\ \A t \in Tests : reached[t] \subseteq reached'[t]
    BY <1>2, <2>2 DEF StartReaches, FigTypes
  <2> QED
    BY <2>1, <2>3, UntakenGood DEF Untaken, FigTypes, Silent
<1>3. ASSUME NEW t \in Tests, Tick(t)
      PROVE  FigTypes' /\ AllGood' /\ Silent'
  <2>1. UNCHANGED <<reached, next, held, result, passed, failed, noted>>
    BY <1>3 DEF Tick
  <2>2. totals' \in [Tests -> Nat]
    <3>1. totals \in [Tests -> Nat] /\ totals' = [totals EXCEPT ![t] = Aggregate(t)]
      BY <1>3 DEF Tick, FigTypes
    <3>2. Aggregate(t) \in Nat
      BY AggregateIsNatural
    <3> QED
      BY <3>1, <3>2
  <2> QED
    BY <2>1, <2>2, UntakenGood DEF Untaken, FigTypes, Silent
<1>4. ASSUME NEW t \in Tests, NEW a \in Agents, Comes(a, t)
      PROVE  /\ next[t][a] \in 1..Summary(a) /\ a \in reached[t]
             /\ next' \in [Tests -> [Agents -> Nat]]
             /\ \A u \in Tests, b \in Agents : next'[u][b] \in 1..(Summary(b) + 1)
  <2>1. next[t][a] \in 1..Summary(a) /\ a \in reached[t]
    BY <1>0, <1>4 DEF Comes, FigTypes
  <2>2. next[t][a] + 1 \in 1..(Summary(a) + 1) /\ next[t][a] + 1 \in Nat
    BY <1>0, <2>1
  <2>3. next \in [Tests -> [Agents -> Nat]] /\ next' = [next EXCEPT ![t][a] = next[t][a] + 1]
    BY <1>4 DEF Comes, FigTypes
  <2>4. \A u \in Tests, b \in Agents : next[u][b] \in 1..(Summary(b) + 1)
    BY DEF FigTypes
  <2> QED
    BY <2>1, <2>2, <2>3, <2>4
<1>5. ASSUME NEW t \in Tests, NEW a \in Agents, ReportArrives(a, t)
      PROVE  FigTypes' /\ AllGood' /\ Silent'
  <2> DEFINE k == next[t][a]
  <2>1. Comes(a, t) /\ Take(a, t, k) /\ UNCHANGED held
    BY <1>5 DEF ReportArrives
  <2>2. k \in 1..Summary(a) /\ a \in reached[t]
    BY <1>4, <2>1
  <2> HIDE DEF k
  <2>3. /\ KeptTypes'
        /\ \A u \in Tests, b \in Agents : u # t \/ b # a => SameKept(u, b)
        /\ Good(a, result'[t][a], passed'[t][a], failed'[t][a], noted'[t][a])
        /\ UNCHANGED <<reached, totals>>
    BY <2>1, <2>2, TakeStep
  <2>4. AllGood'
    BY <2>3, AllStillGood
  <2>5. FigTypes'
    <3>1. /\ next' \in [Tests -> [Agents -> Nat]]
          /\ \A u \in Tests, b \in Agents : next'[u][b] \in 1..(Summary(b) + 1)
      BY <1>4, <2>1
    <3>2. /\ reached \in [Tests -> SUBSET Agents] /\ totals \in [Tests -> Nat]
          /\ held \in [Tests -> [Agents -> SUBSET Nat]]
          /\ \A u \in Tests, b \in Agents : held[u][b] \subseteq 1..Summary(b)
      BY DEF FigTypes
    <3>3. UNCHANGED <<reached, totals, held>>
      BY <2>1, <2>3
    <3> QED
      BY <2>3, <3>1, <3>2, <3>3 DEF FigTypes, KeptTypes
  <2>6. Silent'
    <3> SUFFICES ASSUME NEW u \in Tests, NEW b \in Agents, b \notin reached'[u]
                 PROVE  held'[u][b] = {} /\ passed'[u][b] = << >>
      BY DEF Silent
    <3>1. b \notin reached[u] /\ held' = held
      BY <2>1, <2>3
    <3>2. u # t \/ b # a
      BY <2>2, <3>1
    <3>3. passed'[u][b] = passed[u][b]
      BY <2>3, <3>2 DEF SameKept
    <3> QED
      BY <3>1, <3>3 DEF Silent
  <2> QED
    BY <2>4, <2>5, <2>6
<1>6. ASSUME NEW t \in Tests, NEW a \in Agents, ReportMissing(a, t)
      PROVE  FigTypes' /\ AllGood' /\ Silent'
  <2>1. Comes(a, t) /\ UNCHANGED <<reached, held, result, totals, passed, failed, noted>>
    BY <1>6 DEF ReportMissing
  <2> QED
    BY <1>4, <2>1, UntakenGood DEF Untaken, FigTypes, Silent
<1>7. ASSUME NEW t \in Tests, NEW a \in Agents, ReportHeld(a, t)
      PROVE  FigTypes' /\ AllGood' /\ Silent'
  <2>1. Comes(a, t) /\ UNCHANGED <<reached, result, totals, passed, failed, noted>>
        /\ held' = [held EXCEPT ![t][a] = held[t][a] \cup {next[t][a]}]
    BY <1>7 DEF ReportHeld
  <2>2. next[t][a] \in 1..Summary(a) /\ next[t][a] \in Nat /\ a \in reached[t]
    BY <1>4, <2>1
  <2>3. held \in [Tests -> [Agents -> SUBSET Nat]] /\ held[t][a] \subseteq 1..Summary(a)
    BY DEF FigTypes
  <2> DEFINE h == held[t][a] \cup {next[t][a]}
  <2>4. h \in SUBSET Nat /\ h \subseteq 1..Summary(a)
    BY <2>2, <2>3
  <2> HIDE DEF h
  <2>5. /\ held' \in [Tests -> [Agents -> SUBSET Nat]]
        /\ held'[t][a] = h
        /\ \A u \in Tests, b \in Agents : u # t \/ b # a => held'[u][b] = held[u][b]
    <3>1. held' = [held EXCEPT ![t][a] = h]
      BY <2>1 DEF h
    <3> QED
      BY <2>3, <2>4, <3>1
  <2>6. \A u \in Tests, b \in Agents : held'[u][b] \subseteq 1..Summary(b)
    BY <2>4, <2>5 DEF FigTypes
  <2>7. FigTypes'
    BY <1>4, <2>1, <2>5, <2>6 DEF FigTypes
  <2>8. Silent'
    BY <2>1, <2>2, <2>5 DEF Silent
  <2> QED
    BY <2>1, <2>7, <2>8, UntakenGood DEF Untaken
<1>8. ASSUME NEW t \in Tests, NEW a \in Agents, HeldArrives(a, t)
      PROVE  FigTypes' /\ AllGood' /\ Silent'
  <2>1. PICK k \in held[t][a] : /\ Take(a, t, k)
                                /\ held' = [held EXCEPT ![t][a] = @ \ {k}]
                                /\ UNCHANGED next
    BY <1>8 DEF HeldArrives
  <2>2. held \in [Tests -> [Agents -> SUBSET Nat]] /\ held[t][a] \subseteq 1..Summary(a)
    BY DEF FigTypes
  <2>3. k \in 1..Summary(a) /\ a \in reached[t]
    BY <2>1, <2>2 DEF Silent
  <2>4. /\ KeptTypes'
        /\ \A u \in Tests, b \in Agents : u # t \/ b # a => SameKept(u, b)
        /\ Good(a, result'[t][a], passed'[t][a], failed'[t][a], noted'[t][a])
        /\ UNCHANGED <<reached, totals>>
    BY <2>1, <2>3, TakeStep
  <2>5. AllGood'
    BY <2>4, AllStillGood
  <2> DEFINE h == held[t][a] \ {k}
  <2>6. h \in SUBSET Nat /\ h \subseteq 1..Summary(a)
    BY <2>2
  <2> HIDE DEF h
  <2>7. /\ held' \in [Tests -> [Agents -> SUBSET Nat]]
        /\ held'[t][a] = h
        /\ \A u \in Tests, b \in Agents : u # t \/ b # a => held'[u][b] = held[u][b]
    <3>1. held' = [held EXCEPT ![t][a] = h]
      BY <2>1 DEF h
    <3> QED
      BY <2>2, <2>6, <3>1
  <2>8. \A u \in Tests, b \in Agents : held'[u][b] \subseteq 1..Summary(b)
    BY <2>6, <2>7 DEF FigTypes
  <2>9. FigTypes'
    <3>1. UNCHANGED <<reached, totals, next>>
      BY <2>1, <2>4
    <3> QED
      BY <2>4, <2>7, <2>8, <3>1 DEF FigTypes, KeptTypes
  <2>10. Silent'
    <3> SUFFICES ASSUME NEW u \in Tests, NEW b \in Agents, b \notin reached[u]
                 PROVE  held'[u][b] = {} /\ passed'[u][b] = << >>
      BY <2>4 DEF Silent
    <3>1. u # t \/ b # a
      BY <2>3
    <3>2. held'[u][b] = held[u][b] /\ passed'[u][b] = passed[u][b]
      BY <2>4, <2>7, <3>1 DEF SameKept
    <3> QED
      BY <3>2 DEF Silent
  <2> QED
    BY <2>5, <2>9, <2>10
<1>9. ASSUME NEW t \in Tests, NEW a \in Agents, OnPresence(a, t)
      PROVE  FigTypes' /\ AllGood' /\ Silent'
  <2>1. /\ KeptTypes'
        /\ \A u \in Tests, b \in Agents : u # t \/ b # a => SameKept(u, b)
        /\ Good(a, result'[t][a], passed'[t][a], failed'[t][a], noted'[t][a])
        /\ passed' = passed
        /\ UNCHANGED <<reached, next, held, totals>>
    BY <1>9, PresenceStep
  <2>2. AllGood'
    BY <2>1, AllStillGood
  <2> QED
    BY <2>1, <2>2 DEF FigTypes, KeptTypes, Silent
<1> QED
  BY <1>1, <1>2, <1>3, <1>5, <1>6, <1>7, <1>8, <1>9 DEF Next

LEMMA TakeEnded ==
  ASSUME FigInv, NEW t \in Tests, NEW a \in Agents, NEW k \in 1..Summary(a), Take(a, t, k)
  PROVE  Ended' /\ Unsent'
<1> USE DEF FigInv
<1>1. /\ \A u \in Tests, b \in Agents : u # t \/ b # a => passed'[u][b] = passed[u][b]
      /\ Kept(a, t, k) \/ Dropped(a, t)
      /\ UNCHANGED <<reached, start, nextTest, status, members>>
      /\ \/ arDone' = arDone
         \/ /\ k >= Final(a) /\ Known(a, t)
            /\ arDone' = [arDone EXCEPT ![t] = @ \cup {a}]
  BY TakeStep DEF SameKept
<1>2. arDone \in [Tests -> SUBSET Agents] /\ Tests \subseteq Nat /\ nextTest \in Nat
  BY DEF TMTypeOK, Tests
<1>3. \A u \in Tests : u # t => arDone'[u] = arDone[u]
  BY <1>1, <1>2
<1>4. Ended'
  <2> SUFFICES ASSUME NEW u \in Tests, NEW b \in Agents, b \in arDone'[u], b \in reached[u]
               PROVE  \E i \in DOMAIN passed'[u][b] : passed'[u][b][i] >= Final(b)
    BY <1>1 DEF Ended
  <2>1. CASE u # t \/ b # a
    <3>1. b \in arDone[u]
      BY <1>1, <1>2, <2>1
    <3> QED
      BY <1>1, <2>1, <3>1 DEF Ended
  <2>2. CASE u = t /\ b = a
    <3> DEFINE p == passed[t][a]
               q == passed'[t][a]
    <3>1. p \in Seq(1..Summary(a))
      BY DEF AllGood, Good
    <3>2. ASSUME q = Append(p, k)
          PROVE  /\ Len(p) + 1 \in DOMAIN q /\ q[Len(p) + 1] = k
                 /\ \A i \in DOMAIN p : i \in DOMAIN q /\ q[i] = p[i]
      BY <3>1, <3>2, Appended
    <3> HIDE DEF p, q
    <3>3. CASE Kept(a, t, k)
      <4>1. q = Append(p, k)
        BY <3>3 DEF Kept, p, q
      <4>2. CASE arDone' = arDone
        <5>1. PICK i \in DOMAIN p : p[i] >= Final(a)
          BY <2>2, <4>2 DEF Ended, p
        <5> QED
          BY <2>2, <3>2, <4>1, <5>1 DEF q
      <4>3. CASE k >= Final(a)
        BY <2>2, <3>2, <4>1, <4>3 DEF q
      <4> QED
        BY <1>1, <4>2, <4>3
    <3>4. CASE Dropped(a, t)
      <4>1. arDone' = arDone /\ q = p
        BY <1>1, <3>4 DEF Dropped, p, q
      <4> QED
        BY <2>2, <4>1 DEF Ended, p, q
    <3> QED
      BY <1>1, <3>3, <3>4
  <2> QED
    BY <2>1, <2>2
<1>5. Unsent'
  <2>1. CASE arDone' = arDone
    BY <1>1, <2>1 DEF Unsent, Sending
  <2>2. CASE Known(a, t)
    <3>1. status[t] # "unborn"
      BY <2>2 DEF Known, Published
    <3>2. \A u \in Tests : u >= nextTest => u # t
      BY <3>1 DEF FreshInv
    <3>3. \A s \in Starters : Sending(s) => start[s].test \in Tests /\ start[s].test # t
      BY <3>1 DEF FreshInv
    <3> QED
      BY <1>1, <1>3, <3>2, <3>3 DEF Unsent, Sending
  <2> QED
    BY <1>1, <2>1, <2>2
<1> QED
  BY <1>4, <1>5

LEMMA ControlStep ==
  ASSUME FigInv, [Next]_vars
  PROVE  Unsent' /\ Ended'
<1> USE DEF FigInv
<1>0. arDone \in [Tests -> SUBSET Agents] /\ Tests \subseteq Nat /\ nextTest \in Nat
      /\ reached \in [Tests -> SUBSET Agents]
  BY DEF TMTypeOK, Tests, FigTypes
<1>1. ASSUME UNCHANGED <<arDone, reached, passed, start, nextTest>>
      PROVE  Unsent' /\ Ended'
  BY <1>1 DEF Unsent, Ended, Sending
<1>2. ASSUME Calls
      PROVE  Unsent' /\ Ended'
  <2>1. UNCHANGED <<reached, passed>>
    BY <1>2 DEF Calls, figVars
  <2>2. UNCHANGED arDone
    BY <1>2 DEF Calls, StartCheck, StartReject, StartPrepare, StartPublish, TMStop,
                StopMark, StopSend, PassDuration, PassGrace
  <2>3. Ended'
    BY <2>1, <2>2 DEF Ended
  <2>4. ASSUME UNCHANGED nextTest, NEW s \in Starters,
               \A r \in Starters : r # s => start'[r] = start[r], start'[s].pc # "sending"
        PROVE  Unsent'
    BY <2>1, <2>2, <2>4 DEF Unsent, Sending
  <2>5. ASSUME NEW s \in Starters, StartCheck(s) \/ StartReject(s) \/ StartPublish(s)
        PROVE  Unsent'
    <3>1. /\ UNCHANGED nextTest
          /\ \A r \in Starters : r # s => start'[r] = start[r]
          /\ start'[s].pc # "sending"
      BY <2>5 DEF StartCheck, StartReject, StartPublish, TMTypeOK, Idle
    <3> QED
      BY <2>4, <3>1
  <2>6. ASSUME NEW s \in Starters, NEW ids \in SUBSET Agents, StartPrepare(s, ids)
        PROVE  Unsent'
    <3>1. /\ nextTest' = nextTest + 1 /\ nextTest \in Tests
          /\ \A r \in Starters : r # s => start'[r] = start[r]
          /\ start'[s].test = nextTest
      BY <2>6 DEF StartPrepare, TMTypeOK, Tests
    <3>2. reached[nextTest] = {} /\ arDone[nextTest] = {}
      BY <1>0, <3>1 DEF Unsent
    <3>3. \A t \in Tests : t >= nextTest + 1 => t >= nextTest
      BY <1>0
    <3> QED
      BY <2>1, <2>2, <3>1, <3>2, <3>3 DEF Unsent, Sending
  <2>7. ASSUME UNCHANGED <<start, nextTest>>
        PROVE  Unsent'
    BY <2>1, <2>2, <2>7 DEF Unsent, Sending
  <2>8. ASSUME NEW p \in Stoppers, TMStop(p)
        PROVE  Unsent'
    BY <2>7, <2>8 DEF TMStop, StopMark, StopSend
  <2>9. ASSUME NEW t \in Tests, PassDuration(t) \/ PassGrace(t)
        PROVE  Unsent'
    BY <2>7, <2>9 DEF PassDuration, PassGrace
  <2> QED
    BY <1>2, <2>3, <2>5, <2>6, <2>8, <2>9 DEF Calls
<1>3. ASSUME NEW s \in Starters, NEW a \in Agents, NEW ok \in BOOLEAN, StartReaches(s, a, ok)
      PROVE  Unsent' /\ Ended'
  <2> DEFINE t == start[s].test
  <2>1. /\ Sending(s) /\ a \in start[s].todo /\ UNCHANGED <<nextTest, passed>>
        /\ \A r \in Starters : r # s => start'[r] = start[r]
        /\ start'[s].test = t /\ start'[s].todo = start[s].todo \ {a}
    BY <1>3 DEF StartReaches, StartSend, Sending, TMTypeOK
  <2>2. /\ t \in Tests /\ t < nextTest
        /\ \A r \in Starters : r # s /\ Sending(r) => start[r].test # t
    BY <2>1 DEF FreshInv
  <2>3. a \notin reached[t] /\ a \notin arDone[t]
    BY <2>1 DEF Unsent
  <2> HIDE DEF t
  <2>4. \/ /\ arDone' = arDone /\ reached' = [reached EXCEPT ![t] = @ \cup {a}]
        \/ /\ reached' = reached /\ arDone' = [arDone EXCEPT ![t] = @ \cup {a}]
    BY <1>3 DEF StartReaches, StartSend, t
  <2>5. /\ \A u \in Tests : u # t => reached'[u] = reached[u] /\ arDone'[u] = arDone[u]
        /\ reached'[t] \cup arDone'[t] = reached[t] \cup arDone[t] \cup {a}
        /\ a \notin reached'[t] \/ a \notin arDone'[t]
        /\ \A b \in Agents : b # a => (b \in reached'[t] <=> b \in reached[t])
                                      /\ (b \in arDone'[t] <=> b \in arDone[t])
    BY <1>0, <2>2, <2>3, <2>4
  <2>6. Ended'
    <3> SUFFICES ASSUME NEW u \in Tests, NEW b \in Agents, b \in arDone'[u], b \in reached'[u]
                 PROVE  \E i \in DOMAIN passed[u][b] : passed[u][b][i] >= Final(b)
      BY <2>1 DEF Ended
    <3>1. b \in arDone[u] /\ b \in reached[u]
      BY <2>5
    <3> QED
      BY <3>1 DEF Ended
  <2>7. Unsent'
    <3>1. \A u \in Tests : u >= nextTest' => reached'[u] = {} /\ arDone'[u] = {}
      <4>1. \A u \in Tests : u >= nextTest => u # t
        BY <1>0, <2>2
      <4> QED
        BY <2>1, <2>5, <4>1 DEF Unsent
    <3>2. ASSUME NEW r \in Starters, start'[r].pc = "sending"
          PROVE  start'[r].todo \cap (reached'[start'[r].test] \cup arDone'[start'[r].test]) = {}
      <4>1. CASE r = s
        BY <2>1, <2>5, <4>1 DEF Unsent, t
      <4>2. CASE r # s
        <5>1. start'[r] = start[r] /\ Sending(r)
          BY <2>1, <3>2, <4>2 DEF Sending
        <5>2. start[r].test \in Tests /\ start[r].test # t
          BY <2>2, <4>2, <5>1 DEF FreshInv
        <5> QED
          BY <2>5, <5>1, <5>2 DEF Unsent
      <4> QED
        BY <4>1, <4>2
    <3> QED
      BY <3>1, <3>2 DEF Unsent, Sending
  <2> QED
    BY <2>6, <2>7
<1>4. ASSUME NEW t \in Tests, Tick(t)
      PROVE  Unsent' /\ Ended'
  BY <1>1, <1>4 DEF Tick, TickFinish, tmVars
<1>5. ASSUME NEW t \in Tests, NEW a \in Agents, ReportArrives(a, t)
      PROVE  Unsent' /\ Ended'
  <2>1. next[t][a] \in 1..Summary(a)
    BY <1>5, Constants DEF ReportArrives, Comes, FigTypes
  <2> QED
    BY <1>5, <2>1, TakeEnded DEF ReportArrives
<1>6. ASSUME NEW t \in Tests, NEW a \in Agents, HeldArrives(a, t)
      PROVE  Unsent' /\ Ended'
  <2>1. PICK k \in held[t][a] : Take(a, t, k)
    BY <1>6 DEF HeldArrives
  <2>2. k \in 1..Summary(a)
    BY <2>1 DEF FigTypes
  <2> QED
    BY <2>1, <2>2, TakeEnded
<1>7. ASSUME NEW t \in Tests, NEW a \in Agents, ReportMissing(a, t) \/ ReportHeld(a, t)
      PROVE  Unsent' /\ Ended'
  BY <1>1, <1>7 DEF ReportMissing, ReportHeld, tmVars
<1>8. ASSUME UNCHANGED vars
      PROVE  Unsent' /\ Ended'
  BY <1>1, <1>8 DEF vars, tmVars, figVars
<1>9. ASSUME NEW t \in Tests, NEW a \in Agents, OnPresence(a, t)
      PROVE  Unsent' /\ Ended'
  BY <1>1, <1>9 DEF OnPresence, tmVars
<1> QED
  BY <1>2, <1>3, <1>4, <1>5, <1>6, <1>7, <1>8, <1>9 DEF Next

LEMMA FigStep ==
  ASSUME FigInv, [Next]_vars
  PROVE  FigInv'
<1>1. TMTypeOK' /\ FreshInv'
  BY ManagerStep, TypeStep, FreshStep DEF FigInv
<1> QED
  BY <1>1, DataStep, ControlStep DEF FigInv

(* With its figures, the manager takes only the steps of TestManager, so what *)
(* is proved there of the life of a test holds here too.                      *)
THEOREM FiguresImplementManager == Spec => TMSafety
<1>1. Init => TMInit
  BY DEF Init
<1>2. [Next]_vars => [TMNext]_tmVars
  BY ManagerStep
<1> QED
  BY <1>1, <1>2, PTL DEF Spec, TMSafety

LEMMA FigAlways == Spec => []FigInv
<1>1. Init => FigInv
  BY FigInit
<1>2. FigInv /\ [Next]_vars => FigInv'
  BY FigStep
<1> QED
  BY <1>1, <1>2, PTL DEF Spec

-----------------------------------------------------------------------------
(* Whatever is lost and comes late, the figures and the logs of an agent keep *)
(* within their types, and the logs within their caps.                        *)
THEOREM TypeCorrect == Spec => []TypeOK
<1>1. FigInv => TypeOK
  <2> SUFFICES ASSUME FigInv
               PROVE  TypeOK
    OBVIOUS
  <2>1. ASSUME NEW t \in Tests, NEW a \in Agents
        PROVE  /\ passed[t][a] \in Seq(1..Summary(a))
               /\ result[t][a].latest \in 0..Final(a)
               /\ result[t][a].history \in Seq(1..Running[a])
               /\ Len(result[t][a].history) <= maxHistory
               /\ result[t][a].errors \in Seq((1..Final(a)) \X Nat)
               /\ Len(result[t][a].errors) <= maxErrorLog
               /\ Len(result[t][a].events) <= maxEvents
    <3> DEFINE r == result[t][a]
               f == failed[t][a]
               n == noted[t][a]
    <3>1. Good(a, r, passed[t][a], f, n)
      BY DEF FigInv, AllGood
    <3> HIDE DEF r, f, n
    <3>2. r \in ResultType(a)
      BY <3>1 DEF Good
    <3>3. /\ r.errors = Newest(f, maxErrorLog) /\ f \in Seq(Failure(a))
          /\ r.events = Newest(n, maxEvents) /\ n \in Seq(AnyEvent)
      BY <3>1 DEF Good
    <3>4. Len(r.errors) <= maxErrorLog
      BY <3>3, Constants, NewestFits
    <3>5. Len(r.events) <= maxEvents
      BY <3>3, Constants, NewestFits
    <3>6. Len(r.history) <= maxHistory
      BY <3>1 DEF Good, NewestOf
    <3>7. /\ r.latest \in 0..Final(a) /\ r.history \in Seq(1..Running[a])
          /\ r.errors \in Seq((1..Final(a)) \X Nat)
      BY <3>2 DEF ResultType, Failure
    <3>8. passed[t][a] \in Seq(1..Summary(a))
      BY <3>1 DEF Good
    <3> QED
      BY <3>4, <3>5, <3>6, <3>7, <3>8 DEF r
  <2> QED
    BY <2>1 DEF TypeOK, FigInv, FigTypes
<1> QED
  BY <1>1, FigAlways, PTL

(* The history, the error log and the events of every agent are the newest of *)
(* what they are for, in order, whichever reports are lost, however many      *)
(* requests fail at once, and whichever reports come late.                    *)
THEOREM LogsAlwaysNewest == Spec => []LogsAreNewest
<1>1. FigInv => LogsAreNewest
  BY DEF FigInv, AllGood, Good, LogsAreNewest
<1> QED
  BY <1>1, FigAlways, PTL

(* The link events that are kept lead from each reading to the next, as long  *)
(* as the system tells the names of the access points, however many drops and *)
(* returns of the connection come between them and push the oldest out.       *)
THEOREM EventsAlwaysTellTheLink == Spec => []EventsTellTheLink
<1>1. FigInv => EventsTellTheLink
  <2> SUFFICES ASSUME FigInv
               PROVE  EventsTellTheLink
    OBVIOUS
  <2>1. ASSUME NEW t \in Tests, NEW a \in Agents, Hidden \notin Heard(a, passed[t][a])
        PROVE  LET r     == result[t][a]
                   heard == Heard(a, passed[t][a])
                   links == LinksIn(r.events)
               IN  /\ links = {} => heard \subseteq {r.link} \/ Len(r.events) = maxEvents
                   /\ \A j \in links :
                        /\ r.events[j][2] \in heard
                        /\ (\A k \in links : k <= j) => r.events[j][3] = r.link
                        /\ \A i \in links :
                             i < j /\ (\A k \in links : k <= i \/ j <= k)
                               => r.events[i][3] = r.events[j][2]
    <3>1. Good(a, result[t][a], passed[t][a], failed[t][a], noted[t][a])
      BY DEF FigInv, AllGood
    <3> DEFINE n == noted[t][a]
               r == result[t][a]
               H == Heard(a, passed[t][a])
               q == r.events
    <3>2. /\ n \in Seq(AnyEvent) /\ q = Newest(n, maxEvents)
          /\ EventsLead(n, r.seen, r.link, H) /\ Hidden \notin H
      BY <2>1, <3>1 DEF Good
    <3> HIDE DEF n, H, q
    <3>3. /\ LinksIn(q) = {} => H \subseteq {r.link} \/ Len(q) = maxEvents
          /\ \A j \in LinksIn(q) :
               /\ q[j][2] \in H
               /\ (\A k \in LinksIn(q) : k <= j) => q[j][3] = r.link
               /\ \A i \in LinksIn(q) :
                    i < j /\ (\A k \in LinksIn(q) : k <= i \/ j <= k) => q[i][3] = q[j][2]
      BY <3>2, KeptLead
    <3> QED
      BY <3>3 DEF q, H
  <2> QED
    BY <2>1 DEF EventsTellTheLink
<1> QED
  BY <1>1, FigAlways, PTL

-----------------------------------------------------------------------------
(* The totals.                                                                *)

(* While its agents' reports come in order, a test's totals are what a tick   *)
(* found, and the figures have not fallen since.                              *)
Counted ==
  \A t \in Tests :
    /\ ~Published(t) => totals[t] = 0
    /\ (\A a \in members[t] : InOrder(t, a)) => totals[t] <= Aggregate(t)

LEMMA AggregateIsSum ==
  ASSUME NEW t
  PROVE  /\ Aggregate(t) = LatestSum(result[t], members[t])
         /\ Aggregate(t)' = LatestSum(result'[t], members'[t])
<1>1. Aggregate(t) = LatestSum(result[t], members[t])
  BY DEF Aggregate, LatestSum
<1>2. Aggregate(t)' = LatestSum(result'[t], members'[t])
  BY DEF Aggregate, LatestSum, MapThenSumSet, MapThenFoldSet
<1> QED
  BY <1>1, <1>2

LEMMA AggregateGrows ==
  ASSUME FigInv, FigInv', NEW t \in Tests, members'[t] = members[t],
         \A a \in members[t] : result[t][a].latest <= result'[t][a].latest
  PROVE  /\ Aggregate(t) <= Aggregate(t)'
         /\ Aggregate(t) \in Nat /\ Aggregate(t)' \in Nat
<1> DEFINE S == members[t]
           f == [a \in S |-> result[t][a].latest]
           e == [a \in S |-> result'[t][a].latest]
<1>1. S \subseteq Agents /\ IsFiniteSet(S)
  BY AgentsAssumption, FS_Subset DEF FigInv, TMTypeOK, AgentsAssumption
<1>2. \A a \in S : f[a] \in Nat /\ e[a] \in Nat /\ f[a] <= e[a]
  <2> SUFFICES ASSUME NEW a \in S
               PROVE  result[t][a].latest \in Nat /\ result'[t][a].latest \in Nat
    OBVIOUS
  <2>1. result[t][a] \in ResultType(a) /\ result'[t][a] \in ResultType(a)
    BY <1>1 DEF FigInv, AllGood, Good
  <2> QED
    BY <2>1 DEF ResultType
<1>3. PICK g : Adds(g, f, S) /\ LatestSum(result[t], S) = g[S]
  BY <1>1, LatestSumAdds
<1>4. PICK h : Adds(h, e, S) /\ LatestSum(result'[t], S) = h[S]
  BY <1>1, LatestSumAdds
<1>5. Aggregate(t) = LatestSum(result[t], S)
  BY AggregateIsSum
<1>6. Aggregate(t)' = LatestSum(result'[t], S)
  BY AggregateIsSum
<1>7. g[S] <= h[S] /\ g[S] \in Nat /\ h[S] \in Nat
  <2> HIDE DEF f, e
  <2> QED
    BY <1>1, <1>2, <1>3, <1>4, SumMonotone, SumStep
<1> QED
  BY <1>3, <1>4, <1>5, <1>6, <1>7

LEMMA AggregateIsNaturalNext ==
  ASSUME TMTypeOK', AllGood', NEW t \in Tests
  PROVE  Aggregate(t)' \in Nat
<1> DEFINE S == members'[t]
           f == [a \in S |-> result'[t][a].latest]
<1>1. S \subseteq Agents /\ IsFiniteSet(S)
  BY AgentsAssumption, FS_Subset DEF TMTypeOK, AgentsAssumption
<1>2. \A a \in S : f[a] \in Nat
  <2> SUFFICES ASSUME NEW a \in S
               PROVE  result'[t][a].latest \in Nat
    OBVIOUS
  <2>1. result'[t][a] \in ResultType(a)
    BY <1>1 DEF AllGood, Good
  <2> QED
    BY <2>1 DEF ResultType
<1>3. PICK g : Adds(g, f, S) /\ LatestSum(result'[t], S) = g[S]
  BY <1>1, LatestSumAdds
<1>4. g[S] \in Nat
  <2> HIDE DEF f
  <2> QED
    BY <1>1, <1>2, <1>3, SumStep
<1> QED
  BY <1>3, <1>4, AggregateIsSum

LEMMA RequestsGrow ==
  ASSUME NEW a \in Agents, NEW j \in 1..Summary(a), NEW k \in 1..Summary(a), j < k
  PROVE  Requests(a, j) <= Requests(a, k)
BY Constants DEF Requests

(* A report that comes in order does not lower the agent's figures.           *)
LEMMA LatestGrows ==
  ASSUME FigInv, FigInv', NEW t \in Tests, NEW a \in Agents, NEW k \in 1..Summary(a),
         Take(a, t, k), InOrder(t, a)'
  PROVE  InOrder(t, a) /\ result[t][a].latest <= result'[t][a].latest
<1> DEFINE p == passed[t][a]
           q == passed'[t][a]
<1>1. /\ LastFigures(a, result[t][a], p) /\ LastFigures(a, result'[t][a], q)
      /\ p \in Seq(1..Summary(a)) /\ q \in Seq(1..Summary(a))
      /\ result[t][a].latest \in 0..Final(a) /\ result'[t][a].latest \in 0..Final(a)
  <2>1. /\ Good(a, result[t][a], p, failed[t][a], noted[t][a])
        /\ Good(a, result'[t][a], q, failed'[t][a], noted'[t][a])
    BY DEF FigInv, AllGood
  <2> QED
    BY <2>1 DEF Good, ResultType
<1>2. \A i, j \in DOMAIN q : i < j => q[i] < q[j]
  BY DEF InOrder
<1>3. Kept(a, t, k) \/ Dropped(a, t)
  BY TakeStep DEF FigInv
<1>4. CASE Kept(a, t, k)
  <2>1. q = Append(p, k)
    BY <1>4 DEF Kept
  <2> HIDE DEF p, q
  <2>2. /\ DOMAIN p = 1..Len(p) /\ Len(p) \in Nat /\ DOMAIN q = 1..(Len(p) + 1)
        /\ \A i \in 1..Len(p) : q[i] = p[i]
        /\ q[Len(p) + 1] = k /\ Len(q) = Len(p) + 1
    BY <1>1, <2>1, Appended
  <2>3. InOrder(t, a)
    BY <1>2, <2>2 DEF InOrder, p
  <2>4. q # << >>
    BY <2>2, EmptySeq
  <2>5. result'[t][a].latest = Requests(a, k)
    BY <1>1, <2>2, <2>4 DEF LastFigures
  <2>6. CASE p = << >>
    <3>1. result[t][a].latest = 0
      BY <1>1, <2>6 DEF LastFigures
    <3> QED
      BY <1>1, <2>3, <3>1
  <2>7. CASE p # << >>
    <3>1. result[t][a].latest = Requests(a, p[Len(p)])
      BY <1>1, <2>7 DEF LastFigures
    <3>2. Len(p) # 0
      BY <1>1, <2>7, EmptySeq
    <3>3. Len(p) \in DOMAIN p /\ Len(p) < Len(p) + 1 /\ Len(p) + 1 \in DOMAIN q
          /\ Len(p) \in DOMAIN q
      BY <2>2, <3>2
    <3>4. p[Len(p)] < k /\ p[Len(p)] \in 1..Summary(a)
      BY <1>1, <1>2, <2>2, <3>3, ElementOfSeq
    <3> QED
      BY <2>3, <2>5, <3>1, <3>4, RequestsGrow
  <2> QED
    BY <2>6, <2>7
<1>5. CASE Dropped(a, t)
  <2>1. result'[t][a] = result[t][a] /\ q = p
    BY <1>5 DEF Dropped
  <2> QED
    BY <1>1, <1>2, <2>1 DEF InOrder
<1> QED
  BY <1>3, <1>4, <1>5

(* Steps that leave the members, the totals and the figures alone.            *)
LEMMA CountedSame ==
  ASSUME FigInv, FigInv', Counted, UNCHANGED <<members, totals, result, passed>>,
         \A t \in Tests : Published(t) => status'[t] # "unborn"
  PROVE  Counted'
<1> SUFFICES ASSUME NEW t \in Tests
             PROVE  /\ status'[t] = "unborn" => totals'[t] = 0
                    /\ (\A a \in members'[t] : InOrder(t, a)') => totals'[t] <= Aggregate(t)'
  BY DEF Counted, Published
<1>1. status'[t] = "unborn" => totals'[t] = 0
  BY DEF Counted, Published
<1>2. Aggregate(t)' = Aggregate(t)
  BY AggregateIsSum
<1>3. \A a \in members'[t] : InOrder(t, a)' <=> InOrder(t, a)
  BY DEF InOrder
<1> QED
  BY <1>1, <1>2, <1>3 DEF Counted

LEMMA TakeCounted ==
  ASSUME FigInv, FigInv', Counted,
         NEW t \in Tests, NEW a \in Agents, NEW k \in 1..Summary(a), Take(a, t, k)
  PROVE  Counted'
<1>1. /\ \A u \in Tests, b \in Agents : u # t \/ b # a =>
           result'[u][b] = result[u][b] /\ passed'[u][b] = passed[u][b]
      /\ UNCHANGED <<totals, status, members>>
  BY TakeStep DEF FigInv, SameKept
<1>2. members \in [Tests -> SUBSET Agents]
  BY DEF FigInv, TMTypeOK
<1> SUFFICES ASSUME NEW u \in Tests
             PROVE  /\ status'[u] = "unborn" => totals'[u] = 0
                    /\ (\A b \in members'[u] : InOrder(u, b)') => totals'[u] <= Aggregate(u)'
  BY DEF Counted, Published
<1>3. status'[u] = "unborn" => totals'[u] = 0
  BY <1>1 DEF Counted, Published
<1>4. ASSUME \A b \in members'[u] : InOrder(u, b)'
      PROVE  totals'[u] <= Aggregate(u)'
  <2>1. ASSUME NEW b \in members[u]
        PROVE  InOrder(u, b) /\ result[u][b].latest <= result'[u][b].latest
    <3>1. b \in Agents /\ InOrder(u, b)'
      BY <1>1, <1>2, <1>4
    <3>2. CASE u = t /\ b = a
      BY <3>1, <3>2, LatestGrows
    <3>3. CASE u # t \/ b # a
      <4>1. result'[u][b] = result[u][b] /\ passed'[u][b] = passed[u][b]
        BY <1>1, <3>1, <3>3
      <4>2. result[u][b].latest \in Nat
        <5>1. result[u][b] \in ResultType(b)
          BY <3>1 DEF FigInv, AllGood, Good
        <5> QED
          BY <5>1 DEF ResultType
      <4>3. InOrder(u, b)
        BY <3>1, <4>1 DEF InOrder
      <4> QED
        BY <4>1, <4>2, <4>3
    <3> QED
      BY <3>2, <3>3
  <2>2. totals[u] <= Aggregate(u)
    BY <2>1 DEF Counted
  <2>3. /\ Aggregate(u) <= Aggregate(u)'
        /\ Aggregate(u) \in Nat /\ Aggregate(u)' \in Nat
    BY <1>1, <2>1, AggregateGrows
  <2>4. totals'[u] \in Nat /\ totals'[u] = totals[u]
    BY <1>1 DEF FigInv, FigTypes
  <2> QED
    BY <2>2, <2>3, <2>4
<1> QED
  BY <1>3, <1>4

LEMMA PresenceCounted ==
  ASSUME FigInv, FigInv', Counted, NEW t \in Tests, NEW a \in Agents, OnPresence(a, t)
  PROVE  Counted'
<1>1. /\ \A u \in Tests, b \in Agents : u # t \/ b # a => SameKept(u, b)
      /\ result'[t][a].latest = result[t][a].latest
      /\ passed' = passed
      /\ UNCHANGED <<totals, status, members>>
  BY PresenceStep DEF FigInv, tmVars
<1> SUFFICES ASSUME NEW u \in Tests
             PROVE  /\ status'[u] = "unborn" => totals'[u] = 0
                    /\ (\A b \in members'[u] : InOrder(u, b)') => totals'[u] <= Aggregate(u)'
  BY DEF Counted, Published
<1>2. members[u] \subseteq Agents /\ totals[u] \in Nat
  BY DEF FigInv, TMTypeOK, FigTypes
<1>3. \A b \in members[u] : result'[u][b].latest = result[u][b].latest
  BY <1>1, <1>2 DEF SameKept
<1>4. \A b \in members[u] : result[u][b].latest <= result'[u][b].latest
  <2> SUFFICES ASSUME NEW b \in members[u]
               PROVE  result[u][b].latest \in Nat
    BY <1>3
  <2>1. result[u][b] \in ResultType(b)
    BY <1>2 DEF FigInv, AllGood, Good
  <2> QED
    BY <2>1 DEF ResultType
<1>5. /\ Aggregate(u) <= Aggregate(u)'
      /\ Aggregate(u) \in Nat /\ Aggregate(u)' \in Nat
  BY <1>1, <1>4, AggregateGrows
<1>6. (\A b \in members'[u] : InOrder(u, b)') => totals[u] <= Aggregate(u)
  BY <1>1 DEF Counted, InOrder
<1>7. totals'[u] = totals[u] /\ (status'[u] = "unborn" => totals[u] = 0)
  BY <1>1 DEF Counted, Published
<1> QED
  BY <1>2, <1>5, <1>6, <1>7

LEMMA CountedStep ==
  ASSUME FigInv, FigInv', Counted, [Next]_vars
  PROVE  Counted'
<1>0. /\ members \in [Tests -> SUBSET Agents]
      /\ status \in [Tests -> {"unborn", "running", "stopping", "done"}]
      /\ totals \in [Tests -> Nat]
  BY DEF FigInv, TMTypeOK, FigTypes
<1>1. ASSUME Calls
      PROVE  Counted'
  <2>1. UNCHANGED <<totals, result, passed>>
    BY <1>1 DEF Calls, figVars
  <2>2. ASSUME NEW s \in Starters, StartPublish(s)
        PROVE  Counted'
    <3> DEFINE t == start[s].test
    <3>1. /\ status' = [status EXCEPT ![t] = "running"]
          /\ members' = [members EXCEPT ![t] = start[s].ids]
      BY <2>2 DEF StartPublish
    <3>2. t \in Tests /\ status[t] = "unborn"
      BY <2>2 DEF StartPublish, FigInv, FreshInv, Sending
    <3> HIDE DEF t
    <3> SUFFICES ASSUME NEW u \in Tests
                 PROVE  /\ status'[u] = "unborn" => totals'[u] = 0
                        /\ (\A b \in members'[u] : InOrder(u, b)') => totals'[u] <= Aggregate(u)'
      BY DEF Counted, Published
    <3>3. CASE u = t
      <4>1. totals'[u] = 0
        BY <2>1, <3>2, <3>3 DEF Counted, Published
      <4>2. Aggregate(u)' \in Nat
        <5>1. TMTypeOK' /\ AllGood'
          BY DEF FigInv
        <5> QED
          BY <5>1, AggregateIsNaturalNext
      <4> QED
        BY <4>1, <4>2
    <3>4. CASE u # t
      <4>1. status'[u] = status[u] /\ members'[u] = members[u]
        BY <1>0, <3>1, <3>4
      <4>2. Aggregate(u)' = Aggregate(u)
        BY <2>1, <4>1, AggregateIsSum
      <4>3. \A b \in members'[u] : InOrder(u, b)' <=> InOrder(u, b)
        BY <2>1 DEF InOrder
      <4> QED
        BY <2>1, <4>1, <4>2, <4>3 DEF Counted, Published
    <3> QED
      BY <3>3, <3>4
  <2>3. ASSUME UNCHANGED members, \A t \in Tests : status'[t] = status[t] \/ Active(t)' \/ status'[t] = "done"
        PROVE  Counted'
    <3>1. \A t \in Tests : Published(t) => status'[t] # "unborn"
      BY <2>3 DEF Published, Active
    <3> QED
      BY <2>1, <2>3, <3>1, CountedSame
  <2>4. ASSUME NEW s \in Starters, StartCheck(s) \/ StartReject(s)
        PROVE  Counted'
    BY <2>3, <2>4 DEF StartCheck, StartReject
  <2>5. ASSUME NEW s \in Starters, NEW ids \in SUBSET Agents, StartPrepare(s, ids)
        PROVE  Counted'
    BY <2>3, <2>5 DEF StartPrepare
  <2>6. ASSUME NEW p \in Stoppers, TMStop(p)
        PROVE  Counted'
    <3>1. ASSUME NEW t \in Tests, StopMark(p, t)
          PROVE  Counted'
      BY <1>0, <2>3, <3>1 DEF StopMark, Active
    <3>2. ASSUME NEW a \in Agents, StopSend(p, a)
          PROVE  Counted'
      BY <2>3, <3>2 DEF StopSend
    <3> QED
      BY <2>6, <3>1, <3>2 DEF TMStop
  <2>7. ASSUME NEW t \in Tests, PassDuration(t) \/ PassGrace(t)
        PROVE  Counted'
    BY <2>3, <2>7 DEF PassDuration, PassGrace
  <2> QED
    BY <1>1, <2>2, <2>4, <2>5, <2>6, <2>7 DEF Calls
<1>2. ASSUME UNCHANGED <<members, totals, result, passed, status>>
      PROVE  Counted'
  BY <1>2, CountedSame DEF Published
<1>3. ASSUME NEW s \in Starters, NEW a \in Agents, NEW ok \in BOOLEAN, StartReaches(s, a, ok)
      PROVE  Counted'
  BY <1>2, <1>3 DEF StartReaches, StartSend
<1>4. ASSUME NEW t \in Tests, Tick(t)
      PROVE  Counted'
  <2>1. /\ totals' = [totals EXCEPT ![t] = Aggregate(t)]
        /\ UNCHANGED <<result, passed, members>>
        /\ Active(t)
    BY <1>4 DEF Tick, TickFinish, tmVars
  <2>2. \A u \in Tests : status'[u] = "unborn" => status[u] = "unborn" /\ u # t
    <3>1. status' = status \/ status' = [status EXCEPT ![t] = "done"]
      BY <1>4 DEF Tick, TickFinish, tmVars
    <3> QED
      BY <1>0, <2>1, <3>1 DEF Active
  <2>3. ASSUME NEW u \in Tests
        PROVE  Aggregate(u)' = Aggregate(u)
    BY <2>1, AggregateIsSum
  <2>4. \A u \in Tests : \A b \in Agents : InOrder(u, b)' <=> InOrder(u, b)
    BY <2>1 DEF InOrder
  <2> SUFFICES ASSUME NEW u \in Tests
               PROVE  /\ status'[u] = "unborn" => totals'[u] = 0
                      /\ (\A b \in members'[u] : InOrder(u, b)') => totals'[u] <= Aggregate(u)'
    BY DEF Counted, Published
  <2>5. Aggregate(u) \in Nat
    BY AggregateIsNatural DEF FigInv
  <2>6. CASE u = t
    BY <1>0, <2>1, <2>2, <2>3, <2>5, <2>6
  <2>7. CASE u # t
    <3>1. totals'[u] = totals[u] /\ members'[u] = members[u] /\ members[u] \subseteq Agents
      BY <1>0, <2>1, <2>7
    <3> QED
      BY <2>2, <2>3, <2>4, <3>1 DEF Counted, Published
  <2> QED
    BY <2>6, <2>7
<1>5. ASSUME NEW t \in Tests, NEW a \in Agents, ReportArrives(a, t)
      PROVE  Counted'
  <2>1. next[t][a] \in 1..Summary(a)
    BY <1>5, Constants DEF ReportArrives, Comes, FigInv, FigTypes
  <2> QED
    BY <1>5, <2>1, TakeCounted DEF ReportArrives
<1>6. ASSUME NEW t \in Tests, NEW a \in Agents, HeldArrives(a, t)
      PROVE  Counted'
  <2>1. PICK k \in held[t][a] : Take(a, t, k)
    BY <1>6 DEF HeldArrives
  <2>2. k \in 1..Summary(a)
    BY <2>1 DEF FigInv, FigTypes
  <2> QED
    BY <2>1, <2>2, TakeCounted
<1>7. ASSUME NEW t \in Tests, NEW a \in Agents, ReportMissing(a, t) \/ ReportHeld(a, t)
      PROVE  Counted'
  BY <1>2, <1>7 DEF ReportMissing, ReportHeld, tmVars
<1>8. ASSUME UNCHANGED vars
      PROVE  Counted'
  BY <1>2, <1>8 DEF vars, tmVars, figVars
<1>9. ASSUME NEW t \in Tests, NEW a \in Agents, OnPresence(a, t)
      PROVE  Counted'
  BY <1>9, PresenceCounted
<1> QED
  BY <1>1, <1>3, <1>4, <1>5, <1>6, <1>7, <1>8, <1>9 DEF Next

LEMMA CountedAlways == Spec => [](FigInv /\ Counted)
<1>1. Init => Counted
  <2> SUFFICES ASSUME Init, NEW t \in Tests
               PROVE  totals[t] = 0 /\ totals[t] <= Aggregate(t)
    BY DEF Counted
  <2>1. totals[t] = 0 /\ Aggregate(t) \in Nat
    BY FigInit, AggregateIsNatural DEF Init, FigInv
  <2> QED
    BY <2>1
<1>2. FigInv /\ FigInv' /\ Counted /\ [Next]_vars => Counted'
  BY CountedStep
<1> QED
  BY <1>1, <1>2, FigAlways, PTL DEF Spec

(* The totals of a test never fall, whatever is lost and whenever the ticks   *)
(* come, unless a replaced connection's report came late.                     *)
THEOREM TotalsOnlyGrow == Spec => TotalsNeverFall
<1>1. ASSUME FigInv, Counted, Next, NEW t \in Tests, \A a \in members'[t] : InOrder(t, a)
      PROVE  totals'[t] >= totals[t]
  <2>0. totals \in [Tests -> Nat]
    BY <1>1 DEF FigInv, FigTypes
  <2>1. ASSUME NEW u \in Tests, Tick(u)
        PROVE  totals'[t] >= totals[t]
    <3>1. totals' = [totals EXCEPT ![u] = Aggregate(u)] /\ UNCHANGED members
      BY <2>1 DEF Tick, TickFinish, tmVars
    <3>2. CASE u = t
      <4>1. totals[t] <= Aggregate(t) /\ Aggregate(t) \in Nat
        BY <1>1, <3>1, AggregateIsNatural DEF Counted, FigInv
      <4> QED
        BY <2>0, <3>1, <3>2, <4>1
    <3>3. CASE u # t
      BY <2>0, <3>1, <3>3
    <3> QED
      BY <3>2, <3>3
  <2>2. ASSUME UNCHANGED totals
        PROVE  totals'[t] >= totals[t]
    BY <2>0, <2>2
  <2>3. CASE Calls
    BY <2>2, <2>3 DEF Calls, figVars
  <2>4. ASSUME NEW s \in Starters, NEW a \in Agents, NEW ok \in BOOLEAN, StartReaches(s, a, ok)
        PROVE  totals'[t] >= totals[t]
    BY <2>2, <2>4 DEF StartReaches
  <2>5. ASSUME NEW u \in Tests, NEW a \in Agents,
               \/ ReportArrives(a, u) \/ ReportMissing(a, u) \/ ReportHeld(a, u)
               \/ HeldArrives(a, u) \/ OnPresence(a, u)
        PROVE  totals'[t] >= totals[t]
    BY <2>2, <2>5 DEF ReportArrives, ReportMissing, ReportHeld, HeldArrives, OnPresence, Take
  <2> QED
    BY <1>1, <2>1, <2>3, <2>4, <2>5 DEF Next
<1>2. FigInv /\ Counted /\ [Next]_vars =>
        [\A t \in Tests : (\A a \in members'[t] : InOrder(t, a)) => totals'[t] >= totals[t]]_vars
  BY <1>1
<1> QED
  BY <1>2, CountedAlways, PTL DEF Spec, TotalsNeverFall

(* What the figures of an agent are when its test closes on reports.          *)
LEMMA LastIsFinal ==
  ASSUME FigInv, NEW t \in Tests, NEW a \in Agents, a \in arDone[t], InOrder(t, a)
  PROVE  result[t][a].latest = IF a \in reached[t] THEN Final(a) ELSE 0
<1> DEFINE p == passed[t][a]
<1>1. LastFigures(a, result[t][a], p) /\ p \in Seq(1..Summary(a))
      /\ (\A i, j \in DOMAIN p : i < j => p[i] < p[j])
  BY DEF FigInv, AllGood, Good, InOrder
<1>2. DOMAIN p = 1..Len(p) /\ Len(p) \in Nat /\ \A i \in DOMAIN p : p[i] \in 1..Summary(a)
  BY <1>1, LenProperties, ElementOfSeq
<1>3. CASE a \in reached[t]
  <2>1. PICK i \in DOMAIN p : p[i] >= Final(a)
    BY <1>3 DEF FigInv, Ended
  <2> HIDE DEF p
  <2>2. Len(p) \in DOMAIN p /\ (i = Len(p) \/ i < Len(p)) /\ p # << >>
    BY <1>2, <2>1, EmptySeq
  <2>3. p[Len(p)] \in 1..Summary(a) /\ p[Len(p)] >= Final(a)
    <3>1. p[i] = p[Len(p)] \/ p[i] < p[Len(p)]
      BY <1>1, <2>1, <2>2
    <3>2. p[i] \in Nat /\ p[Len(p)] \in 1..Summary(a) /\ Final(a) \in Nat
      <4>1. Summary(a) \in Nat /\ Final(a) \in Nat
        BY Constants
      <4>2. p[i] \in 1..Summary(a) /\ p[Len(p)] \in 1..Summary(a)
        BY <1>2, <2>1, <2>2
      <4> QED
        BY <4>1, <4>2
    <3> QED
      BY <2>1, <3>1, <3>2
  <2>4. Requests(a, p[Len(p)]) = Final(a)
    <3> DEFINE k == p[Len(p)]
    <3>1. k \in 1..Summary(a) /\ k >= Final(a)
      BY <2>3
    <3> HIDE DEF k
    <3>2. k = Final(a) \/ k = Summary(a)
      BY <3>1, Constants
    <3>3. Requests(a, k) = Final(a)
      BY <3>2 DEF Requests
    <3> QED
      BY <3>3 DEF k
  <2>5. result[t][a].latest = Requests(a, p[Len(p)])
    BY <1>1, <2>2 DEF LastFigures
  <2> QED
    BY <1>3, <2>4, <2>5
<1>4. CASE a \notin reached[t]
  <2>1. p = << >>
    BY <1>4 DEF FigInv, Silent
  <2> QED
    BY <1>1, <1>4, <2>1 DEF LastFigures
<1> QED
  BY <1>3, <1>4

(* A test that closes because every agent has said Done closes on exactly the *)
(* final figures of the agents it reached, though the closing tick may come   *)
(* between the final report and the summary, or either of them may be lost.   *)
THEOREM ClosesOnFinals == Spec => TotalsAreFinal
<1>1. ASSUME FigInv, Next, NEW t \in Tests, status[t] # "done", status'[t] = "done",
             AllDone(t), \A a \in members[t] : InOrder(t, a)
      PROVE  totals'[t] = MapThenSumSet(Final, members[t] \cap reached[t])
  <2>0. /\ members \in [Tests -> SUBSET Agents]
        /\ status \in [Tests -> {"unborn", "running", "stopping", "done"}]
        /\ totals \in [Tests -> Nat]
    BY <1>1 DEF FigInv, TMTypeOK, FigTypes
  <2>1. Tick(t)
    <3>1. ASSUME UNCHANGED status
          PROVE  FALSE
      BY <1>1, <3>1
    <3>2. ASSUME Calls
          PROVE  FALSE
      <4>1. ASSUME NEW s \in Starters, StartPublish(s)
            PROVE  FALSE
        BY <1>1, <2>0, <4>1 DEF StartPublish
      <4>2. ASSUME NEW p \in Stoppers, NEW u \in Tests, StopMark(p, u)
            PROVE  FALSE
        BY <1>1, <2>0, <4>2 DEF StopMark
      <4> QED
        BY <3>1, <3>2, <4>1, <4>2 DEF Calls, StartCheck, StartReject, StartPrepare, TMStop,
              StopSend, PassDuration, PassGrace
    <3>3. ASSUME NEW s \in Starters, NEW a \in Agents, NEW ok \in BOOLEAN, StartReaches(s, a, ok)
          PROVE  FALSE
      BY <3>1, <3>3 DEF StartReaches, StartSend
    <3>4. ASSUME NEW u \in Tests, NEW a \in Agents,
                 \/ ReportArrives(a, u) \/ ReportMissing(a, u) \/ ReportHeld(a, u)
                 \/ HeldArrives(a, u) \/ OnPresence(a, u)
          PROVE  FALSE
      <4>1. ASSUME NEW k, Take(a, u, k)
            PROVE  FALSE
        BY <3>1, <4>1 DEF Take, OnProgress, OnDone, MarkDone, tmVars
      <4> QED
        BY <3>1, <3>4, <4>1 DEF ReportArrives, ReportMissing, ReportHeld, HeldArrives,
              OnPresence, tmVars
    <3>5. ASSUME NEW u \in Tests, Tick(u), u # t
          PROVE  FALSE
      BY <1>1, <2>0, <3>5 DEF Tick, TickFinish, tmVars
    <3> QED
      BY <1>1, <3>2, <3>3, <3>4, <3>5 DEF Next
  <2>2. totals'[t] = Aggregate(t)
    BY <2>0, <2>1 DEF Tick
  <2> DEFINE S == members[t]
             R == members[t] \cap reached[t]
             f == [a \in S |-> result[t][a].latest]
             e == [a \in R |-> Final(a)]
  <2>3. S \subseteq Agents /\ IsFiniteSet(S) /\ R \in SUBSET S /\ IsFiniteSet(R)
    BY <2>0, AgentsAssumption, FS_Subset DEF AgentsAssumption
  <2>4. \A a \in S : f[a] = IF a \in R THEN Final(a) ELSE 0
    <3> SUFFICES ASSUME NEW a \in S
                 PROVE  result[t][a].latest = IF a \in reached[t] THEN Final(a) ELSE 0
      OBVIOUS
    <3>1. a \in Agents /\ a \in arDone[t] /\ InOrder(t, a)
      BY <1>1, <2>3 DEF AllDone
    <3> QED
      BY <1>1, <3>1, LastIsFinal
  <2>5. \A a \in S : Final(a) \in Nat
    BY <2>3, Constants
  <2>6. PICK g : Adds(g, f, S) /\ LatestSum(result[t], S) = g[S]
    BY <2>3, LatestSumAdds
  <2>7. PICK h : Adds(h, e, R) /\ FinalSum(R) = h[R]
    BY <2>3, FinalSumAdds
  <2>8. \A a \in R : e[a] = Final(a)
    OBVIOUS
  <2>9. g[S] = h[R]
    <3> HIDE DEF f, e, R, S
    <3>1. \A a \in S : f[a] \in Nat
      BY <2>4, <2>5
    <3>2. \A a \in R : e[a] = f[a]
      BY <2>3, <2>4, <2>8
    <3>3. \A a \in S \ R : f[a] = 0
      BY <2>4
    <3> QED
      BY <2>3, <2>6, <2>7, <3>1, <3>2, <3>3, SumOfSome
  <2>10. Aggregate(t) = LatestSum(result[t], S)
    BY AggregateIsSum
  <2> QED
    BY <2>2, <2>6, <2>7, <2>9, <2>10 DEF FinalSum
<1>2. FigInv /\ [Next]_vars =>
        [\A t \in Tests :
           /\ status[t] # "done" /\ status'[t] = "done"
           /\ AllDone(t)
           /\ \A a \in members[t] : InOrder(t, a)
           => totals'[t] = MapThenSumSet(Final, members[t] \cap reached[t])]_vars
  BY <1>1
<1> QED
  BY <1>2, FigAlways, PTL DEF Spec, TotalsAreFinal
=============================================================================
