------------------------------- MODULE Induction -------------------------------
(***************************************************************************)
(* Facts the other proofs share: least elements, induction on a set of      *)
(* naturals, the functions that recursion on naturals defines, what         *)
(* Selected selects, and sorts, sums and concatenations.  The library       *)
(* states induction and recursion for an operator, here they are stated for *)
(* a set.                                                                   *)
(***************************************************************************)
EXTENDS Selecting, FiniteSets, FiniteSetTheorems, SequenceTheorems, WellFoundedInduction, TLAPS

\* A nonempty finite set of integers has a least element: of its initial
\* segments one is minimal for strict inclusion.
LEMMA LeastElement ==
  ASSUME NEW S \in SUBSET Int, IsFiniteSet(S), S # {}
  PROVE  \E x \in S : \A y \in S : x <= y
<1> DEFINE below(x) == {z \in S : z < x}
<1> DEFINE segments == {below(x) : x \in S}
<1>1. IsWellFoundedOn(StrictSubsetOrdering(S), SUBSET S)
  BY FS_StrictSubsetOrderingWellFounded, FS_FiniteSubsetsOfFinite
<1>2. segments \subseteq SUBSET S /\ segments # {}
  OBVIOUS
<1>3. \E u \in segments : \A v \in segments : ~(<<v, u>> \in StrictSubsetOrdering(S))
  <2> HIDE DEF segments
  <2> QED BY <1>1, <1>2, WFMin
<1>4. PICK x \in S : \A v \in segments : ~(<<v, below(x)>> \in StrictSubsetOrdering(S))
  BY <1>3
<1>5. ASSUME NEW y \in S PROVE x <= y
  <2>0. x \in Int /\ y \in Int /\ \A z \in S : z \in Int
    OBVIOUS
  <2>1. SUFFICES ASSUME y < x PROVE FALSE
    BY <2>0
  <2>2. \A z \in S : z < y => z < x
    BY <2>0, <2>1
  <2>3. y \in below(x) /\ y \notin below(y)
    BY <2>0, <2>1
  <2>4. <<below(y), below(x)>> \in StrictSubsetOrdering(S)
    BY <2>2, <2>3 DEF StrictSubsetOrdering
  <2> QED BY <1>4, <2>4
<1> QED BY <1>5

\* A set of naturals that holds 0 and the successor of each of its elements
\* holds all of them: there is no least one it leaves out.
LEMMA NaturalsOfSet ==
  ASSUME NEW P, 0 \in P, \A n \in Nat : n \in P => n + 1 \in P
  PROVE  Nat \subseteq P
<1> SUFFICES ASSUME NEW n \in Nat, n \notin P PROVE FALSE
  OBVIOUS
<1> DEFINE out == {m \in 0..n : m \notin P}
<1>1. out \in SUBSET Int /\ IsFiniteSet(out) /\ out # {}
  <2>1. IsFiniteSet(0..n)
    BY FS_Interval
  <2> QED BY <2>1, FS_Subset
<1>2. PICK m \in out : \A y \in out : m <= y
  <2> HIDE DEF out
  <2> QED BY <1>1, LeastElement
<1>3. m \in Nat /\ m # 0 /\ m - 1 \in Nat
  BY <1>2
<1>4. m - 1 \in P
  BY <1>2, <1>3
<1>5. (m - 1) + 1 \in P
  BY <1>3, <1>4
<1> QED BY <1>2, <1>3, <1>5

\* The same up to a bound.
LEMMA UpTo ==
  ASSUME NEW N \in Nat, NEW P, 0 \in P, \A n \in 0..(N - 1) : n \in P => n + 1 \in P
  PROVE  0..N \subseteq P
<1> DEFINE Q == P \cup {n \in Nat : n > N}
<1>1. 0 \in Q
  OBVIOUS
<1>2. ASSUME NEW n \in Nat, n \in Q PROVE n + 1 \in Q
  <2>1. CASE n >= N
    BY <2>1
  <2>2. CASE n < N
    BY <2>2, <1>2
  <2> QED BY <2>1, <2>2
<1>3. Nat \subseteq Q
  <2> HIDE DEF Q
  <2> QED BY <1>1, <1>2, NaturalsOfSet
<1> QED BY <1>3

\* N steps, one function on S for each, and what taking them from e leads to.
StepsOn(S, N) == [1..N -> [S -> S]]
Follows(f, e, G, N) == f[0] = e /\ \A n \in 1..N : f[n] = G[n][f[n - 1]]
RunsOn(S, N) == [0..N -> S]

\* Steps can be taken one after the other.
LEMMA Recursion ==
  ASSUME NEW N \in Nat, NEW S, NEW e \in S, NEW G \in StepsOn(S, N)
  PROVE  \E f \in RunsOn(S, N) : Follows(f, e, G, N)
<1> USE DEF StepsOn, RunsOn
<1> DEFINE Steps(n, f) == \A k \in 0..n : f[k] = IF k = 0 THEN e ELSE G[k][f[k - 1]]
           P == {n \in 0..N : \E f \in [0..n -> S] : Steps(n, f)}
<1>1. 0 \in P
  <2>1. [k \in 0..0 |-> e] \in [0..0 -> S] /\ Steps(0, [k \in 0..0 |-> e])
    OBVIOUS
  <2>2. \E f \in [0..0 -> S] : Steps(0, f)
    <3> HIDE DEF Steps
    <3> QED BY <2>1
  <2> HIDE DEF Steps
  <2> QED BY <2>2
<1>2. ASSUME NEW n \in 0..(N - 1), n \in P PROVE n + 1 \in P
  <2>1. PICK f \in [0..n -> S] : Steps(n, f)
    BY <1>2
  <2>2. n + 1 \in 1..N /\ n \in 0..n /\ f[n] \in S /\ G[n + 1] \in [S -> S]
    OBVIOUS
  <2> DEFINE x == G[n + 1][f[n]]
             h == [k \in 0..(n + 1) |-> IF k = n + 1 THEN x ELSE f[k]]
  <2>3. x \in S
    BY <2>2
  <2>4. h \in [0..(n + 1) -> S]
    BY <2>3
  <2>5. h[n + 1] = x /\ \A k \in 0..n : h[k] = f[k]
    OBVIOUS
  <2>6. Steps(n + 1, h)
    <3> HIDE DEF h
    <3> TAKE k \in 0..(n + 1)
    <3>1. CASE k = n + 1
      <4>1. (n + 1) - 1 = n /\ n + 1 # 0
        OBVIOUS
      <4> QED BY <4>1, <3>1, <2>5
    <3>2. CASE k = 0
      BY <3>2, <2>1, <2>5
    <3>3. CASE k \in 1..n
      <4>1. k - 1 \in 0..n /\ k \in 0..n /\ k # 0
        BY <3>3
      <4> QED BY <4>1, <2>1, <2>5
    <3> QED BY <3>1, <3>2, <3>3
  <2>7. \E g \in [0..(n + 1) -> S] : Steps(n + 1, g)
    <3> HIDE DEF Steps, h
    <3> QED BY <2>4, <2>6
  <2>8. n + 1 \in 0..N
    OBVIOUS
  <2> HIDE DEF Steps
  <2> QED BY <2>7, <2>8
<1>3. 0..N \subseteq P
  <2> HIDE DEF P
  <2> QED BY <1>1, <1>2, UpTo
<1>4. PICK f \in [0..N -> S] : Steps(N, f)
  BY <1>3
<1>5. f[0] = e /\ \A n \in 1..N : f[n] = G[n][f[n - 1]]
  BY <1>4
<1> QED BY <1>4, <1>5 DEF Follows

-----------------------------------------------------------------------------
(* Sequences, and what is selected of them *)

LEMMA SequenceShape ==
  ASSUME NEW S, NEW s \in Seq(S)
  PROVE  /\ Len(s) \in Nat /\ DOMAIN s = 1..Len(s) /\ \A i \in 1..Len(s) : s[i] \in S
         /\ s # <<>> => Len(s) >= 1
OBVIOUS

LEMMA OneMore ==
  ASSUME NEW S, NEW s \in Seq(S), NEW x \in S
  PROVE  /\ Append(s, x) \in Seq(S) /\ Len(Append(s, x)) = Len(s) + 1
         /\ Append(s, x)[Len(s) + 1] = x
         /\ \A i \in 1..Len(s) : Append(s, x)[i] = s[i]
OBVIOUS

LEMMA KeptOfSteps ==
  ASSUME NEW T, NEW S, NEW s \in Seq(T)
  PROVE  /\ KeptOf(s, S) \in [0..Len(s) -> Seq(T)]
         /\ KeptOf(s, S)[0] = <<>>
         /\ \A k \in 1..Len(s) : KeptOf(s, S)[k] = IF s[k] \notin S THEN KeptOf(s, S)[k - 1]
                                                ELSE Append(KeptOf(s, S)[k - 1], s[k])
<1> DEFINE Step(k, x) == IF s[k] \notin S THEN x ELSE Append(x, s[k])
           G == [k \in 1..Len(s) |-> [x \in Seq(T) |-> Step(k, x)]]
           Is(f) == f = [k \in 0..Len(s) |-> IF k = 0 THEN <<>>
                                             ELSE IF s[k] \notin S THEN f[k - 1]
                                             ELSE Append(f[k - 1], s[k])]
<1>1. Len(s) \in Nat /\ <<>> \in Seq(T) /\ \A k \in 1..Len(s) : s[k] \in T
  OBVIOUS
<1>2. G \in StepsOn(Seq(T), Len(s))
  BY <1>1 DEF StepsOn
<1>3. PICK f \in [0..Len(s) -> Seq(T)] :
        f[0] = <<>> /\ \A n \in 1..Len(s) : f[n] = G[n][f[n - 1]]
  <2>1. \E h \in RunsOn(Seq(T), Len(s)) : Follows(h, <<>>, G, Len(s))
    <3> HIDE DEF G
    <3> QED BY <1>1, <1>2, Recursion
  <2> HIDE DEF G
  <2> QED BY <2>1 DEF RunsOn, Follows
<1>4. Is(f)
  <2>1. ASSUME NEW n \in 0..Len(s), n # 0
        PROVE  G[n][f[n - 1]] = IF s[n] \notin S THEN f[n - 1] ELSE Append(f[n - 1], s[n])
    <3>1. n \in 1..Len(s) /\ n - 1 \in 0..Len(s) /\ f[n - 1] \in Seq(T)
      BY <2>1, <1>1
    <3> QED BY <3>1
  <2>3. \A n \in 0..Len(s) : f[n] = IF n = 0 THEN <<>> ELSE IF s[n] \notin S THEN f[n - 1]
                                    ELSE Append(f[n - 1], s[n])
    <3> HIDE DEF G
    <3>1. \A n \in 0..Len(s) : n # 0 => n \in 1..Len(s)
      OBVIOUS
    <3> QED BY <2>1, <3>1, <1>3
  <2>4. f = [n \in 0..Len(s) |-> f[n]]
    OBVIOUS
  <2> HIDE DEF G
  <2> QED BY <2>3, <2>4
<1>5. KeptOf(s, S) = CHOOSE g : Is(g)
  BY DEF KeptOf
<1>6. Is(KeptOf(s, S))
  <2> HIDE DEF Is
  <2> QED BY <1>4, <1>5
<1> DEFINE F == KeptOf(s, S)
           Good == {k \in 0..Len(s) : F[k] \in Seq(T)}
<1> HIDE DEF F
<1>7. F = [k \in 0..Len(s) |-> IF k = 0 THEN <<>> ELSE IF s[k] \notin S THEN F[k - 1]
                               ELSE Append(F[k - 1], s[k])]
  BY <1>6 DEF F
<1>8. F = [k \in 0..Len(s) |-> F[k]]
  BY <1>7
<1>9. \A k \in 0..Len(s) : F[k] = IF k = 0 THEN <<>> ELSE IF s[k] \notin S THEN F[k - 1]
                               ELSE Append(F[k - 1], s[k])
  BY <1>7
<1>10. F[0] = <<>>
  BY <1>1, <1>9
<1>11. \A k \in 1..Len(s) : F[k] = IF s[k] \notin S THEN F[k - 1] ELSE Append(F[k - 1], s[k])
  BY <1>1, <1>9
<1>12. 0..Len(s) \subseteq Good
  <2>1. 0 \in Good
    <3>1. 0 \in 0..Len(s) /\ F[0] \in Seq(T)
      BY <1>1, <1>10
    <3> QED BY <3>1
  <2>2. ASSUME NEW k \in 0..(Len(s) - 1), k \in Good PROVE k + 1 \in Good
    <3>1. k + 1 \in 1..Len(s) /\ (k + 1) - 1 = k /\ s[k + 1] \in T /\ F[k] \in Seq(T)
      BY <2>2, <1>1
    <3>2. F[k + 1] = IF s[k + 1] \notin S THEN F[k] ELSE Append(F[k], s[k + 1])
      BY <3>1, <1>11
    <3>3. F[k + 1] \in Seq(T) /\ k + 1 \in 0..Len(s)
      BY <3>1, <3>2
    <3> QED BY <3>3
  <2> HIDE DEF Good
  <2> QED BY <2>1, <2>2, <1>1, UpTo
<1>13. F \in [0..Len(s) -> Seq(T)]
  BY <1>8, <1>12
<1> QED BY <1>10, <1>11, <1>13 DEF F

\* The positions up to k that are kept.
KeptUpTo(s, S, k) == {l \in 1..k : s[l] \in S}

\* The rank of a position among those kept is where its member is put, and
\* nothing else is put anywhere.
Ranked(s, S, r, k) ==
  /\ Len(r) = Cardinality(KeptUpTo(s, S, k))
  /\ \A l \in KeptUpTo(s, S, k) : /\ Cardinality(KeptUpTo(s, S, l)) \in 1..Len(r)
                               /\ r[Cardinality(KeptUpTo(s, S, l))] = s[l]
  /\ \A j \in 1..Len(r) : \E l \in KeptUpTo(s, S, k) : j = Cardinality(KeptUpTo(s, S, l))

LEMMA KeptUpToSteps ==
  ASSUME NEW s, NEW S, NEW k \in Nat
  PROVE  /\ KeptUpTo(s, S, 0) = {} /\ IsFiniteSet(KeptUpTo(s, S, k))
         /\ Cardinality(KeptUpTo(s, S, k)) \in Nat
         /\ s[k + 1] \notin S => KeptUpTo(s, S, k + 1) = KeptUpTo(s, S, k)
         /\ s[k + 1] \in S =>
              /\ KeptUpTo(s, S, k + 1) = KeptUpTo(s, S, k) \cup {k + 1}
              /\ Cardinality(KeptUpTo(s, S, k + 1)) = Cardinality(KeptUpTo(s, S, k)) + 1
<1>1. IsFiniteSet(KeptUpTo(s, S, k))
  <2>1. IsFiniteSet(1..k) /\ KeptUpTo(s, S, k) \subseteq 1..k
    BY FS_Interval DEF KeptUpTo
  <2> QED BY <2>1, FS_Subset
<1>2. KeptUpTo(s, S, 0) = {} /\ (s[k + 1] \notin S => KeptUpTo(s, S, k + 1) = KeptUpTo(s, S, k))
  BY DEF KeptUpTo
<1>3. k + 1 \notin KeptUpTo(s, S, k)
  BY DEF KeptUpTo
<1>4. s[k + 1] \in S => KeptUpTo(s, S, k + 1) = KeptUpTo(s, S, k) \cup {k + 1}
  BY DEF KeptUpTo
<1>5. /\ Cardinality(KeptUpTo(s, S, k)) \in Nat
      /\ Cardinality(KeptUpTo(s, S, k) \cup {k + 1}) = Cardinality(KeptUpTo(s, S, k)) + 1
  BY <1>1, <1>3, FS_AddElement, FS_CardinalityType
<1> QED BY <1>1, <1>2, <1>4, <1>5

LEMMA SelectedRanks ==
  ASSUME NEW T, NEW S, NEW s \in Seq(T)
  PROVE  Selected(s, S) \in Seq(T) /\ Ranked(s, S, Selected(s, S), Len(s))
<1> DEFINE F == KeptOf(s, S)
           P == {k \in 0..Len(s) : Ranked(s, S, F[k], k)}
<1>1. Len(s) \in Nat /\ \A k \in 1..Len(s) : s[k] \in T
  OBVIOUS
<1>2. /\ \A k \in 0..Len(s) : F[k] \in Seq(T)
      /\ F[0] = <<>>
      /\ \A k \in 1..Len(s) : F[k] = IF s[k] \notin S THEN F[k - 1] ELSE Append(F[k - 1], s[k])
  BY KeptOfSteps
<1> HIDE DEF F
<1>3. Ranked(s, S, F[0], 0)
  <2>1. KeptUpTo(s, S, 0) = {} /\ Cardinality(KeptUpTo(s, S, 0)) = 0
    BY KeptUpToSteps, FS_EmptySet
  <2>2. Len(F[0]) = 0
    BY <1>2
  <2> QED BY <2>1, <2>2 DEF Ranked
<1>4. ASSUME NEW k \in 0..(Len(s) - 1), Ranked(s, S, F[k], k) PROVE Ranked(s, S, F[k + 1], k + 1)
  <2> DEFINE r == F[k]
             c == Cardinality(KeptUpTo(s, S, k))
  <2>1. /\ k \in Nat /\ k + 1 \in 1..Len(s) /\ s[k + 1] \in T /\ r \in Seq(T)
        /\ F[k + 1] = IF s[k + 1] \notin S THEN r ELSE Append(r, s[k + 1])
    BY <1>1, <1>2
  <2>2. CASE s[k + 1] \notin S
    <3>1. F[k + 1] = r /\ KeptUpTo(s, S, k + 1) = KeptUpTo(s, S, k)
      BY <2>1, <2>2, KeptUpToSteps
    <3> QED BY <3>1, <1>4 DEF Ranked
  <2>3. CASE s[k + 1] \in S
    <3>1. /\ F[k + 1] = Append(r, s[k + 1])
          /\ KeptUpTo(s, S, k + 1) = KeptUpTo(s, S, k) \cup {k + 1}
          /\ Cardinality(KeptUpTo(s, S, k + 1)) = c + 1 /\ c \in Nat /\ Len(r) = c
      BY <2>1, <2>3, <1>4, KeptUpToSteps DEF Ranked
    <3> DEFINE q == Append(r, s[k + 1])
    <3>2. Len(q) = c + 1 /\ q[c + 1] = s[k + 1] /\ \A j \in 1..c : q[j] = r[j]
      BY <2>1, <3>1, OneMore
    <3> HIDE DEF q, c, r
    <3>3. ASSUME NEW l \in KeptUpTo(s, S, k)
          PROVE  Cardinality(KeptUpTo(s, S, l)) \in 1..(c + 1) /\ q[Cardinality(KeptUpTo(s, S, l))] = s[l]
      <4>1. Cardinality(KeptUpTo(s, S, l)) \in 1..c /\ r[Cardinality(KeptUpTo(s, S, l))] = s[l]
        BY <3>1, <1>4 DEF Ranked, r
      <4> QED BY <4>1, <3>1, <3>2
    <3>4. c + 1 \in 1..(c + 1) /\ q[c + 1] = s[k + 1]
      BY <3>1, <3>2
    <3>5. ASSUME NEW j \in 1..(c + 1)
          PROVE  \E l \in KeptUpTo(s, S, k) \cup {k + 1} : j = Cardinality(KeptUpTo(s, S, l))
      <4>1. CASE j = c + 1
        BY <4>1, <3>1
      <4>2. CASE j \in 1..c
        <5>1. \E l \in KeptUpTo(s, S, k) : j = Cardinality(KeptUpTo(s, S, l))
          BY <4>2, <3>1, <1>4 DEF Ranked, r
        <5> QED BY <5>1
      <4> QED BY <4>1, <4>2, <3>1
    <3>6. F[k + 1] = q
      BY <3>1 DEF q
    <3> QED BY <3>1, <3>2, <3>3, <3>4, <3>5, <3>6 DEF Ranked
  <2> QED BY <2>2, <2>3
<1>5. 0..Len(s) \subseteq P
  <2>1. 0 \in P
    BY <1>1, <1>3
  <2>2. ASSUME NEW k \in 0..(Len(s) - 1), k \in P PROVE k + 1 \in P
    BY <2>2, <1>1, <1>4
  <2> HIDE DEF P
  <2> QED BY <2>1, <2>2, <1>1, UpTo
<1>6. Len(s) \in 0..Len(s)
  BY <1>1
<1>7. Ranked(s, S, F[Len(s)], Len(s)) /\ F[Len(s)] \in Seq(T)
  BY <1>2, <1>5, <1>6
<1> QED BY <1>7 DEF Selected, F

\* What is selected of a sequence are its members in S, in their order.
LEMMA SelectedMembers ==
  ASSUME NEW T, NEW S, NEW s \in Seq(T)
  PROVE  {Selected(s, S)[k] : k \in 1..Len(Selected(s, S))} = {s[k] : k \in 1..Len(s)} \cap S
<1> DEFINE r == Selected(s, S)
<1>1. Ranked(s, S, r, Len(s))
  BY SelectedRanks
<1> HIDE DEF r
<1>2. ASSUME NEW j \in 1..Len(r) PROVE r[j] \in {s[k] : k \in 1..Len(s)} \cap S
  BY <1>1 DEF Ranked, KeptUpTo
<1>3. ASSUME NEW k \in 1..Len(s), s[k] \in S PROVE s[k] \in {r[j] : j \in 1..Len(r)}
  <2>1. k \in KeptUpTo(s, S, Len(s))
    BY <1>3 DEF KeptUpTo
  <2> QED BY <2>1, <1>1 DEF Ranked
<1> QED BY <1>2, <1>3 DEF r

LEMMA SelectedAscends ==
  ASSUME NEW S, NEW s \in Seq(Int), \A i, k \in 1..Len(s) : i < k => s[i] < s[k]
  PROVE  \A i, k \in 1..Len(Selected(s, S)) : i < k => Selected(s, S)[i] < Selected(s, S)[k]
<1> DEFINE r == Selected(s, S)
<1>1. Ranked(s, S, r, Len(s)) /\ Len(s) \in Nat
  BY SelectedRanks
<1> HIDE DEF r
<1>2. SUFFICES ASSUME NEW i \in 1..Len(r), NEW k \in 1..Len(r), i < k PROVE r[i] < r[k]
  BY DEF r
<1>3. PICK a \in KeptUpTo(s, S, Len(s)) : i = Cardinality(KeptUpTo(s, S, a))
  BY <1>1 DEF Ranked
<1>4. PICK b \in KeptUpTo(s, S, Len(s)) : k = Cardinality(KeptUpTo(s, S, b))
  BY <1>1 DEF Ranked
<1>5. a \in 1..Len(s) /\ b \in 1..Len(s) /\ a \in Nat /\ b \in Nat
  BY <1>1 DEF KeptUpTo
<1>6. a < b
  <2>1. SUFFICES ASSUME b <= a PROVE FALSE
    BY <1>5
  <2>2. KeptUpTo(s, S, b) \subseteq KeptUpTo(s, S, a) /\ IsFiniteSet(KeptUpTo(s, S, a))
    <3>1. 1..b \subseteq 1..a
      BY <2>1, <1>5
    <3> QED BY <3>1, <1>5, KeptUpToSteps DEF KeptUpTo
  <2>3. Cardinality(KeptUpTo(s, S, b)) <= Cardinality(KeptUpTo(s, S, a))
    BY <2>2, FS_Subset
  <2> QED BY <2>3, <1>2, <1>3, <1>4
<1> QED BY <1>1, <1>3, <1>4, <1>5, <1>6 DEF Ranked

-----------------------------------------------------------------------------
(* Sums *)

\* A sum grows by one number at a time.
LEMMA SumSteps ==
  ASSUME NEW s \in Seq(Nat)
  PROVE  /\ SumTo(s) \in [0..Len(s) -> Nat]
         /\ SumTo(s)[0] = 0
         /\ \A k \in 1..Len(s) : SumTo(s)[k] = SumTo(s)[k - 1] + s[k]
<1> DEFINE G == [k \in 1..Len(s) |-> [x \in Nat |-> x + s[k]]]
           Is(f) == f = [k \in 0..Len(s) |-> IF k = 0 THEN 0 ELSE f[k - 1] + s[k]]
<1>1. Len(s) \in Nat /\ \A k \in 1..Len(s) : s[k] \in Nat
  OBVIOUS
<1>2. G \in StepsOn(Nat, Len(s)) /\ 0 \in Nat
  BY <1>1 DEF StepsOn
<1>3. PICK f \in [0..Len(s) -> Nat] : f[0] = 0 /\ \A n \in 1..Len(s) : f[n] = G[n][f[n - 1]]
  <2>1. \E h \in RunsOn(Nat, Len(s)) : Follows(h, 0, G, Len(s))
    <3> HIDE DEF G
    <3> QED BY <1>1, <1>2, Recursion
  <2> HIDE DEF G
  <2> QED BY <2>1 DEF RunsOn, Follows
<1>4. ASSUME NEW n \in 1..Len(s) PROVE f[n] = f[n - 1] + s[n]
  <2>1. n - 1 \in 0..Len(s)
    BY <1>1
  <2>2. f[n - 1] \in Nat /\ f[n] = G[n][f[n - 1]]
    BY <2>1, <1>3
  <2> HIDE <1>3
  <2> QED BY <2>2
<1>5. Is(f)
  <2>1. \A n \in 0..Len(s) : f[n] = IF n = 0 THEN 0 ELSE f[n - 1] + s[n]
    <3> HIDE DEF G
    <3>1. \A n \in 0..Len(s) : n # 0 => n \in 1..Len(s)
      OBVIOUS
    <3> QED BY <3>1, <1>3, <1>4
  <2>2. f = [n \in 0..Len(s) |-> f[n]]
    OBVIOUS
  <2> HIDE DEF G
  <2> QED BY <2>1, <2>2
<1>6. SumTo(s) = CHOOSE g : Is(g)
  BY DEF SumTo
<1>7. Is(SumTo(s))
  <2> HIDE DEF Is
  <2> QED BY <1>5, <1>6
<1> DEFINE F == SumTo(s)
<1> HIDE DEF F
<1>8. F = [k \in 0..Len(s) |-> IF k = 0 THEN 0 ELSE F[k - 1] + s[k]]
  BY <1>7 DEF F
<1>9. F = [k \in 0..Len(s) |-> F[k]] /\ F[0] = 0
  BY <1>1, <1>8
<1>10. \A k \in 1..Len(s) : F[k] = F[k - 1] + s[k]
  <2> TAKE k \in 1..Len(s)
  <2>1. k \in 0..Len(s) /\ k # 0
    BY ONLY <1>1
  <2>2. F[k] = IF k = 0 THEN 0 ELSE F[k - 1] + s[k]
    BY ONLY <2>1, <1>8
  <2> QED BY ONLY <2>1, <2>2
<1> DEFINE Good == {k \in 0..Len(s) : F[k] \in Nat}
<1>11. 0..Len(s) \subseteq Good
  <2>1. 0 \in Good
    BY <1>1, <1>9
  <2>2. ASSUME NEW k \in 0..(Len(s) - 1), k \in Good PROVE k + 1 \in Good
    <3>1. k + 1 \in 1..Len(s) /\ (k + 1) - 1 = k /\ s[k + 1] \in Nat /\ F[k] \in Nat
      BY <2>2, <1>1
    <3> QED BY <3>1, <1>10
  <2> HIDE DEF Good
  <2> QED BY <2>1, <2>2, <1>1, UpTo
<1>12. F \in [0..Len(s) -> Nat]
  BY <1>9, <1>11
<1> QED BY <1>9, <1>10, <1>12 DEF F

LEMMA TotalType == ASSUME NEW s \in Seq(Nat) PROVE Total(s) \in Nat
<1>1. Len(s) \in 0..Len(s)
  OBVIOUS
<1> QED BY <1>1, SumSteps DEF Total

\* Two sequences one after the other sum to both sums.
LEMMA TotalConcat ==
  ASSUME NEW s \in Seq(Nat), NEW t \in Seq(Nat)
  PROVE  Total(s \o t) = Total(s) + Total(t)
<1> DEFINE q == s \o t
           m == Len(s)
           n == Len(t)
           A == SumTo(s)
           B == SumTo(t)
           C == SumTo(q)
<1>1. /\ q \in Seq(Nat) /\ Len(q) = m + n /\ m \in Nat /\ n \in Nat
      /\ \A i \in 1..(m + n) : q[i] = IF i <= m THEN s[i] ELSE t[i - m]
  BY ConcatProperties
<1>2. /\ A \in [0..m -> Nat] /\ A[0] = 0 /\ \A k \in 1..m : A[k] = A[k - 1] + s[k]
      /\ B \in [0..n -> Nat] /\ B[0] = 0 /\ \A k \in 1..n : B[k] = B[k - 1] + t[k]
  BY SumSteps
<1>3. C \in [0..(m + n) -> Nat] /\ C[0] = 0 /\ \A k \in 1..(m + n) : C[k] = C[k - 1] + q[k]
  <2> HIDE DEF q
  <2> QED BY <1>1, SumSteps
<1> HIDE DEF q, m, n, A, B, C
<1> DEFINE P == {k \in 0..m : C[k] = A[k]}
           Q == {k \in 0..n : C[m + k] = A[m] + B[k]}
<1>4. 0..m \subseteq P
  <2>1. 0 \in P
    BY <1>1, <1>2, <1>3
  <2>2. ASSUME NEW k \in 0..(m - 1), k \in P PROVE k + 1 \in P
    <3>1. k + 1 \in 1..m /\ k + 1 \in 1..(m + n) /\ k + 1 <= m /\ (k + 1) - 1 = k /\ k + 1 \in 0..m
      BY <1>1
    <3>2. C[k + 1] = C[k] + s[k + 1] /\ A[k + 1] = A[k] + s[k + 1]
      BY <3>1, <1>1, <1>2, <1>3
    <3> QED BY <2>2, <3>1, <3>2
  <2> HIDE DEF P
  <2> QED BY <2>1, <2>2, <1>1, UpTo
<1>5. C[m] = A[m] /\ A[m] \in Nat
  BY <1>1, <1>2, <1>4
<1>6. 0..n \subseteq Q
  <2>1. 0 \in Q
    BY <1>1, <1>2, <1>5
  <2>2. ASSUME NEW k \in 0..(n - 1), k \in Q PROVE k + 1 \in Q
    <3>1. /\ k + 1 \in 1..n /\ m + (k + 1) \in 1..(m + n) /\ ~(m + (k + 1) <= m)
          /\ (m + (k + 1)) - m = k + 1 /\ (m + (k + 1)) - 1 = m + k /\ (k + 1) - 1 = k
          /\ k + 1 \in 0..n /\ k \in 0..n
      BY <1>1
    <3>2. C[m + (k + 1)] = C[m + k] + t[k + 1]
      <4>1. C[m + (k + 1)] = C[(m + (k + 1)) - 1] + q[m + (k + 1)]
        BY <3>1, <1>3
      <4>2. q[m + (k + 1)] = t[(m + (k + 1)) - m]
        BY <3>1, <1>1
      <4> QED BY <4>1, <4>2, <3>1
    <3>6. B[k + 1] = B[k] + t[k + 1] /\ B[k] \in Nat
      <4>1. B[k + 1] = B[(k + 1) - 1] + t[k + 1] /\ B[k] \in Nat
        BY <3>1, <1>2
      <4> QED BY <4>1, <3>1
    <3>3. t[k + 1] \in Nat
      BY <3>1 DEF n
    <3>4. C[m + k] = A[m] + B[k]
      BY <2>2
    <3>5. C[m + (k + 1)] = A[m] + B[k + 1]
      BY <3>2, <3>3, <3>4, <3>6, <1>5
    <3> QED BY <3>1, <3>5
  <2> HIDE DEF Q
  <2> QED BY <2>1, <2>2, <1>1, UpTo
<1>7. C[m + n] = A[m] + B[n]
  BY <1>1, <1>6
<1> QED BY <1>1, <1>7 DEF Total, q, m, n, A, B, C

LEMMA TotalOne == ASSUME NEW x \in Nat PROVE Total(<<x>>) = x
<1> DEFINE s == <<x>>
<1>1. s \in Seq(Nat) /\ Len(s) = 1 /\ s[1] = x
  OBVIOUS
<1> HIDE DEF s
<1>2. SumTo(s)[0] = 0 /\ SumTo(s)[1] = SumTo(s)[1 - 1] + s[1]
  BY <1>1, SumSteps
<1> QED BY <1>1, <1>2 DEF Total, s

LEMMA TotalNone == Total(<<>>) = 0
<1>1. <<>> \in Seq(Nat) /\ Len(<<>>) = 0
  OBVIOUS
<1> QED BY <1>1, SumSteps DEF Total

-----------------------------------------------------------------------------
(* Sorting *)

\* R puts any two elements of S in one order, and only one.
StrictOrder(S, R) ==
  /\ \A p \in S : <<p, p>> \notin R
  /\ \A p, q, r \in S : <<p, q>> \in R /\ <<q, r>> \in R => <<p, r>> \in R
  /\ \A p, q \in S : p # q => <<p, q>> \in R \/ <<q, p>> \in R

InOrderOf(R, s, n) == \A i, k \in 1..n : i < k => <<s[i], s[k]>> \in R

\* A finite set has one order: each element goes where its rank puts it.
LEMMA SortExists ==
  ASSUME NEW S, IsFiniteSet(S), NEW R, StrictOrder(S, R)
  PROVE  \E s \in [1..Cardinality(S) -> S] : InOrderOf(R, s, Cardinality(S))
<1> DEFINE n == Cardinality(S)
           before(p) == {q \in S : <<q, p>> \in R}
           rank == [p \in S |-> Cardinality(before(p)) + 1]
<1>0. /\ \A p \in S : <<p, p>> \notin R
      /\ \A p, q, r \in S : <<p, q>> \in R /\ <<q, r>> \in R => <<p, r>> \in R
      /\ \A p, q \in S : p # q => <<p, q>> \in R \/ <<q, p>> \in R
  BY DEF StrictOrder
<1>1. n \in Nat /\ IsFiniteSet(1..n) /\ Cardinality(1..n) = n
  BY FS_CardinalityType, FS_Interval
<1>2. ASSUME NEW p \in S
      PROVE  /\ IsFiniteSet(before(p)) /\ Cardinality(before(p)) \in Nat
             /\ Cardinality(before(p)) < n
  <2>1. before(p) \in SUBSET S /\ p \notin before(p)
    BY <1>0
  <2>2. IsFiniteSet(before(p)) /\ Cardinality(before(p)) <= n /\ (n = Cardinality(before(p)) => S = before(p))
    BY <2>1, FS_Subset
  <2>3. Cardinality(before(p)) \in Nat
    BY <2>2, FS_CardinalityType
  <2> HIDE DEF n, before
  <2> QED BY <1>1, <2>1, <2>2, <2>3
<1>3. ASSUME NEW p \in S, NEW q \in S, <<p, q>> \in R PROVE rank[p] < rank[q]
  <2>1. before(p) \in SUBSET before(q) /\ p \in before(q) /\ p \notin before(p)
    BY <1>0, <1>3
  <2>2. /\ IsFiniteSet(before(q)) /\ Cardinality(before(p)) \in Nat /\ Cardinality(before(q)) \in Nat
        /\ Cardinality(before(p)) <= Cardinality(before(q))
        /\ Cardinality(before(q)) = Cardinality(before(p)) => before(q) = before(p)
    BY <1>2, <2>1, FS_Subset
  <2>3. rank[p] = Cardinality(before(p)) + 1 /\ rank[q] = Cardinality(before(q)) + 1
    OBVIOUS
  <2> HIDE DEF before, rank
  <2> QED BY <2>1, <2>2, <2>3
<1>4. \A p \in S : rank[p] \in 1..n
  <2> TAKE p \in S
  <2>1. Cardinality(before(p)) \in Nat /\ Cardinality(before(p)) < n
    BY <1>2
  <2> HIDE DEF n, before
  <2> QED BY <1>1, <2>1
<1>5. \A p, q \in S : rank[p] = rank[q] => p = q
  <2> TAKE p, q \in S
  <2>1. p # q => <<p, q>> \in R \/ <<q, p>> \in R
    BY <1>0
  <2>2. rank[p] \in Nat /\ rank[q] \in Nat
    BY <1>1, <1>4
  <2> HIDE DEF rank
  <2> QED BY <1>3, <2>1, <2>2
<1>6. rank \in Injection(S, 1..n)
  <2>1. rank \in [S -> 1..n]
    BY <1>4
  <2> HIDE DEF rank, n
  <2> QED BY <1>5, <2>1 DEF Injection, IsInjective
<1>7. \A i \in 1..n : \E p \in S : rank[p] = i
  <2> HIDE DEF rank
  <2>1. rank \in Surjection(S, 1..n)
    BY <1>1, <1>6, FS_Injection
  <2> QED BY <2>1 DEF Surjection
<1> DEFINE s == [i \in 1..n |-> CHOOSE p \in S : rank[p] = i]
<1>8. ASSUME NEW i \in 1..n PROVE s[i] \in S /\ rank[s[i]] = i
  <2> HIDE DEF rank
  <2> QED BY <1>7
<1>9. s \in [1..n -> S]
  BY <1>8
<1>10. \A i, k \in 1..n : i < k => <<s[i], s[k]>> \in R
  <2> TAKE i, k \in 1..n
  <2>1. s[i] \in S /\ s[k] \in S /\ rank[s[i]] = i /\ rank[s[k]] = k
    BY <1>8
  <2> HIDE DEF s, rank
  <2>2. SUFFICES ASSUME i < k PROVE <<s[i], s[k]>> \in R
    OBVIOUS
  <2>3. s[i] # s[k]
    BY <2>1, <2>2
  <2>4. <<s[k], s[i]>> \notin R
    BY <1>1, <1>3, <2>1, <2>2
  <2> QED BY <1>0, <2>1, <2>3, <2>4
<1> HIDE DEF s
<1>11. InOrderOf(R, s, n)
  BY <1>10 DEF InOrderOf
<1> QED BY <1>9, <1>11

\* OrderedBy has each element once, in its order.
LEMMA OrderedIs ==
  ASSUME NEW S, IsFiniteSet(S), NEW R, StrictOrder(S, R)
  PROVE  /\ Cardinality(S) \in Nat /\ OrderedBy(S, R) \in [1..Cardinality(S) -> S]
         /\ InOrderOf(R, OrderedBy(S, R), Cardinality(S))
         /\ \A i, k \in 1..Cardinality(S) : OrderedBy(S, R)[i] = OrderedBy(S, R)[k] => i = k
         /\ \A p \in S : \E i \in 1..Cardinality(S) : OrderedBy(S, R)[i] = p
<1> DEFINE n == Cardinality(S)
           s == OrderedBy(S, R)
<1>1. n \in Nat /\ IsFiniteSet(1..n) /\ Cardinality(1..n) = n
  BY FS_CardinalityType, FS_Interval
<1>2. \E t \in [1..n -> S] : InOrderOf(R, t, n)
  BY SortExists
<1>3. s = CHOOSE t \in [1..n -> S] : InOrderOf(R, t, n)
  BY DEF OrderedBy, InOrderOf
<1> HIDE DEF n, s
<1>4. s \in [1..n -> S] /\ InOrderOf(R, s, n)
  BY <1>2, <1>3
<1>5. \A i, k \in 1..n : s[i] = s[k] => i = k
  <2> SUFFICES ASSUME NEW i \in 1..n, NEW k \in 1..n, s[i] = s[k], i # k PROVE FALSE
    OBVIOUS
  <2>1. s[i] \in S /\ s[k] \in S /\ <<s[i], s[i]>> \notin R
    BY <1>4 DEF StrictOrder
  <2>2. i < k \/ k < i
    BY <1>1
  <2> QED BY <1>4, <2>1, <2>2 DEF InOrderOf
<1>6. s \in Injection(1..n, S)
  BY <1>4, <1>5 DEF Injection, IsInjective
<1>7. s \in Surjection(1..n, S)
  BY <1>1, <1>6, FS_Injection DEF n
<1>8. \A p \in S : \E i \in 1..n : s[i] = p
  BY <1>7 DEF Surjection
<1> QED BY <1>1, <1>4, <1>5, <1>8 DEF n, s

-----------------------------------------------------------------------------
(* Places *)

\* Where the members that are kept stood.
PlacesOf(s, S, r, e) ==
  /\ e \in [1..Len(r) -> 1..Len(s)]
  /\ \A i, k \in 1..Len(r) : i < k => e[i] < e[k]
  /\ \A i \in 1..Len(r) : r[i] = s[e[i]] /\ s[e[i]] \in S
  /\ \A l \in 1..Len(s) : s[l] \in S => \E i \in 1..Len(r) : e[i] = l

LEMMA SelectedPlaces ==
  ASSUME NEW T, NEW S, NEW s \in Seq(T)
  PROVE  /\ Selected(s, S) \in Seq(T)
         /\ \E e \in [1..Len(Selected(s, S)) -> 1..Len(s)] : PlacesOf(s, S, Selected(s, S), e)
<1> DEFINE r == Selected(s, S)
           n == Len(s)
           K == KeptUpTo(s, S, n)
           rank(l) == Cardinality(KeptUpTo(s, S, l))
           e == [i \in 1..Len(r) |-> CHOOSE l \in K : rank(l) = i]
<1>1. r \in Seq(T) /\ Ranked(s, S, r, n) /\ n \in Nat
  BY SelectedRanks
<1> HIDE DEF r
<1>2. \A i \in 1..Len(r) : \E l \in K : rank(l) = i
  BY <1>1 DEF Ranked
<1>3. ASSUME NEW i \in 1..Len(r) PROVE e[i] \in K /\ rank(e[i]) = i
  <2> HIDE DEF K, rank
  <2> QED BY <1>2
<1>4. \A l \in K : l \in 1..n /\ l \in Nat /\ s[l] \in S
  BY <1>1 DEF KeptUpTo
<1>5. ASSUME NEW a \in K, NEW b \in K, a < b PROVE rank(a) < rank(b)
  <2>1. a \in Nat /\ b \in Nat /\ s[b] \in S /\ b \in 1..n
    BY <1>4
  <2>2. b - 1 \in Nat /\ (b - 1) + 1 = b /\ a <= b - 1
    BY <2>1, <1>5
  <2>3. rank(b) = rank(b - 1) + 1 /\ rank(b - 1) \in Nat /\ IsFiniteSet(KeptUpTo(s, S, b - 1))
    <3> DEFINE c == b - 1
    <3>1. c \in Nat /\ c + 1 = b
      BY <2>2
    <3> HIDE DEF c
    <3> QED BY <3>1, <2>1, KeptUpToSteps DEF c
  <2>4. KeptUpTo(s, S, a) \subseteq KeptUpTo(s, S, b - 1)
    <3>1. 1..a \subseteq 1..(b - 1)
      BY <2>1, <2>2
    <3> QED BY <3>1 DEF KeptUpTo
  <2>5. rank(a) <= rank(b - 1) /\ rank(a) \in Nat
    BY <2>1, <2>3, <2>4, FS_Subset, KeptUpToSteps
  <2> HIDE DEF rank
  <2> QED BY <2>3, <2>5
<1>6. e \in [1..Len(r) -> 1..n]
  <2> HIDE DEF K, rank
  <2> QED BY <1>3, <1>4
<1>7. ASSUME NEW i \in 1..Len(r), NEW k \in 1..Len(r), i < k PROVE e[i] < e[k]
  <2> HIDE DEF e
  <2>1. e[i] \in K /\ e[k] \in K /\ rank(e[i]) = i /\ rank(e[k]) = k
    BY <1>3
  <2>2. e[i] \in Nat /\ e[k] \in Nat
    BY <2>1, <1>4
  <2> HIDE DEF rank, K
  <2>3. SUFFICES ASSUME ~(e[i] < e[k]) PROVE FALSE
    OBVIOUS
  <2>4. e[k] < e[i] \/ e[k] = e[i]
    BY <2>2, <2>3
  <2>5. i \in Nat /\ k \in Nat
    BY <1>1
  <2>6. e[k] < e[i] => k < i
    BY <1>5, <2>1
  <2> QED BY <1>7, <2>1, <2>4, <2>5, <2>6
<1>8. \A i \in 1..Len(r) : r[i] = s[e[i]] /\ s[e[i]] \in S
  <2> TAKE i \in 1..Len(r)
  <2> HIDE DEF e
  <2>1. e[i] \in K /\ rank(e[i]) = i
    BY <1>3
  <2>2. r[rank(e[i])] = s[e[i]]
    BY <2>1, <1>1 DEF Ranked
  <2> HIDE DEF rank, K
  <2> QED BY <2>1, <2>2, <1>4
<1>9. \A l \in 1..n : s[l] \in S => \E i \in 1..Len(r) : e[i] = l
  <2> SUFFICES ASSUME NEW l \in 1..n, s[l] \in S PROVE \E i \in 1..Len(r) : e[i] = l
    OBVIOUS
  <2> HIDE DEF e
  <2>1. l \in K
    BY DEF KeptUpTo
  <2>2. rank(l) \in 1..Len(r)
    BY <2>1, <1>1 DEF Ranked
  <2> DEFINE i == rank(l)
  <2>3. e[i] \in K /\ rank(e[i]) = i
    <3> HIDE DEF i
    <3> QED BY <2>2, <1>3 DEF i
  <2>4. e[i] \in Nat /\ l \in Nat /\ i \in Nat
    <3>1. i \in Nat
      <4> DEFINE c == rank(l)
      <4> HIDE DEF c
      <4>1. c \in 1..Len(r)
        BY <2>2 DEF c
      <4>2. c \in Nat
        BY <4>1, <1>1
      <4> QED BY <4>2 DEF c
    <3> HIDE DEF K, rank, i
    <3>2. e[i] \in Nat /\ l \in Nat
      BY <2>1, <2>3, <1>4
    <3> QED BY <3>1, <3>2
  <2>5. e[i] < l => rank(e[i]) < i
    <3> HIDE DEF K
    <3> QED BY <1>5, <2>1, <2>3
  <2>6. l < e[i] => i < rank(e[i])
    <3> HIDE DEF K
    <3> QED BY <1>5, <2>1, <2>3
  <2> HIDE DEF i, rank, K
  <2>7. e[i] = l
    BY <2>3, <2>4, <2>5, <2>6
  <2> QED BY <2>2, <2>7 DEF i
<1> HIDE DEF e
<1>10. PlacesOf(s, S, r, e)
  BY <1>6, <1>7, <1>8, <1>9 DEF PlacesOf
<1> QED BY <1>1, <1>6, <1>10 DEF r

-----------------------------------------------------------------------------
(* Concatenations *)

\* What is chained grows by one sequence at a time.
LEMMA ChainSteps ==
  ASSUME NEW T, NEW s \in Seq(Seq(T))
  PROVE  /\ ChainTo(s) \in [0..Len(s) -> Seq(T)]
         /\ ChainTo(s)[0] = <<>>
         /\ \A k \in 1..Len(s) : ChainTo(s)[k] = ChainTo(s)[k - 1] \o s[k]
<1> DEFINE G == [k \in 1..Len(s) |-> [x \in Seq(T) |-> x \o s[k]]]
           Is(f) == f = [k \in 0..Len(s) |-> IF k = 0 THEN <<>> ELSE f[k - 1] \o s[k]]
<1>1. Len(s) \in Nat /\ \A k \in 1..Len(s) : s[k] \in Seq(T)
  OBVIOUS
<1>2. G \in StepsOn(Seq(T), Len(s)) /\ <<>> \in Seq(T)
  <2>1. \A k \in 1..Len(s) : \A x \in Seq(T) : x \o s[k] \in Seq(T)
    BY <1>1, ConcatProperties
  <2> QED BY <2>1 DEF StepsOn
<1>3. PICK f \in [0..Len(s) -> Seq(T)] : f[0] = <<>> /\ \A n \in 1..Len(s) : f[n] = G[n][f[n - 1]]
  <2>1. \E h \in RunsOn(Seq(T), Len(s)) : Follows(h, <<>>, G, Len(s))
    <3> HIDE DEF G
    <3> QED BY <1>1, <1>2, Recursion
  <2> HIDE DEF G
  <2> QED BY <2>1 DEF RunsOn, Follows
<1>4. \A n \in 1..Len(s) : f[n] = f[n - 1] \o s[n]
  <2> TAKE n \in 1..Len(s)
  <2>1. n - 1 \in 0..Len(s)
    BY <1>1
  <2>2. f[n - 1] \in Seq(T)
    BY <2>1
  <2> QED BY <1>3, <2>2
<1>5. Is(f)
  <2>1. \A n \in 0..Len(s) : f[n] = IF n = 0 THEN <<>> ELSE f[n - 1] \o s[n]
    <3> HIDE DEF G
    <3>1. \A n \in 0..Len(s) : n # 0 => n \in 1..Len(s)
      OBVIOUS
    <3> QED BY <3>1, <1>3, <1>4
  <2>2. f = [n \in 0..Len(s) |-> f[n]]
    OBVIOUS
  <2> HIDE DEF G
  <2> QED BY <2>1, <2>2
<1>6. ChainTo(s) = CHOOSE g : Is(g)
  BY DEF ChainTo
<1>7. Is(ChainTo(s))
  <2> HIDE DEF Is
  <2> QED BY <1>5, <1>6
<1> DEFINE F == ChainTo(s)
<1> HIDE DEF F
<1>8. F = [k \in 0..Len(s) |-> IF k = 0 THEN <<>> ELSE F[k - 1] \o s[k]]
  BY <1>7 DEF F
<1>9. /\ F = [k \in 0..Len(s) |-> F[k]]
      /\ \A k \in 0..Len(s) : F[k] = IF k = 0 THEN <<>> ELSE F[k - 1] \o s[k]
  BY <1>8
<1>13. F[0] = <<>>
  <2>1. 0 \in 0..Len(s)
    BY <1>1
  <2> QED BY ONLY <2>1, <1>9, Zenon
<1>10. \A k \in 1..Len(s) : F[k] = F[k - 1] \o s[k]
  <2> TAKE k \in 1..Len(s)
  <2>1. k \in 0..Len(s) /\ k # 0
    BY <1>1
  <2> QED BY ONLY <2>1, <1>9, Zenon
<1> DEFINE Good == {k \in 0..Len(s) : F[k] \in Seq(T)}
<1>11. 0..Len(s) \subseteq Good
  <2>1. 0 \in Good
    <3>1. 0 \in 0..Len(s) /\ F[0] \in Seq(T)
      BY <1>1, <1>13
    <3> QED BY <3>1
  <2>2. ASSUME NEW k \in 0..(Len(s) - 1), k \in Good PROVE k + 1 \in Good
    <3>1. k + 1 \in 1..Len(s) /\ (k + 1) - 1 = k /\ s[k + 1] \in Seq(T) /\ F[k] \in Seq(T)
      BY <2>2, <1>1
    <3>2. F[k] \o s[k + 1] \in Seq(T)
      BY <3>1, ConcatProperties
    <3>3. F[k + 1] = F[(k + 1) - 1] \o s[k + 1]
      BY ONLY <3>1, <1>10, Zenon
    <3>4. k + 1 \in 0..Len(s) /\ F[k + 1] \in Seq(T)
      BY <3>1, <3>2, <3>3
    <3> QED BY <3>4
  <2> HIDE DEF Good
  <2> QED BY <2>1, <2>2, <1>1, UpTo
<1>12. F \in [0..Len(s) -> Seq(T)]
  BY <1>9, <1>11
<1> QED BY <1>10, <1>12, <1>13 DEF F

\* Sequences that begin alike chain and sum alike.
LEMMA ChainsAgree ==
  ASSUME NEW T, NEW s \in Seq(Seq(T)), NEW t \in Seq(Seq(T)), NEW n \in Nat,
         n <= Len(s), n <= Len(t), \A i \in 1..n : s[i] = t[i]
  PROVE  ChainTo(s)[n] = ChainTo(t)[n]
<1> DEFINE A == ChainTo(s)
           B == ChainTo(t)
           P == {k \in 0..n : A[k] = B[k]}
<1>1. /\ A[0] = <<>> /\ \A k \in 1..Len(s) : A[k] = A[k - 1] \o s[k]
      /\ B[0] = <<>> /\ \A k \in 1..Len(t) : B[k] = B[k - 1] \o t[k]
  BY ChainSteps
<1>2. Len(s) \in Nat /\ Len(t) \in Nat
  OBVIOUS
<1> HIDE DEF A, B
<1>3. 0..n \subseteq P
  <2>1. 0 \in P
    BY <1>1
  <2>2. ASSUME NEW k \in 0..(n - 1), k \in P PROVE k + 1 \in P
    <3>1. k + 1 \in 1..n /\ k + 1 \in 1..Len(s) /\ k + 1 \in 1..Len(t) /\ (k + 1) - 1 = k /\ k + 1 \in 0..n
      BY <1>2
    <3> QED BY <2>2, <3>1, <1>1
  <2> HIDE DEF P
  <2> QED BY <2>1, <2>2, UpTo
<1>4. n \in 0..n
  OBVIOUS
<1> QED BY <1>3, <1>4 DEF A, B

LEMMA SumsAgree ==
  ASSUME NEW s \in Seq(Nat), NEW t \in Seq(Nat), NEW n \in Nat,
         n <= Len(s), n <= Len(t), \A i \in 1..n : s[i] = t[i]
  PROVE  SumTo(s)[n] = SumTo(t)[n]
<1> DEFINE A == SumTo(s)
           B == SumTo(t)
           P == {k \in 0..n : A[k] = B[k]}
<1>1. /\ A[0] = 0 /\ \A k \in 1..Len(s) : A[k] = A[k - 1] + s[k]
      /\ B[0] = 0 /\ \A k \in 1..Len(t) : B[k] = B[k - 1] + t[k]
  BY SumSteps
<1>2. Len(s) \in Nat /\ Len(t) \in Nat
  OBVIOUS
<1> HIDE DEF A, B
<1>3. 0..n \subseteq P
  <2>1. 0 \in P
    BY <1>1
  <2>2. ASSUME NEW k \in 0..(n - 1), k \in P PROVE k + 1 \in P
    <3>1. k + 1 \in 1..n /\ k + 1 \in 1..Len(s) /\ k + 1 \in 1..Len(t) /\ (k + 1) - 1 = k /\ k + 1 \in 0..n
      BY <1>2
    <3> QED BY <2>2, <3>1, <1>1
  <2> HIDE DEF P
  <2> QED BY <2>1, <2>2, UpTo
<1>4. n \in 0..n
  OBVIOUS
<1> QED BY <1>3, <1>4 DEF A, B

\* Chaining sequences that differ in their last one, and one sequence more.
LEMMA ChainedLast ==
  ASSUME NEW T, NEW s \in Seq(Seq(T)), NEW t \in Seq(Seq(T)), s # <<>>, Len(t) = Len(s),
         \A i \in 1..(Len(s) - 1) : t[i] = s[i], NEW x \in Seq(T), t[Len(s)] = s[Len(s)] \o x
  PROVE  Chained(t) = Chained(s) \o x
<1> DEFINE n == Len(s)
           A == ChainTo(s)
           B == ChainTo(t)
<1>1. n \in Nat /\ n >= 1 /\ n - 1 \in Nat /\ n \in 1..n /\ n - 1 \in 0..n /\ s[n] \in Seq(T)
  OBVIOUS
<1>2. A \in [0..n -> Seq(T)] /\ A[n] = A[n - 1] \o s[n] /\ B[n] = B[n - 1] \o t[n]
  BY <1>1, ChainSteps
<1>3. A[n - 1] = B[n - 1]
  <2> DEFINE m == n - 1
  <2>1. m \in Nat /\ m <= Len(s) /\ m <= Len(t) /\ \A i \in 1..m : s[i] = t[i]
    BY <1>1
  <2> HIDE DEF m
  <2>2. ChainTo(s)[m] = ChainTo(t)[m]
    BY <2>1, ChainsAgree
  <2> QED BY <2>2 DEF m
<1> HIDE DEF A, B
<1>4. A[n - 1] \in Seq(T)
  BY <1>1, <1>2
<1> DEFINE a == A[n - 1]
           b == s[n]
<1>5. (a \o b) \o x = a \o (b \o x)
  <2>1. a \in Seq(T) /\ b \in Seq(T)
    BY <1>1, <1>4
  <2>2. ASSUME NEW u \in Seq(T), NEW v \in Seq(T), NEW w \in Seq(T)
        PROVE  (u \o v) \o w = u \o (v \o w)
    BY ONLY <2>2, SMTT(30)
  <2>3. x \in Seq(T)
    OBVIOUS
  <2> HIDE DEF a, b
  <2> QED BY ONLY <2>1, <2>2, <2>3, Zenon
<1> QED BY <1>2, <1>3, <1>5 DEF Chained, A, B

LEMMA ChainedMore ==
  ASSUME NEW T, NEW s \in Seq(Seq(T)), NEW x \in Seq(T)
  PROVE  Chained(Append(s, x)) = Chained(s) \o x
<1> DEFINE t == Append(s, x)
           n == Len(s)
<1>1. t \in Seq(Seq(T)) /\ Len(t) = n + 1 /\ t[n + 1] = x /\ \A i \in 1..n : t[i] = s[i]
  BY OneMore
<1>2. n \in Nat /\ n + 1 \in 1..(n + 1) /\ (n + 1) - 1 = n
  OBVIOUS
<1> HIDE DEF t
<1>3. ChainTo(t)[n + 1] = ChainTo(t)[n] \o x
  BY <1>1, <1>2, ChainSteps
<1>4. ChainTo(s)[n] = ChainTo(t)[n]
  <2>1. n <= Len(s) /\ n <= Len(t) /\ \A i \in 1..n : s[i] = t[i]
    BY <1>1, <1>2
  <2> QED BY <1>1, <1>2, <2>1, ChainsAgree
<1> QED BY <1>1, <1>3, <1>4 DEF Chained, t

LEMMA ChainedType ==
  ASSUME NEW T, NEW s \in Seq(Seq(T))
  PROVE  Chained(s) \in Seq(T) /\ Chained(<<>>) = <<>>
<1>1. Len(s) \in 0..Len(s)
  OBVIOUS
<1>2. Chained(s) \in Seq(T)
  BY <1>1, ChainSteps DEF Chained
<1>3. <<>> \in Seq(Seq(T)) /\ Len(<<>>) = 0
  OBVIOUS
<1>4. Chained(<<>>) = <<>>
  BY <1>3, ChainSteps DEF Chained
<1> QED BY <1>2, <1>4

\* So does a sum of integers.
LEMMA IntSumSteps ==
  ASSUME NEW s \in Seq(Int)
  PROVE  /\ SumTo(s) \in [0..Len(s) -> Int]
         /\ SumTo(s)[0] = 0
         /\ \A k \in 1..Len(s) : SumTo(s)[k] = SumTo(s)[k - 1] + s[k]
<1> DEFINE G == [k \in 1..Len(s) |-> [x \in Int |-> x + s[k]]]
           Is(f) == f = [k \in 0..Len(s) |-> IF k = 0 THEN 0 ELSE f[k - 1] + s[k]]
<1>1. Len(s) \in Nat /\ \A k \in 1..Len(s) : s[k] \in Int
  OBVIOUS
<1>2. G \in StepsOn(Int, Len(s)) /\ 0 \in Int
  BY <1>1 DEF StepsOn
<1>3. PICK f \in [0..Len(s) -> Int] : f[0] = 0 /\ \A n \in 1..Len(s) : f[n] = G[n][f[n - 1]]
  <2>1. \E h \in RunsOn(Int, Len(s)) : Follows(h, 0, G, Len(s))
    <3> HIDE DEF G
    <3> QED BY <1>1, <1>2, Recursion
  <2> HIDE DEF G
  <2> QED BY <2>1 DEF RunsOn, Follows
<1>4. ASSUME NEW n \in 1..Len(s) PROVE f[n] = f[n - 1] + s[n]
  <2>1. n - 1 \in 0..Len(s)
    BY <1>1
  <2>2. f[n - 1] \in Int /\ f[n] = G[n][f[n - 1]]
    BY <2>1, <1>3
  <2> HIDE <1>3
  <2> QED BY <2>2
<1>5. Is(f)
  <2>1. \A n \in 0..Len(s) : f[n] = IF n = 0 THEN 0 ELSE f[n - 1] + s[n]
    <3> HIDE DEF G
    <3>1. \A n \in 0..Len(s) : n # 0 => n \in 1..Len(s)
      OBVIOUS
    <3> QED BY <3>1, <1>3, <1>4
  <2>2. f = [n \in 0..Len(s) |-> f[n]]
    OBVIOUS
  <2> HIDE DEF G
  <2> QED BY <2>1, <2>2
<1>6. SumTo(s) = CHOOSE g : Is(g)
  BY DEF SumTo
<1>7. Is(SumTo(s))
  <2> HIDE DEF Is
  <2> QED BY <1>5, <1>6
<1> DEFINE F == SumTo(s)
<1> HIDE DEF F
<1>8. F = [k \in 0..Len(s) |-> IF k = 0 THEN 0 ELSE F[k - 1] + s[k]]
  BY <1>7 DEF F
<1>9. F = [k \in 0..Len(s) |-> F[k]] /\ F[0] = 0
  BY <1>1, <1>8
<1>10. \A k \in 1..Len(s) : F[k] = F[k - 1] + s[k]
  <2> TAKE k \in 1..Len(s)
  <2>1. k \in 0..Len(s) /\ k # 0
    BY ONLY <1>1
  <2>2. F[k] = IF k = 0 THEN 0 ELSE F[k - 1] + s[k]
    BY ONLY <2>1, <1>8
  <2> QED BY ONLY <2>1, <2>2
<1> DEFINE Good == {k \in 0..Len(s) : F[k] \in Int}
<1>11. 0..Len(s) \subseteq Good
  <2>1. 0 \in Good
    BY <1>1, <1>9
  <2>2. ASSUME NEW k \in 0..(Len(s) - 1), k \in Good PROVE k + 1 \in Good
    <3>1. k + 1 \in 1..Len(s) /\ (k + 1) - 1 = k /\ s[k + 1] \in Int /\ F[k] \in Int
      BY <2>2, <1>1
    <3> QED BY <3>1, <1>10
  <2> HIDE DEF Good
  <2> QED BY <2>1, <2>2, <1>1, UpTo
<1>12. F \in [0..Len(s) -> Int]
  BY <1>9, <1>11
<1> QED BY <1>9, <1>10, <1>12 DEF F

LEMMA TotalInt == ASSUME NEW s \in Seq(Int) PROVE Total(s) \in Int
<1>1. Len(s) \in 0..Len(s)
  OBVIOUS
<1> QED BY <1>1, IntSumSteps DEF Total

\* Sums of sequences that differ in one number differ by as much.
LEMMA TotalDiffers ==
  ASSUME NEW s \in Seq(Int), NEW t \in Seq(Int), Len(t) = Len(s), NEW j \in 1..Len(s),
         \A i \in 1..Len(s) : i # j => t[i] = s[i]
  PROVE  Total(t) = (Total(s) - s[j]) + t[j]
<1> DEFINE n == Len(s)
           A == SumTo(s)
           B == SumTo(t)
<1>1. /\ n \in Nat /\ j \in 1..n /\ s[j] \in Int /\ t[j] \in Int
      /\ A \in [0..n -> Int] /\ A[0] = 0 /\ \A k \in 1..n : A[k] = A[k - 1] + s[k]
      /\ B \in [0..n -> Int] /\ B[0] = 0 /\ \A k \in 1..n : B[k] = B[k - 1] + t[k]
      /\ \A k \in 1..n : s[k] \in Int /\ t[k] \in Int
  <2>1. n \in Nat /\ j \in 1..n /\ Len(t) = n /\ \A k \in 1..n : s[k] \in Int /\ t[k] \in Int
    OBVIOUS
  <2>2. A \in [0..n -> Int] /\ A[0] = 0 /\ \A k \in 1..n : A[k] = A[k - 1] + s[k]
    BY IntSumSteps
  <2>3. B \in [0..Len(t) -> Int] /\ B[0] = 0 /\ \A k \in 1..Len(t) : B[k] = B[k - 1] + t[k]
    BY IntSumSteps
  <2> HIDE DEF A, B
  <2> QED BY <2>1, <2>2, <2>3
<1>2. \A i \in 1..n : i # j => t[i] = s[i]
  OBVIOUS
<1>3. Total(s) = A[n] /\ Total(t) = B[n]
  BY DEF Total
<1> DEFINE P == {k \in 0..n : (k < j => B[k] = A[k]) /\ (k >= j => B[k] = (A[k] - s[j]) + t[j])}
<1> HIDE DEF n, A, B
<1>4. 0 \in P
  BY <1>1
<1>5. ASSUME NEW k \in 0..(n - 1), k \in P PROVE k + 1 \in P
  <2>0. n \in Nat /\ j \in 1..n /\ k \in 0..(n - 1)
    BY ONLY <1>1, <1>5
  <2>1. k \in Int /\ j \in Int /\ k + 1 \in 1..n /\ (k + 1) - 1 = k /\ k \in 0..n
    BY ONLY <2>0
  <2>7. A[k] \in Int /\ B[k] \in Int /\ s[k + 1] \in Int /\ t[k + 1] \in Int /\ s[j] \in Int /\ t[j] \in Int
    BY ONLY <2>1, <1>1
  <2>2. A[k + 1] = A[k] + s[k + 1] /\ B[k + 1] = B[k] + t[k + 1]
    BY ONLY <2>1, <1>1
  <2>3. (k < j => B[k] = A[k]) /\ (k >= j => B[k] = (A[k] - s[j]) + t[j])
    BY <1>5
  <2>4. k + 1 # j => t[k + 1] = s[k + 1]
    BY <2>1, <1>2
  <2>5. CASE k + 1 = j
    <3>1. B[k + 1] = (A[k + 1] - s[j]) + t[j]
      BY ONLY <2>1, <2>7, <2>2, <2>3, <2>5
    <3> QED BY <3>1, <2>1, <2>5
  <2>6. CASE k + 1 < j
    <3>1. B[k + 1] = A[k + 1]
      BY ONLY <2>6, <2>1, <2>7, <2>2, <2>3, <2>4
    <3> QED BY <3>1, <2>1, <2>6
  <2>8. CASE k >= j
    <3>2. k + 1 # j
      BY ONLY <2>8, <2>1
    <3>3. t[k + 1] = s[k + 1] /\ B[k] = (A[k] - s[j]) + t[j]
      BY ONLY <3>2, <2>8, <2>3, <2>4
    <3> DEFINE a == A[k]
               c == s[k + 1]
               p == s[j]
               q == t[j]
    <3>4. a \in Int /\ c \in Int /\ p \in Int /\ q \in Int
      BY ONLY <2>7
    <3>5. A[k + 1] = a + c /\ B[k + 1] = ((a - p) + q) + c
      BY ONLY <3>3, <2>2
    <3> HIDE DEF a, c, p, q
    <3>6. ((a - p) + q) + c = ((a + c) - p) + q
      BY ONLY <3>4
    <3>7. B[k + 1] = (A[k + 1] - p) + q
      BY ONLY <3>5, <3>6
    <3>1. B[k + 1] = (A[k + 1] - s[j]) + t[j]
      BY ONLY <3>7 DEF p, q
    <3> QED BY <3>1, <2>1, <2>8
  <2> QED BY <2>1, <2>5, <2>6, <2>8
<1>6. n \in P
  <2>1. 0..n \subseteq P
    <3> HIDE DEF P
    <3> QED BY <1>1, <1>4, <1>5, UpTo
  <2> QED BY <2>1, <1>1
<1> QED BY <1>1, <1>3, <1>6

LEMMA TotalZeros ==
  ASSUME NEW s \in Seq(Int), \A i \in 1..Len(s) : s[i] = 0
  PROVE  Total(s) = 0
<1> DEFINE P == {k \in 0..Len(s) : SumTo(s)[k] = 0}
<1>1. Len(s) \in Nat /\ SumTo(s)[0] = 0 /\ \A k \in 1..Len(s) : SumTo(s)[k] = SumTo(s)[k - 1] + s[k]
  BY IntSumSteps
<1>2. 0 \in P
  BY <1>1
<1>3. ASSUME NEW k \in 0..(Len(s) - 1), k \in P PROVE k + 1 \in P
  <2>1. k + 1 \in 1..Len(s) /\ (k + 1) - 1 = k
    BY <1>1
  <2>2. SumTo(s)[k + 1] = SumTo(s)[k] + s[k + 1] /\ SumTo(s)[k] = 0
    BY <2>1, <1>1, <1>3
  <2> QED BY <2>1, <2>2
<1>4. Len(s) \in P
  <2>1. 0..Len(s) \subseteq P
    <3> HIDE DEF P
    <3> QED BY <1>1, <1>2, <1>3, UpTo
  <2> QED BY <2>1, <1>1
<1> QED BY <1>4 DEF Total

\* A sum grows with its last number.
LEMMA TotalAppend ==
  ASSUME NEW s \in Seq(Int), NEW t \in Seq(Int), Len(t) = Len(s) + 1, \A i \in 1..Len(s) : t[i] = s[i]
  PROVE  Total(t) = Total(s) + t[Len(t)]
<1> DEFINE n == Len(s)
           A == SumTo(s)
           B == SumTo(t)
<1>1. /\ n \in Nat /\ Len(t) = n + 1 /\ t[n + 1] \in Int
      /\ A \in [0..n -> Int] /\ A[0] = 0 /\ \A k \in 1..n : A[k] = A[k - 1] + s[k]
      /\ B \in [0..(n + 1) -> Int] /\ B[0] = 0 /\ \A k \in 1..(n + 1) : B[k] = B[k - 1] + t[k]
      /\ \A k \in 1..n : t[k] = s[k]
  <2>1. n \in Nat /\ Len(t) = n + 1 /\ n + 1 \in 1..Len(t) /\ \A k \in 1..Len(t) : t[k] \in Int
    OBVIOUS
  <2>2. A \in [0..n -> Int] /\ A[0] = 0 /\ \A k \in 1..n : A[k] = A[k - 1] + s[k]
    BY IntSumSteps
  <2>3. B \in [0..Len(t) -> Int] /\ B[0] = 0 /\ \A k \in 1..Len(t) : B[k] = B[k - 1] + t[k]
    BY IntSumSteps
  <2> HIDE DEF A, B
  <2> QED BY <2>1, <2>2, <2>3
<1>2. Total(s) = A[n] /\ Total(t) = B[n + 1]
  BY <1>1 DEF Total
<1> DEFINE P == {k \in 0..n : B[k] = A[k]}
<1> HIDE DEF n, A, B
<1>3. 0 \in P
  BY <1>1
<1>4. ASSUME NEW k \in 0..(n - 1), k \in P PROVE k + 1 \in P
  <2>1. k + 1 \in 1..n /\ k + 1 \in 1..(n + 1) /\ (k + 1) - 1 = k
    BY <1>1
  <2> QED BY <2>1, <1>1, <1>4
<1>5. n \in P
  <2>1. 0..n \subseteq P
    <3> HIDE DEF P
    <3> QED BY <1>1, <1>3, <1>4, UpTo
  <2> QED BY <2>1, <1>1
<1>6. B[n + 1] = B[n] + t[n + 1]
  <2>1. n + 1 \in 1..(n + 1) /\ (n + 1) - 1 = n
    BY <1>1
  <2> QED BY <2>1, <1>1
<1> QED BY <1>1, <1>2, <1>5, <1>6
================================================================================
