-------------------------- MODULE CanonicalizeProofs --------------------------
(***************************************************************************)
(* Proofs about the canonicalizer for every number of bones and morphs,     *)
(* every parent and every member table: the order of the joints, the walk   *)
(* that breaks group cycles, then the whole, which runs both as their own   *)
(* modules specify them; last the order of the groups and the weights they  *)
(* pass on in the control rig, which rest on that walk.                     *)
(***************************************************************************)
EXTENDS Canonicalize, MorphChannels, Induction

-----------------------------------------------------------------------------
(* The order of the joints *)

Settled == {b \in Bones : state[b] = "settled"}

\* No set of bones of S holds the parents of all its members: S has no cycle.
Grounded(S) == \A T \in SUBSET S : T # {} => \E b \in T : parents[b] \notin T

\* The walk is a path of parents that starts at start and stands before
\* current, over exactly the bones marked onWalk.
WalkIsAPath ==
  /\ Elements(walk) = {b \in Bones : state[b] = "onWalk"}
  /\ \A i \in 1..(Len(walk) - 1) : parents[walk[i]] = walk[i + 1]
  /\ walk = <<>> => current = start
  /\ walk # <<>> => /\ walk[1] = start /\ parents[walk[Len(walk)]] = current

\* Settled bones lead to settled bones and to roots, in no cycle, and every
\* bone a walk began at is settled.
SettledAreGrounded ==
  /\ \A b \in Settled : parents[b] \in Settled \cup {Root}
  /\ Grounded(Settled)
  /\ \A b \in Bones : b < start => b \in Settled

\* The queue holds the bones that wait for nothing any more.
QueueIsFrontier ==
  ready = {b \in Bones \ Elements(order) : parents[b] \in Elements(order) \cup {Root}}

\* What was emitted came once and after its parent.
EmittedInOrder ==
  /\ \A i, k \in 1..Len(order) : order[i] = order[k] => i = k
  /\ \A i \in 1..Len(order) : \/ parents[order[i]] = Root
                              \/ \E k \in 1..(i - 1) : order[k] = parents[order[i]]

OrderInv ==
  /\ TypeOK /\ WalkIsAPath /\ SettledAreGrounded
  /\ pc = "walk" => order = <<>>
  /\ pc # "walk" => /\ start = N /\ walk = <<>> /\ QueueIsFrontier /\ EmittedInOrder
  /\ pc = "done" => ready = {}

-----------------------------------------------------------------------------
(* Lemmas *)

\* Lowest is what it says.
LEMMA LowestIsLeast ==
  ASSUME NEW S \in SUBSET Int, IsFiniteSet(S), S # {}
  PROVE  Lowest(S) \in S /\ \A y \in S : Lowest(S) <= y
BY LeastElement DEF Lowest

LEMMA BonesAreNaturals == Bones \subseteq Nat /\ IsFiniteSet(Bones)
BY NAssumption, FS_Interval DEF Bones

LEMMA LowestBone ==
  ASSUME NEW S \in SUBSET Bones, S # {}
  PROVE  Lowest(S) \in S
<1>1. S \in SUBSET Int /\ IsFiniteSet(S)
  <2>1. IsFiniteSet(S)
    BY BonesAreNaturals, FS_Subset
  <2> QED BY <2>1, BonesAreNaturals
<1> QED BY <1>1, LowestIsLeast

LEMMA ElementsOfAppend ==
  ASSUME NEW S, NEW s \in Seq(S), NEW x \in S
  PROVE  Elements(Append(s, x)) = Elements(s) \cup {x}
<1>1. Len(Append(s, x)) = Len(s) + 1 /\ Len(s) \in Nat
  OBVIOUS
<1>2. \A i \in 1..Len(s) : Append(s, x)[i] = s[i]
  OBVIOUS
<1>3. Append(s, x)[Len(s) + 1] = x
  OBVIOUS
<1> QED BY <1>1, <1>2, <1>3 DEF Elements

LEMMA EmptyHasNoElements == Elements(<<>>) = {}
BY DEF Elements
-----------------------------------------------------------------------------
(* The invariant is inductive *)

LEMMA InitOrder == Init => OrderInv
<1> SUFFICES ASSUME Init PROVE OrderInv
  OBVIOUS
<1> USE NAssumption DEF Init, Bones, Root
<1>1. TypeOK
  BY TablesAssumption DEF TypeOK, Parent
<1>2. WalkIsAPath
  BY EmptyHasNoElements DEF WalkIsAPath
<1>3. SettledAreGrounded
  <2>1. Settled = {}
    BY DEF Settled
  <2> QED BY <2>1 DEF SettledAreGrounded, Grounded
<1> QED BY <1>1, <1>2, <1>3 DEF OrderInv

LEMMA AdvanceOrder == OrderInv /\ Advance => OrderInv'
<1> SUFFICES ASSUME OrderInv, Advance PROVE OrderInv'
  OBVIOUS
<1>1. /\ current \in Bones /\ state[current] = "unvisited"
      /\ state' = [state EXCEPT ![current] = "onWalk"]
      /\ walk' = Append(walk, current) /\ current' = parents[current]
      /\ UNCHANGED <<source, parents, pc, start, ready, order>> /\ pc = "walk"
  BY DEF Advance, Before
<1>2. TypeOK'
  BY <1>1 DEF OrderInv, TypeOK
<1>3. WalkIsAPath'
  <2>1. Elements(walk') = Elements(walk) \cup {current}
    BY <1>1, ElementsOfAppend DEF OrderInv, TypeOK
  <2>2. Elements(walk') = {b \in Bones : state'[b] = "onWalk"}
    BY <1>1, <2>1 DEF OrderInv, TypeOK, WalkIsAPath
  <2>3. /\ Len(walk') = Len(walk) + 1 /\ Len(walk) \in Nat
        /\ walk'[Len(walk) + 1] = current
        /\ \A i \in 1..Len(walk) : walk'[i] = walk[i]
    BY <1>1 DEF OrderInv, TypeOK
  <2>4. ASSUME NEW i \in 1..(Len(walk') - 1) PROVE parents'[walk'[i]] = walk'[i + 1]
    <3>1. CASE i = Len(walk)
      <4>1. walk # <<>>
        BY <2>3, <3>1
      <4> QED BY <4>1, <2>3, <3>1, <1>1 DEF OrderInv, WalkIsAPath
    <3>2. CASE i < Len(walk)
      BY <2>3, <3>2, <1>1 DEF OrderInv, WalkIsAPath
    <3> QED BY <2>3, <3>1, <3>2
  <2>5. walk' # <<>> /\ walk'[1] = start' /\ parents'[walk'[Len(walk')]] = current'
    <3>1. CASE walk = <<>>
      BY <3>1, <1>1 DEF OrderInv, WalkIsAPath
    <3>2. CASE walk # <<>>
      <4>1. Len(walk) >= 1
        BY <3>2 DEF OrderInv, TypeOK
      <4> QED BY <4>1, <3>2, <2>3, <1>1 DEF OrderInv, WalkIsAPath
    <3> QED BY <3>1, <3>2
  <2> QED BY <2>2, <2>4, <2>5 DEF WalkIsAPath
<1>4. SettledAreGrounded'
  <2>1. Settled' = Settled
    BY <1>1 DEF Settled, OrderInv, TypeOK
  <2> QED BY <1>1, <2>1 DEF OrderInv, SettledAreGrounded, Grounded
<1> QED BY <1>1, <1>2, <1>3, <1>4 DEF OrderInv

LEMMA SettledGrows ==
  ASSUME OrderInv, Settle,
         parents' \in [Bones -> Bones \cup {Root}],
         \A b \in Settled : parents'[b] = parents[b],
         \A b \in Elements(walk) : parents'[b] \in Elements(walk) \cup Settled \cup {Root},
         \A T \in SUBSET Elements(walk) : T # {} => \E b \in T : parents'[b] \notin T,
         start < N, start \in Settled \cup Elements(walk),
         pc = "walk"
  PROVE  OrderInv'
<1>1. /\ state' = [b \in Bones |-> IF b \in Elements(walk) THEN "settled" ELSE state[b]]
      /\ walk' = <<>> /\ start' = start + 1 /\ current' = start + 1
      /\ UNCHANGED <<source, pc, ready, order>>
  BY DEF Settle
<1>2. Elements(walk) = {b \in Bones : state[b] = "onWalk"}
  BY DEF OrderInv, WalkIsAPath
<1>3. TypeOK'
  BY <1>1, NAssumption DEF OrderInv, TypeOK, Bones
<1>4. Settled' = Settled \cup Elements(walk)
  BY <1>1, <1>2 DEF Settled
<1>5. WalkIsAPath'
  <2>1. Elements(walk') = {}
    BY <1>1, EmptyHasNoElements
  <2>2. {b \in Bones : state'[b] = "onWalk"} = {}
    BY <1>1, <1>2
  <2> QED BY <1>1, <2>1, <2>2 DEF WalkIsAPath
<1>6. SettledAreGrounded'
  <2>1. \A b \in Settled' : parents'[b] \in Settled' \cup {Root}
    BY <1>4 DEF OrderInv, SettledAreGrounded
  <2>2. ASSUME NEW T \in SUBSET Settled', T # {}
        PROVE  \E b \in T : parents'[b] \notin T
    <3>1. CASE T \cap Settled = {}
      BY <3>1, <2>2, <1>4
    <3>2. CASE T \cap Settled # {}
      <4>1. PICK b \in T \cap Settled : parents[b] \notin T \cap Settled
        BY <3>2 DEF OrderInv, SettledAreGrounded, Grounded
      <4>2. parents[b] \in Settled \cup {Root}
        BY <4>1 DEF OrderInv, SettledAreGrounded
      <4>3. Root \notin Settled'
        BY NAssumption DEF Settled, Bones, Root
      <4> QED BY <4>1, <4>2, <4>3
    <3> QED BY <3>1, <3>2
  <2>3. ASSUME NEW b \in Bones, b < start' PROVE b \in Settled'
    <3>1. b < start \/ b = start
      BY <1>1, <2>3, NAssumption DEF Bones, OrderInv, TypeOK
    <3> QED BY <3>1, <1>4 DEF OrderInv, SettledAreGrounded
  <2> QED BY <2>1, <2>2, <2>3 DEF SettledAreGrounded, Grounded
<1> QED BY <1>1, <1>3, <1>5, <1>6 DEF OrderInv

\* Where a walk began is settled when it ends.
LEMMA StartIsCovered ==
  ASSUME OrderInv, start < N, Before # "unvisited"
  PROVE  start \in Settled \cup Elements(walk)
<1>1. start \in Bones
  BY NAssumption DEF OrderInv, TypeOK, Bones
<1>2. CASE walk = <<>>
  <2>1. state[start] # "unvisited"
    BY <1>1, <1>2 DEF OrderInv, WalkIsAPath, Before
  <2>2. state[start] # "onWalk"
    BY <1>1, <1>2, EmptyHasNoElements DEF OrderInv, WalkIsAPath
  <2> QED BY <1>1, <2>1, <2>2 DEF OrderInv, TypeOK, Settled
<1>3. CASE walk # <<>>
  <2>1. Len(walk) >= 1 /\ walk[1] = start
    BY <1>3 DEF OrderInv, TypeOK, WalkIsAPath
  <2> QED BY <2>1 DEF Elements, OrderInv, TypeOK
<1> QED BY <1>2, <1>3

\* A bone of the walk leads to the next one; the last leads to current.
LEMMA WalkSteps ==
  ASSUME OrderInv, NEW i \in 1..Len(walk)
  PROVE  /\ i < Len(walk) => parents[walk[i]] = walk[i + 1]
         /\ i = Len(walk) => parents[walk[i]] = current
<1>1. Len(walk) \in Nat /\ walk # <<>>
  BY DEF OrderInv, TypeOK
<1> QED BY <1>1 DEF OrderInv, WalkIsAPath

\* Following the parents on the walk inside a set T ends in current's being in T.
LEMMA WalkLeadsToCurrent ==
  ASSUME OrderInv, NEW T \in SUBSET Elements(walk),
         \A b \in T : parents[b] \in T, T # {}
  PROVE  current \in T
<1>1. PICK i \in 1..Len(walk) : walk[i] \in T
  BY DEF Elements
<1>2. SUFFICES ASSUME current \notin T PROVE FALSE
  OBVIOUS
<1> DEFINE in == {n \in 0..Len(walk) : n < Len(walk) /\ walk[Len(walk) - n] \in T}
<1>3. Len(walk) \in Nat
  BY DEF OrderInv, TypeOK
<1>4. in \in SUBSET Int /\ IsFiniteSet(in)
  <2>1. IsFiniteSet(0..Len(walk)) /\ in \subseteq 0..Len(walk)
    BY <1>3, FS_Interval
  <2>2. IsFiniteSet(in)
    BY <2>1, FS_Subset
  <2> QED BY <2>1, <2>2, <1>3
<1>5. in # {}
  <2>1. Len(walk) - i \in 0..Len(walk) /\ Len(walk) - i < Len(walk) /\ Len(walk) - (Len(walk) - i) = i
    BY <1>3
  <2>2. Len(walk) - i \in in
    BY <2>1, <1>1
  <2> QED BY <2>2
<1>6. PICK n \in in : \A m \in in : n <= m
  <2> HIDE DEF in
  <2> QED BY <1>4, <1>5, LeastElement
<1>7. Len(walk) - n \in 1..Len(walk) /\ walk[Len(walk) - n] \in T
  BY <1>3
<1>8. CASE n = 0
  BY <1>2, <1>3, <1>7, <1>8, WalkSteps
<1>9. CASE n > 0
  <2>1. parents[walk[Len(walk) - n]] = walk[Len(walk) - n + 1]
    BY <1>3, <1>7, <1>9, WalkSteps
  <2>2. Len(walk) - n + 1 = Len(walk) - (n - 1)
    BY <1>3
  <2>3. n - 1 \in in
    BY <2>1, <2>2, <1>3, <1>7, <1>9
  <2> QED BY <2>3, <1>6, <1>3
<1> QED BY <1>3, <1>8, <1>9

LEMMA ArriveOrder == OrderInv /\ Arrive => OrderInv'
<1> SUFFICES ASSUME OrderInv, Arrive PROVE OrderInv'
  OBVIOUS
<1>1. /\ pc = "walk" /\ start < N /\ Before \in {"root", "settled"} /\ Settle
      /\ parents' = parents
  BY DEF Arrive
<1>2. current \notin Elements(walk) /\ current \in Settled \cup {Root, N}
  BY <1>1, NAssumption DEF Before, OrderInv, TypeOK, WalkIsAPath, Settled, Bones, Root
<1>3. ASSUME NEW b \in Elements(walk)
      PROVE  parents[b] \in Elements(walk) \cup Settled \cup {Root}
  <2>1. PICK i \in 1..Len(walk) : b = walk[i]
    BY DEF Elements
  <2>2. Len(walk) \in Nat /\ parents[b] \in Bones \cup {Root} /\ N \notin Bones \cup {Root}
    BY SMTT(40), <2>1, NAssumption DEF OrderInv, TypeOK, Bones, Root
  <2>3. CASE i < Len(walk)
    BY <2>1, <2>2, <2>3, WalkSteps DEF Elements
  <2>4. CASE i = Len(walk)
    BY <2>1, <2>2, <2>4, WalkSteps, <1>2
  <2> QED BY <2>2, <2>3, <2>4
<1>4. ASSUME NEW T \in SUBSET Elements(walk), T # {} PROVE \E b \in T : parents[b] \notin T
  BY <1>2, <1>4, WalkLeadsToCurrent
<1>5. start \in Settled \cup Elements(walk)
  BY <1>1, StartIsCovered
<1>6. parents' \in [Bones -> Bones \cup {Root}]
  BY <1>1 DEF OrderInv, TypeOK
<1> QED BY <1>1, <1>3, <1>4, <1>5, <1>6, SettledGrows

\* The cycle is a nonempty part of the walk that holds the bone it came back to.
LEMMA CycleOnWalk ==
  ASSUME OrderInv, Before = "onWalk"
  PROVE  /\ Cycle \subseteq Elements(walk) /\ Cycle # {}
         /\ current \in Bones /\ current \in Elements(walk)
<1>1. current \in Bones /\ current \in Elements(walk)
  BY DEF Before, OrderInv, WalkIsAPath
<1>2. PICK e \in 1..Len(walk) : walk[e] = current
  BY <1>1 DEF Elements
<1>3. Len(walk) \in Nat
  BY DEF OrderInv, TypeOK
<1>4. walk[e] \in Cycle
  BY <1>2, <1>3 DEF Cycle
<1> QED BY <1>1, <1>4 DEF Cycle, Elements

\* Cutting a bone of the cycle leaves no cycle on the walk: following the
\* parents from current, a set closed under them would hold the cut bone.
LEMMA CutGroundsTheWalk ==
  ASSUME OrderInv, Before = "onWalk", NEW cut \in Cycle,
         parents' = [parents EXCEPT ![cut] = Root],
         NEW T \in SUBSET Elements(walk), T # {}
  PROVE  \E b \in T : parents'[b] \notin T
<1>0. Len(walk) \in Nat /\ Elements(walk) \subseteq Bones /\ Root \notin Elements(walk)
  <2>1. Root \notin Bones
    BY NAssumption DEF Bones, Root
  <2> QED BY <2>1 DEF OrderInv, TypeOK, WalkIsAPath
<1>1. CASE cut \in T
  BY <1>0, <1>1 DEF OrderInv, TypeOK
<1>2. CASE cut \notin T /\ current \notin T
  <2>1. \E b \in T : parents[b] \notin T
    BY <1>2, WalkLeadsToCurrent
  <2> QED BY <2>1, <1>0, <1>2 DEF OrderInv, TypeOK
<1>3. CASE cut \notin T /\ current \in T
  <2>1. PICK k \in 1..Len(walk) : walk[k] = cut /\ \E e \in 1..k : walk[e] = current
    BY DEF Cycle
  <2>2. PICK e \in 1..k : walk[e] = current
    BY <2>1
  <2> DEFINE out == {n \in e..k : walk[n] \notin T}
  <2>3. out \in SUBSET Int /\ IsFiniteSet(out)
    <3>1. e \in Int /\ k \in Int /\ IsFiniteSet(e..k)
      BY <1>0, FS_Interval
    <3>2. out \in SUBSET (e..k)
      OBVIOUS
    <3>3. IsFiniteSet(out)
      <4> HIDE DEF out
      <4> QED BY <3>1, <3>2, FS_Subset
    <3> QED BY <3>1, <3>3
  <2>4. out # {}
    <3>1. k \in e..k
      BY <1>0
    <3>2. k \in out
      BY <3>1, <2>1, <1>3
    <3> QED BY <3>2
  <2>5. PICK n \in out : \A m \in out : n <= m
    <3> HIDE DEF out
    <3> QED BY <2>3, <2>4, LeastElement
  <2>6. n \in 1..Len(walk) /\ n # e /\ n - 1 \in 1..Len(walk) /\ n - 1 \in e..k /\ n = (n - 1) + 1 /\ n - 1 < n
    BY <1>0, <1>3, <2>2
  <2>7. walk[n - 1] \in T
    BY <2>6, <2>5, <1>0
  <2>8. parents[walk[n - 1]] = walk[n]
    <3>1. n - 1 < Len(walk)
      BY <2>6, <1>0
    <3> QED BY <3>1, <2>6, WalkSteps
  <2>9. parents'[walk[n - 1]] \notin T
    BY <2>7, <2>8, <1>3, <1>0 DEF OrderInv, TypeOK
  <2> QED BY <2>7, <2>9
<1> QED BY <1>1, <1>2, <1>3

LEMMA BreakCycleOrder == OrderInv /\ BreakCycle => OrderInv'
<1> SUFFICES ASSUME OrderInv, BreakCycle PROVE OrderInv'
  OBVIOUS
<1> DEFINE cut == Lowest(Cycle)
<1>1. /\ pc = "walk" /\ start < N /\ Before = "onWalk" /\ Settle
      /\ parents' = [parents EXCEPT ![cut] = Root]
  BY DEF BreakCycle, Broken
<1>2. /\ Cycle \subseteq Elements(walk) /\ Cycle # {}
      /\ current \in Bones /\ current \in Elements(walk)
      /\ Elements(walk) \subseteq Bones
  BY <1>1, CycleOnWalk DEF OrderInv, WalkIsAPath
<1>3. cut \in Cycle
  BY <1>2, LowestBone
<1> HIDE DEF cut
<1>4. parents' \in [Bones -> Bones \cup {Root}]
  BY <1>1, <1>2, <1>3 DEF OrderInv, TypeOK
<1>5. \A b \in Settled : parents'[b] = parents[b]
  BY <1>1, <1>2, <1>3 DEF OrderInv, WalkIsAPath, TypeOK, Settled
<1>6. ASSUME NEW b \in Elements(walk)
      PROVE  parents'[b] \in Elements(walk) \cup Settled \cup {Root}
  <2>1. CASE b = cut
    BY <2>1, <1>1, <1>2 DEF OrderInv, TypeOK
  <2>2. CASE b # cut
    <3>1. parents'[b] = parents[b] /\ Len(walk) \in Nat
      BY <2>2, <1>1, <1>2 DEF OrderInv, TypeOK
    <3>2. PICK i \in 1..Len(walk) : b = walk[i]
      BY DEF Elements
    <3>3. CASE i < Len(walk)
      BY <3>1, <3>2, <3>3, WalkSteps DEF Elements
    <3>4. CASE i = Len(walk)
      BY <3>1, <3>2, <3>4, <1>2, WalkSteps
    <3> QED BY <3>1, <3>3, <3>4
  <2> QED BY <2>1, <2>2
<1>7. ASSUME NEW T \in SUBSET Elements(walk), T # {}
      PROVE  \E b \in T : parents'[b] \notin T
  BY <1>1, <1>3, <1>7, CutGroundsTheWalk
<1>8. start \in Settled \cup Elements(walk)
  BY <1>1, StartIsCovered
<1> QED BY <1>1, <1>4, <1>5, <1>6, <1>7, <1>8, SettledGrows

LEMMA QueueRootsOrder == OrderInv /\ QueueRoots => OrderInv'
<1> SUFFICES ASSUME OrderInv, QueueRoots PROVE OrderInv'
  OBVIOUS
<1>1. /\ pc = "walk" /\ start = N /\ pc' = "emit"
      /\ ready' = {b \in Bones : parents[b] = Root}
      /\ UNCHANGED <<source, parents, state, start, current, walk, order>>
  BY DEF QueueRoots
<1>2. TypeOK'
  BY <1>1 DEF OrderInv, TypeOK
<1>3. WalkIsAPath' /\ SettledAreGrounded'
  BY <1>1 DEF OrderInv, WalkIsAPath, SettledAreGrounded, Settled, Grounded
<1>4. walk' = <<>>
  <2>1. current \in Bones \cup {Root, N} /\ start \notin Bones /\ walk \in Seq(Bones)
    BY <1>1, NAssumption DEF OrderInv, TypeOK, Bones
  <2>2. walk # <<>> => walk[1] \in Bones
    BY <2>1
  <2> QED BY <1>1, <2>1, <2>2 DEF OrderInv, WalkIsAPath
<1>5. order' = <<>>
  BY <1>1 DEF OrderInv
<1>6. QueueIsFrontier'
  BY <1>1, <1>5, EmptyHasNoElements, NAssumption DEF QueueIsFrontier
<1>7. EmittedInOrder'
  BY <1>5 DEF EmittedInOrder
<1> QED BY <1>1, <1>2, <1>3, <1>4, <1>5, <1>6, <1>7 DEF OrderInv

LEMMA EmitOrder == OrderInv /\ Emit => OrderInv'
<1> SUFFICES ASSUME OrderInv, Emit PROVE OrderInv'
  OBVIOUS
<1> DEFINE b == Lowest(ready)
<1>1. /\ pc = "emit" /\ ready # {}
      /\ order' = Append(order, b) /\ ready' = (ready \ {b}) \cup Released(b)
      /\ UNCHANGED <<source, parents, pc, state, start, current, walk>>
  BY DEF Emit, Choice
<1>2. b \in ready /\ b \in Bones
  BY <1>1, LowestBone DEF OrderInv, TypeOK
<1> HIDE DEF b
<1>3. b \notin Elements(order) /\ parents[b] \in Elements(order) \cup {Root}
  BY <1>1, <1>2 DEF OrderInv, QueueIsFrontier
<1>4. Elements(order') = Elements(order) \cup {b}
  BY <1>1, <1>2, ElementsOfAppend DEF OrderInv, TypeOK
<1>5. TypeOK'
  BY <1>1, <1>2 DEF OrderInv, TypeOK, Released
<1>6. WalkIsAPath' /\ SettledAreGrounded'
  BY <1>1 DEF OrderInv, WalkIsAPath, SettledAreGrounded, Settled, Grounded
<1>7. Root \notin Bones /\ Len(order) \in Nat
  BY NAssumption DEF Bones, Root, OrderInv, TypeOK
<1>8. ASSUME NEW c \in Elements(order) PROVE parents[c] # b
  <2>1. PICK i \in 1..Len(order) : c = order[i]
    BY DEF Elements
  <2>2. CASE parents[c] = Root
    BY <2>2, <1>2, <1>7
  <2>3. CASE \E k \in 1..(i - 1) : order[k] = parents[c]
    BY <2>3, <1>3, <1>7 DEF Elements
  <2> QED BY <2>1, <2>2, <2>3, <1>1 DEF OrderInv, EmittedInOrder
<1>9. QueueIsFrontier'
  <2>1. ready = {c \in Bones \ Elements(order) : parents[c] \in Elements(order) \cup {Root}}
    BY <1>1 DEF OrderInv, QueueIsFrontier
  <2>2. parents[b] # b
    BY <1>2, <1>3, <1>7
  <2> QED BY <1>1, <1>2, <1>3, <1>4, <1>7, <1>8, <2>1, <2>2 DEF QueueIsFrontier, Released
<1>10. EmittedInOrder'
  <2>1. /\ Len(order') = Len(order) + 1 /\ order'[Len(order) + 1] = b
        /\ \A i \in 1..Len(order) : order'[i] = order[i] /\ order[i] \in Elements(order)
    BY <1>1, <1>2 DEF OrderInv, TypeOK, Elements
  <2>2. \A i, k \in 1..Len(order') : order'[i] = order'[k] => i = k
    <3>1. \A i, k \in 1..Len(order) : order[i] = order[k] => i = k
      BY <1>1 DEF OrderInv, EmittedInOrder
    <3>2. \A i \in 1..Len(order) : order'[i] # b
      BY <2>1, <1>3
    <3> QED BY <2>1, <3>1, <3>2, <1>7
  <2>3. ASSUME NEW i \in 1..Len(order')
        PROVE  \/ parents'[order'[i]] = Root
               \/ \E k \in 1..(i - 1) : order'[k] = parents'[order'[i]]
    <3>1. CASE i = Len(order) + 1
      <4>1. parents[b] = Root \/ \E k \in 1..Len(order) : order[k] = parents[b]
        BY <1>3 DEF Elements
      <4> QED BY <4>1, <3>1, <2>1, <1>1, <1>7
    <3>2. CASE i \in 1..Len(order)
      <4>1. \/ parents[order[i]] = Root
            \/ \E k \in 1..(i - 1) : order[k] = parents[order[i]]
        BY <3>2, <1>1 DEF OrderInv, EmittedInOrder
      <4> QED BY <4>1, <3>2, <2>1, <1>1, <1>7
    <3> QED BY <3>1, <3>2, <2>1, <1>7
  <2> QED BY <2>2, <2>3 DEF EmittedInOrder
<1> QED BY <1>1, <1>5, <1>6, <1>9, <1>10 DEF OrderInv

LEMMA FinishOrder == OrderInv /\ Finish => OrderInv'
<1> SUFFICES ASSUME OrderInv, Finish PROVE OrderInv'
  OBVIOUS
<1>1. /\ pc = "emit" /\ ready = {} /\ pc' = "done"
      /\ UNCHANGED <<source, parents, state, start, current, walk, ready, order>>
  BY DEF Finish
<1> QED BY <1>1 DEF OrderInv, TypeOK, WalkIsAPath, SettledAreGrounded, Settled, Grounded,
                    QueueIsFrontier, EmittedInOrder

LEMMA StutterOrder == OrderInv /\ UNCHANGED vars => OrderInv'
BY DEF vars, OrderInv, TypeOK, WalkIsAPath, SettledAreGrounded, Settled, Grounded,
       QueueIsFrontier, EmittedInOrder

THEOREM OrderIsInductive == Spec => []OrderInv
<1>1. OrderInv /\ [Next]_vars => OrderInv'
  BY AdvanceOrder, ArriveOrder, BreakCycleOrder, QueueRootsOrder, EmitOrder, FinishOrder,
     StutterOrder DEF Next
<1> QED BY InitOrder, <1>1, PTL DEF Spec

-----------------------------------------------------------------------------
(* Theorems *)

\* Type correctness of OrderJoints.
THEOREM OrderTypeCorrect == Spec => []TypeOK
<1>1. OrderInv => TypeOK
  BY DEF OrderInv
<1> QED BY <1>1, OrderIsInductive, PTL

\* An empty queue means that every bone was emitted: those left over would be
\* closed under parents, which a table without cycles does not allow.
LEMMA NothingLeft ==
  ASSUME OrderInv, pc = "done"
  PROVE  Elements(order) = Bones
<1>1. Settled = Bones
  BY NAssumption DEF OrderInv, SettledAreGrounded, Settled, Bones
<1> DEFINE left == Bones \ Elements(order)
<1>2. SUFFICES ASSUME left # {} PROVE FALSE
  BY SMTT(40) DEF OrderInv, TypeOK, Elements
<1>3. PICK b \in left : parents[b] \notin left
  BY <1>1, <1>2 DEF OrderInv, SettledAreGrounded, Grounded
<1>4. parents[b] \in Elements(order) \cup {Root}
  BY <1>3 DEF OrderInv, TypeOK
<1>5. b \in ready
  BY <1>3, <1>4 DEF OrderInv, QueueIsFrontier
<1> QED BY <1>5 DEF OrderInv

\* For every number of bones and every parent table a file can hold, the
\* canonical joint order is a permutation of the bones with parents first.
THEOREM ParentsComeFirst == Spec => []ParentsFirst
<1>1. OrderInv => ParentsFirst
  BY NothingLeft DEF ParentsFirst, OrderInv, EmittedInOrder
<1> QED BY <1>1, OrderIsInductive, PTL

-----------------------------------------------------------------------------
(* The repairs *)

\* A bone is cut when it is the lowest of a cycle of the source.
IsCut(b) == b \in Above(Rooted, b) /\ \A c \in Above(Rooted, b) : b <= c
Repaired(b) == IF IsCut(b) THEN Root ELSE Rooted[b]

Codes == {"SkelInvalidParent", "SkelParentCycle"}

\* The walk passes each bone once; what is settled is repaired, what is not is
\* as it was; settled bones lead to settled ones in the source as well.
RepairInv ==
  /\ \A i, k \in 1..Len(walk) : walk[i] = walk[k] => i = k
  /\ \A b \in Settled : parents[b] = Repaired(b)
  /\ \A b \in Bones \ Settled : parents[b] = Rooted[b]
  /\ \A b \in Settled : Rooted[b] \in Settled \cup {Root}
  /\ \A b \in Bones : parents[b] # source[b] <=> \E code \in Codes : <<code, b>> \in diagnostics

\* Above is the least set that holds the parent of a bone and of its own.
LEMMA AboveIsLeast ==
  ASSUME NEW t, NEW b, NEW F \in SUBSET Bones, \A c \in F \cup {b} : t[c] \in F \cup {Root}
  PROVE  Above(t, b) \subseteq F
BY DEF Above

LEMMA AboveIsClosed ==
  ASSUME NEW t, NEW b, NEW c \in Above(t, b) \cup {b}, t[c] \in Bones \cup {Root}
  PROVE  t[c] \in Above(t, b) \cup {Root}
<1> SUFFICES ASSUME t[c] \in Bones, NEW F \in SUBSET Bones, \A x \in F \cup {b} : t[x] \in F \cup {Root}
             PROVE  t[c] \in F
  BY DEF Above
<1>1. c \in F \cup {b}
  BY DEF Above
<1>2. Root \notin Bones
  BY NAssumption DEF Bones, Root
<1> QED BY <1>1, <1>2

LEMMA RootedType == Rooted \in [Bones -> Bones \cup {Root}] /\ Root \notin Bones
BY NAssumption DEF Rooted, Parent, Bones, Root

\* On the walk the source leads as the table does.
LEMMA WalkIsRooted ==
  ASSUME OrderInv, RepairInv, NEW i \in 1..Len(walk)
  PROVE  /\ Len(walk) \in Nat /\ walk[i] \in Bones \ Settled
         /\ i < Len(walk) => i + 1 \in 1..Len(walk) /\ Rooted[walk[i]] = walk[i + 1]
         /\ i = Len(walk) => Rooted[walk[i]] = current
<1>1. Len(walk) \in Nat /\ walk[i] \in Elements(walk)
  BY DEF OrderInv, TypeOK, Elements
<1>2. walk[i] \in Bones \ Settled
  BY <1>1 DEF OrderInv, WalkIsAPath, Settled
<1>3. Rooted[walk[i]] = parents[walk[i]]
  BY <1>2 DEF RepairInv
<1> QED BY <1>1, <1>2, <1>3, WalkSteps

\* A walk that goes on to bones behind it only, or to settled ones, is on no
\* cycle of the source there.
LEMMA NoCycleHere ==
  ASSUME OrderInv, RepairInv, NEW i \in 1..Len(walk),
         current \in Settled \cup {Root} \cup {walk[k] : k \in (i + 1)..Len(walk)}
  PROVE  /\ walk[i] \notin Above(Rooted, walk[i])
         /\ Rooted[walk[i]] \in Elements(walk) \cup Settled \cup {Root}
<1> DEFINE F == {walk[k] : k \in (i + 1)..Len(walk)} \cup Settled
<1>1. Len(walk) \in Nat /\ \A k \in 1..Len(walk) : walk[k] \in Bones \ Settled
  BY WalkIsRooted
<1>2. F \in SUBSET Bones
  BY <1>1 DEF Settled
<1>3. ASSUME NEW k \in i..Len(walk) PROVE Rooted[walk[k]] \in F \cup {Root}
  <2>1. k \in 1..Len(walk)
    BY <1>1
  <2>2. CASE k < Len(walk)
    <3>1. Rooted[walk[k]] = walk[k + 1] /\ k + 1 \in (i + 1)..Len(walk)
      BY <2>1, <2>2, <1>1, WalkIsRooted
    <3> QED BY <3>1
  <2>3. CASE k = Len(walk)
    BY <2>1, <2>3, WalkIsRooted
  <2> QED BY <2>2, <2>3, <1>1
<1>4. ASSUME NEW c \in F \cup {walk[i]} PROVE Rooted[c] \in F \cup {Root}
  <2>1. CASE c \in Settled
    BY <2>1 DEF RepairInv
  <2>2. CASE c \notin Settled
    <3>1. PICK k \in i..Len(walk) : c = walk[k]
      <4>1. i \in i..Len(walk) /\ (i + 1)..Len(walk) \subseteq i..Len(walk)
        BY <1>1
      <4> QED BY <4>1, <2>2
    <3> QED BY <3>1, <1>3
  <2> QED BY <2>1, <2>2
<1>5. Above(Rooted, walk[i]) \subseteq F
  <2> HIDE DEF F
  <2> QED BY <1>2, <1>4, AboveIsLeast
<1>6. walk[i] \notin F
  <2>1. \A k \in (i + 1)..Len(walk) : walk[k] # walk[i]
    BY <1>1 DEF RepairInv
  <2> QED BY <2>1, <1>1
<1>7. F \subseteq Elements(walk) \cup Settled
  BY <1>1 DEF Elements
<1>8. i \in i..Len(walk)
  BY <1>1
<1> HIDE DEF F
<1> QED BY <1>3, <1>5, <1>6, <1>7, <1>8

\* A set that holds the parents of its bones holds a walk from where it meets it.
LEMMA WalkStaysIn ==
  ASSUME OrderInv, RepairInv, NEW F, NEW b, \A c \in F \cup {b} : Rooted[c] \in F \cup {Root},
         NEW j \in 1..Len(walk), walk[j] \in F \cup {b}
  PROVE  /\ \A k \in (j + 1)..Len(walk) : walk[k] \in F
         /\ current \in F \cup {Root}
<1> DEFINE P == {n \in 0..(Len(walk) - j) : n = 0 \/ walk[j + n] \in F}
<1>1. Len(walk) \in Nat /\ Len(walk) - j \in Nat /\ 0 \in P
      /\ \A k \in 1..Len(walk) : walk[k] \in Bones
  BY WalkIsRooted
<1>2. ASSUME NEW n \in 0..((Len(walk) - j) - 1), n \in P PROVE n + 1 \in P
  <2>1. j + n \in 1..Len(walk) /\ j + n < Len(walk) /\ (j + n) + 1 = j + (n + 1)
        /\ n + 1 \in 0..(Len(walk) - j)
    BY <1>1
  <2>2. walk[j + n] \in F \cup {b}
    BY <1>2, <2>1
  <2>3. walk[j + (n + 1)] \in F \cup {Root} /\ walk[j + (n + 1)] \in Bones
    BY <1>1, <2>1, <2>2, WalkIsRooted
  <2>4. walk[j + (n + 1)] \in F
    BY <2>3, RootedType
  <2> QED BY <2>1, <2>4
<1>3. 0..(Len(walk) - j) \subseteq P
  <2> HIDE DEF P
  <2> QED BY <1>1, <1>2, UpTo
<1>4. ASSUME NEW k \in (j + 1)..Len(walk) PROVE walk[k] \in F
  <2>1. k - j \in 0..(Len(walk) - j) /\ k - j # 0 /\ j + (k - j) = k
    BY <1>1
  <2> QED BY <2>1, <1>3
<1>5. walk[Len(walk)] \in F \cup {b} /\ Len(walk) \in 1..Len(walk)
  <2>1. Len(walk) = j \/ Len(walk) \in (j + 1)..Len(walk)
    BY <1>1
  <2> QED BY <2>1, <1>1, <1>4
<1>6. Rooted[walk[Len(walk)]] = current
  BY <1>5, WalkIsRooted
<1> QED BY <1>4, <1>5, <1>6

\* The cycle a walk closed is what is above each of its bones in the source.
LEMMA CycleIsAbove ==
  ASSUME OrderInv, RepairInv, NEW e \in 1..Len(walk), walk[e] = current,
         NEW i \in e..Len(walk)
  PROVE  /\ Cycle = {walk[k] : k \in e..Len(walk)}
         /\ Above(Rooted, walk[i]) = Cycle /\ Rooted[walk[i]] \in Cycle
<1>1. Len(walk) \in Nat /\ (\A k \in 1..Len(walk) : walk[k] \in Bones) /\ i \in 1..Len(walk)
      /\ e..Len(walk) \subseteq 1..Len(walk)
  BY WalkIsRooted
<1>2. Cycle = {walk[k] : k \in e..Len(walk)}
  <2>1. \A f \in 1..Len(walk) : walk[f] = current => f = e
    BY DEF RepairInv
  <2>2. ASSUME NEW k \in 1..Len(walk)
        PROVE  (\E f \in 1..k : walk[f] = current) <=> k \in e..Len(walk)
    <3>1. ASSUME NEW f \in 1..k, walk[f] = current PROVE k \in e..Len(walk)
      <4>1. f \in 1..Len(walk)
        BY <1>1
      <4> QED BY <4>1, <3>1, <2>1, <1>1
    <3>2. ASSUME k \in e..Len(walk) PROVE e \in 1..k
      BY <3>2, <1>1
    <3> QED BY <3>1, <3>2
  <2>3. {k \in 1..Len(walk) : \E f \in 1..k : walk[f] = current} = e..Len(walk)
    BY <2>2, <1>1
  <2> QED BY <2>3 DEF Cycle
<1>3. ASSUME NEW k \in e..Len(walk) PROVE Rooted[walk[k]] \in Cycle
  <2>1. CASE k < Len(walk)
    <3>1. k \in 1..Len(walk) /\ k + 1 \in e..Len(walk)
      BY <2>1, <1>1
    <3> QED BY <3>1, <2>1, <1>2, WalkIsRooted
  <2>2. CASE k = Len(walk)
    <3>1. k \in 1..Len(walk) /\ e \in e..Len(walk)
      BY <1>1
    <3> QED BY <3>1, <2>2, <1>2, WalkIsRooted
  <2> QED BY <2>1, <2>2, <1>1
<1>4. Above(Rooted, walk[i]) \subseteq Cycle
  <2>1. Cycle \in SUBSET Bones /\ walk[i] \in Cycle
    BY <1>1, <1>2
  <2>2. \A c \in Cycle \cup {walk[i]} : Rooted[c] \in Cycle \cup {Root}
    BY <2>1, <1>2, <1>3
  <2> QED BY <2>1, <2>2, AboveIsLeast
<1> DEFINE A == Above(Rooted, walk[i])
<1>5. \A c \in A \cup {walk[i]} : Rooted[c] \in A \cup {Root}
  <2>1. \A c \in A \cup {walk[i]} : Rooted[c] \in Bones \cup {Root}
    BY <1>1, RootedType DEF Above
  <2> QED BY <2>1, AboveIsClosed
<1> HIDE DEF A
<1>6. current \in A
  <2>1. current \in A \cup {Root}
    BY <1>1, <1>5, WalkStaysIn
  <2>2. current \in Bones
    BY <1>1
  <2> QED BY <2>1, <2>2, RootedType
<1>7. \A k \in (e + 1)..Len(walk) : walk[k] \in A
  BY <1>5, <1>6, WalkStaysIn
<1>8. Cycle \subseteq A
  <2>1. \A k \in e..Len(walk) : k = e \/ k \in (e + 1)..Len(walk)
    BY <1>1
  <2> QED BY <2>1, <1>2, <1>6, <1>7
<1> QED BY <1>2, <1>3, <1>4, <1>8 DEF A

LEMMA RepairedStands ==
  ASSUME UNCHANGED source
  PROVE  Rooted' = Rooted /\ \A b : Repaired(b)' = Repaired(b)
BY DEF Rooted, Parent, Repaired, IsCut, Above

LEMMA InitRepairs == Init => RepairInv
<1> SUFFICES ASSUME Init PROVE RepairInv
  OBVIOUS
<1>1. walk = <<>> /\ Settled = {} /\ parents = Rooted
  BY DEF Init, Settled, Rooted
<1>2. ASSUME NEW b \in Bones
      PROVE  parents[b] # source[b] <=> \E code \in Codes : <<code, b>> \in diagnostics
  BY DEF Init, Codes
<1>3. \A i, k \in 1..Len(walk) : walk[i] = walk[k] => i = k
  BY <1>1
<1> QED BY <1>1, <1>2, <1>3 DEF RepairInv

LEMMA AdvanceRepairs == OrderInv /\ RepairInv /\ Advance => RepairInv'
<1> SUFFICES ASSUME OrderInv, RepairInv, Advance PROVE RepairInv'
  OBVIOUS
<1>1. /\ current \in Bones /\ state[current] = "unvisited"
      /\ state' = [state EXCEPT ![current] = "onWalk"]
      /\ walk' = Append(walk, current)
      /\ UNCHANGED <<source, parents, diagnostics>>
  BY DEF Advance, Before
<1>2. Settled' = Settled /\ current \notin Elements(walk)
  BY <1>1 DEF Settled, OrderInv, TypeOK, WalkIsAPath
<1>3. /\ Len(walk') = Len(walk) + 1 /\ Len(walk) \in Nat
      /\ walk'[Len(walk) + 1] = current
      /\ \A i \in 1..Len(walk) : walk'[i] = walk[i] /\ walk[i] # current
  BY <1>1, <1>2 DEF OrderInv, TypeOK, Elements
<1>4. ASSUME NEW i \in 1..Len(walk'), NEW k \in 1..Len(walk'), walk'[i] = walk'[k] PROVE i = k
  <2>1. \A m \in 1..Len(walk') : m \in 1..Len(walk) \/ m = Len(walk) + 1
    BY <1>3
  <2>2. \A m, n \in 1..Len(walk) : walk[m] = walk[n] => m = n
    BY DEF RepairInv
  <2> QED BY <1>3, <1>4, <2>1, <2>2
<1>5. Rooted' = Rooted /\ \A b : Repaired(b)' = Repaired(b)
  BY <1>1, RepairedStands
<1> QED BY <1>1, <1>2, <1>4, <1>5 DEF RepairInv

\* A walk is settled once its bones are repaired.
LEMMA SettledRepaired ==
  ASSUME OrderInv, RepairInv, Settle,
         \A b \in Bones \ Elements(walk) : parents'[b] = parents[b],
         \A b \in Elements(walk) : parents'[b] = Repaired(b),
         \A b \in Elements(walk) : Rooted[b] \in Elements(walk) \cup Settled \cup {Root},
         \A b \in Bones :
           parents'[b] # source[b] <=> \E code \in Codes : <<code, b>> \in diagnostics'
  PROVE  RepairInv'
<1>1. /\ state' = [b \in Bones |-> IF b \in Elements(walk) THEN "settled" ELSE state[b]]
      /\ walk' = <<>> /\ source' = source
  BY DEF Settle
<1>2. Elements(walk) = {b \in Bones : state[b] = "onWalk"}
  BY DEF OrderInv, WalkIsAPath
<1>3. Settled' = Settled \cup Elements(walk) /\ Settled \cap Elements(walk) = {}
  BY <1>1, <1>2 DEF Settled
<1>4. Rooted' = Rooted /\ \A b : Repaired(b)' = Repaired(b)
  BY <1>1, RepairedStands
<1>5. \A b \in Settled' : parents'[b] = Repaired(b)'
  BY <1>3, <1>4 DEF RepairInv, Settled
<1>6. \A b \in Bones \ Settled' : parents'[b] = Rooted'[b]
  BY <1>3, <1>4 DEF RepairInv
<1>7. \A b \in Settled' : Rooted'[b] \in Settled' \cup {Root}
  BY <1>3, <1>4 DEF RepairInv
<1>8. \A i, k \in 1..Len(walk') : walk'[i] = walk'[k] => i = k
  BY <1>1
<1> QED BY <1>1, <1>5, <1>6, <1>7, <1>8 DEF RepairInv

LEMMA ArriveRepairs == OrderInv /\ RepairInv /\ Arrive => RepairInv'
<1> SUFFICES ASSUME OrderInv, RepairInv, Arrive PROVE RepairInv'
  OBVIOUS
<1>1. Before \in {"root", "settled"} /\ Settle /\ UNCHANGED <<source, parents, diagnostics>>
  BY DEF Arrive, Settle
<1>2. ASSUME NEW b \in Elements(walk)
      PROVE  /\ parents[b] = Repaired(b)
             /\ Rooted[b] \in Elements(walk) \cup Settled \cup {Root}
  <2>1. PICK i \in 1..Len(walk) : b = walk[i]
    BY DEF Elements
  <2>2. current \in Settled \cup {Root}
    <3>1. Rooted[walk[Len(walk)]] = current /\ walk[Len(walk)] \in Bones
      <4>1. Len(walk) \in 1..Len(walk)
        BY <2>1, WalkIsRooted
      <4> QED BY <4>1, WalkIsRooted
    <3>2. current \in Bones \cup {Root}
      BY <3>1, RootedType
    <3> QED BY <3>2, <1>1 DEF Before, Settled, OrderInv, TypeOK
  <2>3. b \notin Above(Rooted, b) /\ Rooted[b] \in Elements(walk) \cup Settled \cup {Root}
    BY <2>1, <2>2, NoCycleHere
  <2>4. parents[b] = Rooted[b]
    BY <2>1, WalkIsRooted DEF RepairInv
  <2> QED BY <2>3, <2>4 DEF Repaired, IsCut
<1>3. \A b \in Bones :
        parents'[b] # source[b] <=> \E code \in Codes : <<code, b>> \in diagnostics'
  BY <1>1 DEF RepairInv
<1> QED BY <1>1, <1>2, <1>3, SettledRepaired

LEMMA BreakCycleRepairs == OrderInv /\ RepairInv /\ BreakCycle => RepairInv'
<1> SUFFICES ASSUME OrderInv, RepairInv, BreakCycle PROVE RepairInv'
  OBVIOUS
<1> DEFINE cut == Lowest(Cycle)
<1>1. /\ Before = "onWalk" /\ Settle /\ UNCHANGED source
      /\ parents' = [parents EXCEPT ![cut] = Root]
      /\ diagnostics' = diagnostics \cup {<<"SkelParentCycle", cut>>}
  BY DEF BreakCycle, Broken, Settle
<1>2. /\ Cycle \subseteq Elements(walk) /\ Cycle # {} /\ current \in Elements(walk)
      /\ Elements(walk) \subseteq Bones /\ Elements(walk) \cap Settled = {}
  BY <1>1, CycleOnWalk DEF OrderInv, WalkIsAPath, Settled
<1>3. cut \in Cycle /\ \A c \in Cycle : cut <= c
  <2>1. Cycle \in SUBSET Int /\ IsFiniteSet(Cycle)
    <3>1. Cycle \subseteq Bones
      BY <1>2
    <3>2. IsFiniteSet(Cycle)
      BY <3>1, BonesAreNaturals, FS_Subset
    <3> QED BY <3>1, <3>2, BonesAreNaturals
  <2> QED BY <2>1, <1>2, LowestIsLeast
<1>4. \A c \in Cycle : (\A d \in Cycle : c <= d) <=> c = cut
  <2>1. Cycle \subseteq Nat
    BY <1>2, BonesAreNaturals
  <2>2. \A c \in Cycle : c \in Nat
    BY <2>1
  <2> HIDE DEF cut
  <2> QED BY <2>2, <1>3
<1> HIDE DEF cut
<1>5. \A b \in Bones : parents'[b] = IF b = cut THEN Root ELSE parents[b]
  BY <1>1 DEF OrderInv, TypeOK
<1>6. PICK e \in 1..Len(walk) : walk[e] = current
  BY <1>2 DEF Elements
<1>7. ASSUME NEW i \in 1..Len(walk)
      PROVE  /\ parents'[walk[i]] = Repaired(walk[i])
             /\ Rooted[walk[i]] \in Elements(walk) \cup Settled \cup {Root}
  <2>1. walk[i] \in Bones /\ parents[walk[i]] = Rooted[walk[i]] /\ Len(walk) \in Nat
    BY WalkIsRooted DEF RepairInv
  <2>2. CASE i < e
    <3>1. e \in (i + 1)..Len(walk) /\ e \in e..Len(walk)
      BY <2>1, <2>2
    <3>2. /\ walk[i] \notin Above(Rooted, walk[i])
          /\ Rooted[walk[i]] \in Elements(walk) \cup Settled \cup {Root}
      BY <3>1, <1>6, NoCycleHere
    <3>3. walk[i] # cut
      <4>1. Cycle = {walk[k] : k \in e..Len(walk)}
        BY <1>6, <3>1, CycleIsAbove
      <4>2. PICK k \in e..Len(walk) : cut = walk[k]
        BY <4>1, <1>3
      <4>3. k \in 1..Len(walk) /\ i # k
        BY <2>1, <2>2
      <4> QED BY <4>2, <4>3 DEF RepairInv
    <3> QED BY <3>2, <3>3, <1>5, <2>1 DEF Repaired, IsCut
  <2>3. CASE i >= e
    <3>1. i \in e..Len(walk)
      BY <2>1, <2>3
    <3>2. /\ Cycle = {walk[k] : k \in e..Len(walk)}
          /\ Above(Rooted, walk[i]) = Cycle /\ Rooted[walk[i]] \in Cycle
      BY <3>1, <1>6, CycleIsAbove
    <3>3. walk[i] \in Cycle
      BY <3>1, <3>2
    <3>4. IsCut(walk[i]) <=> walk[i] = cut
      BY <3>2, <3>3, <1>4 DEF IsCut
    <3> QED BY <3>2, <3>4, <1>2, <1>5, <2>1 DEF Repaired
  <2> QED BY <2>1, <2>2, <2>3
<1>8. \A b \in Elements(walk) : /\ parents'[b] = Repaired(b)
                               /\ Rooted[b] \in Elements(walk) \cup Settled \cup {Root}
  BY <1>7 DEF Elements
<1>9. \A b \in Bones \ Elements(walk) : parents'[b] = parents[b]
  BY <1>2, <1>3, <1>5
<1>10. ASSUME NEW b \in Bones
       PROVE  parents'[b] # source[b] <=> \E code \in Codes : <<code, b>> \in diagnostics'
  <2>1. CASE b # cut
    BY <2>1, <1>1, <1>5 DEF RepairInv
  <2>2. CASE b = cut
    <3>1. Rooted[cut] \in Bones
      <4>1. PICK i \in e..Len(walk) : cut = walk[i]
        <5>1. e \in e..Len(walk)
          BY <1>6, WalkIsRooted
        <5> QED BY <5>1, <1>3, <1>6, CycleIsAbove
      <4> QED BY <4>1, <1>2, <1>6, CycleIsAbove
    <3>2. source[cut] # Root
      BY <3>1, <2>2, RootedType DEF Rooted, Parent
    <3>3. parents'[b] # source[b]
      BY <3>2, <2>2, <1>5
    <3>4. <<"SkelParentCycle", b>> \in diagnostics' /\ "SkelParentCycle" \in Codes
      BY <2>2, <1>1 DEF Codes
    <3> QED BY <3>3, <3>4
  <2> QED BY <2>1, <2>2
<1> QED BY <1>1, <1>8, <1>9, <1>10, SettledRepaired

LEMMA OrderingRepairs ==
  OrderInv /\ RepairInv /\ (QueueRoots \/ Emit \/ Finish \/ UNCHANGED vars) => RepairInv'
<1> SUFFICES ASSUME RepairInv, QueueRoots \/ Emit \/ Finish \/ UNCHANGED vars PROVE RepairInv'
  OBVIOUS
<1>1. UNCHANGED <<source, parents, state, walk>>
  BY DEF QueueRoots, Emit, Finish, vars
<1>2. diagnostics' = diagnostics \/ diagnostics' = diagnostics \cup {<<"SkelJointsReordered", Root>>}
  BY DEF QueueRoots, Emit, Finish, vars
<1>3. ASSUME NEW b, NEW code \in Codes
      PROVE  <<code, b>> \in diagnostics' <=> <<code, b>> \in diagnostics
  BY <1>2 DEF Codes
<1>4. Rooted' = Rooted /\ (\A b : Repaired(b)' = Repaired(b)) /\ Settled' = Settled
  BY <1>1, RepairedStands DEF Settled
<1> QED BY <1>1, <1>3, <1>4 DEF RepairInv

THEOREM RepairsAreInductive == Spec => []RepairInv
<1>1. OrderInv /\ RepairInv /\ [Next]_vars => RepairInv'
  BY AdvanceRepairs, ArriveRepairs, BreakCycleRepairs, OrderingRepairs DEF Next
<1> QED BY InitRepairs, <1>1, OrderIsInductive, PTL DEF Spec

\* For every table, a bone loses its parent when it names no other bone or is
\* the lowest of a cycle, only then, and only then is it reported.
THEOREM OnlyBadParentsAreCut == Spec => []RepairsAreMinimal
<1>1. ASSUME OrderInv, RepairInv PROVE RepairsAreMinimal
  <2>1. pc = "done" => Settled = Bones
    BY <1>1, NAssumption DEF OrderInv, SettledAreGrounded, Settled, Bones
  <2> QED BY <1>1, <2>1 DEF RepairInv, RepairsAreMinimal, Repaired, IsCut, Codes
<1> QED BY <1>1, OrderIsInductive, RepairsAreInductive, PTL

-----------------------------------------------------------------------------
(* The order is stable *)

InOrder == \A b \in Bones : source[b] < b /\ Root <= source[b]

\* A bone that went before b is no higher than b or than a bone above b; of a
\* table in order the bones go one after the other.
StableInv ==
  pc # "walk" =>
    /\ \A i \in 1..Len(order) : \A b \in Bones :
         (\A k \in 1..i : order[k] # b) =>
           order[i] <= b \/ \E c \in Above(parents, b) : order[i] <= c
    /\ InOrder => \A i \in 1..Len(order) : order[i] = i - 1

LEMMA AllAreSettled == ASSUME OrderInv, pc # "walk" PROVE Settled = Bones
BY NAssumption DEF OrderInv, SettledAreGrounded, Settled, Bones

\* Of the bones that keep b waiting, and of b, one can be emitted.
LEMMA SomeIsReady ==
  ASSUME OrderInv, pc # "walk", NEW b \in Bones \ Elements(order)
  PROVE  \E t \in ready : t = b \/ t \in Above(parents, b)
<1> DEFINE T == ({b} \cup Above(parents, b)) \ Elements(order)
<1>1. T \in SUBSET Bones /\ T # {} /\ parents \in [Bones -> Bones \cup {Root}]
  BY DEF Above, OrderInv, TypeOK
<1>2. Grounded(Bones)
  BY AllAreSettled DEF OrderInv, SettledAreGrounded
<1>3. PICK t \in T : parents[t] \notin T
  <2> HIDE DEF T
  <2> QED BY <1>1, <1>2 DEF Grounded
<1>4. parents[t] \in Bones \cup {Root} /\ t \in Bones
  BY <1>1
<1>5. parents[t] \in Above(parents, b) \cup {Root}
  BY <1>4, AboveIsClosed
<1>6. parents[t] \in Elements(order) \cup {Root}
  BY <1>3, <1>5
<1>7. t \in ready
  BY <1>3, <1>4, <1>6 DEF OrderInv, QueueIsFrontier
<1> QED BY <1>7

\* A table in order has no cycle, so it is its own repair.
LEMMA InOrderStays ==
  ASSUME OrderInv, RepairInv, pc # "walk", InOrder
  PROVE  parents = source
<1>1. ASSUME NEW b \in Bones PROVE Rooted[b] = source[b] /\ Rooted[b] < b
  <2>1. source[b] \in Int /\ b \in Nat
    BY TablesAssumption, BonesAreNaturals DEF OrderInv, TypeOK
  <2>2. source[b] < b /\ -1 <= source[b]
    BY DEF InOrder, Root
  <2>3. source[b] # Root => source[b] \in Bones \ {b}
    BY <2>1, <2>2, NAssumption DEF Bones, Root
  <2> QED BY <2>2, <2>3 DEF Rooted, Parent
<1>2. ASSUME NEW b \in Bones PROVE ~IsCut(b)
  <2> DEFINE F == {c \in Bones : c < b}
  <2>1. ASSUME NEW c \in F \cup {b} PROVE Rooted[c] \in F \cup {Root}
    <3>1. c \in Bones /\ b \in Nat /\ c \in Nat /\ c <= b
      BY BonesAreNaturals
    <3>2. Rooted[c] \in Bones \cup {Root} /\ Rooted[c] < c
      BY <3>1, <1>1, RootedType
    <3>3. CASE Rooted[c] \in Bones
      <4>1. Rooted[c] \in Nat
        BY <3>3, BonesAreNaturals
      <4>2. Rooted[c] < b
        BY <4>1, <3>1, <3>2
      <4> QED BY <4>2, <3>3
    <3> QED BY <3>2, <3>3
  <2>2. Above(Rooted, b) \subseteq F
    <3> HIDE DEF F
    <3>1. F \in SUBSET Bones
      BY DEF F
    <3> QED BY <3>1, <2>1, AboveIsLeast
  <2>3. b \notin F
    BY BonesAreNaturals
  <2> QED BY <2>2, <2>3 DEF IsCut
<1>3. \A b \in Bones : parents[b] = source[b]
  BY <1>1, <1>2, AllAreSettled DEF RepairInv, Repaired
<1>4. parents \in [Bones -> Bones \cup {Root}] /\ source \in [Bones -> Int]
  BY TablesAssumption DEF OrderInv, TypeOK
<1> QED BY <1>3, <1>4

LEMMA EmitIsStable ==
  ASSUME OrderInv, RepairInv, StableInv, Emit
  PROVE  StableInv'
<1> DEFINE x == Lowest(ready)
<1>1. /\ pc = "emit" /\ ready # {} /\ order' = Append(order, x)
      /\ UNCHANGED <<source, parents, pc>>
  BY DEF Emit, Choice
<1>2. x \in ready /\ x \in Bones /\ \A y \in ready : x <= y
  <2>1. ready \subseteq Bones
    BY DEF OrderInv, TypeOK
  <2>2. ready \in SUBSET Int /\ IsFiniteSet(ready)
    <3>1. IsFiniteSet(ready)
      BY <2>1, BonesAreNaturals, FS_Subset
    <3> QED BY <3>1, <2>1, BonesAreNaturals
  <2> QED BY <1>1, <2>1, <2>2, LowestIsLeast
<1> HIDE DEF x
<1>3. /\ Len(order') = Len(order) + 1 /\ Len(order) \in Nat /\ order'[Len(order) + 1] = x
      /\ \A i \in 1..Len(order) : order'[i] = order[i]
  BY <1>1, <1>2 DEF OrderInv, TypeOK
<1>4. ASSUME NEW i \in 1..Len(order'), NEW b \in Bones, \A k \in 1..i : order'[k] # b
      PROVE  order'[i] <= b \/ \E c \in Above(parents, b) : order'[i] <= c
  <2>1. CASE i = Len(order) + 1
    <3>1. b \notin Elements(order)
      <4>1. \A k \in 1..Len(order) : k \in 1..i
        BY <2>1, <1>3
      <4> QED BY <4>1, <1>3, <1>4 DEF Elements
    <3>2. PICK t \in ready : t = b \/ t \in Above(parents, b)
      BY <3>1, <1>1, SomeIsReady
    <3> QED BY <3>2, <2>1, <1>2, <1>3
  <2>2. CASE i \in 1..Len(order)
    <3>1. \A k \in 1..i : k \in 1..Len(order)
      BY <2>2, <1>3
    <3>2. \A k \in 1..i : order[k] # b
      BY <3>1, <1>3, <1>4
    <3> QED BY <3>2, <2>2, <1>1, <1>3 DEF StableInv
  <2> QED BY <2>1, <2>2, <1>3
<1>5. ASSUME InOrder PROVE x = Len(order)
  <2>1. \A i \in 1..Len(order) : order[i] = i - 1
    BY <1>1, <1>5 DEF StableInv
  <2>2. ASSUME NEW b \in Nat, b < Len(order) PROVE b \in Elements(order)
    <3>1. b + 1 \in 1..Len(order) /\ (b + 1) - 1 = b
      BY <2>2, <1>3
    <3> QED BY <3>1, <2>1 DEF Elements
  <2>3. x \in Nat /\ x \notin Elements(order) /\ x < N
    BY <1>1, <1>2, NAssumption DEF OrderInv, QueueIsFrontier, Bones
  <2>4. Len(order) <= x
    BY <2>2, <2>3, <1>3
  <2>5. Len(order) \in Bones
    BY <2>3, <2>4, <1>3, NAssumption DEF Bones
  <2>6. Len(order) \notin Elements(order)
    <3>1. \A i \in 1..Len(order) : i - 1 # Len(order)
      BY <1>3
    <3> QED BY <3>1, <2>1 DEF Elements
  <2>7. parents[Len(order)] \in Elements(order) \cup {Root}
    <3>1. parents = source
      BY <1>1, <1>5, InOrderStays
    <3>2. source[Len(order)] < Len(order) /\ -1 <= source[Len(order)] /\ source[Len(order)] \in Int
      BY <2>5, <1>5, TablesAssumption DEF InOrder, Root, OrderInv, TypeOK
    <3>3. source[Len(order)] = -1 \/ source[Len(order)] \in Nat
      BY <3>2
    <3> QED BY <3>1, <3>2, <3>3, <2>2 DEF Root
  <2>8. Len(order) \in ready
    BY <2>5, <2>6, <2>7, <1>1 DEF OrderInv, QueueIsFrontier
  <2> QED BY <2>3, <2>4, <2>8, <1>2, <1>3
<1>6. ASSUME InOrder, NEW i \in 1..Len(order') PROVE order'[i] = i - 1
  <2>1. CASE i = Len(order) + 1
    BY <2>1, <1>3, <1>5, <1>6
  <2>2. CASE i \in 1..Len(order)
    BY <2>2, <1>1, <1>3, <1>6 DEF StableInv
  <2> QED BY <2>1, <2>2, <1>3
<1>7. InOrder' <=> InOrder
  BY <1>1 DEF InOrder
<1>8. \A b : Above(parents, b)' = Above(parents, b)
  BY <1>1 DEF Above
<1> QED BY <1>1, <1>4, <1>6, <1>7, <1>8 DEF StableInv

LEMMA OtherStepsAreStable ==
  ASSUME OrderInv, StableInv,
         Advance \/ Arrive \/ BreakCycle \/ QueueRoots \/ Finish \/ UNCHANGED vars
  PROVE  StableInv'
<1>1. CASE Advance \/ Arrive \/ BreakCycle
  <2>1. pc' = "walk"
    BY <1>1 DEF Advance, Arrive, BreakCycle, Settle
  <2> QED BY <2>1 DEF StableInv
<1>2. CASE QueueRoots
  <2>1. order' = <<>>
    BY <1>2 DEF QueueRoots, OrderInv
  <2> QED BY <2>1 DEF StableInv
<1>3. CASE Finish \/ UNCHANGED vars
  <2>1. UNCHANGED <<source, parents, order>> /\ (pc' # "walk" => pc # "walk")
    BY <1>3 DEF Finish, vars
  <2> QED BY <2>1 DEF StableInv, InOrder, Above
<1> QED BY <1>1, <1>2, <1>3

THEOREM StabilityIsInductive == Spec => []StableInv
<1>1. Init => StableInv
  BY DEF Init, StableInv
<1>2. OrderInv /\ RepairInv /\ StableInv /\ [Next]_vars => StableInv'
  BY EmitIsStable, OtherStepsAreStable DEF Next
<1> QED BY <1>1, <1>2, OrderIsInductive, RepairsAreInductive, PTL DEF Spec

\* For every table, a bone goes before a lower one only while that one waits for
\* a bone no lower, and a table in order is left as it is.
THEOREM OrderIsStable == Spec => []StableOrder
<1>1. ASSUME OrderInv, StableInv PROVE StableOrder
  <2>1. SUFFICES ASSUME pc = "done" PROVE StableOrder
    BY DEF StableOrder
  <2>2. ASSUME NEW i \in 1..Len(order), NEW k \in 1..Len(order), i < k, order[k] < order[i]
        PROVE  \E c \in Above(parents, order[k]) : order[i] <= c
    <3>1. Len(order) \in Nat /\ order[k] \in Bones /\ order[i] \in Bones
      BY <1>1 DEF OrderInv, TypeOK
    <3>2. \A m \in 1..i : m \in 1..Len(order) /\ m # k
      BY <2>2, <3>1
    <3>3. \A m \in 1..i : order[m] # order[k]
      BY <3>2, <2>1, <1>1 DEF OrderInv, EmittedInOrder
    <3>4. order[k] \in Nat /\ order[i] \in Nat
      BY <3>1, BonesAreNaturals
    <3>5. ~(order[i] <= order[k])
      BY <2>2, <3>4
    <3> QED BY <3>1, <3>3, <3>5, <2>1, <1>1 DEF StableInv
  <2>3. InOrder => \A i \in 1..Len(order) : order[i] = i - 1
    BY <2>1, <1>1 DEF StableInv
  <2> QED BY <2>2, <2>3 DEF StableOrder, InOrder
<1> QED BY <1>1, OrderIsInductive, StabilityIsInductive, PTL

-----------------------------------------------------------------------------
(* The walk over the group morphs *)

SettledMorphs == {m \in Morphs : mark[m] = "settled"}

\* A member the walk is done with: it leads nowhere or to a settled morph.
Exhausted(member) == member \notin group.composite \/ member \in SettledMorphs

\* No set of morphs of S is left in which each has a member of the set.
Expandable(S) ==
  \A T \in SUBSET S : T # {} =>
    \E m \in T : \A k \in DOMAIN members[m] : members[m][k] \notin T

\* The frames hold exactly the morphs on the walk, each once, and each frame
\* but the top one stands just past the member it descended into.
FramesAreThePath ==
  /\ \A m \in Morphs : mark[m] = "onWalk" <=> \E i \in DOMAIN frames : frames[i].morph = m
  /\ \A i, k \in DOMAIN frames : frames[i].morph = frames[k].morph => i = k
  /\ \A i \in DOMAIN frames : frames[i].passed <= Len(members[frames[i].morph])
  /\ \A i \in DOMAIN frames : \A k \in 1..frames[i].passed :
       \/ Exhausted(members[frames[i].morph][k])
       \/ i < Len(frames) /\ k = frames[i].passed
          /\ members[frames[i].morph][k] = frames[i + 1].morph

SettledExpand ==
  /\ \A m \in SettledMorphs : \A k \in DOMAIN members[m] : Exhausted(members[m][k])
  /\ Expandable(SettledMorphs)
  /\ SettledMorphs \subseteq group.composite
  /\ \A m \in group.composite : m < first => m \in SettledMorphs

\* Up to the erasing, which only removes what the walk has dropped.
GroupInv ==
  at # "done" => /\ GroupTypeOK /\ None \notin Morphs
                 /\ FramesAreThePath /\ SettledExpand
                 /\ at = "erase" => first = M /\ frames = <<>>

-----------------------------------------------------------------------------
(* Lemmas about sequences *)

LEMMA AllButLast ==
  ASSUME NEW S, NEW s \in Seq(S), s # <<>>
  PROVE  /\ SubSeq(s, 1, Len(s) - 1) \in Seq(S)
         /\ Len(SubSeq(s, 1, Len(s) - 1)) = Len(s) - 1
         /\ \A i \in 1..(Len(s) - 1) : SubSeq(s, 1, Len(s) - 1)[i] = s[i]
<1>1. Len(s) \in Nat /\ Len(s) >= 1 /\ Len(s) - 1 \in Nat /\ 1..(Len(s) - 1) \subseteq 1..Len(s)
  OBVIOUS
<1>2. \A i \in 1..(Len(s) - 1) : s[i] \in S
  BY <1>1
<1> DEFINE l == Len(s) - 1
<1>3. l \in Int /\ l \in Nat /\ 1 \in Int /\ \A i \in 1..l : s[i] \in S
  BY <1>1, <1>2
<1> HIDE DEF l
<1>4. /\ SubSeq(s, 1, l) \in Seq(S)
      /\ Len(SubSeq(s, 1, l)) = IF 1 <= l THEN l - 1 + 1 ELSE 0
      /\ \A i \in 1..(l - 1 + 1) : SubSeq(s, 1, l)[i] = s[1 + i - 1]
  BY <1>3, SubSeqProperties
<1>5. Len(SubSeq(s, 1, l)) = l
  BY <1>3, <1>4
<1>6. \A i \in 1..l : SubSeq(s, 1, l)[i] = s[i]
  BY <1>3, <1>4
<1> QED BY <1>4, <1>5, <1>6 DEF l

LEMMA OneChanged ==
  ASSUME NEW S, NEW s \in Seq(S), NEW i \in 1..Len(s), NEW x \in S
  PROVE  /\ [s EXCEPT ![i] = x] \in Seq(S) /\ Len([s EXCEPT ![i] = x]) = Len(s)
         /\ [s EXCEPT ![i] = x][i] = x
         /\ \A k \in 1..Len(s) : k # i => [s EXCEPT ![i] = x][k] = s[k]
OBVIOUS

FrameSet == [morph : group.composite, passed : Nat]

LEMMA FrameShape ==
  ASSUME GroupTypeOK
  PROVE  /\ Len(frames) \in Nat /\ DOMAIN frames = 1..Len(frames)
         /\ frames # <<>> => Len(frames) >= 1
         /\ \A i \in 1..Len(frames) : /\ frames[i] \in FrameSet
                                     /\ frames[i].morph \in group.composite
                                     /\ frames[i].morph \in Morphs
                                     /\ frames[i].passed \in Nat
<1>1. frames \in Seq(FrameSet) /\ group.composite \subseteq Morphs
  BY DEF GroupTypeOK, FrameSet
<1>2. /\ Len(frames) \in Nat /\ DOMAIN frames = 1..Len(frames)
      /\ frames # <<>> => Len(frames) >= 1
      /\ \A i \in 1..Len(frames) : frames[i] \in FrameSet
  BY <1>1, SequenceShape
<1> QED BY <1>1, <1>2 DEF FrameSet

-----------------------------------------------------------------------------
(* The invariant is inductive *)

LEMMA InitGroup == InitGroups => GroupInv
<1> SUFFICES ASSUME InitGroups PROVE GroupInv
  OBVIOUS
<1>1. GroupTypeOK
  BY GroupsAssumption, MAssumption DEF InitGroups, GroupTypeOK, Settling
<1>2. FramesAreThePath
  BY DEF InitGroups, FramesAreThePath
<1>3. SettledExpand
  <2>1. SettledMorphs = {}
    BY DEF InitGroups, SettledMorphs
  <2>2. \A m \in group.composite : ~(m < first)
    BY GroupsAssumption, MAssumption DEF InitGroups, Morphs
  <2> QED BY <2>1, <2>2 DEF InitGroups, SettledExpand, Expandable
<1> QED BY <1>1, <1>2, <1>3, MAssumption DEF InitGroups, GroupInv

LEMMA EnterGroup == GroupInv /\ Enter => GroupInv'
<1> SUFFICES ASSUME GroupInv, Enter PROVE GroupInv'
  OBVIOUS
<1>1. /\ at = "walk" /\ frames = <<>> /\ first < M
      /\ mark[first] = "unvisited" /\ first \in group.composite /\ first \in Morphs
      /\ mark' = [mark EXCEPT ![first] = "onWalk"]
      /\ frames' = <<[morph |-> first, passed |-> 0]>>
      /\ UNCHANGED <<group, members, at, first, dropped>>
  BY DEF Enter, Frame, GroupInv, GroupTypeOK
<1>2. GroupTypeOK'
  BY <1>1 DEF GroupInv, GroupTypeOK, Settling
<1>3. SettledMorphs' = SettledMorphs
  BY <1>1 DEF SettledMorphs, GroupInv, GroupTypeOK
<1>4. FramesAreThePath'
  <2>1. DOMAIN frames' = {1} /\ frames'[1] = [morph |-> first, passed |-> 0]
    BY <1>1
  <2>2. DOMAIN frames = {}
    BY <1>1
  <2>3. \A m \in Morphs : mark'[m] = "onWalk" <=> m = first
    BY <1>1, <2>2 DEF GroupInv, GroupTypeOK, FramesAreThePath
  <2>4. Len(members'[first]) \in Nat
    BY <1>1 DEF GroupInv, GroupTypeOK
  <2> QED BY <2>1, <2>3, <2>4 DEF FramesAreThePath
<1>5. SettledExpand'
  BY <1>1, <1>3 DEF GroupInv, SettledExpand, Expandable, Exhausted
<1> QED BY <1>1, <1>2, <1>4, <1>5 DEF GroupInv

LEMMA SkipGroup == GroupInv /\ Skip => GroupInv'
<1> SUFFICES ASSUME GroupInv, Skip PROVE GroupInv'
  OBVIOUS
<1>1. /\ at = "walk" /\ frames = <<>> /\ first < M
      /\ ~(mark[first] = "unvisited" /\ first \in group.composite)
      /\ first' = first + 1
      /\ UNCHANGED <<group, members, at, mark, frames, dropped>>
  BY DEF Skip
<1>2. GroupTypeOK'
  BY <1>1, MAssumption DEF GroupInv, GroupTypeOK
<1>3. SettledMorphs' = SettledMorphs /\ FramesAreThePath'
  BY <1>1 DEF SettledMorphs, GroupInv, FramesAreThePath, Exhausted
<1>4. ASSUME NEW m \in group.composite, m < first' PROVE m \in SettledMorphs
  <2>0. m \in Morphs /\ m \in Int /\ first \in Int
    BY <1>1, MAssumption DEF GroupInv, GroupTypeOK, Morphs
  <2>1. m \in Morphs /\ (m < first \/ m = first)
    BY <1>1, <1>4, <2>0
  <2>2. CASE m = first
    <3>1. mark[m] # "onWalk" /\ mark[m] \in Settling
      BY <1>1, <2>1 DEF GroupInv, GroupTypeOK, FramesAreThePath
    <3> QED BY <1>1, <1>4, <2>1, <2>2, <3>1 DEF SettledMorphs, Settling
  <2> QED BY <1>1, <2>1, <2>2 DEF GroupInv, SettledExpand
<1>5. SettledExpand'
  BY <1>1, <1>3, <1>4 DEF GroupInv, SettledExpand, Expandable, Exhausted
<1> QED BY <1>1, <1>2, <1>3, <1>5 DEF GroupInv

\* The top frame and its morph.
LEMMA TopFrame ==
  ASSUME GroupInv, Walking
  PROVE  /\ Len(frames) \in Nat /\ Len(frames) >= 1 /\ Len(frames) \in DOMAIN frames
         /\ Top = frames[Len(frames)] /\ Top.morph \in Morphs /\ Top.morph \in group.composite
         /\ Top.passed \in Nat /\ mark[Top.morph] = "onWalk"
         /\ members[Top.morph] \in Seq(Morphs \cup {None})
         /\ \A k \in 1..Top.passed : Exhausted(members[Top.morph][k])
         /\ Top.passed <= Len(members[Top.morph])
<1>1. /\ Len(frames) \in Nat /\ Len(frames) >= 1 /\ Len(frames) \in DOMAIN frames
      /\ Len(frames) \in 1..Len(frames)
  BY FrameShape DEF Walking, GroupInv
<1>2. Top = frames[Len(frames)]
  BY DEF Top
<1>3. Top.morph \in Morphs /\ Top.morph \in group.composite /\ Top.passed \in Nat
  BY <1>1, <1>2, FrameShape DEF GroupInv, Walking
<1>4. FramesAreThePath
  BY DEF GroupInv, Walking
<1>5. mark[Top.morph] = "onWalk" /\ Top.passed <= Len(members[Top.morph])
  BY <1>1, <1>2, <1>3, <1>4 DEF FramesAreThePath
<1>6. \A k \in 1..Top.passed : Exhausted(members[Top.morph][k])
  BY <1>1, <1>2, <1>4 DEF FramesAreThePath
<1>7. members[Top.morph] \in Seq(Morphs \cup {None})
  BY <1>3 DEF GroupInv, Walking, GroupTypeOK
<1> QED BY <1>1, <1>2, <1>3, <1>5, <1>6, <1>7

LEMMA LeaveGroup == GroupInv /\ Leave => GroupInv'
<1> SUFFICES ASSUME GroupInv, Leave PROVE GroupInv'
  OBVIOUS
<1> DEFINE top == Top.morph
<1> DEFINE n == Len(frames)
<1>1. /\ Walking /\ at = "walk" /\ frames # <<>> /\ Top.passed >= Len(members[top])
      /\ mark' = [mark EXCEPT ![top] = "settled"]
      /\ frames' = SubSeq(frames, 1, n - 1)
      /\ UNCHANGED <<group, members, at, first, dropped>>
  BY DEF Leave, Walking
<1>2. /\ n \in Nat /\ n >= 1 /\ n \in DOMAIN frames /\ frames[n].morph = top
      /\ top \in Morphs /\ top \in group.composite /\ mark[top] = "onWalk"
      /\ \A k \in DOMAIN members[top] : Exhausted(members[top][k])
  BY SMTT(40), <1>1, TopFrame
<1> HIDE DEF top
<1>3. /\ Len(frames') = n - 1 /\ DOMAIN frames' = 1..(n - 1) /\ DOMAIN frames = 1..n
      /\ \A i \in 1..(n - 1) : frames'[i] = frames[i]
      /\ frames' \in Seq(FrameSet)
  <2>1. frames \in Seq(FrameSet) /\ frames # <<>>
    BY <1>1 DEF GroupInv, GroupTypeOK, FrameSet
  <2>2. /\ frames' \in Seq(FrameSet) /\ Len(frames') = n - 1
        /\ \A i \in 1..(n - 1) : frames'[i] = frames[i]
    BY <1>1, <2>1, AllButLast
  <2>3. DOMAIN frames' = 1..Len(frames') /\ DOMAIN frames = 1..n
    BY <2>1, <2>2, SequenceShape
  <2> QED BY <2>2, <2>3
<1>4. GroupTypeOK'
  BY <1>1, <1>2, <1>3 DEF GroupInv, GroupTypeOK, Settling, FrameSet
<1>5. SettledMorphs' = SettledMorphs \cup {top} /\ top \notin SettledMorphs
  BY <1>1, <1>2 DEF SettledMorphs, GroupInv, GroupTypeOK
<1>6. \A x : Exhausted(x) => x \notin group.composite \/ x \in SettledMorphs'
  BY <1>1, <1>5 DEF Exhausted
<1>7. FramesAreThePath'
  <2>0. FramesAreThePath
    BY <1>1 DEF GroupInv
  <2>1. \A m \in Morphs : mark'[m] = "onWalk" <=> \E i \in DOMAIN frames' : frames'[i].morph = m
    <3>1. ASSUME NEW m \in Morphs, m # top
          PROVE  (\E i \in 1..n : frames[i].morph = m) <=> (\E i \in 1..(n - 1) : frames[i].morph = m)
      BY <1>2, <3>1
    <3>2. \A i \in 1..(n - 1) : frames[i].morph # top
      BY <1>2, <1>3, <2>0 DEF FramesAreThePath
    <3>3. ASSUME NEW m \in Morphs, m # top
          PROVE  mark'[m] = "onWalk" <=> \E i \in DOMAIN frames' : frames'[i].morph = m
      <4>1. mark'[m] = mark[m]
        BY <3>3, <1>1 DEF GroupInv, GroupTypeOK
      <4>2. mark[m] = "onWalk" <=> \E i \in 1..n : frames[i].morph = m
        BY <1>3, <2>0 DEF FramesAreThePath
      <4> QED BY <3>1, <3>3, <4>1, <4>2, <1>3
    <3>4. mark'[top] = "settled"
      BY <1>1, <1>2 DEF GroupInv, GroupTypeOK
    <3> QED BY <3>2, <3>3, <3>4, <1>3
  <2>2. \A i, k \in DOMAIN frames' : frames'[i].morph = frames'[k].morph => i = k
    BY <1>2, <1>3, <2>0 DEF FramesAreThePath
  <2>3. \A i \in DOMAIN frames' : frames'[i].passed <= Len(members'[frames'[i].morph])
    BY <1>1, <1>2, <1>3, <2>0 DEF FramesAreThePath
  <2>4. ASSUME NEW i \in DOMAIN frames', NEW k \in 1..frames'[i].passed
        PROVE  \/ Exhausted(members[frames[i].morph][k])'
               \/ i < Len(frames') /\ k = frames'[i].passed
                  /\ members'[frames'[i].morph][k] = frames'[i + 1].morph
    <3>1. i \in 1..n /\ frames'[i] = frames[i] /\ i < n /\ k \in 1..frames[i].passed
      BY <1>2, <1>3
    <3>2. CASE Exhausted(members[frames[i].morph][k])
      BY <3>1, <3>2, <1>1, <1>6 DEF Exhausted
    <3>3. CASE k = frames[i].passed /\ members[frames[i].morph][k] = frames[i + 1].morph
      <4>1. CASE i + 1 = n
        BY <4>1, <3>1, <3>3, <1>1, <1>2, <1>5 DEF Exhausted
      <4>2. CASE i + 1 < n
        BY <4>2, <3>1, <3>3, <1>1, <1>2, <1>3
      <4> QED BY <3>1, <4>1, <4>2, <1>2
    <3> QED BY <3>1, <3>2, <3>3, <1>2, <1>3, <2>0 DEF FramesAreThePath
  <2> QED BY <2>1, <2>2, <2>3, <2>4 DEF FramesAreThePath
<1>8. SettledExpand'
  <2>1. \A m \in SettledMorphs' : \A k \in DOMAIN members'[m] : Exhausted(members[m][k])'
    BY <1>1, <1>2, <1>5, <1>6 DEF GroupInv, SettledExpand, Exhausted
  <2>2. ASSUME NEW T \in SUBSET SettledMorphs', T # {}
        PROVE  \E m \in T : \A k \in DOMAIN members'[m] : members'[m][k] \notin T
    <3>1. CASE T \cap SettledMorphs = {}
      <4>1. T = {top}
        BY <3>1, <2>2, <1>5
      <4>2. \A k \in DOMAIN members[top] : members[top][k] # top
        BY <1>2, <1>5 DEF Exhausted
      <4> QED BY <4>1, <4>2, <1>1
    <3>2. CASE T \cap SettledMorphs # {}
      <4>1. PICK m \in T \cap SettledMorphs :
              \A k \in DOMAIN members[m] : members[m][k] \notin T \cap SettledMorphs
        BY <3>2, <1>1 DEF GroupInv, SettledExpand, Expandable
      <4>2. \A k \in DOMAIN members[m] : Exhausted(members[m][k])
        BY <4>1, <1>1 DEF GroupInv, SettledExpand
      <4>3. T \subseteq group.composite
        BY <1>1, <1>2, <1>5 DEF GroupInv, SettledExpand
      <4> QED BY <4>1, <4>2, <4>3, <1>1 DEF Exhausted
    <3> QED BY <3>1, <3>2
  <2>3. SettledMorphs' \subseteq group'.composite
    BY SMTT(40), <1>1, <1>2, <1>5 DEF GroupInv, SettledExpand
  <2> QED BY <2>1, <2>2, <2>3, <1>1, <1>5 DEF GroupInv, SettledExpand, Expandable
<1> QED BY <1>1, <1>4, <1>7, <1>8 DEF GroupInv

\* The frames with the top one past its member.
LEMMA PastShape ==
  ASSUME GroupInv, Walking
  PROVE  /\ Past \in Seq(FrameSet) /\ Len(Past) = Len(frames) /\ DOMAIN Past = 1..Len(frames)
         /\ Past[Len(frames)] = [morph |-> Top.morph, passed |-> Top.passed + 1]
         /\ \A i \in 1..(Len(frames) - 1) : Past[i] = frames[i]
<1>0. frames \in Seq(FrameSet) /\ Len(frames) \in Nat
  BY FrameShape DEF GroupInv, Walking, GroupTypeOK, FrameSet
<1>1. /\ Len(frames) \in Nat /\ Len(frames) \in 1..Len(frames) /\ frames \in Seq(FrameSet)
      /\ frames[Len(frames)] = Top /\ Top \in FrameSet
      /\ Top.morph \in group.composite /\ Top.passed \in Nat
  <2>1. GroupTypeOK
    BY DEF GroupInv, Walking
  <2>2. /\ Len(frames) \in 1..Len(frames) /\ frames[Len(frames)] = Top
        /\ Top.morph \in group.composite /\ Top.passed \in Nat
    BY <1>0, TopFrame
  <2>3. frames[Len(frames)] \in FrameSet
    BY <2>1, <2>2, FrameShape
  <2> QED BY <1>0, <2>2, <2>3
<1> DEFINE next == [morph |-> Top.morph, passed |-> Top.passed + 1]
<1>2. [Top EXCEPT !.passed = @ + 1] = next
  BY <1>1 DEF FrameSet
<1>3. Past = [frames EXCEPT ![Len(frames)] = next]
  BY <1>1, <1>2 DEF Past
<1>4. next \in FrameSet
  BY <1>1 DEF FrameSet
<1> HIDE DEF next
<1>5. /\ Past \in Seq(FrameSet) /\ Len(Past) = Len(frames)
      /\ Past[Len(frames)] = next
      /\ \A k \in 1..Len(frames) : k # Len(frames) => Past[k] = frames[k]
  BY <1>1, <1>3, <1>4, OneChanged
<1>6. DOMAIN Past = 1..Len(frames)
  BY <1>5, SequenceShape
<1>7. \A i \in 1..(Len(frames) - 1) : Past[i] = frames[i]
  BY <1>1, <1>5
<1>8. Past[Len(frames)] = [morph |-> Top.morph, passed |-> Top.passed + 1]
  BY <1>5 DEF next
<1> QED BY <1>5, <1>6, <1>7, <1>8

\* Passing a member keeps the path when the member is exhausted afterwards.
LEMMA PastPath ==
  ASSUME GroupInv, Standing, frames' = Past, UNCHANGED <<group, mark>>,
         members' \in [Morphs -> Seq(Morphs \cup {None})],
         \A m \in Morphs : Len(members'[m]) = Len(members[m]),
         \A m \in Morphs : \A k \in 1..Len(members[m]) :
           \/ members'[m][k] = members[m][k]
           \/ Exhausted(members'[m][k]),
         Exhausted(members'[Top.morph][Top.passed + 1])
  PROVE  FramesAreThePath'
<1> DEFINE n == Len(frames)
<1>0. FramesAreThePath /\ GroupTypeOK
  BY DEF GroupInv, Standing, Walking
<1>1. /\ n \in Nat /\ n \in 1..n /\ DOMAIN frames = 1..n /\ frames[n] = Top
      /\ \A i \in 1..n : frames[i].morph \in Morphs /\ frames[i].passed \in Nat
      /\ Top.passed < Len(members[Top.morph]) /\ Top.passed \in Nat /\ Top.morph \in Morphs
      /\ \A m \in Morphs : Len(members[m]) \in Nat
  <2>1. Walking /\ Top.passed < Len(members[Top.morph])
    BY DEF Standing
  <2>2. \A m \in Morphs : Len(members[m]) \in Nat
    BY <1>0 DEF GroupTypeOK
  <2>3. /\ n \in Nat /\ n >= 1 /\ frames[n] = Top /\ Top.morph \in Morphs /\ Top.passed \in Nat
    BY <2>1, TopFrame
  <2>4. DOMAIN frames = 1..n /\ \A i \in 1..n : frames[i].morph \in Morphs /\ frames[i].passed \in Nat
    BY <1>0, FrameShape
  <2> QED BY <2>1, <2>2, <2>3, <2>4
<1>2. /\ Len(frames') = n /\ DOMAIN frames' = 1..n
      /\ frames'[n] = [morph |-> Top.morph, passed |-> Top.passed + 1]
      /\ \A i \in 1..(n - 1) : frames'[i] = frames[i]
  BY PastShape DEF Standing
<1> HIDE DEF n
<1>3. \A i \in 1..n : frames'[i].morph = frames[i].morph
  BY <1>1, <1>2
<1>4. \A m \in Morphs : mark'[m] = "onWalk" <=> \E i \in DOMAIN frames' : frames'[i].morph = m
  BY SMTT(40), <1>0, <1>1, <1>2, <1>3 DEF FramesAreThePath
<1>5. \A i, k \in DOMAIN frames' : frames'[i].morph = frames'[k].morph => i = k
  BY <1>0, <1>1, <1>2, <1>3 DEF FramesAreThePath
<1>6. \A i \in DOMAIN frames' : frames'[i].passed <= Len(members'[frames'[i].morph])
  <2>1. ASSUME NEW i \in 1..(n - 1)
        PROVE  frames'[i].passed <= Len(members'[frames'[i].morph])
    <3>1. i \in 1..n /\ frames'[i] = frames[i] /\ frames[i].morph \in Morphs
      BY <1>1, <1>2
    <3>2. frames[i].passed <= Len(members[frames[i].morph])
      BY <3>1, <1>0, <1>1 DEF FramesAreThePath
    <3> QED BY <3>1, <3>2
  <2>2. frames'[n].passed <= Len(members'[frames'[n].morph])
    BY <1>1, <1>2
  <2> QED BY <1>1, <1>2, <2>1, <2>2
<1>7. \A x : Exhausted(x) => x \notin group'.composite \/ x \in SettledMorphs'
  BY DEF Exhausted, SettledMorphs
<1>8. ASSUME NEW i \in DOMAIN frames', NEW k \in 1..frames'[i].passed
      PROVE  \/ Exhausted(members[frames[i].morph][k])'
             \/ i < Len(frames') /\ k = frames'[i].passed
                /\ members'[frames'[i].morph][k] = frames'[i + 1].morph
  <2> DEFINE m == frames[i].morph
  <2>1. i \in 1..n /\ m \in Morphs /\ frames'[i].morph = m /\ k \in 1..Len(members[m])
    BY SMTT(40), <1>1, <1>2, <1>3, <1>6
  <2>2. CASE Exhausted(members'[m][k])
    BY <2>1, <2>2, <1>7 DEF Exhausted
  <2>3. CASE ~Exhausted(members'[m][k])
    <3>1. members'[m][k] = members[m][k]
      BY <2>1, <2>3
    <3>2. CASE i = n
      <4>1. k # Top.passed + 1 /\ k \in 1..Top.passed
        BY <3>2, <2>1, <2>3, <1>1, <1>2
      <4> QED BY SMTT(40), <4>1, <3>1, <3>2, <2>3, <1>0, <1>1 DEF FramesAreThePath, n
    <3>3. CASE i < n
      <4>1. i \in 1..(n - 1) /\ i + 1 \in 1..n /\ k \in 1..frames[i].passed
        BY <3>3, <2>1, <1>1, <1>2
      <4>2. \/ Exhausted(members[m][k])
            \/ k = frames[i].passed /\ members[m][k] = frames[i + 1].morph
        BY SMTT(40), <4>1, <1>0, <1>1 DEF FramesAreThePath
      <4>3. k = frames[i].passed /\ members'[m][k] = frames[i + 1].morph
        BY <4>2, <3>1, <2>3
      <4>4. frames'[i].passed = frames[i].passed /\ frames'[i + 1].morph = frames[i + 1].morph
        BY <4>1, <1>2, <1>3
      <4> QED BY <4>3, <4>4, <3>3, <2>1, <1>2
    <3> QED BY <2>1, <3>2, <3>3, <1>1
  <2> QED BY <2>2, <2>3
<1> QED BY <1>4, <1>5, <1>6, <1>8 DEF FramesAreThePath

\* What is settled stays as it was while neither it nor its members change.
LEMMA SettledKept ==
  ASSUME SettledExpand, SettledMorphs' = SettledMorphs, group' = group, first' = first,
         \A m \in SettledMorphs : members'[m] = members[m]
  PROVE  SettledExpand'
<1>1. \A m \in SettledMorphs' : \A k \in DOMAIN members'[m] : Exhausted(members[m][k])'
  BY DEF SettledExpand, Exhausted
<1>2. Expandable(SettledMorphs)'
  BY DEF SettledExpand, Expandable
<1>3. /\ SettledMorphs' \subseteq group'.composite
      /\ \A m \in group'.composite : m < first' => m \in SettledMorphs'
  BY DEF SettledExpand
<1> QED BY <1>1, <1>2, <1>3 DEF SettledExpand

LEMMA PassGroup == GroupInv /\ Pass => GroupInv'
<1> SUFFICES ASSUME GroupInv, Pass PROVE GroupInv'
  OBVIOUS
<1>1. /\ Standing /\ Walking /\ at = "walk" /\ frames' = Past
      /\ Leads(Member) => mark[Member] = "settled"
      /\ UNCHANGED <<group, members, at, mark, first, dropped>>
  BY DEF Pass, Standing, Walking
<1>2. GroupTypeOK'
  <2>1. frames' \in Seq(FrameSet)
    BY <1>1, PastShape
  <2> QED BY <1>1, <2>1 DEF GroupInv, GroupTypeOK, FrameSet
<1>3. Exhausted(members'[Top.morph][Top.passed + 1])
  BY <1>1 DEF Leads, Member, Exhausted, SettledMorphs, GroupInv, GroupTypeOK
<1>4. FramesAreThePath'
  <2>1. members' \in [Morphs -> Seq(Morphs \cup {None})]
    BY <1>1 DEF GroupInv, GroupTypeOK
  <2> QED BY <1>1, <1>3, <2>1, PastPath
<1>5. SettledExpand'
  BY <1>1, SettledKept DEF GroupInv, SettledMorphs
<1> QED BY <1>1, <1>2, <1>4, <1>5 DEF GroupInv

LEMMA DropGroup == GroupInv /\ Drop => GroupInv'
<1> SUFFICES ASSUME GroupInv, Drop PROVE GroupInv'
  OBVIOUS
<1> DEFINE top == Top.morph
<1> DEFINE p == Top.passed + 1
<1>1. /\ Standing /\ Walking /\ at = "walk" /\ frames' = Past
      /\ members' = [members EXCEPT ![top][p] = None]
      /\ UNCHANGED <<group, at, mark, first>>
  BY DEF Drop, Standing, Walking
<1>2. /\ top \in Morphs /\ top \in group.composite /\ mark[top] = "onWalk"
      /\ p \in 1..Len(members[top]) /\ members[top] \in Seq(Morphs \cup {None})
  BY <1>1, TopFrame DEF Standing
<1> HIDE DEF top, p
<1>3. /\ members'[top] = [members[top] EXCEPT ![p] = None]
      /\ \A m \in Morphs : m # top => members'[m] = members[m]
      /\ DOMAIN members' = Morphs
  BY <1>1, <1>2 DEF GroupInv, GroupTypeOK
<1>4. /\ members'[top] \in Seq(Morphs \cup {None}) /\ Len(members'[top]) = Len(members[top])
      /\ members'[top][p] = None
      /\ \A k \in 1..Len(members[top]) : k # p => members'[top][k] = members[top][k]
  BY <1>2, <1>3, OneChanged
<1>5. members' \in [Morphs -> Seq(Morphs \cup {None})]
  BY <1>1, <1>2, <1>4 DEF GroupInv, GroupTypeOK
<1>6. GroupTypeOK'
  <2>1. frames' \in Seq(FrameSet)
    BY <1>1, PastShape
  <2> QED BY <1>1, <1>5, <2>1 DEF GroupInv, GroupTypeOK, FrameSet
<1>7. Exhausted(None)
  BY <1>1 DEF GroupInv, GroupTypeOK, Exhausted
<1>8. FramesAreThePath'
  <2>1. \A m \in Morphs : Len(members'[m]) = Len(members[m])
    BY <1>3, <1>4
  <2>2. \A m \in Morphs : \A k \in 1..Len(members[m]) :
          members'[m][k] = members[m][k] \/ Exhausted(members'[m][k])
    BY <1>3, <1>4, <1>7
  <2>3. Exhausted(members'[Top.morph][Top.passed + 1])
    BY <1>4, <1>7 DEF top, p
  <2> QED BY <1>1, <1>5, <2>1, <2>2, <2>3, PastPath
<1>9. SettledExpand'
  <2>1. SettledMorphs' = SettledMorphs /\ top \notin SettledMorphs
    BY <1>1, <1>2 DEF SettledMorphs
  <2>2. \A m \in SettledMorphs : members'[m] = members[m]
    BY <1>3, <2>1 DEF SettledMorphs
  <2> QED BY <1>1, <2>1, <2>2, SettledKept DEF GroupInv
<1> QED BY <1>1, <1>6, <1>8, <1>9 DEF GroupInv

LEMMA DescendGroup == GroupInv /\ Descend => GroupInv'
<1> SUFFICES ASSUME GroupInv, Descend PROVE GroupInv'
  OBVIOUS
<1> DEFINE n == Len(frames)
<1> DEFINE new == Member
<1>0. /\ Standing /\ Walking /\ at = "walk" /\ GroupTypeOK /\ FramesAreThePath
  BY DEF Descend, Standing, Walking, GroupInv
<1>1. /\ new \in group.composite /\ new \in Morphs /\ mark[new] = "unvisited"
      /\ new = members[Top.morph][Top.passed + 1]
      /\ mark' = [mark EXCEPT ![new] = "onWalk"]
      /\ frames' = Append(Past, [morph |-> new, passed |-> 0])
      /\ UNCHANGED <<group, members, at, first, dropped>>
  BY <1>0 DEF Descend, Leads, Member, Frame, GroupTypeOK
<1> HIDE DEF new
<1>2. /\ n \in Nat /\ n >= 1 /\ DOMAIN frames = 1..n /\ frames[n] = Top
      /\ \A i \in 1..n : frames[i].morph \in Morphs /\ frames[i].passed \in Nat
      /\ Top.passed < Len(members[Top.morph]) /\ Top.passed \in Nat /\ Top.morph \in Morphs
      /\ \A m \in Morphs : Len(members[m]) \in Nat
  <2>1. Top.passed < Len(members[Top.morph]) /\ \A m \in Morphs : Len(members[m]) \in Nat
    BY <1>0 DEF Standing, GroupTypeOK
  <2>2. n \in Nat /\ n >= 1 /\ frames[n] = Top /\ Top.morph \in Morphs /\ Top.passed \in Nat
    BY <1>0, TopFrame
  <2>3. DOMAIN frames = 1..n /\ \A i \in 1..n : frames[i].morph \in Morphs /\ frames[i].passed \in Nat
    BY <1>0, FrameShape
  <2> QED BY <2>1, <2>2, <2>3
<1>3. /\ frames' \in Seq(FrameSet) /\ Len(frames') = n + 1 /\ DOMAIN frames' = 1..(n + 1)
      /\ frames'[n + 1] = [morph |-> new, passed |-> 0]
      /\ frames'[n] = [morph |-> Top.morph, passed |-> Top.passed + 1]
      /\ \A i \in 1..(n - 1) : frames'[i] = frames[i]
  <2>1. /\ Past \in Seq(FrameSet) /\ Len(Past) = n
        /\ Past[n] = [morph |-> Top.morph, passed |-> Top.passed + 1]
        /\ \A i \in 1..(n - 1) : Past[i] = frames[i]
    BY <1>0, PastShape
  <2>2. [morph |-> new, passed |-> 0] \in FrameSet
    BY <1>1 DEF FrameSet
  <2>3. /\ frames' \in Seq(FrameSet) /\ Len(frames') = n + 1
        /\ frames'[n + 1] = [morph |-> new, passed |-> 0]
        /\ \A i \in 1..n : frames'[i] = Past[i]
    BY <1>1, <2>1, <2>2, OneMore
  <2>4. DOMAIN frames' = 1..(n + 1)
    BY <2>3, SequenceShape
  <2> QED BY <2>1, <2>3, <2>4, <1>2
<1> HIDE DEF n
<1>4. GroupTypeOK'
  BY <1>0, <1>1, <1>3 DEF GroupTypeOK, FrameSet, Settling
<1>5. SettledMorphs' = SettledMorphs
  BY <1>0, <1>1 DEF SettledMorphs, GroupTypeOK
<1>6. SettledExpand'
  BY <1>0, <1>1, <1>5, SettledKept DEF GroupInv
<1>7. \A i \in 1..n : frames'[i].morph = frames[i].morph /\ frames[i].morph # new
  <2>1. \A i \in 1..n : frames'[i].morph = frames[i].morph
    BY <1>2, <1>3
  <2>2. \A i \in 1..n : mark[frames[i].morph] = "onWalk"
    BY <1>0, <1>2 DEF FramesAreThePath
  <2> QED BY <2>1, <2>2, <1>1
<1>8. \A m \in Morphs : mark'[m] = "onWalk" <=> \E i \in DOMAIN frames' : frames'[i].morph = m
  <2>1. mark'[new] = "onWalk" /\ \A m \in Morphs \ {new} : mark'[m] = mark[m]
    BY <1>0, <1>1 DEF GroupTypeOK
  <2>2. \A m \in Morphs : mark[m] = "onWalk" <=> \E i \in 1..n : frames[i].morph = m
    BY <1>0, <1>2 DEF FramesAreThePath
  <2>3. frames'[n + 1].morph = new /\ n + 1 \in 1..(n + 1)
    BY <1>2, <1>3
  <2>4. \A i \in 1..(n + 1) : i \in 1..n \/ i = n + 1
    BY <1>2
  <2>5. ASSUME NEW m \in Morphs, m # new
        PROVE  (\E i \in 1..n : frames[i].morph = m) <=> \E i \in 1..(n + 1) : frames'[i].morph = m
    BY <2>3, <2>4, <2>5, <1>2, <1>7
  <2>6. mark'[new] = "onWalk" /\ \E i \in 1..(n + 1) : frames'[i].morph = new
    BY <2>1, <2>3
  <2> QED BY <2>1, <2>2, <2>5, <2>6, <1>3
<1>9. \A i, k \in DOMAIN frames' : frames'[i].morph = frames'[k].morph => i = k
  <2>1. \A i, k \in 1..n : frames'[i].morph = frames'[k].morph => i = k
    BY <1>0, <1>2, <1>7 DEF FramesAreThePath
  <2> QED BY <2>1, <1>2, <1>3, <1>7
<1>10. ASSUME NEW i \in DOMAIN frames'
       PROVE  frames'[i].passed <= Len(members'[frames'[i].morph])
  <2>1. CASE i \in 1..(n - 1)
    BY <2>1, <1>0, <1>1, <1>2, <1>3 DEF FramesAreThePath
  <2>2. CASE i = n
    BY <2>2, <1>1, <1>2, <1>3
  <2>3. CASE i = n + 1
    BY <2>3, <1>1, <1>2, <1>3
  <2> QED BY <2>1, <2>2, <2>3, <1>2, <1>3
<1>11. ASSUME NEW i \in DOMAIN frames', NEW k \in 1..frames'[i].passed
       PROVE  \/ Exhausted(members[frames[i].morph][k])'
              \/ i < Len(frames') /\ k = frames'[i].passed
                 /\ members'[frames'[i].morph][k] = frames'[i + 1].morph
  <2>0. \A x : Exhausted(x) => x \notin group'.composite \/ x \in SettledMorphs'
    BY <1>1, <1>5 DEF Exhausted
  <2>1. CASE i \in 1..(n - 1)
    <3>1. /\ i \in 1..n /\ i + 1 \in 1..n /\ frames'[i] = frames[i]
          /\ k \in 1..frames[i].passed /\ frames'[i + 1].morph = frames[i + 1].morph
      BY <2>1, <1>2, <1>3, <1>7
    <3>2. CASE Exhausted(members[frames[i].morph][k])
      BY <3>1, <3>2, <2>0, <1>1 DEF Exhausted
    <3>3. CASE ~Exhausted(members[frames[i].morph][k])
      <4>1. k = frames[i].passed /\ members[frames[i].morph][k] = frames[i + 1].morph
        BY <3>1, <3>3, <1>0, <1>2 DEF FramesAreThePath
      <4> QED BY <4>1, <3>1, <1>1, <1>2, <1>3
    <3> QED BY <3>2, <3>3
  <2>2. CASE i = n
    <3>1. frames[i] = Top /\ frames'[i].morph = Top.morph /\ frames'[i].passed = Top.passed + 1
      BY <2>2, <1>2, <1>3
    <3>2. CASE k = Top.passed + 1
      BY <3>1, <3>2, <2>2, <1>1, <1>2, <1>3
    <3>3. CASE k # Top.passed + 1
      <4>1. k \in 1..Top.passed
        BY <3>1, <3>3, <1>2
      <4>2. Exhausted(members[Top.morph][k])
        BY <4>1, <1>0, TopFrame
      <4> QED BY <4>2, <3>1, <2>0, <1>1 DEF Exhausted
    <3> QED BY <3>2, <3>3
  <2>3. CASE i = n + 1
    BY <2>3, <1>3
  <2> QED BY <2>1, <2>2, <2>3, <1>2, <1>3
<1>12. FramesAreThePath'
  <2>1. \A i \in DOMAIN frames' : \A k \in 1..frames'[i].passed :
          \/ Exhausted(members[frames[i].morph][k])'
          \/ i < Len(frames') /\ k = frames'[i].passed
             /\ members'[frames'[i].morph][k] = frames'[i + 1].morph
    BY <1>11
  <2> QED BY <1>8, <1>9, <1>10, <2>1 DEF FramesAreThePath
<1> QED BY <1>0, <1>1, <1>4, <1>6, <1>12 DEF GroupInv

LEMMA SameWalk ==
  ASSUME GroupTypeOK, FramesAreThePath, SettledExpand, at' \in {"walk", "erase", "done"},
         UNCHANGED <<group, members, mark, first, frames>>
  PROVE  (GroupTypeOK /\ FramesAreThePath /\ SettledExpand)'
<1>1. GroupTypeOK'
  BY DEF GroupTypeOK
<1>2. FramesAreThePath'
  BY DEF FramesAreThePath, Exhausted, SettledMorphs
<1>3. SettledExpand'
  BY SettledKept DEF SettledMorphs
<1> QED BY <1>1, <1>2, <1>3

LEMMA EndWalkGroup == GroupInv /\ EndWalk => GroupInv'
BY SameWalk DEF EndWalk, GroupInv

LEMMA StutterGroup == GroupInv /\ UNCHANGED groupVars => GroupInv'
BY SameWalk DEF groupVars, GroupInv, GroupTypeOK

THEOREM GroupIsInductive == GroupSpec => []GroupInv
<1>1. GroupInv /\ [BreakGroupCycles]_groupVars => GroupInv'
  <2>1. Erase => GroupInv'
    BY DEF Erase, GroupInv
  <2> QED BY <2>1, EnterGroup, SkipGroup, LeaveGroup, PassGroup, DropGroup, DescendGroup,
             EndWalkGroup, StutterGroup DEF BreakGroupCycles
<1> QED BY InitGroup, <1>1, PTL DEF GroupSpec

-----------------------------------------------------------------------------
(* What the walk drops *)

\* A member the walk has passed: its morph is settled, or it lies behind where
\* the morph's frame stands.
Passed(m, k) ==
  \/ mark[m] = "settled"
  \/ \E i \in DOMAIN frames : frames[i].morph = m /\ k <= frames[i].passed

\* F holds the composite members passed so far of the composite morphs in it.
FollowsPassed(F) ==
  \A m \in F \cap group.composite : \A k \in DOMAIN members[m] :
    Passed(m, k) /\ members[m][k] \in group.composite => members[m][k] \in F

\* The member dropped at d leads back to its morph through members passed.
Closing(d) ==
  \A F \in SUBSET Morphs : group.members[d[1]][d[2]] \in F /\ FollowsPassed(F) => d[1] \in F

\* Each frame has descended into the morph of the next.
WalkIsChained ==
  \A i \in 1..(Len(frames) - 1) :
    /\ frames[i].passed \in DOMAIN members[frames[i].morph]
    /\ members[frames[i].morph][frames[i].passed] = frames[i + 1].morph

\* The walk changes nothing but the members it drops.
OnlyDroppedDiffer ==
  /\ \A d \in dropped : d[1] \in Morphs
  /\ \A m \in Morphs :
       /\ Len(members[m]) = Len(group.members[m])
       /\ \A k \in 1..Len(group.members[m]) :
            members[m][k] = IF <<m, k>> \in dropped THEN None ELSE group.members[m][k]

ClosingInv ==
  at # "done" => WalkIsChained /\ OnlyDroppedDiffer /\ \A d \in dropped : Closing(d)

\* What was passed stays passed: a member that closes a cycle keeps closing it.
LEMMA ClosingKept ==
  ASSUME group' = group, NEW d, Closing(d),
         \A m \in group.composite : DOMAIN members'[m] = DOMAIN members[m],
         \A m \in group.composite : \A k \in DOMAIN members[m] :
           Passed(m, k) => Passed(m, k)' /\ members'[m][k] = members[m][k]
  PROVE  Closing(d)'
<1> SUFFICES ASSUME NEW F \in SUBSET Morphs, group.members[d[1]][d[2]] \in F, FollowsPassed(F)'
             PROVE  d[1] \in F
  BY DEF Closing
<1>1. FollowsPassed(F)
  <2> HIDE DEF Passed
  <2> QED BY DEF FollowsPassed
<1> QED BY <1>1 DEF Closing

\* From any frame the members passed lead up to the top one.
LEMMA WalkLeadsToTop ==
  ASSUME GroupTypeOK, WalkIsChained, NEW F \in SUBSET Morphs, FollowsPassed(F),
         NEW j \in DOMAIN frames, frames[j].morph \in F
  PROVE  frames[Len(frames)].morph \in F
<1> DEFINE n == Len(frames)
           P == {i \in Nat : j + i <= n => frames[j + i].morph \in F}
<1>1. /\ n \in Nat /\ j \in 1..n /\ DOMAIN frames = 1..n
      /\ \A i \in 1..n : frames[i].morph \in group.composite /\ frames[i].passed \in Nat
  BY FrameShape
<1>2. 0 \in P
  BY <1>1
<1>3. ASSUME NEW i \in Nat, i \in P PROVE i + 1 \in P
  <2> SUFFICES ASSUME j + (i + 1) <= n PROVE frames[j + (i + 1)].morph \in F
    OBVIOUS
  <2> DEFINE h == j + i
  <2>1. h \in 1..(n - 1) /\ h \in DOMAIN frames /\ h + 1 = j + (i + 1) /\ h + 1 \in 1..n
    BY <1>1
  <2>2. frames[h].morph \in F
    BY <1>3, <2>1
  <2> HIDE DEF h, P
  <2>3. /\ frames[h].passed \in DOMAIN members[frames[h].morph]
        /\ members[frames[h].morph][frames[h].passed] = frames[h + 1].morph
    BY <2>1 DEF WalkIsChained
  <2>4. Passed(frames[h].morph, frames[h].passed)
    BY <2>1, <1>1 DEF Passed
  <2>5. frames[h].morph \in F \cap group.composite /\ frames[h + 1].morph \in group.composite
    BY <2>1, <2>2, <1>1
  <2> HIDE DEF n
  <2>6. frames[h + 1].morph \in F
    BY <2>3, <2>4, <2>5 DEF FollowsPassed
  <2> QED BY <2>1, <2>6
<1>4. Nat \subseteq P
  <2> HIDE DEF P
  <2> QED BY <1>2, <1>3, NaturalsOfSet
<1>5. n - j \in Nat /\ n - j \in P /\ j + (n - j) = n
  BY <1>1, <1>4
<1> QED BY <1>1, <1>5

\* Standing one member further, the frames have passed all they had passed, and
\* are chained as before.
LEMMA PastKeeps ==
  ASSUME GroupInv, Standing, frames' = Past, mark' = mark, NEW m, NEW k \in Int, Passed(m, k)
  PROVE  Passed(m, k)'
<1>1. /\ Len(frames) \in 1..Len(frames) /\ Len(frames) \in Nat /\ DOMAIN frames = 1..Len(frames)
      /\ frames[Len(frames)] = Top /\ Top.passed \in Nat
  BY TopFrame, FrameShape DEF Standing, Walking, GroupInv
<1>2. /\ DOMAIN frames' = 1..Len(frames)
      /\ frames'[Len(frames)] = [morph |-> Top.morph, passed |-> Top.passed + 1]
      /\ \A i \in 1..(Len(frames) - 1) : frames'[i] = frames[i]
  BY PastShape DEF Standing
<1>3. CASE mark[m] = "settled"
  BY <1>3 DEF Passed
<1>4. ASSUME NEW i \in DOMAIN frames, frames[i].morph = m, k <= frames[i].passed
      PROVE  Passed(m, k)'
  <2>1. CASE i = Len(frames)
    <3>1. frames'[i].morph = m /\ k <= frames'[i].passed
      BY <2>1, <1>1, <1>2, <1>4
    <3> QED BY <3>1, <1>1, <1>2, <1>4 DEF Passed
  <2>2. CASE i \in 1..(Len(frames) - 1)
    BY <2>2, <1>1, <1>2, <1>4 DEF Passed
  <2> QED BY <2>1, <2>2, <1>1
<1> QED BY <1>3, <1>4 DEF Passed

LEMMA PastChained ==
  ASSUME GroupInv, Standing, frames' = Past, WalkIsChained,
         \A i \in 1..(Len(frames) - 1) : members'[frames[i].morph] = members[frames[i].morph]
  PROVE  WalkIsChained'
<1>1. Len(frames) \in 1..Len(frames) /\ Len(frames) \in Nat /\ frames[Len(frames)] = Top
  BY TopFrame DEF Standing
<1>2. /\ Len(frames') = Len(frames)
      /\ frames'[Len(frames)].morph = Top.morph
      /\ \A i \in 1..(Len(frames) - 1) : frames'[i] = frames[i]
  BY PastShape DEF Standing
<1> SUFFICES ASSUME NEW i \in 1..(Len(frames) - 1)
             PROVE  /\ frames'[i].passed \in DOMAIN members'[frames'[i].morph]
                    /\ members'[frames'[i].morph][frames'[i].passed] = frames'[i + 1].morph
  BY <1>2 DEF WalkIsChained
<1>3. frames'[i + 1].morph = frames[i + 1].morph
  <2>1. CASE i + 1 = Len(frames)
    BY <2>1, <1>1, <1>2
  <2>2. CASE i + 1 \in 1..(Len(frames) - 1)
    BY <2>2, <1>2
  <2> QED BY <2>1, <2>2, <1>1
<1> QED BY <1>2, <1>3 DEF WalkIsChained

\* While neither the members nor what was dropped changes, it is enough that
\* what was passed stays passed.
LEMMA ClosingUnchanged ==
  ASSUME GroupInv, ClosingInv, at = "walk", UNCHANGED <<group, members, dropped>>, WalkIsChained',
         \A m \in group.composite : \A k \in DOMAIN members[m] : Passed(m, k) => Passed(m, k)'
  PROVE  ClosingInv'
<1>1. OnlyDroppedDiffer'
  BY DEF ClosingInv, OnlyDroppedDiffer
<1>2. \A d \in dropped' : Closing(d)'
  <2> SUFFICES ASSUME NEW d \in dropped PROVE Closing(d)'
    OBVIOUS
  <2>1. Closing(d)
    BY DEF ClosingInv
  <2> HIDE DEF Passed
  <2> QED BY <2>1, ClosingKept
<1> QED BY <1>1, <1>2 DEF ClosingInv

LEMMA EnterCloses == GroupInv /\ ClosingInv /\ Enter => ClosingInv'
<1> SUFFICES ASSUME GroupInv, ClosingInv, Enter PROVE ClosingInv'
  OBVIOUS
<1>1. /\ at = "walk" /\ frames = <<>> /\ mark[first] = "unvisited"
      /\ mark' = [mark EXCEPT ![first] = "onWalk"]
      /\ frames' = <<[morph |-> first, passed |-> 0]>>
      /\ UNCHANGED <<group, members, at, first, dropped>>
      /\ group.composite \subseteq Morphs /\ mark \in [Morphs -> Settling]
  BY DEF Enter, Frame, GroupInv, GroupTypeOK
<1>2. WalkIsChained'
  <2>1. Len(frames') = 1
    BY <1>1
  <2> QED BY <2>1 DEF WalkIsChained
<1>3. ASSUME NEW m \in group.composite, NEW k, Passed(m, k) PROVE Passed(m, k)'
  <2>1. mark[m] = "settled"
    BY <1>1, <1>3 DEF Passed
  <2> QED BY <2>1, <1>1 DEF Passed
<1> QED BY <1>1, <1>2, <1>3, ClosingUnchanged

LEMMA LeaveCloses == GroupInv /\ ClosingInv /\ Leave => ClosingInv'
<1> SUFFICES ASSUME GroupInv, ClosingInv, Leave PROVE ClosingInv'
  OBVIOUS
<1> DEFINE n == Len(frames)
<1>1. /\ Walking /\ at = "walk" /\ frames # <<>>
      /\ mark' = [mark EXCEPT ![Top.morph] = "settled"]
      /\ frames' = SubSeq(frames, 1, n - 1)
      /\ UNCHANGED <<group, members, at, first, dropped>>
      /\ group.composite \subseteq Morphs /\ mark \in [Morphs -> Settling]
  BY DEF Leave, Walking, GroupInv, GroupTypeOK
<1>2. n \in Nat /\ n >= 1 /\ DOMAIN frames = 1..n /\ frames[n] = Top /\ Top.morph \in Morphs
  BY <1>1, TopFrame, FrameShape DEF GroupInv
<1>3. /\ Len(frames') = n - 1 /\ DOMAIN frames' = 1..(n - 1)
      /\ \A i \in 1..(n - 1) : frames'[i] = frames[i]
  <2>1. frames \in Seq(FrameSet) /\ frames # <<>>
    BY <1>1 DEF GroupInv, GroupTypeOK, FrameSet
  <2>2. /\ frames' \in Seq(FrameSet) /\ Len(frames') = n - 1
        /\ \A i \in 1..(n - 1) : frames'[i] = frames[i]
    BY <1>1, <2>1, AllButLast
  <2>3. DOMAIN frames' = 1..Len(frames')
    BY <2>2, SequenceShape
  <2> QED BY <2>2, <2>3
<1> HIDE DEF n
<1>4. WalkIsChained'
  <2>1. \A i \in 1..(n - 2) : i \in 1..(n - 1) /\ i + 1 \in 1..(n - 1)
    BY <1>2
  <2>2. \A i \in 1..(n - 1) : /\ frames[i].passed \in DOMAIN members[frames[i].morph]
                              /\ members[frames[i].morph][frames[i].passed] = frames[i + 1].morph
    BY <1>1 DEF ClosingInv, WalkIsChained, n
  <2> SUFFICES ASSUME NEW i \in 1..(n - 2)
               PROVE  /\ frames'[i].passed \in DOMAIN members'[frames'[i].morph]
                      /\ members'[frames'[i].morph][frames'[i].passed] = frames'[i + 1].morph
    BY <1>2, <1>3 DEF WalkIsChained
  <2>3. frames'[i] = frames[i] /\ frames'[i + 1] = frames[i + 1] /\ members' = members
    BY <2>1, <1>1, <1>3
  <2> QED BY <2>1, <2>2, <2>3
<1>5. ASSUME NEW m \in group.composite, NEW k, Passed(m, k) PROVE Passed(m, k)'
  <2>1. CASE mark[m] = "settled" \/ m = Top.morph
    BY <2>1, <1>1, <1>2 DEF Passed
  <2>2. CASE ~(mark[m] = "settled" \/ m = Top.morph)
    <3>1. PICK i \in DOMAIN frames : frames[i].morph = m /\ k <= frames[i].passed
      BY <2>2, <1>5 DEF Passed
    <3>2. i \in 1..(n - 1)
      BY <3>1, <2>2, <1>2
    <3> QED BY <3>1, <3>2, <1>3 DEF Passed
  <2> QED BY <2>1, <2>2
<1> QED BY <1>1, <1>4, <1>5, ClosingUnchanged

LEMMA PassCloses == GroupInv /\ ClosingInv /\ Pass => ClosingInv'
<1> SUFFICES ASSUME GroupInv, ClosingInv, Pass PROVE ClosingInv'
  OBVIOUS
<1>1. /\ Standing /\ at = "walk" /\ frames' = Past
      /\ UNCHANGED <<group, members, at, mark, first, dropped>>
  BY DEF Pass, Standing, Walking
<1>2. WalkIsChained'
  BY <1>1, PastChained DEF ClosingInv
<1>3. ASSUME NEW m \in group.composite, NEW k \in DOMAIN members[m], Passed(m, k)
      PROVE  Passed(m, k)'
  <2>1. k \in Int
    BY <1>1 DEF GroupInv, GroupTypeOK
  <2> QED BY <2>1, <1>1, <1>3, PastKeeps
<1> QED BY <1>1, <1>2, <1>3, ClosingUnchanged

\* A member that names a morph on the walk is dropped, and that morph led to
\* the top one; nothing passed before is touched.
LEMMA DropCloses == GroupInv /\ ClosingInv /\ Drop => ClosingInv'
<1> SUFFICES ASSUME GroupInv, ClosingInv, Drop PROVE ClosingInv'
  OBVIOUS
<1> DEFINE top == Top.morph
           p == Top.passed + 1
           n == Len(frames)
           x == members[top][p]
<1>1. /\ Standing /\ Walking /\ at = "walk" /\ frames' = Past
      /\ members' = [members EXCEPT ![top][p] = None]
      /\ dropped' = dropped \cup {<<top, p>>}
      /\ x \in group.composite /\ mark[x] = "onWalk"
      /\ UNCHANGED <<group, at, mark, first>>
      /\ GroupTypeOK /\ FramesAreThePath
      /\ WalkIsChained /\ OnlyDroppedDiffer /\ None \notin Morphs
  BY DEF Drop, Standing, Walking, Leads, Closes, Member, GroupInv, ClosingInv
<1>2. /\ top \in Morphs /\ top \in group.composite /\ mark[top] = "onWalk"
      /\ Top.passed \in Nat /\ p \in 1..Len(members[top]) /\ p \in DOMAIN members[top]
      /\ members[top] \in Seq(Morphs \cup {None})
      /\ n \in 1..n /\ n \in Nat /\ frames[n] = Top /\ DOMAIN frames = 1..n
  BY <1>1, TopFrame, FrameShape DEF Standing
<1> HIDE DEF top, p, n, x
<1>3. /\ members'[top] = [members[top] EXCEPT ![p] = None]
      /\ \A m \in Morphs : m # top => members'[m] = members[m]
      /\ DOMAIN members' = Morphs
  BY <1>1, <1>2 DEF GroupTypeOK
<1>4. /\ Len(members'[top]) = Len(members[top]) /\ DOMAIN members'[top] = DOMAIN members[top]
      /\ members'[top][p] = None
      /\ \A k \in DOMAIN members[top] : k # p => members'[top][k] = members[top][k]
  BY <1>2, <1>3
<1>5. \A i \in 1..n : frames[i].morph = top => i = n
  BY <1>1, <1>2 DEF FramesAreThePath, top
<1>6. WalkIsChained'
  <2>1. \A i \in 1..(n - 1) : frames[i].morph \in Morphs /\ frames[i].morph # top
    BY <1>1, <1>2, <1>5, FrameShape
  <2> QED BY <2>1, <1>1, <1>3, PastChained DEF n
<1>7. OnlyDroppedDiffer'
  <2> SUFFICES ASSUME NEW m \in Morphs
               PROVE  /\ Len(members'[m]) = Len(group.members[m])
                      /\ \A k \in 1..Len(group.members[m]) :
                           members'[m][k] = IF <<m, k>> \in dropped' THEN None ELSE group.members[m][k]
    BY <1>1, <1>2 DEF OnlyDroppedDiffer
  <2>1. /\ Len(members[m]) = Len(group.members[m])
        /\ \A k \in 1..Len(group.members[m]) :
             members[m][k] = IF <<m, k>> \in dropped THEN None ELSE group.members[m][k]
    BY <1>1 DEF OnlyDroppedDiffer
  <2>2. CASE m = top
    <3>1. 1..Len(group.members[m]) = DOMAIN members[top]
      BY <2>1, <2>2, <1>2
    <3> QED BY <3>1, <2>1, <2>2, <1>1, <1>4
  <2>3. CASE m # top
    BY <2>1, <2>3, <1>1, <1>3
  <2> QED BY <2>2, <2>3
<1>8. ~Passed(top, p)
  <2>1. \A i \in DOMAIN frames : frames[i].morph = top => ~(p <= frames[i].passed)
    BY <1>2, <1>5 DEF p
  <2> QED BY <2>1, <1>2 DEF Passed
<1>9. ASSUME NEW m \in group.composite, NEW k \in DOMAIN members[m]
      PROVE  /\ DOMAIN members'[m] = DOMAIN members[m]
             /\ Passed(m, k) => Passed(m, k)' /\ members'[m][k] = members[m][k]
  <2>1. m \in Morphs /\ k \in Int
    BY <1>1 DEF GroupTypeOK
  <2>2. Passed(m, k) => Passed(m, k)'
    BY <2>1, <1>1, PastKeeps DEF GroupInv
  <2>3. CASE m = top
    <3>1. k = p => ~Passed(m, k)
      BY <2>3, <1>8
    <3> QED BY <3>1, <2>2, <2>3, <1>4
  <2>4. CASE m # top
    BY <2>1, <2>2, <2>4, <1>3
  <2> QED BY <2>3, <2>4
<1>10. \A m \in group.composite : DOMAIN members'[m] = DOMAIN members[m]
  <2> SUFFICES ASSUME NEW m \in group.composite PROVE DOMAIN members'[m] = DOMAIN members[m]
    OBVIOUS
  <2>1. m \in Morphs
    BY <1>1 DEF GroupTypeOK
  <2> QED BY <2>1, <1>3, <1>4
<1>11. ASSUME NEW d \in dropped PROVE Closing(d)'
  <2>1. Closing(d)
    BY <1>1 DEF ClosingInv
  <2> HIDE DEF Passed
  <2> QED BY <2>1, <1>1, <1>9, <1>10, ClosingKept
<1>12. ASSUME NEW d, d = <<top, p>> PROVE Closing(d)'
  <2>1. group.members[top][p] = x
    <3>1. p \in 1..Len(group.members[top]) /\ x # None
      BY <1>1, <1>2 DEF OnlyDroppedDiffer, GroupTypeOK
    <3> QED BY <3>1, <1>1, <1>2 DEF OnlyDroppedDiffer, x
  <2>2. PICK j \in DOMAIN frames : frames[j].morph = x
    BY <1>1 DEF FramesAreThePath, GroupTypeOK
  <2>3. Closing(d)
    <3>1. d[1] = top /\ d[2] = p
      BY <1>12
    <3> SUFFICES ASSUME NEW F \in SUBSET Morphs, x \in F, FollowsPassed(F) PROVE top \in F
      BY <2>1, <3>1 DEF Closing
    <3> QED BY <2>2, <1>1, <1>2, WalkLeadsToTop DEF n, top
  <2> QED BY <2>3, <1>1, <1>9, <1>10, ClosingKept
<1>13. \A d \in dropped' : Closing(d)'
  BY <1>1, <1>11, <1>12
<1> QED BY <1>6, <1>7, <1>13 DEF ClosingInv

LEMMA DescendCloses == GroupInv /\ ClosingInv /\ Descend => ClosingInv'
<1> SUFFICES ASSUME GroupInv, ClosingInv, Descend PROVE ClosingInv'
  OBVIOUS
<1> DEFINE n == Len(frames)
           new == Member
<1>1. /\ Standing /\ Walking /\ at = "walk"
      /\ new \in group.composite /\ new \in Morphs /\ mark[new] = "unvisited"
      /\ new = members[Top.morph][Top.passed + 1]
      /\ mark' = [mark EXCEPT ![new] = "onWalk"]
      /\ frames' = Append(Past, [morph |-> new, passed |-> 0])
      /\ UNCHANGED <<group, members, at, first, dropped>>
      /\ mark \in [Morphs -> Settling] /\ WalkIsChained
  BY DEF Descend, Standing, Walking, GroupInv, Leads, Member, Frame, GroupTypeOK, ClosingInv
<1> HIDE DEF new
<1>2. /\ n \in Nat /\ n >= 1 /\ DOMAIN frames = 1..n /\ frames[n] = Top
      /\ Top.passed \in Nat /\ Top.morph \in Morphs
      /\ Top.passed + 1 \in DOMAIN members[Top.morph]
      /\ \A i \in 1..n : frames[i].passed \in Nat
  <2>1. Top.passed < Len(members[Top.morph]) /\ members[Top.morph] \in Seq(Morphs \cup {None})
    BY <1>1, TopFrame DEF Standing
  <2>2. /\ n \in Nat /\ n >= 1 /\ frames[n] = Top /\ Top.passed \in Nat /\ Top.morph \in Morphs
    BY <1>1, TopFrame
  <2>3. DOMAIN frames = 1..n /\ \A i \in 1..n : frames[i].passed \in Nat
    BY <1>1, FrameShape DEF GroupInv
  <2> QED BY <2>1, <2>2, <2>3
<1>3. /\ Len(frames') = n + 1 /\ DOMAIN frames' = 1..(n + 1)
      /\ frames'[n + 1].morph = new
      /\ frames'[n] = [morph |-> Top.morph, passed |-> Top.passed + 1]
      /\ \A i \in 1..(n - 1) : frames'[i] = frames[i]
  <2>1. /\ Past \in Seq(FrameSet) /\ Len(Past) = n
        /\ Past[n] = [morph |-> Top.morph, passed |-> Top.passed + 1]
        /\ \A i \in 1..(n - 1) : Past[i] = frames[i]
    BY <1>1, PastShape
  <2>2. [morph |-> new, passed |-> 0] \in FrameSet
    BY <1>1 DEF FrameSet
  <2>3. /\ frames' \in Seq(FrameSet) /\ Len(frames') = n + 1
        /\ frames'[n + 1] = [morph |-> new, passed |-> 0]
        /\ \A i \in 1..n : frames'[i] = Past[i]
    BY <1>1, <2>1, <2>2, OneMore
  <2>4. DOMAIN frames' = 1..(n + 1)
    BY <2>3, SequenceShape
  <2> QED BY <2>1, <2>3, <2>4, <1>2
<1>4. /\ n \in Nat /\ Len(frames') - 1 = n
      /\ \A i \in 1..n : i + 1 = n \/ i + 1 \in 1..(n - 1) \/ i = n
      /\ \A i \in 1..(n - 1) : /\ frames[i].passed \in DOMAIN members[frames[i].morph]
                              /\ members[frames[i].morph][frames[i].passed] = frames[i + 1].morph
  <2>1. \A i \in 1..(n - 1) : /\ frames[i].passed \in DOMAIN members[frames[i].morph]
                              /\ members[frames[i].morph][frames[i].passed] = frames[i + 1].morph
    BY <1>1 DEF WalkIsChained
  <2> HIDE DEF n
  <2>2. n \in Nat /\ Len(frames') - 1 = n
    BY <1>2, <1>3
  <2> QED BY <2>1, <2>2
<1> HIDE DEF n
<1>5. WalkIsChained'
  <2> SUFFICES ASSUME NEW i \in 1..n
               PROVE  /\ frames'[i].passed \in DOMAIN members[frames'[i].morph]
                      /\ members[frames'[i].morph][frames'[i].passed] = frames'[i + 1].morph
    BY <1>1, <1>4 DEF WalkIsChained
  <2>1. CASE i = n
    BY <2>1, <1>1, <1>2, <1>3
  <2>2. CASE i \in 1..(n - 1)
    <3>1. frames'[i + 1].morph = frames[i + 1].morph /\ frames'[i] = frames[i]
      <4>1. i + 1 = n \/ i + 1 \in 1..(n - 1)
        BY <2>2, <1>4
      <4> QED BY <4>1, <2>2, <1>2, <1>3
    <3>2. /\ frames[i].passed \in DOMAIN members[frames[i].morph]
          /\ members[frames[i].morph][frames[i].passed] = frames[i + 1].morph
      BY <2>2, <1>4
    <3> QED BY <3>1, <3>2
  <2> QED BY <2>1, <2>2, <1>2
<1>6. ASSUME NEW m \in group.composite, NEW k \in DOMAIN members[m], Passed(m, k)
      PROVE  Passed(m, k)'
  <2>0. k \in Int
    BY <1>1 DEF GroupInv, GroupTypeOK
  <2>1. CASE mark[m] = "settled"
    BY <2>1, <1>1 DEF Passed
  <2>2. ASSUME NEW i \in 1..n, frames[i].morph = m, k <= frames[i].passed
        PROVE  \E j \in 1..(n + 1) : frames'[j].morph = m /\ k <= frames'[j].passed
    <3>1. CASE i = n
      BY <3>1, <2>0, <2>2, <1>2, <1>3
    <3>2. CASE i \in 1..(n - 1)
      BY <3>2, <2>2, <1>2, <1>3
    <3> QED BY <3>1, <3>2, <1>2
  <2> QED BY <2>1, <2>2, <1>2, <1>3, <1>6 DEF Passed
<1> QED BY <1>1, <1>5, <1>6, ClosingUnchanged

LEMMA SkipCloses == GroupInv /\ ClosingInv /\ (Skip \/ EndWalk) => ClosingInv'
<1> SUFFICES ASSUME GroupInv, ClosingInv, Skip \/ EndWalk PROVE ClosingInv'
  OBVIOUS
<1>1. at = "walk" /\ UNCHANGED <<group, members, mark, frames, dropped>>
  BY DEF Skip, EndWalk
<1>2. WalkIsChained'
  BY <1>1 DEF ClosingInv, WalkIsChained
<1>3. \A m \in group.composite : \A k \in DOMAIN members[m] : Passed(m, k) => Passed(m, k)'
  BY <1>1 DEF Passed
<1> QED BY <1>1, <1>2, <1>3, ClosingUnchanged

LEMMA StutterCloses == ClosingInv /\ UNCHANGED groupVars => ClosingInv'
<1> SUFFICES ASSUME ClosingInv, UNCHANGED groupVars PROVE ClosingInv'
  OBVIOUS
<1>1. UNCHANGED <<group, members, at, mark, first, frames, dropped>>
  BY DEF groupVars
<1>2. \A d : Closing(d) => Closing(d)'
  BY <1>1 DEF Closing, FollowsPassed, Passed
<1>3. (WalkIsChained => WalkIsChained') /\ (OnlyDroppedDiffer => OnlyDroppedDiffer')
  BY <1>1 DEF WalkIsChained, OnlyDroppedDiffer
<1> QED BY <1>1, <1>2, <1>3 DEF ClosingInv

THEOREM ClosingIsInductive == GroupSpec => []ClosingInv
<1>1. InitGroups => ClosingInv
  <2> SUFFICES ASSUME InitGroups PROVE ClosingInv
    OBVIOUS
  <2>1. Len(frames) = 0 /\ dropped = {} /\ members = group.members
    BY DEF InitGroups
  <2> QED BY <2>1 DEF ClosingInv, WalkIsChained, OnlyDroppedDiffer
<1>2. GroupInv /\ ClosingInv /\ [BreakGroupCycles]_groupVars => ClosingInv'
  <2>1. Erase => ClosingInv'
    BY DEF Erase, ClosingInv
  <2> QED BY <2>1, EnterCloses, SkipCloses, LeaveCloses, PassCloses, DropCloses, DescendCloses,
             StutterCloses DEF BreakGroupCycles
<1> QED BY <1>1, <1>2, GroupIsInductive, PTL DEF GroupSpec

-----------------------------------------------------------------------------
(* What erasing leaves *)

\* Erasing nothing, when nothing was dropped, ranks every member too.
LEMMA NothingErased ==
  ASSUME NEW T, NEW s \in Seq(T), \A k \in 1..Len(s) : s[k] \in Morphs
  PROVE  Ranked(s, Morphs, s, Len(s))
<1>1. Len(s) \in Nat
  OBVIOUS
<1>2. ASSUME NEW k \in 0..Len(s)
      PROVE  KeptUpTo(s, Morphs, k) = 1..k /\ Cardinality(KeptUpTo(s, Morphs, k)) = k
  <2>1. KeptUpTo(s, Morphs, k) = 1..k
    BY <1>1 DEF KeptUpTo
  <2>2. k \in Nat /\ Cardinality(1..k) = k
    BY <1>1, FS_Interval
  <2> QED BY <2>1, <2>2
<1>3. Len(s) \in 0..Len(s) /\ \A k \in 1..Len(s) : k \in 0..Len(s)
  BY <1>1
<1> QED BY <1>2, <1>3 DEF Ranked

\* What Erase leaves of each morph's members.
LEMMA EraseRanks ==
  ASSUME GroupInv, ClosingInv, Erase, NEW m \in Morphs
  PROVE  /\ members[m] \in Seq(Morphs \cup {None})
         /\ Ranked(members[m], Morphs, members'[m], Len(members[m]))
<1>1. /\ at = "erase" /\ members' = IF dropped = {} THEN members ELSE [x \in Morphs |-> Erased(members[x])]
      /\ members[m] \in Seq(Morphs \cup {None}) /\ group.members[m] \in Seq(Morphs)
      /\ OnlyDroppedDiffer /\ None \notin Morphs
  BY DEF Erase, GroupInv, GroupTypeOK, ClosingInv
<1>2. CASE dropped = {}
  <2>1. ASSUME NEW k \in 1..Len(members[m]) PROVE members[m][k] # None
    <3>1. members[m][k] = group.members[m][k] /\ k \in 1..Len(group.members[m])
      BY <1>1, <1>2 DEF OnlyDroppedDiffer
    <3>2. group.members[m][k] \in Morphs
      BY <1>1, <3>1
    <3> QED BY <3>1, <3>2, <1>1
  <2> QED BY <2>1, <1>1, <1>2, NothingErased
<1>3. CASE dropped # {}
  <2>1. members'[m] = Erased(members[m])
    BY <1>1, <1>3
  <2> QED BY <2>1, <1>1, SelectedRanks DEF Erased
<1> QED BY <1>2, <1>3

\* The composite members of a morph are the same before and after.
LEMMA EraseKeepsMembers ==
  ASSUME GroupInv, ClosingInv, Erase, NEW m \in Morphs
  PROVE  Members(m)' = Members(m)
<1> DEFINE s == members[m]
           r == members'[m]
<1>1. /\ s \in Seq(Morphs \cup {None}) /\ Ranked(s, Morphs, r, Len(s)) /\ None \notin group.composite
      /\ group' = group
  BY EraseRanks DEF Erase, GroupInv, GroupTypeOK
<1>2. r = s \/ r = Erased(s)
  BY DEF Erase
<1>3. r \in Seq(Morphs \cup {None})
  BY <1>1, <1>2, SelectedRanks DEF Erased
<1>4. /\ DOMAIN r = 1..Len(r) /\ DOMAIN s = 1..Len(s) /\ Len(s) \in Nat
  BY <1>1, <1>3, SequenceShape
<1> HIDE DEF s, r
<1>5. ASSUME NEW j \in 1..Len(r) PROVE \E l \in 1..Len(s) : r[j] = s[l]
  BY <1>1 DEF Ranked, KeptUpTo
<1>6. ASSUME NEW l \in 1..Len(s), s[l] # None PROVE \E j \in 1..Len(r) : r[j] = s[l]
  <2>1. l \in KeptUpTo(s, Morphs, Len(s))
    <3>1. s[l] \in Morphs
      BY <1>1, <1>6, SequenceShape
    <3> QED BY <3>1 DEF KeptUpTo
  <2> QED BY <2>1, <1>1 DEF Ranked
<1>7. ASSUME NEW x \in group.composite
      PROVE  x \in {r[k] : k \in DOMAIN r} <=> x \in {s[k] : k \in DOMAIN s}
  <2>1. ASSUME NEW k \in DOMAIN r, x = r[k] PROVE x \in {s[l] : l \in DOMAIN s}
    <3>1. PICK l \in 1..Len(s) : r[k] = s[l]
      BY <2>1, <1>4, <1>5
    <3> QED BY <3>1, <2>1, <1>4
  <2>2. ASSUME NEW l \in DOMAIN s, x = s[l] PROVE x \in {r[k] : k \in DOMAIN r}
    <3>1. PICK k \in 1..Len(r) : r[k] = s[l]
      BY <2>2, <1>1, <1>4, <1>6
    <3> QED BY <3>1, <2>2, <1>4
  <2> QED BY <2>1, <2>2
<1>8. {r[k] : k \in DOMAIN r} \cap group.composite = {s[k] : k \in DOMAIN s} \cap group.composite
  BY <1>7
<1> QED BY <1>1, <1>8 DEF Members, s, r

\* Read back from the ranks, only what was dropped is gone.
LEMMA EraseKeepsOrder ==
  ASSUME GroupInv, ClosingInv, Erase, NEW m \in Morphs
  PROVE  KeepsOrder(m, Undropped(m))'
<1> DEFINE s == members[m]
           g == group.members[m]
           kept == Undropped(m)
<1>1. /\ s \in Seq(Morphs \cup {None}) /\ g \in Seq(Morphs) /\ None \notin Morphs
      /\ OnlyDroppedDiffer /\ Ranked(s, Morphs, members'[m], Len(s))
  BY EraseRanks DEF Erase, GroupInv, GroupTypeOK, ClosingInv
<1>2. /\ Len(s) = Len(g) /\ Len(s) \in Nat /\ DOMAIN g = 1..Len(s)
      /\ \A k \in 1..Len(s) : g[k] # None /\ s[k] = IF <<m, k>> \in dropped THEN None ELSE g[k]
  <2>1. /\ Len(s) = Len(g) /\ \A k \in 1..Len(g) : s[k] = IF <<m, k>> \in dropped THEN None ELSE g[k]
    BY <1>1 DEF OnlyDroppedDiffer
  <2>2. Len(g) \in Nat /\ DOMAIN g = 1..Len(g) /\ \A k \in 1..Len(g) : g[k] \in Morphs
    BY <1>1, SequenceShape
  <2> QED BY <2>1, <2>2, <1>1
<1>3. kept = KeptUpTo(s, Morphs, Len(s))
  <2>1. \A k \in 1..Len(s) : g[k] \in Morphs
    BY <1>1, <1>2, SequenceShape
  <2>2. \A k \in 1..Len(s) : s[k] \in Morphs <=> <<m, k>> \notin dropped
    BY <2>1, <1>1, <1>2
  <2> QED BY <2>2, <1>2 DEF KeptUpTo, Undropped
<1>4. ASSUME NEW k \in kept PROVE {l \in kept : l <= k} = KeptUpTo(s, Morphs, k) /\ s[k] = g[k]
  <2>1. {l \in kept : l <= k} = KeptUpTo(s, Morphs, k)
    BY <1>2, <1>3, <1>4 DEF KeptUpTo
  <2> QED BY <2>1, <1>2, <1>4 DEF Undropped
<1> HIDE DEF s, g
<1>5. Len(members'[m]) = Cardinality(kept)
  BY <1>1, <1>3 DEF Ranked
<1>6. ASSUME NEW k \in kept
      PROVE  members'[m][Cardinality({l \in kept : l <= k})] = g[k]
  <2>1. k \in KeptUpTo(s, Morphs, Len(s))
    BY <1>3
  <2>2. members'[m][Cardinality(KeptUpTo(s, Morphs, k))] = s[k]
    BY <2>1, <1>1 DEF Ranked
  <2> HIDE DEF kept
  <2> QED BY <2>2, <1>4
<1>7. Undropped(m)' = kept /\ group'.members[m] = g
  BY DEF Erase, Undropped, g
<1> QED BY <1>5, <1>6, <1>7 DEF KeepsOrder

LEMMA NoCycleToErase == GroupInv /\ at = "erase" => NoGroupCycle
<1> SUFFICES ASSUME GroupInv, at = "erase", NEW T \in SUBSET group.composite, T # {}
             PROVE  \E m \in T : Members(m) \cap T = {}
  BY DEF NoGroupCycle
<1>1. group.composite \subseteq SettledMorphs
  BY MAssumption DEF GroupInv, GroupTypeOK, SettledExpand, Morphs
<1>2. PICK m \in T : \A k \in DOMAIN members[m] : members[m][k] \notin T
  BY <1>1 DEF GroupInv, SettledExpand, Expandable
<1> QED BY <1>2 DEF Members

\* Once erased: every set of morphs that follows the members left has followed
\* those passed.
LEMMA EraseDone == GroupInv /\ ClosingInv /\ Erase => OnlyClosersDropped' /\ NoGroupCycle'
<1> SUFFICES ASSUME GroupInv, ClosingInv, Erase PROVE OnlyClosersDropped' /\ NoGroupCycle'
  OBVIOUS
<1>1. /\ at = "erase" /\ at' = "done" /\ UNCHANGED <<group, dropped>>
      /\ group.composite \subseteq Morphs /\ members \in [Morphs -> Seq(Morphs \cup {None})]
      /\ OnlyDroppedDiffer
  BY DEF Erase, GroupInv, GroupTypeOK, ClosingInv
<1>2. \A m \in Morphs : Members(m)' = Members(m)
  BY EraseKeepsMembers
<1>3. NoGroupCycle'
  <2>1. \A T \in SUBSET group.composite : T # {} => \E m \in T : Members(m) \cap T = {}
    BY <1>1, NoCycleToErase DEF NoGroupCycle
  <2> SUFFICES ASSUME NEW T \in SUBSET group.composite, T # {}
               PROVE  \E m \in T : Members(m)' \cap T = {}
    BY <1>1 DEF NoGroupCycle
  <2>2. PICK m \in T : Members(m) \cap T = {}
    BY <2>1
  <2>3. Members(m)' = Members(m)
    BY <1>1, <1>2
  <2> QED BY <2>2, <2>3
<1>4. ASSUME NEW d \in dropped PROVE d[1] \in Reached(group.members[d[1]][d[2]])'
  <2>0. group.members[d[1]][d[2]]' = group.members[d[1]][d[2]]
    BY <1>1
  <2> SUFFICES ASSUME NEW F \in SUBSET Morphs, group.members[d[1]][d[2]] \in F,
                      \A y \in F \cap group.composite : Members(y)' \subseteq F
               PROVE  d[1] \in F
    BY <1>1, <2>0 DEF Reached, OnlyDroppedDiffer
  <2>1. FollowsPassed(F)
    <3> SUFFICES ASSUME NEW m \in F \cap group.composite, NEW k \in DOMAIN members[m],
                        members[m][k] \in group.composite
                 PROVE  members[m][k] \in F
      BY DEF FollowsPassed
    <3>1. members[m][k] \in Members(m) /\ Members(m)' = Members(m)
      BY <1>1, <1>2 DEF Members
    <3> QED BY <3>1
  <2> QED BY <2>1, <1>1 DEF ClosingInv, Closing
<1>5. OnlyClosersDropped'
  <2>1. \A m \in Morphs : KeepsOrder(m, Undropped(m))'
    BY EraseKeepsOrder
  <2>2. \A d \in dropped' : d[1] \in Reached(group.members[d[1]][d[2]])'
    BY <1>1, <1>4
  <2> QED BY <2>1, <2>2 DEF OnlyClosersDropped
<1> QED BY <1>3, <1>5

-----------------------------------------------------------------------------
(* Theorems about the walk *)

DoneInv == at # "walk" => NoGroupCycle /\ OnlyClosersDropped

LEMMA DoneIsInductive == GroupSpec => []DoneInv
<1>1. InitGroups => DoneInv
  BY DEF InitGroups, DoneInv
<1>2. GroupInv' /\ GroupInv /\ ClosingInv /\ DoneInv /\ [BreakGroupCycles]_groupVars => DoneInv'
  <2> SUFFICES ASSUME GroupInv', GroupInv, ClosingInv, DoneInv, [BreakGroupCycles]_groupVars
               PROVE  DoneInv'
    OBVIOUS
  <2>1. CASE Erase
    BY <2>1, EraseDone DEF DoneInv
  <2>2. CASE Enter \/ Skip \/ Leave \/ Pass \/ Drop \/ Descend
    BY <2>2 DEF Enter, Skip, Leave, Pass, Drop, Descend, Standing, Walking, DoneInv
  <2>3. CASE EndWalk
    <3>1. at' = "erase"
      BY <2>3 DEF EndWalk
    <3>2. (GroupInv /\ at = "erase" => NoGroupCycle)'
      BY NoCycleToErase, PTL
    <3>3. OnlyClosersDropped'
      BY <3>1 DEF OnlyClosersDropped
    <3> QED BY <3>1, <3>2, <3>3 DEF DoneInv
  <2>4. CASE UNCHANGED groupVars
    <3>1. UNCHANGED <<group, members, at, dropped>>
      BY <2>4 DEF groupVars
    <3>2. \A m : Members(m)' = Members(m)
      BY <3>1 DEF Members
    <3>3. \A m : Reached(m)' = Reached(m)
      BY <3>1, <3>2 DEF Reached
    <3>4. NoGroupCycle => NoGroupCycle'
      BY <3>1, <3>2 DEF NoGroupCycle
    <3>5. \A m : KeepsOrder(m, Undropped(m))' <=> KeepsOrder(m, Undropped(m))
      BY <3>1, Zenon DEF KeepsOrder, Undropped
    <3>6. OnlyClosersDropped => OnlyClosersDropped'
      BY <3>1, <3>3, <3>5 DEF OnlyClosersDropped
    <3> QED BY <3>1, <3>4, <3>6 DEF DoneInv
  <2> QED BY <2>1, <2>2, <2>3, <2>4 DEF BreakGroupCycles
<1> QED BY <1>1, <1>2, GroupIsInductive, ClosingIsInductive, PTL DEF GroupSpec

\* For every number of morphs and every member table a file can hold, what the
\* walk leaves has no cycle, so expanding a group morph terminates.
THEOREM NoCycleSurvives == GroupSpec => []NoGroupCycle
<1>1. DoneInv => NoGroupCycle
  BY DEF DoneInv, NoGroupCycle
<1> QED BY <1>1, DoneIsInductive, PTL

\* The walk drops no member it need not drop: each would lead back to its own
\* morph through the members that are left, and those keep their order.
THEOREM OnlyClosersAreDropped == GroupSpec => []OnlyClosersDropped
<1>1. DoneInv => OnlyClosersDropped
  BY DEF DoneInv, OnlyClosersDropped
<1> QED BY <1>1, DoneIsInductive, PTL

-----------------------------------------------------------------------------
(* The canonicalizer *)

\* The skeleton phase is OrderJoints: no later phase touches its state.
THEOREM SkeletonIsOrderJoints == CanonSpec => Spec
<1>1. CanonInit => Init
  BY DEF CanonInit
<1>2. [CanonNext]_<<canonVars, vars, groupVars>> => [Next]_vars
  BY DEF CanonNext, Skeleton, MeshAndSkinning, BoneOffsets, GroupsBroken, Rig, Physics
<1> QED BY <1>1, <1>2, PTL DEF CanonSpec, Spec

\* The morph phase ends with the group cycle walk of module GroupCycles.
THEOREM MorphsBreakCycles == CanonSpec => GroupSpec
<1>1. CanonInit => InitGroups
  BY DEF CanonInit
<1>2. [CanonNext]_<<canonVars, vars, groupVars>> => [BreakGroupCycles]_groupVars
  BY DEF CanonNext, Skeleton, MeshAndSkinning, BoneOffsets, GroupsBroken, Rig, Physics
<1> QED BY <1>1, <1>2, PTL DEF CanonSpec, GroupSpec

\* In every canonical document the joint order is a permutation of the bones
\* with parents first.
THEOREM CanonicalOrder == CanonSpec => []ParentsFirst
BY SkeletonIsOrderJoints, ParentsComeFirst, PTL

\* What each phase made: no later phase touches it or what it was made from.
SkeletonMade ==
  /\ jointOf = [b \in Bones |-> CHOOSE c \in Bones : SourceIndex(c) = b]
  /\ bones = [c \in Bones |-> [sourceIndex |-> SourceIndex(c),
                               parent |-> LET p == parents[SourceIndex(c)]
                                          IN  IF p = Root THEN None ELSE jointOf[p]]]
OffsetsMade ==
  LET kept == Selected(doc.boneOffsets, Bones) IN offsets = [i \in DOMAIN kept |-> jointOf[kept[i]]]
RigMade ==
  /\ controls = [c \in Bones |-> ControlOf(c)]
  /\ chains = [i \in DOMAIN Owners |-> ChainOfBone(Owners[i])]
SkinMade ==
  skin = IF N = 0 THEN <<>> ELSE [i \in DOMAIN doc.vertices |-> Influences(doc.vertices[i])]
BodiesMade == bodies = [i \in DOMAIN doc.bodies |-> Joint(doc.bodies[i])]

CanonInv ==
  /\ doc \in Documents
  /\ phase # "skeleton" => pc = "done" /\ SkeletonMade
  /\ phase \in {"morphs", "groups", "rig", "physics", "done"} => SkinMade
  /\ phase \in {"groups", "rig", "physics", "done"} => OffsetsMade
  /\ phase \in {"physics", "done"} => RigMade
  /\ phase = "done" => BodiesMade

LEMMA SkeletonStays ==
  ASSUME SkeletonMade, UNCHANGED <<jointOf, bones, order, parents>>
  PROVE  SkeletonMade'
BY DEF SkeletonMade, SourceIndex

LEMMA SkinStays ==
  ASSUME SkinMade, UNCHANGED <<skin, doc, jointOf>>
  PROVE  SkinMade'
<1>1. \A v : Influences(v)' = Influences(v)
  BY DEF Influences
<1> QED BY <1>1 DEF SkinMade

LEMMA OffsetsStay ==
  ASSUME OffsetsMade, UNCHANGED <<offsets, doc, jointOf>>
  PROVE  OffsetsMade'
BY DEF OffsetsMade

LEMMA RigStays ==
  ASSUME RigMade, UNCHANGED <<controls, chains, doc, bones, jointOf>>
  PROVE  RigMade'
<1>1. \A b : Joint(b)' = Joint(b)
  BY DEF Joint
<1>2. \A b : HasEffector(b)' = HasEffector(b)
  BY <1>1 DEF HasEffector
<1>3. \A b : ChainOfBone(b)' = ChainOfBone(b)
  BY <1>1 DEF ChainOfBone
<1>4. \A c : ControlOf(c)' = ControlOf(c)
  BY <1>1 DEF ControlOf
<1>5. Owners' = Owners
  BY <1>2 DEF Owners
<1> QED BY <1>3, <1>4, <1>5 DEF RigMade

LEMMA BodiesStay ==
  ASSUME BodiesMade, UNCHANGED <<bodies, doc, jointOf>>
  PROVE  BodiesMade'
BY DEF BodiesMade, Joint

THEOREM CanonIsInductive == CanonSpec => []CanonInv
<1>1. CanonInit => CanonInv
  BY DEF CanonInit, CanonInv
<1>2. CanonInv /\ [CanonNext]_<<canonVars, vars, groupVars>> => CanonInv'
  <2> SUFFICES ASSUME CanonInv, [CanonNext]_<<canonVars, vars, groupVars>> PROVE CanonInv'
    OBVIOUS
  <2>1. CASE phase = "skeleton" /\ Next /\ UNCHANGED <<canonVars, groupVars>>
    BY <2>1 DEF CanonInv, canonVars
  <2>2. CASE \/ phase = "groups" /\ BreakGroupCycles /\ UNCHANGED <<canonVars, vars>>
             \/ UNCHANGED <<canonVars, vars, groupVars>>
    <3>1. /\ UNCHANGED <<phase, doc, jointOf, bones, skin, offsets, controls, chains, bodies>>
          /\ UNCHANGED <<pc, order, parents>>
      BY <2>2 DEF canonVars, vars
    <3> QED BY <3>1, SkeletonStays, SkinStays, OffsetsStay, RigStays, BodiesStay DEF CanonInv
  <2>3. CASE Skeleton
    <3>1. /\ phase' = "mesh" /\ pc' = "done" /\ UNCHANGED <<doc, order, parents>>
          /\ jointOf' = [b \in Bones |-> CHOOSE c \in Bones : SourceIndex(c) = b]
          /\ bones' = [c \in Bones |-> [sourceIndex |-> SourceIndex(c),
                                       parent |-> LET p == parents[SourceIndex(c)]
                                                  IN  IF p = Root THEN None ELSE jointOf'[p]]]
      BY <2>3 DEF Skeleton, vars
    <3>2. SkeletonMade'
      BY <3>1 DEF SkeletonMade, SourceIndex
    <3> QED BY <3>1, <3>2 DEF CanonInv
  <2>4. CASE MeshAndSkinning
    <3>1. /\ phase = "mesh" /\ phase' = "morphs"
          /\ UNCHANGED <<doc, jointOf, bones, pc, order, parents>>
      BY <2>4 DEF MeshAndSkinning, vars
    <3>2. SkinMade'
      <4>1. \A v : Influences(v)' = Influences(v)
        BY <3>1 DEF Influences
      <4> QED BY <2>4, <3>1, <4>1 DEF MeshAndSkinning, SkinMade
    <3> QED BY <3>1, <3>2, SkeletonStays DEF CanonInv
  <2>8. CASE GroupsBroken
    <3>1. /\ phase = "groups" /\ phase' = "rig"
          /\ UNCHANGED <<doc, jointOf, bones, skin, offsets, controls, chains, bodies, pc, order, parents>>
      BY <2>8 DEF GroupsBroken, vars
    <3> QED BY <3>1, SkeletonStays, SkinStays, OffsetsStay DEF CanonInv
  <2>5. CASE BoneOffsets
    <3>1. /\ phase = "morphs" /\ phase' = "groups"
          /\ UNCHANGED <<doc, jointOf, bones, skin, pc, order, parents>>
      BY <2>5 DEF BoneOffsets, vars
    <3>2. OffsetsMade'
      BY <2>5, <3>1 DEF BoneOffsets, OffsetsMade
    <3> QED BY <3>1, <3>2, SkeletonStays, SkinStays DEF CanonInv
  <2>6. CASE Rig
    <3>1. /\ phase = "rig" /\ phase' = "physics"
          /\ UNCHANGED <<doc, jointOf, bones, skin, offsets, pc, order, parents>>
      BY <2>6 DEF Rig, vars
    <3>2. RigMade'
      <4>1. \A b : Joint(b)' = Joint(b)
        BY <3>1 DEF Joint
      <4>2. \A b : HasEffector(b)' = HasEffector(b)
        BY <3>1, <4>1 DEF HasEffector
      <4>3. \A b : ChainOfBone(b)' = ChainOfBone(b)
        BY <3>1, <4>1 DEF ChainOfBone
      <4>4. \A c : ControlOf(c)' = ControlOf(c)
        BY <3>1, <4>1 DEF ControlOf
      <4>5. Owners' = Owners
        BY <4>2 DEF Owners
      <4> QED BY <2>6, <4>3, <4>4, <4>5 DEF RigMade, Rig
    <3> QED BY <3>1, <3>2, SkeletonStays, SkinStays, OffsetsStay DEF CanonInv
  <2>7. CASE Physics
    <3>1. /\ phase = "physics" /\ phase' = "done"
          /\ UNCHANGED <<doc, jointOf, bones, skin, offsets, controls, chains, pc, order, parents>>
      BY <2>7 DEF Physics, vars
    <3>2. BodiesMade'
      BY <2>7, <3>1 DEF Physics, BodiesMade, Joint
    <3> QED BY <3>1, <3>2, SkeletonStays, SkinStays, OffsetsStay, RigStays DEF CanonInv
  <2> QED BY <2>1, <2>2, <2>3, <2>4, <2>5, <2>6, <2>7, <2>8 DEF CanonNext
<1> QED BY <1>1, <1>2, PTL DEF CanonSpec

\* The order is a bijection between the canonical indices and the bones.
LEMMA OrderIsBijective ==
  ASSUME OrderInv, pc = "done"
  PROVE  /\ Len(order) = N /\ \A c \in Bones : c + 1 \in 1..Len(order) /\ order[c + 1] \in Bones
         /\ \A b \in Bones : \E c \in Bones : order[c + 1] = b
         /\ \A c, k \in Bones : order[c + 1] = order[k + 1] => c = k
<1> DEFINE I == 1..Len(order)
<1>1. /\ Elements(order) = Bones /\ Len(order) \in Nat /\ order \in [I -> Bones]
      /\ \A i, k \in I : order[i] = order[k] => i = k
  BY NothingLeft DEF OrderInv, TypeOK, EmittedInOrder
<1>2. order \in Injection(I, Bones) /\ order \in Surjection(I, Bones)
  <2>1. \A b \in Bones : \E i \in I : order[i] = b
    BY <1>1 DEF Elements
  <2> HIDE DEF I
  <2> QED BY <1>1, <2>1 DEF Injection, Surjection, IsInjective
<1>3. Cardinality(I) = Cardinality(Bones)
  <2> HIDE DEF I
  <2> QED BY <1>2, BonesAreNaturals, FS_Injection
<1>4. Cardinality(I) = Len(order) /\ Cardinality(Bones) = N
  <2>1. Cardinality(1..Len(order)) = Len(order)
    BY <1>1, FS_Interval
  <2>2. Cardinality(0..(N - 1)) = N
    <3>1. 0 \in Int /\ N - 1 \in Int /\ N \in Nat
      BY NAssumption
    <3>2. Cardinality(0..(N - 1)) = IF 0 > N - 1 THEN 0 ELSE (N - 1) - 0 + 1
      BY <3>1, FS_Interval
    <3> QED BY <3>1, <3>2
  <2> QED BY <2>1, <2>2 DEF Bones
<1>5. Len(order) = N
  BY <1>3, <1>4
<1>6. \A c \in Bones : c \in Nat /\ c + 1 \in I
  BY <1>5, NAssumption DEF Bones
<1>7. \A i \in I : i - 1 \in Bones /\ (i - 1) + 1 = i
  BY <1>5, NAssumption DEF Bones
<1>8. ASSUME NEW b \in Bones PROVE \E c \in Bones : order[c + 1] = b
  <2>1. PICK i \in I : order[i] = b
    BY <1>1 DEF Elements
  <2>2. order[(i - 1) + 1] = b
    BY <1>7, <2>1
  <2> QED BY <1>7, <2>2
<1>9. \A c, k \in Bones : order[c + 1] = order[k + 1] => c = k
  <2>1. \A c, k \in Bones : order[c + 1] = order[k + 1] => c + 1 = k + 1
    BY <1>1, <1>6
  <2> QED BY <2>1, <1>6
<1> QED BY <1>1, <1>5, <1>6, <1>8, <1>9

\* Joint and BoneOf are inverse where there is a bone.
LEMMA JointsAreBones ==
  ASSUME OrderInv, pc = "done", SkeletonMade
  PROVE  /\ \A b \in Bones : jointOf[b] \in Bones /\ order[jointOf[b] + 1] = b
         /\ \A c \in Bones : BoneOf(c) \in Bones /\ BoneOf(c) = order[c + 1] /\ jointOf[BoneOf(c)] = c
         /\ \A b \in Bones : BoneOf(jointOf[b]) = b
         /\ \A x : BoneOf(Joint(x)) = Kept(x) /\ (Joint(x) # None <=> x \in Bones)
<1>1. ASSUME NEW b \in Bones PROVE jointOf[b] \in Bones /\ order[jointOf[b] + 1] = b
  <2>1. jointOf[b] = CHOOSE c \in Bones : order[c + 1] = b
    BY DEF SkeletonMade, SourceIndex
  <2>2. \E c \in Bones : order[c + 1] = b
    BY OrderIsBijective
  <2> QED BY <2>1, <2>2
<1>2. ASSUME NEW c \in Bones
      PROVE  BoneOf(c) \in Bones /\ BoneOf(c) = order[c + 1] /\ jointOf[BoneOf(c)] = c
  <2>1. bones[c].sourceIndex = order[c + 1] /\ order[c + 1] \in Bones
    BY OrderIsBijective DEF SkeletonMade, SourceIndex
  <2>2. BoneOf(c) = order[c + 1]
    BY <2>1, NoneAssumption DEF BoneOf
  <2>3. jointOf[order[c + 1]] \in Bones /\ order[jointOf[order[c + 1]] + 1] = order[c + 1]
    BY <2>1, <1>1
  <2>4. jointOf[order[c + 1]] = c
    BY <2>3, OrderIsBijective
  <2> QED BY <2>1, <2>2, <2>4
<1>3. \A b \in Bones : BoneOf(jointOf[b]) = b
  BY <1>1, <1>2
<1>4. \A x : BoneOf(Joint(x)) = Kept(x) /\ (Joint(x) # None <=> x \in Bones)
  BY <1>1, <1>3, NoneAssumption DEF BoneOf, Joint, Kept
<1> QED BY <1>1, <1>2, <1>3, <1>4

LEMMA ParentJoint ==
  ASSUME OrderInv, pc = "done", SkeletonMade, NEW c \in Bones
  PROVE  /\ BoneOf(bones[c].parent) = Kept(parents[BoneOf(c)])
         /\ bones[c].parent # None => bones[c].parent < c
<1> DEFINE p == parents[BoneOf(c)]
<1>1. BoneOf(c) \in Bones /\ BoneOf(c) = order[c + 1] /\ p \in Bones \cup {Root} /\ Root \notin Bones
  BY JointsAreBones, RootedType DEF OrderInv, TypeOK
<1>2. bones[c].parent = IF p = Root THEN None ELSE jointOf[p]
  <2>1. bones[c] = [sourceIndex |-> order[c + 1],
                    parent |-> IF parents[order[c + 1]] = Root THEN None
                               ELSE jointOf[parents[order[c + 1]]]]
    BY DEF SkeletonMade, SourceIndex
  <2> QED BY <1>1, <2>1
<1>3. BoneOf(bones[c].parent) = Kept(p)
  BY <1>1, <1>2, JointsAreBones DEF BoneOf, Kept
<1>4. ASSUME p # Root PROVE jointOf[p] < c
  <2>1. p \in Bones /\ c + 1 \in 1..Len(order) /\ c \in Nat /\ jointOf[p] \in Nat /\ Len(order) \in Nat
    <3>1. p \in Bones /\ jointOf[p] \in Bones
      BY <1>1, <1>4, JointsAreBones
    <3>2. p \in Bones /\ jointOf[p] \in Nat /\ c \in Nat
      BY <3>1, BonesAreNaturals
    <3> HIDE DEF p
    <3> QED BY <3>2, OrderIsBijective DEF OrderInv, TypeOK
  <2>2. PICK k \in 1..c : order[k] = p
    <3>1. \E k \in 1..((c + 1) - 1) : order[k] = p
      BY <2>1, <1>1, <1>4 DEF OrderInv, EmittedInOrder
    <3>2. (c + 1) - 1 = c
      BY <2>1
    <3> QED BY <3>1, <3>2
  <2>3. order[jointOf[p] + 1] = p /\ jointOf[p] + 1 \in 1..Len(order)
    BY <2>1, JointsAreBones, OrderIsBijective
  <2>4. k \in 1..Len(order)
    BY <2>1
  <2>5. jointOf[p] + 1 = k
    BY <2>2, <2>3, <2>4 DEF OrderInv, EmittedInOrder
  <2> QED BY <2>1, <2>5
<1> QED BY <1>2, <1>3, <1>4

\* The owners are the IK bones with an effector, in the order of the table.
LEMMA OwnersAscend ==
  /\ Owners \in Seq(Int)
  /\ {Owners[i] : i \in 1..Len(Owners)} = {b \in Bones : HasEffector(b)}
  /\ \A i, k \in 1..Len(Owners) : i < k => Owners[i] < Owners[k]
<1> DEFINE table == [i \in 1..N |-> i - 1]
           owning == {b \in Bones : HasEffector(b)}
<1>1. table \in Seq(Int) /\ Len(table) = N /\ \A i \in 1..N : table[i] = i - 1
  BY NAssumption
<1>2. \A i, k \in 1..Len(table) : i < k => table[i] < table[k]
  BY <1>1, NAssumption
<1>3. {table[i] : i \in 1..Len(table)} \cap owning = owning
  <2>1. ASSUME NEW b \in owning PROVE b \in {table[i] : i \in 1..Len(table)}
    <3>1. b + 1 \in 1..N /\ (b + 1) - 1 = b
      BY NAssumption DEF Bones
    <3>2. table[b + 1] = b
      BY <3>1, <1>1
    <3> HIDE DEF table
    <3> QED BY <3>1, <3>2, <1>1
  <2> QED BY <2>1
<1>4. Owners = Selected(table, owning)
  BY DEF Owners
<1> HIDE DEF table, owning
<1>5. Selected(table, owning) \in Seq(Int)
  BY <1>1, SelectedRanks
<1>6. {Selected(table, owning)[i] : i \in 1..Len(Selected(table, owning))} = owning
  <2>1. {Selected(table, owning)[k] : k \in 1..Len(Selected(table, owning))}
          = {table[k] : k \in 1..Len(table)} \cap owning
    <3>1. table \in Seq(Int)
      BY <1>1
    <3> QED BY <3>1, SelectedMembers
  <2> QED BY <2>1, <1>3
<1>7. \A i, k \in 1..Len(Selected(table, owning)) : i < k => Selected(table, owning)[i] < Selected(table, owning)[k]
  BY <1>1, <1>2, SelectedAscends
<1> QED BY <1>4, <1>5, <1>6, <1>7 DEF owning

\* The chain of an IK bone.
LEMMA ChainLeads ==
  ASSUME OrderInv, pc = "done", SkeletonMade, doc \in Documents,
         NEW b \in Bones, HasEffector(b)
  PROVE  /\ BoneOf(ChainOfBone(b).joint) = b /\ ChainOfBone(b).joint = jointOf[b]
         /\ BoneOf(ChainOfBone(b).effector) = doc.ik[b].target
         /\ {BoneOf(ChainOfBone(b).links[k]) : k \in DOMAIN ChainOfBone(b).links}
              = {doc.ik[b].links[k] : k \in DOMAIN doc.ik[b].links} \cap Bones
<1> DEFINE named == doc.ik[b].links
           S == {l \in Elements(named) : Joint(l) # None}
           kept == Selected(named, S)
           mapped == [i \in DOMAIN kept |-> Joint(kept[i])]
<1>1. named \in Seq(Int) /\ DOMAIN named = 1..Len(named)
  BY DocumentsAssumption, SequenceShape DEF HasEffector
<1>2. /\ ChainOfBone(b).joint = jointOf[b] /\ ChainOfBone(b).effector = Joint(doc.ik[b].target)
      /\ ChainOfBone(b).links = mapped
  BY DEF ChainOfBone
<1>3. S = Elements(named) \cap Bones
  BY JointsAreBones
<1>4. doc.ik[b].target \in Bones
  BY JointsAreBones DEF HasEffector
<1> HIDE DEF S
<1>5. kept \in Seq(Int) /\ DOMAIN kept = 1..Len(kept)
      /\ {kept[k] : k \in 1..Len(kept)} = {named[k] : k \in 1..Len(named)} \cap S
  <2> HIDE DEF named
  <2>1. kept \in Seq(Int)
    BY <1>1, SelectedRanks
  <2>2. {kept[k] : k \in 1..Len(kept)} = {named[k] : k \in 1..Len(named)} \cap S
    BY <1>1, SelectedMembers
  <2> QED BY <2>1, <2>2, SequenceShape
<1> HIDE DEF kept, named
<1>6. {kept[k] : k \in DOMAIN kept} = {named[k] : k \in DOMAIN named} \cap Bones
  BY <1>1, <1>3, <1>5 DEF Elements
<1>7. DOMAIN mapped = DOMAIN kept /\ \A k \in DOMAIN kept : BoneOf(mapped[k]) = kept[k]
  BY <1>6, JointsAreBones DEF Kept
<1> HIDE DEF mapped
<1>8. {BoneOf(mapped[k]) : k \in DOMAIN mapped} = {named[k] : k \in DOMAIN named} \cap Bones
  BY <1>6, <1>7
<1>9. {BoneOf(ChainOfBone(b).links[k]) : k \in DOMAIN ChainOfBone(b).links}
        = {doc.ik[b].links[k] : k \in DOMAIN doc.ik[b].links} \cap Bones
  BY <1>2, <1>8 DEF named
<1> QED BY <1>2, <1>4, <1>9, JointsAreBones DEF Kept

LEMMA RelationsHold ==
  ASSUME OrderInv, CanonInv, phase = "done"
  PROVE  RelationsFollowBones
<1>1. /\ doc \in Documents /\ pc = "done" /\ SkeletonMade /\ OffsetsMade /\ RigMade /\ BodiesMade
  BY DEF CanonInv
<1>2. /\ DOMAIN chains = 1..Len(Owners) /\ DOMAIN Owners = 1..Len(Owners)
      /\ \A i \in 1..Len(Owners) : /\ chains[i] = ChainOfBone(Owners[i])
                                   /\ Owners[i] \in Bones /\ HasEffector(Owners[i])
  <2>1. DOMAIN Owners = 1..Len(Owners)
    BY OwnersAscend, SequenceShape
  <2>2. \A i \in 1..Len(Owners) : Owners[i] \in Bones /\ HasEffector(Owners[i])
    BY OwnersAscend
  <2> QED BY <1>1, <2>1, <2>2 DEF RigMade
<1>3. ASSUME NEW i \in DOMAIN chains, NEW k \in DOMAIN chains, i < k
      PROVE  BoneOf(chains[i].joint) < BoneOf(chains[k].joint)
  <2>1. BoneOf(chains[i].joint) = Owners[i] /\ BoneOf(chains[k].joint) = Owners[k]
    BY <1>1, <1>2, ChainLeads
  <2> QED BY <2>1, <1>2, <1>3, OwnersAscend
<1>4. ASSUME NEW c \in Bones
      PROVE  /\ BoneOf(controls[c].tail) = Kept(doc.tail[BoneOf(c)])
             /\ BoneOf(controls[c].append) = Kept(doc.append[BoneOf(c)])
             /\ controls[c].after <=> BoneOf(c) \in doc.after
  <2>1. bones[c].sourceIndex = BoneOf(c)
    BY NoneAssumption DEF BoneOf
  <2>2. controls[c] = [tail |-> Joint(doc.tail[BoneOf(c)]), append |-> Joint(doc.append[BoneOf(c)]),
                       after |-> BoneOf(c) \in doc.after]
    BY <2>1, <1>1 DEF RigMade, ControlOf
  <2>3. /\ controls[c].tail = Joint(doc.tail[BoneOf(c)])
        /\ controls[c].append = Joint(doc.append[BoneOf(c)])
    BY <2>2
  <2>4. controls[c].after <=> BoneOf(c) \in doc.after
    <3>1. ASSUME NEW e, NEW a, NEW v \in BOOLEAN PROVE [tail |-> e, append |-> a, after |-> v].after = v
      OBVIOUS
    <3>2. (BoneOf(c) \in doc.after) \in BOOLEAN
      OBVIOUS
    <3>3. [tail |-> Joint(doc.tail[BoneOf(c)]), append |-> Joint(doc.append[BoneOf(c)]),
           after |-> BoneOf(c) \in doc.after].after
            = (BoneOf(c) \in doc.after)
      BY <3>1, <3>2, Zenon
    <3>4. controls[c].after = (BoneOf(c) \in doc.after)
      BY <2>2, <3>3, Zenon
    <3> QED BY <3>4, Zenon
  <2> QED BY <2>3, <2>4, <1>1, JointsAreBones
<1>5. ASSUME NEW c \in Bones, doc.ik[BoneOf(c)] # None, doc.ik[BoneOf(c)].target \in Bones
      PROVE  \E i \in DOMAIN chains :
               /\ chains[i].joint = c /\ BoneOf(chains[i].effector) = doc.ik[BoneOf(c)].target
               /\ {BoneOf(chains[i].links[k]) : k \in DOMAIN chains[i].links}
                    = {doc.ik[BoneOf(c)].links[k] : k \in DOMAIN doc.ik[BoneOf(c)].links} \cap Bones
  <2>1. BoneOf(c) \in Bones /\ jointOf[BoneOf(c)] = c /\ HasEffector(BoneOf(c))
    BY <1>1, <1>5, JointsAreBones DEF HasEffector
  <2>2. PICK i \in 1..Len(Owners) : Owners[i] = BoneOf(c)
    BY <2>1, OwnersAscend
  <2>3. chains[i] = ChainOfBone(BoneOf(c)) /\ i \in DOMAIN chains
    BY <2>2, <1>2
  <2>4. /\ chains[i].joint = c /\ BoneOf(chains[i].effector) = doc.ik[BoneOf(c)].target
        /\ {BoneOf(chains[i].links[k]) : k \in DOMAIN chains[i].links}
             = {doc.ik[BoneOf(c)].links[k] : k \in DOMAIN doc.ik[BoneOf(c)].links} \cap Bones
    BY <2>1, <2>3, <1>1, ChainLeads
  <2> QED BY <2>3, <2>4
<1>6. \A i \in DOMAIN bodies : BoneOf(bodies[i]) = Kept(doc.bodies[i])
  BY <1>1, JointsAreBones DEF BodiesMade
<1>7. {BoneOf(c) : c \in Elements(offsets)} = Elements(doc.boneOffsets) \cap Bones
  <2> DEFINE kept == Selected(doc.boneOffsets, Bones)
  <2>1. doc.boneOffsets \in Seq(Int)
    BY <1>1, DocumentsAssumption
  <2>2. /\ kept \in Seq(Int)
        /\ {kept[k] : k \in 1..Len(kept)} = {doc.boneOffsets[k] : k \in 1..Len(doc.boneOffsets)} \cap Bones
    <3>1. kept \in Seq(Int)
      BY <2>1, SelectedRanks
    <3> QED BY SMTT(40), <3>1, <2>1, SelectedMembers
  <2>3. offsets = [i \in 1..Len(kept) |-> jointOf[kept[i]]] /\ Len(kept) \in Nat
    BY <1>1, <2>2, SequenceShape DEF OffsetsMade
  <2> HIDE DEF kept
  <2>4. \A k \in 1..Len(kept) : kept[k] \in Bones
    BY <2>2
  <2>5. offsets \in Seq(Bones) /\ Len(offsets) = Len(kept)
        /\ \A k \in 1..Len(kept) : BoneOf(offsets[k]) = kept[k]
    BY <2>3, <2>4, <1>1, JointsAreBones
  <2>6. {BoneOf(c) : c \in Elements(offsets)} = {kept[k] : k \in 1..Len(kept)}
    BY <2>5 DEF Elements
  <2> QED BY <2>2, <2>6 DEF Elements
<1>8. \A c \in Bones :
        /\ BoneOf(bones[c].parent) = Kept(parents[BoneOf(c)])
        /\ bones[c].parent # None => bones[c].parent < c
  BY <1>1, ParentJoint
<1>9. \A c \in Bones :
        /\ BoneOf(bones[c].parent) = Kept(parents[BoneOf(c)])
        /\ BoneOf(controls[c].tail) = Kept(doc.tail[BoneOf(c)])
        /\ BoneOf(controls[c].append) = Kept(doc.append[BoneOf(c)])
        /\ controls[c].after <=> BoneOf(c) \in doc.after
        /\ doc.ik[BoneOf(c)] # None /\ doc.ik[BoneOf(c)].target \in Bones =>
             \E i \in DOMAIN chains :
               /\ chains[i].joint = c /\ BoneOf(chains[i].effector) = doc.ik[BoneOf(c)].target
               /\ {BoneOf(chains[i].links[k]) : k \in DOMAIN chains[i].links}
                    = {doc.ik[BoneOf(c)].links[k] : k \in DOMAIN doc.ik[BoneOf(c)].links} \cap Bones
  <2> TAKE c \in Bones
  <2>1. BoneOf(bones[c].parent) = Kept(parents[BoneOf(c)])
    BY <1>8
  <2>2. /\ BoneOf(controls[c].tail) = Kept(doc.tail[BoneOf(c)])
        /\ BoneOf(controls[c].append) = Kept(doc.append[BoneOf(c)])
    BY <1>4
  <2>3. controls[c].after <=> BoneOf(c) \in doc.after
    BY <1>4, Zenon
  <2>4. doc.ik[BoneOf(c)] # None /\ doc.ik[BoneOf(c)].target \in Bones =>
             \E i \in DOMAIN chains :
               /\ chains[i].joint = c /\ BoneOf(chains[i].effector) = doc.ik[BoneOf(c)].target
               /\ {BoneOf(chains[i].links[k]) : k \in DOMAIN chains[i].links}
                    = {doc.ik[BoneOf(c)].links[k] : k \in DOMAIN doc.ik[BoneOf(c)].links} \cap Bones
    BY <1>5
  <2> QED BY <2>1, <2>2, <2>3, <2>4, Zenon
<1> QED BY <1>3, <1>6, <1>7, <1>8, <1>9, Zenon DEF RelationsFollowBones

\* In every canonical document each relation of the file leads to the joint of
\* the bone it named, parents come first and chains follow the bone table.
THEOREM CanonicalRelations == CanonSpec => []RelationsFollowBones
<1>1. OrderInv /\ CanonInv => RelationsFollowBones
  BY RelationsHold DEF RelationsFollowBones
<1> QED BY <1>1, SkeletonIsOrderJoints, OrderIsInductive, CanonIsInductive, PTL

-----------------------------------------------------------------------------
(* Weights *)

\* A stored weight counts for nothing or for a natural.
LEMMA WeightIsNatural ==
  ASSUME NEW d \in Documents, NEW i \in DOMAIN d.vertices, NEW k \in 1..d.vertices[i].slots
  PROVE  Clamped(Weight(d.vertices[i], k)) \in Nat
<1> DEFINE v == d.vertices[i]
<1>1. v.slots \in {1, 2, 4} /\ v.weights \in [1..StoredWeights(v.slots) -> Int \cup {None}]
  BY DocumentsAssumption
<1>2. Unit \in Int /\ k \in 1..v.slots
  BY UnitAssumption
<1> HIDE DEF v
<1>3. Weight(v, k) \in Int \cup {None}
  <2>1. CASE v.slots = 1
    BY <1>2, <2>1 DEF Weight
  <2>2. CASE v.slots = 2
    <3>1. v.weights[1] \in Int \cup {None}
      BY <1>1, <2>2 DEF StoredWeights
    <3>2. k = 1 \/ k = 2
      BY <1>2, <2>2
    <3> QED BY <1>2, <2>2, <3>1, <3>2 DEF Weight
  <2>3. CASE v.slots = 4
    <3>1. v.weights[k] \in Int \cup {None}
      BY <1>1, <1>2, <2>3 DEF StoredWeights
    <3> QED BY <2>3, <3>1 DEF Weight
  <2> QED BY <1>1, <2>1, <2>2, <2>3
<1> DEFINE u == Weight(v, k)
<1> HIDE DEF u
<1>4. u \in Int \cup {None}
  BY <1>3 DEF u
<1>5. Clamped(u) \in Nat
  BY <1>4 DEF Clamped
<1> QED BY <1>5 DEF u, v

\* Four naturals add up to nothing exactly when each is nothing.
LEMMA SumOfFour ==
  ASSUME NEW w \in [1..4 -> Nat]
  PROVE  OfSlots(w) \in Nat /\ (OfSlots(w) # 0 => \E k \in 1..4 : w[k] > 0)
<1> DEFINE a == w[1]
           b == w[2]
           c == w[3]
           d == w[4]
<1>1. a \in Nat /\ b \in Nat /\ c \in Nat /\ d \in Nat /\ OfSlots(w) = a + b + c + d
  BY DEF OfSlots
<1>2. 1 \in 1..4 /\ 2 \in 1..4 /\ 3 \in 1..4 /\ 4 \in 1..4
  OBVIOUS
<1>3. (\E k \in 1..4 : w[k] > 0) \/ (~(a > 0) /\ ~(b > 0) /\ ~(c > 0) /\ ~(d > 0))
  BY <1>2
<1> HIDE DEF a, b, c, d
<1>4. a + b + c + d # 0 => a > 0 \/ b > 0 \/ c > 0 \/ d > 0
  BY <1>1
<1> QED BY <1>1, <1>3, <1>4

\* The first of some slots is one of them.
LEMMA FirstSlot ==
  ASSUME NEW S \in SUBSET (1..4), S # {}
  PROVE  Min(S) \in S
<1>1. S \in SUBSET Int /\ IsFiniteSet(S)
  <2>1. 1 \in Int /\ 4 \in Int
    OBVIOUS
  <2>2. IsFiniteSet(1..4)
    BY <2>1, FS_Interval
  <2>3. IsFiniteSet(S)
    BY <2>2, FS_Subset
  <2>4. S \in SUBSET Int
    OBVIOUS
  <2> QED BY <2>3, <2>4
<1>2. \E x \in S : \A y \in S : x <= y
  BY <1>1, LeastElement
<1> QED BY <1>2 DEF Min

\* What is said of the influences of a vertex.
VertexIsWhole(v, u) ==
  /\ OfSlots(u.weight) - u.whole \in -Tolerance..Tolerance
  /\ \A k \in 1..4 : u.weight[k] >= 0 /\ (u.weight[k] > 0 => k \in DOMAIN u.joint)
  /\ \E k \in DOMAIN u.joint : u.weight[k] > 0
  /\ {BoneOf(u.joint[k]) : k \in DOMAIN u.joint} \subseteq
       IF \A k \in 1..v.slots : v.bones[k] \notin Bones
       THEN {BoneOf(0)} ELSE {v.bones[k] : k \in 1..v.slots}

LEMMA InfluencesAreWhole ==
  ASSUME OrderInv, pc = "done", SkeletonMade, NEW d \in Documents, NEW i \in DOMAIN d.vertices
  PROVE  VertexIsWhole(d.vertices[i], Influences(d.vertices[i]))
<1> DEFINE v == d.vertices[i]
           kept == KeptSlots(v)
           weight == [k \in 1..4 |-> IF k \in kept THEN Clamped(Weight(v, k)) ELSE 0]
           sum == OfSlots(weight)
           only == IF kept = {} THEN 0 ELSE jointOf[v.bones[Min(kept)]]
           u == Influences(v)
<1>1. v.slots \in {1, 2, 4}
  BY DocumentsAssumption
<1>2. kept \in SUBSET (1..4) /\ \A k \in kept : k \in 1..v.slots /\ v.bones[k] \in Bones
  BY <1>1 DEF KeptSlots
<1>3. \A k \in kept : Clamped(Weight(v, k)) \in Nat
  <2> HIDE DEF kept
  <2> QED BY <1>2, WeightIsNatural
<1>4. weight \in [1..4 -> Nat]
  <2> HIDE DEF kept, v
  <2> QED BY <1>3
<1>5. sum \in Nat /\ (sum # 0 => \E k \in 1..4 : weight[k] > 0)
  <2> HIDE DEF weight
  <2> QED BY <1>4, SumOfFour
<1>6. \A b \in Bones : BoneOf(jointOf[b]) = b
  BY JointsAreBones
<1>7. kept = {} <=> \A k \in 1..v.slots : v.bones[k] \notin Bones
  BY DEF KeptSlots
<1>8. Tolerance \in Nat /\ Unit \in Nat
  BY UnitAssumption
<1>9. u = IF sum = 0
          THEN [joint |-> [k \in {1} |-> only], weight |-> [k \in 1..4 |-> IF k = 1 THEN 1 ELSE 0],
                whole |-> 1]
          ELSE [joint |-> [k \in kept |-> jointOf[v.bones[k]]], weight |-> weight,
                whole |-> IF sum - Unit \in -Tolerance..Tolerance THEN Unit ELSE sum]
  BY DEF Influences
<1>10. CASE sum = 0
  <2> HIDE DEF sum, kept, u, v
  <2>1. u.joint = [k \in {1} |-> only] /\ u.whole = 1 /\ u.weight = [k \in 1..4 |-> IF k = 1 THEN 1 ELSE 0]
    BY <1>9, <1>10
  <2>2. OfSlots(u.weight) - u.whole = 0
    BY <2>1 DEF OfSlots
  <2>3. \A k \in 1..4 : u.weight[k] >= 0 /\ (u.weight[k] > 0 => k \in DOMAIN u.joint)
    BY <2>1
  <2>4. \E k \in DOMAIN u.joint : u.weight[k] > 0
    BY <2>1
  <2>7. OfSlots(u.weight) - u.whole \in -Tolerance..Tolerance
    <3>1. 0 \in -Tolerance..Tolerance
      BY <1>8
    <3> QED BY <2>2, <3>1
  <2>5. ASSUME kept = {} PROVE VertexIsWhole(v, u)
    <3>1. \A k \in DOMAIN u.joint : u.joint[k] = 0
      BY <2>1, <2>5
    <3>2. {BoneOf(u.joint[k]) : k \in DOMAIN u.joint} \subseteq {BoneOf(0)}
      BY <3>1
    <3>3. \A k \in 1..v.slots : v.bones[k] \notin Bones
      BY <1>7, <2>5
    <3> QED BY <2>3, <2>4, <2>7, <3>2, <3>3 DEF VertexIsWhole
  <2>6. ASSUME kept # {} PROVE VertexIsWhole(v, u)
    <3>1. Min(kept) \in kept
      BY <1>2, <2>6, FirstSlot
    <3>2. \A k \in DOMAIN u.joint : BoneOf(u.joint[k]) = v.bones[Min(kept)]
      BY <1>2, <1>6, <2>1, <2>6, <3>1
    <3>3. Min(kept) \in 1..v.slots /\ v.bones[Min(kept)] \in Bones
      BY <1>2, <3>1
    <3>4. {BoneOf(u.joint[k]) : k \in DOMAIN u.joint} \subseteq {v.bones[k] : k \in 1..v.slots}
      BY <3>2, <3>3
    <3> QED BY <2>3, <2>4, <2>7, <3>3, <3>4 DEF VertexIsWhole
  <2>8. VertexIsWhole(v, u)
    BY <2>5, <2>6
  <2> USE DEF u, v
  <2> QED BY ONLY <2>8
<1>11. CASE sum # 0
  <2>0. OfSlots(weight) = sum
    OBVIOUS
  <2> HIDE DEF sum, kept, u, v
  <2>1. /\ u.joint = [k \in kept |-> jointOf[v.bones[k]]] /\ u.weight = weight
        /\ u.whole = IF sum - Unit \in -Tolerance..Tolerance THEN Unit ELSE sum
    BY <1>9, <1>11
  <2>2. OfSlots(u.weight) - u.whole \in -Tolerance..Tolerance
    <3> HIDE DEF weight
    <3> QED BY <1>5, <1>8, <2>0, <2>1
  <2>3. \A k \in 1..4 : weight[k] > 0 => k \in kept
    OBVIOUS
  <2> HIDE DEF weight
  <2>4. \A k \in 1..4 : u.weight[k] >= 0 /\ (u.weight[k] > 0 => k \in DOMAIN u.joint)
    BY <1>4, <2>1, <2>3
  <2>5. \E k \in DOMAIN u.joint : u.weight[k] > 0
    BY <1>5, <1>11, <2>1, <2>3
  <2>6. \A k \in DOMAIN u.joint : BoneOf(u.joint[k]) = v.bones[k] /\ k \in 1..v.slots
    BY <1>2, <1>6, <2>1
  <2>7. kept # {}
    BY <1>5, <1>11, <2>3
  <2>8. {BoneOf(u.joint[k]) : k \in DOMAIN u.joint} \subseteq {v.bones[k] : k \in 1..v.slots}
    BY <2>6
  <2>9. ~ \A k \in 1..v.slots : v.bones[k] \notin Bones
    BY <1>7, <2>7
  <2>10. VertexIsWhole(v, u)
    BY <2>2, <2>4, <2>5, <2>8, <2>9 DEF VertexIsWhole
  <2> USE DEF u, v
  <2> QED BY ONLY <2>10
<1> QED BY <1>10, <1>11

\* Every vertex of a canonical document is bound, to bones it was stored with
\* unless it had none, and its weights add up to the whole.
THEOREM VerticesAreBound == CanonSpec => []WeightsAreWhole
<1>1. OrderInv /\ CanonInv => WeightsAreWhole
  <2> SUFFICES ASSUME OrderInv, CanonInv, phase = "done", NEW i \in DOMAIN skin
               PROVE  VertexIsWhole(doc.vertices[i], skin[i])
    BY DEF WeightsAreWhole, VertexIsWhole
  <2>1. pc = "done" /\ SkeletonMade /\ SkinMade /\ doc \in Documents
    BY DEF CanonInv
  <2>2. i \in DOMAIN doc.vertices /\ skin[i] = Influences(doc.vertices[i])
    BY <2>1 DEF SkinMade
  <2> QED BY <2>1, <2>2, InfluencesAreWhole
<1> QED BY <1>1, SkeletonIsOrderJoints, OrderIsInductive, CanonIsInductive, PTL

-----------------------------------------------------------------------------
(* Sums over morphs *)

Row(f) == [i \in 1..M |-> IF i - 1 \in DOMAIN f THEN f[i - 1] ELSE 0]

LEMMA RowIs ==
  ASSUME NEW D \in SUBSET Morphs, NEW f \in [D -> Int]
  PROVE  /\ M \in Nat /\ Row(f) \in Seq(Int) /\ Len(Row(f)) = M
         /\ \A i \in 1..M : /\ i - 1 \in D => Row(f)[i] = f[i - 1]
                            /\ i - 1 \notin D => Row(f)[i] = 0
         /\ SumOver(f) = Total(Row(f))
<1>1. M \in Nat /\ DOMAIN f = D
  BY MAssumption
<1>2. ASSUME NEW i \in 1..M PROVE (IF i - 1 \in D THEN f[i - 1] ELSE 0) \in Int
  <2>1. CASE i - 1 \in D
    BY <2>1
  <2>2. CASE i - 1 \notin D
    BY <2>2
  <2> QED BY <2>1, <2>2
<1>3. Row(f) = [i \in 1..M |-> IF i - 1 \in D THEN f[i - 1] ELSE 0]
  BY <1>1 DEF Row
<1>4. Row(f) \in [1..M -> Int] /\ \A i \in 1..M : Row(f)[i] = IF i - 1 \in D THEN f[i - 1] ELSE 0
  BY <1>2, <1>3
<1>5. Row(f) \in Seq(Int) /\ Len(Row(f)) = M
  BY <1>1, <1>4
<1>6. SumOver(f) = Total(Row(f))
  BY DEF SumOver, Row
<1> QED BY <1>1, <1>4, <1>5, <1>6

LEMMA SumOverInt ==
  ASSUME NEW D \in SUBSET Morphs, NEW f \in [D -> Int]
  PROVE  SumOver(f) \in Int
BY RowIs, TotalInt

\* A morph more in the domain is its value more in the sum.
LEMMA SumOverAdds ==
  ASSUME NEW D \in SUBSET Morphs, NEW f \in [D -> Int], NEW x \in Morphs, x \notin D,
         NEW h \in [D \cup {x} -> Int], \A y \in D : h[y] = f[y]
  PROVE  SumOver(h) = SumOver(f) + h[x]
<1> DEFINE s == Row(f)
           t == Row(h)
           j == x + 1
           E == D \cup {x}
<1>1. E \in SUBSET Morphs /\ h \in [E -> Int] /\ x \in E
  OBVIOUS
<1>2. /\ M \in Nat /\ s \in Seq(Int) /\ Len(s) = M /\ SumOver(f) = Total(s)
      /\ \A i \in 1..M : (i - 1 \in D => s[i] = f[i - 1]) /\ (i - 1 \notin D => s[i] = 0)
  BY RowIs
<1>3. /\ t \in Seq(Int) /\ Len(t) = M /\ SumOver(h) = Total(t)
      /\ \A i \in 1..M : (i - 1 \in E => t[i] = h[i - 1]) /\ (i - 1 \notin E => t[i] = 0)
  <2> HIDE DEF E
  <2> QED BY <1>1, RowIs
<1>4. x \in Int /\ j \in 1..M /\ j - 1 = x
  BY <1>2 DEF Morphs
<1> HIDE DEF s, t, j
<1>5. s[j] = 0 /\ t[j] = h[x] /\ h[x] \in Int
  BY <1>1, <1>2, <1>3, <1>4
<1>6. ASSUME NEW i \in 1..M, i # j PROVE t[i] = s[i]
  <2>1. i - 1 # x
    BY <1>4, <1>6 DEF j
  <2>2. CASE i - 1 \in D
    BY <2>2, <1>2, <1>3
  <2>3. CASE i - 1 \notin D
    BY <2>1, <2>3, <1>2, <1>3
  <2> QED BY <2>2, <2>3
<1>7. Total(t) = (Total(s) - s[j]) + t[j] /\ Total(s) \in Int
  <2>1. /\ s \in Seq(Int) /\ t \in Seq(Int) /\ Len(t) = Len(s) /\ j \in 1..Len(s)
        /\ \A i \in 1..Len(s) : i # j => t[i] = s[i]
    BY ONLY <1>2, <1>3, <1>4, <1>6
  <2>2. Total(t) = (Total(s) - s[j]) + t[j]
    BY ONLY <2>1, TotalDiffers
  <2> QED BY ONLY <2>1, <2>2, TotalInt
<1> QED BY <1>2, <1>3, <1>5, <1>7

LEMMA SumOverNat ==
  ASSUME NEW D \in SUBSET Morphs, NEW f \in [D -> Nat]
  PROVE  SumOver(f) \in Nat
<1>1. f \in [D -> Int] /\ \A y \in D : f[y] \in Nat
  OBVIOUS
<1>2. /\ M \in Nat /\ Row(f) \in Seq(Int) /\ Len(Row(f)) = M /\ SumOver(f) = Total(Row(f))
      /\ \A i \in 1..M : (i - 1 \in D => Row(f)[i] = f[i - 1]) /\ (i - 1 \notin D => Row(f)[i] = 0)
  BY <1>1, RowIs
<1>3. \A i \in 1..M : Row(f)[i] \in Nat
  BY <1>1, <1>2
<1>4. Row(f) \in Seq(Nat)
  BY <1>2, <1>3
<1> QED BY <1>2, <1>4, TotalType

LEMMA SumOverZeros ==
  ASSUME NEW D \in SUBSET Morphs, NEW f \in [D -> Int], \A y \in D : f[y] = 0
  PROVE  SumOver(f) = 0
BY ZenonT(60), RowIs, TotalZeros

\* A sum of naturals that is 0 has only 0 in it.
LEMMA SumOverNone ==
  ASSUME NEW D \in SUBSET Morphs, NEW f \in [D -> Nat], SumOver(f) = 0, NEW x \in D
  PROVE  f[x] = 0
<1> DEFINE E == D \ {x}
           e == [y \in E |-> f[y]]
<1>1. /\ E \in SUBSET Morphs /\ x \in Morphs /\ x \notin E /\ E \cup {x} = D
      /\ e \in [E -> Nat] /\ e \in [E -> Int] /\ f \in [D -> Int] /\ f[x] \in Nat
      /\ \A y \in E : f[y] = e[y]
  OBVIOUS
<1> HIDE DEF E, e
<1>2. SumOver(f) = SumOver(e) + f[x]
  BY <1>1, SumOverAdds
<1>3. SumOver(e) \in Nat
  BY <1>1, SumOverNat
<1> QED BY <1>1, <1>2, <1>3

-----------------------------------------------------------------------------
(* What the walk leaves *)

MembersInv == at = "done" => members \in [Morphs -> Seq(Morphs)]

LEMMA OfFewer ==
  ASSUME NEW T, NEW S, NEW s \in Seq(T), \A k \in 1..Len(s) : s[k] \in S
  PROVE  s \in Seq(S)
OBVIOUS

LEMMA EraseLeavesMorphs ==
  ASSUME GroupInv, ClosingInv, Erase
  PROVE  members' \in [Morphs -> Seq(Morphs)]
<1>1. /\ at = "erase" /\ members' = IF dropped = {} THEN members ELSE [x \in Morphs |-> Erased(members[x])]
      /\ members \in [Morphs -> Seq(Morphs \cup {None})] /\ group.members \in [Morphs -> Seq(Morphs)]
      /\ OnlyDroppedDiffer
  BY DEF Erase, GroupInv, GroupTypeOK, ClosingInv
<1>2. ASSUME NEW m \in Morphs PROVE members'[m] \in Seq(Morphs)
  <2> DEFINE s == members[m]
             r == members'[m]
             q == group.members[m]
  <2>1. s \in Seq(Morphs \cup {None}) /\ q \in Seq(Morphs)
    BY <1>1
  <2>2. CASE dropped = {}
    <3>1. r = s /\ Len(s) = Len(q) /\ \A k \in 1..Len(q) : s[k] = q[k]
      BY <1>1, <2>2 DEF OnlyDroppedDiffer
    <3> HIDE DEF s, r, q
    <3>2. \A k \in 1..Len(s) : s[k] \in Morphs
      BY <3>1, <2>1
    <3>3. s \in Seq(Morphs)
      BY <3>2, <2>1, OfFewer
    <3> QED BY <3>1, <3>3 DEF r
  <2>3. CASE dropped # {}
    <3>1. r = Selected(s, Morphs)
      BY <1>1, <2>3 DEF Erased
    <3> HIDE DEF s, r, q
    <3>2. /\ r \in Seq(Morphs \cup {None})
          /\ {r[k] : k \in 1..Len(r)} = {s[k] : k \in 1..Len(s)} \cap Morphs
      BY <3>1, <2>1, SelectedMembers, SelectedRanks
    <3>3. \A k \in 1..Len(r) : r[k] \in Morphs
      BY <3>2
    <3>4. r \in Seq(Morphs)
      BY <3>2, <3>3, OfFewer
    <3> QED BY <3>4 DEF r
  <2> QED BY <2>2, <2>3
<1>3. members' = [m \in Morphs |-> members'[m]]
  BY <1>1
<1> QED BY <1>2, <1>3

LEMMA MembersAreMorphs == GroupSpec => []MembersInv
<1>1. InitGroups => MembersInv
  BY DEF InitGroups, MembersInv
<1>2. GroupInv /\ ClosingInv /\ MembersInv /\ [BreakGroupCycles]_groupVars => MembersInv'
  <2> SUFFICES ASSUME GroupInv, ClosingInv, MembersInv, [BreakGroupCycles]_groupVars
               PROVE  MembersInv'
    OBVIOUS
  <2>1. CASE Erase
    BY <2>1, EraseLeavesMorphs DEF MembersInv
  <2>2. CASE Enter \/ Skip \/ Leave \/ Pass \/ Drop \/ Descend \/ EndWalk
    BY <2>2 DEF Enter, Skip, Leave, Pass, Drop, Descend, EndWalk, Standing, Walking, MembersInv
  <2>3. CASE UNCHANGED groupVars
    BY <2>3 DEF groupVars, MembersInv
  <2> QED BY <2>1, <2>2, <2>3 DEF BreakGroupCycles
<1> QED BY <1>1, <1>2, GroupIsInductive, ClosingIsInductive, PTL DEF GroupSpec

\* How often g lists m, and that it does.
LEMMA ListedIs ==
  ASSUME members \in [Morphs -> Seq(Morphs)], NEW g \in Morphs, NEW m \in Morphs
  PROVE  /\ Listed(g, m) \in Nat
         /\ Listed(g, m) > 0 <=> m \in Range(members[g])
         /\ Listed(g, m) = 0 <=> m \notin Range(members[g])
<1> DEFINE s == members[g]
           K == {k \in DOMAIN s : s[k] = m}
<1>1. Len(s) \in Nat /\ DOMAIN s = 1..Len(s)
  OBVIOUS
<1>2. IsFiniteSet(K)
  <2>1. IsFiniteSet(1..Len(s))
    BY <1>1, FS_Interval
  <2>2. K \subseteq 1..Len(s)
    BY <1>1
  <2> QED BY <2>1, <2>2, FS_Subset
<1>3. Listed(g, m) = Cardinality(K)
  BY DEF Listed
<1>4. m \in Range(s) <=> K # {}
  BY DEF Range
<1> HIDE DEF K, s
<1>5. Cardinality(K) \in Nat /\ (Cardinality(K) = 0 <=> K = {})
  BY <1>2, FS_CardinalityType, FS_EmptySet
<1> QED BY <1>3, <1>4, <1>5 DEF s

\* Of groups that list each other some are listed by none of them: a least set
\* of them that the others do not lead into has one group.
LEMMA SomeIsUnlisted ==
  ASSUME NoGroupCycle, at = "done", GroupMorphs \subseteq group.composite,
         NEW W \in SUBSET GroupMorphs, W # {}
  PROVE  \E x \in W : \A g \in W : x \notin Range(members[g])
<1> DEFINE Into(T) == \A g \in W \ T : \A x \in T : x \notin Range(members[g])
           sets == {T \in SUBSET W : T # {} /\ Into(T)}
<1>1. IsFiniteSet(W)
  <2>1. IsFiniteSet(0..(M - 1))
    BY MAssumption, FS_Interval
  <2>2. W \subseteq 0..(M - 1)
    BY DEF GroupMorphs, OfKind, Morphs
  <2> QED BY <2>1, <2>2, FS_Subset
<1>2. IsWellFoundedOn(StrictSubsetOrdering(W), SUBSET W)
  BY <1>1, FS_StrictSubsetOrderingWellFounded, FS_FiniteSubsetsOfFinite
<1>3. W \in sets
  OBVIOUS
<1>4. PICK T \in sets : \A U \in sets : ~(<<U, T>> \in StrictSubsetOrdering(W))
  <2>1. sets \subseteq SUBSET W /\ sets # {}
    BY <1>3
  <2> HIDE DEF sets
  <2> QED BY <1>2, <2>1, WFMin
<1>5. PICK x \in T : Members(x) \cap T = {}
  <2>1. T \in SUBSET group.composite /\ T # {}
    BY <1>4
  <2> QED BY <2>1 DEF NoGroupCycle
<1>6. \A y \in T : y \notin Range(members[x])
  BY <1>4, <1>5 DEF Members, Range
<1>7. Into(T \ {x})
  <2> SUFFICES ASSUME NEW g \in W \ (T \ {x}), NEW y \in T \ {x} PROVE y \notin Range(members[g])
    OBVIOUS
  <2>1. CASE g = x
    BY <2>1, <1>6
  <2>2. CASE g # x
    BY <2>2, <1>4
  <2> QED BY <2>1, <2>2
<1>8. T = {x}
  <2> SUFFICES ASSUME T # {x} PROVE FALSE
    OBVIOUS
  <2>1. T \ {x} \in sets
    BY <1>4, <1>7
  <2>2. <<T \ {x}, T>> \in StrictSubsetOrdering(W)
    BY <1>4, <1>5 DEF StrictSubsetOrdering
  <2> QED BY <1>4, <2>1, <2>2
<1>9. ASSUME NEW g \in W PROVE x \notin Range(members[g])
  <2>1. CASE g = x
    BY <2>1, <1>5, <1>6
  <2>2. CASE g # x
    BY <2>2, <1>4, <1>8
  <2> QED BY <2>1, <2>2
<1>10. x \in W
  BY <1>4, <1>5
<1> QED BY <1>9, <1>10

-----------------------------------------------------------------------------
(* The order of the groups *)

\* The groups a canonical document has can be expanded, and Prepare starts
\* once it has one.
DocumentInv ==
  /\ GroupMorphs \subseteq group.composite
  /\ stage # "document" => at = "done"

OrderedOnce == \A i, k \in 1..Len(groupOrder) : groupOrder[i] = groupOrder[k] => i = k

\* Every group stands behind those that list it.
ListersFirst ==
  \A i \in 1..Len(groupOrder) : \A g \in GroupMorphs :
    groupOrder[i] \in Range(members[g]) => \E j \in 1..(i - 1) : groupOrder[j] = g

WaitingLists(m) == [g \in Waiting |-> Listed(g, m)]

OrderedInv ==
  /\ groupOrder \in Seq(GroupMorphs) /\ OrderedOnce /\ ListersFirst
  /\ stage = "document" => groupOrder = <<>>
  /\ stage = "order" => \A m \in GroupMorphs : listedBy[m] = SumOver(WaitingLists(m))
  /\ stage \notin {"document", "order"} => Waiting = {}

LEMMA GroupsAreMorphs == GroupMorphs \subseteq Morphs /\ Waiting \subseteq GroupMorphs /\ IsFiniteSet(GroupMorphs)
<1>1. GroupMorphs \subseteq 0..(M - 1) /\ GroupMorphs \subseteq Morphs /\ Waiting \subseteq GroupMorphs
  BY DEF GroupMorphs, OfKind, Morphs, Waiting
<1>2. IsFiniteSet(0..(M - 1))
  BY MAssumption, FS_Interval
<1> QED BY <1>1, <1>2, FS_Subset

LEMMA WaitingListsType ==
  ASSUME members \in [Morphs -> Seq(Morphs)], NEW m \in Morphs
  PROVE  /\ WaitingLists(m) \in [Waiting -> Nat] /\ \A g \in Waiting : WaitingLists(m)[g] = Listed(g, m)
         /\ Waiting \in SUBSET Morphs
<1>1. \A g \in Waiting : Listed(g, m) \in Nat
  BY GroupsAreMorphs, ListedIs
<1> QED BY <1>1, GroupsAreMorphs DEF WaitingLists

LEMMA CountOrders ==
  ASSUME OrderedInv, CountListings, UNCHANGED groupVars
  PROVE  OrderedInv'
<1>1. /\ stage = "document" /\ stage' = "order" /\ UNCHANGED <<kinds, groupOrder, members>>
      /\ listedBy' = [m \in Morphs |-> IF m \in GroupMorphs THEN Listings(m) ELSE 0]
      /\ groupOrder = <<>>
  BY DEF CountListings, groupVars, OrderedInv
<1>2. GroupMorphs' = GroupMorphs /\ Waiting = GroupMorphs /\ Waiting' = GroupMorphs
  BY <1>1 DEF GroupMorphs, OfKind, Waiting, Ordered, Range
<1>3. ASSUME NEW m \in GroupMorphs PROVE listedBy'[m] = SumOver(WaitingLists(m))'
  <2>1. m \in Morphs
    BY GroupsAreMorphs
  <2>2. listedBy'[m] = Listings(m)
    BY <1>1, <2>1
  <2>3. WaitingLists(m)' = [g \in GroupMorphs |-> Listed(g, m)]
    BY <1>1, <1>2 DEF WaitingLists, Listed
  <2> QED BY <2>2, <2>3 DEF Listings, SumOver
<1>4. groupOrder' = <<>> /\ groupOrder' \in Seq(GroupMorphs') /\ Len(groupOrder') = 0
  BY <1>1
<1>5. OrderedOnce' /\ ListersFirst'
  BY <1>4 DEF OrderedOnce, ListersFirst
<1> QED BY <1>1, <1>2, <1>3, <1>4, <1>5 DEF OrderedInv

\* The counts reach 0 for the groups no group that waits lists.
LEMMA ReadyAreUnlisted ==
  ASSUME OrderedInv, stage = "order", members \in [Morphs -> Seq(Morphs)], NEW x \in Waiting
  PROVE  x \in Ready <=> \A g \in Waiting : x \notin Range(members[g])
<1>1. x \in GroupMorphs /\ x \in Morphs
  BY GroupsAreMorphs
<1>2. listedBy[x] = SumOver(WaitingLists(x))
  BY <1>1 DEF OrderedInv
<1>3. /\ WaitingLists(x) \in [Waiting -> Nat] /\ WaitingLists(x) \in [Waiting -> Int]
      /\ Waiting \in SUBSET Morphs /\ \A g \in Waiting : WaitingLists(x)[g] = Listed(g, x)
  <2>1. /\ WaitingLists(x) \in [Waiting -> Nat] /\ Waiting \in SUBSET Morphs
        /\ \A g \in Waiting : WaitingLists(x)[g] = Listed(g, x)
    BY <1>1, WaitingListsType
  <2> QED BY <2>1
<1>4. \A g \in Waiting : Listed(g, x) = 0 <=> x \notin Range(members[g])
  BY <1>1, <1>3, ListedIs
<1>5. SumOver(WaitingLists(x)) = 0 <=> \A g \in Waiting : WaitingLists(x)[g] = 0
  <2>1. ASSUME SumOver(WaitingLists(x)) = 0, NEW g \in Waiting PROVE WaitingLists(x)[g] = 0
    BY <1>3, <2>1, SumOverNone
  <2>2. ASSUME \A g \in Waiting : WaitingLists(x)[g] = 0 PROVE SumOver(WaitingLists(x)) = 0
    BY <1>3, <2>2, SumOverZeros
  <2> QED BY <2>1, <2>2
<1> QED BY <1>2, <1>3, <1>4, <1>5 DEF Ready

LEMMA ReadyHasLeast ==
  ASSUME Ready # {}
  PROVE  Min(Ready) \in Ready
<1>1. Ready \subseteq GroupMorphs /\ Ready \subseteq Int /\ IsFiniteSet(Ready)
  <2>1. Ready \subseteq GroupMorphs
    BY GroupsAreMorphs DEF Ready
  <2>2. GroupMorphs \subseteq Int
    BY GroupsAreMorphs DEF Morphs
  <2> QED BY <2>1, <2>2, GroupsAreMorphs, FS_Subset
<1>2. \E x \in Ready : \A y \in Ready : x <= y
  BY <1>1, LeastElement
<1> QED BY <1>2 DEF Min

LEMMA GroupOrders ==
  ASSUME OrderedInv, DocumentInv, NoGroupCycle, members \in [Morphs -> Seq(Morphs)],
         OrderGroup, UNCHANGED groupVars
  PROVE  OrderedInv'
<1>1. /\ stage = "order" /\ at = "done" /\ UNCHANGED <<kinds, members>>
      /\ GroupMorphs \subseteq group.composite
      /\ groupOrder \in Seq(GroupMorphs) /\ OrderedOnce /\ ListersFirst
      /\ \A m \in GroupMorphs : listedBy[m] = SumOver(WaitingLists(m))
  BY DEF OrderGroup, groupVars, OrderedInv, DocumentInv
<1>2. GroupMorphs' = GroupMorphs
  BY <1>1 DEF GroupMorphs, OfKind
<1>3. CASE Ready = {}
  <2>1. stage' = "prepared" /\ UNCHANGED <<listedBy, groupOrder>>
    BY <1>3 DEF OrderGroup
  <2>2. Waiting = {}
    <3> SUFFICES ASSUME Waiting # {} PROVE FALSE
      OBVIOUS
    <3>1. PICK x \in Waiting : \A g \in Waiting : x \notin Range(members[g])
      BY <1>1, GroupsAreMorphs, SomeIsUnlisted
    <3>2. x \in Ready
      BY <1>1, <3>1, ReadyAreUnlisted
    <3> QED BY <3>2, <1>3
  <2>3. Waiting' = {}
    BY <1>2, <2>1, <2>2 DEF Waiting, Ordered, Range
  <2>4. OrderedOnce' /\ ListersFirst'
    BY <1>1, <1>2, <2>1 DEF OrderedOnce, ListersFirst
  <2> QED BY <1>1, <1>2, <2>1, <2>3, <2>4 DEF OrderedInv
<1>4. CASE Ready # {}
  <2> DEFINE g == Min(Ready)
             n == Len(groupOrder)
  <2>1. /\ groupOrder' = Append(groupOrder, g) /\ stage' = "order"
        /\ listedBy' = [m \in Morphs |-> IF m \in GroupMorphs THEN listedBy[m] - Listed(g, m) ELSE 0]
    BY <1>1, <1>4 DEF OrderGroup
  <2>2. g \in Ready /\ g \in Waiting /\ g \in GroupMorphs /\ g \notin Range(groupOrder)
    BY <1>4, ReadyHasLeast DEF Ready, Waiting, Ordered
  <2>3. \A h \in Waiting : g \notin Range(members[h])
    BY <1>1, <2>2, ReadyAreUnlisted
  <2> HIDE DEF g
  <2>4. /\ n \in Nat /\ groupOrder' \in Seq(GroupMorphs) /\ Len(groupOrder') = n + 1 /\ groupOrder'[n + 1] = g
        /\ \A i \in 1..n : groupOrder'[i] = groupOrder[i]
        /\ DOMAIN groupOrder = 1..n /\ DOMAIN groupOrder' = 1..(n + 1)
    BY <1>1, <2>1, <2>2
  <2>5. \A i \in 1..n : groupOrder[i] # g
    BY <2>2, <2>4 DEF Range
  <2>6. OrderedOnce'
    <3> SUFFICES ASSUME NEW i \in 1..(n + 1), NEW k \in 1..(n + 1), groupOrder'[i] = groupOrder'[k] PROVE i = k
      BY <2>4 DEF OrderedOnce
    <3>1. CASE i \in 1..n /\ k \in 1..n
      BY <3>1, <1>1, <2>4 DEF OrderedOnce
    <3>2. CASE i = n + 1 /\ k \in 1..n
      BY <3>2, <2>4, <2>5
    <3>3. CASE k = n + 1 /\ i \in 1..n
      BY <3>3, <2>4, <2>5
    <3> QED BY <3>1, <3>2, <3>3, <2>4
  <2>7. ListersFirst'
    <3> SUFFICES ASSUME NEW i \in 1..(n + 1), NEW h \in GroupMorphs, groupOrder'[i] \in Range(members[h])
                 PROVE  \E j \in 1..(i - 1) : groupOrder'[j] = h
      BY <1>1, <1>2, <2>4 DEF ListersFirst
    <3>1. CASE i \in 1..n
      <4>1. PICK j \in 1..(i - 1) : groupOrder[j] = h
        BY <3>1, <1>1, <2>4 DEF ListersFirst
      <4>2. j \in 1..n
        BY <3>1, <4>1, <2>4
      <4> QED BY <4>1, <4>2, <2>4
    <3>2. CASE i = n + 1
      <4>1. h \notin Waiting
        BY <3>2, <2>3, <2>4
      <4>2. PICK j \in 1..n : groupOrder[j] = h
        BY <4>1, <2>4 DEF Waiting, Ordered, Range
      <4>3. j \in 1..(i - 1)
        BY <4>2, <3>2, <2>4
      <4> QED BY <4>2, <4>3, <2>4
    <3> QED BY <3>1, <3>2, <2>4
  <2>8. Waiting' = Waiting \ {g}
    <3>1. Range(groupOrder') = Range(groupOrder) \cup {g}
      <4>1. ASSUME NEW y \in Range(groupOrder') PROVE y \in Range(groupOrder) \cup {g}
        <5>1. PICK i \in 1..(n + 1) : groupOrder'[i] = y
          BY <4>1, <2>4 DEF Range
        <5>2. CASE i = n + 1
          BY <5>1, <5>2, <2>4
        <5>3. CASE i \in 1..n
          BY <5>1, <5>3, <2>4 DEF Range
        <5> QED BY <5>2, <5>3, <2>4
      <4>2. ASSUME NEW y \in Range(groupOrder) PROVE y \in Range(groupOrder')
        <5>1. PICK i \in 1..n : groupOrder[i] = y
          BY <4>2, <2>4 DEF Range
        <5>2. groupOrder'[i] = y /\ i \in 1..(n + 1)
          BY <5>1, <2>4
        <5> QED BY <5>2, <2>4 DEF Range
      <4>3. g \in Range(groupOrder')
        <5>1. n + 1 \in 1..(n + 1)
          BY <2>4
        <5> QED BY <5>1, <2>4 DEF Range
      <4> QED BY <4>1, <4>2, <4>3
    <3> QED BY <3>1, <1>2 DEF Waiting, Ordered
  <2>9. ASSUME NEW m \in GroupMorphs PROVE listedBy'[m] = SumOver(WaitingLists(m))'
    <3> DEFINE D == Waiting \ {g}
               e == [h \in D |-> Listed(h, m)]
               f == WaitingLists(m)
    <3>1. m \in Morphs /\ g \in Morphs /\ D \in SUBSET Morphs /\ g \notin D /\ D \cup {g} = Waiting
      BY GroupsAreMorphs, <2>2
    <3>2. f \in [Waiting -> Nat] /\ \A h \in Waiting : f[h] = Listed(h, m)
      BY <3>1, WaitingListsType
    <3>3. f \in [D \cup {g} -> Int] /\ e \in [D -> Int] /\ f[g] = Listed(g, m) /\ \A h \in D : f[h] = e[h]
      <4>1. \A h \in D : Listed(h, m) \in Nat /\ h \in Waiting
        BY <3>2
      <4>2. e \in [D -> Int] /\ \A h \in D : e[h] = Listed(h, m)
        BY <4>1
      <4>3. f \in [Waiting -> Int]
        BY <3>2
      <4> QED BY <4>1, <4>2, <4>3, <3>1, <3>2, <2>2
    <3>4. SumOver(WaitingLists(m))' = SumOver(e)
      <4>1. WaitingLists(m)' = e
        BY <1>1, <2>8 DEF WaitingLists, Listed
      <4> QED BY <4>1 DEF SumOver
    <3>5. listedBy'[m] = SumOver(f) - Listed(g, m)
      BY <3>1, <2>1, <1>1
    <3> HIDE DEF D, e, f
    <3>6. SumOver(f) = SumOver(e) + f[g] /\ SumOver(e) \in Int /\ f[g] \in Int
      <4>1. f[g] \in Int
        BY ONLY <3>3
      <4>2. SumOver(f) = SumOver(e) + f[g]
        BY ONLY <3>1, <3>3, SumOverAdds
      <4>3. SumOver(e) \in Int
        BY ONLY <3>1, <3>3, SumOverInt
      <4> QED BY <4>1, <4>2, <4>3
    <3> QED BY <3>3, <3>4, <3>5, <3>6
  <2> QED BY <1>2, <2>1, <2>4, <2>6, <2>7, <2>9 DEF OrderedInv
<1> QED BY <1>3, <1>4

-----------------------------------------------------------------------------
(* Weights through the groups *)

Tracks == [morph : Int, weight : Int]
Weighings == [weights : [Morphs -> Int], reached : SUBSET Morphs]

\* The order of the groups over the members that are left.
GroupsInOrder ==
  /\ members \in [Morphs -> Seq(Morphs)]
  /\ groupOrder \in Seq(GroupMorphs) /\ OrderedOnce /\ ListersFirst

FirstGroups(n) == {groupOrder[i] : i \in 1..n}

\* No group lists itself or one before it.
LEMMA LaterDoNotList ==
  ASSUME GroupsInOrder, NEW n \in 0..(Len(groupOrder) - 1), NEW h \in FirstGroups(n + 1)
  PROVE  h \notin Range(members[groupOrder[n + 1]])
<1> SUFFICES ASSUME h \in Range(members[groupOrder[n + 1]]) PROVE FALSE
  OBVIOUS
<1> DEFINE g == groupOrder[n + 1]
<1>1. Len(groupOrder) \in Nat /\ n \in Nat /\ n + 1 \in 1..Len(groupOrder) /\ g \in GroupMorphs
  BY DEF GroupsInOrder
<1>2. PICK i \in 1..(n + 1) : groupOrder[i] = h
  BY DEF FirstGroups
<1>3. i \in 1..Len(groupOrder)
  BY <1>1
<1>4. PICK j \in 1..(i - 1) : groupOrder[j] = g
  BY <1>1, <1>2, <1>3 DEF GroupsInOrder, ListersFirst
<1>5. j \in 1..Len(groupOrder) /\ j # n + 1
  BY <1>1, <1>3
<1> QED BY <1>1, <1>4, <1>5 DEF GroupsInOrder, OrderedOnce

LEMMA PushedIs ==
  ASSUME members \in [Morphs -> Seq(Morphs)], NEW s \in Weighings, NEW g \in Morphs
  PROVE  /\ Pushed(s, g) \in Weighings
         /\ \A m \in Morphs : Pushed(s, g).weights[m] = s.weights[m] + Listed(g, m) * (s.weights[g] * Ratio[g][m])
         /\ g \in s.reached => Pushed(s, g).reached = s.reached \cup Range(members[g])
         /\ g \notin s.reached => Pushed(s, g).reached = s.reached
<1>1. s.weights \in [Morphs -> Int] /\ s.reached \in SUBSET Morphs
  BY DEF Weighings
<1>2. ASSUME NEW m \in Morphs PROVE s.weights[m] + Listed(g, m) * (s.weights[g] * Ratio[g][m]) \in Int
  <2>1. Listed(g, m) \in Int /\ s.weights[m] \in Int /\ s.weights[g] \in Int /\ Ratio[g][m] \in Int
    BY <1>1, ListedIs, RatioAssumption
  <2>2. s.weights[g] * Ratio[g][m] \in Int
    BY <2>1
  <2>3. Listed(g, m) * (s.weights[g] * Ratio[g][m]) \in Int
    <3> DEFINE b == s.weights[g] * Ratio[g][m]
    <3>1. b \in Int
      BY <2>2
    <3> HIDE DEF b
    <3>2. Listed(g, m) * b \in Int
      BY <2>1, <3>1
    <3> QED BY <3>2 DEF b
  <2> DEFINE c == Listed(g, m) * (s.weights[g] * Ratio[g][m])
  <2>4. c \in Int
    BY <2>3
  <2> HIDE DEF c
  <2>5. s.weights[m] + c \in Int
    BY <2>1, <2>4
  <2> QED BY <2>5 DEF c
<1>3. Range(members[g]) \subseteq Morphs
  BY DEF Range
<1> QED BY <1>1, <1>2, <1>3 DEF Pushed, Weighings

\* The groups push one after the other.
LEMMA ExpandedSteps ==
  ASSUME GroupsInOrder, NEW s \in Weighings
  PROVE  /\ Expanded(s) \in [0..Len(groupOrder) -> Weighings] /\ Expanded(s)[0] = s
         /\ \A n \in 1..Len(groupOrder) : Expanded(s)[n] = Pushed(Expanded(s)[n - 1], groupOrder[n])
<1> DEFINE last == Len(groupOrder)
           G == [n \in 1..last |-> [x \in Weighings |-> Pushed(x, groupOrder[n])]]
           Is(f) == f = [n \in 0..last |-> IF n = 0 THEN s ELSE Pushed(f[n - 1], groupOrder[n])]
<1>1. last \in Nat /\ \A n \in 1..last : groupOrder[n] \in Morphs
  BY GroupsAreMorphs DEF GroupsInOrder
<1>2. G \in StepsOn(Weighings, last)
  <2>1. ASSUME NEW n \in 1..last, NEW x \in Weighings PROVE Pushed(x, groupOrder[n]) \in Weighings
    BY <1>1, PushedIs DEF GroupsInOrder
  <2> QED BY <2>1 DEF StepsOn
<1>3. PICK f \in [0..last -> Weighings] : f[0] = s /\ \A n \in 1..last : f[n] = G[n][f[n - 1]]
  <2>1. \E h \in RunsOn(Weighings, last) : Follows(h, s, G, last)
    <3> HIDE DEF G
    <3> QED BY <1>1, <1>2, Recursion
  <2> HIDE DEF G
  <2> QED BY <2>1 DEF RunsOn, Follows
<1> HIDE DEF last
<1>4. ASSUME NEW n \in 1..last PROVE f[n] = Pushed(f[n - 1], groupOrder[n])
  <2>1. n - 1 \in 0..last
    BY <1>1
  <2>2. f[n - 1] \in Weighings /\ f[n] = G[n][f[n - 1]]
    BY <2>1, <1>3
  <2> HIDE <1>3
  <2> QED BY <2>2
<1> HIDE DEF G
<1>5. Is(f)
  <2>1. \A n \in 0..last : n # 0 => n \in 1..last
    BY <1>1
  <2>2. \A n \in 0..last : f[n] = IF n = 0 THEN s ELSE Pushed(f[n - 1], groupOrder[n])
    BY <2>1, <1>3, <1>4
  <2>3. f = [n \in 0..last |-> f[n]]
    OBVIOUS
  <2> QED BY <2>2, <2>3
<1>6. Expanded(s) = CHOOSE h : Is(h)
  BY DEF Expanded, last
<1>7. Is(Expanded(s))
  <2> HIDE DEF Is
  <2> QED BY <1>5, <1>6
<1> DEFINE F == Expanded(s)
<1> HIDE DEF F
<1>8. F = [n \in 0..last |-> IF n = 0 THEN s ELSE Pushed(F[n - 1], groupOrder[n])]
  BY <1>7 DEF F
<1>9. F = [n \in 0..last |-> F[n]] /\ F[0] = s
  BY <1>1, <1>8
<1>10. ASSUME NEW n \in 1..last PROVE F[n] = Pushed(F[n - 1], groupOrder[n])
  <2>1. n \in 0..last /\ n # 0
    BY <1>1
  <2> QED BY <2>1, <1>8
<1> DEFINE Good == {n \in 0..last : F[n] \in Weighings}
<1>11. 0..last \subseteq Good
  <2>1. 0 \in Good
    BY <1>1, <1>9
  <2>2. ASSUME NEW n \in 0..(last - 1), n \in Good PROVE n + 1 \in Good
    <3>1. n + 1 \in 1..last /\ n + 1 \in 0..last /\ (n + 1) - 1 = n /\ F[n] \in Weighings
      BY <2>2, <1>1
    <3>2. F[n + 1] = Pushed(F[n], groupOrder[n + 1])
      BY <3>1, <1>10
    <3>3. Pushed(F[n], groupOrder[n + 1]) \in Weighings
      BY <3>1, <1>1, PushedIs DEF GroupsInOrder
    <3> QED BY <3>1, <3>2, <3>3
  <2> HIDE DEF Good
  <2> QED BY <2>1, <2>2, <1>1, UpTo
<1>12. F \in [0..last -> Weighings]
  BY <1>9, <1>11
<1> QED BY <1>9, <1>10, <1>12 DEF F, last

\* What g gives m of the groups of S.
PulledBy(f, m, S) == [g \in Listers(m) \cap S |-> Listed(g, m) * (f[g] * Ratio[g][m])]

LEMMA PulledByType ==
  ASSUME members \in [Morphs -> Seq(Morphs)], NEW f \in [Morphs -> Int], NEW m \in Morphs, NEW S
  PROVE  /\ PulledBy(f, m, S) \in [Listers(m) \cap S -> Int] /\ Listers(m) \cap S \in SUBSET Morphs
         /\ \A g \in Listers(m) \cap S : PulledBy(f, m, S)[g] = Listed(g, m) * (f[g] * Ratio[g][m])
<1>1. Listers(m) \subseteq Morphs
  BY GroupsAreMorphs DEF Listers
<1>2. ASSUME NEW g \in Morphs PROVE Listed(g, m) * (f[g] * Ratio[g][m]) \in Int
  <2>1. Listed(g, m) \in Int /\ f[g] \in Int /\ Ratio[g][m] \in Int
    BY ListedIs, RatioAssumption
  <2> DEFINE b == f[g] * Ratio[g][m]
  <2>2. b \in Int
    BY <2>1
  <2> HIDE DEF b
  <2>3. Listed(g, m) * b \in Int
    BY <2>1, <2>2
  <2> QED BY <2>3 DEF b
<1> QED BY <1>1, <1>2 DEF PulledBy

\* The equations whose solution weighs every way through the groups.
Solves(f, d) == \A m \in Morphs : f[m] = d[m] + SumOver(PulledBy(f, m, GroupMorphs))

\* Where the first groups have pushed, what they give is in the weights.
PushedIn(w, d, n) == \A m \in Morphs : w[m] = d[m] + SumOver(PulledBy(w, m, FirstGroups(n)))

LEMMA PushKeepsSums ==
  ASSUME GroupsInOrder, NEW s \in Weighings, NEW d \in [Morphs -> Int],
         NEW n \in 0..(Len(groupOrder) - 1), PushedIn(s.weights, d, n)
  PROVE  PushedIn(Pushed(s, groupOrder[n + 1]).weights, d, n + 1)
<1> DEFINE g == groupOrder[n + 1]
           w == s.weights
           v == Pushed(s, g).weights
           A == FirstGroups(n)
           B == FirstGroups(n + 1)
<1>1. /\ members \in [Morphs -> Seq(Morphs)] /\ Len(groupOrder) \in Nat /\ n \in Nat
      /\ n + 1 \in 1..Len(groupOrder) /\ g \in GroupMorphs /\ g \in Morphs /\ w \in [Morphs -> Int]
  BY GroupsAreMorphs DEF GroupsInOrder, Weighings
<1>2. /\ v \in [Morphs -> Int]
      /\ \A m \in Morphs : v[m] = w[m] + Listed(g, m) * (w[g] * Ratio[g][m])
  BY <1>1, PushedIs DEF Weighings
<1>3. /\ B = A \cup {g} /\ g \notin A /\ A \subseteq GroupMorphs
  <2>1. \A i \in 1..(n + 1) : i \in 1..n \/ i = n + 1
    BY <1>1
  <2>2. \A i \in 1..n : i \in 1..Len(groupOrder) /\ i # n + 1 /\ i \in 1..(n + 1)
    BY <1>1
  <2>3. n + 1 \in 1..(n + 1)
    BY <1>1
  <2>4. B = A \cup {g}
    BY <2>1, <2>2, <2>3 DEF FirstGroups
  <2>5. g \notin A
    BY <2>2, <1>1 DEF FirstGroups, GroupsInOrder, OrderedOnce
  <2> QED BY <2>2, <2>4, <2>5 DEF FirstGroups, GroupsInOrder
<1>4. \A h \in B : h \notin Range(members[g])
  BY LaterDoNotList
<1>5. ASSUME NEW h \in B PROVE v[h] = w[h]
  <2>1. h \in Morphs
    BY <1>1, <1>3, GroupsAreMorphs
  <2>2. Listed(g, h) = 0
    BY <1>1, <1>4, <2>1, ListedIs
  <2>3. w[g] \in Int /\ Ratio[g][h] \in Int /\ w[h] \in Int
    BY <1>1, <2>1, RatioAssumption
  <2>4. v[h] = w[h] + 0 * (w[g] * Ratio[g][h])
    BY <1>2, <2>1, <2>2
  <2> DEFINE b == w[g] * Ratio[g][h]
  <2>5. b \in Int /\ v[h] = w[h] + 0 * b
    BY <2>3, <2>4
  <2> HIDE DEF b, w, v
  <2> QED BY <2>3, <2>5
<1> HIDE DEF g, w, v, A, B
<1>6. ASSUME NEW m \in Morphs PROVE v[m] = d[m] + SumOver(PulledBy(v, m, B))
  <2> DEFINE e == PulledBy(w, m, A)
             f == PulledBy(v, m, B)
             D == Listers(m) \cap A
             E == Listers(m) \cap B
  <2>1. /\ e \in [D -> Int] /\ D \in SUBSET Morphs
        /\ \A h \in D : e[h] = Listed(h, m) * (w[h] * Ratio[h][m])
    BY ZenonT(60), <1>1, PulledByType
  <2>2. /\ f \in [E -> Int] /\ E \in SUBSET Morphs
        /\ \A h \in E : f[h] = Listed(h, m) * (v[h] * Ratio[h][m])
    <3>1. v \in [Morphs -> Int]
      BY <1>2
    <3>2. members \in [Morphs -> Seq(Morphs)]
      BY <1>1
    <3>3. /\ PulledBy(v, m, B) \in [Listers(m) \cap B -> Int] /\ Listers(m) \cap B \in SUBSET Morphs
          /\ \A h \in Listers(m) \cap B : PulledBy(v, m, B)[h] = Listed(h, m) * (v[h] * Ratio[h][m])
      BY ONLY <1>6, <3>1, <3>2, PulledByType
    <3> QED BY ONLY <3>3
  <2>3. w[m] = d[m] + SumOver(e)
    BY DEF PushedIn, A, w
  <2>4. v[m] = w[m] + Listed(g, m) * (w[g] * Ratio[g][m])
    BY <1>2
  <2>5. w[m] \in Int /\ d[m] \in Int /\ g \in B /\ D \subseteq B /\ D \subseteq E
    BY <1>1, <1>3
  <2>6. \A h \in D : f[h] = e[h]
    BY <2>1, <2>2, <2>5, <1>5
  <2>7. CASE g \in Listers(m)
    <3>1. E = D \cup {g} /\ g \notin D
      BY <1>3, <2>7
    <3>2. SumOver(f) = SumOver(e) + f[g]
      <4> HIDE DEF D, E, e, f
      <4>1. f \in [D \cup {g} -> Int]
        BY <2>2, <3>1
      <4>2. g \in Morphs /\ e \in [D -> Int] /\ D \in SUBSET Morphs
        BY <1>1, <2>1
      <4> QED BY ONLY ZenonT(60), <2>6, <3>1, <4>1, <4>2, SumOverAdds
    <3>3. f[g] = Listed(g, m) * (w[g] * Ratio[g][m])
      <4>1. v[g] = w[g] /\ g \in E
        BY <2>5, <1>5, <3>1
      <4> QED BY <4>1, <2>2
    <3>4. SumOver(e) \in Int /\ f[g] \in Int
      <4>1. f[g] \in Int
        BY <2>2, <3>1
      <4> HIDE DEF D, E, e, f
      <4> QED BY <2>1, <4>1, SumOverInt
    <3> HIDE DEF D, E, e
    <3>5. v[m] = (d[m] + SumOver(e)) + f[g]
      BY <2>3, <2>4, <3>3
    <3> HIDE DEF f
    <3>6. v[m] = d[m] + SumOver(f)
      BY <3>2, <3>4, <3>5, <2>5
    <3> QED BY <3>6 DEF f
  <2>8. CASE g \notin Listers(m)
    <3>1. E = D
      BY <1>3, <2>8
    <3>2. f = e
      <4>1. f = [h \in E |-> f[h]] /\ e = [h \in D |-> e[h]]
        BY <2>1, <2>2
      <4> HIDE DEF e, f, D, E
      <4> QED BY <4>1, <3>1, <2>6
    <3>3. Listed(g, m) = 0
      <4>1. Listed(g, m) \in Nat
        BY <1>1, ListedIs
      <4> QED BY <1>1, <2>8, <4>1 DEF Listers
    <3>4. v[m] = w[m]
      <4> DEFINE b == w[g] * Ratio[g][m]
      <4>1. b \in Int
        BY <1>1, RatioAssumption
      <4>2. v[m] = w[m] + 0 * b
        BY <2>4, <3>3
      <4> HIDE DEF b
      <4> QED BY <4>1, <4>2, <2>5
    <3> QED BY <3>2, <3>4, <2>3
  <2> QED BY <2>7, <2>8
<1> QED BY <1>6 DEF PushedIn, v, B, g

-----------------------------------------------------------------------------
(* What lists give *)

Adding(list, m) == [i \in DOMAIN list |-> IF list[i].morph = m THEN list[i].weight ELSE 0]

LEMMA AddingIs ==
  ASSUME NEW list \in Seq(Tracks), NEW m
  PROVE  /\ Adding(list, m) \in Seq(Int) /\ Len(Adding(list, m)) = Len(list)
         /\ \A i \in 1..Len(list) : /\ list[i].morph = m => Adding(list, m)[i] = list[i].weight
                                    /\ list[i].morph # m => Adding(list, m)[i] = 0
         /\ GivenTo(list, m) = Total(Adding(list, m)) /\ GivenTo(list, m) \in Int
<1>1. Len(list) \in Nat /\ DOMAIN list = 1..Len(list) /\ \A i \in 1..Len(list) : list[i] \in Tracks
  OBVIOUS
<1>2. \A i \in 1..Len(list) : list[i].weight \in Int
  BY <1>1 DEF Tracks
<1>3. Adding(list, m) = [i \in 1..Len(list) |-> IF list[i].morph = m THEN list[i].weight ELSE 0]
  BY <1>1 DEF Adding
<1>4. ASSUME NEW i \in 1..Len(list) PROVE (IF list[i].morph = m THEN list[i].weight ELSE 0) \in Int
  <2>1. CASE list[i].morph = m
    BY <2>1, <1>2
  <2>2. CASE list[i].morph # m
    BY <2>2
  <2> QED BY <2>1, <2>2
<1>5. Adding(list, m) \in [1..Len(list) -> Int]
  BY <1>3, <1>4
<1>6. Adding(list, m) \in Seq(Int) /\ Len(Adding(list, m)) = Len(list)
  BY <1>1, <1>5
<1>7. GivenTo(list, m) = Total(Adding(list, m))
  BY DEF GivenTo, Adding
<1> QED BY <1>3, <1>6, <1>7, TotalInt

LEMMA GivenIsWeighing ==
  ASSUME NEW list \in Seq([morph : Morphs, weight : Int])
  PROVE  Given(list) \in Weighings /\ list \in Seq(Tracks)
<1> DEFINE T == [morph : Morphs, weight : Int]
<1>0. \A c \in T : c.morph \in Morphs /\ c \in Tracks
  <2>1. Morphs \subseteq Int
    BY DEF Morphs
  <2> QED BY <2>1 DEF Tracks
<1> HIDE DEF T
<1>4. DOMAIN list = 1..Len(list) /\ \A k \in 1..Len(list) : list[k] \in T
  <2>1. list \in Seq(T)
    BY DEF T
  <2> QED BY <2>1, SequenceShape
<1>1. list \in Seq(Tracks)
  <2>1. list \in Seq(T)
    BY DEF T
  <2> QED BY <2>1, <1>0, <1>4, OfFewer
<1>2. Named(list) \subseteq Morphs
  BY <1>0, <1>4 DEF Named
<1>3. \A m \in Morphs : GivenTo(list, m) \in Int
  BY <1>1, AddingIs
<1> QED BY <1>1, <1>2, <1>3 DEF Given, Weighings

LEMMA GivenToMore ==
  ASSUME NEW list \in Seq(Tracks), NEW c \in Tracks, NEW m
  PROVE  /\ c.morph = m => GivenTo(Append(list, c), m) = GivenTo(list, m) + c.weight
         /\ c.morph # m => GivenTo(Append(list, c), m) = GivenTo(list, m)
<1> DEFINE more == Append(list, c)
           s == Adding(list, m)
           t == Adding(more, m)
           n == Len(list)
<1>1. /\ n \in Nat /\ more \in Seq(Tracks) /\ Len(more) = n + 1 /\ more[n + 1] = c
      /\ \A i \in 1..n : more[i] = list[i]
  BY OneMore
<1>2. /\ s \in Seq(Int) /\ Len(s) = n /\ GivenTo(list, m) = Total(s) /\ GivenTo(list, m) \in Int
      /\ \A i \in 1..n : (list[i].morph = m => s[i] = list[i].weight) /\ (list[i].morph # m => s[i] = 0)
  BY AddingIs
<1>3. /\ t \in Seq(Int) /\ Len(t) = Len(more) /\ GivenTo(more, m) = Total(t)
      /\ \A i \in 1..Len(more) : (more[i].morph = m => t[i] = more[i].weight) /\ (more[i].morph # m => t[i] = 0)
  <2> HIDE DEF more
  <2> QED BY <1>1, AddingIs
<1> HIDE DEF more, s, t
<1>4. \A i \in 1..n : t[i] = s[i]
  <2> TAKE i \in 1..n
  <2>1. i \in 1..Len(more) /\ more[i] = list[i]
    BY <1>1
  <2>2. CASE list[i].morph = m
    BY <2>1, <2>2, <1>2, <1>3
  <2>3. CASE list[i].morph # m
    BY <2>1, <2>3, <1>2, <1>3
  <2> QED BY <2>2, <2>3
<1>5. Total(t) = Total(s) + t[n + 1]
  <2>1. Len(t) = Len(s) + 1 /\ \A i \in 1..Len(s) : t[i] = s[i]
    BY <1>1, <1>2, <1>3, <1>4
  <2>2. Total(t) = Total(s) + t[Len(t)]
    BY ONLY <2>1, <1>2, <1>3, TotalAppend
  <2> QED BY <2>2, <1>1, <1>3
<1>6. n + 1 \in 1..Len(more)
  BY <1>1
<1>7. (c.morph = m => t[n + 1] = c.weight) /\ (c.morph # m => t[n + 1] = 0)
  BY <1>1, <1>3, <1>6
<1>8. (c.morph = m => GivenTo(more, m) = GivenTo(list, m) + c.weight)
      /\ (c.morph # m => GivenTo(more, m) = GivenTo(list, m))
  BY <1>2, <1>3, <1>5, <1>7
<1> QED BY <1>8 DEF more

\* What a list has of some morphs gives each of them what the list does.
LEMMA OfMorphsGives ==
  ASSUME NEW list \in Seq(Tracks), NEW S, NEW m \in S
  PROVE  GivenTo(OfMorphs(list, S), m) = GivenTo(list, m)
<1> DEFINE L == {list[i] : i \in {k \in DOMAIN list : list[k].morph \in S}}
           F == KeptOf(list, L)
           s == Adding(list, m)
           last == Len(list)
           P == {k \in 0..last : GivenTo(F[k], m) = SumTo(s)[k]}
<1>1. /\ last \in Nat /\ DOMAIN list = 1..last /\ \A i \in 1..last : list[i] \in Tracks
  OBVIOUS
<1>2. /\ F \in [0..last -> Seq(Tracks)] /\ F[0] = <<>>
      /\ \A k \in 1..last : F[k] = IF list[k] \notin L THEN F[k - 1] ELSE Append(F[k - 1], list[k])
  BY KeptOfSteps
<1>3. \A k \in 1..last : list[k] \in L <=> list[k].morph \in S
  BY <1>1
<1>4. /\ s \in Seq(Int) /\ Len(s) = last /\ GivenTo(list, m) = Total(s)
      /\ \A i \in 1..last : (list[i].morph = m => s[i] = list[i].weight) /\ (list[i].morph # m => s[i] = 0)
  BY AddingIs
<1>5. /\ SumTo(s) \in [0..last -> Int] /\ SumTo(s)[0] = 0
      /\ \A k \in 1..last : SumTo(s)[k] = SumTo(s)[k - 1] + s[k]
  BY <1>4, IntSumSteps
<1> HIDE DEF F, s, L, last
<1>6. 0 \in P
  <2>1. <<>> \in Seq(Tracks) /\ Len(<<>>) = 0
    OBVIOUS
  <2>2. GivenTo(<<>>, m) = Total(Adding(<<>>, m)) /\ Adding(<<>>, m) \in Seq(Int) /\ Len(Adding(<<>>, m)) = 0
    BY <2>1, AddingIs
  <2>3. Total(Adding(<<>>, m)) = 0
    BY <2>2, TotalZeros
  <2> QED BY <2>2, <2>3, <1>1, <1>2, <1>5
<1>7. ASSUME NEW k \in 0..(last - 1), k \in P PROVE k + 1 \in P
  <2>1. k + 1 \in 1..last /\ k + 1 \in 0..last /\ k \in 0..last /\ (k + 1) - 1 = k
    BY <1>1
  <2>2. F[k] \in Seq(Tracks) /\ list[k + 1] \in Tracks /\ GivenTo(F[k], m) = SumTo(s)[k] /\ SumTo(s)[k] \in Int
    BY <2>1, <1>1, <1>2, <1>5, <1>7
  <2>3. SumTo(s)[k + 1] = SumTo(s)[k] + s[k + 1]
    BY <2>1, <1>5
  <2>4. CASE list[k + 1].morph = m
    <3>1. F[k + 1] = Append(F[k], list[k + 1])
      BY <2>1, <2>4, <1>2, <1>3
    <3>2. GivenTo(Append(F[k], list[k + 1]), m) = GivenTo(F[k], m) + list[k + 1].weight
      BY <2>2, <2>4, GivenToMore
    <3>3. s[k + 1] = list[k + 1].weight
      BY <2>1, <2>4, <1>4
    <3> QED BY <3>1, <3>2, <3>3, <2>1, <2>2, <2>3
  <2>5. CASE list[k + 1].morph # m
    <3>1. F[k + 1] = F[k] \/ F[k + 1] = Append(F[k], list[k + 1])
      BY <2>1, <1>2
    <3>2. GivenTo(Append(F[k], list[k + 1]), m) = GivenTo(F[k], m)
      BY <2>2, <2>5, GivenToMore
    <3>3. s[k + 1] = 0
      BY <2>1, <2>5, <1>4
    <3>4. SumTo(s)[k + 1] = SumTo(s)[k]
      BY <3>3, <2>2, <2>3
    <3> QED BY <3>1, <3>2, <3>4, <2>1, <2>2
  <2> QED BY <2>4, <2>5
<1>8. last \in P
  <2>1. 0..last \subseteq P
    <3> HIDE DEF P
    <3> QED BY <1>1, <1>6, <1>7, UpTo
  <2> QED BY <2>1, <1>1
<1>9. OfMorphs(list, S) = F[last]
  BY DEF OfMorphs, Selected, F, L, last
<1>10. Total(s) = SumTo(s)[last]
  BY <1>4 DEF Total
<1> QED BY <1>4, <1>8, <1>9, <1>10

\* What a list has of some morphs has just those.
LEMMA OfMorphsIs ==
  ASSUME NEW T, NEW S, NEW list \in Seq(T)
  PROVE  /\ OfMorphs(list, S) \in Seq({c \in T : c.morph \in S})
         /\ Named(OfMorphs(list, S)) = Named(list) \cap S
<1> DEFINE L == {list[i] : i \in {k \in DOMAIN list : list[k].morph \in S}}
           r == OfMorphs(list, S)
<1>1. Len(list) \in Nat /\ DOMAIN list = 1..Len(list) /\ \A i \in 1..Len(list) : list[i] \in T
  OBVIOUS
<1>2. r = Selected(list, L)
  BY DEF OfMorphs
<1>3. /\ r \in Seq(T)
      /\ {r[k] : k \in 1..Len(r)} = {list[k] : k \in 1..Len(list)} \cap L
  <2> HIDE DEF L, r
  <2>1. /\ Selected(list, L) \in Seq(T)
        /\ {Selected(list, L)[k] : k \in 1..Len(Selected(list, L))} = {list[k] : k \in 1..Len(list)} \cap L
    BY SelectedMembers, SelectedRanks
  <2> QED BY <1>2, <2>1
<1>4. DOMAIN r = 1..Len(r)
  BY <1>3
<1> HIDE DEF r
<1>5. \A k \in 1..Len(r) : r[k] \in T /\ r[k].morph \in S
  <2>1. \A x \in L : x.morph \in S
    OBVIOUS
  <2> HIDE DEF L
  <2> QED BY <2>1, <1>3
<1>6. r \in Seq({c \in T : c.morph \in S})
  BY <1>3, <1>5, OfFewer
<1>7. ASSUME NEW m \in Named(r) PROVE m \in Named(list) \cap S
  <2>1. PICK k \in 1..Len(r) : m = r[k].morph
    BY <1>4 DEF Named
  <2>2. PICK i \in 1..Len(list) : r[k] = list[i]
    BY <1>3
  <2> QED BY <2>1, <2>2, <1>1, <1>5 DEF Named
<1>8. ASSUME NEW m \in Named(list) \cap S PROVE m \in Named(r)
  <2>1. PICK i \in 1..Len(list) : m = list[i].morph
    BY <1>1 DEF Named
  <2>2. list[i] \in L
    BY <1>1, <2>1, <1>8
  <2>3. PICK k \in 1..Len(r) : r[k] = list[i]
    BY <1>3, <2>2
  <2> QED BY <2>1, <2>3, <1>4 DEF Named
<1> QED BY <1>6, <1>7, <1>8 DEF r

-----------------------------------------------------------------------------
(* What the groups reach *)

\* Where the first groups have pushed, what they reach is reached, and nothing
\* that a closed set around the named morphs leaves out.
ReachedIn(R, named, n) ==
  /\ named \subseteq R
  /\ \A F \in SUBSET Morphs : named \subseteq F /\ Closed(F) => R \subseteq F
  /\ \A h \in FirstGroups(n) : h \in R => Range(members[h]) \subseteq R

LEMMA FirstGroupsGrow ==
  ASSUME GroupsInOrder, NEW n \in 0..(Len(groupOrder) - 1)
  PROVE  /\ FirstGroups(n + 1) = FirstGroups(n) \cup {groupOrder[n + 1]}
         /\ groupOrder[n + 1] \in GroupMorphs /\ groupOrder[n + 1] \in Morphs
<1>1. Len(groupOrder) \in Nat /\ n \in Nat /\ n + 1 \in 1..Len(groupOrder)
  BY DEF GroupsInOrder
<1>2. groupOrder[n + 1] \in GroupMorphs
  BY <1>1 DEF GroupsInOrder
<1>3. \A i : i \in 1..(n + 1) <=> i \in 1..n \/ i = n + 1
  BY <1>1
<1>4. FirstGroups(n + 1) = FirstGroups(n) \cup {groupOrder[n + 1]}
  BY <1>3 DEF FirstGroups
<1> QED BY <1>2, <1>4, GroupsAreMorphs

LEMMA PushKeepsReached ==
  ASSUME GroupsInOrder, NEW s \in Weighings, NEW named,
         NEW n \in 0..(Len(groupOrder) - 1), ReachedIn(s.reached, named, n)
  PROVE  ReachedIn(Pushed(s, groupOrder[n + 1]).reached, named, n + 1)
<1> DEFINE g == groupOrder[n + 1]
           R == s.reached
           Q == Pushed(s, g).reached
<1>1. FirstGroups(n + 1) = FirstGroups(n) \cup {g} /\ g \in GroupMorphs /\ g \in Morphs
  BY FirstGroupsGrow
<1>2. (g \in R => Q = R \cup Range(members[g])) /\ (g \notin R => Q = R)
  BY <1>1, PushedIs DEF GroupsInOrder
<1>3. \A h \in FirstGroups(n + 1) : h \notin Range(members[g])
  BY LaterDoNotList
<1>4. /\ named \subseteq R
      /\ \A F \in SUBSET Morphs : named \subseteq F /\ Closed(F) => R \subseteq F
      /\ \A h \in FirstGroups(n) : h \in R => Range(members[h]) \subseteq R
  BY DEF ReachedIn
<1> HIDE DEF g, R, Q
<1>5. named \subseteq Q /\ R \subseteq Q
  BY <1>2, <1>4
<1>6. ASSUME NEW F \in SUBSET Morphs, named \subseteq F, Closed(F) PROVE Q \subseteq F
  <2>1. R \subseteq F
    BY <1>4, <1>6
  <2>2. g \in R => Range(members[g]) \subseteq F
    BY <1>1, <1>6, <2>1 DEF Closed
  <2> QED BY <1>2, <2>1, <2>2
<1>7. ASSUME NEW h \in FirstGroups(n + 1), h \in Q PROVE Range(members[h]) \subseteq Q
  <2>1. h \in R
    BY <1>2, <1>3, <1>7
  <2>2. CASE h = g
    BY <2>1, <2>2, <1>2
  <2>3. CASE h \in FirstGroups(n)
    BY <2>1, <2>3, <1>4, <1>5
  <2> QED BY <2>2, <2>3, <1>1
<1>8. ReachedIn(Q, named, n + 1)
  BY <1>5, <1>6, <1>7 DEF ReachedIn
<1> QED BY <1>8 DEF Q, g

-----------------------------------------------------------------------------
(* The groups pushed to the end *)

\* Whatever a list gives, the ordered groups bring it everywhere it leads.
LEMMA GroupsExpand ==
  ASSUME GroupsInOrder, Waiting = {}, NEW list \in Seq([morph : Morphs, weight : Int])
  PROVE  /\ ExpandGroups(Given(list)) \in Weighings
         /\ Solves(ExpandGroups(Given(list)).weights, Given(list).weights)
         /\ ExpandGroups(Given(list)).reached = ReachedBy(list)
<1> DEFINE s == Given(list)
           E == Expanded(s)
           last == Len(groupOrder)
           d == s.weights
           P == {n \in 0..last : PushedIn(E[n].weights, d, n) /\ ReachedIn(E[n].reached, Named(list), n)}
<1>1. s \in Weighings /\ d \in [Morphs -> Int] /\ s.reached = Named(list) /\ Named(list) \subseteq Morphs
  BY GivenIsWeighing DEF Given, Weighings
<1>2. /\ E \in [0..last -> Weighings] /\ E[0] = s
      /\ \A n \in 1..last : E[n] = Pushed(E[n - 1], groupOrder[n])
  <2> HIDE DEF s
  <2> QED BY <1>1, ExpandedSteps
<1>3. last \in Nat /\ members \in [Morphs -> Seq(Morphs)] /\ groupOrder \in Seq(GroupMorphs)
  BY DEF GroupsInOrder
<1>4. FirstGroups(0) = {} /\ FirstGroups(last) = GroupMorphs
  <2>1. DOMAIN groupOrder = 1..last
    BY <1>3
  <2>2. FirstGroups(last) = Range(groupOrder)
    BY <2>1 DEF FirstGroups, Range
  <2>3. Range(groupOrder) \subseteq GroupMorphs
    BY <1>3 DEF Range
  <2>4. FirstGroups(0) = {}
    BY DEF FirstGroups
  <2> QED BY <2>2, <2>3, <2>4 DEF Waiting, Ordered
<1>5. ExpandGroups(s) = E[last]
  BY DEF ExpandGroups
<1> HIDE DEF s, E, last, d
<1>6. 0 \in P
  <2>1. ASSUME NEW m \in Morphs PROVE SumOver(PulledBy(s.weights, m, {})) = 0
    <3>1. Listers(m) \cap {} = {} /\ {} \in SUBSET Morphs
      OBVIOUS
    <3>2. PulledBy(s.weights, m, {}) \in [{} -> Int]
      BY <3>1 DEF PulledBy
    <3> QED BY <3>1, <3>2, SumOverZeros
  <2>2. ASSUME NEW m \in Morphs PROVE s.weights[m] = d[m] + SumOver(PulledBy(s.weights, m, {}))
    <3>1. s.weights[m] = d[m] /\ d[m] \in Int
      BY <1>1 DEF d
    <3> QED BY <3>1, <2>1
  <2>3. PushedIn(E[0].weights, d, 0)
    BY <1>2, <1>4, <2>2 DEF PushedIn
  <2>4. ReachedIn(E[0].reached, Named(list), 0)
    BY <1>1, <1>2, <1>4 DEF ReachedIn
  <2> QED BY <2>3, <2>4, <1>3
<1>7. ASSUME NEW n \in 0..(last - 1), n \in P PROVE n + 1 \in P
  <2>1. n + 1 \in 1..last /\ n + 1 \in 0..last /\ n \in 0..last /\ (n + 1) - 1 = n
    BY <1>3
  <2>2. E[n] \in Weighings /\ E[n + 1] = Pushed(E[n], groupOrder[n + 1])
    BY <2>1, <1>2
  <2>3. PushedIn(E[n].weights, d, n) /\ ReachedIn(E[n].reached, Named(list), n)
    BY <1>7
  <2>4. n \in 0..(Len(groupOrder) - 1)
    BY DEF last
  <2>5. PushedIn(E[n + 1].weights, d, n + 1)
    BY <2>2, <2>3, <2>4, <1>1, PushKeepsSums
  <2>6. ReachedIn(E[n + 1].reached, Named(list), n + 1)
    BY <2>2, <2>3, <2>4, PushKeepsReached
  <2> QED BY <2>1, <2>5, <2>6
<1>8. last \in P
  <2>1. 0..last \subseteq P
    <3> HIDE DEF P
    <3> QED BY <1>3, <1>6, <1>7, UpTo
  <2> QED BY <2>1, <1>3
<1> DEFINE w == E[last].weights
           R == E[last].reached
<1>9. E[last] \in Weighings /\ PushedIn(w, d, last) /\ ReachedIn(R, Named(list), last)
  BY <1>2, <1>3, <1>8
<1>10. Solves(w, d)
  BY <1>4, <1>9 DEF PushedIn, Solves
<1>11. R \in SUBSET Morphs /\ Named(list) \subseteq R /\ Closed(R)
  BY <1>4, <1>9 DEF ReachedIn, Closed, Weighings
<1>12. R = ReachedBy(list)
  BY <1>9, <1>11 DEF ReachedIn, ReachedBy
<1> QED BY <1>5, <1>9, <1>10, <1>12 DEF s, d

\* Weights that two lists give are the same on every group if the lists give
\* the groups the same: a group's weight depends on groups before it.
LEMMA SolutionsAgree ==
  ASSUME GroupsInOrder, Waiting = {}, NEW f, NEW h, NEW d, NEW e,
         Solves(f, d), Solves(h, e), \A g \in GroupMorphs : d[g] = e[g]
  PROVE  \A m \in Morphs : d[m] = e[m] => f[m] = h[m]
<1> DEFINE last == Len(groupOrder)
           P == {n \in 0..last : \A g \in FirstGroups(n) : f[g] = h[g]}
<1>1. last \in Nat /\ members \in [Morphs -> Seq(Morphs)] /\ groupOrder \in Seq(GroupMorphs) /\ ListersFirst
  BY DEF GroupsInOrder
<1>2. FirstGroups(last) = GroupMorphs
  <2>1. DOMAIN groupOrder = 1..last
    BY <1>1
  <2>2. FirstGroups(last) = Range(groupOrder)
    BY <2>1 DEF FirstGroups, Range
  <2>3. Range(groupOrder) \subseteq GroupMorphs
    BY <1>1 DEF Range
  <2> QED BY <2>2, <2>3 DEF Waiting, Ordered
<1>3. ASSUME NEW m \in Morphs, d[m] = e[m], \A g \in Listers(m) : f[g] = h[g]
      PROVE  f[m] = h[m]
  <2>1. PulledBy(f, m, GroupMorphs) = PulledBy(h, m, GroupMorphs)
    BY <1>3 DEF PulledBy
  <2> QED BY <2>1, <1>3 DEF Solves
<1>4. 0 \in P
  BY <1>1 DEF FirstGroups
<1>5. ASSUME NEW n \in 0..(last - 1), n \in P PROVE n + 1 \in P
  <2> DEFINE x == groupOrder[n + 1]
  <2>1. /\ FirstGroups(n + 1) = FirstGroups(n) \cup {x} /\ x \in GroupMorphs /\ x \in Morphs
        /\ n + 1 \in 1..last /\ n \in Nat
    <3>1. n + 1 \in 1..last /\ n \in Nat
      BY <1>1
    <3>2. n \in 0..(Len(groupOrder) - 1)
      OBVIOUS
    <3> QED BY <3>1, <3>2, FirstGroupsGrow
  <2>2. ASSUME NEW g \in Listers(x) PROVE g \in FirstGroups(n)
    <3>1. g \in GroupMorphs /\ g \in Morphs /\ Listed(g, x) > 0
      BY GroupsAreMorphs DEF Listers
    <3>2. x \in Range(members[g])
      BY <1>1, <2>1, <3>1, ListedIs
    <3>3. PICK j \in 1..((n + 1) - 1) : groupOrder[j] = g
      BY <1>1, <2>1, <3>1, <3>2 DEF ListersFirst
    <3>4. j \in 1..n
      BY <2>1
    <3> QED BY <3>3, <3>4 DEF FirstGroups
  <2> HIDE DEF x
  <2>3. f[x] = h[x]
    BY <2>1, <2>2, <1>3, <1>5
  <2>4. n + 1 \in 0..last
    BY <1>1
  <2> QED BY <2>1, <2>3, <2>4, <1>5
<1>6. last \in P
  <2>1. 0..last \subseteq P
    <3> HIDE DEF P
    <3> QED BY <1>1, <1>4, <1>5, UpTo
  <2> QED BY <2>1, <1>1
<1>7. \A g \in GroupMorphs : f[g] = h[g]
  BY <1>2, <1>6
<1>8. ASSUME NEW m \in Morphs, d[m] = e[m] PROVE f[m] = h[m]
  <2>1. \A g \in Listers(m) : f[g] = h[g]
    BY <1>7 DEF Listers
  <2> QED BY <2>1, <1>3, <1>8
<1> QED BY <1>8

\* The expanded weights are a solution, so the recursion of Totals has one.
LEMMA TotalsSolve ==
  ASSUME GroupsInOrder, Waiting = {}, NEW list \in Seq([morph : Morphs, weight : Int])
  PROVE  Solves(Totals(list), Given(list).weights)
<1> DEFINE w == ExpandGroups(Given(list)).weights
           Is(f) == f = [m \in Morphs |-> GivenTo(list, m)
                           + SumOver([g \in Listers(m) |-> Listed(g, m) * (f[g] * Ratio[g][m])])]
<1>1. w \in [Morphs -> Int] /\ Solves(w, Given(list).weights)
  BY GroupsExpand DEF Weighings
<1> HIDE DEF w
<1>2. \A m \in Morphs : Listers(m) \cap GroupMorphs = Listers(m) /\ Given(list).weights[m] = GivenTo(list, m)
  BY DEF Listers, Given
<1>3. Is(w)
  <2>1. ASSUME NEW m \in Morphs
        PROVE  w[m] = GivenTo(list, m) + SumOver([g \in Listers(m) |-> Listed(g, m) * (w[g] * Ratio[g][m])])
    <3>1. w[m] = Given(list).weights[m] + SumOver(PulledBy(w, m, GroupMorphs))
      BY <1>1 DEF Solves
    <3>2. PulledBy(w, m, GroupMorphs) = [g \in Listers(m) |-> Listed(g, m) * (w[g] * Ratio[g][m])]
      BY <1>2, Zenon DEF PulledBy
    <3> QED BY <3>1, <3>2, <1>2
  <2>2. w = [m \in Morphs |-> w[m]]
    BY <1>1
  <2> QED BY <2>1, <2>2
<1>4. Totals(list) = CHOOSE f : Is(f)
  BY DEF Totals
<1>5. Is(Totals(list))
  <2> HIDE DEF Is
  <2> QED BY <1>3, <1>4
<1> DEFINE t == Totals(list)
<1> HIDE DEF t
<1>6. ASSUME NEW m \in Morphs
      PROVE  t[m] = Given(list).weights[m] + SumOver(PulledBy(t, m, GroupMorphs))
  <2>1. t = [x \in Morphs |-> GivenTo(list, x)
                           + SumOver([g \in Listers(x) |-> Listed(g, x) * (t[g] * Ratio[g][x])])]
    BY <1>5 DEF t
  <2>2. t[m] = GivenTo(list, m) + SumOver([g \in Listers(m) |-> Listed(g, m) * (t[g] * Ratio[g][m])])
    BY <2>1, Zenon
  <2>3. PulledBy(t, m, GroupMorphs) = [g \in Listers(m) |-> Listed(g, m) * (t[g] * Ratio[g][m])]
    BY <1>2, Zenon DEF PulledBy
  <2> QED BY <2>2, <2>3, <1>2
<1> QED BY <1>6 DEF Solves, t

-----------------------------------------------------------------------------
(* Definitions that only read what Sample and Resolve leave alone *)

LEMMA SameDocument ==
  ASSUME UNCHANGED <<kinds, members>>
  PROVE  /\ \A k : OfKind(k)' = OfKind(k)
         /\ Bone' = Bone /\ GroupMorphs' = GroupMorphs /\ Leaves' = Leaves
         /\ UvMorphs' = UvMorphs /\ MaterialMorphs' = MaterialMorphs
         /\ \A g, m : Listed(g, m)' = Listed(g, m)
         /\ \A m : Listers(m)' = Listers(m)
<1>1. \A k : OfKind(k)' = OfKind(k)
  BY DEF OfKind
<1>2. /\ Bone' = Bone /\ GroupMorphs' = GroupMorphs
      /\ UvMorphs' = UvMorphs /\ MaterialMorphs' = MaterialMorphs
  BY <1>1 DEF Bone, GroupMorphs, UvMorphs, MaterialMorphs
<1>3. Leaves' = Leaves
  BY <1>2 DEF Leaves
<1>4. \A g, m : Listed(g, m)' = Listed(g, m)
  BY DEF Listed
<1>5. \A m : Listers(m)' = Listers(m)
  BY <1>2, <1>4 DEF Listers
<1> QED BY <1>1, <1>2, <1>3, <1>4, <1>5

LEMMA SameTotals ==
  ASSUME UNCHANGED <<kinds, members>>, NEW list
  PROVE  Totals(list)' = Totals(list)
<1>1. \A g, m : Listed(g, m)' = Listed(g, m)
  BY SameDocument
<1>2. \A m : Listers(m)' = Listers(m)
  BY SameDocument
<1> QED BY ZenonT(60), <1>1, <1>2 DEF Totals, GivenTo, SumOver

LEMMA SameExpansion ==
  ASSUME UNCHANGED <<kinds, members>>, NEW list
  PROVE  ReachedBy(list)' = ReachedBy(list)
<1>1. GroupMorphs' = GroupMorphs
  BY SameDocument
<1>2. \A F : Closed(F)' = Closed(F)
  BY <1>1 DEF Closed
<1> QED BY <1>2 DEF ReachedBy, Named

-----------------------------------------------------------------------------
(* What a consumer resolves *)

LEMMA KnownTracks ==
  ASSUME NEW S \in SUBSET Morphs, NEW list \in Seq(Tracks)
  PROVE  OfMorphs(list, S) \in Seq([morph : Morphs, weight : Int])
<1> DEFINE r == OfMorphs(list, S)
           T == {c \in Tracks : c.morph \in S}
           U == [morph : Morphs, weight : Int]
<1>1. r \in Seq(T)
  BY OfMorphsIs
<1>2. ASSUME NEW c \in T PROVE c \in U
  <2>1. c \in [morph : Int, weight : Int] /\ c.morph \in Morphs
    BY <1>2 DEF Tracks
  <2> QED BY <2>1
<1> HIDE DEF r, T, U
<1>3. r \in Seq(U)
  BY <1>1, <1>2, SequenceShape, OfFewer
<1> QED BY <1>3 DEF r, U

Pose(list) == ExpandGroups(Given(OfMorphs(list, Morphs \ Bone)))

LEMMA ResolvedIs ==
  ASSUME GroupsInOrder, Waiting = {}, NEW list \in Seq(Tracks)
  PROVE  /\ ResolveMorphChannels(list) \in Seq([morph : Leaves, weight : Int])
         /\ Named(ResolveMorphChannels(list)) = ReachedBy(OfMorphs(list, Morphs \ Bone)) \cap Leaves
         /\ \A i \in 1..Len(ResolveMorphChannels(list)) :
              /\ ResolveMorphChannels(list)[i].weight = Pose(list).weights[ResolveMorphChannels(list)[i].morph]
              /\ \A k \in 1..i - 1 :
                   ResolveMorphChannels(list)[k].morph < ResolveMorphChannels(list)[i].morph
<1> DEFINE q == OfMorphs(list, Morphs \ Bone)
           s == Pose(list)
           all == [m \in 1..M |-> m - 1]
           S == s.reached \cap Leaves
           leaves == Selected(all, S)
           r == ResolveMorphChannels(list)
<1>1. q \in Seq([morph : Morphs, weight : Int])
  <2>1. Morphs \ Bone \in SUBSET Morphs
    OBVIOUS
  <2> QED BY <2>1, KnownTracks
<1>2. s \in Weighings /\ s.reached = ReachedBy(q)
  <2> HIDE DEF q
  <2>1. ExpandGroups(Given(q)) \in Weighings /\ ExpandGroups(Given(q)).reached = ReachedBy(q)
    BY <1>1, GroupsExpand
  <2> QED BY <2>1 DEF Pose, q
<1>3. /\ M \in Nat /\ all \in Seq(Int) /\ Len(all) = M
      /\ {all[k] : k \in 1..Len(all)} = Morphs
      /\ \A i, k \in 1..Len(all) : i < k => all[i] < all[k]
  <2>1. M \in Nat
    BY MAssumption
  <2>2. all \in [1..M -> Int] /\ \A k \in 1..M : all[k] = k - 1
    OBVIOUS
  <2>3. all \in Seq(Int) /\ Len(all) = M
    BY <2>1, <2>2
  <2>4. ASSUME NEW m \in Morphs PROVE m \in {all[k] : k \in 1..M}
    <3>1. m \in Int /\ m + 1 \in 1..M /\ (m + 1) - 1 = m
      BY <2>1 DEF Morphs
    <3>2. all[m + 1] = m
      BY <3>1, <2>2
    <3> HIDE DEF all
    <3> QED BY <3>1, <3>2
  <2>5. \A k \in 1..M : all[k] \in Morphs
    BY <2>1, <2>2 DEF Morphs
  <2> HIDE DEF all
  <2>6. {all[k] : k \in 1..M} = Morphs
    BY <2>4, <2>5
  <2>7. \A i, k \in 1..M : i < k => all[i] < all[k]
    BY <2>1, <2>2
  <2> QED BY <2>1, <2>3, <2>6, <2>7
<1> HIDE DEF s, all
<1>4. /\ leaves \in Seq(Int) /\ Len(leaves) \in Nat
      /\ {leaves[k] : k \in 1..Len(leaves)} = Morphs \cap S
      /\ \A i, k \in 1..Len(leaves) : i < k => leaves[i] < leaves[k]
  <2>1. leaves \in Seq(Int)
    BY <1>3, SelectedRanks
  <2>2. {leaves[k] : k \in 1..Len(leaves)} = Morphs \cap S
    <3> HIDE DEF S
    <3>1. {Selected(all, S)[k] : k \in 1..Len(Selected(all, S))} = {all[k] : k \in 1..Len(all)} \cap S
      BY <1>3, SelectedMembers
    <3>2. {all[k] : k \in 1..Len(all)} = Morphs
      BY <1>3
    <3> QED BY <3>1, <3>2
  <2>3. \A i, k \in 1..Len(leaves) : i < k => leaves[i] < leaves[k]
    BY <1>3, SelectedAscends
  <2> HIDE DEF leaves
  <2> QED BY <2>1, <2>2, <2>3
<1>5. r = [i \in 1..Len(leaves) |-> [morph |-> leaves[i], weight |-> s.weights[leaves[i]]]]
  BY DEF ResolveMorphChannels, Pose, s, all
<1>6. S \subseteq Leaves /\ S = ReachedBy(q) \cap Leaves /\ Leaves \subseteq Morphs
  BY <1>2 DEF Leaves
<1> HIDE DEF leaves, r, S
<1>7. ASSUME NEW i \in 1..Len(leaves)
      PROVE  leaves[i] \in Leaves /\ leaves[i] \in S /\ s.weights[leaves[i]] \in Int
  <2>1. leaves[i] \in S /\ leaves[i] \in Morphs
    BY <1>4
  <2>2. s.weights \in [Morphs -> Int]
    BY <1>2 DEF Weighings
  <2> QED BY <2>1, <2>2, <1>6
<1>8. r \in Seq([morph : Leaves, weight : Int]) /\ Len(r) = Len(leaves) /\ DOMAIN r = 1..Len(leaves)
      /\ \A i \in 1..Len(leaves) : r[i].morph = leaves[i] /\ r[i].weight = s.weights[leaves[i]]
  <2> DEFINE T == [morph : Leaves, weight : Int]
  <2>4. \A i \in 1..Len(leaves) : [morph |-> leaves[i], weight |-> s.weights[leaves[i]]] \in T
    BY <1>7
  <2> HIDE DEF T
  <2>1. r \in [1..Len(leaves) -> T]
    BY <1>5, <2>4
  <2>2. \A i \in 1..Len(leaves) : r[i].morph = leaves[i] /\ r[i].weight = s.weights[leaves[i]]
    BY <1>5
  <2>3. r \in Seq(T) /\ Len(r) = Len(leaves) /\ DOMAIN r = 1..Len(leaves)
    BY <2>1, <1>4
  <2> QED BY <2>2, <2>3 DEF T
<1>9. Named(r) = S
  <2>1. ASSUME NEW m \in Named(r) PROVE m \in S
    <3>1. PICK i \in 1..Len(leaves) : m = r[i].morph
      BY <1>8 DEF Named
    <3> QED BY <3>1, <1>7, <1>8
  <2>2. ASSUME NEW m \in S PROVE m \in Named(r)
    <3>1. m \in {leaves[k] : k \in 1..Len(leaves)}
      BY <1>4, <1>6
    <3>2. PICK i \in 1..Len(leaves) : m = leaves[i]
      BY <3>1
    <3> QED BY <3>2, <1>8 DEF Named
  <2> QED BY <2>1, <2>2
<1>10. \A i \in 1..Len(r) : /\ r[i].weight = s.weights[r[i].morph]
                            /\ \A k \in 1..i - 1 : r[k].morph < r[i].morph
  <2> TAKE i \in 1..Len(r)
  <2>1. i \in 1..Len(leaves) /\ i \in Int
    BY <1>8
  <2>2. ASSUME NEW k \in 1..i - 1 PROVE r[k].morph < r[i].morph
    <3>1. k \in 1..Len(leaves) /\ k < i
      BY <2>1, <1>4
    <3> QED BY <3>1, <2>1, <1>4, <1>8
  <2> QED BY <2>1, <2>2, <1>8
<1>11. /\ r \in Seq([morph : Leaves, weight : Int]) /\ Named(r) = ReachedBy(q) \cap Leaves
       /\ \A i \in 1..Len(r) : /\ r[i].weight = Pose(list).weights[r[i].morph]
                               /\ \A k \in 1..i - 1 : r[k].morph < r[i].morph
  BY <1>6, <1>8, <1>9, <1>10 DEF s
<1> QED BY <1>11 DEF r

LEMMA RefusedIs ==
  ASSUME NEW failing, NEW rows, NEW S, None \notin S, Named(failing) \subseteq S,
         failing # <<>> => 1 \in DOMAIN failing
  PROVE  /\ Refused(failing, rows).failed \in S \cup {None}
         /\ Refused(failing, rows).failed = None => Refused(failing, rows).rows = rows
<1>1. CASE failing = <<>>
  BY <1>1 DEF Refused
<1>2. CASE failing # <<>>
  <2>1. failing[1].morph \in S
    BY <1>2 DEF Named
  <2>2. Refused(failing, rows).failed = failing[1].morph
    BY <1>2 DEF Refused
  <2> QED BY <2>1, <2>2
<1> QED BY <1>1, <1>2

\* Rows of a list of channels are those its morphs name.
RowsOf(uvs, materials, moved, modulated) ==
  /\ moved.failed \in uvs \cup {None} /\ modulated.failed \in materials \cup {None}
  /\ moved.failed = None =>
       {row[2] : row \in DOMAIN moved.rows} = UNION {{o.vertex : o \in Range(UvOffsets[m])} : m \in uvs}
  /\ modulated.failed = None =>
       DOMAIN modulated.rows = UNION {UNION {Modulated(o) : o \in Range(MaterialOffsets[m])} : m \in materials}

LEMMA RowsFollow ==
  ASSUME NEW r \in Seq([morph : Leaves, weight : Int])
  PROVE  RowsOf(Named(r) \cap UvMorphs, Named(r) \cap MaterialMorphs, UvDeltas(r), Modulations(r))
<1> DEFINE T == [morph : Leaves, weight : Int]
           uvs == Named(r) \cap UvMorphs
           materials == Named(r) \cap MaterialMorphs
<1>1. None \notin uvs /\ None \notin materials
  BY MAssumption DEF UvMorphs, MaterialMorphs, OfKind
<1>2. r \in Seq(T)
  OBVIOUS
<1> HIDE DEF T
<1>3. ASSUME NEW K, NEW B
      PROVE  LET known == OfMorphs(r, K)
                 failing == OfMorphs(known, B)
             IN  /\ Named(known) = Named(r) \cap K /\ Named(failing) \subseteq Named(r) \cap K
                 /\ failing # <<>> => 1 \in DOMAIN failing
  <2> DEFINE known == OfMorphs(r, K)
             failing == OfMorphs(known, B)
             U == {c \in T : c.morph \in K}
             V == {c \in U : c.morph \in B}
  <2>1. known \in Seq(U) /\ Named(known) = Named(r) \cap K
    BY <1>2, OfMorphsIs
  <2> HIDE DEF known, U
  <2>2. failing \in Seq(V) /\ Named(failing) = Named(known) \cap B
    BY <2>1, OfMorphsIs
  <2> HIDE DEF failing, V
  <2>3. failing # <<>> => 1 \in DOMAIN failing
    BY <2>2
  <2>4. /\ Named(known) = Named(r) \cap K /\ Named(failing) \subseteq Named(r) \cap K
        /\ failing # <<>> => 1 \in DOMAIN failing
    BY <2>1, <2>2, <2>3
  <2> QED BY <2>4 DEF failing, known
<1>4. /\ UvDeltas(r).failed \in uvs \cup {None}
      /\ UvDeltas(r).failed = None =>
           {row[2] : row \in DOMAIN UvDeltas(r).rows} = UNION {{o.vertex : o \in Range(UvOffsets[m])} : m \in uvs}
  <2> DEFINE known == OfMorphs(r, UvMorphs)
             failing == OfMorphs(known, {m \in UvMorphs : UvInvalid(m)})
             keys == UNION {{<<UvChannel(m), o.vertex>> : o \in Range(UvOffsets[m])} : m \in Named(known)}
  <2>1. /\ Named(known) = uvs /\ Named(failing) \subseteq uvs
        /\ failing # <<>> => 1 \in DOMAIN failing
    BY <1>3
  <2> HIDE DEF failing, uvs, materials
  <2>2. PICK rows : DOMAIN rows = keys /\ UvDeltas(r) = Refused(failing, rows)
    BY DEF UvDeltas, failing
  <2> HIDE DEF known
  <2>3. /\ Refused(failing, rows).failed \in uvs \cup {None}
        /\ Refused(failing, rows).failed = None => Refused(failing, rows).rows = rows
    BY <1>1, <2>1, RefusedIs
  <2>4. {row[2] : row \in keys} = UNION {{o.vertex : o \in Range(UvOffsets[m])} : m \in uvs}
    <3>1. ASSUME NEW row \in keys PROVE row[2] \in UNION {{o.vertex : o \in Range(UvOffsets[m])} : m \in uvs}
      <4>1. PICK m \in uvs : row \in {<<UvChannel(m), o.vertex>> : o \in Range(UvOffsets[m])}
        BY <2>1
      <4>2. PICK o \in Range(UvOffsets[m]) : row = <<UvChannel(m), o.vertex>>
        BY <4>1
      <4> QED BY <4>2
    <3>2. ASSUME NEW v \in UNION {{o.vertex : o \in Range(UvOffsets[m])} : m \in uvs}
          PROVE  v \in {row[2] : row \in keys}
      <4>1. PICK m \in uvs : v \in {o.vertex : o \in Range(UvOffsets[m])}
        OBVIOUS
      <4>2. PICK o \in Range(UvOffsets[m]) : v = o.vertex
        BY <4>1
      <4> DEFINE key == <<UvChannel(m), o.vertex>>
      <4>3. key \in keys /\ key[2] = v
        BY <2>1, <4>2
      <4> HIDE DEF key, keys
      <4> QED BY <4>3
    <3> HIDE DEF keys
    <3> QED BY <3>1, <3>2
  <2> HIDE DEF keys
  <2> QED BY <2>2, <2>3, <2>4
<1>5. /\ Modulations(r).failed \in materials \cup {None}
      /\ Modulations(r).failed = None =>
           DOMAIN Modulations(r).rows =
             UNION {UNION {Modulated(o) : o \in Range(MaterialOffsets[m])} : m \in materials}
  <2> DEFINE known == OfMorphs(r, MaterialMorphs)
             failing == OfMorphs(known, {m \in MaterialMorphs : MaterialInvalid(m)})
             keys == UNION {UNION {Modulated(o) : o \in Range(MaterialOffsets[m])} : m \in Named(known)}
  <2>1. /\ Named(known) = materials /\ Named(failing) \subseteq materials
        /\ failing # <<>> => 1 \in DOMAIN failing
    BY <1>3
  <2> HIDE DEF failing, uvs, materials
  <2>2. PICK rows : DOMAIN rows = keys /\ Modulations(r) = Refused(failing, rows)
    BY DEF Modulations, failing
  <2> HIDE DEF known
  <2>3. /\ Refused(failing, rows).failed \in materials \cup {None}
        /\ Refused(failing, rows).failed = None => Refused(failing, rows).rows = rows
    BY <1>1, <2>1, RefusedIs
  <2> QED BY <2>1, <2>2, <2>3
<1> QED BY <1>4, <1>5 DEF RowsOf

-----------------------------------------------------------------------------
(* Sample and Resolve *)

\* The pose's channels give every morph but bone morphs what the motion does.
SampledInv ==
  stage \in {"sampled", "resolved"} =>
    /\ motion \in Seq([morph : Morphs, weight : Int]) /\ channels \in Seq(Tracks)
    /\ \A m \in Morphs \ Bone : GivenTo(channels, m) = GivenTo(motion, m)

MorphInv ==
  /\ DocumentInv /\ OrderedInv /\ SampledInv /\ BonesWeigh
  /\ stage = "resolved" => LeavesWeigh /\ RowsAreReached

LEMMA PreparedIsInOrder ==
  ASSUME DocumentInv, OrderedInv, MembersInv, stage \notin {"document", "order"}
  PROVE  GroupsInOrder /\ Waiting = {}
BY DEF DocumentInv, OrderedInv, MembersInv, GroupsInOrder

LEMMA WeightsAreTotals ==
  ASSUME GroupsInOrder, Waiting = {}, NEW list \in Seq([morph : Morphs, weight : Int]),
         NEW other \in Seq([morph : Morphs, weight : Int]),
         \A m \in Morphs \ Bone : GivenTo(list, m) = GivenTo(other, m)
  PROVE  \A m \in Morphs : m \notin Bone \/ list = other =>
           ExpandGroups(Given(list)).weights[m] = Totals(other)[m]
<1> DEFINE f == ExpandGroups(Given(list)).weights
           h == Totals(other)
           d == Given(list).weights
           e == Given(other).weights
<1>1. Solves(f, d) /\ Solves(h, e)
  BY GroupsExpand, TotalsSolve
<1>2. \A m \in Morphs : d[m] = GivenTo(list, m) /\ e[m] = GivenTo(other, m)
  BY DEF Given
<1>3. \A g \in GroupMorphs : g \in Morphs /\ g \notin Bone
  BY DEF GroupMorphs, Bone, OfKind
<1> HIDE DEF f, h, d, e
<1>4. \A m \in Morphs : d[m] = e[m] => f[m] = h[m]
  <2>1. \A g \in GroupMorphs : d[g] = e[g]
    BY <1>2, <1>3
  <2> QED BY <1>1, <2>1, SolutionsAgree
<1>5. \A m \in Morphs : m \notin Bone \/ list = other => f[m] = h[m]
  BY <1>2, <1>4
<1> QED BY <1>5 DEF f, h

LEMMA SampleWeighs ==
  ASSUME GroupsInOrder, Waiting = {}, Sample, UNCHANGED groupVars
  PROVE  SampledInv' /\ BonesWeigh'
<1>1. PICK tracks \in Motions :
        /\ motion' = OfMorphs(tracks, Morphs)
        /\ channels' = OfMorphs(tracks, Morphs \ Bone)
        /\ boneWeights' = [m \in Bone |-> ExpandGroups(Given(motion')).weights[m]]
  BY DEF Sample
<1>2. UNCHANGED <<kinds, members>>
  BY DEF Sample, groupVars
<1>3. tracks \in Seq(Tracks)
  BY ListsAssumption DEF Tracks
<1>4. motion' \in Seq([morph : Morphs, weight : Int]) /\ channels' \in Seq([morph : Morphs, weight : Int])
  <2>1. Morphs \in SUBSET Morphs /\ Morphs \ Bone \in SUBSET Morphs
    OBVIOUS
  <2>2. /\ OfMorphs(tracks, Morphs) \in Seq([morph : Morphs, weight : Int])
        /\ OfMorphs(tracks, Morphs \ Bone) \in Seq([morph : Morphs, weight : Int])
    BY <1>3, <2>1, KnownTracks
  <2> QED BY <1>1, <2>2
<1>5. ASSUME NEW m \in Morphs \ Bone PROVE GivenTo(channels', m) = GivenTo(motion', m)
  <2>1. GivenTo(OfMorphs(tracks, Morphs), m) = GivenTo(tracks, m)
    BY <1>3, OfMorphsGives
  <2>2. GivenTo(OfMorphs(tracks, Morphs \ Bone), m) = GivenTo(tracks, m)
    BY <1>3, OfMorphsGives
  <2> QED BY <2>1, <2>2, <1>1
<1>6. Bone' = Bone /\ Totals(motion)' = Totals(motion')
  BY <1>2, SameDocument, SameTotals
<1>7. SampledInv'
  <2>1. channels' \in Seq(Tracks)
    BY <1>4, GivenIsWeighing
  <2>2. \A m \in Morphs \ Bone' : GivenTo(channels, m)' = GivenTo(motion, m)'
    BY <1>5, <1>6
  <2> QED BY <1>4, <2>1, <2>2 DEF SampledInv
<1>8. ASSUME NEW m \in Bone PROVE boneWeights'[m] = Totals(motion')[m]
  <2> DEFINE list == motion'
  <2>1. list \in Seq([morph : Morphs, weight : Int]) /\ m \in Morphs
    BY <1>4 DEF Bone, OfKind
  <2>2. boneWeights'[m] = ExpandGroups(Given(list)).weights[m]
    BY <1>1
  <2> HIDE DEF list
  <2>3. ExpandGroups(Given(list)).weights[m] = Totals(list)[m]
    BY <2>1, WeightsAreTotals
  <2> QED BY <2>2, <2>3 DEF list
<1>9. BonesWeigh'
  BY <1>6, <1>8 DEF BonesWeigh
<1> QED BY <1>7, <1>9

LEMMA ResolveWeighs ==
  ASSUME GroupsInOrder, Waiting = {}, SampledInv, Resolve, UNCHANGED groupVars
  PROVE  LeavesWeigh' /\ RowsAreReached'
<1>1. PICK list \in {channels} \cup Channels :
        /\ given' = list
        /\ result' = [channels |-> ResolveMorphChannels(list), uvs |-> UvDeltas(ResolveMorphChannels(list)),
                      materials |-> Modulations(ResolveMorphChannels(list))]
  BY DEF Resolve
<1>2. UNCHANGED <<kinds, members, motion, channels>> /\ stage = "sampled"
  BY DEF Resolve, groupVars
<1>3. /\ list \in Seq(Tracks) /\ motion \in Seq([morph : Morphs, weight : Int])
      /\ \A m \in Morphs \ Bone : GivenTo(channels, m) = GivenTo(motion, m)
      /\ channels \in Seq(Tracks)
  BY <1>1, <1>2, ListsAssumption DEF SampledInv, Tracks
<1> DEFINE q == OfMorphs(list, Morphs \ Bone)
           r == ResolveMorphChannels(list)
           weighed == IF list = channels THEN motion ELSE q
<1>4. q \in Seq([morph : Morphs, weight : Int])
  <2>1. Morphs \ Bone \in SUBSET Morphs
    OBVIOUS
  <2> QED BY <1>3, <2>1, KnownTracks
<1>5. /\ r \in Seq([morph : Leaves, weight : Int]) /\ Named(r) = ReachedBy(q) \cap Leaves
      /\ \A i \in 1..Len(r) : /\ r[i].weight = Pose(list).weights[r[i].morph]
                              /\ \A k \in 1..i - 1 : r[k].morph < r[i].morph
  BY <1>3, ResolvedIs
<1>6. \A m \in Morphs \ Bone : GivenTo(q, m) = GivenTo(list, m)
  BY <1>3, OfMorphsGives
<1>7. weighed \in Seq([morph : Morphs, weight : Int]) /\ \A m \in Morphs \ Bone : GivenTo(q, m) = GivenTo(weighed, m)
  <2>1. CASE list = channels
    <3>1. weighed = motion
      BY <2>1
    <3> HIDE DEF weighed
    <3> QED BY <3>1, <2>1, <1>3, <1>6
  <2>2. CASE list # channels
    <3>1. weighed = q
      BY <2>2
    <3> HIDE DEF weighed
    <3> QED BY <3>1, <1>4
  <2> QED BY <2>1, <2>2
<1> HIDE DEF q, r, weighed
<1>8. \A m \in Leaves : Pose(list).weights[m] = Totals(weighed)[m]
  <2>1. Pose(list) = ExpandGroups(Given(q))
    BY DEF Pose, q
  <2>2. \A m \in Morphs : m \notin Bone => ExpandGroups(Given(q)).weights[m] = Totals(weighed)[m]
    BY <1>4, <1>7, WeightsAreTotals
  <2> QED BY <2>1, <2>2 DEF Leaves
<1>9. /\ result'.channels = r /\ result'.uvs = UvDeltas(r) /\ result'.materials = Modulations(r)
  BY <1>1 DEF r
<1>10. /\ Leaves' = Leaves /\ UvMorphs' = UvMorphs /\ MaterialMorphs' = MaterialMorphs /\ Bone' = Bone
       /\ Resolved' = q /\ Weighed' = weighed
  <2>1. /\ Leaves' = Leaves /\ UvMorphs' = UvMorphs /\ MaterialMorphs' = MaterialMorphs /\ Bone' = Bone
    BY <1>2, SameDocument
  <2>2. Resolved' = q
    BY <1>1, <2>1 DEF Resolved, q
  <2>3. Weighed' = weighed
    BY <1>1, <1>2, <2>2 DEF Weighed, weighed
  <2> QED BY <2>1, <2>2, <2>3
<1>11. ReachedLeaves' = ReachedBy(q) \cap Leaves
  <2>1. ReachedBy(Resolved)' = ReachedBy(Resolved')
    BY <1>2, SameExpansion
  <2> QED BY <2>1, <1>10 DEF ReachedLeaves
<1>12. Totals(Weighed)' = Totals(weighed)
  <2>1. Totals(Weighed)' = Totals(Weighed')
    BY <1>2, SameTotals
  <2> QED BY <2>1, <1>10
<1>13. DOMAIN r = 1..Len(r) /\ \A i \in 1..Len(r) : r[i].morph \in Leaves
  <2> DEFINE T == [morph : Leaves, weight : Int]
  <2>1. \A c \in T : c.morph \in Leaves
    OBVIOUS
  <2>2. r \in Seq(T)
    BY <1>5
  <2> HIDE DEF T
  <2> QED BY <2>1, <2>2, SequenceShape
<1>14. LeavesWeigh'
  BY <1>5, <1>8, <1>9, <1>11, <1>12, <1>13 DEF LeavesWeigh
<1>15. RowsOf(Named(r) \cap UvMorphs, Named(r) \cap MaterialMorphs, UvDeltas(r), Modulations(r))
  BY <1>5, RowsFollow
<1>16. RowsAreReached'
  BY <1>5, <1>9, <1>10, <1>11, <1>15 DEF RowsAreReached, RowsOf
<1> QED BY <1>14, <1>16

-----------------------------------------------------------------------------
(* Theorems about the morphs *)

\* The document of the morphs is one the walk has freed of cycles.
THEOREM MorphsAreFreed == MorphSpec => GroupSpec
<1>1. MorphInit => InitGroups
  BY DEF MorphInit
<1>2. [MorphNext]_<<groupVars, morphVars>> => [BreakGroupCycles]_groupVars
  BY DEF MorphNext
<1> QED BY <1>1, <1>2, PTL DEF MorphSpec, GroupSpec

LEMMA WalkIsBefore ==
  ASSUME MorphInv, BreakGroupCycles, UNCHANGED morphVars
  PROVE  MorphInv'
<1>1. at # "done" /\ group' = group
  BY DEF BreakGroupCycles, Enter, Skip, Leave, Pass, Drop, Descend, EndWalk, Erase, Standing, Walking
<1>2. stage = "document" /\ UNCHANGED <<stage, kinds, groupOrder>> /\ groupOrder = <<>>
  BY <1>1 DEF MorphInv, DocumentInv, OrderedInv, morphVars
<1>3. GroupMorphs' = GroupMorphs
  BY <1>2 DEF GroupMorphs, OfKind
<1>4. DocumentInv'
  BY <1>1, <1>2, <1>3 DEF MorphInv, DocumentInv
<1>5. groupOrder' = <<>> /\ Len(groupOrder') = 0 /\ groupOrder' \in Seq(GroupMorphs')
  BY <1>2
<1>6. OrderedInv'
  BY <1>2, <1>5 DEF OrderedInv, OrderedOnce, ListersFirst
<1>7. SampledInv' /\ BonesWeigh' /\ stage' # "resolved"
  BY <1>2 DEF SampledInv, BonesWeigh
<1> QED BY <1>4, <1>6, <1>7 DEF MorphInv

\* The strengthening holds of every state of the morphs: each group behind its
\* listers, the counts those of the groups that wait.
THEOREM MorphIsInductive == MorphSpec => []MorphInv
<1>1. MorphInit => MorphInv
  <2> SUFFICES ASSUME MorphInit PROVE MorphInv
    OBVIOUS
  <2>1. stage = "document" /\ groupOrder = <<>> /\ GroupMorphs \subseteq group.composite
    BY DEF MorphInit
  <2>2. groupOrder \in Seq(GroupMorphs) /\ Len(groupOrder) = 0
    BY <2>1
  <2>3. OrderedInv
    BY <2>1, <2>2 DEF OrderedInv, OrderedOnce, ListersFirst
  <2> QED BY <2>1, <2>3 DEF MorphInv, DocumentInv, SampledInv, BonesWeigh
<1>2. MorphInv /\ NoGroupCycle /\ MembersInv /\ [MorphNext]_<<groupVars, morphVars>> => MorphInv'
  <2> SUFFICES ASSUME MorphInv, NoGroupCycle, MembersInv, [MorphNext]_<<groupVars, morphVars>>
               PROVE  MorphInv'
    OBVIOUS
  <2>1. CASE BreakGroupCycles /\ UNCHANGED morphVars
    BY <2>1, WalkIsBefore
  <2>2. CASE CountListings /\ UNCHANGED groupVars
    <3>1. OrderedInv'
      BY <2>2, CountOrders DEF MorphInv
    <3>2. stage' = "order" /\ at = "done" /\ UNCHANGED <<kinds, group, at>>
      BY <2>2 DEF CountListings, groupVars
    <3>3. DocumentInv'
      BY <3>2 DEF MorphInv, DocumentInv, GroupMorphs, OfKind
    <3> QED BY <3>1, <3>2, <3>3 DEF MorphInv, SampledInv, BonesWeigh
  <2>3. CASE OrderGroup /\ UNCHANGED groupVars
    <3>1. stage = "order" /\ stage' \in {"order", "prepared"} /\ UNCHANGED <<kinds, group, at>>
      BY <2>3 DEF OrderGroup, groupVars
    <3>2. members \in [Morphs -> Seq(Morphs)]
      BY <3>1 DEF MorphInv, DocumentInv, MembersInv
    <3>3. OrderedInv'
      BY <2>3, <3>2, GroupOrders DEF MorphInv
    <3>4. DocumentInv'
      BY <3>1 DEF MorphInv, DocumentInv, GroupMorphs, OfKind
    <3> QED BY <3>1, <3>3, <3>4 DEF MorphInv, SampledInv, BonesWeigh
  <2>4. ASSUME stage \notin {"document", "order"}, UNCHANGED <<kinds, group, at, members, groupOrder>>,
               stage' \notin {"document", "order"}
        PROVE  GroupsInOrder /\ Waiting = {} /\ DocumentInv' /\ OrderedInv'
    <3>1. GroupsInOrder /\ Waiting = {}
      BY <2>4, PreparedIsInOrder DEF MorphInv
    <3>2. GroupMorphs' = GroupMorphs
      BY <2>4, SameDocument
    <3>3. DocumentInv'
      BY <2>4, <3>2 DEF MorphInv, DocumentInv
    <3>4. OrderedOnce' /\ ListersFirst' /\ Waiting' = {}
      BY <2>4, <3>1, <3>2 DEF GroupsInOrder, OrderedOnce, ListersFirst, Waiting, Ordered, Range
    <3>5. groupOrder' \in Seq(GroupMorphs')
      BY <2>4, <3>1, <3>2 DEF GroupsInOrder
    <3>6. OrderedInv'
      BY <2>4, <3>4, <3>5 DEF OrderedInv
    <3> QED BY <3>1, <3>3, <3>6
  <2>5. CASE Sample /\ UNCHANGED groupVars
    <3>1. stage = "prepared" /\ stage' = "sampled" /\ UNCHANGED <<kinds, group, at, members, groupOrder>>
      BY <2>5 DEF Sample, groupVars
    <3>2. GroupsInOrder /\ Waiting = {} /\ DocumentInv' /\ OrderedInv'
      BY <3>1, <2>4
    <3>3. SampledInv' /\ BonesWeigh'
      BY <2>5, <3>2, SampleWeighs
    <3> QED BY <3>1, <3>2, <3>3 DEF MorphInv
  <2>6. CASE Resolve /\ UNCHANGED groupVars
    <3>1. /\ stage = "sampled" /\ stage' = "resolved"
          /\ UNCHANGED <<kinds, group, at, members, groupOrder, motion, boneWeights, channels>>
      BY <2>6 DEF Resolve, groupVars
    <3>2. GroupsInOrder /\ Waiting = {} /\ DocumentInv' /\ OrderedInv'
      BY <3>1, <2>4
    <3>3. LeavesWeigh' /\ RowsAreReached'
      BY <2>6, <3>2, ResolveWeighs DEF MorphInv
    <3>4. Bone' = Bone /\ Totals(motion)' = Totals(motion)
      <4>1. Totals(motion)' = Totals(motion')
        BY <3>1, SameTotals
      <4> QED BY <3>1, <4>1, SameDocument
    <3>5. BonesWeigh'
      BY <3>1, <3>4 DEF MorphInv, BonesWeigh
    <3>6. SampledInv'
      <4>1. \A m \in Morphs \ Bone : GivenTo(channels, m)' = GivenTo(motion, m)'
        BY <3>1 DEF MorphInv, SampledInv
      <4> QED BY <3>1, <3>4, <4>1 DEF MorphInv, SampledInv
    <3> QED BY <3>2, <3>3, <3>5, <3>6 DEF MorphInv
  <2>7. CASE UNCHANGED <<groupVars, morphVars>>
    <3>1. UNCHANGED <<group, members, at, kinds, stage, listedBy, groupOrder, motion, boneWeights, channels, given, result>>
      BY <2>7 DEF groupVars, morphVars
    <3>2. /\ GroupMorphs' = GroupMorphs /\ Bone' = Bone /\ Leaves' = Leaves /\ UvMorphs' = UvMorphs
          /\ MaterialMorphs' = MaterialMorphs /\ \A g, m : Listed(g, m)' = Listed(g, m)
      BY <3>1, SameDocument
    <3>3. DocumentInv'
      BY <3>1, <3>2 DEF MorphInv, DocumentInv
    <3>4. Waiting' = Waiting
      BY <3>1, <3>2 DEF Waiting, Ordered
    <3>5. \A m : WaitingLists(m)' = WaitingLists(m)
      BY <3>2, <3>4 DEF WaitingLists
    <3>6. OrderedInv'
      <4>1. OrderedOnce' /\ ListersFirst'
        BY <3>1, <3>2 DEF MorphInv, OrderedInv, OrderedOnce, ListersFirst
      <4> QED BY <3>1, <3>2, <3>4, <3>5, <4>1 DEF MorphInv, OrderedInv, SumOver
    <3>7. SampledInv'
      BY <3>1, <3>2 DEF MorphInv, SampledInv
    <3>8. Resolved' = Resolved /\ Weighed' = Weighed
      BY <3>1, <3>2 DEF Resolved, Weighed
    <3>9. /\ Totals(motion)' = Totals(motion) /\ Totals(Weighed)' = Totals(Weighed)
          /\ ReachedLeaves' = ReachedLeaves
      <4>1. Totals(motion)' = Totals(motion') /\ Totals(Weighed)' = Totals(Weighed')
        BY <3>1, SameTotals
      <4>2. ReachedBy(Resolved)' = ReachedBy(Resolved')
        BY <3>1, SameExpansion
      <4> QED BY <4>1, <4>2, <3>1, <3>2, <3>8 DEF ReachedLeaves
    <3>10. BonesWeigh'
      BY <3>1, <3>2, <3>9 DEF MorphInv, BonesWeigh
    <3>11. stage' = "resolved" => LeavesWeigh' /\ RowsAreReached'
      BY <3>1, <3>2, <3>9 DEF MorphInv, LeavesWeigh, RowsAreReached
    <3> QED BY <3>3, <3>6, <3>7, <3>10, <3>11 DEF MorphInv
  <2> QED BY <2>1, <2>2, <2>3, <2>5, <2>6, <2>7 DEF MorphNext
<1> QED BY <1>1, <1>2, MorphsAreFreed, NoCycleSurvives, MembersAreMorphs, PTL DEF MorphSpec

\* For every graph of groups, every ratio, motion and list of channels: what
\* Prepare orders is enough for every weight to reach the bone morphs and the
\* leaves whole, by every way through the groups, and the UV deltas and the
\* material modulations come of the leaves reached and of no other morph.
THEOREM WeightsReach == MorphSpec => []WeightsReachTheLeaves
<1>1. MorphInv => WeightsReachTheLeaves
  BY DEF MorphInv, WeightsReachTheLeaves
<1> QED BY <1>1, MorphIsInductive, PTL
=============================================================================
