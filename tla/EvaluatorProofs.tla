--------------------------- MODULE EvaluatorProofs ---------------------------
(***************************************************************************)
(* Type correctness of the evaluator, and what holds of its calls for      *)
(* every rig, motion, feedback and held set.  Of one call: Complete leaves *)
(* held joints as given, ResumePhysics touches only what it was fed and    *)
(* what post-physics controls move, and appends are settled when the pass  *)
(* ends.  Between calls: a pass has one end, so resuming without feedback, *)
(* resuming again and completing a keyed pose agree with evaluating.       *)
(* Then of the two adapters on either side of it: the held joints that     *)
(* Complete is given, and the clip of what Evaluate returned.              *)
(***************************************************************************)
EXTENDS Evaluator, MotionAdapter, Induction

(* Inductive strengthenings *)

\* Ratios scale rotations to rotations.
RatiosOK == \A j \in Joints : \A p \in Rot : Pow(p, rig.ratio[j]) \in Rot

\* What is known of the arguments of a running call.
CallOK ==
  pc = "pass" =>
    /\ call.op = "begin" => call.self \in Evaluators /\ call.slot \in Slots /\ call.motion \in Motions
    /\ call.op = "complete" => call.given \in Givens /\ call.held \subseteq Joints
    /\ call.op = "resume" => /\ call.fed \in Feedbacks /\ WellFormed(call.fed)
                             /\ call.slot \in Slots /\ slots[call.slot] # None

TypeInv == TypeOK /\ RatiosOK /\ CallOK

\* During Complete a held joint has the motion of the given pose, no IK and no
\* append, and only chains clear of it and of its feeders are enabled.
HeldInv ==
  pc = "pass" /\ call.op = "complete" =>
    /\ enabled = ClearChains(rig, call.held)
    /\ \A j \in call.held :
         /\ st.a[j] = GivenMotion(rig, call.given).a[j]
         /\ st.rho[j] = GivenMotion(rig, call.given).rho[j]
         /\ st.ik[j] = Id /\ st.appT[j] = 0 /\ st.appR[j] = Id
    /\ \A j \in Feeders(rig, call.held) : st.ik[j] = Id

\* During a resume every component of an untouched joint is what reconciling
\* the feedback with the snapshot made of it.
Untouched(j) == ~rig.after[j] /\ ~TurnedAfter(j)

FrameInv ==
  pc = "pass" /\ call.op = "resume" =>
    /\ todo \subseteq AfterBarrier(rig)
    /\ \A j \in Joints : Untouched(j) =>
         LET s == Reconciled(rig, slots[call.slot].st, call.fed) IN
         /\ st.a[j] = s.a[j] /\ st.rho[j] = s.rho[j] /\ st.ik[j] = s.ik[j]
         /\ st.appT[j] = s.appT[j] /\ st.appR[j] = s.appR[j]

-----------------------------------------------------------------------------
(* Operators *)

\* A clamped loop count is one the solver may run.
LEMMA ClampedLoops ==
  ASSUME NEW n \in Int
  PROVE  Clamp(n, 0, MaxIkIterations) \in 0..MaxIkIterations
  BY DEF Clamp, MaxIkIterations

\* Prepare makes a rig that names only joints, whatever the model lists.
LEMMA PreparedRig ==
  ASSUME NEW m \in Models
  PROVE  /\ Prepare(m) \in Rigs
         /\ \A j \in Joints : \A p \in Rot : Pow(p, Prepare(m).ratio[j]) \in Rot
<1>1. ASSUME NEW j \in Joints PROVE SourceOf(m, j) \in Joints \cup {None}
  BY DEF SourceOf
<1>2. ASSUME NEW j \in Joints PROVE ChainOf(m, j) \in Chains
  <2> DEFINE usable == {c \in DOMAIN m.chains :
                          m.chains[c].goal = j /\ m.chains[c].effector \in Joints}
             first == {c \in usable : \A l \in usable : c <= l}
             chain == m.chains[CHOOSE c \in first : TRUE]
  <2>1. CASE first = {}
    <3>1. ChainOf(m, j) = NoChain
      BY <2>1 DEF ChainOf
    <3>2. NoChain \in Chains
      BY DEF NoChain, Chains, MaxIkIterations
    <3> QED
      BY <3>1, <3>2
  <2>2. CASE first # {}
    <3>1. (CHOOSE c \in first : TRUE) \in first
      BY <2>2
    <3>2. chain.effector \in Joints /\ chain.loops \in Int
      BY <3>1, ModelsAssumption
    <3>3. Clamp(chain.loops, 0, MaxIkIterations) \in 0..MaxIkIterations
      BY <3>2, ClampedLoops
    <3> QED
      <4>1. ChainOf(m, j) = [effector |-> chain.effector, links |-> chain.links \cap Joints,
                             iterations |-> Clamp(chain.loops, 0, MaxIkIterations)]
        BY <2>2 DEF ChainOf
      <4> HIDE DEF chain
      <4> QED
        BY <3>2, <3>3, <4>1 DEF Chains
  <2> QED
    BY <2>1, <2>2
<1>3. Prepare(m).source \in [Joints -> Joints \cup {None}]
  BY <1>1 DEF Prepare
<1>4. Prepare(m).chain \in [Joints -> Chains]
  BY <1>2 DEF Prepare
<1> QED
  BY <1>3, <1>4, ModelsAssumption DEF Prepare, Rigs

\* A motion without controls is a state.
LEMMA MotionStateType ==
  ASSUME NEW a \in [Joints -> Int], NEW rho \in [Joints -> Rot]
  PROVE  MotionState(a, rho) \in States
  BY RotationsAreAGroup DEF MotionState, States, Zero, Still

\* An append keeps a state a state and changes only the joint's own append.
LEMMA AppendedType ==
  ASSUME TypeOK, RatiosOK, NEW s \in States, NEW j \in Joints, NEW hold
  PROVE  /\ Appended(s, j, hold) \in States
         /\ Appended(s, j, hold).a = s.a /\ Appended(s, j, hold).rho = s.rho
         /\ Appended(s, j, hold).ik = s.ik
         /\ \A i \in Joints : i # j \/ j \in hold => /\ Appended(s, j, hold).appT[i] = s.appT[i]
                                          /\ Appended(s, j, hold).appR[i] = s.appR[i]
<1> DEFINE src == rig.source[j]
<1>1. CASE src = None \/ j \in hold
  BY <1>1 DEF Appended
<1>2. CASE src # None /\ j \notin hold
  <2>1. src \in Joints
    BY <1>2 DEF TypeOK, Rigs
  <2>2. AppendR(s, src, rig.ratio[j]) \in Rot
    <3>1. Mul(Mul(s.ik[src], s.rho[src]), s.appR[src]) \in Rot
      BY <2>1, RotationsAreAGroup DEF States
    <3> QED
      BY <3>1 DEF AppendR, RatiosOK
  <2>3. AppendT(s, src, rig.ratio[j]) \in Int
    <3>1. s.a[src] \in Int /\ s.appT[src] \in Int /\ rig.ratio[j] \in Int
      BY <2>1 DEF States, TypeOK, Rigs
    <3> QED
      BY <3>1 DEF AppendT
  <2>4. TakenR(s, j) \in Rot /\ TakenT(s, j) \in Int
    BY <2>2, <2>3 DEF TakenR, TakenT, States
  <2>5. Appended(s, j, hold) = [s EXCEPT !.appR[j] = TakenR(s, j), !.appT[j] = TakenT(s, j)]
    BY <1>2 DEF Appended
  <2> DEFINE newR == [s.appR EXCEPT ![j] = TakenR(s, j)]
             newT == [s.appT EXCEPT ![j] = TakenT(s, j)]
  <2>6. newR \in [Joints -> Rot] /\ newT \in [Joints -> Int]
    BY <2>4 DEF States
  <2>7. \A i \in Joints : i # j => newR[i] = s.appR[i] /\ newT[i] = s.appT[i]
    BY DEF States
  <2>8. Appended(s, j, hold) = [s EXCEPT !.appR = newR, !.appT = newT]
    BY <2>5
  <2> HIDE DEF newR, newT
  <2> QED
    BY <1>2, <2>6, <2>7, <2>8 DEF States
<1> QED
  BY <1>1, <1>2

\* Solving keeps a state a state and changes only the links' IK rotations.
LEMMA SolvedType ==
  ASSUME NEW s \in States, NEW g \in Joints
  PROVE  /\ Solved(s, g) \in States
         /\ Solved(s, g).a = s.a /\ Solved(s, g).rho = s.rho
         /\ Solved(s, g).appT = s.appT /\ Solved(s, g).appR = s.appR
         /\ \A i \in Joints \ rig.chain[g].links : Solved(s, g).ik[i] = s.ik[i]
<1> DEFINE links == rig.chain[g].links
           reset == [s EXCEPT !.ik = [l \in Joints |-> IF l \in links THEN Id ELSE s.ik[l]]]
           keyed == PoseOf(rig, reset)
<1>1. reset \in States /\ \A i \in Joints \ links : reset.ik[i] = s.ik[i]
  BY RotationsAreAGroup DEF States
<1>2. reset.a = s.a /\ reset.rho = s.rho /\ reset.appT = s.appT /\ reset.appR = s.appR
  BY DEF States
<1>3. \A l \in Joints : Turn(g, l, keyed, s.rho) \in Rot
  BY RotationsAreAGroup DEF Turn
<1> DEFINE turned == [l \in Joints |-> IF l \in links THEN Turn(g, l, keyed, s.rho) ELSE reset.ik[l]]
<1>4. turned \in [Joints -> Rot]
  BY <1>1, <1>3 DEF States
<1>5. Solved(s, g) = [reset EXCEPT !.ik = turned]
  BY DEF Solved
<1>6. \A i \in Joints \ links : turned[i] = s.ik[i]
  BY <1>1
<1> HIDE DEF reset, turned, keyed
<1> QED
  BY <1>1, <1>2, <1>4, <1>5, <1>6 DEF States

\* One position of the pass keeps the motion, and changes the appends of no
\* joint but the one visited, and the IK of no joint but its chain's links.
LEMMA VisitedType ==
  ASSUME TypeOK, RatiosOK, NEW j \in Joints
  PROVE  /\ Visited(st, j) \in States
         /\ Visited(st, j).a = st.a /\ Visited(st, j).rho = st.rho
         /\ \A i \in Joints : i # j \/ j \in call.held => /\ Visited(st, j).appT[i] = st.appT[i]
                                               /\ Visited(st, j).appR[i] = st.appR[i]
         /\ \A i \in Joints : ~(HasChain(j) /\ j \in enabled /\ i \in rig.chain[j].links)
                              => Visited(st, j).ik[i] = st.ik[i]
<1> DEFINE t == Appended(st, j, call.held)
<1>1. st \in States
  BY DEF TypeOK
<1>2. /\ t \in States /\ t.a = st.a /\ t.rho = st.rho /\ t.ik = st.ik
      /\ \A i \in Joints : i # j \/ j \in call.held => t.appT[i] = st.appT[i] /\ t.appR[i] = st.appR[i]
  BY SMTT(40), <1>1, AppendedType
<1>3. CASE HasChain(j) /\ j \in enabled
  <2>1. Visited(st, j) = Solved(t, j)
    BY <1>3 DEF Visited
  <2> HIDE DEF t
  <2>2. /\ Solved(t, j) \in States
        /\ Solved(t, j).a = t.a /\ Solved(t, j).rho = t.rho
        /\ Solved(t, j).appT = t.appT /\ Solved(t, j).appR = t.appR
        /\ \A i \in Joints \ rig.chain[j].links : Solved(t, j).ik[i] = t.ik[i]
    BY <1>2, SolvedType
  <2> QED
    BY <1>2, <1>3, <2>1, <2>2
<1>4. CASE ~(HasChain(j) /\ j \in enabled)
  BY <1>2, <1>4 DEF Visited
<1> QED
  BY <1>3, <1>4

\* An edit of a fed joint is one of the feedback's rows.
LEMMA EditIsFed ==
  ASSUME NEW f \in Feedbacks, NEW j \in Fed(f)
  PROVE  EditOf(f, j).joint = j /\ EditOf(f, j).t \in Int /\ EditOf(f, j).r \in Rot
<1>1. PICK i \in DOMAIN f : f[i].joint = j
  BY DEF Fed
<1>2. (CHOOSE k \in DOMAIN f : f[k].joint = j) \in {k \in DOMAIN f : f[k].joint = j}
  BY <1>1
<1> QED
  BY <1>2, FeedbacksAssumption DEF EditOf

\* Reconciling feedback with a snapshot keeps it a state with the same appends.
LEMMA ReconciledType ==
  ASSUME TypeOK, NEW s \in States, NEW f \in Feedbacks
  PROVE  /\ Reconciled(rig, s, f) \in States
         /\ Reconciled(rig, s, f).appT = s.appT /\ Reconciled(rig, s, f).appR = s.appR
         /\ \A j \in Joints :
              Reconciled(rig, s, f).a[j] = IF j \in Fed(f)
                                      THEN EditOf(f, j).t - rig.rest[j] - s.appT[j] ELSE s.a[j]
         /\ \A j \in Joints :
              Reconciled(rig, s, f).rho[j] = IF j \in Fed(f)
                                        THEN Mul(EditOf(f, j).r, Inv(s.appR[j])) ELSE s.rho[j]
         /\ \A j \in Joints :
              Reconciled(rig, s, f).ik[j] = IF j \in Fed(f) THEN Id ELSE s.ik[j]
<1> DEFINE newA == [j \in Joints |-> IF j \in Fed(f)
                                     THEN EditOf(f, j).t - rig.rest[j] - s.appT[j] ELSE s.a[j]]
           newRho == [j \in Joints |-> IF j \in Fed(f)
                                       THEN Mul(EditOf(f, j).r, Inv(s.appR[j])) ELSE s.rho[j]]
           newIk == [j \in Joints |-> IF j \in Fed(f) THEN Id ELSE s.ik[j]]
<1>1. newA \in [Joints -> Int]
  <2> SUFFICES ASSUME NEW j \in Joints PROVE newA[j] \in Int
    OBVIOUS
  <2>1. rig.rest[j] \in Int /\ s.appT[j] \in Int /\ s.a[j] \in Int
    BY DEF TypeOK, Rigs, States
  <2>2. CASE j \in Fed(f)
    <3>1. EditOf(f, j).t \in Int
      BY <2>2, EditIsFed
    <3> QED
      BY <2>1, <2>2, <3>1
  <2> QED
    BY <2>1, <2>2
<1>2. newRho \in [Joints -> Rot]
  <2> SUFFICES ASSUME NEW j \in Joints PROVE newRho[j] \in Rot
    OBVIOUS
  <2>1. s.appR[j] \in Rot /\ s.rho[j] \in Rot
    BY DEF States
  <2>2. CASE j \in Fed(f)
    <3>1. EditOf(f, j).r \in Rot
      BY <2>2, EditIsFed
    <3>2. Mul(EditOf(f, j).r, Inv(s.appR[j])) \in Rot
      BY <2>1, <3>1, RotationsAreAGroup
    <3> QED
      BY <2>2, <3>2
  <2> QED
    BY <2>1, <2>2
<1>3. newIk \in [Joints -> Rot]
  BY RotationsAreAGroup DEF States
<1>4. Reconciled(rig, s, f) = [s EXCEPT !.a = newA, !.rho = newRho, !.ik = newIk]
  BY DEF Reconciled
<1>5. /\ \A j \in Joints : newA[j] = IF j \in Fed(f)
                                     THEN EditOf(f, j).t - rig.rest[j] - s.appT[j] ELSE s.a[j]
      /\ \A j \in Joints : newRho[j] = IF j \in Fed(f)
                                       THEN Mul(EditOf(f, j).r, Inv(s.appR[j])) ELSE s.rho[j]
      /\ \A j \in Joints : newIk[j] = IF j \in Fed(f) THEN Id ELSE s.ik[j]
  OBVIOUS
<1> HIDE DEF newA, newRho, newIk
<1> QED
  BY <1>1, <1>2, <1>3, <1>4, <1>5 DEF States

\* The motion of a given pose is a motion.
LEMMA GivenMotionType ==
  ASSUME TypeOK, NEW g \in Givens
  PROVE  /\ GivenMotion(rig, g) \in States
         /\ \A j \in Joints : /\ GivenMotion(rig, g).ik[j] = Id
                              /\ GivenMotion(rig, g).appT[j] = 0 /\ GivenMotion(rig, g).appR[j] = Id
<1> DEFINE newA == [j \in Joints |-> IF j \in g.reached THEN g.t[j] - rig.rest[j] ELSE 0]
           newRho == [j \in Joints |-> IF j \in g.reached THEN g.r[j] ELSE Id]
<1>1. newA \in [Joints -> Int]
  BY GivensAssumption DEF TypeOK, Rigs
<1>2. newRho \in [Joints -> Rot]
  BY GivensAssumption, RotationsAreAGroup
<1>3. GivenMotion(rig, g) = MotionState(newA, newRho)
  BY DEF GivenMotion
<1> HIDE DEF newA, newRho
<1> QED
  BY <1>1, <1>2, <1>3, MotionStateType DEF MotionState, Zero, Still

\* What feeds held joints is itself closed, and within every closed set.
LEMMA FeedersClosed ==
  ASSUME TypeOK, NEW hold \in SUBSET Joints
  PROVE  /\ Feeders(rig, hold) \subseteq Joints
         /\ Feeding(rig, hold, Feeders(rig, hold))
         /\ \A F \in SUBSET Joints : Feeding(rig, hold, F) => Feeders(rig, hold) \subseteq F
<1>1. \A j \in Joints : rig.source[j] \in Joints \cup {None}
  BY DEF TypeOK, Rigs
<1>2. ASSUME NEW j \in hold \cup Feeders(rig, hold), rig.source[j] # None
      PROVE  rig.source[j] \in Feeders(rig, hold)
  <2>1. rig.source[j] \in Joints
    BY <1>1, <1>2 DEF Feeders
  <2>2. ASSUME NEW F \in SUBSET Joints, Feeding(rig, hold, F) PROVE rig.source[j] \in F
    <3>1. j \in hold \cup F
      BY <2>2 DEF Feeders
    <3> QED BY <3>1, <2>2, <1>2 DEF Feeding
  <2> QED BY <2>1, <2>2 DEF Feeders
<1>3. Feeding(rig, hold, Feeders(rig, hold))
  BY <1>2 DEF Feeding
<1> QED BY <1>3 DEF Feeders

\* One more held joint adds what the walk from its source adds, although the
\* walk ends at the first joint marked before.
LEMMA WalkAddsFeeders ==
  ASSUME TypeOK, NEW hold \in SUBSET Joints, NEW j \in Joints
  PROVE  MarkFrom(rig, Feeders(rig, hold), rig.source[j]) = Feeders(rig, hold \cup {j})
<1> DEFINE M == Feeders(rig, hold)
           s == rig.source[j]
           Walked(F) == /\ M \subseteq F /\ s \in F \cup {None}
                        /\ \A i \in F \ M : rig.source[i] \in F \cup {None}
<1>1. M \subseteq Joints /\ Feeding(rig, hold, M)
  BY FeedersClosed
<1>2. \A F \in SUBSET Joints : Feeding(rig, hold, F) => M \subseteq F
  BY FeedersClosed
<1>3. MarkFrom(rig, M, s) = {i \in Joints : \A F \in SUBSET Joints : Walked(F) => i \in F}
  BY DEF MarkFrom
<1> HIDE DEF M
<1>4. ASSUME NEW F \in SUBSET Joints, Walked(F) PROVE Feeding(rig, hold \cup {j}, F)
  BY <1>1, <1>4 DEF Feeding
<1>5. ASSUME NEW F \in SUBSET Joints, Feeding(rig, hold \cup {j}, F) PROVE Walked(F)
  <2>1. Feeding(rig, hold, F)
    BY <1>5 DEF Feeding
  <2> QED BY <2>1, <1>2, <1>5 DEF Feeding
<1> HIDE DEF Walked, s
<1>6. MarkFrom(rig, M, s) = Feeders(rig, hold \cup {j})
  BY <1>3, <1>4, <1>5 DEF Feeders
<1> QED BY <1>6 DEF M, s

\* The walks are taken one after the other.
LEMMA MarkingsSteps ==
  ASSUME NEW hold
  PROVE  /\ Cardinality(Joints) \in Nat
         /\ Markings(rig, hold) \in [0..Cardinality(Joints) -> SUBSET Joints]
         /\ Markings(rig, hold)[0] = {}
         /\ \A n \in 1..Cardinality(Joints) :
              Markings(rig, hold)[n] =
                IF n - 1 \in hold THEN MarkFrom(rig, Markings(rig, hold)[n - 1], rig.source[n - 1])
                ELSE Markings(rig, hold)[n - 1]
<1> DEFINE M == Cardinality(Joints)
           Step(n, x) == IF n - 1 \in hold THEN MarkFrom(rig, x, rig.source[n - 1]) ELSE x
           G == [n \in 1..M |-> [x \in SUBSET Joints |-> Step(n, x)]]
           Is(f) == f = [n \in 0..M |-> IF n = 0 THEN {} ELSE Step(n, f[n - 1])]
<1>1. M \in Nat
  BY JointsAssumption, FS_CardinalityType
<1>2. \A n \in 1..M, x \in SUBSET Joints : Step(n, x) \in SUBSET Joints
  BY DEF MarkFrom
<1> HIDE DEF M
<1>3. G \in StepsOn(SUBSET Joints, M)
  <2> HIDE DEF Step
  <2> QED BY <1>2 DEF StepsOn
<1>4. PICK f \in [0..M -> SUBSET Joints] : f[0] = {} /\ \A n \in 1..M : f[n] = G[n][f[n - 1]]
  <2>1. {} \in SUBSET Joints
    OBVIOUS
  <2>2. \E h \in RunsOn(SUBSET Joints, M) : Follows(h, {}, G, M)
    <3> HIDE DEF G
    <3> QED BY <1>1, <1>3, <2>1, Recursion
  <2> HIDE DEF G
  <2> QED BY <2>2 DEF RunsOn, Follows
<1>5. Is(f)
  <2> HIDE DEF Step
  <2>1. ASSUME NEW n \in 0..M PROVE f[n] = IF n = 0 THEN {} ELSE Step(n, f[n - 1])
    <3>1. CASE n = 0
      BY <3>1, <1>4
    <3>2. CASE n # 0
      <4>1. n \in 1..M /\ n - 1 \in 0..M /\ f[n - 1] \in SUBSET Joints
        BY <3>2, <1>1
      <4>2. G[n][f[n - 1]] = Step(n, f[n - 1])
        BY <4>1
      <4> QED BY <3>2, <4>1, <4>2, <1>4
    <3> QED BY <3>1, <3>2
  <2>2. f = [n \in 0..M |-> f[n]]
    OBVIOUS
  <2> HIDE DEF G
  <2> QED BY <2>1, <2>2
<1> DEFINE F == Markings(rig, hold)
<1>6. Is(F)
  <2>1. F = CHOOSE g : Is(g)
    BY DEF Markings, M
  <2> HIDE DEF Is, F
  <2> QED BY <1>5, <2>1
<1> HIDE DEF F, Step
<1>7. \A n \in 0..M : F[n] = IF n = 0 THEN {} ELSE Step(n, F[n - 1])
  BY <1>6
<1>8. F = [n \in 0..M |-> F[n]] /\ F[0] = {}
  BY <1>1, <1>6
<1>9. \A n \in 1..M : F[n] = Step(n, F[n - 1])
  BY <1>1, <1>7
<1> DEFINE Good == {n \in 0..M : F[n] \in SUBSET Joints}
<1>10. 0..M \subseteq Good
  <2>1. 0 \in Good
    BY <1>1, <1>8
  <2>2. ASSUME NEW n \in 0..(M - 1), n \in Good PROVE n + 1 \in Good
    <3>1. n + 1 \in 1..M /\ (n + 1) - 1 = n /\ F[n] \in SUBSET Joints /\ n + 1 \in 0..M
      BY <2>2, <1>1
    <3> QED BY <3>1, <1>2, <1>9
  <2> HIDE DEF Good
  <2> QED BY <2>1, <2>2, <1>1, UpTo
<1>11. F \in [0..M -> SUBSET Joints]
  BY <1>8, <1>10
<1> QED BY <1>1, <1>8, <1>9, <1>11 DEF F, M, Step

\* The walks from the held joints mark what feeds them, all of it and nothing
\* else, in whatever order they come to it.
LEMMA WalksMarkFeeders ==
  ASSUME TypeOK, NEW hold \in SUBSET Joints
  PROVE  FeedsHeld(rig, hold) = Feeders(rig, hold)
<1> DEFINE M == Cardinality(Joints)
           F == Markings(rig, hold)
           First(n) == {j \in hold : j < n}
           P == {n \in 0..M : F[n] = Feeders(rig, First(n))}
<1>1. /\ M \in Nat /\ F[0] = {}
      /\ \A n \in 1..M : F[n] = IF n - 1 \in hold THEN MarkFrom(rig, F[n - 1], rig.source[n - 1])
                                ELSE F[n - 1]
  BY MarkingsSteps
<1>2. \A j \in Joints : j \in 0..(M - 1)
  BY IndicesAssumption
<1>3. FeedsHeld(rig, hold) = F[M]
  BY DEF FeedsHeld
<1> HIDE DEF M, F
<1>4. Feeders(rig, {}) = {}
  <2>1. Feeding(rig, {}, {}) /\ {} \in SUBSET Joints
    BY DEF Feeding
  <2> QED BY <2>1 DEF Feeders
<1>5. 0 \in P
  <2>1. First(0) = {} /\ 0 \in 0..M
    BY <1>1, <1>2
  <2> HIDE DEF First
  <2>2. F[0] = Feeders(rig, First(0))
    BY <2>1, <1>1, <1>4
  <2> QED BY <2>1, <2>2
<1>6. ASSUME NEW n \in 0..(M - 1), n \in P PROVE n + 1 \in P
  <2>1. n + 1 \in 1..M /\ (n + 1) - 1 = n /\ n + 1 \in 0..M
    BY <1>1
  <2>2. F[n + 1] = IF n \in hold THEN MarkFrom(rig, F[n], rig.source[n]) ELSE F[n]
    BY <2>1, <1>1
  <2>3. F[n] = Feeders(rig, First(n)) /\ First(n) \in SUBSET Joints
    BY <1>6
  <2>4. \A j \in hold : j < n + 1 <=> (j < n \/ j = n)
    BY <1>1, <1>2
  <2> HIDE DEF P
  <2>5. CASE n \in hold
    <3>1. First(n + 1) = First(n) \cup {n} /\ n \in Joints
      BY <2>4, <2>5
    <3> HIDE DEF First
    <3>2. MarkFrom(rig, Feeders(rig, First(n)), rig.source[n]) = Feeders(rig, First(n) \cup {n})
      BY <2>3, <3>1, WalkAddsFeeders
    <3>3. F[n + 1] = Feeders(rig, First(n + 1))
      BY <2>2, <2>3, <2>5, <3>1, <3>2
    <3> QED BY <2>1, <3>3 DEF P
  <2>6. CASE n \notin hold
    <3>1. First(n + 1) = First(n)
      BY <2>4, <2>6
    <3> HIDE DEF First
    <3>2. F[n + 1] = Feeders(rig, First(n + 1))
      BY <2>2, <2>3, <2>6, <3>1
    <3> QED BY <2>1, <3>2 DEF P
  <2> QED BY <2>5, <2>6
<1>7. 0..M \subseteq P
  <2> HIDE DEF P
  <2> QED BY <1>1, <1>5, <1>6, UpTo
<1>8. First(M) = hold
  BY <1>1, <1>2
<1>9. M \in 0..M
  BY <1>1
<1> HIDE DEF First
<1> QED BY <1>3, <1>7, <1>8, <1>9

-----------------------------------------------------------------------------
(* Type correctness *)

LEMMA TypeInit == Init => TypeInv
<1> SUFFICES ASSUME Init PROVE TypeInv
  OBVIOUS
<1>1. PICK m \in Models : rig = Prepare(m)
  BY DEF Init
<1>2. rig \in Rigs /\ RatiosOK
  BY <1>1, PreparedRig DEF RatiosOK
<1>3. Zero \in [Joints -> Int] /\ Still \in [Joints -> Rot]
  BY RotationsAreAGroup DEF Zero, Still
<1>4. st \in States
  BY <1>3, MotionStateType DEF Init
<1>5. call.op = "complete"
  BY DEF Init, NoCall, Call
<1>6. calls \in 0..MaxCalls
  BY MaxCallsAssumption DEF Init
<1> QED
  BY <1>2, <1>4, <1>5, <1>6 DEF Init, TypeInv, TypeOK, CallOK, Ops

\* Starting a call whose working state, chains and arguments are typed.
LEMMA TypeStart ==
  ASSUME TypeInv, Start, todo' \in SUBSET Joints, enabled' \in SUBSET Joints,
         st' \in States, call'.op \in Ops,
         call'.op = "begin" =>
           call'.self \in Evaluators /\ call'.slot \in Slots /\ call'.motion \in Motions,
         call'.op = "complete" => call'.given \in Givens /\ call'.held \subseteq Joints,
         call'.op = "resume" => /\ call'.fed \in Feedbacks /\ WellFormed(call'.fed)
                                /\ call'.slot \in Slots /\ slots[call'.slot] # None
  PROVE  TypeInv'
<1>1. TypeOK'
  BY MaxCallsAssumption DEF TypeInv, TypeOK, Start
<1>2. RatiosOK'
  BY DEF TypeInv, RatiosOK, Start
<1>3. CallOK'
  BY DEF CallOK, Start, WellFormed
<1> QED
  BY <1>1, <1>2, <1>3 DEF TypeInv

LEMMA TypeNext == TypeInv /\ [Next]_vars => TypeInv'
<1> SUFFICES ASSUME TypeInv, [Next]_vars PROVE TypeInv'
  OBVIOUS
<1> USE DEF TypeInv
<1>1. ASSUME NEW e \in Evaluators, NEW m \in Motions, Evaluate(e, m) PROVE TypeInv'
  <2>1. MotionState(m.a, m.rho) \in States /\ m.enabled \in SUBSET Joints
    BY MotionsAssumption, MotionStateType
  <2> QED
    BY <1>1, <2>1, TypeStart DEF Evaluate, Call, Ops
<1>2. ASSUME NEW e \in Evaluators, NEW s \in Slots, NEW m \in Motions, BeginPhysics(e, s, m)
      PROVE TypeInv'
  <2>1. MotionState(m.a, m.rho) \in States /\ m.enabled \in SUBSET Joints
    BY MotionsAssumption, MotionStateType
  <2> QED
    BY <1>2, <2>1, TypeStart DEF BeginPhysics, Call, Ops
<1>3. ASSUME NEW e \in Evaluators, NEW s \in Slots, NEW f \in Feedbacks, ResumePhysics(e, s, f)
      PROVE TypeInv'
  <2>1. slots[s] \in Snapshots
    BY <1>3 DEF ResumePhysics, Accepts, TypeOK
  <2>2. slots[s].st \in States /\ slots[s].enabled \in SUBSET Joints
    BY <2>1 DEF Snapshots
  <2>3. Reconciled(rig, slots[s].st, f) \in States
    BY <2>2, ReconciledType
  <2> QED
    BY <1>3, <2>2, <2>3, TypeStart DEF ResumePhysics, Accepts, AfterBarrier, Call, Ops
<1>4. ASSUME NEW e \in Evaluators, NEW s \in Slots, NEW f \in Feedbacks, RefuseResume(e, s, f)
      PROVE TypeInv'
  BY <1>4, MaxCallsAssumption DEF RefuseResume, TypeOK, RatiosOK, CallOK
<1>5. ASSUME NEW e \in Evaluators, NEW g \in Givens, NEW h \in SUBSET Joints, Complete(e, g, h)
      PROVE TypeInv'
  BY <1>5, GivenMotionType, TypeStart DEF Complete, Call, Ops, ClearChains
<1>6. CASE Visit
  <2>1. PICK j \in todo : st' = Visited(st, j) /\ todo' = todo \ {j}
    BY <1>6 DEF Visit
  <2>2. j \in Joints
    BY <2>1 DEF TypeOK
  <2>3. Visited(st, j) \in States
    BY <2>2, VisitedType
  <2> QED
    BY <1>6, <2>1, <2>3 DEF Visit, TypeOK, RatiosOK, CallOK, WellFormed
<1>7. CASE Return
  <2>1. Zero \in [Joints -> Int] /\ Still \in [Joints -> Rot]
    BY RotationsAreAGroup DEF Zero, Still
  <2>2. st' \in States
    BY <1>7, <2>1, MotionStateType DEF Return
  <2>3. call'.op \in Ops
    BY <1>7 DEF Return, NoCall, Call, Ops
  <2>4. slots' \in [Slots -> Snapshots \cup {None}]
    <3>1. CASE call.op # "begin"
      BY <1>7, <3>1 DEF Return, TypeOK
    <3>2. CASE call.op = "begin"
      <4> DEFINE snap == [owner |-> call.self, motion |-> call.motion,
                          enabled |-> enabled, st |-> st]
      <4>1. snap \in Snapshots
        BY <1>7, <3>2 DEF Return, TypeOK, CallOK, Snapshots
      <4>2. slots' = [slots EXCEPT ![call.slot] = snap]
        BY <1>7, <3>2 DEF Return
      <4> HIDE DEF snap
      <4> QED
        BY <4>1, <4>2 DEF TypeOK
    <3> QED
      BY <3>1, <3>2
  <2> QED
    BY <1>7, <2>2, <2>3, <2>4 DEF Return, TypeOK, RatiosOK, CallOK
<1>8. CASE UNCHANGED vars
  BY <1>8 DEF vars, TypeOK, RatiosOK, CallOK, WellFormed
<1> QED
  BY <1>1, <1>2, <1>3, <1>4, <1>5, <1>6, <1>7, <1>8 DEF Next

\* The evaluator only ever works on typed states of a rig whose appends and
\* chains name joints, whatever indices the model held.
THEOREM TypeCorrect == Spec => []TypeOK
<1>1. TypeInv => TypeOK
  BY DEF TypeInv
<1> QED
  BY TypeInit, TypeNext, <1>1, PTL DEF Spec

-----------------------------------------------------------------------------
(* Held joints *)

LEMMA HeldNext == TypeInv /\ HeldInv /\ [Next]_vars => HeldInv'
<1> SUFFICES ASSUME TypeInv, HeldInv, [Next]_vars, pc' = "pass", call'.op = "complete"
             PROVE  HeldInv'
  BY DEF HeldInv
<1> USE DEF TypeInv
<1>1. ASSUME NEW e \in Evaluators, NEW g \in Givens, NEW h \in SUBSET Joints, Complete(e, g, h)
      PROVE HeldInv'
  <2>1. /\ call' = Call("complete", e, None, None, <<>>, g, h)
        /\ enabled' = ClearChains(rig, h) /\ st' = GivenMotion(rig, g) /\ rig' = rig
    BY <1>1 DEF Complete, Start
  <2>2. call'.held = h /\ call'.given = g
    BY <2>1 DEF Call
  <2>3. /\ Feeders(rig, call.held)' = Feeders(rig, h)
        /\ ClearChains(rig, call.held)' = ClearChains(rig, h)
        /\ GivenMotion(rig, call.given)' = GivenMotion(rig, g)
    BY <2>1, <2>2
  <2>4. \A j \in Joints : st'.ik[j] = Id /\ st'.appT[j] = 0 /\ st'.appR[j] = Id
    BY <2>1, GivenMotionType
  <2> QED
    BY <2>1, <2>2, <2>3, <2>4, FeedersClosed DEF HeldInv
<1>2. CASE Visit
  <2>1. PICK j \in todo : st' = Visited(st, j) /\ todo' = todo \ {j}
    BY <1>2 DEF Visit
  <2>2. j \in Joints /\ rig' = rig /\ call' = call /\ enabled' = enabled /\ pc = "pass"
    BY <1>2, <2>1 DEF TypeOK, Visit
  <2>3. /\ st'.a = st.a /\ st'.rho = st.rho
        /\ \A i \in Joints : i # j \/ j \in call.held =>
             st'.appT[i] = st.appT[i] /\ st'.appR[i] = st.appR[i]
        /\ \A i \in Joints : ~(HasChain(j) /\ j \in enabled /\ i \in rig.chain[j].links)
                             => st'.ik[i] = st.ik[i]
    BY <2>1, <2>2, VisitedType
  <2>4. call.held \subseteq Joints /\ enabled = ClearChains(rig, call.held)
    BY <2>2 DEF CallOK, HeldInv
  <2>5. \A i \in call.held \cup Feeders(rig, call.held) : st'.ik[i] = st.ik[i]
    <3> SUFFICES ASSUME NEW i \in call.held \cup Feeders(rig, call.held) PROVE st'.ik[i] = st.ik[i]
      OBVIOUS
    <3>1. i \in Joints
      BY <2>4, FeedersClosed
    <3>2. ~(j \in enabled /\ i \in rig.chain[j].links)
      <4>1. FeedsHeld(rig, call.held) = Feeders(rig, call.held)
        BY <2>4, WalksMarkFeeders
      <4> QED BY <4>1, <2>4 DEF ClearChains
    <3> QED
      BY <2>3, <3>1, <3>2
  <2>6. \A i \in call.held : st'.appT[i] = st.appT[i] /\ st'.appR[i] = st.appR[i]
    BY <2>3, <2>4
  <2>7. /\ GivenMotion(rig, call.given)' = GivenMotion(rig, call.given)
        /\ Feeders(rig, call.held)' = Feeders(rig, call.held)
        /\ ClearChains(rig, call.held)' = ClearChains(rig, call.held)
    BY <2>2
  <2> QED
    BY <2>2, <2>3, <2>4, <2>5, <2>6, <2>7 DEF HeldInv
<1>3. CASE \E e \in Evaluators, m \in Motions : Evaluate(e, m)
  BY <1>3 DEF Evaluate, Start, Call
<1>4. CASE \E e \in Evaluators, s \in Slots, m \in Motions : BeginPhysics(e, s, m)
  BY <1>4 DEF BeginPhysics, Start, Call
<1>5. CASE \E e \in Evaluators, s \in Slots, f \in Feedbacks : ResumePhysics(e, s, f)
  BY <1>5 DEF ResumePhysics, Start, Call
<1>6. CASE \E e \in Evaluators, s \in Slots, f \in Feedbacks : RefuseResume(e, s, f)
  BY <1>6 DEF RefuseResume
<1>7. CASE Return
  BY <1>7 DEF Return
<1>8. CASE UNCHANGED vars
  BY <1>8 DEF vars, HeldInv
<1> QED
  BY <1>1, <1>2, <1>3, <1>4, <1>5, <1>6, <1>7, <1>8 DEF Next

LEMMA HeldImplied == TypeInv /\ HeldInv => HeldAsGiven
<1> SUFFICES ASSUME TypeInv, HeldInv, pc = "pass", call.op = "complete", NEW j \in call.held
             PROVE  LocalOf(rig, st, j) = IF j \in call.given.reached
                                          THEN [t |-> call.given.t[j], r |-> call.given.r[j]]
                                          ELSE [t |-> rig.rest[j], r |-> Id]
  BY DEF HeldInv, HeldAsGiven
<1> DEFINE g == call.given
<1>1. j \in Joints /\ g \in Givens
  BY DEF TypeInv, CallOK
<1>2. rig.rest[j] \in Int /\ g.t[j] \in Int /\ g.r[j] \in Rot
  BY <1>1, GivensAssumption DEF TypeInv, TypeOK, Rigs
<1>3. /\ st.a[j] = (IF j \in g.reached THEN g.t[j] - rig.rest[j] ELSE 0)
      /\ st.rho[j] = (IF j \in g.reached THEN g.r[j] ELSE Id)
      /\ st.ik[j] = Id /\ st.appT[j] = 0 /\ st.appR[j] = Id
  BY <1>1 DEF HeldInv, GivenMotion, MotionState
<1>4. \A q \in Rot : Mul(Mul(Id, q), Id) = q
  BY RotationsAreAGroup
<1> HIDE DEF g
<1>5. CASE j \in g.reached
  <2>1. rig.rest[j] + st.a[j] + st.appT[j] = g.t[j]
    BY <1>2, <1>3, <1>5
  <2>2. Mul(Mul(st.ik[j], st.rho[j]), st.appR[j]) = g.r[j]
    BY <1>2, <1>3, <1>4, <1>5
  <2> QED
    BY <1>5, <2>1, <2>2 DEF LocalOf, g
<1>6. CASE j \notin g.reached
  <2>1. rig.rest[j] + st.a[j] + st.appT[j] = rig.rest[j]
    BY <1>2, <1>3, <1>6
  <2>2. Mul(Mul(st.ik[j], st.rho[j]), st.appR[j]) = Id
    BY <1>3, <1>4, <1>6, RotationsAreAGroup
  <2> QED
    BY <1>6, <2>1, <2>2 DEF LocalOf, g
<1> QED
  BY <1>5, <1>6

\* Whatever the rig, the given pose and the held set, what appends and chains
\* read of a held joint during Complete is the transform it was given.
THEOREM HeldStayAsGiven == Spec => []HeldAsGiven
<1>1. Init => HeldInv
  BY DEF Init, HeldInv
<1> QED
  BY <1>1, TypeInit, TypeNext, HeldNext, HeldImplied, PTL DEF Spec

-----------------------------------------------------------------------------
(* The physics barrier *)

LEMMA FrameNext == TypeInv /\ FrameInv /\ [Next]_vars => FrameInv'
<1> SUFFICES ASSUME TypeInv, FrameInv, [Next]_vars, pc' = "pass", call'.op = "resume"
             PROVE  FrameInv'
  BY SMTT(40) DEF FrameInv
<1> USE DEF TypeInv
<1>1. ASSUME NEW e \in Evaluators, NEW s \in Slots, NEW f \in Feedbacks, ResumePhysics(e, s, f)
      PROVE FrameInv'
  <2>1. /\ call' = Call("resume", e, s, slots[s].motion, f, Given0, {}) /\ slots' = slots
        /\ todo' = AfterBarrier(rig) /\ st' = Reconciled(rig, slots[s].st, f) /\ rig' = rig
    BY <1>1 DEF ResumePhysics, Start
  <2>2. call'.slot = s /\ call'.fed = f
    BY <2>1 DEF Call
  <2>3. Reconciled(rig, slots[call.slot].st, call.fed)' = Reconciled(rig, slots[s].st, f)
    BY <2>1, <2>2
  <2>4. AfterBarrier(rig)' = AfterBarrier(rig)
    BY <2>1
  <2> QED
    BY <2>1, <2>3, <2>4 DEF FrameInv
<1>2. CASE Visit
  <2>1. PICK j \in todo : st' = Visited(st, j) /\ todo' = todo \ {j}
    BY <1>2 DEF Visit
  <2>2. /\ j \in Joints /\ rig' = rig /\ call' = call /\ slots' = slots
        /\ enabled' = enabled /\ pc = "pass"
    BY <1>2, <2>1 DEF TypeOK, Visit
  <2>3. /\ st'.a = st.a /\ st'.rho = st.rho
        /\ \A i \in Joints : i # j => st'.appT[i] = st.appT[i] /\ st'.appR[i] = st.appR[i]
        /\ \A i \in Joints : ~(HasChain(j) /\ j \in enabled /\ i \in rig.chain[j].links)
                             => st'.ik[i] = st.ik[i]
    BY <2>1, <2>2, VisitedType
  <2>4. rig.after[j]
    BY <2>1, <2>2 DEF FrameInv, AfterBarrier
  <2>5. \A i \in Joints : Untouched(i) => /\ st'.ik[i] = st.ik[i]
                                          /\ st'.appT[i] = st.appT[i]
                                          /\ st'.appR[i] = st.appR[i]
    BY <2>2, <2>3, <2>4 DEF Untouched, TurnedAfter
  <2>6. /\ \A i \in Joints : Untouched(i)' = Untouched(i)
        /\ AfterBarrier(rig)' = AfterBarrier(rig)
        /\ Reconciled(rig, slots[call.slot].st, call.fed)' = Reconciled(rig, slots[call.slot].st, call.fed)
    BY <2>2 DEF Untouched, TurnedAfter, HasChain
  <2> QED
    BY <2>1, <2>2, <2>3, <2>5, <2>6 DEF FrameInv
<1>3. CASE \E e \in Evaluators, m \in Motions : Evaluate(e, m)
  BY <1>3 DEF Evaluate, Start, Call
<1>4. CASE \E e \in Evaluators, s \in Slots, m \in Motions : BeginPhysics(e, s, m)
  BY <1>4 DEF BeginPhysics, Start, Call
<1>5. CASE \E e \in Evaluators, g \in Givens, h \in SUBSET Joints : Complete(e, g, h)
  BY <1>5 DEF Complete, Start, Call
<1>6. CASE \E e \in Evaluators, s \in Slots, f \in Feedbacks : RefuseResume(e, s, f)
  BY <1>6 DEF RefuseResume
<1>7. CASE Return
  BY <1>7 DEF Return
<1>8. CASE UNCHANGED vars
  BY <1>8 DEF vars, FrameInv, Untouched, TurnedAfter, HasChain
<1> QED
  BY <1>1, <1>2, <1>3, <1>4, <1>5, <1>6, <1>7, <1>8 DEF Next

LEMMA FrameImplied == TypeInv /\ FrameInv => BarrierFrame
<1> SUFFICES ASSUME TypeInv, FrameInv, pc = "pass", call.op = "resume",
                    NEW j \in Joints, ~rig.after[j], ~TurnedAfter(j)
             PROVE  LocalOf(rig, st, j) =
                      IF j \in Fed(call.fed)
                      THEN [t |-> EditOf(call.fed, j).t, r |-> EditOf(call.fed, j).r]
                      ELSE LocalOf(rig, slots[call.slot].st, j)
  BY DEF BarrierFrame
<1> DEFINE f == call.fed
           s == slots[call.slot].st
<1>1. s \in States /\ f \in Feedbacks
  BY DEF TypeInv, TypeOK, CallOK, Snapshots
<1>2. /\ st.a[j] = Reconciled(rig, s, f).a[j] /\ st.rho[j] = Reconciled(rig, s, f).rho[j]
      /\ st.ik[j] = Reconciled(rig, s, f).ik[j]
      /\ st.appT[j] = s.appT[j] /\ st.appR[j] = s.appR[j]
  BY <1>1, ReconciledType DEF FrameInv, Untouched, TypeInv
<1> HIDE DEF f, s
<1>3. CASE j \notin Fed(f)
  <2>1. st.a[j] = s.a[j] /\ st.rho[j] = s.rho[j] /\ st.ik[j] = s.ik[j]
    BY <1>1, <1>2, <1>3, ReconciledType DEF TypeInv
  <2> QED
    BY <1>2, <1>3, <2>1 DEF LocalOf, f, s
<1>4. CASE j \in Fed(f)
  <2> DEFINE t == EditOf(f, j).t
             r == EditOf(f, j).r
  <2>1. t \in Int /\ r \in Rot /\ rig.rest[j] \in Int /\ s.appT[j] \in Int /\ s.appR[j] \in Rot
    BY <1>1, <1>4, EditIsFed DEF TypeInv, TypeOK, Rigs, States
  <2>2. /\ st.a[j] = t - rig.rest[j] - s.appT[j]
        /\ st.rho[j] = Mul(r, Inv(s.appR[j])) /\ st.ik[j] = Id
    BY <1>1, <1>2, <1>4, ReconciledType DEF TypeInv
  <2> HIDE DEF t, r
  <2>3. rig.rest[j] + st.a[j] + st.appT[j] = t
    BY <1>2, <2>1, <2>2
  <2>4. Mul(Mul(Id, Mul(r, Inv(s.appR[j]))), s.appR[j]) = r
    <3>1. Inv(s.appR[j]) \in Rot /\ Mul(r, Inv(s.appR[j])) \in Rot
      BY <2>1, RotationsAreAGroup
    <3>2. Mul(Id, Mul(r, Inv(s.appR[j]))) = Mul(r, Inv(s.appR[j]))
      BY <3>1, RotationsAreAGroup
    <3>3. Mul(Mul(r, Inv(s.appR[j])), s.appR[j]) = Mul(r, Mul(Inv(s.appR[j]), s.appR[j]))
      <4>1. \A p, q, x \in Rot : Mul(Mul(p, q), x) = Mul(p, Mul(q, x))
        BY RotationsAreAGroup
      <4> QED
        BY <2>1, <3>1, <4>1
    <3>4. Mul(Inv(s.appR[j]), s.appR[j]) = Id /\ Mul(r, Id) = r
      BY <2>1, RotationsAreAGroup
    <3> QED
      BY <3>2, <3>3, <3>4
  <2>5. Mul(Mul(st.ik[j], st.rho[j]), st.appR[j]) = r
    BY <1>2, <2>2, <2>4
  <2> QED
    BY <1>4, <2>3, <2>5 DEF LocalOf, f, t, r
<1> QED
  BY <1>3, <1>4

\* Whatever the rig, the motion and the feedback, a resume leaves every joint
\* that no post-physics control moves exactly as fed, or as before physics.
THEOREM BarrierIsAFrame == Spec => []BarrierFrame
<1>1. Init => FrameInv
  BY DEF Init, FrameInv
<1> QED
  BY <1>1, TypeInit, TypeNext, FrameNext, FrameImplied, PTL DEF Spec

-----------------------------------------------------------------------------
(* Settled appends *)

\* The joints the pass of this call visits.
Scope == IF call.op = "resume" THEN AfterBarrier(rig) ELSE Joints

\* Joint j's source is before it in the order, and so are the goals of the
\* enabled chains that turn the source.
SettlesAt(j) ==
  /\ rig.source[j] # None /\ Before(rig, rig.source[j], j)
  /\ \A g \in enabled : rig.source[j] \in rig.chain[g].links => Before(rig, g, j)

TotalTaken(j) ==
  LET src == rig.source[j] IN
  /\ rig.appendsR[j] => st.appR[j] = Pow(LocalOf(rig, st, src).r, rig.ratio[j])
  /\ rig.appendsT[j] => st.appT[j] = rig.ratio[j] * (LocalOf(rig, st, src).t - rig.rest[src])

\* The joints visited come before those to visit, and what they appended stands.
AppendInv ==
  pc = "pass" /\ call.op \in {"evaluate", "resume"} =>
    /\ call.held = {} /\ todo \subseteq Scope
    /\ \A v \in Scope \ todo : \A j \in todo : Before(rig, v, j)
    /\ \A v \in Scope \ todo : SettlesAt(v) => TotalTaken(v)

\* The order is asymmetric: it compares four integers one after the other.
LEMMA BeforeIsAsymmetric ==
  ASSUME TypeOK, NEW i \in Joints, NEW j \in Joints, Before(rig, i, j)
  PROVE  ~Before(rig, j, i)
<1> DEFINE A(x) == IF rig.after[x] THEN 1 ELSE 0
           key(x) == <<A(x), rig.layer[x], rig.index[x], x>>
           First(x, y) ==
             \/ A(x) < A(y)
             \/ A(x) = A(y) /\ rig.layer[x] < rig.layer[y]
             \/ A(x) = A(y) /\ rig.layer[x] = rig.layer[y] /\ rig.index[x] < rig.index[y]
             \/ A(x) = A(y) /\ rig.layer[x] = rig.layer[y] /\ rig.index[x] = rig.index[y] /\ x < y
<1>1. ASSUME NEW x \in Joints PROVE A(x) \in Int /\ rig.layer[x] \in Int /\ rig.index[x] \in Int /\ x \in Int
  BY JointsAssumption DEF TypeOK, Rigs
<1>2. ASSUME NEW x \in Joints, NEW y \in Joints, Before(rig, x, y) PROVE First(x, y)
  <2>1. PICK k \in 1..4 : key(x)[k] < key(y)[k] /\ \A l \in 1..(k - 1) : key(x)[l] = key(y)[l]
    BY <1>2 DEF Before
  <2>2. \A z \in Joints : /\ key(z)[1] = A(z) /\ key(z)[2] = rig.layer[z]
                         /\ key(z)[3] = rig.index[z] /\ key(z)[4] = z
    OBVIOUS
  <2> HIDE DEF key, A
  <2>3. CASE k = 1
    BY <2>1, <2>2, <2>3
  <2>4. CASE k = 2
    <3>1. 1 \in 1..(k - 1)
      BY <2>4
    <3> QED BY <2>1, <2>2, <2>4, <3>1
  <2>5. CASE k = 3
    <3>1. 1 \in 1..(k - 1) /\ 2 \in 1..(k - 1)
      BY <2>5
    <3> QED BY <2>1, <2>2, <2>5, <3>1
  <2>6. CASE k = 4
    <3>1. 1 \in 1..(k - 1) /\ 2 \in 1..(k - 1) /\ 3 \in 1..(k - 1)
      BY <2>6
    <3> QED BY <2>1, <2>2, <2>6, <3>1
  <2> QED BY <2>1, <2>3, <2>4, <2>5, <2>6
<1>3. First(i, j) /\ (Before(rig, j, i) => First(j, i))
  BY <1>2
<1> HIDE DEF A
<1> QED BY <1>1, <1>3

\* What a visited joint appends.
LEMMA VisitedTakes ==
  ASSUME TypeOK, RatiosOK, NEW j \in Joints, rig.source[j] # None, j \notin call.held
  PROVE  Visited(st, j).appR[j] = TakenR(st, j) /\ Visited(st, j).appT[j] = TakenT(st, j)
<1> DEFINE t == Appended(st, j, call.held)
<1>1. st \in States /\ t \in States
  BY AppendedType DEF TypeOK
<1>2. t.appR[j] = TakenR(st, j) /\ t.appT[j] = TakenT(st, j)
  <2>1. t = [st EXCEPT !.appR[j] = TakenR(st, j), !.appT[j] = TakenT(st, j)]
    BY DEF Appended
  <2> QED BY <1>1, <2>1 DEF States
<1>3. CASE HasChain(j) /\ j \in enabled
  <2>1. Visited(st, j) = Solved(t, j)
    BY <1>3 DEF Visited
  <2> HIDE DEF t
  <2>2. Solved(t, j).appT = t.appT /\ Solved(t, j).appR = t.appR
    BY <1>1, SolvedType
  <2> QED BY <1>2, <2>1, <2>2
<1>4. CASE ~(HasChain(j) /\ j \in enabled)
  BY <1>2, <1>4 DEF Visited
<1> QED BY <1>3, <1>4

LEMMA VisitSettles ==
  ASSUME TypeInv, AppendInv, Visit, call.op \in {"evaluate", "resume"}
  PROVE  AppendInv'
<1> USE DEF TypeInv
<1>1. PICK j \in todo : IsNext(j) /\ st' = Visited(st, j) /\ todo' = todo \ {j}
  BY DEF Visit
<1>2. /\ pc = "pass" /\ UNCHANGED <<rig, call, enabled>>
      /\ j \in Joints /\ call.held = {} /\ todo \subseteq Scope /\ Scope \subseteq Joints
  BY <1>1 DEF Visit, TypeOK, AppendInv, Scope, AfterBarrier
<1>3. /\ st'.a = st.a /\ st'.rho = st.rho
      /\ \A i \in Joints : i # j => st'.appT[i] = st.appT[i] /\ st'.appR[i] = st.appR[i]
      /\ \A i \in Joints : ~(j \in enabled /\ i \in rig.chain[j].links) => st'.ik[i] = st.ik[i]
  BY <1>1, <1>2, VisitedType
<1>4. Scope' = Scope /\ \A v : SettlesAt(v)' = SettlesAt(v)
  BY <1>2 DEF Scope, AfterBarrier, SettlesAt, Before
<1>5. ASSUME NEW v \in Scope \ todo', NEW k \in todo' PROVE Before(rig, v, k)
  <2>1. CASE v = j
    BY <2>1, <1>1 DEF IsNext
  <2>2. CASE v # j
    BY <2>2, <1>1, <1>2 DEF AppendInv
  <2> QED BY <2>1, <2>2
<1>6. ASSUME NEW v \in Scope \ todo', SettlesAt(v)
      PROVE  LET src == rig.source[v] IN
             /\ src \in Joints /\ src # j /\ LocalOf(rig, st', src) = LocalOf(rig, st, src)
  <2> DEFINE src == rig.source[v]
  <2>1. v \in Joints /\ src \in Joints /\ Before(rig, src, v)
    BY <1>2, <1>6 DEF SettlesAt, TypeOK, Rigs
  <2>2. ~Before(rig, j, v)
    <3>1. CASE v = j
      BY <3>1, <1>2, BeforeIsAsymmetric
    <3>2. CASE v # j
      <4>1. Before(rig, v, j)
        BY <3>2, <1>1, <1>2 DEF AppendInv
      <4> QED BY <4>1, <2>1, <1>2, BeforeIsAsymmetric
    <3> QED BY <3>1, <3>2
  <2>3. src # j
    BY <2>1, <2>2
  <2>4. ~(j \in enabled /\ src \in rig.chain[j].links)
    BY <2>2, <1>6 DEF SettlesAt
  <2>5. st'.ik[src] = st.ik[src] /\ st'.appT[src] = st.appT[src] /\ st'.appR[src] = st.appR[src]
    BY <2>1, <2>3, <2>4, <1>3
  <2> QED BY <2>1, <2>3, <2>5, <1>3 DEF LocalOf
<1>7. ASSUME NEW v \in Scope \ todo', SettlesAt(v) PROVE TotalTaken(v)'
  <2> DEFINE src == rig.source[v]
  <2>1. src \in Joints /\ src # j /\ LocalOf(rig, st', src) = LocalOf(rig, st, src)
    BY <1>6, <1>7
  <2>2. CASE v # j
    <3>1. TotalTaken(v) /\ v \in Joints
      BY <2>2, <1>1, <1>2, <1>7 DEF AppendInv
    <3>2. st'.appT[v] = st.appT[v] /\ st'.appR[v] = st.appR[v]
      BY <2>2, <3>1, <1>3
    <3> QED BY <3>1, <3>2, <2>1, <1>2 DEF TotalTaken
  <2>3. CASE v = j
    <3>1. st'.appR[j] = TakenR(st, j) /\ st'.appT[j] = TakenT(st, j)
      BY <2>3, <1>1, <1>2, <1>7, VisitedTakes DEF SettlesAt
    <3>2. rig.appendsR[j] => st'.appR[j] = Pow(LocalOf(rig, st, src).r, rig.ratio[j])
      BY <2>3, <3>1 DEF TakenR, AppendR, LocalOf
    <3>3. rig.appendsT[j] => st'.appT[j] = rig.ratio[j] * (LocalOf(rig, st, src).t - rig.rest[src])
      <4>1. st.a[src] \in Int /\ st.appT[src] \in Int /\ rig.rest[src] \in Int
        BY <2>1 DEF TypeOK, Rigs, States
      <4>2. (rig.rest[src] + st.a[src] + st.appT[src]) - rig.rest[src] = st.a[src] + st.appT[src]
        BY <4>1
      <4>3. LocalOf(rig, st, src).t - rig.rest[src] = st.a[src] + st.appT[src]
        BY <4>2 DEF LocalOf
      <4> QED BY <2>3, <3>1, <4>3 DEF TakenT, AppendT
    <3> QED BY <3>2, <3>3, <2>1, <2>3, <1>2 DEF TotalTaken
  <2> QED BY <2>2, <2>3
<1>8. todo' \subseteq Scope /\ call'.held = {}
  BY <1>1, <1>2
<1>9. \A v \in Scope \ todo' : \A k \in todo' : Before(rig, v, k)'
  BY <1>2, <1>5 DEF Before
<1> QED BY <1>4, <1>7, <1>8, <1>9 DEF AppendInv

LEMMA AppendNext == TypeInv /\ AppendInv /\ [Next]_vars => AppendInv'
<1> SUFFICES ASSUME TypeInv, AppendInv, [Next]_vars, pc' = "pass", call'.op \in {"evaluate", "resume"}
             PROVE  AppendInv'
  BY DEF AppendInv
<1> USE DEF TypeInv
<1>1. CASE \/ \E e \in Evaluators, m \in Motions : Evaluate(e, m)
           \/ \E e \in Evaluators, s \in Slots, f \in Feedbacks : ResumePhysics(e, s, f)
  <2>1. call'.held = {} /\ todo' = Scope'
    BY <1>1 DEF Evaluate, ResumePhysics, Start, Call, Scope, AfterBarrier
  <2> QED BY <2>1 DEF AppendInv
<1>2. CASE Visit
  BY <1>2, VisitSettles DEF Visit
<1>3. CASE \E e \in Evaluators, s \in Slots, m \in Motions : BeginPhysics(e, s, m)
  BY <1>3 DEF BeginPhysics, Start, Call
<1>4. CASE \E e \in Evaluators, g \in Givens, h \in SUBSET Joints : Complete(e, g, h)
  BY <1>4 DEF Complete, Start, Call
<1>5. CASE \E e \in Evaluators, s \in Slots, f \in Feedbacks : RefuseResume(e, s, f)
  BY <1>5 DEF RefuseResume
<1>6. CASE Return
  BY <1>6 DEF Return
<1>7. CASE UNCHANGED vars
  <2>1. UNCHANGED <<rig, pc, call, todo, enabled, st>>
    BY <1>7 DEF vars
  <2> QED BY <2>1 DEF AppendInv, Scope, AfterBarrier, SettlesAt, TotalTaken, LocalOf, Before
<1> QED BY <1>1, <1>2, <1>3, <1>4, <1>5, <1>6, <1>7 DEF Next

LEMMA AppendImplied == TypeInv /\ AppendInv => AppendsSettled
<1> SUFFICES ASSUME TypeInv, AppendInv, pc = "pass", todo = {}, call.op \in {"evaluate", "resume"},
                    NEW j \in Joints, rig.source[j] # None, call.op = "resume" => rig.after[j],
                    Before(rig, rig.source[j], j),
                    \A g \in enabled : rig.source[j] \in rig.chain[g].links => Before(rig, g, j)
             PROVE  TotalTaken(j)
  BY DEF AppendsSettled, TotalTaken
<1>1. j \in Scope \ todo /\ SettlesAt(j)
  BY DEF Scope, AfterBarrier, SettlesAt
<1> QED BY <1>1 DEF AppendInv

\* Whatever the rig, the motion and the feedback, the append of a joint a call
\* visited is its source's final total at the joint's ratio.
THEOREM AppendsAreSettled == Spec => []AppendsSettled
<1>1. Init => AppendInv
  BY DEF Init, AppendInv
<1> QED
  BY <1>1, TypeInit, TypeNext, AppendNext, AppendImplied, PTL DEF Spec

-----------------------------------------------------------------------------
(* The pass as a relation between its points *)

\* A point of a pass: the joints to visit and the state so far.
Points == [todo : SUBSET Joints, st : States]
Point(T, s) == [todo |-> T, st |-> s]

IsFirst(T, j) == j \in T /\ \A i \in T \ {j} : Before(rig, j, i)
HasFirst(T) == \E j \in Joints : IsFirst(T, j)
First(T) == CHOOSE j \in Joints : IsFirst(T, j)

\* A visit with the chains of E enabled and the joints of H held.
VisitOf(E, H, s, j) ==
  LET t == Appended(s, j, H)
  IN  IF HasChain(j) /\ j \in E THEN Solved(t, j) ELSE t

After(E, H, p) == Point(p.todo \ {First(p.todo)}, VisitOf(E, H, p.st, First(p.todo)))

\* The pass leads from p to q: q is in every set of points that has p and, with
\* a point that has a joint to visit first, the point after that visit.
Follow(E, H, P) == \A p \in P : HasFirst(p.todo) => After(E, H, p) \in P
Leads(E, H, p, q) == \A P \in SUBSET Points : p \in P /\ Follow(E, H, P) => q \in P

LEMMA FirstIsUnique ==
  ASSUME TypeOK, NEW T \in SUBSET Joints, NEW j \in T, IsFirst(T, j)
  PROVE  HasFirst(T) /\ First(T) = j
<1>1. j \in Joints /\ HasFirst(T)
  BY DEF HasFirst
<1>2. ASSUME NEW i \in Joints, IsFirst(T, i) PROVE i = j
  <2>1. SUFFICES ASSUME i # j PROVE FALSE
    OBVIOUS
  <2>2. Before(rig, i, j) /\ Before(rig, j, i)
    BY <1>2, <2>1 DEF IsFirst
  <2> QED BY <1>1, <2>2, BeforeIsAsymmetric
<1> QED BY <1>1, <1>2 DEF First

LEMMA FirstIsFirst ==
  ASSUME NEW T, HasFirst(T)
  PROVE  First(T) \in T /\ First(T) \in Joints /\ IsFirst(T, First(T))
<1>1. First(T) \in Joints /\ IsFirst(T, First(T))
  BY DEF HasFirst, First
<1> QED BY <1>1 DEF IsFirst

LEMMA VisitOfType ==
  ASSUME TypeOK, RatiosOK, NEW s \in States, NEW j \in Joints, NEW E, NEW H
  PROVE  VisitOf(E, H, s, j) \in States
<1> DEFINE t == Appended(s, j, H)
<1>1. t \in States
  BY AppendedType
<1> HIDE DEF t
<1>2. Solved(t, j) \in States
  BY <1>1, SolvedType
<1> QED BY <1>1, <1>2 DEF VisitOf, t

LEMMA AfterIsPoint ==
  ASSUME TypeOK, RatiosOK, NEW E, NEW H, NEW p \in Points, HasFirst(p.todo)
  PROVE  After(E, H, p) \in Points
<1>1. p.todo \in SUBSET Joints /\ p.st \in States
  BY DEF Points
<1>2. First(p.todo) \in Joints
  BY FirstIsFirst
<1>3. VisitOf(E, H, p.st, First(p.todo)) \in States
  BY <1>1, <1>2, VisitOfType
<1> QED BY <1>1, <1>3 DEF After, Point, Points

LEMMA LeadsSelf ==
  ASSUME NEW E, NEW H, NEW p
  PROVE  Leads(E, H, p, p)
  BY DEF Leads

LEMMA LeadsOn ==
  ASSUME NEW E, NEW H, NEW p, NEW q, Leads(E, H, p, q), HasFirst(q.todo)
  PROVE  Leads(E, H, p, After(E, H, q))
  BY DEF Leads, Follow

LEMMA LeadsThrough ==
  ASSUME NEW E, NEW H, NEW p, NEW q, NEW o, Leads(E, H, p, q), Leads(E, H, q, o)
  PROVE  Leads(E, H, p, o)
  BY DEF Leads

\* A pass has one end.
LEMMA OneEnd ==
  ASSUME TypeOK, RatiosOK, NEW E, NEW H, NEW p \in Points,
         NEW u \in States, NEW v \in States,
         Leads(E, H, p, Point({}, u)), Leads(E, H, p, Point({}, v))
  PROVE  u = v
<1> DEFINE d == Point({}, u)
           e == Point({}, v)
           P == {x \in Points : Leads(E, H, x, d)}
<1>1. d \in Points /\ e \in Points /\ d.todo = {} /\ e.todo = {} /\ d.st = u /\ e.st = v
  BY DEF Points, Point
<1>2. ~HasFirst({})
  BY DEF HasFirst, IsFirst
<1> HIDE DEF d, e
<1>3. ASSUME NEW x \in P, HasFirst(x.todo) PROVE After(E, H, x) \in P
  <2> DEFINE y == After(E, H, x)
             Q == {x} \cup {z \in Points : Leads(E, H, y, z)}
  <2>1. x \in Points /\ Leads(E, H, x, d)
    BY <1>3
  <2>2. y \in Points
    BY <1>3, <2>1, AfterIsPoint
  <2>3. Leads(E, H, y, y)
    BY LeadsSelf
  <2>4. ASSUME NEW z \in Q, HasFirst(z.todo) PROVE After(E, H, z) \in Q
    <3>1. CASE z = x
      BY <2>2, <2>3, <3>1
    <3>2. CASE z # x
      <4>1. z \in Points /\ Leads(E, H, y, z)
        BY <2>4, <3>2
      <4> HIDE DEF y
      <4>2. After(E, H, z) \in Points /\ Leads(E, H, y, After(E, H, z))
        BY <2>4, <4>1, AfterIsPoint, LeadsOn
      <4> QED BY <4>2
    <3> QED BY <3>1, <3>2
  <2>5. Q \in SUBSET Points /\ x \in Q
    BY <2>1
  <2> HIDE DEF Q
  <2>6. d \in Q
    BY <2>1, <2>4, <2>5 DEF Leads, Follow
  <2>7. d # x
    BY <1>1, <1>2, <1>3
  <2>8. Leads(E, H, y, d)
    BY <2>6, <2>7 DEF Q
  <2> QED BY <2>2, <2>8
<1>4. e \in P
  <2>1. P \in SUBSET Points /\ p \in P /\ Follow(E, H, P)
    <3>1. p \in P
      BY DEF d
    <3> HIDE DEF P
    <3>2. Follow(E, H, P)
      BY <1>3 DEF Follow
    <3> QED BY <3>1, <3>2 DEF P
  <2> HIDE DEF P
  <2>2. Leads(E, H, p, e)
    BY DEF e
  <2> QED BY <2>1, <2>2 DEF Leads
<1>5. d \in {e}
  <2>1. Leads(E, H, e, d)
    BY <1>4
  <2>2. Follow(E, H, {e}) /\ {e} \in SUBSET Points /\ e \in {e}
    BY <1>1, <1>2 DEF Follow
  <2> QED BY <2>1, <2>2 DEF Leads
<1> QED BY <1>1, <1>5

Pre == {j \in Joints : ~rig.after[j]}

\* The barrier comes between two visits of the whole pass.
LEMMA BarrierIsBetween ==
  ASSUME TypeOK, RatiosOK, NEW E, NEW H, NEW s \in States, NEW u \in States,
         Leads(E, H, Point(Pre, s), Point({}, u))
  PROVE  Leads(E, H, Point(Joints, s), Point(AfterBarrier(rig), u))
<1> DEFINE Post == AfterBarrier(rig)
           P == {p \in Points : /\ p.todo \subseteq Pre
                                /\ Leads(E, H, Point(Joints, s), Point(p.todo \cup Post, p.st))}
<1>1. Pre \in SUBSET Joints /\ Post \in SUBSET Joints /\ Pre \cup Post = Joints /\ Pre \cap Post = {}
  BY DEF Pre, AfterBarrier
<1>2. ASSUME NEW i \in Pre, NEW j \in Post PROVE Before(rig, i, j)
  <2> DEFINE key(x) == <<IF rig.after[x] THEN 1 ELSE 0, rig.layer[x], rig.index[x], x>>
  <2>1. key(i)[1] = 0 /\ key(j)[1] = 1
    BY <1>2 DEF Pre, AfterBarrier
  <2>2. 1 \in 1..4 /\ key(i)[1] < key(j)[1] /\ \A l \in 1..(1 - 1) : key(i)[l] = key(j)[l]
    BY <2>1
  <2> QED BY <2>2 DEF Before
<1>3. Point(Pre, s) \in P
  <2>1. Point(Pre, s) \in Points /\ Point(Pre, s).todo = Pre /\ Point(Pre, s).st = s
    BY <1>1 DEF Points, Point
  <2>2. Leads(E, H, Point(Joints, s), Point(Joints, s))
    BY LeadsSelf
  <2> QED BY <1>1, <2>1, <2>2
<1>4. ASSUME NEW p \in P, HasFirst(p.todo) PROVE After(E, H, p) \in P
  <2> DEFINE T == p.todo
             j == First(T)
             q == Point(T \cup Post, p.st)
  <2>1. p \in Points /\ T \subseteq Pre /\ Leads(E, H, Point(Joints, s), q)
    BY <1>4
  <2>2. j \in T /\ j \in Joints /\ IsFirst(T, j)
    BY <1>4, FirstIsFirst
  <2>3. IsFirst(T \cup Post, j)
    BY <1>2, <2>1, <2>2 DEF IsFirst
  <2>4. HasFirst(T \cup Post) /\ First(T \cup Post) = j
    <3>1. T \cup Post \in SUBSET Joints /\ j \in T \cup Post
      BY <1>1, <2>1, <2>2
    <3> HIDE DEF j, T, Post
    <3> QED BY <2>3, <3>1, FirstIsUnique
  <2>5. q.todo = T \cup Post /\ q.st = p.st
    BY DEF Point
  <2>6. (T \cup Post) \ {j} = (T \ {j}) \cup Post
    BY <1>1, <2>1, <2>2
  <2>7. After(E, H, q) = Point((T \ {j}) \cup Post, VisitOf(E, H, p.st, j))
    <3> HIDE DEF q, j, T, Post
    <3> QED BY <2>4, <2>5, <2>6 DEF After
  <2>8. Leads(E, H, Point(Joints, s), After(E, H, q))
    <3> HIDE DEF q, T, Post
    <3> QED BY <2>1, <2>4, <2>5, LeadsOn
  <2>9. After(E, H, p).todo = T \ {j} /\ After(E, H, p).st = VisitOf(E, H, p.st, j)
    BY DEF After, Point
  <2>10. After(E, H, p) \in Points
    BY <1>4, <2>1, AfterIsPoint
  <2>11. T \ {j} \subseteq Pre
    BY <2>1
  <2> HIDE DEF q, j, T, Post
  <2> QED BY <2>7, <2>8, <2>9, <2>10, <2>11
<1>5. Point({}, u) \in P
  <2>1. P \in SUBSET Points
    OBVIOUS
  <2> HIDE DEF P
  <2> QED BY <1>3, <1>4, <2>1 DEF Leads, Follow
<1>6. Point({}, u).todo = {} /\ Point({}, u).st = u
  BY DEF Point
<1> QED BY <1>5, <1>6

-----------------------------------------------------------------------------
(* What a call computes, and the agreements between calls *)

Moved(m) == MotionState(m.a, m.rho)

\* The chains a call enables.
ChainsOf(c) == IF c.op = "complete" THEN ClearChains(rig, c.held) ELSE c.motion.enabled

\* The pass of call c comes to the point q.  A resume starts from where the
\* joints before the barrier end, reconciled with what it was fed.
ComesEvaluating(c, q) == Leads(ChainsOf(c), c.held, Point(Joints, Moved(c.motion)), q)
ComesBeginning(c, q) == Leads(ChainsOf(c), c.held, Point(Pre, Moved(c.motion)), q)
ComesResuming(c, q) ==
  \E v \in States :
    /\ Leads(ChainsOf(c), c.held, Point(Pre, Moved(c.motion)), Point({}, v))
    /\ Leads(ChainsOf(c), c.held, Point(AfterBarrier(rig), Reconciled(rig, v, c.fed)), q)
ComesCompleting(c, q) == Leads(ChainsOf(c), c.held, Point(Joints, GivenMotion(rig, c.given)), q)

Comes(c, q) ==
  /\ c.op = "evaluate" => ComesEvaluating(c, q)
  /\ c.op = "begin" => ComesBeginning(c, q)
  /\ c.op = "resume" => ComesResuming(c, q)
  /\ c.op = "complete" => ComesCompleting(c, q)

\* What a motion or a pose hands to a call.
Given(c) ==
  /\ c.op # "complete" => c.motion \in Motions /\ c.held = {}
  /\ c.op = "complete" => c.given \in Givens
  /\ c.op = "resume" => c.fed \in Feedbacks

\* A snapshot is where the joints before the barrier ended for its motion.
SnapshotIs(c) ==
  /\ c.motion \in Motions /\ c.enabled = c.motion.enabled /\ c.st \in States
  /\ Leads(c.enabled, {}, Point(Pre, Moved(c.motion)), Point({}, c.st))

\* A returned pose is that of a state the pass of its call ended in.
ResultIs(x) ==
  /\ x.call.op \in {"evaluate", "resume", "complete"} /\ x.call.held = {} /\ Given(x.call)
  /\ x.carried = IF x.call.op = "complete" THEN None ELSE x.call.motion.carried
  /\ \E u \in States : Comes(x.call, Point({}, u)) /\ x.pose = PoseOf(rig, u)

RunInv ==
  /\ pc = "pass" => Given(call) /\ enabled = ChainsOf(call) /\ Comes(call, Point(todo, st))
  /\ \A s \in Slots : slots[s] # None => SnapshotIs(slots[s])
  /\ \A x \in log : ResultIs(x)

\* Nothing but the rig decides where a pass leads.
LEMMA LeadsStays ==
  ASSUME rig' = rig
  PROVE  \A E, H, p, q : Leads(E, H, p, q)' <=> Leads(E, H, p, q)
<1>1. \A i, j : Before(rig, i, j)' <=> Before(rig, i, j)
  BY DEF Before
<1>2. \A T, j : IsFirst(T, j)' <=> IsFirst(T, j)
  BY <1>1 DEF IsFirst
<1>3. \A T : HasFirst(T)' <=> HasFirst(T)
  BY <1>2 DEF HasFirst
<1>4. \A T : First(T)' = First(T)
  BY <1>2 DEF First
<1>5. \A s, j, H : Appended(s, j, H)' = Appended(s, j, H)
  BY DEF Appended, TakenR, TakenT
<1>6. \A g, l, p, m : Turn(g, l, p, m)' = Turn(g, l, p, m)
  BY DEF Turn
<1>7. \A s : PoseOf(rig, s)' = PoseOf(rig, s)
  BY DEF PoseOf, LocalOf
<1>8. \A s, g : Solved(s, g)' = Solved(s, g)
  <2> TAKE s, g
  <2> DEFINE links == rig.chain[g].links
             reset == [s EXCEPT !.ik = [l \in Joints |-> IF l \in links THEN Id ELSE s.ik[l]]]
             keyed == PoseOf(rig, reset)
             turned == [l \in Joints |-> IF l \in links THEN Turn(g, l, keyed, s.rho) ELSE reset.ik[l]]
  <2>1. links' = links /\ reset' = reset
    OBVIOUS
  <2>2. keyed' = keyed
    BY <2>1 DEF PoseOf, LocalOf
  <2> HIDE DEF links, reset, keyed
  <2>3. \A l : Turn(g, l, keyed, s.rho)' = Turn(g, l, keyed, s.rho)
    BY <1>6, <2>2
  <2>4. turned' = turned
    BY <2>1, <2>3
  <2> HIDE DEF turned
  <2>5. [reset EXCEPT !.ik = turned]' = [reset EXCEPT !.ik = turned]
    BY <2>1, <2>4
  <2>6. Solved(s, g) = [reset EXCEPT !.ik = turned]
    BY DEF Solved, links, reset, keyed, turned
  <2>7. Solved(s, g)' = [reset EXCEPT !.ik = turned]'
    BY DEF Solved, links, reset, keyed, turned
  <2> QED BY <2>5, <2>6, <2>7
<1>9. \A j : HasChain(j)' <=> HasChain(j)
  BY DEF HasChain
<1>10. \A E, H, s, j : VisitOf(E, H, s, j)' = VisitOf(E, H, s, j)
  BY <1>5, <1>8, <1>9 DEF VisitOf
<1>11. \A E, H, p : After(E, H, p)' = After(E, H, p)
  BY <1>4, <1>10 DEF After
<1>12. \A E, H, P : Follow(E, H, P)' <=> Follow(E, H, P)
  BY <1>3, <1>11 DEF Follow
<1> QED BY <1>12 DEF Leads

LEMMA ComesStays ==
  ASSUME rig' = rig
  PROVE  /\ \A c : ChainsOf(c)' = ChainsOf(c)
         /\ \A c, q : Comes(c, q)' <=> Comes(c, q)
<1>1. \A E, H, p, q : Leads(E, H, p, q)' <=> Leads(E, H, p, q)
  BY LeadsStays
<1>2. \A c : ChainsOf(c)' = ChainsOf(c)
  BY DEF ChainsOf
<1>3. Pre' = Pre /\ AfterBarrier(rig)' = AfterBarrier(rig)
  BY DEF Pre
<1>4. \A c, q : ComesEvaluating(c, q)' <=> ComesEvaluating(c, q)
  BY <1>1, <1>2 DEF ComesEvaluating
<1>5. \A c, q : ComesBeginning(c, q)' <=> ComesBeginning(c, q)
  BY <1>1, <1>2, <1>3 DEF ComesBeginning
<1>6. \A c, q : ComesResuming(c, q)' <=> ComesResuming(c, q)
  BY <1>1, <1>2, <1>3 DEF ComesResuming
<1>7. \A c, q : ComesCompleting(c, q)' <=> ComesCompleting(c, q)
  BY <1>1, <1>2 DEF ComesCompleting
<1>8. \A c, q : Comes(c, q)' <=> Comes(c, q)
  BY <1>4, <1>5, <1>6, <1>7 DEF Comes
<1> QED BY <1>2, <1>8

LEMMA HistoryStays ==
  ASSUME rig' = rig
  PROVE  /\ \A c : SnapshotIs(c)' <=> SnapshotIs(c)
         /\ \A x : ResultIs(x)' <=> ResultIs(x)
<1>1. \A E, H, p, q : Leads(E, H, p, q)' <=> Leads(E, H, p, q)
  BY LeadsStays
<1>2. \A c, q : Comes(c, q)' <=> Comes(c, q)
  BY ComesStays
<1>3. Pre' = Pre
  BY DEF Pre
<1>4. \A s : PoseOf(rig, s)' = PoseOf(rig, s)
  BY DEF PoseOf, LocalOf
<1>5. \A c : SnapshotIs(c)' <=> SnapshotIs(c)
  BY <1>1, <1>3 DEF SnapshotIs
<1>6. \A x : ResultIs(x)' <=> ResultIs(x)
  BY <1>2, <1>4 DEF ResultIs
<1> QED BY <1>5, <1>6

\* One step of the pass.
LEMMA OneVisit ==
  ASSUME TypeOK, RatiosOK, Visit
  PROVE  HasFirst(todo) /\ Point(todo', st') = After(enabled, call.held, Point(todo, st))
<1>1. PICK j \in todo : IsNext(j) /\ st' = Visited(st, j) /\ todo' = todo \ {j}
  BY DEF Visit
<1>2. IsFirst(todo, j) /\ todo \in SUBSET Joints
  BY <1>1 DEF IsFirst, IsNext, TypeOK
<1>3. HasFirst(todo) /\ First(todo) = j
  BY <1>2, FirstIsUnique
<1>4. Visited(st, j) = VisitOf(enabled, call.held, st, j)
  BY DEF Visited, VisitOf
<1>5. Point(todo, st).todo = todo /\ Point(todo, st).st = st
  BY DEF Point
<1> QED BY <1>1, <1>3, <1>4, <1>5 DEF After

LEMMA ComesOn ==
  ASSUME NEW c, NEW q, Comes(c, q), HasFirst(q.todo)
  PROVE  Comes(c, After(ChainsOf(c), c.held, q))
<1>1. \A p : Leads(ChainsOf(c), c.held, p, q) => Leads(ChainsOf(c), c.held, p, After(ChainsOf(c), c.held, q))
  BY LeadsOn
<1> QED BY <1>1 DEF Comes, ComesEvaluating, ComesBeginning, ComesResuming, ComesCompleting

LEMMA RunInit == Init => RunInv
  BY DEF Init, RunInv

\* A call that starts, with what it comes from.
LEMMA RunStart ==
  ASSUME RunInv, rig' = rig, UNCHANGED <<slots, log>>,
         Given(call)', enabled' = ChainsOf(call'), Comes(call', Point(todo', st'))
  PROVE  RunInv'
<1>1. /\ \A c : ChainsOf(c)' = ChainsOf(c)
      /\ \A c, q : Comes(c, q)' <=> Comes(c, q)
  BY ComesStays
<1>2. /\ \A c : SnapshotIs(c)' <=> SnapshotIs(c)
      /\ \A x : ResultIs(x)' <=> ResultIs(x)
  BY HistoryStays
<1>3. (Given(call) /\ enabled = ChainsOf(call) /\ Comes(call, Point(todo, st)))'
  BY <1>1
<1>4. (\A s \in Slots : slots[s] # None => SnapshotIs(slots[s]))'
  BY <1>2 DEF RunInv
<1>5. (\A x \in log : ResultIs(x))'
  BY <1>2 DEF RunInv
<1> QED BY <1>3, <1>4, <1>5 DEF RunInv

LEMMA RunVisit ==
  ASSUME TypeOK, RatiosOK, RunInv, Visit
  PROVE  RunInv'
<1>1. /\ pc = "pass" /\ rig' = rig /\ call' = call /\ enabled' = enabled
      /\ UNCHANGED <<slots, log>>
  BY DEF Visit
<1>2. Given(call) /\ enabled = ChainsOf(call) /\ Comes(call, Point(todo, st))
  BY <1>1 DEF RunInv
<1> DEFINE q == Point(todo, st)
<1>3. HasFirst(q.todo) /\ Point(todo', st') = After(enabled, call.held, q)
  BY OneVisit DEF Point
<1> HIDE DEF q
<1>4. Comes(call, After(ChainsOf(call), call.held, q))
  BY <1>2, <1>3, ComesOn DEF q
<1>5. Comes(call', Point(todo', st'))
  BY <1>1, <1>2, <1>3, <1>4
<1>6. Given(call)'
  BY <1>1, <1>2 DEF Given
<1>7. enabled' = ChainsOf(call')
  BY <1>1, <1>2
<1> QED BY <1>1, <1>5, <1>6, <1>7, RunStart

LEMMA RunReturn ==
  ASSUME TypeOK, RunInv, Return
  PROVE  RunInv'
<1>1. rig' = rig /\ pc = "pass" /\ todo = {} /\ pc' = "idle"
  BY DEF Return
<1>2. Given(call) /\ enabled = ChainsOf(call) /\ Comes(call, Point({}, st)) /\ st \in States
  BY <1>1 DEF RunInv, TypeOK
<1>3. /\ \A c : SnapshotIs(c)' <=> SnapshotIs(c)
      /\ \A x : ResultIs(x)' <=> ResultIs(x)
  BY <1>1, HistoryStays
<1>4. ASSUME NEW s \in Slots, slots'[s] # None PROVE SnapshotIs(slots'[s])
  <2>1. CASE slots'[s] = slots[s]
    BY <1>4, <2>1 DEF RunInv
  <2>2. CASE slots'[s] # slots[s]
    <3>1. /\ call.op = "begin"
          /\ slots'[s] = [owner |-> call.self, motion |-> call.motion, enabled |-> enabled, st |-> st]
      BY <2>2 DEF Return, TypeOK
    <3>2. call.motion \in Motions /\ call.held = {} /\ ChainsOf(call) = call.motion.enabled
      BY <1>2, <3>1 DEF Given, ChainsOf
    <3>3. Leads(enabled, {}, Point(Pre, Moved(call.motion)), Point({}, st))
      BY <1>2, <3>1, <3>2 DEF Comes, ComesBeginning
    <3> QED BY <1>2, <3>1, <3>2, <3>3 DEF SnapshotIs
  <2> QED BY <2>1, <2>2
<1>5. ASSUME NEW x \in log' PROVE ResultIs(x)
  <2>1. CASE x \in log
    BY <2>1 DEF RunInv
  <2>2. CASE x \notin log
    <3>1. /\ call.op # "begin" /\ call.held = {}
          /\ x = [call |-> call, pose |-> Written, carried |-> Carried]
      BY <1>5, <2>2 DEF Return
    <3>2. Written = PoseOf(rig, st)
      BY <3>1 DEF Written, PoseOf
    <3>3. call.op \in {"evaluate", "resume", "complete"}
      BY <3>1 DEF TypeOK, Ops
    <3>4. Carried = IF call.op = "complete" THEN None ELSE call.motion.carried
      BY DEF Carried
    <3>5. x.call = call /\ x.pose = PoseOf(rig, st) /\ x.carried = Carried
      BY <3>1, <3>2
    <3> QED BY <1>2, <3>1, <3>3, <3>4, <3>5 DEF ResultIs
  <2> QED BY <2>1, <2>2
<1>6. (\A s \in Slots : slots[s] # None => SnapshotIs(slots[s]))'
  BY <1>3, <1>4
<1>7. (\A x \in log : ResultIs(x))'
  BY <1>3, <1>5
<1> QED BY <1>1, <1>6, <1>7 DEF RunInv

LEMMA RunNext == TypeInv /\ RunInv /\ [Next]_vars => RunInv'
<1> SUFFICES ASSUME TypeInv, RunInv, [Next]_vars PROVE RunInv'
  OBVIOUS
<1> USE DEF TypeInv
<1>1. ASSUME NEW e \in Evaluators, NEW m \in Motions, Evaluate(e, m) PROVE RunInv'
  <2>1. /\ rig' = rig /\ slots' = slots /\ log' = log
        /\ call' = Call("evaluate", e, None, m, <<>>, Given0, {})
        /\ todo' = Joints /\ enabled' = m.enabled /\ st' = Moved(m)
    BY <1>1 DEF Evaluate, Start, Moved
  <2>2. call'.op = "evaluate" /\ call'.motion = m /\ call'.held = {}
    BY <2>1 DEF Call
  <2>3. Given(call)' /\ enabled' = ChainsOf(call')
    BY <2>1, <2>2 DEF Given, ChainsOf
  <2>4. Comes(call', Point(todo', st'))
    BY <2>1, <2>2, LeadsSelf DEF Comes, ComesEvaluating
  <2> QED BY <2>1, <2>3, <2>4, RunStart
<1>2. ASSUME NEW e \in Evaluators, NEW s \in Slots, NEW m \in Motions, BeginPhysics(e, s, m)
      PROVE RunInv'
  <2>1. /\ rig' = rig /\ slots' = slots /\ log' = log
        /\ call' = Call("begin", e, s, m, <<>>, Given0, {})
        /\ todo' = Pre /\ enabled' = m.enabled /\ st' = Moved(m)
    BY <1>2 DEF BeginPhysics, Start, Moved, Pre
  <2>2. call'.op = "begin" /\ call'.motion = m /\ call'.held = {}
    BY <2>1 DEF Call
  <2>3. Given(call)' /\ enabled' = ChainsOf(call')
    BY <2>1, <2>2 DEF Given, ChainsOf
  <2>4. Comes(call', Point(todo', st'))
    BY <2>1, <2>2, LeadsSelf DEF Comes, ComesBeginning
  <2> QED BY <2>1, <2>3, <2>4, RunStart
<1>3. ASSUME NEW e \in Evaluators, NEW s \in Slots, NEW f \in Feedbacks, ResumePhysics(e, s, f)
      PROVE RunInv'
  <2> DEFINE c == slots[s]
  <2>1. /\ rig' = rig /\ slots' = slots /\ log' = log /\ c # None
        /\ call' = Call("resume", e, s, c.motion, f, Given0, {})
        /\ todo' = AfterBarrier(rig) /\ enabled' = c.enabled /\ st' = Reconciled(rig, c.st, f)
    BY <1>3 DEF ResumePhysics, Start, Accepts
  <2>2. SnapshotIs(c)
    BY <2>1 DEF RunInv
  <2> HIDE DEF c
  <2>3. call'.op = "resume" /\ call'.motion = c.motion /\ call'.held = {} /\ call'.fed = f
    BY <2>1 DEF Call
  <2>4. Given(call)' /\ enabled' = ChainsOf(call') /\ ChainsOf(call') = c.enabled
    BY <2>1, <2>2, <2>3 DEF Given, ChainsOf, SnapshotIs
  <2>5. ComesResuming(call', Point(todo', st'))
    <3>1. c.st \in States /\ Leads(c.enabled, {}, Point(Pre, Moved(c.motion)), Point({}, c.st))
      BY <2>2 DEF SnapshotIs
    <3>2. Leads(c.enabled, {}, Point(todo', st'), Point(todo', st'))
      BY LeadsSelf
    <3> QED BY <2>1, <2>3, <2>4, <3>1, <3>2 DEF ComesResuming
  <2>6. Comes(call', Point(todo', st'))
    BY <2>3, <2>5 DEF Comes
  <2> QED BY <2>1, <2>4, <2>6, RunStart
<1>4. ASSUME NEW e \in Evaluators, NEW g \in Givens, NEW h \in SUBSET Joints, Complete(e, g, h)
      PROVE RunInv'
  <2>1. /\ rig' = rig /\ slots' = slots /\ log' = log
        /\ call' = Call("complete", e, None, None, <<>>, g, h)
        /\ todo' = Joints /\ enabled' = ClearChains(rig, h) /\ st' = GivenMotion(rig, g)
    BY <1>4 DEF Complete, Start
  <2>2. call'.op = "complete" /\ call'.given = g /\ call'.held = h
    BY <2>1 DEF Call
  <2>3. Given(call)' /\ enabled' = ChainsOf(call')
    BY <2>1, <2>2 DEF Given, ChainsOf
  <2>4. Comes(call', Point(todo', st'))
    BY <2>1, <2>2, LeadsSelf DEF Comes, ComesCompleting
  <2> QED BY <2>1, <2>3, <2>4, RunStart
<1>5. CASE Visit
  BY <1>5, RunVisit
<1>6. CASE Return
  BY <1>6, RunReturn
<1>7. CASE UNCHANGED <<rig, pc, call, todo, enabled, st, slots, log>>
  <2>1. /\ \A c : ChainsOf(c)' = ChainsOf(c)
        /\ \A c, q : Comes(c, q)' <=> Comes(c, q)
    BY <1>7, ComesStays
  <2>2. /\ \A c : SnapshotIs(c)' <=> SnapshotIs(c)
        /\ \A x : ResultIs(x)' <=> ResultIs(x)
    BY <1>7, HistoryStays
  <2>3. Given(call)' <=> Given(call)
    BY <1>7 DEF Given
  <2> QED BY <1>7, <2>1, <2>2, <2>3 DEF RunInv
<1>8. CASE \E e \in Evaluators, s \in Slots, f \in Feedbacks : RefuseResume(e, s, f)
  BY <1>7, <1>8 DEF RefuseResume
<1>9. CASE UNCHANGED vars
  BY <1>7, <1>9 DEF vars
<1> QED BY <1>1, <1>2, <1>3, <1>4, <1>5, <1>6, <1>8, <1>9 DEF Next

\* Reconciling no feedback changes nothing.
LEMMA ReconciledNothing ==
  ASSUME NEW s \in States
  PROVE  Reconciled(rig, s, <<>>) = s
<1>1. Fed(<<>>) = {}
  BY DEF Fed
<1> QED BY <1>1 DEF Reconciled, States

\* Where a call starts is a point.
LEMMA StartsArePoints ==
  ASSUME TypeOK, NEW m \in Motions
  PROVE  /\ Moved(m) \in States
         /\ Point(Joints, Moved(m)) \in Points /\ Point(Pre, Moved(m)) \in Points
<1>1. Moved(m) \in States
  BY MotionsAssumption, MotionStateType DEF Moved
<1> QED BY <1>1 DEF Point, Points, Pre

LEMMA EmptyFeedback ==
  ASSUME TypeInv, RunInv
  PROVE  EmptyFeedbackIsEvaluate
<1> SUFFICES ASSUME NEW x \in log, NEW y \in log,
                    x.call.op = "evaluate", y.call.op = "resume",
                    y.call.fed = <<>>, x.call.motion = y.call.motion
             PROVE  x.pose = y.pose /\ x.carried = y.carried
  BY DEF EmptyFeedbackIsEvaluate
<1> USE DEF TypeInv
<1> DEFINE m == x.call.motion
           E == m.enabled
<1>1. ResultIs(x) /\ ResultIs(y)
  BY DEF RunInv
<1>2. /\ m \in Motions /\ x.call.held = {} /\ y.call.held = {} /\ y.call.motion = m
      /\ ChainsOf(x.call) = E /\ ChainsOf(y.call) = E
  BY <1>1 DEF ResultIs, Given, ChainsOf
<1>3. x.carried = y.carried
  BY <1>1 DEF ResultIs
<1>4. PICK u \in States : Comes(x.call, Point({}, u)) /\ x.pose = PoseOf(rig, u)
  BY <1>1 DEF ResultIs
<1>5. PICK w \in States : Comes(y.call, Point({}, w)) /\ y.pose = PoseOf(rig, w)
  BY <1>1 DEF ResultIs
<1> HIDE DEF m, E
<1>6. Leads(E, {}, Point(Joints, Moved(m)), Point({}, u))
  BY <1>2, <1>4 DEF Comes, ComesEvaluating, m
<1>7. PICK v \in States :
        /\ Leads(E, {}, Point(Pre, Moved(m)), Point({}, v))
        /\ Leads(E, {}, Point(AfterBarrier(rig), Reconciled(rig, v, <<>>)), Point({}, w))
  BY <1>2, <1>5 DEF Comes, ComesResuming
<1>8. Moved(m) \in States /\ Point(Joints, Moved(m)) \in Points
  BY <1>2, StartsArePoints
<1>9. Leads(E, {}, Point(Joints, Moved(m)), Point(AfterBarrier(rig), v))
  BY <1>7, <1>8, BarrierIsBetween
<1>10. Leads(E, {}, Point(AfterBarrier(rig), v), Point({}, w))
  BY <1>7, ReconciledNothing
<1>11. Leads(E, {}, Point(Joints, Moved(m)), Point({}, w))
  BY <1>9, <1>10, LeadsThrough
<1>12. u = w
  BY <1>6, <1>8, <1>11, OneEnd
<1> QED BY <1>3, <1>4, <1>5, <1>12

LEMMA Repeatable ==
  ASSUME TypeInv, RunInv
  PROVE  ResumesAreRepeatable
<1> SUFFICES ASSUME NEW x \in log, NEW y \in log,
                    x.call.op = "resume", y.call.op = "resume",
                    x.call.motion = y.call.motion, x.call.fed = y.call.fed
             PROVE  x.pose = y.pose
  BY DEF ResumesAreRepeatable
<1> USE DEF TypeInv
<1> DEFINE m == x.call.motion
           f == x.call.fed
           E == m.enabled
           A == AfterBarrier(rig)
<1>1. ResultIs(x) /\ ResultIs(y)
  BY DEF RunInv
<1>2. /\ m \in Motions /\ f \in Feedbacks /\ x.call.held = {} /\ y.call.held = {}
      /\ y.call.motion = m /\ y.call.fed = f
      /\ ChainsOf(x.call) = E /\ ChainsOf(y.call) = E
  BY <1>1 DEF ResultIs, Given, ChainsOf
<1>3. PICK u \in States : Comes(x.call, Point({}, u)) /\ x.pose = PoseOf(rig, u)
  BY <1>1 DEF ResultIs
<1>4. PICK w \in States : Comes(y.call, Point({}, w)) /\ y.pose = PoseOf(rig, w)
  BY <1>1 DEF ResultIs
<1> HIDE DEF m, f, E
<1>5. PICK a \in States : /\ Leads(E, {}, Point(Pre, Moved(m)), Point({}, a))
                          /\ Leads(E, {}, Point(A, Reconciled(rig, a, f)), Point({}, u))
  BY <1>2, <1>3 DEF Comes, ComesResuming, m, f
<1>6. PICK b \in States : /\ Leads(E, {}, Point(Pre, Moved(m)), Point({}, b))
                          /\ Leads(E, {}, Point(A, Reconciled(rig, b, f)), Point({}, w))
  BY <1>2, <1>4 DEF Comes, ComesResuming
<1>7. Point(Pre, Moved(m)) \in Points
  BY <1>2, StartsArePoints
<1>8. a = b
  BY <1>5, <1>6, <1>7, OneEnd
<1>9. Point(A, Reconciled(rig, a, f)) \in Points
  <2>1. Reconciled(rig, a, f) \in States
    BY <1>2, ReconciledType
  <2> QED BY <2>1 DEF Point, Points, AfterBarrier
<1>10. u = w
  BY <1>5, <1>6, <1>8, <1>9, OneEnd
<1> QED BY <1>3, <1>4, <1>10

\* A pose that reaches every joint is the motion keyed at it.
LEMMA GivenIsMoved ==
  ASSUME TypeOK, NEW g \in Givens, NEW m \in Motions, g.reached = Joints, m.rho = g.r,
         \A j \in Joints : g.t[j] = rig.rest[j] + m.a[j]
  PROVE  GivenMotion(rig, g) = Moved(m)
<1> DEFINE a == [j \in Joints |-> IF j \in g.reached THEN g.t[j] - rig.rest[j] ELSE 0]
           rho == [j \in Joints |-> IF j \in g.reached THEN g.r[j] ELSE Id]
<1>1. m.a \in [Joints -> Int] /\ m.rho \in [Joints -> Rot] /\ rig.rest \in [Joints -> Int]
  BY MotionsAssumption DEF TypeOK, Rigs
<1>2. \A j \in Joints : g.t[j] - rig.rest[j] = m.a[j]
  BY <1>1
<1>3. a = m.a
  BY <1>1, <1>2
<1>4. rho = m.rho
  BY <1>1
<1>5. GivenMotion(rig, g) = MotionState(a, rho)
  BY DEF GivenMotion
<1> QED BY <1>3, <1>4, <1>5 DEF Moved

\* Where no joint is held every chain is clear.
LEMMA NothingHeld == ASSUME TypeOK PROVE ClearChains(rig, {}) = Joints
<1>1. Feeding(rig, {}, {}) /\ {} \in SUBSET Joints
  BY DEF Feeding
<1>2. Feeders(rig, {}) = {}
  BY <1>1 DEF Feeders
<1>3. FeedsHeld(rig, {}) = {}
  BY <1>1, <1>2, WalksMarkFeeders
<1> QED BY <1>3 DEF ClearChains

LEMMA Completes ==
  ASSUME TypeInv, RunInv
  PROVE  CompleteIsEvaluate
<1> SUFFICES ASSUME NEW x \in log, NEW y \in log,
                    x.call.op = "complete", y.call.op = "evaluate",
                    x.call.held = {}, x.call.given.reached = Joints,
                    y.call.motion.enabled = Joints, y.call.motion.rho = x.call.given.r,
                    \A j \in Joints : x.call.given.t[j] = rig.rest[j] + y.call.motion.a[j]
             PROVE  x.pose = y.pose
  BY DEF CompleteIsEvaluate
<1> USE DEF TypeInv
<1> DEFINE m == y.call.motion
           g == x.call.given
<1>1. ResultIs(x) /\ ResultIs(y)
  BY DEF RunInv
<1>2. m \in Motions /\ g \in Givens /\ y.call.held = {}
  BY <1>1 DEF ResultIs, Given
<1>3. ChainsOf(x.call) = Joints /\ ChainsOf(y.call) = Joints
  BY NothingHeld DEF ChainsOf
<1>4. GivenMotion(rig, g) = Moved(m)
  BY <1>2, GivenIsMoved
<1>5. PICK u \in States : Comes(x.call, Point({}, u)) /\ x.pose = PoseOf(rig, u)
  BY <1>1 DEF ResultIs
<1>6. PICK w \in States : Comes(y.call, Point({}, w)) /\ y.pose = PoseOf(rig, w)
  BY <1>1 DEF ResultIs
<1> HIDE DEF m
<1>7. Leads(Joints, {}, Point(Joints, Moved(m)), Point({}, u))
  BY <1>3, <1>4, <1>5 DEF Comes, ComesCompleting
<1>8. Leads(Joints, {}, Point(Joints, Moved(m)), Point({}, w))
  BY <1>2, <1>3, <1>6 DEF Comes, ComesEvaluating, m
<1>9. Point(Joints, Moved(m)) \in Points
  BY <1>2, StartsArePoints
<1>10. u = w
  BY <1>7, <1>8, <1>9, OneEnd
<1> QED BY <1>5, <1>6, <1>10

\* Whatever the rig and the motion, beginning and resuming without feedback
\* returns what evaluating returns: the barrier only cuts one pass in two.
THEOREM EmptyFeedbackAgrees == Spec => []EmptyFeedbackIsEvaluate
  BY TypeInit, TypeNext, RunInit, RunNext, EmptyFeedback, PTL DEF Spec

\* Whatever was resumed before, the same motion and the same feedback give the
\* same pose: a resume works on a copy of its snapshot.
THEOREM ResumesRepeat == Spec => []ResumesAreRepeatable
  BY TypeInit, TypeNext, RunInit, RunNext, Repeatable, PTL DEF Spec

\* Whatever the rig, completing a pose without held joints is evaluating the
\* motion that is keyed at it, every chain enabled.
THEOREM CompletionAgrees == Spec => []CompleteIsEvaluate
  BY TypeInit, TypeNext, RunInit, RunNext, Completes, PTL DEF Spec

-----------------------------------------------------------------------------
(* The skeleton adapter: lines and held joints *)

\* The least and the greatest element are elements.
LEMMA MinIsLeast ==
  ASSUME NEW S \in SUBSET Int, IsFiniteSet(S), S # {}
  PROVE  Min(S) \in S /\ \A y \in S : Min(S) <= y
BY LeastElement DEF Min

LEMMA MaxIsGreatest ==
  ASSUME NEW S \in SUBSET Int, IsFiniteSet(S), S # {}
  PROVE  Max(S) \in S /\ \A y \in S : Max(S) >= y
<1> DEFINE higher(x) == {z \in S : z > x}
           segments == {higher(x) : x \in S}
<1>1. IsWellFoundedOn(StrictSubsetOrdering(S), SUBSET S)
  BY FS_StrictSubsetOrderingWellFounded, FS_FiniteSubsetsOfFinite
<1>2. segments \subseteq SUBSET S /\ segments # {}
  OBVIOUS
<1>3. \E u \in segments : \A v \in segments : ~(<<v, u>> \in StrictSubsetOrdering(S))
  <2> HIDE DEF segments
  <2> QED BY <1>1, <1>2, WFMin
<1>4. PICK x \in S : \A v \in segments : ~(<<v, higher(x)>> \in StrictSubsetOrdering(S))
  BY <1>3
<1>5. ASSUME NEW y \in S PROVE x >= y
  <2>0. x \in Int /\ y \in Int /\ \A z \in S : z \in Int
    OBVIOUS
  <2>1. SUFFICES ASSUME y > x PROVE FALSE
    BY <2>0
  <2>2. \A z \in S : z > y => z > x
    BY <2>0, <2>1
  <2>3. y \in higher(x) /\ y \notin higher(y)
    BY <2>0, <2>1
  <2>4. <<higher(y), higher(x)>> \in StrictSubsetOrdering(S)
    BY <2>2, <2>3 DEF StrictSubsetOrdering
  <2> QED BY <1>4, <2>4
<1> QED BY <1>5 DEF Max

\* What is known of every skeleton.
LEMMA SkeletonShape ==
  ASSUME bones \in Skeletons
  PROVE  /\ Len(bones) \in Nat /\ DOMAIN bones = 1..Len(bones)
         /\ \A j \in 1..Len(bones) : bones[j].parent \in 0..(j - 1) /\ bones[j].sourceIndex \in Int
BY SkeletonsAssumption

\* Sets that hold the parents of their joints.
Upward(T) == \A t \in T : bones[t].parent \in T \cup {0}

\* What every such set with the joint holds.
Above(j) == {a \in 1..Len(bones) : \A T \in SUBSET (1..Len(bones)) : Upward(T) /\ (j = 0 \/ j \in T) => a \in T}

\* It is the joint, and what is above the joint's parent.
LEMMA AboveSteps ==
  ASSUME bones \in Skeletons, NEW j \in 1..Len(bones)
  PROVE  Above(j) = {j} \cup Above(bones[j].parent)
<1> DEFINE N == Len(bones)
           p == bones[j].parent
<1>1. N \in Nat /\ p \in 0..(j - 1) /\ p \in 0..N
  BY SkeletonShape
<1> HIDE DEF N
<1>2. ASSUME NEW a \in Above(p) PROVE a \in Above(j)
  <2>1. a \in 1..N /\ \A T \in SUBSET (1..N) : Upward(T) /\ (p = 0 \/ p \in T) => a \in T
    BY <1>2 DEF Above, N
  <2>2. ASSUME NEW T \in SUBSET (1..N), Upward(T), j \in T PROVE a \in T
    <3>1. p = 0 \/ p \in T
      BY <2>2 DEF Upward
    <3> QED BY <3>1, <2>1, <2>2
  <2>3. j # 0
    BY <1>1
  <2> QED BY <2>1, <2>2, <2>3 DEF Above, N
<1>3. j \in Above(j)
  BY <1>1 DEF Above, N
<1>4. ASSUME NEW a \in Above(j) PROVE a = j \/ a \in Above(p)
  <2> DEFINE T == {j} \cup Above(p)
  <2>1. T \in SUBSET (1..N)
    BY <1>1 DEF Above, N
  <2>2. ASSUME NEW t \in Above(p) PROVE bones[t].parent \in Above(p) \cup {0}
    <3>1. t \in 1..N /\ \A U \in SUBSET (1..N) : Upward(U) /\ (p = 0 \/ p \in U) => t \in U
      BY <2>2 DEF Above, N
    <3>2. bones[t].parent \in 0..(t - 1)
      BY <3>1, SkeletonShape DEF N
    <3>3. CASE bones[t].parent = 0
      BY <3>3
    <3>4. CASE bones[t].parent # 0
      <4>1. bones[t].parent \in 1..N
        BY <3>1, <3>2, <3>4, <1>1
      <4>2. ASSUME NEW U \in SUBSET (1..N), Upward(U), p = 0 \/ p \in U PROVE bones[t].parent \in U
        <5>1. t \in U
          BY <3>1, <4>2
        <5> QED BY <5>1, <4>2, <3>4 DEF Upward
      <4> QED BY <4>1, <4>2 DEF Above, N
    <3> QED BY <3>3, <3>4
  <2>3. p # 0 => p \in Above(p)
    BY <1>1 DEF Above, N
  <2>4. Upward(T)
    BY <2>2, <2>3 DEF Upward
  <2>5. \A U \in SUBSET (1..N) : Upward(U) /\ (j = 0 \/ j \in U) => a \in U
    BY <1>4 DEF Above, N
  <2> QED BY <2>1, <2>4, <2>5
<1> QED BY <1>2, <1>3, <1>4

LEMMA NoneAboveNone ==
  ASSUME bones \in Skeletons
  PROVE  Above(0) = {}
<1>1. Upward({}) /\ {} \in SUBSET (1..Len(bones))
  BY DEF Upward
<1> QED BY <1>1 DEF Above

\* So there is the function that Line recurs on.
LEMMA LineSteps ==
  ASSUME bones \in Skeletons
  PROVE  /\ Line(0) = {}
         /\ \A j \in 1..Len(bones) : Line(j) = {j} \cup Line(bones[j].parent)
<1> DEFINE N == Len(bones)
           Is(f) == f = [j \in 0..N |-> IF j = 0 THEN {} ELSE {j} \cup f[bones[j].parent]]
           A == [j \in 0..N |-> Above(j)]
<1>1. N \in Nat /\ \A j \in 1..N : bones[j].parent \in 0..N
  <2>1. \A j \in 1..Len(bones) : bones[j].parent \in 0..(j - 1)
    BY SkeletonShape
  <2> QED BY <2>1, SkeletonShape
<1>2. Is(A)
  <2>1. ASSUME NEW j \in 0..N PROVE Above(j) = IF j = 0 THEN {} ELSE {j} \cup A[bones[j].parent]
    <3>1. CASE j = 0
      BY <3>1, NoneAboveNone
    <3>2. CASE j # 0
      <4>1. j \in 1..N
        BY <3>2, <1>1
      <4>2. A[bones[j].parent] = Above(bones[j].parent)
        BY <4>1, <1>1
      <4> QED BY <3>2, <4>1, <4>2, AboveSteps
    <3> QED BY <3>1, <3>2
  <2> QED BY <2>1
<1> DEFINE F == CHOOSE f : Is(f)
<1>3. Is(F)
  <2> HIDE DEF Is, A
  <2> QED BY <1>2
<1>4. \A j : Line(j) = F[j]
  BY DEF Line
<1>5. \A j \in 0..N : F[j] = IF j = 0 THEN {} ELSE {j} \cup F[bones[j].parent]
  <2> HIDE DEF F
  <2> QED BY <1>3
<1> HIDE DEF F
<1>6. Line(0) = {}
  <2>0. 0 \in 0..N
    BY <1>1
  <2>1. F[0] = IF 0 = 0 THEN {} ELSE {0} \cup F[bones[0].parent]
    BY ONLY <2>0, <1>5
  <2>2. F[0] = {}
    BY ONLY <2>1
  <2> QED BY <2>2, <1>4
<1>7. ASSUME NEW j \in 1..N PROVE Line(j) = {j} \cup Line(bones[j].parent)
  <2>1. j # 0 /\ j \in 0..N
    BY <1>1
  <2>2. F[j] = {j} \cup F[bones[j].parent]
    BY <2>1, <1>5
  <2>3. Line(j) = F[j] /\ Line(bones[j].parent) = F[bones[j].parent]
    BY <1>4
  <2> QED BY <2>2, <2>3
<1> QED BY <1>6, <1>7

\* A line holds the lines of its joints.
LineOK(j) == /\ Line(j) \subseteq 1..Len(bones)
             /\ \A a \in Line(j) : a \in Line(a) /\ Line(a) \subseteq Line(j)

LEMMA LinesAreClosed ==
  ASSUME bones \in Skeletons
  PROVE  \A j \in 0..Len(bones) : LineOK(j)
<1> DEFINE N == Len(bones)
           P == {n \in 0..N : \A j \in 0..n : LineOK(j)}
<1>1. N \in Nat /\ \A j \in 1..N : bones[j].parent \in 0..(j - 1)
  BY SkeletonShape
<1>2. Line(0) = {} /\ \A j \in 1..N : Line(j) = {j} \cup Line(bones[j].parent)
  BY LineSteps
<1> HIDE DEF N
<1>3. 0 \in P
  BY <1>1, <1>2 DEF LineOK
<1>4. ASSUME NEW n \in 0..(N - 1), n \in P PROVE n + 1 \in P
  <2> DEFINE j == n + 1
             p == bones[j].parent
  <2>1. j \in 1..N /\ p \in 0..n /\ j \in 0..N
    BY <1>1
  <2>2. LineOK(p)
    BY <2>1, <1>4
  <2>3. Line(j) = {j} \cup Line(p)
    BY <2>1, <1>2
  <2>4. LineOK(j)
    <3> HIDE DEF j, p
    <3> QED BY <2>1, <2>2, <2>3 DEF LineOK, N
  <2>5. \A k \in 0..j : k \in 0..n \/ k = j
    BY <2>1
  <2> HIDE DEF j
  <2>6. \A k \in 0..j : LineOK(k)
    BY <2>4, <2>5, <1>4
  <2> QED BY <2>1, <2>6 DEF j
<1>5. 0..N \subseteq P
  <2> HIDE DEF P
  <2> QED BY <1>1, <1>3, <1>4, UpTo
<1> QED BY <1>1, <1>5 DEF N

\* A set of joints with their lines.
Whole(held) == held \subseteq 1..Len(bones) /\ \A h \in held : h \in Line(h) /\ Line(h) \subseteq held

\* The walk that stops at the first held joint adds the whole line.
LEMMA HoldAddsTheLine ==
  ASSUME bones \in Skeletons, NEW held, Whole(held), NEW joint \in 0..Len(bones)
  PROVE  Hold(held, joint) = held \cup Line(joint) /\ Whole(Hold(held, joint))
<1> DEFINE L == Line(joint)
<1>1. LineOK(joint)
  BY LinesAreClosed
<1>2. \A a \in L : a \notin held => \A h \in held \cap L : a \notin Line(h)
  BY DEF Whole
<1>3. Hold(held, joint) = held \cup {a \in L : \A h \in held \cap L : a \notin Line(h)}
  BY DEF Hold
<1>4. Hold(held, joint) = held \cup L
  BY <1>2, <1>3
<1> QED BY <1>1, <1>4 DEF Whole, LineOK

WalksOf(joints, twists) ==
  [i \in DOMAIN Roles |-> joints[Roles[i]]] \o [i \in DOMAIN twists |-> twists[i].twist]

\* After each walk what is held are the lines walked so far.
LEMMA HeldAreLines ==
  ASSUME bones \in Skeletons, NEW joints, NEW twists,
         NEW w, w = WalksOf(joints, twists), w \in Seq(0..Len(bones))
  PROVE  HeldJoints(joints, twists) = UNION {Line(w[i]) : i \in 1..Len(w)}
<1> DEFINE M == Len(w)
           S == {held \in SUBSET (1..Len(bones)) : Whole(held)}
           G == [k \in 1..M |-> [x \in S |-> Hold(x, w[k])]]
           Is(f) == f = [k \in 0..M |-> IF k = 0 THEN {} ELSE Hold(f[k - 1], w[k])]
<1>1. M \in Nat /\ {} \in S /\ \A k \in 1..M : w[k] \in 0..Len(bones)
  BY DEF Whole
<1>2. \A x \in S, k \in 1..M : Hold(x, w[k]) = x \cup Line(w[k]) /\ Hold(x, w[k]) \in S
  <2> TAKE x \in S, k \in 1..M
  <2>1. Hold(x, w[k]) = x \cup Line(w[k]) /\ Whole(Hold(x, w[k]))
    BY <1>1, HoldAddsTheLine
  <2> QED BY <2>1 DEF Whole
<1> HIDE DEF S
<1>3. G \in StepsOn(S, M)
  BY <1>2 DEF StepsOn
<1>4. PICK f \in [0..M -> S] : f[0] = {} /\ \A n \in 1..M : f[n] = G[n][f[n - 1]]
  <2>1. \E h \in RunsOn(S, M) : Follows(h, {}, G, M)
    <3> HIDE DEF G, M
    <3> QED BY <1>1, <1>3, Recursion
  <2> HIDE DEF G
  <2> QED BY <2>1 DEF RunsOn, Follows
<1>5. Is(f)
  <2>1. ASSUME NEW n \in 0..M PROVE f[n] = IF n = 0 THEN {} ELSE Hold(f[n - 1], w[n])
    <3>1. CASE n = 0
      BY <3>1, <1>4
    <3>2. CASE n # 0
      <4>1. n \in 1..M /\ n - 1 \in 0..M /\ f[n - 1] \in S
        BY <3>2, <1>1
      <4>2. G[n][f[n - 1]] = Hold(f[n - 1], w[n])
        BY <4>1
      <4> QED BY <3>2, <4>1, <4>2, <1>4
    <3> QED BY <3>1, <3>2
  <2>2. f = [n \in 0..M |-> f[n]]
    OBVIOUS
  <2> HIDE DEF G, M
  <2> QED BY <2>1, <2>2
<1> DEFINE F == CHOOSE g : Is(g)
<1>6. Is(F)
  <2> HIDE DEF Is
  <2> QED BY <1>5
<1>7. HeldJoints(joints, twists) = F[M]
  BY DEF HeldJoints, WalksOf
<1> HIDE DEF F
<1>8. \A n \in 0..M : F[n] = IF n = 0 THEN {} ELSE Hold(F[n - 1], w[n])
  BY <1>6
<1> DEFINE Lines(n) == UNION {Line(w[i]) : i \in 1..n}
           P == {n \in 0..M : F[n] \in S /\ F[n] = Lines(n)}
<1>9. 0 \in P
  BY <1>1, <1>8
<1>10. ASSUME NEW n \in 0..(M - 1), n \in P PROVE n + 1 \in P
  <2>1. n + 1 \in 1..M /\ n + 1 \in 0..M /\ (n + 1) - 1 = n /\ n + 1 # 0
    BY <1>1
  <2>2. F[n + 1] = Hold(F[n], w[n + 1])
    BY <2>1, <1>8
  <2>3. F[n + 1] = Lines(n) \cup Line(w[n + 1]) /\ F[n + 1] \in S
    BY <2>1, <2>2, <1>2, <1>10
  <2>4. 1..(n + 1) = 1..n \cup {n + 1}
    BY <2>1
  <2>5. Lines(n + 1) = Lines(n) \cup Line(w[n + 1])
    BY <2>4
  <2> HIDE DEF Lines
  <2> QED BY <2>1, <2>3, <2>5
<1>11. 0..M \subseteq P
  <2> HIDE DEF P, M
  <2> QED BY <1>1, <1>9, <1>10, UpTo
<1>12. M \in P
  BY <1>11, <1>1
<1> QED BY <1>7, <1>12

\* Where a role can be: a joint or nowhere.
Places == 0..Len(bones)
RoleMaps == [HumanRoles -> Places]

LEMMA PlacesAre == ASSUME bones \in Skeletons PROVE 1..Len(bones) \subseteq Places /\ 0 \in Places
BY SkeletonShape DEF Places

\* A bone that is found is a bone.
LEMMA FoundBones ==
  ASSUME bones \in Skeletons, NEW T, NEW names \in Seq(T)
  PROVE  FindBone(names) \in Places
<1> DEFINE Of(name) == {i \in DOMAIN bones : bones[i].name = name}
           had == {k \in DOMAIN names : Of(names[k]) # {}}
           found == Of(names[Min(had)])
           indices == {bones[i].sourceIndex : i \in found}
<1>0. /\ Len(bones) \in Nat /\ DOMAIN bones = 1..Len(bones)
      /\ \A i \in 1..Len(bones) : bones[i].sourceIndex \in Int
  BY SkeletonShape
<1>1. CASE had = {}
  <2>1. FindBone(names) = 0
    BY <1>1 DEF FindBone, Unmapped
  <2> QED BY <2>1, <1>0 DEF Places
<1>2. CASE had # {}
  <2>1. had \subseteq 1..Len(names) /\ Len(names) \in Nat
    OBVIOUS
  <2>2. IsFiniteSet(had) /\ had \in SUBSET Int
    <3>1. IsFiniteSet(1..Len(names))
      BY <2>1, FS_Interval
    <3>2. IsFiniteSet(had)
      <4> HIDE DEF had
      <4> QED BY <2>1, <3>1, FS_Subset
    <3>3. \A k \in 1..Len(names) : k \in Int
      OBVIOUS
    <3> HIDE DEF had
    <3> QED BY <2>1, <3>2, <3>3
  <2>3. Min(had) \in had
    <3> HIDE DEF had
    <3> QED BY <1>2, <2>2, MinIsLeast
  <2>4. found # {} /\ found \subseteq 1..Len(bones)
    BY <2>3, <1>0
  <2> HIDE DEF found
  <2>5. indices \in SUBSET Int /\ indices # {}
    BY <2>4, <1>0
  <2>6. IsFiniteSet(indices)
    <3> DEFINE f == [i \in found |-> bones[i].sourceIndex]
    <3>1. IsFiniteSet(found)
      <4>1. IsFiniteSet(1..Len(bones))
        BY <1>0, FS_Interval
      <4> QED BY <4>1, <2>4, FS_Subset
    <3>2. f \in Surjection(found, indices)
      BY DEF Surjection
    <3> HIDE DEF f, indices
    <3> QED BY <3>1, <3>2, FS_Surjection
  <2>7. PICK least \in indices : \A y \in indices : least <= y
    <3> HIDE DEF indices
    <3> QED BY <2>5, <2>6, LeastElement
  <2>8. \E i \in found : \A j \in found : bones[i].sourceIndex <= bones[j].sourceIndex
    BY <2>7
  <2>9. FindBone(names) = CHOOSE i \in found : \A j \in found : bones[i].sourceIndex <= bones[j].sourceIndex
    BY <1>2 DEF FindBone, found
  <2>10. FindBone(names) \in found
    BY <2>8, <2>9
  <2> QED BY <2>10, <2>4, PlacesAre
<1> QED BY <1>1, <1>2

LEMMA FoundRoles ==
  ASSUME bones \in Skeletons
  PROVE  [r \in HumanRoles |-> FindBone(RoleSpecs[r])] \in RoleMaps
<1>1. ASSUME NEW r \in HumanRoles PROVE FindBone(RoleSpecs[r]) \in Places
  <2>1. RoleSpecs[r] \in Seq(Range(RoleSpecs[r]))
    BY RolesAssumption DEF HumanRoles
  <2> QED BY <2>1, FoundBones
<1> QED BY <1>1 DEF RoleMaps

\* The upper body and the hips stay maps of roles.
LEMMA UpperBodyMaps ==
  ASSUME bones \in Skeletons, NEW joints \in RoleMaps
  PROVE  OrderUpperBody(joints) \in RoleMaps /\ SourceUpperBody(joints) \in RoleMaps
<1>1. joints["chest"] \in Places /\ joints["upperChest"] \in Places /\ Unmapped \in Places
  <2>1. "chest" \in HumanRoles /\ "upperChest" \in HumanRoles
    BY RolesAssumption DEF HumanRoles
  <2> QED BY <2>1, SkeletonShape DEF RoleMaps, Places, Unmapped
<1>2. \A u, v \in Places : [joints EXCEPT !["chest"] = u, !["upperChest"] = v] \in RoleMaps
  BY DEF RoleMaps
<1>3. \A v \in Places : [joints EXCEPT !["upperChest"] = v] \in RoleMaps
  BY DEF RoleMaps
<1>4. OrderUpperBody(joints) \in RoleMaps
  BY <1>1, <1>2, <1>3 DEF OrderUpperBody
<1>5. SourceUpperBody(joints) \in RoleMaps
  BY <1>1, <1>2 DEF SourceUpperBody
<1> QED BY <1>4, <1>5

LEMMA HipsArePlaced ==
  ASSUME bones \in Skeletons, NEW source
  PROVE  TargetHips(source) \in Places
<1> DEFINE needed == {source["spine"], source["leftUpperLeg"], source["rightUpperLeg"]}
           common == {j \in DOMAIN bones : \A n \in needed : IsAncestor(j, n)}
<1>1. Len(bones) \in Nat /\ common \subseteq 1..Len(bones) /\ Unmapped \in Places
  BY SkeletonShape DEF Places, Unmapped
<1>2. TargetHips(source) = IF Unmapped \in needed \/ common = {} THEN Unmapped ELSE Max(common)
  BY DEF TargetHips
<1> HIDE DEF needed, common
<1>3. ASSUME common # {} PROVE Max(common) \in Places
  <2>1. IsFiniteSet(common)
    <3>1. IsFiniteSet(1..Len(bones))
      BY <1>1, FS_Interval
    <3> QED BY <3>1, <1>1, FS_Subset
  <2>2. Max(common) \in common
    <3>1. \A k \in 1..Len(bones) : k \in Int
      OBVIOUS
    <3> QED BY <3>1, <1>1, <1>3, <2>1, MaxIsGreatest
  <2> QED BY <2>2, <1>1, PlacesAre
<1> QED BY <1>1, <1>2, <1>3

\* The joints that a map of roles binds.
BoundJoints(joints) == {joints[r] : r \in Present(joints)}

\* A twist is of a bound joint, by a joint.
TwistOK(joints, t) == t.joint \in BoundJoints(joints) /\ t.twist \in 1..Len(bones)

LEMMA TwistsAreOfBound ==
  ASSUME bones \in Skeletons, NEW joints \in RoleMaps
  PROVE  /\ ArmTwists(joints) = [i \in 1..Len(ArmTwists(joints)) |-> ArmTwists(joints)[i]]
         /\ Len(ArmTwists(joints)) \in Nat
         /\ \A i \in 1..Len(ArmTwists(joints)) : TwistOK(joints, ArmTwists(joints)[i])
<1> DEFINE Twist(spec) ==
             [joint |-> joints[spec.role], twist |-> FindBone(<<spec.twist>>),
              axis |-> Minus(RestPosition(joints[spec.follower]), RestPosition(joints[spec.role]))]
           Usable(spec) ==
             LET joint == joints[spec.role]
                 follower == joints[spec.follower]
                 twist == FindBone(<<spec.twist>>)
             IN  /\ Unmapped \notin {joint, follower, twist} /\ twist \notin {joint, follower}
                 /\ IsAncestor(joint, twist) /\ IsAncestor(twist, follower)
                 /\ Twist(spec).axis # Origin
           S == {spec \in Range(Twists) : Usable(spec)}
           u == Selected(Twists, S)
<1>1. ArmTwists(joints) = [i \in DOMAIN u |-> Twist(u[i])]
  BY DEF ArmTwists
<1>2. Twists \in Seq(Range(Twists))
  BY TwistsAssumption
<1>3. ASSUME NEW spec \in S PROVE TwistOK(joints, Twist(spec))
  <2>1. spec \in Range(Twists) /\ joints[spec.role] # 0 /\ FindBone(<<spec.twist>>) # 0
    BY DEF Unmapped
  <2>2. spec.role \in HumanRoles
    BY <2>1, TwistsAssumption DEF HumanRoles
  <2>3. spec.role \in Present(joints)
    BY <2>1, <2>2 DEF Present, Unmapped
  <2>4. <<spec.twist>> \in Seq({spec.twist})
    OBVIOUS
  <2>5. FindBone(<<spec.twist>>) \in 0..Len(bones) /\ Len(bones) \in Nat
    BY <2>4, FoundBones, SkeletonShape DEF Places
  <2>6. FindBone(<<spec.twist>>) \in 1..Len(bones)
    BY <2>1, <2>5
  <2>7. joints[spec.role] \in BoundJoints(joints)
    BY <2>3 DEF BoundJoints
  <2> HIDE DEF S
  <2> QED BY <2>6, <2>7 DEF TwistOK
<1> HIDE DEF S
<1>4. u \in Seq(Range(Twists))
  BY <1>2, SelectedRanks
<1>5. {u[k] : k \in 1..Len(u)} = {Twists[k] : k \in 1..Len(Twists)} \cap S
  BY <1>2, SelectedMembers
<1> HIDE DEF u
<1>6. Len(u) \in Nat /\ DOMAIN u = 1..Len(u) /\ \A i \in 1..Len(u) : u[i] \in S
  BY <1>4, <1>5
<1> HIDE DEF Twist
<1>7. /\ ArmTwists(joints) = [i \in 1..Len(u) |-> Twist(u[i])]
      /\ \A i \in 1..Len(u) : TwistOK(joints, Twist(u[i]))
  BY <1>1, <1>3, <1>6
<1>8. Len(ArmTwists(joints)) = Len(u)
  BY <1>6, <1>7
<1> QED BY <1>6, <1>7, <1>8

\* The joints from which the walks go up.
Walked(joints, twists) == BoundJoints(joints) \cup {twists[i].twist : i \in DOMAIN twists}

\* What is held is what is above the bound roles and the twist bones.
LEMMA HeldIsAbove ==
  ASSUME bones \in Skeletons, NEW joints \in RoleMaps, NEW n \in Nat, NEW twists,
         twists = [i \in 1..n |-> twists[i]],
         \A i \in 1..n : twists[i].twist \in 1..Len(bones)
  PROVE  HeldJoints(joints, twists) = UNION {Line(j) : j \in Walked(joints, twists)}
<1> DEFINE a == [i \in DOMAIN Roles |-> joints[Roles[i]]]
           b == [i \in DOMAIN twists |-> twists[i].twist]
           w == WalksOf(joints, twists)
<1>1. Len(bones) \in Nat /\ Roles \in Seq(Range(Roles))
  BY SkeletonShape, RolesAssumption
<1>2. DOMAIN Roles = 1..Len(Roles) /\ Len(Roles) \in Nat /\ \A i \in 1..Len(Roles) : Roles[i] \in HumanRoles
  BY <1>1 DEF HumanRoles
<1>3. a \in Seq(Places) /\ Len(a) = Len(Roles) /\ \A i \in 1..Len(Roles) : a[i] = joints[Roles[i]]
  <2>1. a = [i \in 1..Len(Roles) |-> joints[Roles[i]]]
    BY <1>2
  <2>2. \A i \in 1..Len(Roles) : joints[Roles[i]] \in Places
    BY <1>2 DEF RoleMaps
  <2> HIDE DEF a
  <2> QED BY <2>1, <2>2, <1>2
<1>4. b \in Seq(Places) /\ Len(b) = n /\ \A i \in 1..n : b[i] = twists[i].twist
  <2>1. b = [i \in 1..n |-> twists[i].twist]
    OBVIOUS
  <2>2. \A i \in 1..n : twists[i].twist \in Places
    BY <1>1 DEF Places
  <2> HIDE DEF b
  <2> QED BY <2>1, <2>2
<1>5. w = a \o b
  BY DEF WalksOf
<1> HIDE DEF a, b, w
<1>6. /\ w \in Seq(Places) /\ Len(w) = Len(Roles) + n
      /\ \A i \in 1..Len(Roles) : w[i] = joints[Roles[i]]
      /\ \A i \in 1..n : w[Len(Roles) + i] = twists[i].twist
  BY <1>2, <1>3, <1>4, <1>5
<1>7. HeldJoints(joints, twists) = UNION {Line(w[i]) : i \in 1..Len(w)}
  <2>1. w = WalksOf(joints, twists)
    BY DEF w
  <2>2. w \in Seq(0..Len(bones))
    BY <1>6 DEF Places
  <2> QED BY ONLY bones \in Skeletons, <2>1, <2>2, HeldAreLines
<1>8. Line(0) = {}
  BY LineSteps
<1>9. ASSUME NEW i \in 1..Len(w) PROVE Line(w[i]) \subseteq UNION {Line(j) : j \in Walked(joints, twists)}
  <2>1. CASE i <= Len(Roles)
    <3>1. w[i] = joints[Roles[i]] /\ Roles[i] \in HumanRoles
      BY <2>1, <1>2, <1>6
    <3>2. CASE w[i] = 0
      BY <3>2, <1>8
    <3>3. CASE w[i] # 0
      BY <3>1, <3>3 DEF Walked, BoundJoints, Present, Unmapped
    <3> QED BY <3>2, <3>3
  <2>2. CASE i > Len(Roles)
    <3>1. i - Len(Roles) \in 1..n /\ Len(Roles) + (i - Len(Roles)) = i
      BY <2>2, <1>2, <1>6
    <3>2. w[i] = twists[i - Len(Roles)].twist /\ i - Len(Roles) \in DOMAIN twists
      BY <3>1, <1>6
    <3> QED BY <3>2 DEF Walked
  <2> QED BY <2>1, <2>2, <1>2
<1>10. ASSUME NEW j \in Walked(joints, twists) PROVE \E i \in 1..Len(w) : w[i] = j
  <2>1. CASE j \in BoundJoints(joints)
    <3>1. PICK r \in HumanRoles : j = joints[r]
      BY <2>1 DEF BoundJoints, Present
    <3>2. PICK i \in 1..Len(Roles) : Roles[i] = r
      BY <1>2 DEF HumanRoles, Range
    <3> QED BY <3>1, <3>2, <1>2, <1>6
  <2>2. CASE j \notin BoundJoints(joints)
    <3>1. PICK i \in 1..n : j = twists[i].twist
      BY <2>2 DEF Walked
    <3>2. Len(Roles) + i \in 1..Len(w)
      BY <1>2, <1>6
    <3> QED BY <3>1, <3>2, <1>6
  <2> QED BY <2>1, <2>2
<1> QED BY <1>7, <1>9, <1>10

\* A joint is on its own line.
LEMMA OnItsLine ==
  ASSUME bones \in Skeletons, NEW j \in 1..Len(bones)
  PROVE  j \in Line(j)
BY LineSteps

\* What Adapt makes: the held joints are what is above the bound roles and the
\* twist bones, and both joints of each twist are held.
AdaptedOK(a) ==
  /\ a.source \in RoleMaps
  /\ a.held = UNION {Line(j) : j \in Walked(a.target, a.twists)}
  /\ Len(a.twists) \in Nat
  /\ \A i \in 1..Len(a.twists) : {a.twists[i].joint, a.twists[i].twist} \subseteq a.held

LEMMA AdaptHolds ==
  ASSUME bones \in Skeletons
  PROVE  AdaptedOK(AdaptedSkeleton)
<1> DEFINE found == OrderUpperBody([r \in HumanRoles |-> FindBone(RoleSpecs[r])])
           source == SourceUpperBody(found)
           target == [r \in HumanRoles |-> IF r = "hips" THEN TargetHips(source) ELSE found[r]]
           twists == IF IsBuilt THEN ArmTwists(target) ELSE <<>>
<1>1. /\ AdaptedSkeleton.source = source /\ AdaptedSkeleton.target = target
      /\ AdaptedSkeleton.twists = twists
      /\ AdaptedSkeleton.held = HeldJoints(target, twists)
  BY DEF AdaptedSkeleton
<1>2. found \in RoleMaps /\ source \in RoleMaps
  BY FoundRoles, UpperBodyMaps
<1>3. TargetHips(source) \in Places
  BY HipsArePlaced
<1> HIDE DEF found, source
<1>4. target \in RoleMaps
  BY <1>2, <1>3 DEF RoleMaps
<1> HIDE DEF target
<1>5. /\ twists = [i \in 1..Len(twists) |-> twists[i]] /\ Len(twists) \in Nat
      /\ \A i \in 1..Len(twists) : TwistOK(target, twists[i])
  <2>1. CASE IsBuilt
    BY <1>4, <2>1, TwistsAreOfBound
  <2>2. CASE ~IsBuilt
    <3>1. twists = <<>>
      BY <2>2
    <3> HIDE DEF twists
    <3> QED BY <3>1
  <2> QED BY <2>1, <2>2
<1> HIDE DEF twists
<1>6. HeldJoints(target, twists) = UNION {Line(j) : j \in Walked(target, twists)}
  <2>1. \A i \in 1..Len(twists) : twists[i].twist \in 1..Len(bones)
    BY <1>5 DEF TwistOK
  <2> QED BY <2>1, <1>4, <1>5, HeldIsAbove
<1>7. ASSUME NEW i \in 1..Len(twists)
      PROVE  {twists[i].joint, twists[i].twist} \subseteq HeldJoints(target, twists)
  <2>1. twists[i].joint \in BoundJoints(target) /\ twists[i].twist \in 1..Len(bones)
    BY <1>5 DEF TwistOK
  <2>2. twists[i].joint \in 1..Len(bones)
    <3>1. PICK r \in HumanRoles : twists[i].joint = target[r] /\ target[r] # 0
      BY <2>1 DEF BoundJoints, Present, Unmapped
    <3>2. target[r] \in 0..Len(bones) /\ Len(bones) \in Nat
      BY <1>4, SkeletonShape DEF RoleMaps, Places
    <3> QED BY <3>1, <3>2
  <2>3. twists[i].joint \in Walked(target, twists)
    BY <2>1 DEF Walked
  <2>4. twists[i].twist \in Walked(target, twists)
    <3>1. i \in DOMAIN twists
      BY <1>5
    <3> QED BY <3>1 DEF Walked
  <2>5. twists[i].joint \in Line(twists[i].joint) /\ twists[i].twist \in Line(twists[i].twist)
    BY <2>1, <2>2, OnItsLine
  <2> QED BY <1>6, <2>3, <2>4, <2>5
<1> QED BY <1>1, <1>2, <1>5, <1>6, <1>7 DEF AdaptedOK

-----------------------------------------------------------------------------
(* The arm roll *)

IsPose(p) == /\ p = [rotations |-> p.rotations, translations |-> p.translations]
             /\ DOMAIN p.rotations = DOMAIN p.translations

SameAt(p, q, j) == p.rotations[j] = q.rotations[j] /\ p.translations[j] = q.translations[j]

LEMMA SetTwo ==
  ASSUME NEW r, NEW s, NEW p, p = [rotations |-> r, translations |-> s], NEW a, NEW b, NEW x, NEW y, NEW q,
         q = [p EXCEPT !.rotations[a] = x, !.rotations[b] = Times(y, @), !.translations[b] = Rotated(y, @)]
  PROVE  /\ q = [rotations |-> q.rotations, translations |-> q.translations]
         /\ DOMAIN q.rotations = DOMAIN r /\ DOMAIN q.translations = DOMAIN s
         /\ \A j \in DOMAIN r : j \notin {a, b} => q.rotations[j] = r[j]
         /\ \A j \in DOMAIN s : j \notin {a, b} => q.translations[j] = s[j]
OBVIOUS

\* A carried roll turns the two joints of its twist.
LEMMA CarriedTurnsTwo ==
  ASSUME NEW p, IsPose(p), NEW t
  PROVE  /\ IsPose(RollCarried(p, t)) /\ DOMAIN RollCarried(p, t).rotations = DOMAIN p.rotations
         /\ \A j \in DOMAIN p.rotations : j \notin {t.joint, t.twist} => SameAt(RollCarried(p, t), p, j)
<1> DEFINE q == p.rotations[t.joint]
           roll == Roll(q, t.axis)
           swing == Times(q, Conjugate(roll))
           c == [p EXCEPT !.rotations[t.joint] = swing, !.rotations[t.twist] = Times(roll, @),
                          !.translations[t.twist] = Rotated(roll, @)]
<1>1. RollCarried(p, t) = IF Norm(roll) = 0 THEN p ELSE c
  BY DEF RollCarried
<1> HIDE DEF swing, roll
<1>2. p = [rotations |-> p.rotations, translations |-> p.translations]
  BY DEF IsPose
<1>3. /\ c = [rotations |-> c.rotations, translations |-> c.translations]
      /\ DOMAIN c.rotations = DOMAIN p.rotations /\ DOMAIN c.translations = DOMAIN p.translations
      /\ \A j \in DOMAIN p.rotations : j \notin {t.joint, t.twist} => c.rotations[j] = p.rotations[j]
      /\ \A j \in DOMAIN p.translations : j \notin {t.joint, t.twist} => c.translations[j] = p.translations[j]
  <2>1. c = [p EXCEPT !.rotations[t.joint] = swing, !.rotations[t.twist] = Times(roll, @),
                      !.translations[t.twist] = Rotated(roll, @)]
    OBVIOUS
  <2> HIDE DEF c
  <2> QED BY ONLY <1>2, <2>1, SetTwo
<1> HIDE DEF c
<1> QED BY <1>1, <1>3 DEF IsPose, SameAt

-----------------------------------------------------------------------------
(* Whole calls *)

\* What Adapt made stays; a pose is what was retargeted, but for held joints.
BodyInv ==
  /\ bones \in Skeletons /\ carried \in Nat
  /\ IsPose(pose) /\ DOMAIN before.rotations = DOMAIN pose.rotations
  /\ phase = "model" => pose = before
  /\ phase # "model" =>
       /\ AdaptedOK(adapted)
       /\ \A j \in DOMAIN pose.rotations : SameAt(pose, before, j) \/ j \in adapted.held

LEMMA BodyInit == ASSUME SkeletonInit PROVE BodyInv
BY DEF SkeletonInit, BodyInv, IsPose

\* It is about the skeleton and what was adapted of it.
LEMMA AdaptedKept ==
  ASSUME bones' = bones, adapted' = adapted, AdaptedOK(adapted)
  PROVE  AdaptedOK(adapted)'
<1>1. \A j : Line(j)' = Line(j)
  BY DEF Line
<1>2. Walked(adapted.target, adapted.twists)' = Walked(adapted.target, adapted.twists)
  BY DEF Walked, BoundJoints, Present
<1>3. RoleMaps' = RoleMaps
  BY DEF RoleMaps, Places
<1> QED BY <1>1, <1>2, <1>3 DEF AdaptedOK

LEMMA BodyKept ==
  ASSUME BodyInv, UNCHANGED bodyVars, phase' = "model" <=> phase = "model"
  PROVE  BodyInv'
<1>1. AdaptedOK(adapted) => AdaptedOK(adapted)'
  BY AdaptedKept DEF bodyVars
<1> QED BY <1>1 DEF bodyVars, BodyInv, IsPose, SameAt

LEMMA BodyStep ==
  ASSUME BodyInv, SkeletonNext
  PROVE  BodyInv'
<1>1. CASE Adapt
  <2>1. AdaptedOK(AdaptedSkeleton)
    BY AdaptHolds DEF BodyInv
  <2>2. /\ bones' = bones /\ pose' = pose /\ before' = before /\ carried' = carried
        /\ phase = "model" /\ phase' = "adapted" /\ adapted' = AdaptedSkeleton
    BY <1>1 DEF Adapt
  <2>3. AdaptedOK(adapted)'
    <3>1. \A j : Line(j)' = Line(j)
      BY <2>2 DEF Line
    <3>2. RoleMaps' = RoleMaps
      BY <2>2 DEF RoleMaps, Places
    <3> HIDE DEF AdaptedSkeleton
    <3> QED BY <2>1, <2>2, <3>1, <3>2 DEF AdaptedOK, Walked, BoundJoints, Present
  <2> QED BY <2>2, <2>3 DEF BodyInv, IsPose, SameAt
<1>2. CASE Retarget
  <2> DEFINE turned == {adapted.target[r] : r \in Range(ArmChain)} \ {Unmapped}
  <2>1. PICK turns \in [turned -> ArmRotations] :
          pose' = [rotations |-> [j \in DOMAIN bones |-> IF j \in turned THEN turns[j] ELSE Identity],
                   translations |-> [j \in DOMAIN bones |-> bones[j].offset]]
    BY <1>2 DEF Retarget
  <2>2. /\ bones' = bones /\ adapted' = adapted /\ before' = pose' /\ carried' = 0
        /\ phase = "adapted" /\ phase' = "posed"
    BY <1>2 DEF Retarget
  <2>3. IsPose(pose)'
    <3> HIDE DEF turned
    <3> QED BY <2>1 DEF IsPose
  <2>4. AdaptedOK(adapted)'
    BY <2>2, AdaptedKept DEF BodyInv
  <2> HIDE DEF turned
  <2> QED BY <2>2, <2>3, <2>4 DEF BodyInv, SameAt
<1>3. CASE CarryArmRoll
  <2>1. /\ bones' = bones /\ adapted' = adapted /\ before' = before
        /\ phase = "posed" /\ phase' # "model"
    BY <1>3 DEF CarryArmRoll
  <2>2. AdaptedOK(adapted)'
    BY <2>1, AdaptedKept DEF BodyInv
  <2>3. CASE carried < Len(adapted.twists)
    <3> DEFINE t == adapted.twists[carried + 1]
    <3>1. pose' = RollCarried(pose, t) /\ carried' = carried + 1
      BY <1>3, <2>3 DEF CarryArmRoll
    <3>2. carried + 1 \in 1..Len(adapted.twists) /\ carried + 1 \in Nat
      BY <2>1, <2>3 DEF BodyInv, AdaptedOK
    <3>3. {t.joint, t.twist} \subseteq adapted.held
      BY <3>2, <2>1 DEF BodyInv, AdaptedOK
    <3>4. /\ IsPose(RollCarried(pose, t)) /\ DOMAIN RollCarried(pose, t).rotations = DOMAIN pose.rotations
          /\ \A j \in DOMAIN pose.rotations : j \notin {t.joint, t.twist} => SameAt(RollCarried(pose, t), pose, j)
      BY CarriedTurnsTwo DEF BodyInv
    <3> HIDE DEF t
    <3>5. IsPose(pose)' /\ DOMAIN pose'.rotations = DOMAIN pose.rotations
      BY <3>1, <3>4 DEF IsPose
    <3>6. ASSUME NEW j \in DOMAIN pose.rotations PROVE SameAt(pose', before, j) \/ j \in adapted.held
      BY <3>1, <3>3, <3>4, <2>1 DEF BodyInv, SameAt
    <3> QED BY <2>1, <2>2, <3>1, <3>2, <3>5, <3>6 DEF BodyInv, SameAt
  <2>4. CASE ~(carried < Len(adapted.twists))
    <3>1. pose' = pose /\ carried' = carried
      BY <1>3, <2>4 DEF CarryArmRoll
    <3> QED BY <2>1, <2>2, <3>1 DEF BodyInv, IsPose, SameAt
  <2> QED BY <2>3, <2>4
<1> QED BY <1>1, <1>2, <1>3 DEF SkeletonNext

LEMMA BodyInvariant == AdapterSpec => []BodyInv
<1>1. AdapterInit => BodyInv
  BY BodyInit DEF AdapterInit
<1>2. BodyInv /\ [AdapterNext]_adapterVars => BodyInv'
  <2>1. SUFFICES ASSUME BodyInv, [AdapterNext]_adapterVars PROVE BodyInv'
    OBVIOUS
  <2>2. CASE SkeletonNext
    BY <2>1, <2>2, BodyStep
  <2>3. CASE ClipNext
    <3>1. UNCHANGED bodyVars /\ phase # "model" /\ phase' # "model"
      BY <2>3 DEF ClipNext, RefuseRange, BeginClip, BuildSample, FinishClip
    <3> QED BY <2>1, <3>1, BodyKept
  <2>4. CASE UNCHANGED adapterVars
    <3>1. UNCHANGED bodyVars /\ phase' = phase
      BY <2>4 DEF adapterVars
    <3> QED BY <2>1, <3>1, BodyKept
  <2> QED BY <2>1, <2>2, <2>3, <2>4 DEF AdapterNext
<1> QED BY <1>1, <1>2, PTL DEF AdapterSpec

\* Whatever the skeleton, the vocabulary and the twists: what Complete is told
\* to keep is everything above the bound roles and the twist bones, and all
\* that the arm roll turns is among it.
THEOREM HeldIsClosed == AdapterSpec => []HeldAreClosed
<1>1. BodyInv => HeldAreClosed
  <2>1. SUFFICES ASSUME BodyInv, phase # "model"
        PROVE  /\ adapted.held = UNION {Line(j) : j \in Walked(adapted.target, adapted.twists)}
               /\ \A j \in DOMAIN pose.rotations : SameAt(pose, before, j) \/ j \in adapted.held
    <3>1. Walked(adapted.target, adapted.twists) =
            {adapted.target[r] : r \in Present(adapted.target)}
              \cup {adapted.twists[i].twist : i \in DOMAIN adapted.twists}
      BY DEF Walked, BoundJoints
    <3> QED BY <3>1 DEF HeldAreClosed, SameAt
  <2> QED BY <2>1 DEF BodyInv, AdaptedOK
<1> QED BY <1>1, BodyInvariant, PTL

-----------------------------------------------------------------------------
(* The times of a clip *)

LEMMA Products ==
  ASSUME NEW s \in Int, s > 0, NEW a \in Int, NEW b \in Int
  PROVE  /\ a < b => a * s < b * s
         /\ (a + 1) * s = a * s + s
OBVIOUS

\* As many steps as fit.
LEMMA Quotients ==
  ASSUME NEW d \in Nat, NEW s \in Int, s > 0
  PROVE  /\ d \div s \in Nat
         /\ (d \div s) * s <= d /\ d < (d \div s) * s + s
         /\ d % s = 0 => (d \div s) * s = d
OBVIOUS

\* The i-th regular time, and all n of them.
RegularTime(o, error, i) ==
  LET t == o.start + i * o.step IN <<t, IF t = o.end THEN error ELSE 0>>
AllTimes(o, n, error) == [k \in 1..n |-> RegularTime(o, error, k - 1)]

TimeRange(o) == o.start \in Int /\ o.end \in Int /\ o.step \in Int /\ o.step > 0 /\ o.start < o.end

\* n regular times are the ones before the end, and maybe one there.
Counts(o, n) ==
  /\ n \in Nat /\ n >= 1
  /\ \A i \in 0..(n - 2) : o.start + i * o.step + o.step <= o.end
  /\ o.start + (n - 1) * o.step <= o.end
  /\ o.end <= o.start + (n - 1) * o.step + o.step

LEMMA RegularCountsCount ==
  ASSUME NEW o, TimeRange(o), NEW regular \in RegularCounts(o)
  PROVE  Counts(o, regular + 1)
<1> DEFINE d == o.end - o.start
           q == d \div o.step
<1>1. d \in Nat /\ d > 0 /\ o.step \in Int /\ o.step > 0
  BY DEF TimeRange
<1>2. /\ q \in Nat /\ q * o.step <= d /\ d < q * o.step + o.step
      /\ d % o.step = 0 => q * o.step = d
  <2> HIDE DEF d
  <2> QED BY <1>1, Quotients
<1>3. regular = q \/ (d % o.step = 0 /\ regular = q - 1)
  BY DEF RegularCounts
<1> HIDE DEF q
<1>4. /\ regular \in Nat /\ regular * o.step <= d /\ d <= regular * o.step + o.step
  <2>1. CASE regular = q
    BY <2>1, <1>1, <1>2
  <2>2. CASE d % o.step = 0 /\ regular = q - 1
    <3>1. q # 0
      BY <2>2, <1>1, <1>2
    <3>2. regular \in Nat /\ q = regular + 1
      BY <3>1, <2>2, <1>2
    <3>3. q * o.step = regular * o.step + o.step
      BY <3>2, <1>1, Products
    <3>4. regular * o.step \in Int
      BY <3>2, <1>1
    <3> HIDE DEF d
    <3> QED BY <3>2, <3>3, <3>4, <2>2, <1>1, <1>2
  <2> QED BY <2>1, <2>2, <1>3
<1>5. ASSUME NEW i \in 0..(regular - 1) PROVE o.start + i * o.step + o.step <= o.end
  <2>1. i \in Int /\ i + 1 \in Int /\ regular \in Int /\ (i + 1 = regular \/ i + 1 < regular)
    BY <1>4
  <2>2. (i + 1) * o.step <= regular * o.step /\ (i + 1) * o.step = i * o.step + o.step
    BY <2>1, <1>1, Products
  <2>3. i * o.step \in Int /\ regular * o.step \in Int
    BY <2>1, <1>1
  <2> QED BY <2>2, <2>3, <1>1, <1>4 DEF TimeRange
<1>6. regular * o.step \in Int /\ (regular + 1) - 1 = regular /\ (regular + 1) - 2 = regular - 1
  BY <1>1, <1>4
<1> QED BY <1>1, <1>4, <1>5, <1>6 DEF Counts, TimeRange

TimePairs == Int \X Int

\* The times that are kept: only one at the end may be left out.
LEMMA RegularTimesAre ==
  ASSUME NEW o, TimeRange(o), NEW regular \in Int, Counts(o, regular + 1), NEW error \in Int
  PROVE  \E m \in Nat :
           /\ m >= 1 /\ (m = regular + 1 \/ (m = regular /\ o.start + regular * o.step = o.end))
           /\ RegularTimes(o, regular, error) = AllTimes(o, m, error)
           /\ m = regular + 1 => ~Earlier(At(o.end), RegularTime(o, error, regular))
<1> DEFINE n == regular + 1
           all == AllTimes(o, n, error)
           S == {time \in Range(all) : ~Earlier(At(o.end), time)}
           K == KeptOf(all, S)
           T(k) == RegularTime(o, error, k - 1)
<1>1. n \in Nat /\ n >= 1 /\ regular \in Nat
  BY DEF Counts
<1>2. RegularTimes(o, regular, error) = K[Len(all)]
  BY DEF RegularTimes, Selected, AllTimes, RegularTime
<1>3. \A k \in 1..n : T(k) \in TimePairs
  <2> TAKE k \in 1..n
  <2>1. k - 1 \in Int /\ (k - 1) * o.step \in Int
    BY <1>1 DEF TimeRange
  <2> QED BY <2>1 DEF RegularTime, TimePairs, TimeRange
<1>4. all \in Seq(TimePairs) /\ Len(all) = n /\ DOMAIN all = 1..n /\ \A k \in 1..n : all[k] = T(k)
  <2>1. all = [k \in 1..n |-> T(k)]
    BY DEF AllTimes
  <2> HIDE DEF all, T
  <2> QED BY <1>1, <1>3, <2>1
<1> HIDE DEF all
<1>5. \A k \in 1..n : all[k] \in S <=> ~Earlier(At(o.end), T(k))
  BY <1>4 DEF Range
<1> HIDE DEF S
<1>6. /\ K \in [0..n -> Seq(TimePairs)] /\ K[0] = <<>>
      /\ \A k \in 1..n : K[k] = IF all[k] \notin S THEN K[k - 1] ELSE Append(K[k - 1], all[k])
  <2>1. all \in Seq(TimePairs) /\ Len(all) = n
    BY <1>4
  <2> HIDE DEF n, T
  <2>2. /\ K \in [0..Len(all) -> Seq(TimePairs)] /\ K[0] = <<>>
        /\ \A k \in 1..Len(all) : K[k] = IF all[k] \notin S THEN K[k - 1] ELSE Append(K[k - 1], all[k])
    <3>1. KeptOf(all, S) \in [0..Len(all) -> Seq(TimePairs)]
      BY ONLY <2>1, KeptOfSteps
    <3>2. KeptOf(all, S)[0] = <<>>
      BY ONLY <2>1, KeptOfSteps
    <3>3. \A k \in 1..Len(all) : KeptOf(all, S)[k] = IF all[k] \notin S THEN KeptOf(all, S)[k - 1]
                                                    ELSE Append(KeptOf(all, S)[k - 1], all[k])
      BY ONLY <2>1, KeptOfSteps
    <3> QED BY ONLY <3>1, <3>2, <3>3
  <2> HIDE DEF K
  <2> QED BY ONLY <2>1, <2>2
<1> HIDE DEF K
\* None before the last is left out.
<1>7. ASSUME NEW k \in 1..(n - 1) PROVE all[k] \in S
  <2>1. k - 1 \in 0..(n - 2) /\ (k - 1) * o.step \in Int /\ k \in 1..n
    BY <1>1 DEF TimeRange
  <2>2. o.start + (k - 1) * o.step < o.end
    BY <2>1 DEF Counts, TimeRange
  <2>3. ~Earlier(At(o.end), T(k))
    BY <2>1, <2>2 DEF Earlier, At, RegularTime, TimeRange
  <2> QED BY <2>1, <2>3, <1>5
<1> DEFINE Part(k) == AllTimes(o, k, error)
           P == {k \in 0..(n - 1) : K[k] = Part(k)}
<1>8. \A k \in 0..(n - 1) : Part(k) \in Seq(TimePairs) /\ Append(Part(k), T(k + 1)) = Part(k + 1)
  <2> TAKE k \in 0..(n - 1)
  <2>1. Part(k) = [i \in 1..k |-> T(i)] /\ Part(k + 1) = [i \in 1..(k + 1) |-> T(i)]
    BY DEF AllTimes
  <2>2. \A i \in 1..(k + 1) : T(i) \in TimePairs
    <3>1. 1..(k + 1) \subseteq 1..n
      BY <1>1
    <3> QED BY <3>1, <1>3
  <2> HIDE DEF Part, T
  <2> QED BY <1>1, <2>1, <2>2
<1> HIDE DEF Part
<1>9. 0 \in P
  <2>1. Part(0) = <<>>
    BY DEF Part, AllTimes
  <2> QED BY <2>1, <1>1, <1>6
<1>10. ASSUME NEW k \in 0..((n - 1) - 1), k \in P PROVE k + 1 \in P
  <2>1. k + 1 \in 1..(n - 1) /\ k + 1 \in 1..n /\ (k + 1) - 1 = k /\ k \in 0..(n - 1) /\ k + 1 \in 0..(n - 1)
    BY <1>1
  <2>2. K[k + 1] = Append(K[k], T(k + 1))
    BY <2>1, <1>4, <1>6, <1>7
  <2>3. K[k] = Part(k)
    BY <1>10
  <2> HIDE DEF T
  <2> QED BY <2>1, <2>2, <2>3, <1>8
<1>11. 0..(n - 1) \subseteq P
  <2> HIDE DEF P, n
  <2>1. n - 1 \in Nat
    BY <1>1
  <2> QED BY <2>1, <1>9, <1>10, UpTo
<1>12. K[n - 1] = Part(n - 1) /\ n \in 1..n /\ n - 1 \in 0..(n - 1)
  <2>1. n - 1 \in 0..(n - 1) /\ n \in 1..n
    BY <1>1
  <2> QED BY <2>1, <1>11
<1>13. K[n] = IF all[n] \notin S THEN Part(n - 1) ELSE Part(n)
  <2>1. K[n] = IF all[n] \notin S THEN Part(n - 1) ELSE Append(Part(n - 1), T(n))
    BY <1>4, <1>6, <1>12
  <2>2. Append(Part(n - 1), T((n - 1) + 1)) = Part((n - 1) + 1) /\ (n - 1) + 1 = n
    BY <1>1, <1>8, <1>12
  <2> HIDE DEF T, n
  <2> QED BY <2>1, <2>2
<1>14. CASE all[n] \in S
  <2>1. ~Earlier(At(o.end), RegularTime(o, error, regular))
    <3>1. n - 1 = regular
      BY <1>1
    <3> QED BY <3>1, <1>5, <1>12, <1>14
  <2> WITNESS n \in Nat
  <2> QED BY <2>1, <1>1, <1>2, <1>4, <1>13, <1>14 DEF Part
<1>15. CASE all[n] \notin S
  <2>1. Earlier(At(o.end), T(n)) /\ n - 1 = regular
    BY <1>1, <1>5, <1>12, <1>15
  <2>2. o.start + regular * o.step <= o.end /\ regular * o.step \in Int
    BY <1>1, <2>1 DEF Counts, TimeRange
  <2>3. o.start + regular * o.step = o.end
    BY <2>1, <2>2, <1>1 DEF Earlier, At, RegularTime, TimeRange
  <2>4. regular # 0
    BY <2>3 DEF TimeRange
  <2>5. RegularTimes(o, regular, error) = AllTimes(o, regular, error)
    BY <2>1, <1>2, <1>4, <1>13, <1>15 DEF Part
  <2>6. regular >= 1 /\ regular # regular + 1
    BY <2>4, <1>1
  <2> WITNESS regular \in Nat
  <2> QED BY <2>3, <2>5, <2>6
<1> QED BY <1>14, <1>15

\* One time comes after another, and no more than a step.
NextTime(o, a, b) == Earlier(a, b) /\ ~Earlier(<<a[1] + o.step, a[2]>>, b)

TimesSpan(o, ts) ==
  /\ ts \in Seq(TimePairs) /\ Len(ts) >= 1
  /\ ts[1] = At(o.start) /\ ts[Len(ts)] = At(o.end)
  /\ \A k \in 1..(Len(ts) - 1) : NextTime(o, ts[k], ts[k + 1])

LEMMA SampleTimesSpan ==
  ASSUME NEW o \in ClipRanges, IsRange(o), NEW regular \in RegularCounts(o), NEW error \in Errors
  PROVE  TimesSpan(o, SampleTimes(o, regular, error))
<1>1. o.start \in Int /\ o.end \in Int /\ o.step \in Int /\ error \in Int /\ Tolerance \in Nat
  BY ClipsAssumption
<1>2. o.step > 0 /\ o.start <= o.end
  BY DEF IsRange
<1>3. CASE o.start = o.end
  <2>1. SampleTimes(o, regular, error) = <<At(o.start)>>
    BY <1>3 DEF SampleTimes
  <2>2. At(o.start) \in TimePairs
    BY <1>1 DEF At, TimePairs
  <2> HIDE DEF At
  <2> QED BY <2>1, <2>2, <1>3 DEF TimesSpan
<1>4. CASE o.start # o.end
  <2> DEFINE kept == RegularTimes(o, regular, error)
             T(k) == RegularTime(o, error, k - 1)
             t(k) == o.start + (k - 1) * o.step
  <2>1. TimeRange(o)
    BY <1>1, <1>2, <1>4 DEF TimeRange
  <2>2. Counts(o, regular + 1)
    BY <2>1, RegularCountsCount
  <2>3. regular \in Nat /\ (regular + 1) - 1 = regular
    <3>1. (o.end - o.start) \div o.step \in Int
      BY <1>1, <1>2
    <3>2. regular \in Int
      BY <3>1 DEF RegularCounts
    <3> QED BY <3>2, <2>2 DEF Counts
  <2>4. PICK m \in Nat :
          /\ m >= 1 /\ (m = regular + 1 \/ (m = regular /\ o.start + regular * o.step = o.end))
          /\ kept = AllTimes(o, m, error)
          /\ m = regular + 1 => ~Earlier(At(o.end), RegularTime(o, error, regular))
    BY <1>1, <2>1, <2>2, <2>3, RegularTimesAre
  <2>5. \A k \in 1..m : t(k) \in Int /\ T(k) = <<t(k), IF t(k) = o.end THEN error ELSE 0>> /\ T(k) \in TimePairs
    <3> TAKE k \in 1..m
    <3>1. k - 1 \in Int /\ (k - 1) * o.step \in Int
      BY <1>1
    <3> QED BY <3>1, <1>1 DEF RegularTime, TimePairs
  <2>6. kept \in Seq(TimePairs) /\ Len(kept) = m /\ \A k \in 1..m : kept[k] = T(k)
    <3>1. kept = [k \in 1..m |-> T(k)]
      BY <2>4 DEF AllTimes
    <3> HIDE DEF kept, T
    <3> QED BY <2>4, <2>5, <3>1
  <2>7. t(1) = o.start /\ 1 \in 1..m /\ m \in 1..m
    BY <1>1, <2>4
  <2>8. ASSUME NEW k \in 1..(m - 1)
        PROVE  /\ k \in 1..m /\ k + 1 \in 1..m
               /\ t(k + 1) = t(k) + o.step /\ t(k + 1) <= o.end /\ t(k) < o.end
    <3>1. k \in 1..m /\ k + 1 \in 1..m /\ (k + 1) - 1 = (k - 1) + 1 /\ k - 1 \in Int
      BY <2>4
    <3>2. ((k - 1) + 1) * o.step = (k - 1) * o.step + o.step /\ (k - 1) * o.step \in Int
      BY <3>1, <1>1, <1>2, Products
    <3>3. k - 1 \in 0..((regular + 1) - 2)
      BY <3>1, <2>3, <2>4
    <3>4. o.start + (k - 1) * o.step + o.step <= o.end
      BY <3>3, <2>2 DEF Counts
    <3> QED BY <3>1, <3>2, <3>4, <1>1, <1>2
  \* The last one kept is not after the end, and less than a step away.
  <2>9. t(m) <= o.end /\ o.end <= t(m) + o.step /\ (t(m) = o.end => ~Earlier(At(o.end), T(m)))
    <3>1. CASE m = regular + 1
      BY <3>1, <2>2, <2>3, <2>4 DEF Counts
    <3>2. CASE m # regular + 1
      <4>1. m = regular /\ o.start + regular * o.step = o.end /\ m - 1 \in Int
        BY <3>2, <2>4
      <4>2. ((m - 1) + 1) * o.step = (m - 1) * o.step + o.step /\ (m - 1) * o.step \in Int /\ (m - 1) + 1 = m
        BY <4>1, <1>1, <1>2, Products
      <4>3. t(m) + o.step = o.end
        BY <4>1, <4>2, <1>1
      <4> QED BY <4>3, <2>5, <2>7, <1>1, <1>2
    <3> QED BY <3>1, <3>2
  <2> HIDE DEF t
  <2>10. ASSUME NEW k \in 1..(m - 1)
         PROVE  T(k) = <<t(k), 0>> /\ (T(k + 1) = <<t(k) + o.step, 0>> \/ (t(k + 1) = o.end /\ T(k + 1) = <<t(k) + o.step, error>>))
    <3>1. t(k) # o.end
      BY <2>5, <2>8, <1>1
    <3> QED BY <3>1, <2>5, <2>8
  <2>11. T(m) = <<t(m), IF t(m) = o.end THEN error ELSE 0>> /\ t(m) \in Int
    BY <2>5, <2>7
  <2> HIDE DEF T
  \* Of those kept each comes after the one before.
  <2>12. ASSUME NEW k \in 1..(m - 1), t(k + 1) = o.end => error <= 0
         PROVE  NextTime(o, T(k), T(k + 1))
    <3>1. t(k) \in Int
      BY <2>5, <2>8
    <3> QED BY <3>1, <2>10, <2>12, <1>1, <1>2 DEF NextTime, Earlier
  <2>13. t(m) = o.end => error <= 0
    BY <2>9, <2>11, <1>1 DEF Earlier, At
  <2>14. ASSUME NEW k \in 1..(m - 1) PROVE NextTime(o, T(k), T(k + 1))
    <3>1. t(k + 1) = o.end => k + 1 = m
      <4>1. CASE k + 1 \in 1..(m - 1)
        BY <4>1, <2>5, <2>8, <1>1
      <4>2. CASE k + 1 \notin 1..(m - 1)
        BY <4>2, <2>4
      <4> QED BY <4>1, <4>2
    <3> QED BY <3>1, <2>12, <2>13
  <2>15. Last(kept) = T(m)
    BY <2>6, <2>7 DEF Last
  <2> HIDE DEF kept
  <2>16. At(o.end) \in TimePairs /\ At(o.end) = <<o.end, 0>> /\ At(o.start) = <<o.start, 0>>
    BY <1>1 DEF At, TimePairs
  <2>17. CASE Earlier(Last(kept), <<o.end, -Tolerance>>)
    <3> DEFINE ts == Append(kept, At(o.end))
    <3>1. SampleTimes(o, regular, error) = ts
      BY <1>4, <2>17 DEF SampleTimes, kept
    <3>2. NextTime(o, T(m), At(o.end))
      <4>1. CASE t(m) = o.end
        <5>1. T(m) = <<o.end, error>> /\ error < -Tolerance
          BY <4>1, <2>11, <2>15, <2>17, <1>1 DEF Earlier
        <5> QED BY <5>1, <2>16, <1>1, <1>2 DEF NextTime, Earlier
      <4>2. CASE t(m) # o.end
        BY <4>2, <2>9, <2>11, <2>16, <1>1, <1>2 DEF NextTime, Earlier
      <4> QED BY <4>1, <4>2
    <3>3. /\ ts \in Seq(TimePairs) /\ Len(ts) = m + 1 /\ ts[m + 1] = At(o.end)
          /\ \A k \in 1..m : ts[k] = T(k)
      BY <2>6, <2>16, OneMore
    <3>4. T(1) = At(o.start)
      <4>1. CASE m = 1
        BY <4>1, <2>7, <2>11, <2>16, <1>4
      <4>2. CASE m # 1
        <5>1. 1 \in 1..(m - 1)
          BY <4>2, <2>4
        <5> QED BY <5>1, <2>7, <2>10, <2>16
      <4> QED BY <4>1, <4>2
    <3> HIDE DEF ts
    <3>5. ASSUME NEW k \in 1..m PROVE NextTime(o, ts[k], ts[k + 1])
      <4>1. CASE k = m
        BY <4>1, <3>2, <3>3, <2>7
      <4>2. CASE k # m
        <5>1. k \in 1..(m - 1) /\ k + 1 \in 1..m
          BY <4>2, <2>4
        <5> QED BY <5>1, <3>3, <2>14
      <4> QED BY <4>1, <4>2
    <3> QED BY <3>1, <3>3, <3>4, <3>5, <2>4, <2>7 DEF TimesSpan
  <2>18. CASE ~Earlier(Last(kept), <<o.end, -Tolerance>>)
    <3> DEFINE ts == [kept EXCEPT ![Len(kept)] = At(o.end)]
    <3>1. SampleTimes(o, regular, error) = ts
      BY <1>4, <2>18 DEF SampleTimes, kept
    <3>2. t(m) = o.end
      BY <2>9, <2>11, <2>15, <2>18, <1>1 DEF Earlier
    <3>3. m # 1
      BY <3>2, <2>7, <1>4
    <3>4. /\ ts \in Seq(TimePairs) /\ Len(ts) = m /\ ts[m] = At(o.end)
          /\ \A k \in 1..(m - 1) : ts[k] = T(k)
      BY <2>4, <2>6, <2>7, <2>16
    <3>5. T(1) = At(o.start) /\ 1 \in 1..(m - 1)
      <4>1. 1 \in 1..(m - 1)
        BY <3>3, <2>4
      <4> QED BY <4>1, <2>7, <2>10, <2>16
    <3> HIDE DEF ts
    <3>6. ASSUME NEW k \in 1..(m - 1) PROVE NextTime(o, ts[k], ts[k + 1])
      <4>1. CASE k + 1 = m
        <5>1. t(m) = t(k) + o.step /\ t(k) \in Int
          BY <4>1, <2>5, <2>8
        <5> QED BY <4>1, <5>1, <3>2, <3>4, <2>10, <2>16, <1>1, <1>2 DEF NextTime, Earlier
      <4>2. CASE k + 1 # m
        <5>1. k + 1 \in 1..(m - 1)
          BY <4>2, <2>4
        <5> QED BY <5>1, <3>4, <2>14
      <4> QED BY <4>1, <4>2
    <3> QED BY <3>1, <3>4, <3>5, <3>6, <2>4 DEF TimesSpan
  <2> QED BY <2>17, <2>18
<1> QED BY <1>3, <1>4

-----------------------------------------------------------------------------
(* Up the hierarchy of the roles *)

AndNone == HumanRoles \cup {NoRole}

\* What holds of a role if it does of its parent holds of all roles.
LEMMA DownTheHierarchy ==
  ASSUME NEW P, \A r \in HumanRoles : (ParentRole[r] # NoRole => ParentRole[r] \in P) => r \in P
  PROVE  HumanRoles \subseteq P
<1> DEFINE T == HumanRoles \ P
<1>1. SUFFICES ASSUME T # {} PROVE FALSE
  OBVIOUS
<1>2. T \in SUBSET HumanRoles
  OBVIOUS
<1>3. PICK r \in T : ParentRole[r] \notin T
  <2> HIDE DEF T
  <2> QED BY <1>1, <1>2, HierarchyAssumption DEF HumanRoles
<1>4. r \in HumanRoles /\ ParentRole[r] \in AndNone
  BY HierarchyAssumption DEF AndNone, HumanRoles
<1> QED BY <1>3, <1>4 DEF AndNone

LEMMA ParentsAreRoles ==
  NoRole \notin HumanRoles /\ \A r \in HumanRoles : ParentRole[r] \in AndNone
BY HierarchyAssumption DEF AndNone, HumanRoles

\* Where the climb from a role ends, as a relation.
Climbs(present, R) ==
  /\ \A r \in AndNone : r = NoRole \/ r \in present => <<r, r>> \in R
  /\ \A r \in HumanRoles \ present, x \in AndNone : <<ParentRole[r], x>> \in R => <<r, x>> \in R
LeastClimb(present) ==
  {e \in AndNone \X AndNone : \A R \in SUBSET (AndNone \X AndNone) : Climbs(present, R) => e \in R}

LEMMA LeastClimbClimbs ==
  ASSUME NEW present, NEW M, M = LeastClimb(present)
  PROVE  /\ M \in SUBSET (AndNone \X AndNone) /\ Climbs(present, M)
         /\ \A R \in SUBSET (AndNone \X AndNone) : Climbs(present, R) => M \subseteq R
<1>1. M \in SUBSET (AndNone \X AndNone)
  BY DEF LeastClimb
<1>2. \A R \in SUBSET (AndNone \X AndNone) : Climbs(present, R) => M \subseteq R
  BY DEF LeastClimb
<1>3. ASSUME NEW r \in AndNone, r = NoRole \/ r \in present PROVE <<r, r>> \in M
  <2>1. <<r, r>> \in AndNone \X AndNone
    OBVIOUS
  <2>2. \A R \in SUBSET (AndNone \X AndNone) : Climbs(present, R) => <<r, r>> \in R
    BY <1>3 DEF Climbs
  <2> QED BY <2>1, <2>2 DEF LeastClimb
<1>4. ASSUME NEW r \in HumanRoles \ present, NEW x \in AndNone, <<ParentRole[r], x>> \in M PROVE <<r, x>> \in M
  <2>1. <<r, x>> \in AndNone \X AndNone
    BY DEF AndNone
  <2>2. ASSUME NEW R \in SUBSET (AndNone \X AndNone), Climbs(present, R) PROVE <<r, x>> \in R
    <3>1. <<ParentRole[r], x>> \in R
      BY <1>2, <1>4, <2>2
    <3> QED BY <2>2, <3>1 DEF Climbs
  <2> QED BY <2>1, <2>2 DEF LeastClimb
<1> QED BY <1>1, <1>2, <1>3, <1>4 DEF Climbs

\* From a role that has one end at most above it, the climb ends there.
LEMMA ClimbEndsOnce ==
  ASSUME NEW present, NEW r \in AndNone, NEW y,
         IF r = NoRole \/ r \in present THEN y = r
         ELSE \A x \in AndNone : <<ParentRole[r], x>> \in LeastClimb(present) => x = y
  PROVE  \A x \in AndNone : <<r, x>> \in LeastClimb(present) => x = y
<1> DEFINE M == LeastClimb(present)
           R == {e \in M : e[1] = r => e[2] = y}
<1>1. /\ M \in SUBSET (AndNone \X AndNone) /\ Climbs(present, M)
      /\ \A S \in SUBSET (AndNone \X AndNone) : Climbs(present, S) => M \subseteq S
  BY LeastClimbClimbs
<1>2. \A x \in AndNone : <<ParentRole[r], x>> \in M /\ r # NoRole /\ r \notin present => x = y
  OBVIOUS
<1> HIDE DEF M
<1>3. R \in SUBSET (AndNone \X AndNone)
  BY <1>1
<1>4. ASSUME NEW s \in AndNone, s = NoRole \/ s \in present PROVE <<s, s>> \in R
  BY <1>1, <1>4 DEF Climbs
<1>5. ASSUME NEW s \in HumanRoles \ present, NEW x \in AndNone, <<ParentRole[s], x>> \in R PROVE <<s, x>> \in R
  <2>1. <<ParentRole[s], x>> \in M
    BY <1>5
  <2>2. <<s, x>> \in M
    BY <1>1, <2>1 DEF Climbs
  <2>3. s = r => x = y
    BY <1>2, <2>1, ParentsAreRoles
  <2> QED BY <2>2, <2>3
<1>6. Climbs(present, R)
  <2> HIDE DEF R
  <2> QED BY <1>4, <1>5 DEF Climbs
<1>7. M \subseteq R
  <2> HIDE DEF R
  <2> QED BY <1>1, <1>3, <1>6
<1> QED BY <1>7 DEF M

\* From every role there is one end.
LEMMA ClimbEnds ==
  ASSUME NEW present
  PROVE  \A r \in AndNone : \E x \in AndNone :
           /\ <<r, x>> \in LeastClimb(present)
           /\ \A z \in AndNone : <<r, z>> \in LeastClimb(present) => z = x
<1> DEFINE M == LeastClimb(present)
           Ends(r) == \E x \in AndNone : <<r, x>> \in M /\ \A z \in AndNone : <<r, z>> \in M => z = x
           P == {r \in HumanRoles : Ends(r)}
<1>1. Climbs(present, M)
  BY LeastClimbClimbs
<1>2. ASSUME NEW r \in AndNone, r = NoRole \/ r \in present PROVE Ends(r)
  <2>1. <<r, r>> \in M
    BY <1>1, <1>2 DEF Climbs
  <2>2. \A z \in AndNone : <<r, z>> \in M => z = r
    BY <1>2, ClimbEndsOnce
  <2> QED BY <2>1, <2>2
<1>3. ASSUME NEW r \in HumanRoles, ParentRole[r] # NoRole => ParentRole[r] \in P PROVE r \in P
  <2>1. CASE r \in present
    BY <2>1, <1>2 DEF AndNone
  <2>2. CASE r \notin present
    <3>1. Ends(ParentRole[r])
      <4>1. CASE ParentRole[r] = NoRole
        BY <4>1, <1>2 DEF AndNone
      <4>2. CASE ParentRole[r] # NoRole
        BY <4>2, <1>3
      <4> QED BY <4>1, <4>2
    <3>2. PICK x \in AndNone : <<ParentRole[r], x>> \in M /\ \A z \in AndNone : <<ParentRole[r], z>> \in M => z = x
      BY <3>1
    <3>3. <<r, x>> \in M
      BY <1>1, <2>2, <3>2 DEF Climbs
    <3>4. r \in AndNone /\ r # NoRole
      BY ParentsAreRoles DEF AndNone
    <3>5. \A z \in AndNone : <<r, z>> \in M => z = x
      BY <2>2, <3>2, <3>4, ClimbEndsOnce
    <3> QED BY <3>3, <3>5
  <2> QED BY <2>1, <2>2
<1>4. HumanRoles \subseteq P
  <2> HIDE DEF P
  <2> QED BY <1>3, DownTheHierarchy
<1> HIDE DEF M
<1> QED BY <1>2, <1>4 DEF AndNone, M

\* So there is the function that the climb recurs on.
ClimbSteps(present, f) ==
  f = [r \in HumanRoles \cup {NoRole} |-> IF r = NoRole \/ r \in present THEN r ELSE f[ParentRole[r]]]
Climb(present) == CHOOSE f : ClimbSteps(present, f)

LEMMA ClimbIs ==
  ASSUME NEW present
  PROVE  /\ ClimbSteps(present, Climb(present))
         /\ \A role : NearestPresentAncestor(role, present) = Climb(present)[ParentRole[role]]
<1> DEFINE M == LeastClimb(present)
           f == [r \in AndNone |-> CHOOSE x \in AndNone : <<r, x>> \in M]
<1>1. Climbs(present, M)
  BY LeastClimbClimbs
<1>2. \A r \in AndNone : \E x \in AndNone : <<r, x>> \in M /\ \A z \in AndNone : <<r, z>> \in M => z = x
  BY ClimbEnds
<1> HIDE DEF M
<1>3. \A r \in AndNone : f[r] \in AndNone /\ <<r, f[r]>> \in M
  BY <1>2
<1>5. f \in [AndNone -> AndNone]
  BY <1>3
<1> HIDE DEF f
<1>4. ASSUME NEW r \in AndNone PROVE f[r] = IF r = NoRole \/ r \in present THEN r ELSE f[ParentRole[r]]
  <2>1. CASE r = NoRole \/ r \in present
    <3>1. <<r, r>> \in M
      BY <1>1, <2>1 DEF Climbs
    <3> QED BY <2>1, <3>1, <1>2, <1>3
  <2>2. CASE r # NoRole /\ r \notin present
    <3>1. r \in HumanRoles \ present /\ ParentRole[r] \in AndNone
      BY <2>2, ParentsAreRoles DEF AndNone
    <3>2. <<r, f[ParentRole[r]]>> \in M
      BY <1>1, <1>3, <3>1 DEF Climbs
    <3> QED BY <2>2, <3>1, <3>2, <1>2, <1>3
  <2> QED BY <2>1, <2>2
<1>6. ClimbSteps(present, f)
  BY <1>4, <1>5 DEF ClimbSteps, AndNone
<1>7. ClimbSteps(present, Climb(present))
  <2> HIDE DEF ClimbSteps
  <2> QED BY <1>6 DEF Climb
<1>8. \A role : NearestPresentAncestor(role, present) = Climb(present)[ParentRole[role]]
  BY DEF NearestPresentAncestor, Climb, ClimbSteps
<1> QED BY <1>7, <1>8

-----------------------------------------------------------------------------
(* Quaternions *)

Quaternion == [1..4 -> Int]
Sum4(a, q) == a[1] * q[1] + a[2] * q[2] + a[3] * q[3] + a[4] * q[4]

LEMMA Parts ==
  ASSUME NEW q \in Quaternion
  PROVE  q[1] \in Int /\ q[2] \in Int /\ q[3] \in Int /\ q[4] \in Int
BY DEF Quaternion

LEMMA FourParts ==
  ASSUME NEW q \in Quaternion, NEW r \in Quaternion, q[1] = r[1], q[2] = r[2], q[3] = r[3], q[4] = r[4]
  PROVE  q = r
BY DEF Quaternion

\* A square is not negative, and is 0 only of 0.
LEMMA Squares == ASSUME NEW a \in Int PROVE a * a \in Nat /\ (a * a = 0 => a = 0)
OBVIOUS

LEMMA Factor ==
  ASSUME NEW g \in Int, NEW k \in Int, g > 0, g * k # 0
  PROVE  g <= (IF g * k < 0 THEN -(g * k) ELSE g * k)
OBVIOUS

LEMMA FourNaturals ==
  ASSUME NEW a \in Nat, NEW b \in Nat, NEW c \in Nat, NEW d \in Nat
  PROVE  a + b + c + d \in Nat /\ (a + b + c + d = 0 <=> a = 0 /\ b = 0 /\ c = 0 /\ d = 0)
OBVIOUS

LEMMA NormIs ==
  ASSUME NEW q \in Quaternion
  PROVE  Norm(q) \in Nat /\ (Norm(q) = 0 <=> q[1] = 0 /\ q[2] = 0 /\ q[3] = 0 /\ q[4] = 0)
<1>1. q[1] \in Int /\ q[2] \in Int /\ q[3] \in Int /\ q[4] \in Int
  BY Parts
<1>2. /\ q[1] * q[1] \in Nat /\ q[2] * q[2] \in Nat /\ q[3] * q[3] \in Nat /\ q[4] * q[4] \in Nat
  BY <1>1, Squares
<1>3. /\ q[1] * q[1] = 0 => q[1] = 0
      /\ q[2] * q[2] = 0 => q[2] = 0
      /\ q[3] * q[3] = 0 => q[3] = 0
      /\ q[4] * q[4] = 0 => q[4] = 0
  BY <1>1, Squares
<1>4. Norm(q) \in Nat /\ (Norm(q) = 0 <=> /\ q[1] * q[1] = 0 /\ q[2] * q[2] = 0
                                            /\ q[3] * q[3] = 0 /\ q[4] * q[4] = 0)
  <2> DEFINE a == q[1] * q[1]
             b == q[2] * q[2]
             c == q[3] * q[3]
             d == q[4] * q[4]
  <2>1. Norm(q) = a + b + c + d
    BY DEF Norm
  <2>2. a \in Nat /\ b \in Nat /\ c \in Nat /\ d \in Nat
    BY <1>2
  <2> HIDE DEF a, b, c, d
  <2>3. Norm(q) \in Nat /\ (Norm(q) = 0 <=> a = 0 /\ b = 0 /\ c = 0 /\ d = 0)
    BY ONLY <2>1, <2>2, FourNaturals
  <2> QED BY <2>3 DEF a, b, c, d
<1> QED BY <1>1, <1>3, <1>4

LEMMA Products0 == ASSUME NEW a \in Int, NEW b \in Int, a # 0, b # 0 PROVE a * b \in Int /\ a * b # 0
OBVIOUS

\* What can be made of the parts, so many times each.
Combos(q) == {Sum4(a, q) : a \in Quaternion}

LEMMA Distributes ==
  ASSUME NEW a1 \in Int, NEW a2 \in Int, NEW a3 \in Int, NEW a4 \in Int,
         NEW b1 \in Int, NEW b2 \in Int, NEW b3 \in Int, NEW b4 \in Int,
         NEW q1 \in Int, NEW q2 \in Int, NEW q3 \in Int, NEW q4 \in Int, NEW k \in Int
  PROVE  (a1 - k * b1) * q1 + (a2 - k * b2) * q2 + (a3 - k * b3) * q3 + (a4 - k * b4) * q4
       = (a1 * q1 + a2 * q2 + a3 * q3 + a4 * q4) - k * (b1 * q1 + b2 * q2 + b3 * q3 + b4 * q4)
OBVIOUS

LEMMA CombosClosed ==
  ASSUME NEW q \in Quaternion, NEW x \in Combos(q), NEW y \in Combos(q), NEW k \in Int
  PROVE  x - k * y \in Combos(q) /\ x \in Int
<1>1. PICK a \in Quaternion : x = Sum4(a, q)
  BY DEF Combos
<1>2. PICK b \in Quaternion : y = Sum4(b, q)
  BY DEF Combos
<1> DEFINE c == [i \in 1..4 |-> a[i] - k * b[i]]
<1>3. /\ a[1] \in Int /\ a[2] \in Int /\ a[3] \in Int /\ a[4] \in Int
      /\ b[1] \in Int /\ b[2] \in Int /\ b[3] \in Int /\ b[4] \in Int
      /\ q[1] \in Int /\ q[2] \in Int /\ q[3] \in Int /\ q[4] \in Int
  BY Parts
<1>4. c \in Quaternion
  <2>1. \A i \in 1..4 : a[i] - k * b[i] \in Int
    BY DEF Quaternion
  <2> QED BY <2>1 DEF Quaternion
<1>5. c[1] = a[1] - k * b[1] /\ c[2] = a[2] - k * b[2] /\ c[3] = a[3] - k * b[3] /\ c[4] = a[4] - k * b[4]
  OBVIOUS
<1> HIDE DEF c
<1>6. Sum4(c, q) = x - k * y
  <2>1. Sum4(c, q) = (a[1] - k * b[1]) * q[1] + (a[2] - k * b[2]) * q[2]
                       + (a[3] - k * b[3]) * q[3] + (a[4] - k * b[4]) * q[4]
    BY ONLY <1>5 DEF Sum4
  <2>2. Sum4(c, q) = (a[1] * q[1] + a[2] * q[2] + a[3] * q[3] + a[4] * q[4])
                       - k * (b[1] * q[1] + b[2] * q[2] + b[3] * q[3] + b[4] * q[4])
    BY ONLY <2>1, <1>3, k \in Int, Distributes
  <2> QED BY ONLY <2>2, <1>1, <1>2 DEF Sum4
<1>7. x \in Int
  BY ONLY <1>1, <1>3 DEF Sum4
<1> QED BY <1>4, <1>6, <1>7 DEF Combos

LEMMA PartsAreCombos ==
  ASSUME NEW q \in Quaternion
  PROVE  (\A i \in 1..4 : q[i] \in Combos(q)) /\ Norm(q) \in Combos(q)
<1> DEFINE U(i) == [k \in 1..4 |-> IF k = i THEN 1 ELSE 0]
<1>1. q[1] \in Int /\ q[2] \in Int /\ q[3] \in Int /\ q[4] \in Int
  BY Parts
<1>2. \A i \in 1..4 : U(i) \in Quaternion
  BY DEF Quaternion
<1>3. Sum4(U(1), q) = q[1] /\ Sum4(U(2), q) = q[2] /\ Sum4(U(3), q) = q[3] /\ Sum4(U(4), q) = q[4]
  BY <1>1 DEF Sum4
<1> HIDE DEF U
<1>4. q[1] \in Combos(q) /\ q[2] \in Combos(q) /\ q[3] \in Combos(q) /\ q[4] \in Combos(q)
  BY <1>2, <1>3 DEF Combos
<1>5. Norm(q) = Sum4(q, q)
  BY DEF Norm, Sum4
<1>6. \A i \in 1..4 : i = 1 \/ i = 2 \/ i = 3 \/ i = 4
  OBVIOUS
<1> QED BY <1>4, <1>5, <1>6 DEF Combos

LEMMA Division ==
  ASSUME NEW x \in Int, NEW g \in Int, g > 0
  PROVE  /\ x \div g \in Int /\ x % g \in Int /\ x % g >= 0 /\ x % g < g
         /\ x = g * (x \div g) + (x % g)
OBVIOUS

Divisor(q, g) == /\ g \in Int /\ g > 0 /\ g \in Combos(q)
                 /\ \A i \in 1..4 : q[i] % g = 0

\* The least positive combination divides every part.
LEMMA LeastDivides ==
  ASSUME NEW q \in Quaternion, Norm(q) # 0
  PROVE  \E g \in Int : Divisor(q, g)
<1> DEFINE S == {x \in Combos(q) : x > 0 /\ x <= Norm(q)}
<1>1. Norm(q) \in Nat /\ Norm(q) > 0
  BY NormIs
<1>2. Norm(q) \in S
  BY <1>1, PartsAreCombos
<1>3. \A x \in Combos(q) : x \in Int
  BY CombosClosed
<1>4. S \in SUBSET Int /\ S # {} /\ S \subseteq 1..Norm(q)
  BY <1>1, <1>2, <1>3
<1> HIDE DEF S
<1>5. IsFiniteSet(S)
  <2>1. IsFiniteSet(1..Norm(q))
    BY <1>1, FS_Interval
  <2> QED BY <2>1, <1>4, FS_Subset
<1>6. PICK g \in S : \A y \in S : g <= y
  BY <1>4, <1>5, LeastElement
<1>7. g \in Combos(q) /\ g \in Int /\ g > 0 /\ g <= Norm(q)
  BY <1>4 DEF S
<1>8. ASSUME NEW i \in 1..4 PROVE q[i] % g = 0
  <2> DEFINE k == q[i] \div g
             r == q[i] - k * g
  <2>1. q[i] \in Int /\ q[i] \in Combos(q)
    BY PartsAreCombos, <1>3
  <2>2. k \in Int /\ q[i] = g * k + (q[i] % g) /\ q[i] % g \in Nat /\ q[i] % g < g
    <3>1. q[i] \in Int /\ g \in Int /\ g > 0
      BY <2>1, <1>7
    <3>2. /\ q[i] \div g \in Int /\ q[i] % g \in Int /\ q[i] % g >= 0 /\ q[i] % g < g
          /\ q[i] = g * (q[i] \div g) + (q[i] % g)
      BY ONLY <3>1, Division
    <3>3. q[i] % g \in Nat
      BY ONLY <3>2
    <3> QED BY ONLY <3>2, <3>3
  <2> HIDE DEF k
  <2>3. r \in Combos(q) /\ r = q[i] % g
    <3>1. r \in Combos(q)
      BY <2>1, <2>2, <1>7, CombosClosed
    <3>2. g * k = k * g
      BY <2>2, <1>7
    <3> QED BY <3>1, <3>2, <2>1, <2>2, <1>7
  <2>4. CASE r > 0
    <3>1. r \in S
      BY <2>2, <2>3, <2>4, <1>1, <1>3, <1>7 DEF S
    <3>2. g <= r
      BY <3>1, <1>6
    <3> QED BY <3>2, <2>2, <2>3, <1>3, <1>7
  <2>5. CASE ~(r > 0)
    BY <2>5, <2>2, <2>3, <1>3
  <2> QED BY <2>4, <2>5
<1> QED BY <1>7, <1>8 DEF Divisor

\* And every number that divides the parts divides it.
LEMMA DivisorIsGreatest ==
  ASSUME NEW q \in Quaternion, NEW g, Divisor(q, g), NEW d \in Int, d > 0, \A i \in 1..4 : q[i] % d = 0
  PROVE  d <= g
<1>1. PICK a \in Quaternion : g = Sum4(a, q)
  BY DEF Divisor, Combos
<1> DEFINE k(i) == q[i] \div d
<1>2. \A i \in 1..4 : q[i] \in Int /\ a[i] \in Int
  BY DEF Quaternion
<1>3. \A i \in 1..4 : k(i) \in Int /\ q[i] = d * k(i)
  <2> TAKE i \in 1..4
  <2>1. q[i] \in Int /\ q[i] % d = 0
    BY <1>2
  <2> QED BY ONLY <2>1, d \in Int, d > 0, Division
<1> HIDE DEF k
<1>4. /\ a[1] \in Int /\ a[2] \in Int /\ a[3] \in Int /\ a[4] \in Int
      /\ k(1) \in Int /\ k(2) \in Int /\ k(3) \in Int /\ k(4) \in Int
      /\ q[1] = d * k(1) /\ q[2] = d * k(2) /\ q[3] = d * k(3) /\ q[4] = d * k(4)
  BY <1>2, <1>3
<1> DEFINE m == a[1] * k(1) + a[2] * k(2) + a[3] * k(3) + a[4] * k(4)
<1>5. g = d * m
  BY ONLY <1>1, <1>4, d \in Int DEF Sum4
<1>6. m \in Int
  BY <1>4
<1> HIDE DEF m
<1>7. g > 0 /\ g \in Int
  BY DEF Divisor
<1> QED BY ONLY <1>5, <1>6, <1>7, d \in Int, d > 0

AbsParts(q) == {IF q[i] < 0 THEN -q[i] ELSE q[i] : i \in 1..4}

LEMMA GreatestPart ==
  ASSUME NEW q \in Quaternion
  PROVE  Max(AbsParts(q)) \in Int /\ \A i \in 1..4 : q[i] <= Max(AbsParts(q)) /\ -q[i] <= Max(AbsParts(q))
<1> DEFINE f == [i \in 1..4 |-> IF q[i] < 0 THEN -q[i] ELSE q[i]]
<1>1. \A i \in 1..4 : q[i] \in Int /\ -q[i] \in Int
  BY DEF Quaternion
<1>2. AbsParts(q) = {f[i] : i \in 1..4} /\ f \in [1..4 -> Int]
  BY <1>1 DEF AbsParts
<1>3. AbsParts(q) \subseteq Int /\ AbsParts(q) # {}
  <2> HIDE DEF f
  <2> QED BY <1>2
<1>4. IsFiniteSet(AbsParts(q))
  <2>1. IsFiniteSet(1..4)
    <3> DEFINE n == 4
    <3>1. n \in Int /\ 1 \in Int
      OBVIOUS
    <3> HIDE DEF n
    <3>2. IsFiniteSet(1..n)
      BY <3>1, FS_Interval
    <3> QED BY <3>2 DEF n
  <2>2. f \in Surjection(1..4, AbsParts(q))
    <3> HIDE DEF f
    <3> QED BY <1>2 DEF Surjection
  <2> HIDE DEF f
  <2> QED BY <2>1, <2>2, FS_Surjection
<1>5. Max(AbsParts(q)) \in Int /\ \A y \in AbsParts(q) : Max(AbsParts(q)) >= y
  BY <1>3, <1>4, MaxIsGreatest
<1>6. ASSUME NEW i \in 1..4 PROVE q[i] <= Max(AbsParts(q)) /\ -q[i] <= Max(AbsParts(q))
  <2>1. (IF q[i] < 0 THEN -q[i] ELSE q[i]) \in AbsParts(q)
    BY DEF AbsParts
  <2>2. (IF q[i] < 0 THEN -q[i] ELSE q[i]) <= Max(AbsParts(q))
    BY <2>1, <1>5
  <2> QED BY <2>2, <1>1, <1>5
<1> QED BY <1>5, <1>6

\* So it is what Reduced divides by.
CommonDivisors(q) == {d \in 1..Max(AbsParts(q)) : \A i \in 1..4 : q[i] % d = 0}

LEMMA DivisorIs ==
  ASSUME NEW q \in Quaternion, Norm(q) # 0, NEW g, Divisor(q, g)
  PROVE  Max(CommonDivisors(q)) = g
<1>1. g \in Int /\ g > 0 /\ \A i \in 1..4 : q[i] % g = 0
  BY DEF Divisor
<1>2. \A i \in 1..4 : q[i] \in Int
  BY DEF Quaternion
<1>3. PICK i \in 1..4 : q[i] # 0
  <2>1. q[1] # 0 \/ q[2] # 0 \/ q[3] # 0 \/ q[4] # 0
    BY NormIs
  <2> QED BY <2>1
<1>4. g <= q[i] \/ g <= -q[i]
  <2>1. q[i] \in Int /\ q[i] % g = 0
    BY <1>1, <1>2
  <2> DEFINE k == q[i] \div g
  <2>2. k \in Int /\ q[i] = g * k
    BY ONLY <1>1, <2>1, Division
  <2> HIDE DEF k
  <2>3. g * k # 0
    BY <2>2, <1>3
  <2>4. g <= (IF g * k < 0 THEN -(g * k) ELSE g * k)
    BY ONLY <2>2, <2>3, <1>1, Factor
  <2> QED BY <2>1, <2>2, <2>4, <1>1
<1>5. Max(AbsParts(q)) \in Int /\ g <= Max(AbsParts(q))
  <2>1. Max(AbsParts(q)) \in Int /\ q[i] <= Max(AbsParts(q)) /\ -q[i] <= Max(AbsParts(q))
    BY GreatestPart
  <2> QED BY <2>1, <1>1, <1>2, <1>4
<1>6. g \in CommonDivisors(q)
  BY <1>1, <1>5 DEF CommonDivisors
<1>7. \A d \in CommonDivisors(q) : d \in Int /\ d <= g
  BY <1>5, DivisorIsGreatest DEF CommonDivisors
<1>8. \A x \in CommonDivisors(q) : (\A y \in CommonDivisors(q) : x >= y) => x = g
  BY <1>1, <1>6, <1>7
<1>9. \A y \in CommonDivisors(q) : g >= y
  BY <1>1, <1>7
<1> QED BY <1>6, <1>8, <1>9 DEF Max

-----------------------------------------------------------------------------
(* One quaternion for a rotation *)

Lead(q) == IF q[4] # 0 THEN 4 ELSE Min({i \in 1..4 : q[i] # 0})

\* No common divisor, the leading part positive.
Canonical(u) ==
  /\ u \in Quaternion /\ Lead(u) \in 1..4 /\ u[Lead(u)] > 0
  /\ \E a \in Quaternion : Sum4(a, u) = 1

\* The leading part is the same of quaternions with the same parts 0.
LEMMA SameLead ==
  ASSUME NEW u, NEW v, \A i \in 1..4 : u[i] = 0 <=> v[i] = 0
  PROVE  Lead(u) = Lead(v)
<1>1. {i \in 1..4 : u[i] # 0} = {i \in 1..4 : v[i] # 0}
  OBVIOUS
<1>2. u[4] # 0 <=> v[4] # 0
  OBVIOUS
<1> QED BY ONLY <1>1, <1>2 DEF Lead

LEMMA LeadIsPart ==
  ASSUME NEW q \in Quaternion, Norm(q) # 0
  PROVE  Lead(q) \in 1..4 /\ q[Lead(q)] # 0
<1> DEFINE S == {i \in 1..4 : q[i] # 0}
<1>1. S # {}
  <2>1. q[1] # 0 \/ q[2] # 0 \/ q[3] # 0 \/ q[4] # 0
    BY NormIs
  <2> QED BY <2>1
<1>2. IsFiniteSet(S) /\ S \in SUBSET Int
  <2> DEFINE n == 4
  <2>1. n \in Int /\ 1 \in Int /\ S \subseteq 1..n /\ \A i \in 1..n : i \in Int
    OBVIOUS
  <2> HIDE DEF n, S
  <2>2. IsFiniteSet(1..n)
    BY <2>1, FS_Interval
  <2> QED BY <2>1, <2>2, FS_Subset
<1>3. Min(S) \in S
  <2> HIDE DEF S
  <2> QED BY <1>1, <1>2, MinIsLeast
<1>4. CASE q[4] # 0
  BY <1>4 DEF Lead
<1>5. CASE q[4] = 0
  <2>1. Lead(q) = Min(S)
    BY <1>5 DEF Lead
  <2> QED BY <2>1, <1>3
<1> QED BY <1>4, <1>5

\* k times u.
Scaled(q, k, u) == \A i \in 1..4 : q[i] = k * u[i]

\* Every quaternion but 0 is so many times its reduced one, which is canonical.
LEMMA ReducedIs ==
  ASSUME NEW q \in Quaternion, Norm(q) # 0
  PROVE  Canonical(Reduced(q)) /\ \E k \in Int : k # 0 /\ Scaled(q, k, Reduced(q))
<1> DEFINE sign == IF q[Lead(q)] > 0 THEN 1 ELSE -1
<1>1. PICK g \in Int : Divisor(q, g)
  BY LeastDivides
<1>2. g \in Int /\ g > 0 /\ \A i \in 1..4 : q[i] % g = 0
  BY <1>1 DEF Divisor
<1>3. Max(CommonDivisors(q)) = g
  BY <1>1, DivisorIs
<1> DEFINE u == [i \in 1..4 |-> sign * (q[i] \div g)]
<1>4. Reduced(q) = u
  <2>1. Reduced(q) = IF Norm(q) = 0 THEN q
                     ELSE [i \in 1..4 |-> sign * (q[i] \div Max(CommonDivisors(q)))]
    BY DEF Reduced, CommonDivisors, AbsParts, Lead
  <2> HIDE DEF sign
  <2> QED BY <2>1, <1>3
<1>5. \A i \in 1..4 : q[i] \in Int /\ q[i] \div g \in Int /\ q[i] = g * (q[i] \div g)
  <2> TAKE i \in 1..4
  <2>1. q[i] \in Int /\ q[i] % g = 0
    BY <1>2 DEF Quaternion
  <2>2. q[i] \div g \in Int /\ q[i] = g * (q[i] \div g) + (q[i] % g)
    BY ONLY <2>1, <1>2, Division
  <2> QED BY ONLY <2>1, <2>2, <1>2
<1>6. sign \in Int /\ (sign = 1 \/ sign = -1)
  OBVIOUS
<1>7. Lead(q) \in 1..4 /\ q[Lead(q)] # 0
  BY LeadIsPart
<1>8. (q[Lead(q)] > 0 => sign = 1) /\ (~(q[Lead(q)] > 0) => sign = -1)
  OBVIOUS
<1> HIDE DEF sign
<1>9. u \in Quaternion /\ \A i \in 1..4 : u[i] = sign * (q[i] \div g)
  <2>1. \A i \in 1..4 : sign * (q[i] \div g) \in Int
    <3> TAKE i \in 1..4
    <3> QED BY ONLY <1>5, <1>6, i \in 1..4
  <2> QED BY <2>1 DEF Quaternion
<1> HIDE DEF u
<1> DEFINE k == sign * g
<1>10. k \in Int /\ k # 0
  BY ONLY <1>2, <1>6
<1>11. Scaled(q, k, u)
  <2>1. ASSUME NEW i \in 1..4 PROVE q[i] = k * u[i]
    <3> DEFINE d == q[i] \div g
    <3>1. d \in Int /\ q[i] = g * d /\ u[i] = sign * d
      BY <1>5, <1>9
    <3> HIDE DEF d
    <3>2. CASE sign = 1
      BY ONLY <3>1, <3>2, <1>2
    <3>3. CASE sign = -1
      BY ONLY <3>1, <3>3, <1>2
    <3> QED BY <3>2, <3>3, <1>6
  <2> QED BY <2>1 DEF Scaled
<1> HIDE DEF k
<1>12. \A i \in 1..4 : u[i] = 0 <=> q[i] = 0
  <2> TAKE i \in 1..4
  <2>1. q[i] = k * u[i] /\ u[i] \in Int
    BY <1>9, <1>11 DEF Scaled, Quaternion
  <2> QED BY ONLY <2>1, <1>10, Products0
<1>13. Lead(u) = Lead(q)
  BY <1>12, SameLead
<1>14. u[Lead(u)] > 0
  <2> DEFINE l == Lead(q)
             d == q[l] \div g
  <2>1. l \in 1..4 /\ q[l] # 0 /\ d \in Int /\ q[l] = g * d /\ u[l] = sign * d /\ Lead(u) = l
    BY <1>5, <1>7, <1>9, <1>13
  <2>2. (q[l] > 0 => sign = 1) /\ (~(q[l] > 0) => sign = -1)
    BY <1>8
  <2> HIDE DEF l, d
  <2>3. CASE q[l] > 0
    <3>1. d > 0
      BY ONLY <2>1, <2>3, <1>2
    <3> QED BY ONLY <3>1, <2>1, <2>2, <2>3
  <2>4. CASE ~(q[l] > 0)
    <3>1. d < 0
      BY ONLY <2>1, <2>4, <1>2
    <3> QED BY ONLY <3>1, <2>1, <2>2, <2>4
  <2> QED BY <2>3, <2>4
\* What made the divisor of the parts makes 1 of the reduced ones.
<1>15. \E a \in Quaternion : Sum4(a, u) = 1
  <2>1. PICK b \in Quaternion : g = Sum4(b, q)
    BY <1>1 DEF Divisor, Combos
  <2> DEFINE a == [i \in 1..4 |-> sign * b[i]]
  <2>2. \A i \in 1..4 : b[i] \in Int /\ u[i] \in Int
    BY <1>9 DEF Quaternion
  <2>3. a \in Quaternion /\ \A i \in 1..4 : a[i] = sign * b[i]
    <3>1. \A i \in 1..4 : sign * b[i] \in Int
      <4> TAKE i \in 1..4
      <4> QED BY ONLY <2>2, <1>6, i \in 1..4
    <3> QED BY <3>1 DEF Quaternion
  <2> HIDE DEF a
  <2>4. \A i \in 1..4 : q[i] = k * u[i]
    BY <1>11 DEF Scaled
  <2>5. g * Sum4(a, u) = g
    <3>1. /\ b[1] \in Int /\ b[2] \in Int /\ b[3] \in Int /\ b[4] \in Int
          /\ u[1] \in Int /\ u[2] \in Int /\ u[3] \in Int /\ u[4] \in Int
          /\ q[1] = k * u[1] /\ q[2] = k * u[2] /\ q[3] = k * u[3] /\ q[4] = k * u[4]
          /\ a[1] = sign * b[1] /\ a[2] = sign * b[2] /\ a[3] = sign * b[3] /\ a[4] = sign * b[4]
      BY <2>2, <2>3, <2>4
    <3>2. g = b[1] * q[1] + b[2] * q[2] + b[3] * q[3] + b[4] * q[4]
      BY ONLY <2>1 DEF Sum4
    <3>3. k = sign * g
      BY DEF k
    <3>4. Sum4(a, u) = a[1] * u[1] + a[2] * u[2] + a[3] * u[3] + a[4] * u[4]
      BY DEF Sum4
    <3>5. Sum4(a, u) = (sign * b[1]) * u[1] + (sign * b[2]) * u[2] + (sign * b[3]) * u[3] + (sign * b[4]) * u[4]
      BY ONLY <3>1, <3>4
    <3>6. /\ (sign * g) * u[1] = q[1] /\ (sign * g) * u[2] = q[2]
          /\ (sign * g) * u[3] = q[3] /\ (sign * g) * u[4] = q[4]
      BY ONLY <3>1, <3>3
    <3>7. sign \in Int /\ g \in Int
      BY <1>2, <1>6
    <3>8. g * Sum4(a, u) = b[1] * q[1] + b[2] * q[2] + b[3] * q[3] + b[4] * q[4]
      BY ONLY <3>1, <3>5, <3>6, <3>7
    <3> QED BY ONLY <3>2, <3>8
  <2>6. Sum4(a, u) \in Int
    <3>1. /\ a[1] \in Int /\ a[2] \in Int /\ a[3] \in Int /\ a[4] \in Int
          /\ u[1] \in Int /\ u[2] \in Int /\ u[3] \in Int /\ u[4] \in Int
      BY <2>2, <2>3 DEF Quaternion
    <3> QED BY ONLY <3>1 DEF Sum4
  <2>7. Sum4(a, u) = 1
    BY ONLY <2>5, <2>6, <1>2
  <2> QED BY <2>3, <2>7
<1>16. Canonical(u)
  BY <1>7, <1>9, <1>13, <1>14, <1>15 DEF Canonical
<1> QED BY <1>4, <1>10, <1>11, <1>16

LEMMA ScaledCombo ==
  ASSUME NEW u \in Quaternion, NEW v \in Quaternion, NEW k \in Int, NEW m \in Int,
         \A i \in 1..4 : k * u[i] = m * v[i], NEW a \in Quaternion, Sum4(a, u) = 1
  PROVE  Sum4(a, v) \in Int /\ k = m * Sum4(a, v)
<1>1. /\ a[1] \in Int /\ a[2] \in Int /\ a[3] \in Int /\ a[4] \in Int
      /\ u[1] \in Int /\ u[2] \in Int /\ u[3] \in Int /\ u[4] \in Int
      /\ v[1] \in Int /\ v[2] \in Int /\ v[3] \in Int /\ v[4] \in Int
  BY Parts
<1>0. k * u[1] = m * v[1] /\ k * u[2] = m * v[2] /\ k * u[3] = m * v[3] /\ k * u[4] = m * v[4]
  OBVIOUS
<1>2. /\ a[1] * (k * u[1]) = a[1] * (m * v[1]) /\ a[2] * (k * u[2]) = a[2] * (m * v[2])
      /\ a[3] * (k * u[3]) = a[3] * (m * v[3]) /\ a[4] * (k * u[4]) = a[4] * (m * v[4])
  BY ONLY <1>0
<1>3. a[1] * u[1] + a[2] * u[2] + a[3] * u[3] + a[4] * u[4] = 1
  BY DEF Sum4
<1>4. k * (a[1] * u[1] + a[2] * u[2] + a[3] * u[3] + a[4] * u[4])
        = a[1] * (k * u[1]) + a[2] * (k * u[2]) + a[3] * (k * u[3]) + a[4] * (k * u[4])
  BY ONLY <1>1, k \in Int
<1>5. m * (a[1] * v[1] + a[2] * v[2] + a[3] * v[3] + a[4] * v[4])
        = a[1] * (m * v[1]) + a[2] * (m * v[2]) + a[3] * (m * v[3]) + a[4] * (m * v[4])
  BY ONLY <1>1, m \in Int
<1>6. k = m * (a[1] * v[1] + a[2] * v[2] + a[3] * v[3] + a[4] * v[4])
  BY ONLY <1>1, <1>2, <1>3, <1>4, <1>5, k \in Int, m \in Int
<1>7. a[1] * v[1] + a[2] * v[2] + a[3] * v[3] + a[4] * v[4] \in Int
  BY ONLY <1>1
<1> QED BY <1>6, <1>7 DEF Sum4

LEMMA Units ==
  ASSUME NEW k \in Int, NEW m \in Int, k # 0, NEW x \in Int, NEW y \in Int, k = m * x, m = k * y
  PROVE  k = m \/ k = -m
<1>1. k * (1 - y * x) = 0
  OBVIOUS
<1>2. y * x \in Int
  OBVIOUS
<1>3. 1 - y * x = 0
  BY ONLY <1>1, <1>2, k \in Int, k # 0
<1>4. y * x = 1
  BY ONLY <1>2, <1>3
<1>5. x = 1 \/ x = -1
  <2>1. x # 0
    BY <1>4
  <2>2. CASE x > 1
    <3>1. y > 0 => y * x > 1
      BY <2>2
    <3>2. y <= 0 => y * x <= 0
      BY <2>2
    <3> QED BY <3>1, <3>2, <1>4
  <2>3. CASE x < -1
    <3>1. y < 0 => y * x > 1
      BY <2>3
    <3>2. y >= 0 => y * x <= 0
      BY <2>3
    <3> QED BY <3>1, <3>2, <1>4
  <2> QED BY <2>1, <2>2, <2>3
<1> QED BY <1>5

LEMMA Cancels ==
  ASSUME NEW k \in Int, k # 0, NEW a \in Int, NEW b \in Int
  PROVE  (k * a = k * b => a = b) /\ (k * a = (-k) * b => a = -b)
OBVIOUS

\* Of one rotation there is one canonical quaternion.
LEMMA CanonicalIsOne ==
  ASSUME NEW u, NEW v, Canonical(u), Canonical(v), NEW k \in Int, NEW m \in Int, k # 0, m # 0,
         \A i \in 1..4 : k * u[i] = m * v[i]
  PROVE  u = v
<1>1. u \in Quaternion /\ v \in Quaternion /\ u[Lead(u)] > 0 /\ v[Lead(v)] > 0 /\ Lead(u) \in 1..4
  BY DEF Canonical
<1>2. PICK a \in Quaternion : Sum4(a, u) = 1
  BY DEF Canonical
<1>3. PICK b \in Quaternion : Sum4(b, v) = 1
  BY DEF Canonical
<1>4. Sum4(a, v) \in Int /\ k = m * Sum4(a, v)
  BY <1>1, <1>2, ScaledCombo
<1>5. Sum4(b, u) \in Int /\ m = k * Sum4(b, u)
  <2>1. \A i \in 1..4 : m * v[i] = k * u[i]
    OBVIOUS
  <2> QED BY <2>1, <1>1, <1>3, ScaledCombo
<1>6. k = m \/ m = -k
  <2>1. k = m \/ k = -m
    BY ONLY <1>4, <1>5, k \in Int, m \in Int, k # 0, Units
  <2> QED BY <2>1
<1>7. \A i \in 1..4 : u[i] \in Int /\ v[i] \in Int
  BY <1>1 DEF Quaternion
<1>8. CASE k = m
  <2>1. \A i \in 1..4 : u[i] = v[i]
    <3> TAKE i \in 1..4
    <3>1. u[i] \in Int /\ v[i] \in Int /\ k * u[i] = k * v[i]
      BY <1>7, <1>8
    <3> QED BY ONLY <3>1, k \in Int, k # 0, Cancels
  <2> QED BY <2>1, <1>1, FourParts
<1>9. CASE m = -k
  <2>1. \A i \in 1..4 : u[i] = -v[i]
    <3> TAKE i \in 1..4
    <3>1. u[i] \in Int /\ v[i] \in Int /\ k * u[i] = (-k) * v[i]
      BY <1>7, <1>9
    <3> QED BY ONLY <3>1, k \in Int, k # 0, Cancels
  <2>2. \A i \in 1..4 : u[i] = 0 <=> v[i] = 0
    <3> TAKE i \in 1..4
    <3>1. u[i] \in Int /\ v[i] \in Int /\ u[i] = -v[i]
      BY <2>1, <1>7
    <3> QED BY ONLY <3>1
  <2>3. Lead(u) = Lead(v)
    BY <2>2, SameLead
  <2> QED BY <2>1, <2>3, <1>1, <1>7
<1> QED BY <1>6, <1>8, <1>9

LEMMA ReducedSame ==
  ASSUME NEW x \in Quaternion, NEW y \in Quaternion, Norm(x) # 0, Norm(y) # 0,
         NEW k \in Int, NEW m \in Int, k # 0, m # 0, \A i \in 1..4 : k * x[i] = m * y[i]
  PROVE  Reduced(x) = Reduced(y)
<1> DEFINE u == Reduced(x)
           v == Reduced(y)
<1>1. Canonical(u) /\ \E s \in Int : s # 0 /\ Scaled(x, s, u)
  BY ReducedIs
<1>2. Canonical(v) /\ \E t \in Int : t # 0 /\ Scaled(y, t, v)
  BY ReducedIs
<1>3. PICK s \in Int : s # 0 /\ Scaled(x, s, u)
  BY <1>1
<1>4. PICK t \in Int : t # 0 /\ Scaled(y, t, v)
  BY <1>2
<1> HIDE DEF u, v
<1>5. k * s \in Int /\ m * t \in Int /\ k * s # 0 /\ m * t # 0
  BY <1>3, <1>4, Products0
<1>6. \A i \in 1..4 : u[i] \in Int /\ v[i] \in Int
  BY <1>1, <1>2 DEF Canonical, Quaternion
<1>7. \A i \in 1..4 : (k * s) * u[i] = (m * t) * v[i]
  <2> TAKE i \in 1..4
  <2>1. k * (s * u[i]) = m * (t * v[i])
    BY <1>3, <1>4 DEF Scaled
  <2>2. u[i] \in Int /\ v[i] \in Int
    BY <1>6
  <2>3. k * (s * u[i]) = (k * s) * u[i] /\ m * (t * v[i]) = (m * t) * v[i]
    BY ONLY <2>2, k \in Int, m \in Int, s \in Int, t \in Int
  <2> QED BY ONLY <2>1, <2>3
<1>8. u = v
  BY <1>1, <1>2, <1>5, <1>7, CanonicalIsOne
<1> QED BY <1>8 DEF u, v

LEMMA Multiplies ==
  ASSUME NEW a \in Quaternion, NEW b \in Quaternion
  PROVE  /\ Multiply(a, b) \in Quaternion
         /\ Multiply(a, b)[1] = a[4] * b[1] + a[1] * b[4] + a[2] * b[3] - a[3] * b[2]
         /\ Multiply(a, b)[2] = a[4] * b[2] - a[1] * b[3] + a[2] * b[4] + a[3] * b[1]
         /\ Multiply(a, b)[3] = a[4] * b[3] + a[1] * b[2] - a[2] * b[1] + a[3] * b[4]
         /\ Multiply(a, b)[4] = a[4] * b[4] - a[1] * b[1] - a[2] * b[2] - a[3] * b[3]
<1>1. /\ a[1] \in Int /\ a[2] \in Int /\ a[3] \in Int /\ a[4] \in Int
      /\ b[1] \in Int /\ b[2] \in Int /\ b[3] \in Int /\ b[4] \in Int
  BY Parts
<1> DEFINE x == a[4] * b[1] + a[1] * b[4] + a[2] * b[3] - a[3] * b[2]
           y == a[4] * b[2] - a[1] * b[3] + a[2] * b[4] + a[3] * b[1]
           z == a[4] * b[3] + a[1] * b[2] - a[2] * b[1] + a[3] * b[4]
           w == a[4] * b[4] - a[1] * b[1] - a[2] * b[2] - a[3] * b[3]
<1>2. x \in Int /\ y \in Int /\ z \in Int /\ w \in Int
  BY ONLY <1>1
<1>3. Multiply(a, b) = <<x, y, z, w>>
  BY DEF Multiply
<1> HIDE DEF x, y, z, w
<1>4. <<x, y, z, w>> \in [1..4 -> Int]
  BY <1>2
<1>5. Multiply(a, b) \in Quaternion
  BY <1>3, <1>4 DEF Quaternion
<1>6. Multiply(a, b)[1] = x /\ Multiply(a, b)[2] = y /\ Multiply(a, b)[3] = z /\ Multiply(a, b)[4] = w
  BY <1>3
<1> QED BY <1>5, <1>6 DEF x, y, z, w

LEMMA Conjugates ==
  ASSUME NEW q \in Quaternion
  PROVE  /\ Conjugate(q) \in Quaternion
         /\ Conjugate(q)[1] = -q[1] /\ Conjugate(q)[2] = -q[2] /\ Conjugate(q)[3] = -q[3]
         /\ Conjugate(q)[4] = q[4]
<1>1. q[1] \in Int /\ q[2] \in Int /\ q[3] \in Int /\ q[4] \in Int
  BY Parts
<1> DEFINE x == -q[1]
           y == -q[2]
           z == -q[3]
           w == q[4]
<1>2. x \in Int /\ y \in Int /\ z \in Int /\ w \in Int
  BY ONLY <1>1
<1>3. Conjugate(q) = <<x, y, z, w>>
  BY DEF Conjugate
<1> HIDE DEF x, y, z, w
<1>4. <<x, y, z, w>> \in [1..4 -> Int]
  BY <1>2
<1>5. Conjugate(q) \in Quaternion
  BY <1>3, <1>4 DEF Quaternion
<1>6. Conjugate(q)[1] = x /\ Conjugate(q)[2] = y /\ Conjugate(q)[3] = z /\ Conjugate(q)[4] = w
  BY <1>3
<1> QED BY <1>5, <1>6 DEF x, y, z, w

\* A rotation after its inverse leaves what was there, up to the scale.
LEMMA MultiplyUndoes ==
  ASSUME NEW p \in Quaternion, NEW q \in Quaternion
  PROVE  Scaled(Multiply(p, Multiply(Conjugate(p), q)), Norm(p), q)
<1> DEFINE c == Conjugate(p)
           b == Multiply(c, q)
           x == Multiply(p, b)
<1>1. c \in Quaternion /\ c[1] = -p[1] /\ c[2] = -p[2] /\ c[3] = -p[3] /\ c[4] = p[4]
  BY Conjugates
<1> HIDE DEF c
<1>2. /\ b \in Quaternion
      /\ b[1] = c[4] * q[1] + c[1] * q[4] + c[2] * q[3] - c[3] * q[2]
      /\ b[2] = c[4] * q[2] - c[1] * q[3] + c[2] * q[4] + c[3] * q[1]
      /\ b[3] = c[4] * q[3] + c[1] * q[2] - c[2] * q[1] + c[3] * q[4]
      /\ b[4] = c[4] * q[4] - c[1] * q[1] - c[2] * q[2] - c[3] * q[3]
  BY <1>1, Multiplies
<1> HIDE DEF b
<1>3. /\ x[1] = p[4] * b[1] + p[1] * b[4] + p[2] * b[3] - p[3] * b[2]
      /\ x[2] = p[4] * b[2] - p[1] * b[3] + p[2] * b[4] + p[3] * b[1]
      /\ x[3] = p[4] * b[3] + p[1] * b[2] - p[2] * b[1] + p[3] * b[4]
      /\ x[4] = p[4] * b[4] - p[1] * b[1] - p[2] * b[2] - p[3] * b[3]
  BY <1>2, Multiplies
<1> HIDE DEF x
<1>4. /\ p[1] \in Int /\ p[2] \in Int /\ p[3] \in Int /\ p[4] \in Int
      /\ q[1] \in Int /\ q[2] \in Int /\ q[3] \in Int /\ q[4] \in Int
  BY Parts
<1>5. /\ b[1] = p[4] * q[1] + (-p[1]) * q[4] + (-p[2]) * q[3] - (-p[3]) * q[2]
      /\ b[2] = p[4] * q[2] - (-p[1]) * q[3] + (-p[2]) * q[4] + (-p[3]) * q[1]
      /\ b[3] = p[4] * q[3] + (-p[1]) * q[2] - (-p[2]) * q[1] + (-p[3]) * q[4]
      /\ b[4] = p[4] * q[4] - (-p[1]) * q[1] - (-p[2]) * q[2] - (-p[3]) * q[3]
  BY ONLY <1>1, <1>2
<1>6. Norm(p) = p[1] * p[1] + p[2] * p[2] + p[3] * p[3] + p[4] * p[4]
  BY DEF Norm
<1>7. /\ x[1] = (p[1] * p[1] + p[2] * p[2] + p[3] * p[3] + p[4] * p[4]) * q[1]
      /\ x[2] = (p[1] * p[1] + p[2] * p[2] + p[3] * p[3] + p[4] * p[4]) * q[2]
      /\ x[3] = (p[1] * p[1] + p[2] * p[2] + p[3] * p[3] + p[4] * p[4]) * q[3]
      /\ x[4] = (p[1] * p[1] + p[2] * p[2] + p[3] * p[3] + p[4] * p[4]) * q[4]
  <2>1. PICK p1 \in Int, p2 \in Int, p3 \in Int, p4 \in Int : p1 = p[1] /\ p2 = p[2] /\ p3 = p[3] /\ p4 = p[4]
    BY ONLY <1>4
  <2>2. PICK q1 \in Int, q2 \in Int, q3 \in Int, q4 \in Int : q1 = q[1] /\ q2 = q[2] /\ q3 = q[3] /\ q4 = q[4]
    BY ONLY <1>4
  <2> DEFINE c1 == p4 * q1 + (-p1) * q4 + (-p2) * q3 - (-p3) * q2
             c2 == p4 * q2 - (-p1) * q3 + (-p2) * q4 + (-p3) * q1
             c3 == p4 * q3 + (-p1) * q2 - (-p2) * q1 + (-p3) * q4
             c4 == p4 * q4 - (-p1) * q1 - (-p2) * q2 - (-p3) * q3
  <2>3. b[1] = c1 /\ b[2] = c2 /\ b[3] = c3 /\ b[4] = c4
    BY ONLY <1>5, <2>1, <2>2
  <2>4. /\ p4 * c1 + p1 * c4 + p2 * c3 - p3 * c2 = (p1 * p1 + p2 * p2 + p3 * p3 + p4 * p4) * q1
        /\ p4 * c2 - p1 * c3 + p2 * c4 + p3 * c1 = (p1 * p1 + p2 * p2 + p3 * p3 + p4 * p4) * q2
        /\ p4 * c3 + p1 * c2 - p2 * c1 + p3 * c4 = (p1 * p1 + p2 * p2 + p3 * p3 + p4 * p4) * q3
        /\ p4 * c4 - p1 * c1 - p2 * c2 - p3 * c3 = (p1 * p1 + p2 * p2 + p3 * p3 + p4 * p4) * q4
    BY ONLY p1 \in Int, p2 \in Int, p3 \in Int, p4 \in Int, q1 \in Int, q2 \in Int, q3 \in Int, q4 \in Int
  <2> HIDE DEF c1, c2, c3, c4
  <2> QED BY ONLY <1>3, <2>1, <2>2, <2>3, <2>4
<1>8. x[1] = Norm(p) * q[1] /\ x[2] = Norm(p) * q[2] /\ x[3] = Norm(p) * q[3] /\ x[4] = Norm(p) * q[4]
  BY ONLY <1>6, <1>7
<1>9. \A i \in 1..4 : i = 1 \/ i = 2 \/ i = 3 \/ i = 4
  OBVIOUS
<1>10. x = Multiply(p, Multiply(Conjugate(p), q))
  BY DEF x, b, c
<1> QED BY ONLY <1>8, <1>9, <1>10 DEF Scaled

\* Products of multiples are multiples of products.
LEMMA MultiplyScales ==
  ASSUME NEW a \in Quaternion, NEW b \in Quaternion, NEW x \in Quaternion, NEW y \in Quaternion,
         NEW s \in Int, NEW t \in Int, Scaled(x, s, a), Scaled(y, t, b)
  PROVE  Scaled(Multiply(x, y), s * t, Multiply(a, b))
<1>1. /\ a[1] \in Int /\ a[2] \in Int /\ a[3] \in Int /\ a[4] \in Int
      /\ b[1] \in Int /\ b[2] \in Int /\ b[3] \in Int /\ b[4] \in Int
  BY Parts
<1>2. /\ x[1] = s * a[1] /\ x[2] = s * a[2] /\ x[3] = s * a[3] /\ x[4] = s * a[4]
      /\ y[1] = t * b[1] /\ y[2] = t * b[2] /\ y[3] = t * b[3] /\ y[4] = t * b[4]
  BY DEF Scaled
<1> DEFINE m == Multiply(x, y)
           n == Multiply(a, b)
<1>3. /\ m[1] = x[4] * y[1] + x[1] * y[4] + x[2] * y[3] - x[3] * y[2]
      /\ m[2] = x[4] * y[2] - x[1] * y[3] + x[2] * y[4] + x[3] * y[1]
      /\ m[3] = x[4] * y[3] + x[1] * y[2] - x[2] * y[1] + x[3] * y[4]
      /\ m[4] = x[4] * y[4] - x[1] * y[1] - x[2] * y[2] - x[3] * y[3]
  BY Multiplies
<1>4. /\ n[1] = a[4] * b[1] + a[1] * b[4] + a[2] * b[3] - a[3] * b[2]
      /\ n[2] = a[4] * b[2] - a[1] * b[3] + a[2] * b[4] + a[3] * b[1]
      /\ n[3] = a[4] * b[3] + a[1] * b[2] - a[2] * b[1] + a[3] * b[4]
      /\ n[4] = a[4] * b[4] - a[1] * b[1] - a[2] * b[2] - a[3] * b[3]
  BY Multiplies
<1> HIDE DEF m, n
<1>5. /\ m[1] = (s * a[4]) * (t * b[1]) + (s * a[1]) * (t * b[4]) + (s * a[2]) * (t * b[3]) - (s * a[3]) * (t * b[2])
      /\ m[2] = (s * a[4]) * (t * b[2]) - (s * a[1]) * (t * b[3]) + (s * a[2]) * (t * b[4]) + (s * a[3]) * (t * b[1])
      /\ m[3] = (s * a[4]) * (t * b[3]) + (s * a[1]) * (t * b[2]) - (s * a[2]) * (t * b[1]) + (s * a[3]) * (t * b[4])
      /\ m[4] = (s * a[4]) * (t * b[4]) - (s * a[1]) * (t * b[1]) - (s * a[2]) * (t * b[2]) - (s * a[3]) * (t * b[3])
  BY ONLY <1>2, <1>3
<1>6. /\ m[1] = (s * t) * n[1] /\ m[2] = (s * t) * n[2] /\ m[3] = (s * t) * n[3] /\ m[4] = (s * t) * n[4]
  <2>1. PICK a1 \in Int, a2 \in Int, a3 \in Int, a4 \in Int : a1 = a[1] /\ a2 = a[2] /\ a3 = a[3] /\ a4 = a[4]
    BY ONLY <1>1
  <2>2. PICK b1 \in Int, b2 \in Int, b3 \in Int, b4 \in Int : b1 = b[1] /\ b2 = b[2] /\ b3 = b[3] /\ b4 = b[4]
    BY ONLY <1>1
  <2>3. /\ (s * a4) * (t * b1) + (s * a1) * (t * b4) + (s * a2) * (t * b3) - (s * a3) * (t * b2)
              = (s * t) * (a4 * b1 + a1 * b4 + a2 * b3 - a3 * b2)
        /\ (s * a4) * (t * b2) - (s * a1) * (t * b3) + (s * a2) * (t * b4) + (s * a3) * (t * b1)
              = (s * t) * (a4 * b2 - a1 * b3 + a2 * b4 + a3 * b1)
        /\ (s * a4) * (t * b3) + (s * a1) * (t * b2) - (s * a2) * (t * b1) + (s * a3) * (t * b4)
              = (s * t) * (a4 * b3 + a1 * b2 - a2 * b1 + a3 * b4)
        /\ (s * a4) * (t * b4) - (s * a1) * (t * b1) - (s * a2) * (t * b2) - (s * a3) * (t * b3)
              = (s * t) * (a4 * b4 - a1 * b1 - a2 * b2 - a3 * b3)
    BY ONLY a1 \in Int, a2 \in Int, a3 \in Int, a4 \in Int, b1 \in Int, b2 \in Int, b3 \in Int, b4 \in Int,
            s \in Int, t \in Int
  <2> QED BY ONLY <1>4, <1>5, <2>1, <2>2, <2>3
<1>7. \A i \in 1..4 : i = 1 \/ i = 2 \/ i = 3 \/ i = 4
  OBVIOUS
<1>8. m = Multiply(x, y) /\ n = Multiply(a, b)
  BY DEF m, n
<1> QED BY ONLY <1>6, <1>7, <1>8 DEF Scaled

LEMMA ScaledNorm ==
  ASSUME NEW x \in Quaternion, NEW y \in Quaternion, NEW k \in Int, k # 0, Scaled(x, k, y)
  PROVE  Norm(x) # 0 <=> Norm(y) # 0
<1>1. /\ x[1] = k * y[1] /\ x[2] = k * y[2] /\ x[3] = k * y[3] /\ x[4] = k * y[4]
  BY DEF Scaled
<1>2. y[1] \in Int /\ y[2] \in Int /\ y[3] \in Int /\ y[4] \in Int
  BY Parts
<1>3. \A v \in Int : k * v = 0 <=> v = 0
  BY Products0
<1>4. x[1] = 0 /\ x[2] = 0 /\ x[3] = 0 /\ x[4] = 0 <=> y[1] = 0 /\ y[2] = 0 /\ y[3] = 0 /\ y[4] = 0
  BY ONLY <1>1, <1>2, <1>3
<1>5. Norm(x) = 0 <=> x[1] = 0 /\ x[2] = 0 /\ x[3] = 0 /\ x[4] = 0
  BY NormIs
<1>6. Norm(y) = 0 <=> y[1] = 0 /\ y[2] = 0 /\ y[3] = 0 /\ y[4] = 0
  BY NormIs
<1> QED BY ONLY <1>4, <1>5, <1>6

\* Relative to a rotation and composed with it again, a rotation is what it was.
LEMMA ComposedAgain ==
  ASSUME NEW p \in Quaternion, NEW q \in Quaternion, Norm(p) # 0, Norm(q) # 0
  PROVE  Times(Reduced(p), Undone(p, q)) = Reduced(q)
<1> DEFINE b == Multiply(Conjugate(p), q)
           x == Multiply(Reduced(p), Reduced(b))
<1>1. b \in Quaternion
  BY Conjugates, Multiplies
<1>2. Scaled(Multiply(p, b), Norm(p), q) /\ Multiply(p, b) \in Quaternion /\ Norm(p) \in Int
  BY <1>1, MultiplyUndoes, Multiplies, NormIs
<1>3. Norm(b) # 0
  <2>1. SUFFICES ASSUME Norm(b) = 0 PROVE FALSE
    OBVIOUS
  <2>2. b[1] = 0 /\ b[2] = 0 /\ b[3] = 0 /\ b[4] = 0
    BY <1>1, <2>1, NormIs
  <2>3. Scaled(b, 0, b)
    BY <1>1, <2>2 DEF Scaled, Quaternion
  <2>4. p[1] \in Int /\ p[2] \in Int /\ p[3] \in Int /\ p[4] \in Int
    BY Parts
  <2> DEFINE m == Multiply(p, b)
  <2>5. /\ m[1] = p[4] * b[1] + p[1] * b[4] + p[2] * b[3] - p[3] * b[2]
        /\ m[2] = p[4] * b[2] - p[1] * b[3] + p[2] * b[4] + p[3] * b[1]
        /\ m[3] = p[4] * b[3] + p[1] * b[2] - p[2] * b[1] + p[3] * b[4]
        /\ m[4] = p[4] * b[4] - p[1] * b[1] - p[2] * b[2] - p[3] * b[3]
    BY <1>1, Multiplies
  <2> HIDE DEF m, b
  <2>6. m[1] = 0 /\ m[2] = 0 /\ m[3] = 0 /\ m[4] = 0
    BY ONLY <2>2, <2>4, <2>5
  <2>7. Norm(m) = 0
    BY <1>2, <2>6, NormIs DEF m
  <2>8. Norm(m) # 0
    BY <1>2, ScaledNorm DEF m
  <2> QED BY <2>7, <2>8
<1> HIDE DEF b
<1>4. PICK s \in Int : s # 0 /\ Scaled(p, s, Reduced(p))
  BY ReducedIs
<1>5. PICK t \in Int : t # 0 /\ Scaled(b, t, Reduced(b))
  BY <1>1, <1>3, ReducedIs
<1>6. Reduced(p) \in Quaternion /\ Reduced(b) \in Quaternion
  BY <1>1, <1>3, ReducedIs DEF Canonical
<1>7. x \in Quaternion /\ Scaled(Multiply(p, b), s * t, x)
  BY <1>1, <1>4, <1>5, <1>6, Multiplies, MultiplyScales
<1> HIDE DEF x
<1>8. s * t \in Int /\ s * t # 0
  BY <1>4, <1>5, Products0
<1>9. Norm(x) # 0
  <2>1. Norm(Multiply(p, b)) # 0
    BY <1>2, ScaledNorm
  <2> QED BY <2>1, <1>2, <1>7, <1>8, ScaledNorm
<1>10. \A i \in 1..4 : (s * t) * x[i] = Norm(p) * q[i]
  BY <1>2, <1>7 DEF Scaled
<1>11. Reduced(x) = Reduced(q)
  BY <1>2, <1>7, <1>8, <1>9, <1>10, ReducedSame
<1> QED BY <1>11 DEF Times, Undone, x, b

LEMMA ComposedFirst ==
  ASSUME NEW q \in Quaternion, Norm(q) # 0
  PROVE  Times(Identity, Reduced(q)) = Reduced(q)
<1> DEFINE u == Reduced(q)
           x == Multiply(Identity, u)
<1>1. PICK s \in Int : s # 0 /\ Scaled(q, s, u)
  BY ReducedIs
<1>2. u \in Quaternion
  BY ReducedIs DEF Canonical
<1>3. Identity \in Quaternion /\ Identity[1] = 0 /\ Identity[2] = 0 /\ Identity[3] = 0 /\ Identity[4] = 1
  BY DEF Identity, Quaternion
<1> HIDE DEF u
<1>4. /\ x \in Quaternion
      /\ x[1] = Identity[4] * u[1] + Identity[1] * u[4] + Identity[2] * u[3] - Identity[3] * u[2]
      /\ x[2] = Identity[4] * u[2] - Identity[1] * u[3] + Identity[2] * u[4] + Identity[3] * u[1]
      /\ x[3] = Identity[4] * u[3] + Identity[1] * u[2] - Identity[2] * u[1] + Identity[3] * u[4]
      /\ x[4] = Identity[4] * u[4] - Identity[1] * u[1] - Identity[2] * u[2] - Identity[3] * u[3]
  BY <1>2, <1>3, Multiplies
<1> HIDE DEF x
<1>5. u[1] \in Int /\ u[2] \in Int /\ u[3] \in Int /\ u[4] \in Int
  BY <1>2, Parts
<1>6. x[1] = u[1] /\ x[2] = u[2] /\ x[3] = u[3] /\ x[4] = u[4]
  BY ONLY <1>3, <1>4, <1>5
<1>7. x = u
  BY <1>2, <1>4, <1>6, FourParts
<1>8. Norm(u) # 0
  BY <1>1, <1>2, ScaledNorm
<1>9. \A i \in 1..4 : s * u[i] = 1 * q[i]
  <2> TAKE i \in 1..4
  <2>1. q[i] = s * u[i] /\ q[i] \in Int
    BY <1>1 DEF Scaled, Quaternion
  <2> QED BY ONLY <2>1
<1>10. Reduced(u) = Reduced(q)
  BY <1>1, <1>2, <1>8, <1>9, ReducedSame
<1> QED BY <1>7, <1>10 DEF Times, x, u

\* It ends at a role that is present, or at none.
LEMMA ClimbEndsPresent ==
  ASSUME NEW present, NEW c, ClimbSteps(present, c)
  PROVE  /\ c[NoRole] = NoRole
         /\ \A r \in HumanRoles : c[r] = IF r \in present THEN r ELSE c[ParentRole[r]]
         /\ \A r \in AndNone : c[r] \in (present \cap HumanRoles) \cup {NoRole}
<1>1. \A r \in AndNone : c[r] = IF r = NoRole \/ r \in present THEN r ELSE c[ParentRole[r]]
  BY DEF ClimbSteps, AndNone
<1>2. c[NoRole] = NoRole
  BY <1>1 DEF AndNone
<1>3. \A r \in HumanRoles : c[r] = IF r \in present THEN r ELSE c[ParentRole[r]]
  BY <1>1, ParentsAreRoles DEF AndNone
<1> DEFINE P == {r \in HumanRoles : c[r] \in (present \cap HumanRoles) \cup {NoRole}}
<1>4. ASSUME NEW r \in HumanRoles, ParentRole[r] # NoRole => ParentRole[r] \in P PROVE r \in P
  BY <1>2, <1>3, <1>4
<1>5. HumanRoles \subseteq P
  <2> HIDE DEF P
  <2> QED BY <1>4, DownTheHierarchy
<1> QED BY <1>2, <1>3, <1>5 DEF AndNone

\* The composition of local rotations down the hierarchy.
ComposedSteps(present, local, f) ==
  f = [r \in HumanRoles \cup {NoRole} |->
         IF r = NoRole THEN Identity
         ELSE IF r \in present THEN Times(f[ParentRole[r]], local[r]) ELSE f[ParentRole[r]]]
ComposedOf(present, local) == CHOOSE f : ComposedSteps(present, local, f)

\* A role's rotation relative to that of its nearest present ancestor.
IsLocal(w, r, ancestor, x) ==
  x = IF ancestor = NoRole THEN Reduced(w[r]) ELSE Undone(w[ancestor], w[r])

\* Rotations relative to the nearest present ancestors compose to what they
\* were taken of, whichever roles are missing.
LEMMA ComposedIs ==
  ASSUME NEW present \in SUBSET HumanRoles, NEW w, NEW local,
         \A r \in present : w[r] \in Quaternion /\ Norm(w[r]) # 0,
         \A r \in present : IsLocal(w, r, NearestPresentAncestor(r, present), local[r])
  PROVE  \A r \in present : ComposedOf(present, local)[r] = Reduced(w[r])
<1> DEFINE c == Climb(present)
           E(a) == IF a = NoRole THEN Identity ELSE Reduced(w[a])
           f == [r \in AndNone |-> E(c[r])]
           F == ComposedOf(present, local)
<1>1. ClimbSteps(present, c) /\ \A r \in present : NearestPresentAncestor(r, present) = c[ParentRole[r]]
  BY ClimbIs
<1>2. /\ c[NoRole] = NoRole
      /\ \A r \in HumanRoles : c[r] = IF r \in present THEN r ELSE c[ParentRole[r]]
      /\ \A r \in AndNone : c[r] \in present \cup {NoRole}
  BY <1>1, ClimbEndsPresent
<1>3. \A r \in present : IsLocal(w, r, c[ParentRole[r]], local[r])
  BY <1>1
<1> HIDE DEF c
<1>4. ASSUME NEW r \in present
      PROVE  /\ r # NoRole /\ ParentRole[r] \in AndNone /\ E(c[r]) = Reduced(w[r])
             /\ Times(E(c[ParentRole[r]]), local[r]) = Reduced(w[r])
  <2>1. r # NoRole /\ ParentRole[r] \in AndNone /\ c[r] = r
    BY <1>2, ParentsAreRoles
  <2>2. c[ParentRole[r]] \in present \cup {NoRole}
    BY <1>2, <2>1
  <2> DEFINE a == c[ParentRole[r]]
  <2>3. IsLocal(w, r, a, local[r]) /\ w[r] \in Quaternion /\ Norm(w[r]) # 0
    BY <1>3
  <2>4. CASE a = NoRole
    <3>1. local[r] = Reduced(w[r]) /\ E(a) = Identity
      BY <2>3, <2>4 DEF IsLocal
    <3> HIDE DEF E, a
    <3>2. Times(E(a), local[r]) = Reduced(w[r])
      BY <2>3, <3>1, ComposedFirst
    <3> QED BY <2>1, <3>2 DEF a, E
  <2>5. CASE a # NoRole
    <3>1. local[r] = Undone(w[a], w[r]) /\ E(a) = Reduced(w[a])
      BY <2>3, <2>5 DEF IsLocal
    <3>2. w[a] \in Quaternion /\ Norm(w[a]) # 0
      BY <2>2, <2>5
    <3> HIDE DEF E, a
    <3>3. Times(E(a), local[r]) = Reduced(w[r])
      BY <2>3, <3>1, <3>2, ComposedAgain
    <3> QED BY <2>1, <3>3 DEF a, E
  <2> QED BY <2>4, <2>5
<1>5. ASSUME NEW r \in HumanRoles, r \notin present PROVE ParentRole[r] \in AndNone /\ c[r] = c[ParentRole[r]]
  <2>1. ParentRole[r] \in AndNone
    BY ParentsAreRoles
  <2>2. c[r] = IF r \in present THEN r ELSE c[ParentRole[r]]
    BY <1>2
  <2> QED BY ONLY <1>5, <2>1, <2>2
<1>6. E(c[NoRole]) = Identity
  BY <1>2
<1> HIDE DEF E
<1>7. \A r \in AndNone : f[r] = E(c[r])
  OBVIOUS
<1>8. ASSUME NEW r \in AndNone
      PROVE  E(c[r]) = IF r = NoRole THEN Identity
                       ELSE IF r \in present THEN Times(f[ParentRole[r]], local[r]) ELSE f[ParentRole[r]]
  <2>1. CASE r = NoRole
    BY <2>1, <1>6
  <2>2. CASE r \in present
    BY <2>2, <1>4, <1>7
  <2>3. CASE r # NoRole /\ r \notin present
    <3>1. r \in HumanRoles
      BY <2>3 DEF AndNone
    <3>2. f[ParentRole[r]] = E(c[r])
      BY <3>1, <2>3, <1>5, <1>7
    <3> QED BY <2>3, <3>2
  <2> QED BY <2>1, <2>2, <2>3
<1>9. ComposedSteps(present, local, f)
  BY <1>8 DEF ComposedSteps, AndNone
<1> HIDE DEF f
<1>10. ComposedSteps(present, local, F)
  <2> HIDE DEF ComposedSteps
  <2> QED BY <1>9 DEF ComposedOf
<1>11. \A r \in AndNone : F[r] = IF r = NoRole THEN Identity
                                ELSE IF r \in present THEN Times(F[ParentRole[r]], local[r]) ELSE F[ParentRole[r]]
  <2> HIDE DEF F
  <2> QED BY <1>10 DEF ComposedSteps, AndNone
<1> HIDE DEF F
<1>12. F[NoRole] = Identity
  BY <1>11 DEF AndNone
<1> DEFINE P == {r \in HumanRoles : F[r] = E(c[r])}
<1>13. ASSUME NEW r \in HumanRoles, ParentRole[r] # NoRole => ParentRole[r] \in P PROVE r \in P
  <2>1. F[ParentRole[r]] = E(c[ParentRole[r]])
    BY <1>6, <1>12, <1>13
  <2>2. r # NoRole /\ r \in AndNone
    BY ParentsAreRoles DEF AndNone
  <2>3. CASE r \in present
    BY <2>1, <2>2, <2>3, <1>4, <1>11
  <2>4. CASE r \notin present
    BY <2>1, <2>2, <2>4, <1>5, <1>11
  <2> QED BY <2>3, <2>4
<1>14. HumanRoles \subseteq P
  <2> HIDE DEF P
  <2> QED BY <1>13, DownTheHierarchy
<1>15. \A r \in present : F[r] = E(c[r]) /\ E(c[r]) = Reduced(w[r])
  BY <1>4, <1>14
<1> QED BY <1>15 DEF F

-----------------------------------------------------------------------------
(* Samples *)

LEMMA NothingChained ==
  ASSUME NEW T, NEW a \in Seq(T), NEW b \in Seq(T), NEW c \in Seq(T), a \o b \o c = <<>>
  PROVE  Len(a) = 0
<1>1. Len(a \o b \o c) = Len(a) + Len(b) + Len(c) /\ Len(a) \in Nat /\ Len(b) \in Nat /\ Len(c) \in Nat
  OBVIOUS
<1>2. Len(a \o b \o c) = 0
  OBVIOUS
<1> QED BY ONLY <1>1, <1>2

\* A frame that fails no role has a rotation at every role's joint.
LEMMA FaultlessIsUsable ==
  ASSUME bones \in Skeletons, adapted.source \in RoleMaps, NEW e \in Evaluations, Faults(e) = <<>>
  PROVE  \A r \in SourcePresent : WorldOf(e, r) \in Quaternion /\ Norm(WorldOf(e, r)) # 0
<1> DEFINE Unusable(r) == r # NoRole /\ ~IsUsableRotation(WorldOf(e, r))
           Ancestor(r) == NearestPresentAncestor(r, SourcePresent)
           S == {r \in SourcePresent : Unusable(r) \/ Unusable(Ancestor(r))}
           failing == Selected(Roles, S)
           Blame(i) == IF Unusable(failing[i]) THEN failing[i] ELSE Ancestor(failing[i])
           blame == [i \in DOMAIN failing |-> Blame(i)]
           unbounded == \E i \in DOMAIN e.channels :
                            e.channels[i].morph \in DOMAIN Morphs /\ ~e.channels[i].finite
           b == IF "hips" \in SourcePresent /\ ~e.root THEN <<"root.position">> ELSE <<>>
           d == IF unbounded THEN <<"channels">> ELSE <<>>
<1>1. Faults(e) = blame \o b \o d
  BY DEF Faults
<1>2. Roles \in Seq(HumanRoles) /\ {Roles[k] : k \in 1..Len(Roles)} = HumanRoles
  <2>1. Roles \in Seq(HumanRoles) /\ DOMAIN Roles = 1..Len(Roles)
    BY RolesAssumption DEF HumanRoles
  <2>2. HumanRoles = {Roles[k] : k \in DOMAIN Roles}
    BY DEF HumanRoles, Range
  <2> QED BY ONLY <2>1, <2>2
<1>3. SourcePresent \subseteq HumanRoles
  BY DEF SourcePresent, Present
<1> HIDE DEF unbounded
<1>4. \A r \in SourcePresent : Unusable(r) => r \in S
  OBVIOUS
<1>5. S \subseteq HumanRoles
  BY <1>3
<1> HIDE DEF S
<1>6. failing \in Seq(HumanRoles)
  BY <1>2, SelectedRanks
<1>7. {failing[k] : k \in 1..Len(failing)} = HumanRoles \cap S
  BY <1>2, SelectedMembers
<1> HIDE DEF failing
<1> DEFINE n == Len(failing)
           T == {Blame(i) : i \in 1..n} \cup {"root.position", "channels"}
<1>8. blame \in Seq(T) /\ Len(blame) = n
  <2>1. blame = [i \in 1..n |-> Blame(i)] /\ n \in Nat
    BY <1>6
  <2>2. \A i \in 1..n : Blame(i) \in T
    OBVIOUS
  <2> HIDE DEF T, Blame, blame
  <2> QED BY <2>1, <2>2
<1>9. b \in Seq(T) /\ d \in Seq(T)
  <2>1. "root.position" \in T /\ "channels" \in T
    OBVIOUS
  <2> HIDE DEF T
  <2> QED BY <2>1
<1> HIDE DEF T, blame, b, d
<1>10. n = 0
  BY <1>1, <1>8, <1>9, NothingChained
<1>11. S = {}
  <2>1. 1..n = {}
    BY <1>10
  <2> QED BY <2>1, <1>5, <1>7
<1> TAKE r \in SourcePresent
<1>12. r # NoRole /\ r \in HumanRoles
  BY <1>3, ParentsAreRoles
<1>13. WorldOf(e, r) \in Quaternion
  <2>1. adapted.source[r] \in 1..Len(bones)
    <3>1. adapted.source[r] \in 0..Len(bones) /\ Len(bones) \in Nat
      BY <1>12, SkeletonShape DEF RoleMaps, Places
    <3>2. adapted.source[r] # 0
      BY DEF SourcePresent, Present, Unmapped
    <3> QED BY <3>1, <3>2
  <2>2. adapted.source[r] \in DOMAIN bones
    BY <2>1, SkeletonShape
  <2> QED BY <2>2, EvaluationsAssumption DEF WorldOf, Quaternion
<1>14. IsUsableRotation(WorldOf(e, r))
  BY <1>4, <1>11, <1>12
<1>15. Norm(WorldOf(e, r)) > 0 /\ Norm(WorldOf(e, r)) \in Nat
  BY <1>13, <1>14, NormIs DEF IsUsableRotation
<1> QED BY <1>13, <1>15

\* A sample of such a frame composes to what was evaluated.
SampleComposes(s, e) ==
  \A r \in SourcePresent : ComposedOf(SourcePresent, s.local)[r] = Reduced(WorldOf(e, r))

LEMMA SamplesCompose ==
  ASSUME bones \in Skeletons, adapted.source \in RoleMaps, NEW e \in Evaluations, Faults(e) = <<>>, NEW time
  PROVE  SampleComposes(Sample(time, e), e)
<1> DEFINE w == [r \in HumanRoles |-> WorldOf(e, r)]
           local == [r \in SourcePresent |-> LocalRotation(e, r)]
<1>1. SourcePresent \in SUBSET HumanRoles
  BY DEF SourcePresent, Present
<1>2. \A r \in SourcePresent : w[r] = WorldOf(e, r) /\ w[r] \in Quaternion /\ Norm(w[r]) # 0
  BY <1>1, FaultlessIsUsable
<1>3. ASSUME NEW r \in SourcePresent
      PROVE  IsLocal(w, r, NearestPresentAncestor(r, SourcePresent), local[r])
  <2> DEFINE a == NearestPresentAncestor(r, SourcePresent)
  <2>1. a \in SourcePresent \cup {NoRole}
    <3>1. /\ ClimbSteps(SourcePresent, Climb(SourcePresent))
          /\ a = Climb(SourcePresent)[ParentRole[r]]
      BY ClimbIs
    <3>2. ParentRole[r] \in AndNone
      BY <1>1, ParentsAreRoles
    <3> QED BY <3>1, <3>2, ClimbEndsPresent
  <2>2. local[r] = IF a = NoRole THEN Reduced(WorldOf(e, r)) ELSE Undone(WorldOf(e, a), WorldOf(e, r))
    BY DEF LocalRotation
  <2> HIDE DEF a, local, w
  <2>3. w[r] = WorldOf(e, r) /\ (a # NoRole => w[a] = WorldOf(e, a))
    BY <1>2, <2>1
  <2>4. IsLocal(w, r, a, local[r])
    BY <2>2, <2>3 DEF IsLocal
  <2> QED BY <2>4 DEF a
<1>4. Sample(time, e).local = local
  BY DEF Sample
<1> HIDE DEF w, local
<1>5. \A r \in SourcePresent : ComposedOf(SourcePresent, local)[r] = Reduced(w[r])
  BY <1>1, <1>2, <1>3, ComposedIs
<1> QED BY <1>2, <1>4, <1>5 DEF SampleComposes

LEMMA SamplesStay ==
  ASSUME adapted' = adapted
  PROVE  \A time, e : Sample(time, e)' = Sample(time, e) /\ Faults(e)' = Faults(e)
<1>1. SourcePresent' = SourcePresent /\ \A e, r : WorldOf(e, r)' = WorldOf(e, r)
  BY DEF SourcePresent, WorldOf
<1>2. \A e, r : LocalRotation(e, r)' = LocalRotation(e, r)
  BY <1>1 DEF LocalRotation
<1>3. \A time, e : Sample(time, e)' = Sample(time, e)
  BY <1>1, <1>2 DEF Sample
<1>4. \A e : Faults(e)' = Faults(e)
  <2> TAKE e
  <2> DEFINE Unusable(r) == r # NoRole /\ ~IsUsableRotation(WorldOf(e, r))
             Ancestor(r) == NearestPresentAncestor(r, SourcePresent)
             S == {r \in SourcePresent : Unusable(r) \/ Unusable(Ancestor(r))}
             failing == Selected(Roles, S)
             blame == [i \in DOMAIN failing |-> IF Unusable(failing[i]) THEN failing[i] ELSE Ancestor(failing[i])]
             unbounded == \E i \in DOMAIN e.channels :
                            e.channels[i].morph \in DOMAIN Morphs /\ ~e.channels[i].finite
             b == IF "hips" \in SourcePresent /\ ~e.root THEN <<"root.position">> ELSE <<>>
             d == IF unbounded THEN <<"channels">> ELSE <<>>
  <2>1. Faults(e) = blame \o b \o d
    BY DEF Faults
  <2>2. S' = S /\ b' = b
    BY <1>1
  <2>3. failing' = failing
    BY <2>2
  <2>4. blame' = blame
    BY <2>3, <1>1
  <2>5. d' = d
    OBVIOUS
  <2>6. Faults(e)' = blame' \o b' \o d'
    BY DEF Faults
  <2> HIDE DEF blame, b, d, S, failing, unbounded
  <2> QED BY ONLY <2>1, <2>2, <2>4, <2>5, <2>6
<1> QED BY <1>3, <1>4

-----------------------------------------------------------------------------
(* The clip *)

IsSequence(s) == Len(s) \in Nat /\ s = [k \in 1..Len(s) |-> s[k]]

LEMMA LongerByOne ==
  ASSUME NEW s, IsSequence(s), NEW x
  PROVE  /\ IsSequence(Append(s, x)) /\ Len(Append(s, x)) = Len(s) + 1
         /\ Append(s, x)[Len(s) + 1] = x /\ \A k \in 1..Len(s) : Append(s, x)[k] = s[k]
<1> DEFINE T == {s[k] : k \in 1..Len(s)} \cup {x}
<1>1. s \in Seq(T)
  <2>1. x \in T /\ \A k \in 1..Len(s) : s[k] \in T
    OBVIOUS
  <2> HIDE DEF T
  <2> QED BY <2>1 DEF IsSequence
<1>2. x \in T
  OBVIOUS
<1> HIDE DEF T
<1>3. /\ Append(s, x) \in Seq(T) /\ Len(Append(s, x)) = Len(s) + 1
      /\ Append(s, x)[Len(s) + 1] = x /\ \A k \in 1..Len(s) : Append(s, x)[k] = s[k]
  BY <1>1, <1>2, OneMore
<1> DEFINE a == Append(s, x)
<1>4. ASSUME a \in Seq(T) PROVE IsSequence(a)
  <2> HIDE DEF a
  <2> QED BY <1>4 DEF IsSequence
<1> QED BY <1>3, <1>4

\* The samples so far are those of the frames evaluated for the first times, none
\* of which had a fault.
SampledOK ==
  /\ IsSequence(samples) /\ IsSequence(evaluated)
  /\ Len(samples) <= Len(times) /\ Len(samples) = Len(evaluated)
  /\ \A k \in 1..Len(samples) :
       /\ evaluated[k] \in Evaluations /\ Faults(evaluated[k]) = <<>>
       /\ samples[k] = Sample(times[k], evaluated[k])

ClipInv ==
  /\ phase \in {"model", "adapted"} => samples = <<>> /\ evaluated = <<>>
  /\ phase \in {"clipping", "clipped"} => TimesSpan(range, times) /\ SampledOK
  /\ phase = "clipped" => Len(samples) = Len(times)

LEMMA ClipKept ==
  ASSUME ClipInv, UNCHANGED clipVars, adapted' = adapted, phase' = phase
  PROVE  ClipInv'
<1>1. \A time, e : Sample(time, e)' = Sample(time, e) /\ Faults(e)' = Faults(e)
  BY SamplesStay
<1>2. SampledOK => SampledOK'
  BY <1>1 DEF SampledOK, clipVars, IsSequence
<1>3. TimesSpan(range, times)' = TimesSpan(range, times)
  BY DEF clipVars, TimesSpan, NextTime
<1> QED BY <1>2, <1>3 DEF ClipInv, clipVars

LEMMA ClipStep ==
  ASSUME BodyInv, ClipInv, AdapterNext
  PROVE  ClipInv'
<1>1. CASE SkeletonNext /\ UNCHANGED clipVars
  <2>1. /\ phase' \in {"model", "adapted"} => phase \in {"model", "adapted"}
        /\ phase' \notin {"clipping", "clipped"}
    BY <1>1 DEF SkeletonNext, Adapt, Retarget, CarryArmRoll
  <2> QED BY <1>1, <2>1 DEF ClipInv, clipVars
<1>2. CASE RefuseRange
  BY <1>2 DEF RefuseRange, ClipInv
<1>3. CASE BeginClip
  <2>1. PICK o \in ClipRanges :
          /\ IsRange(o) /\ range' = o
          /\ \E regular \in RegularCounts(o), error \in Errors : times' = SampleTimes(o, regular, error)
    BY <1>3 DEF BeginClip
  <2>2. TimesSpan(range', times')
    BY <2>1, SampleTimesSpan
  <2>3. phase = "adapted" /\ phase' = "clipping" /\ samples' = samples /\ evaluated' = evaluated
    BY <1>3 DEF BeginClip
  <2>4. samples' = <<>> /\ evaluated' = <<>>
    BY <2>3 DEF ClipInv
  <2>5. Len(times') \in Nat
    BY <2>2 DEF TimesSpan
  <2>6. SampledOK'
    BY <2>4, <2>5 DEF SampledOK, IsSequence
  <2>7. TimesSpan(range, times)'
    BY <2>2 DEF TimesSpan, NextTime
  <2> QED BY <2>3, <2>6, <2>7 DEF ClipInv
<1>4. CASE BuildSample
  <2>1. PICK e \in Evaluations :
          /\ evaluated' = Append(evaluated, e)
          /\ IF Faults(e) = <<>>
             THEN samples' = Append(samples, Sample(times[Len(samples) + 1], e)) /\ phase' = phase
             ELSE phase' = "failed"
    BY <1>4 DEF BuildSample
  <2>2. /\ phase = "clipping" /\ Len(samples) < Len(times) /\ adapted' = adapted
        /\ times' = times /\ range' = range
    BY <1>4 DEF BuildSample, bodyVars
  <2>3. CASE Faults(e) # <<>>
    BY <2>1, <2>3 DEF ClipInv
  <2>4. CASE Faults(e) = <<>>
    <3> DEFINE x == Sample(times[Len(samples) + 1], e)
    <3>1. samples' = Append(samples, x) /\ evaluated' = Append(evaluated, e) /\ phase' = phase
      BY <2>1, <2>4
    <3>2. SampledOK /\ TimesSpan(range, times)
      BY <2>2 DEF ClipInv
    <3>3. Len(times) \in Nat
      BY <3>2 DEF TimesSpan
    <3>4. /\ IsSequence(samples') /\ Len(samples') = Len(samples) + 1
          /\ samples'[Len(samples) + 1] = x /\ \A k \in 1..Len(samples) : samples'[k] = samples[k]
      <4> HIDE DEF x
      <4> QED BY <3>1, <3>2, LongerByOne DEF SampledOK
    <3>5. /\ IsSequence(evaluated') /\ Len(evaluated') = Len(samples) + 1
          /\ evaluated'[Len(samples) + 1] = e /\ \A k \in 1..Len(samples) : evaluated'[k] = evaluated[k]
      BY <3>1, <3>2, LongerByOne DEF SampledOK
    <3>6. Len(samples) \in Nat /\ Len(samples') <= Len(times)
      BY <2>2, <3>2, <3>3, <3>4 DEF SampledOK, IsSequence
    <3>7. ASSUME NEW k \in 1..Len(samples')
          PROVE  /\ evaluated'[k] \in Evaluations /\ Faults(evaluated'[k]) = <<>>
                 /\ samples'[k] = Sample(times[k], evaluated'[k])
      <4>1. CASE k = Len(samples) + 1
        BY <4>1, <2>4, <3>4, <3>5
      <4>2. CASE k # Len(samples) + 1
        <5>1. k \in 1..Len(samples)
          BY <4>2, <3>4, <3>6
        <5> QED BY <5>1, <3>2, <3>4, <3>5 DEF SampledOK
      <4> QED BY <4>1, <4>2
    <3>8. \A time, f : Sample(time, f)' = Sample(time, f) /\ Faults(f)' = Faults(f)
      BY <2>2, SamplesStay
    <3> HIDE DEF x
    <3>9. SampledOK'
      BY <2>2, <3>4, <3>5, <3>6, <3>7, <3>8 DEF SampledOK, IsSequence
    <3>10. TimesSpan(range, times)'
      BY <2>2, <3>2 DEF TimesSpan, NextTime
    <3> QED BY <2>2, <3>1, <3>9, <3>10 DEF ClipInv
  <2> QED BY <2>3, <2>4
<1>5. CASE FinishClip
  <2>1. /\ phase = "clipping" /\ phase' = "clipped" /\ Len(samples) = Len(times)
        /\ adapted' = adapted /\ UNCHANGED clipVars
    BY <1>5 DEF FinishClip, bodyVars
  <2>2. SampledOK /\ TimesSpan(range, times)
    BY <2>1 DEF ClipInv
  <2>3. \A time, e : Sample(time, e)' = Sample(time, e) /\ Faults(e)' = Faults(e)
    BY <2>1, SamplesStay
  <2>4. SampledOK'
    BY <2>1, <2>2, <2>3 DEF SampledOK, clipVars, IsSequence
  <2>5. TimesSpan(range, times)'
    BY <2>1, <2>2 DEF clipVars, TimesSpan, NextTime
  <2> QED BY <2>1, <2>4, <2>5 DEF ClipInv, clipVars
<1> QED BY <1>1, <1>2, <1>3, <1>4, <1>5 DEF AdapterNext, ClipNext

LEMMA ClipInvariant == AdapterSpec => []ClipInv
<1>1. AdapterInit => ClipInv
  BY DEF AdapterInit, SkeletonInit, ClipInit, ClipInv
<1>2. BodyInv /\ ClipInv /\ [AdapterNext]_adapterVars => ClipInv'
  <2>1. UNCHANGED adapterVars => UNCHANGED clipVars /\ adapted' = adapted /\ phase' = phase
    BY DEF adapterVars, bodyVars
  <2> QED BY <2>1, ClipStep, ClipKept
<1> QED BY <1>1, <1>2, BodyInvariant, PTL DEF AdapterSpec

\* Whatever the skeleton, the roles it lacks, the range and the rounding: a clip
\* begins and ends exactly where its range does and no two samples are more than
\* a step apart; and down the hierarchy of the roles that are there the
\* rotations of each sample compose to those that were evaluated.
THEOREM ClipIsTheMotion == AdapterSpec => []ClipFollowsTheMotion
<1>1. BodyInv /\ ClipInv => ClipFollowsTheMotion
  <2>1. SUFFICES ASSUME BodyInv, ClipInv, phase = "clipped" PROVE ClipFollowsTheMotion
    BY DEF ClipFollowsTheMotion
  <2> DEFINE n == Len(samples)
  <2>2. TimesSpan(range, times) /\ SampledOK /\ n = Len(times)
    BY <2>1 DEF ClipInv
  <2>3. n \in Nat /\ n >= 1 /\ DOMAIN samples = 1..n /\ Last(samples) = samples[n]
    BY <2>2 DEF TimesSpan, SampledOK, IsSequence, Last
  <2>4. \A k \in 1..n : samples[k].timestamp = times[k]
    <3> TAKE k \in 1..n
    <3>1. samples[k] = Sample(times[k], evaluated[k])
      BY <2>2 DEF SampledOK
    <3>2. Sample(times[k], evaluated[k]).timestamp = times[k]
      BY DEF Sample
    <3> QED BY <3>1, <3>2
  <2>5. samples[1].timestamp = At(range.start) /\ Last(samples).timestamp = At(range.end)
    <3>1. 1 \in 1..n /\ n \in 1..n
      BY <2>3
    <3> QED BY <3>1, <2>2, <2>3, <2>4 DEF TimesSpan
  <2>6. ASSUME NEW k \in 1..(n - 1) PROVE NextTime(range, samples[k].timestamp, samples[k + 1].timestamp)
    <3>1. k \in 1..n /\ k + 1 \in 1..n
      BY <2>3
    <3> QED BY <3>1, <2>2, <2>4 DEF TimesSpan
  <2>7. ASSUME NEW k \in 1..n PROVE SampleComposes(samples[k], evaluated[k])
    <3>1. bones \in Skeletons /\ adapted.source \in RoleMaps
      BY <2>1 DEF BodyInv, AdaptedOK
    <3>2. /\ evaluated[k] \in Evaluations /\ Faults(evaluated[k]) = <<>>
          /\ samples[k] = Sample(times[k], evaluated[k])
      BY <2>2 DEF SampledOK
    <3> QED BY <3>1, <3>2, SamplesCompose
  <2> HIDE DEF n
  <2>8. \A k \in DOMAIN samples :
         LET Composed[r \in HumanRoles \cup {NoRole}] ==
               IF r = NoRole THEN Identity
               ELSE LET above == Composed[ParentRole[r]]
                    IN  IF r \in SourcePresent THEN Times(above, samples[k].local[r]) ELSE above
         IN  \A r \in SourcePresent : Composed[r] = Reduced(WorldOf(evaluated[k], r))
    BY <2>3, <2>7 DEF SampleComposes, ComposedOf, ComposedSteps
  <2> QED BY <2>1, <2>5, <2>6, <2>8 DEF ClipFollowsTheMotion, NextTime, n
<1> QED BY <1>1, BodyInvariant, ClipInvariant, PTL
=============================================================================
