------------------------ MODULE PhysicsAdapterProofs ------------------------
(***************************************************************************)
(* For every skeleton, list of bodies, pose and snapshot: Bind means what  *)
(* the stage authors; the feedback of ApplyPhysicsToPose leaves each       *)
(* dynamic body where it was simulated, gives back the pose of a world     *)
(* nothing moved, and is feedback that ResumePhysics accepts.              *)
(***************************************************************************)
EXTENDS PhysicsAdapter, Induction

\* A body that feeds a joint is the one Bind's map names, so a joint has at
\* most one.
DrivenAgrees(bs, dr) == \A k \in DOMAIN bs : Feeds(bs[k]) => dr[bs[k].joint] = k

RowsOK(rs) == \A i \in DOMAIN rs : rs[i].world \in Frames

\* The joints before n are done: the fed ones are reported in order, and every
\* one has the world transform of its new local.
Walked(s, p, bs, rs, w, f, n) ==
  /\ \A i \in DOMAIN f : f[i].joint < n /\ Feeders(bs, f[i].joint) # {}
                         /\ f[i].local = LocalOf(s, p, bs, rs, w, f[i].joint)
  /\ \A i, k \in DOMAIN f : i < k => f[i].joint < f[k].joint
  /\ \A j \in Joints : j < n =>
       /\ Feeders(bs, j) # {} => \E i \in DOMAIN f : f[i].joint = j
       /\ w[j] = Mul(LocalOf(s, p, bs, rs, w, j), Above(s, w, j))

CouplingInv ==
  /\ AdapterTypeOK /\ stage \in Stages
  /\ DrivenAgrees(bodies, driven)
  /\ RowsOK(rows)
  /\ pc # "feeding" => fed = <<>>
  /\ pc = "feeding" => Complete(bodies, rows)
  /\ pc = "feeding" => Walked(stage, pose, bodies, rows, world, fed, at)

-----------------------------------------------------------------------------
(* Lemmas *)

LEMMA OneChanged ==
  ASSUME NEW S, NEW s \in Seq(S), NEW i \in 1..Len(s), NEW x \in S
  PROVE  /\ [s EXCEPT ![i] = x] \in Seq(S) /\ Len([s EXCEPT ![i] = x]) = Len(s)
         /\ [s EXCEPT ![i] = x][i] = x
         /\ \A k \in 1..Len(s) : k # i => [s EXCEPT ![i] = x][k] = s[k]
OBVIOUS

\* What is above a joint is a rigid transform, and only joints before it count.
LEMMA AboveType ==
  ASSUME NEW s \in Stages, NEW w \in [Joints -> Frames], NEW j \in Joints
  PROVE  Above(s, w, j) \in Frames
<1>1. /\ s.parents[j] \in Joints \cup {-1} /\ s.placement \in Frames
  BY StagesAssumption
<1>2. Placement(s) \in Frames
  BY <1>1, FramesAreAGroup DEF Placement
<1>3. ~(s.parents[j] < 0) => s.parents[j] \in Joints
  BY <1>1, NAssumption DEF Joints
<1> QED BY <1>2, <1>3 DEF Above

LEMMA AboveKept ==
  ASSUME NEW s \in Stages, NEW w, NEW v, NEW j \in Joints,
         \A i \in Joints : i < j => v[i] = w[i]
  PROVE  Above(s, v, j) = Above(s, w, j)
<1>1. /\ s.parents[j] \in Joints \cup {-1} /\ s.parents[j] < j
  BY StagesAssumption
<1>2. ~(s.parents[j] < 0) => s.parents[j] \in Joints
  BY <1>1, NAssumption DEF Joints
<1> QED BY <1>1, <1>2 DEF Above

\* A joint's feeder is a body of the binding that feeds it.
LEMMA FeederIsABody ==
  ASSUME NEW bs \in Seq(Bodies), NEW dr, DrivenAgrees(bs, dr), NEW j \in Joints,
         Feeders(bs, j) # {}
  PROVE  \E k \in DOMAIN bs : /\ Feeder(bs, j) = bs[k] /\ Feeds(bs[k]) /\ bs[k].joint = j
                              /\ bs[k] \in Bodies /\ Feeders(bs, j) = {k}
<1>1. PICK k \in Feeders(bs, j) : TRUE
  OBVIOUS
<1>2. k \in DOMAIN bs /\ Feeds(bs[k]) /\ bs[k].joint = j
  BY <1>1 DEF Feeders
<1>3. \A l \in Feeders(bs, j) : l = k
  BY <1>2 DEF Feeders, DrivenAgrees
<1>4. Feeders(bs, j) = {k}
  BY <1>1, <1>3
<1>5. DOMAIN bs = 1..Len(bs) /\ Len(bs) \in Nat /\ \A i \in 1..Len(bs) : bs[i] \in Bodies
  BY SequenceShape
<1>6. k \in Int /\ bs[k] \in Bodies
  BY <1>2, <1>5
<1>7. (CHOOSE m \in Feeders(bs, j) : \A l \in Feeders(bs, j) : m <= l) = k
  <2>1. \E m \in Feeders(bs, j) : \A l \in Feeders(bs, j) : m <= l
    BY <1>4, <1>6
  <2>2. (CHOOSE m \in Feeders(bs, j) : \A l \in Feeders(bs, j) : m <= l) \in Feeders(bs, j)
    BY <2>1
  <2> QED BY <1>3, <2>2
<1>8. Feeder(bs, j) = bs[k]
  BY <1>7 DEF Feeder
<1> QED BY <1>2, <1>4, <1>6, <1>8

\* A complete snapshot has a rigid transform for every feeding body.
LEMMA SimulatedType ==
  ASSUME NEW bs, NEW rs, RowsOK(rs), Complete(bs, rs), NEW k \in DOMAIN bs, Feeds(bs[k])
  PROVE  Simulated(rs, bs[k].path) \in Frames
<1>1. \E i \in DOMAIN rs : rs[i].body = bs[k].path
  BY DEF Complete
<1>2. (CHOOSE i \in DOMAIN rs : rs[i].body = bs[k].path) \in DOMAIN rs
  BY <1>1
<1> QED BY <1>2 DEF Simulated, RowsOK

LEMMA FedLocalType ==
  ASSUME NEW b \in Bodies, NEW m \in Frames, NEW above \in Frames, NEW before \in Frames
  PROVE  /\ FedLocal(b, m, above, before) \in Frames
         /\ b.keepTranslation => FedLocal(b, m, above, before)
                                   = Keep(FedLocal(b, m, above, before), before)
         /\ ~b.keepTranslation => Mul(b.offset, Mul(FedLocal(b, m, above, before), above)) = m
<1> DEFINE o == b.offset
           x == Mul(Inv(o), m)
           y == Mul(x, Inv(above))
<1>1. o \in Frames
  BY DEF Bodies
<1>a. \A f, g, h \in Frames : Mul(Mul(f, g), h) = Mul(f, Mul(g, h))
  BY FramesAreAGroup
<1>2. Inv(o) \in Frames /\ Inv(above) \in Frames /\ x \in Frames /\ y \in Frames
  BY <1>1, FramesAreAGroup
<1>3. FedLocal(b, m, above, before) = IF b.keepTranslation THEN Keep(y, before) ELSE y
  BY DEF FedLocal
<1>4. Mul(y, above) = x
  <2>1. Mul(Mul(x, Inv(above)), above) = Mul(x, Mul(Inv(above), above))
    BY <1>2, <1>a
  <2>2. Mul(Inv(above), above) = One /\ Mul(x, One) = x
    BY <1>2, FramesAreAGroup
  <2> QED BY <2>1, <2>2
<1>5. Mul(o, x) = m
  <2>1. Mul(Mul(o, Inv(o)), m) = Mul(o, Mul(Inv(o), m))
    BY <1>1, <1>2, <1>a
  <2>2. Mul(o, Inv(o)) = One /\ Mul(One, m) = m
    BY <1>1, FramesAreAGroup
  <2> QED BY <2>1, <2>2
<1>6. Keep(y, before) \in Frames /\ Keep(Keep(y, before), before) = Keep(y, before)
  BY <1>2, FramesAreAGroup
<1> HIDE DEF x, y
<1>7. b.keepTranslation \in BOOLEAN
  BY DEF Bodies
<1> QED BY <1>2, <1>3, <1>4, <1>5, <1>6, <1>7 DEF o

\* The local transform a joint gets is rigid.
LEMMA LocalType ==
  ASSUME NEW s \in Stages, NEW p \in [Joints -> Frames], NEW bs \in Seq(Bodies), NEW dr,
         DrivenAgrees(bs, dr), NEW rs, RowsOK(rs), Complete(bs, rs),
         NEW w \in [Joints -> Frames], NEW j \in Joints
  PROVE  LocalOf(s, p, bs, rs, w, j) \in Frames
<1>1. Above(s, w, j) \in Frames
  BY AboveType
<1>2. CASE Feeders(bs, j) = {}
  BY <1>2 DEF LocalOf
<1>3. CASE Feeders(bs, j) # {}
  <2>1. PICK k \in DOMAIN bs : Feeder(bs, j) = bs[k] /\ Feeds(bs[k]) /\ bs[k] \in Bodies
    BY <1>3, FeederIsABody
  <2>2. Simulated(rs, bs[k].path) \in Frames
    BY <2>1, SimulatedType
  <2>3. LocalOf(s, p, bs, rs, w, j)
          = FedLocal(bs[k], Simulated(rs, bs[k].path), Above(s, w, j), p[j])
    BY <1>3, <2>1 DEF LocalOf
  <2>4. FedLocal(bs[k], Simulated(rs, bs[k].path), Above(s, w, j), p[j]) \in Frames
    BY <1>1, <2>1, <2>2, FedLocalType
  <2> QED BY <2>3, <2>4
<1> QED BY <1>2, <1>3

LEMMA LocalKept ==
  ASSUME NEW s \in Stages, NEW p, NEW bs, NEW rs, NEW w, NEW v, NEW j \in Joints,
         \A i \in Joints : i < j => v[i] = w[i]
  PROVE  LocalOf(s, p, bs, rs, v, j) = LocalOf(s, p, bs, rs, w, j)
<1>1. Above(s, v, j) = Above(s, w, j)
  BY AboveKept
<1> QED BY <1>1 DEF LocalOf

\* A body Bind admits is typed, on the worlds of the rest pose.
LEMMA BodyType ==
  ASSUME CouplingInv, pc = "binding", Pending, Admitted(NextBody)
  PROVE  /\ Body(NextBody) \in Bodies /\ NextBody.joint \in -1..(N - 1)
         /\ Feeds(Body(NextBody)) <=> Drives(NextBody)
         /\ Body(NextBody).joint = NextBody.joint
<1>1. stage \in Stages /\ world \in [Joints -> Frames] /\ Len(bodies) \in Nat
  BY SequenceShape DEF CouplingInv, AdapterTypeOK
<1> DEFINE Rows == [path : Paths, joint : Int, mode : STRING, kinematic : BOOLEAN,
                    static : BOOLEAN, frame : Frames]
<1>2. stage.bodies \in Seq(Rows)
  BY <1>1, StagesAssumption
<1>3. Len(bodies) + 1 \in 1..Len(stage.bodies)
  <2>1. Len(stage.bodies) \in Nat
    BY <1>2, SequenceShape
  <2> QED BY <1>1, <2>1 DEF Pending
<1>4. NextBody \in Rows
  BY <1>2, <1>3, SequenceShape DEF NextBody
<1>5. NextBody.joint \in -1..(N - 1)
  BY DEF Admitted, Declared
<1> DEFINE b == NextBody
<1>6. b.path \in Paths /\ b.frame \in Frames /\ b.joint \in Int
  BY <1>4
<1>7. ~(b.joint < 0) => OffsetOf(b, world) \in Frames
  <2> SUFFICES ASSUME ~(b.joint < 0) PROVE OffsetOf(b, world) \in Frames
    OBVIOUS
  <2>1. b.joint \in Joints
    BY <1>5, <1>6, NAssumption DEF Joints
  <2>2. world[b.joint] \in Frames
    BY <1>1, <2>1
  <2>3. Inv(world[b.joint]) \in Frames /\ Metres(b.frame) \in Frames
    BY <1>6, <2>2, FramesAreAGroup
  <2> QED BY <2>3, FramesAreAGroup DEF OffsetOf
<1> HIDE DEF b
<1>8. One \in Frames
  BY FramesAreAGroup
<1>9. Body(b) \in Bodies
  BY <1>5, <1>6, <1>7, <1>8 DEF Body, Bodies, b
<1>10. Body(b).joint = b.joint /\ Body(b).feedback = (b.mode # "followBone")
  BY DEF Body
<1>11. Feeds(Body(b)) <=> Drives(b)
  BY <1>10 DEF Feeds, Drives
<1> QED BY <1>5, <1>9, <1>10, <1>11 DEF b

LEMMA BindBodyCoupling == CouplingInv /\ BindBody => CouplingInv'
<1> SUFFICES ASSUME CouplingInv, BindBody PROVE CouplingInv'
  OBVIOUS
<1>1. pc = "binding" /\ Pending /\ Admitted(NextBody)
  BY DEF BindBody
<1> DEFINE b == NextBody
           n == Len(bodies)
           taken == Drives(b) /\ driven[b.joint] # 0
           old == IF taken THEN Silenced(driven[b.joint]) ELSE bodies
<1>2. /\ Body(b) \in Bodies /\ b.joint \in -1..(N - 1) /\ (Feeds(Body(b)) <=> Drives(b))
      /\ Body(b).joint = b.joint
  BY <1>1, BodyType
<1>3. /\ bodies \in Seq(Bodies) /\ n \in Nat /\ DOMAIN bodies = 1..n
      /\ \A i \in 1..n : bodies[i] \in Bodies
      /\ driven \in [Joints -> 0..n] /\ DrivenAgrees(bodies, driven)
  BY SequenceShape DEF CouplingInv, AdapterTypeOK
<1>4. /\ bodies' = Append(old, Body(b))
      /\ driven' = IF Drives(b) THEN [driven EXCEPT ![b.joint] = n + 1] ELSE driven
      /\ UNCHANGED <<stage, pc, op, pose, at, world, sim, rows, fed>>
  BY DEF BindBody
<1>5. n + 1 <= Len(stage.bodies)
  <2>1. stage.bodies \in Seq([path : Paths, joint : Int, mode : STRING, kinematic : BOOLEAN,
                              static : BOOLEAN, frame : Frames])
    BY StagesAssumption DEF CouplingInv
  <2>2. Len(stage.bodies) \in Nat
    BY <2>1, SequenceShape
  <2> QED BY <1>1, <1>3, <2>2 DEF Pending
<1>6. Drives(b) => b.joint \in Joints
  BY <1>2, NAssumption DEF Drives, Joints
<1> HIDE DEF b, n
<1>7. /\ old \in Seq(Bodies) /\ Len(old) = n
      /\ \A i \in 1..n : old[i].joint = bodies[i].joint
      /\ \A i \in 1..n : Feeds(old[i]) => Feeds(bodies[i]) /\ ~(taken /\ i = driven[b.joint])
  <2>1. CASE ~taken
    BY <1>3, <2>1 DEF n
  <2>2. CASE taken
    <3> DEFINE d == driven[b.joint]
               x == [bodies[d] EXCEPT !.feedback = FALSE]
    <3>1. d \in 1..n
      BY <1>3, <1>6, <2>2
    <3>2. bodies[d] \in Bodies
      BY <1>3, <3>1
    <3>3. x \in Bodies /\ x.joint = bodies[d].joint /\ x.feedback = FALSE
      BY <3>2 DEF Bodies
    <3>4. old = [bodies EXCEPT ![d] = x]
      BY <2>2 DEF Silenced
    <3> HIDE DEF d, x
    <3>5. /\ [bodies EXCEPT ![d] = x] \in Seq(Bodies) /\ Len([bodies EXCEPT ![d] = x]) = n
          /\ [bodies EXCEPT ![d] = x][d] = x
          /\ \A k \in 1..n : k # d => [bodies EXCEPT ![d] = x][k] = bodies[k]
      BY <1>3, <3>1, <3>3, OneChanged DEF n
    <3>6. \A i \in 1..n : old[i].joint = bodies[i].joint
      BY <3>3, <3>4, <3>5
    <3>7. \A i \in 1..n : Feeds(old[i]) => Feeds(bodies[i]) /\ i # d
      BY <3>3, <3>4, <3>5 DEF Feeds
    <3> QED BY <3>4, <3>5, <3>6, <3>7 DEF d
  <2> QED BY <2>1, <2>2
<1>8. /\ bodies' \in Seq(Bodies) /\ Len(bodies') = n + 1 /\ bodies'[n + 1] = Body(b)
      /\ \A i \in 1..n : bodies'[i] = old[i]
  <2> HIDE DEF old
  <2> QED BY <1>2, <1>4, <1>7, OneMore
<1>9. DOMAIN bodies' = 1..(n + 1)
  BY <1>8, SequenceShape
<1>10. driven' \in [Joints -> 0..(n + 1)]
  BY <1>3, <1>4, <1>6
<1>11. DrivenAgrees(bodies', driven')
  <2> SUFFICES ASSUME NEW k \in 1..(n + 1), Feeds(bodies'[k]) PROVE driven'[bodies'[k].joint] = k
    BY <1>9 DEF DrivenAgrees
  <2>1. CASE k = n + 1
    BY <1>2, <1>3, <1>4, <1>6, <1>8, <2>1
  <2>2. CASE k # n + 1
    <3>1. k \in 1..n
      BY <1>3, <2>2
    <3>2. /\ Feeds(bodies[k]) /\ bodies'[k].joint = bodies[k].joint
          /\ ~(taken /\ k = driven[b.joint])
      BY <1>7, <1>8, <3>1
    <3>3. driven[bodies[k].joint] = k /\ k # 0
      BY <1>3, <3>1, <3>2 DEF DrivenAgrees
    <3>4. CASE Drives(b) /\ b.joint = bodies[k].joint
      BY <3>2, <3>3, <3>4
    <3>5. CASE Drives(b) /\ b.joint # bodies[k].joint
      <4>1. bodies[k].joint \in Joints
        <5>1. bodies[k] \in Bodies
          BY <1>3, <3>1
        <5>2. bodies[k].joint \in -1..(N - 1) /\ bodies[k].joint >= 0
          BY <3>2, <5>1 DEF Bodies, Feeds
        <5> QED BY <5>2, NAssumption DEF Joints
      <4> QED BY <1>3, <1>4, <3>2, <3>3, <3>5, <4>1
    <3>6. CASE ~Drives(b)
      BY <1>4, <3>2, <3>3, <3>6
    <3> QED BY <3>4, <3>5, <3>6
  <2> QED BY <2>1, <2>2
<1>12. AdapterTypeOK'
  BY <1>1, <1>4, <1>5, <1>8, <1>10 DEF CouplingInv, AdapterTypeOK
<1> QED BY <1>1, <1>4, <1>11, <1>12 DEF CouplingInv, RowsOK

LEMMA PlaceCoupling == CouplingInv /\ Place => CouplingInv'
<1> SUFFICES ASSUME CouplingInv, Place PROVE CouplingInv'
  OBVIOUS
<1>1. /\ pc = "posing" /\ at \in Joints /\ stage \in Stages
      /\ pose \in [Joints -> Frames] /\ world \in [Joints -> Frames]
  BY NAssumption DEF CouplingInv, AdapterTypeOK, Place, Joints
<1>2. Above(stage, world, at) \in Frames
  BY <1>1, AboveType
<1>3. Mul(pose[at], Above(stage, world, at)) \in Frames
  <2>1. pose[at] \in Frames
    BY <1>1
  <2> QED BY <1>2, <2>1, FramesAreAGroup
<1>4. /\ world' = [world EXCEPT ![at] = Mul(pose[at], Above(stage, world, at))] /\ at' = at + 1
      /\ UNCHANGED <<stage, pc, op, pose, bodies, driven, sim, rows, fed>>
  BY DEF Place
<1>5. world' \in [Joints -> Frames] /\ at' \in 0..N
  BY <1>1, <1>3, <1>4, NAssumption DEF Joints
<1> QED BY <1>1, <1>4, <1>5 DEF CouplingInv, AdapterTypeOK, RowsOK

LEMMA FeedJointCoupling == CouplingInv /\ FeedJoint => CouplingInv'
<1> SUFFICES ASSUME CouplingInv, FeedJoint PROVE CouplingInv'
  OBVIOUS
<1> DEFINE L(w, j) == LocalOf(stage, pose, bodies, rows, w, j)
           x == Mul(L(world, at), Above(stage, world, at))
           row == [joint |-> at, local |-> L(world, at)]
<1>1. /\ pc = "feeding" /\ at \in Joints /\ stage \in Stages /\ at \in Int
      /\ pose \in [Joints -> Frames] /\ world \in [Joints -> Frames]
      /\ bodies \in Seq(Bodies) /\ DrivenAgrees(bodies, driven) /\ RowsOK(rows)
      /\ Complete(bodies, rows) /\ fed \in Seq(Edits)
  BY NAssumption DEF CouplingInv, AdapterTypeOK, FeedJoint, Joints
<1>2. /\ fed' = Reported(at, L(world, at)) /\ world' = [world EXCEPT ![at] = x] /\ at' = at + 1
      /\ UNCHANGED <<stage, pc, op, pose, bodies, driven, sim, rows>>
  BY DEF FeedJoint, Rebuilt
<1>3. \A j \in Joints : L(world, j) \in Frames
  BY <1>1, LocalType
<1>4. x \in Frames
  <2>1. Above(stage, world, at) \in Frames
    BY <1>1, AboveType
  <2> QED BY <1>1, <1>3, <2>1, FramesAreAGroup
<1>5. world' \in [Joints -> Frames] /\ at' \in 0..N /\ world'[at] = x
      /\ \A j \in Joints : j # at => world'[j] = world[j]
  BY <1>1, <1>2, <1>4, NAssumption DEF Joints
<1>6. \A j \in Joints : j <= at => /\ L(world', j) = L(world, j)
                                  /\ Above(stage, world', j) = Above(stage, world, j)
  <2> SUFFICES ASSUME NEW j \in Joints, j <= at
               PROVE  /\ L(world', j) = L(world, j)
                      /\ Above(stage, world', j) = Above(stage, world, j)
    OBVIOUS
  <2> DEFINE v == world'
  <2>1. \A i \in Joints : i < j => v[i] = world[i]
    BY <1>1, <1>5, NAssumption DEF Joints
  <2> HIDE DEF v
  <2>2. LocalOf(stage, pose, bodies, rows, v, j) = L(world, j)
    BY <1>1, <2>1, LocalKept
  <2>3. Above(stage, v, j) = Above(stage, world, j)
    BY <1>1, <2>1, AboveKept
  <2> QED BY <2>2, <2>3 DEF v
<1>7. Walked(stage, pose, bodies, rows, world, fed, at)
  BY <1>1 DEF CouplingInv
<1>8. row \in Edits
  BY <1>1, <1>3 DEF Edits
<1>9. \A i \in DOMAIN fed : fed[i].joint \in Joints
  <2>1. \A i \in DOMAIN fed : fed[i] \in Edits
    BY <1>1, SequenceShape
  <2> QED BY <2>1 DEF Edits
<1>10. \A j \in Joints : j < at + 1 => j <= at
  BY <1>1, NAssumption DEF Joints
<1>11. \A j \in Joints : j < at + 1 => world'[j] = Mul(L(world', j), Above(stage, world', j))
  <2> SUFFICES ASSUME NEW j \in Joints, j < at + 1
               PROVE world'[j] = Mul(L(world', j), Above(stage, world', j))
    OBVIOUS
  <2>1. L(world', j) = L(world, j) /\ Above(stage, world', j) = Above(stage, world, j)
    BY <1>6, <1>10
  <2>2. CASE j = at
    BY <1>5, <2>1, <2>2
  <2>3. CASE j # at
    <3>1. j < at
      BY <1>1, <2>3, NAssumption DEF Joints
    <3>2. world[j] = Mul(L(world, j), Above(stage, world, j))
      BY <1>7, <3>1 DEF Walked
    <3> QED BY <1>5, <2>1, <2>3, <3>2
  <2> QED BY <2>2, <2>3
<1>12. \A i \in DOMAIN fed : /\ fed[i].joint < at /\ fed[i].joint < at + 1
                             /\ Feeders(bodies, fed[i].joint) # {}
                             /\ fed[i].local = L(world', fed[i].joint)
  <2> SUFFICES ASSUME NEW i \in DOMAIN fed
               PROVE /\ fed[i].joint < at /\ fed[i].joint < at + 1
                     /\ Feeders(bodies, fed[i].joint) # {}
                     /\ fed[i].local = L(world', fed[i].joint)
    OBVIOUS
  <2>1. /\ fed[i].joint < at /\ Feeders(bodies, fed[i].joint) # {}
        /\ fed[i].local = L(world, fed[i].joint)
    BY <1>7 DEF Walked
  <2>2. fed[i].joint \in Joints /\ fed[i].joint < at + 1
    BY <1>1, <1>9, <2>1, NAssumption DEF Joints
  <2>3. L(world', fed[i].joint) = L(world, fed[i].joint)
    BY <1>6, <1>10, <2>2
  <2> QED BY <2>1, <2>2, <2>3
<1>13. \A i, k \in DOMAIN fed : i < k => fed[i].joint < fed[k].joint
  BY <1>7 DEF Walked
<1>14. \A j \in Joints : j < at /\ Feeders(bodies, j) # {} => \E i \in DOMAIN fed : fed[i].joint = j
  BY <1>7 DEF Walked
<1> HIDE DEF x
<1>15. fed' \in Seq(Edits) /\ Walked(stage, pose, bodies, rows, world', fed', at + 1)
  <2>1. CASE Feeders(bodies, at) = {}
    <3>1. fed' = fed
      BY <1>2, <2>1 DEF Reported
    <3>2. \A j \in Joints : j < at + 1 /\ Feeders(bodies, j) # {} => j < at
      <4> SUFFICES ASSUME NEW j \in Joints, j < at + 1, Feeders(bodies, j) # {} PROVE j < at
        OBVIOUS
      <4>1. j # at
        BY <2>1
      <4>2. j \in Int
        BY NAssumption DEF Joints
      <4> QED BY <1>1, <4>1, <4>2
    <3>3. Walked(stage, pose, bodies, rows, world', fed, at + 1)
      BY <1>11, <1>12, <1>13, <1>14, <3>2 DEF Walked
    <3> QED BY <1>1, <3>1, <3>3
  <2>2. CASE Feeders(bodies, at) # {}
    <3>1. fed' = Append(fed, row)
      BY <1>2, <2>2 DEF Reported
    <3> DEFINE m == Len(fed)
    <3>2. row.joint = at /\ row.local = L(world', at)
      BY <1>1, <1>6
    <3> HIDE DEF row, L
    <3>3. /\ fed' \in Seq(Edits) /\ Len(fed') = m + 1 /\ fed'[m + 1] = row
          /\ \A i \in 1..m : fed'[i] = fed[i]
      BY <1>1, <1>8, <3>1, OneMore
    <3>4. DOMAIN fed = 1..m /\ m \in Nat /\ DOMAIN fed' = 1..(m + 1)
      BY <1>1, <3>3, SequenceShape
    <3> HIDE DEF m
    <3>5. \A i \in 1..(m + 1) : i = m + 1 \/ i \in 1..m
      BY <3>4
    <3>6. \A i \in 1..(m + 1) : /\ fed'[i].joint < at + 1 /\ Feeders(bodies, fed'[i].joint) # {}
                                /\ fed'[i].local = L(world', fed'[i].joint)
      <4> SUFFICES ASSUME NEW i \in 1..(m + 1)
                   PROVE /\ fed'[i].joint < at + 1 /\ Feeders(bodies, fed'[i].joint) # {}
                         /\ fed'[i].local = L(world', fed'[i].joint)
        OBVIOUS
      <4>1. CASE i = m + 1
        <5>1. fed'[i].joint = at /\ fed'[i].local = L(world', at) /\ at < at + 1
          BY <1>1, <3>2, <3>3, <4>1
        <5> QED BY <2>2, <5>1
      <4>2. CASE i \in 1..m
        <5>1. i \in DOMAIN fed /\ fed'[i] = fed[i]
          BY <3>3, <3>4, <4>2
        <5> QED BY <1>12, <5>1
      <4> QED BY <3>5, <4>1, <4>2
    <3>7. \A i, k \in 1..(m + 1) : i < k => fed'[i].joint < fed'[k].joint
      <4> SUFFICES ASSUME NEW i \in 1..(m + 1), NEW k \in 1..(m + 1), i < k
                   PROVE fed'[i].joint < fed'[k].joint
        OBVIOUS
      <4>1. i \in 1..m
        BY <3>4
      <4>2. CASE k = m + 1
        BY <1>12, <3>2, <3>3, <3>4, <4>1, <4>2
      <4>3. CASE k # m + 1
        <5>1. k \in 1..m
          BY <3>4, <4>3
        <5> QED BY <1>13, <3>3, <3>4, <4>1, <5>1
      <4> QED BY <4>2, <4>3
    <3>8. \A j \in Joints : j < at + 1 /\ Feeders(bodies, j) # {} =>
            \E i \in 1..(m + 1) : fed'[i].joint = j
      <4> SUFFICES ASSUME NEW j \in Joints, j < at + 1, Feeders(bodies, j) # {}
                   PROVE \E i \in 1..(m + 1) : fed'[i].joint = j
        OBVIOUS
      <4>1. CASE j = at
        BY <3>2, <3>3, <3>4, <4>1
      <4>2. CASE j # at
        <5>1. j < at
          BY <1>1, <4>2, NAssumption DEF Joints
        <5>2. PICK i \in 1..m : fed[i].joint = j
          BY <1>14, <3>4, <5>1
        <5> QED BY <3>3, <3>4, <5>2
      <4> QED BY <4>1, <4>2
    <3>9. Walked(stage, pose, bodies, rows, world', fed', at + 1)
      BY <1>11, <3>4, <3>6, <3>7, <3>8 DEF Walked, L
    <3> QED BY <3>3, <3>9
  <2> QED BY <2>1, <2>2
<1>16. AdapterTypeOK'
  BY <1>2, <1>5, <1>15 DEF CouplingInv, AdapterTypeOK
<1>17. Walked(stage', pose', bodies', rows', world', fed', at')
  BY <1>2, <1>15
<1> QED BY <1>1, <1>2, <1>16, <1>17 DEF CouplingInv

-----------------------------------------------------------------------------
(* The invariant *)

LEMMA InitCoupling == Init => CouplingInv
<1> SUFFICES ASSUME Init PROVE CouplingInv
  OBVIOUS
<1>1. One \in Frames
  BY FramesAreAGroup
<1>2. Unwalked \in [Joints -> Frames]
  BY <1>1 DEF Unwalked
<1>3. stage \in Stages /\ Len(stage.bodies) \in Nat
  BY StagesAssumption, SequenceShape DEF Init
<1>4. bodies = <<>> /\ fed = <<>> /\ rows = <<>>
  BY DEF Init
<1>5. bodies \in Seq(Bodies) /\ Len(bodies) = 0 /\ fed \in Seq(Edits)
  BY <1>4
<1>6. AdapterTypeOK
  BY <1>1, <1>2, <1>3, <1>5, NAssumption DEF Init, AdapterTypeOK
<1>7. DrivenAgrees(bodies, driven) /\ RowsOK(rows)
  BY <1>4 DEF DrivenAgrees, RowsOK
<1> QED BY <1>3, <1>6, <1>7 DEF CouplingInv, Init

\* A call that ends leaves nothing behind.
LEMMA IdleCoupling ==
  ASSUME CouplingInv, Idle, UNCHANGED <<stage, bodies, driven>>, sim' \in [Paths -> Frames]
  PROVE  CouplingInv'
<1>1. One \in Frames
  BY FramesAreAGroup
<1>2. Unwalked \in [Joints -> Frames]
  BY <1>1 DEF Unwalked
<1>3. /\ pc' = "bound" /\ op' = "none" /\ pose' = Unwalked /\ at' = 0 /\ world' = Unwalked
      /\ rows' = <<>> /\ fed' = <<>>
  BY DEF Idle
<1>4. fed' \in Seq(Edits) /\ RowsOK(rows')
  BY <1>3 DEF RowsOK
<1>5. AdapterTypeOK'
  BY <1>2, <1>3, <1>4, NAssumption DEF CouplingInv, AdapterTypeOK
<1> QED BY <1>3, <1>4, <1>5 DEF CouplingInv

LEMMA BodyTransformsCoupling == CouplingInv /\ BodyTransforms => CouplingInv'
<1> SUFFICES ASSUME CouplingInv, BodyTransforms PROVE CouplingInv'
  OBVIOUS
<1>1. /\ bodies \in Seq(Bodies) /\ world \in [Joints -> Frames] /\ sim \in [Paths -> Frames]
  BY DEF CouplingInv, AdapterTypeOK
<1>2. \A k \in DOMAIN bodies : bodies[k] \in Bodies
  BY <1>1, SequenceShape
<1> DEFINE b(p) == bodies[CHOOSE i \in Moved(p) : TRUE]
<1>3. ASSUME NEW p \in Paths, Moved(p) # {} PROVE Mul(b(p).offset, world[b(p).joint]) \in Frames
  <2>1. (CHOOSE i \in Moved(p) : TRUE) \in Moved(p)
    BY <1>3
  <2>2. b(p) \in Bodies /\ b(p).joint >= 0
    BY <1>2, <2>1 DEF Moved, Moves
  <2> HIDE DEF b
  <2>3. b(p).offset \in Frames /\ b(p).joint \in Joints
    BY <2>2, NAssumption DEF Bodies, Joints
  <2>4. world[b(p).joint] \in Frames
    BY <1>1, <2>3
  <2> QED BY <2>3, <2>4, FramesAreAGroup
<1>4. sim' = [p \in Paths |-> IF Moved(p) = {} THEN sim[p] ELSE Mul(b(p).offset, world[b(p).joint])]
  BY DEF BodyTransforms
<1> HIDE DEF b
<1>5. sim' \in [Paths -> Frames]
  BY <1>1, <1>3, <1>4
<1>6. Idle /\ UNCHANGED <<stage, bodies, driven>>
  BY DEF BodyTransforms
<1> QED BY <1>5, <1>6, IdleCoupling

\* A call only sets its arguments.
LEMMA CallCoupling ==
  ASSUME CouplingInv, NEW name \in {"initial", "kinematic", "apply"}, NEW p \in Poses,
         NEW rs, RowsOK(rs), Call(name, p, rs)
  PROVE  CouplingInv'
<1>1. p \in [Joints -> Frames]
  BY PosesAssumption
<1>2. /\ pc = "bound" /\ pc' = "posing" /\ op' = name /\ pose' = p /\ rows' = rs
      /\ UNCHANGED <<stage, at, world, bodies, driven, notes, kept, sim, fed>>
  BY DEF Call
<1>3. AdapterTypeOK'
  BY <1>1, <1>2 DEF CouplingInv, AdapterTypeOK
<1> QED BY <1>2, <1>3 DEF CouplingInv

LEMMA SnapshotType ==
  ASSUME CouplingInv, NEW r
  PROVE  RowsOK(Snapshot(r))
<1>1. sim \in [Paths -> Frames] /\ One \in Frames
  BY FramesAreAGroup DEF CouplingInv, AdapterTypeOK
<1> QED BY <1>1 DEF RowsOK, Snapshot

LEMMA StepCoupling ==
  ASSUME CouplingInv, NEW i \in DOMAIN bodies, NEW m \in Frames, Step(i, m)
  PROVE  CouplingInv'
<1>1. /\ pc = "bound" /\ sim' = [sim EXCEPT ![bodies[i].path] = m]
      /\ UNCHANGED <<stage, pc, op, pose, at, world, bodies, driven, notes, kept, rows, fed>>
  BY DEF Step
<1>2. sim' \in [Paths -> Frames]
  BY <1>1 DEF CouplingInv, AdapterTypeOK
<1>3. AdapterTypeOK'
  BY <1>1, <1>2 DEF CouplingInv, AdapterTypeOK
<1> QED BY <1>1, <1>3 DEF CouplingInv

LEMMA AcceptCoupling == CouplingInv /\ AcceptSnapshot => CouplingInv'
<1> SUFFICES ASSUME CouplingInv, AcceptSnapshot PROVE CouplingInv'
  OBVIOUS
<1>1. /\ pc = "posing" /\ Complete(bodies, rows) /\ pc' = "feeding" /\ at' = 0
      /\ UNCHANGED <<stage, op, pose, world, bodies, driven, notes, kept, sim, rows, fed>>
  BY DEF AcceptSnapshot
<1>2. fed = <<>> /\ fed' = <<>>
  BY <1>1 DEF CouplingInv
<1>3. Walked(stage, pose, bodies, rows, world, fed, 0)
  BY <1>2, NAssumption DEF Walked, Joints
<1>4. AdapterTypeOK'
  BY <1>1, NAssumption DEF CouplingInv, AdapterTypeOK
<1>5. Walked(stage', pose', bodies', rows', world', fed', at')
  BY <1>1, <1>3
<1> QED BY <1>1, <1>4, <1>5 DEF CouplingInv

\* The remaining steps of Bind change no transform.
LEMMA BindCoupling ==
  CouplingInv /\ (RejectSkeleton \/ BindSkeleton \/ RestPlaced \/ RejectBody) => CouplingInv'
<1>1. CASE CouplingInv /\ RejectSkeleton
  BY <1>1 DEF RejectSkeleton, CouplingInv, AdapterTypeOK
<1>2. CASE CouplingInv /\ BindSkeleton
  <2>1. \A j \in Joints : stage.rest[j] \in Frames /\ Metres(stage.rest[j]) \in Frames
    BY <1>2, StagesAssumption, FramesAreAGroup DEF CouplingInv
  <2>2. pose' \in [Joints -> Frames]
    BY <1>2, <2>1 DEF BindSkeleton
  <2> QED BY <1>2, <2>2 DEF BindSkeleton, CouplingInv, AdapterTypeOK
<1>3. CASE CouplingInv /\ RestPlaced
  BY <1>3 DEF RestPlaced, CouplingInv, AdapterTypeOK
<1>4. CASE CouplingInv /\ RejectBody
  BY <1>4 DEF RejectBody, CouplingInv, AdapterTypeOK
<1> QED BY <1>1, <1>2, <1>3, <1>4

LEMMA NextCoupling == CouplingInv /\ [Next]_vars => CouplingInv'
<1> SUFFICES ASSUME CouplingInv, [Next]_vars PROVE CouplingInv'
  OBVIOUS
<1>0. sim \in [Paths -> Frames]
  BY DEF CouplingInv, AdapterTypeOK
<1>1. CASE Place
  BY <1>1, PlaceCoupling
<1>2. CASE RejectSkeleton \/ BindSkeleton \/ RestPlaced \/ RejectBody
  BY <1>2, BindCoupling
<1>3. CASE BindBody
  BY <1>3, BindBodyCoupling
<1>4. CASE BindReturns \/ RefuseSnapshot \/ ApplyReturns
  <2>1. Idle /\ UNCHANGED <<stage, bodies, driven, sim>>
    BY <1>4 DEF BindReturns, RefuseSnapshot, ApplyReturns
  <2> QED BY <1>0, <2>1, IdleCoupling
<1>5. ASSUME NEW p \in Poses, InitialBodyTransforms(p) \/ UpdateKinematicBodies(p)
      PROVE  CouplingInv'
  <2>1. RowsOK(<<>>)
    BY DEF RowsOK
  <2> QED BY <1>5, <2>1, CallCoupling DEF InitialBodyTransforms, UpdateKinematicBodies
<1>6. CASE BodyTransforms
  BY <1>6, BodyTransformsCoupling
<1>7. ASSUME NEW i \in DOMAIN bodies, NEW m \in Frames, Step(i, m) PROVE CouplingInv'
  BY <1>7, StepCoupling
<1>8. ASSUME NEW p \in Poses, NEW r \in Reports, ApplyPhysicsToPose(p, r) PROVE CouplingInv'
  BY <1>8, SnapshotType, CallCoupling DEF ApplyPhysicsToPose
<1>9. CASE AcceptSnapshot
  BY <1>9, AcceptCoupling
<1>10. CASE FeedJoint
  BY <1>10, FeedJointCoupling
<1>11. CASE UNCHANGED vars
  BY <1>11 DEF vars, CouplingInv, AdapterTypeOK
<1> QED BY <1>1, <1>2, <1>3, <1>4, <1>5, <1>6, <1>7, <1>8, <1>9, <1>10, <1>11 DEF Next

\* The invariant holds throughout.
THEOREM CouplingIsInductive == Spec => []CouplingInv
<1>1. Init => CouplingInv
  BY InitCoupling
<1>2. CouplingInv /\ [Next]_vars => CouplingInv'
  BY NextCoupling
<1> QED BY <1>1, <1>2, PTL DEF Spec

\* The binding, the walks and the feedback of mmdPhysicsAdapter are typed: no
\* call reads or writes a joint the skeleton does not have.
THEOREM CouplingTypeCorrect == Spec => []AdapterTypeOK
<1>1. CouplingInv => AdapterTypeOK
  BY DEF CouplingInv
<1> QED BY <1>1, CouplingIsInductive, PTL

-----------------------------------------------------------------------------
(* What the feedback does *)

\* A finished feedback merges into the locals the walk computed.
LEMMA MergedLocals ==
  ASSUME CouplingInv, Returning, NEW j \in Joints
  PROVE  Merged(pose, fed)[j] = LocalOf(stage, pose, bodies, rows, world, j)
<1> DEFINE L == LocalOf(stage, pose, bodies, rows, world, j)
<1>1. Walked(stage, pose, bodies, rows, world, fed, at) /\ j < at
  BY NAssumption DEF CouplingInv, Returning, Joints
<1>2. CASE Feeders(bodies, j) = {}
  <2>1. ~ \E i \in DOMAIN fed : fed[i].joint = j
    BY <1>1, <1>2 DEF Walked
  <2>2. L = pose[j]
    BY <1>2 DEF LocalOf
  <2> QED BY <2>1, <2>2 DEF Merged
<1>3. CASE Feeders(bodies, j) # {}
  <2>1. \E i \in DOMAIN fed : fed[i].joint = j
    BY <1>1, <1>3 DEF Walked
  <2> DEFINE k == CHOOSE i \in DOMAIN fed : fed[i].joint = j
  <2>2. k \in DOMAIN fed /\ fed[k].joint = j
    BY <2>1
  <2>3. Merged(pose, fed)[j] = fed[k].local
    BY <2>1 DEF Merged
  <2> HIDE DEF k
  <2>4. fed[k].local = L
    BY <1>1, <2>2 DEF Walked
  <2> QED BY <2>3, <2>4
<1> QED BY <1>2, <1>3

LEMMA StaysImplied == CouplingInv => BodiesStayWhereSimulated
<1> SUFFICES ASSUME CouplingInv, Returning
             PROVE \E w \in [Joints -> Frames] :
      /\ AreWorlds(stage, w, Merged(pose, fed))
      /\ \A k \in DOMAIN bodies : Feeds(bodies[k]) =>
           LET b == bodies[k]
               local == Merged(pose, fed)[b.joint]
           IN  IF b.keepTranslation THEN local = Keep(local, pose[b.joint])
               ELSE Mul(b.offset, w[b.joint]) = Simulated(rows, b.path)
  BY DEF BodiesStayWhereSimulated
<1>1. /\ stage \in Stages /\ world \in [Joints -> Frames] /\ pose \in [Joints -> Frames]
      /\ bodies \in Seq(Bodies) /\ DrivenAgrees(bodies, driven) /\ RowsOK(rows)
      /\ Complete(bodies, rows) /\ at = N
      /\ Walked(stage, pose, bodies, rows, world, fed, at)
  BY DEF CouplingInv, AdapterTypeOK, Returning
<1>2. \A j \in Joints : world[j] = Mul(LocalOf(stage, pose, bodies, rows, world, j),
                                       Above(stage, world, j))
  BY <1>1, NAssumption DEF Walked, Joints
<1>3. AreWorlds(stage, world, Merged(pose, fed))
  BY <1>2, MergedLocals DEF AreWorlds
<1>4. ASSUME NEW k \in DOMAIN bodies, Feeds(bodies[k])
      PROVE  IF bodies[k].keepTranslation
             THEN Merged(pose, fed)[bodies[k].joint]
                    = Keep(Merged(pose, fed)[bodies[k].joint], pose[bodies[k].joint])
             ELSE Mul(bodies[k].offset, world[bodies[k].joint]) = Simulated(rows, bodies[k].path)
  <2> DEFINE b == bodies[k]
             j == b.joint
             m == Simulated(rows, b.path)
             above == Above(stage, world, j)
             local == FedLocal(b, m, above, pose[j])
  <2>1. b \in Bodies
    BY <1>1, SequenceShape
  <2>2. j \in Joints
    <3>1. b.joint \in -1..(N - 1) /\ b.joint >= 0
      BY <1>4, <2>1 DEF Bodies, Feeds
    <3> QED BY <3>1, NAssumption DEF Joints
  <2>3. k \in Feeders(bodies, j)
    BY <1>4 DEF Feeders
  <2>4. PICK l \in DOMAIN bodies : Feeder(bodies, j) = bodies[l] /\ Feeders(bodies, j) = {l}
    BY <1>1, <2>2, <2>3, FeederIsABody
  <2>5. Feeder(bodies, j) = b
    BY <2>3, <2>4
  <2>6. LocalOf(stage, pose, bodies, rows, world, j) = local
    BY <2>3, <2>5 DEF LocalOf
  <2>7. m \in Frames
    BY <1>1, <1>4, SimulatedType
  <2>8. above \in Frames /\ pose[j] \in Frames
    BY <1>1, <2>2, AboveType
  <2>9. Merged(pose, fed)[j] = local
    BY <2>2, <2>6, MergedLocals
  <2>10. world[j] = Mul(local, above)
    BY <1>2, <2>2, <2>6
  <2> HIDE DEF b, j, m, above
  <2>11. /\ b.keepTranslation => local = Keep(local, pose[j])
         /\ ~b.keepTranslation => Mul(b.offset, Mul(local, above)) = m
    BY <2>1, <2>7, <2>8, FedLocalType
  <2> HIDE DEF local
  <2>12. IF b.keepTranslation THEN Merged(pose, fed)[j] = Keep(Merged(pose, fed)[j], pose[j])
         ELSE Mul(b.offset, world[j]) = m
    BY <2>9, <2>10, <2>11
  <2> QED BY <2>12 DEF b, j, m
<1> QED BY <1>1, <1>3, <1>4

\* However bodies, offsets and undriven joints are arranged, the pose merged
\* from the feedback carries each dynamic body exactly where it was simulated.
THEOREM BodiesStay == Spec => []BodiesStayWhereSimulated
  BY StaysImplied, CouplingIsInductive, PTL

LEMMA AcceptedImplied == CouplingInv => FeedbackIsAccepted
<1> SUFFICES ASSUME CouplingInv, Returning
             PROVE /\ \A i, k \in DOMAIN fed : i < k => fed[i].joint < fed[k].joint
                   /\ {fed[i].joint : i \in DOMAIN fed} = {j \in Joints : Feeders(bodies, j) # {}}
  BY DEF FeedbackIsAccepted
<1>1. Walked(stage, pose, bodies, rows, world, fed, N) /\ fed \in Seq(Edits)
  BY DEF CouplingInv, AdapterTypeOK, Returning
<1>2. \A i \in DOMAIN fed : fed[i].joint \in Joints
  <2>1. \A i \in DOMAIN fed : fed[i] \in Edits
    BY <1>1, SequenceShape
  <2> QED BY <2>1 DEF Edits
<1>3. \A j \in Joints : j < N
  BY NAssumption DEF Joints
<1>4. \A i \in DOMAIN fed : Feeders(bodies, fed[i].joint) # {}
  BY <1>1 DEF Walked
<1>5. \A j \in Joints : Feeders(bodies, j) # {} => \E i \in DOMAIN fed : fed[i].joint = j
  BY <1>1, <1>3 DEF Walked
<1>6. \A i, k \in DOMAIN fed : i < k => fed[i].joint < fed[k].joint
  BY <1>1 DEF Walked
<1> QED BY <1>2, <1>4, <1>5, <1>6

\* For every binding and snapshot the feedback names each fed joint once and
\* no other, so that ResumePhysics does not refuse it.
THEOREM FeedbackAccepted == Spec => []FeedbackIsAccepted
  BY AcceptedImplied, CouplingIsInductive, PTL

-----------------------------------------------------------------------------
(* The world transforms of a pose *)

\* A skeleton and a pose have one table of world transforms at most.
LEMMA WorldsAreUnique ==
  ASSUME NEW s \in Stages, NEW p, NEW w \in [Joints -> Frames], NEW v \in [Joints -> Frames],
         AreWorlds(s, w, p), AreWorlds(s, v, p)
  PROVE  w = v
<1> DEFINE P == {n \in 0..N : \A j \in Joints : j < n => w[j] = v[j]}
<1>1. 0 \in P
  BY NAssumption DEF Joints
<1>2. ASSUME NEW n \in 0..(N - 1), n \in P PROVE n + 1 \in P
  <2>1. n \in Joints /\ n + 1 \in 0..N /\ \A j \in Joints : j < n + 1 => j < n \/ j = n
    BY NAssumption DEF Joints
  <2>2. \A j \in Joints : j < n => w[j] = v[j]
    BY <1>2
  <2>3. Above(s, w, n) = Above(s, v, n)
    BY <2>1, <2>2, AboveKept
  <2>4. w[n] = v[n]
    BY <2>1, <2>3 DEF AreWorlds
  <2> QED BY <2>1, <2>2, <2>4
<1>3. 0..N \subseteq P
  <2> HIDE DEF P
  <2> QED BY <1>1, <1>2, NAssumption, UpTo
<1>4. \A j \in Joints : w[j] = v[j]
  BY <1>3, NAssumption DEF Joints
<1> QED BY <1>4

\* And they have one.
LEMMA WorldsExist ==
  ASSUME NEW s \in Stages, NEW p \in [Joints -> Frames]
  PROVE  \E w \in [Joints -> Frames] : AreWorlds(s, w, p)
<1> DEFINE Begun(w, n) == \A j \in Joints : j < n => w[j] = Mul(p[j], Above(s, w, j))
           P == {n \in 0..N : \E w \in [Joints -> Frames] : Begun(w, n)}
<1>1. 0 \in P
  <2>1. Unwalked \in [Joints -> Frames]
    BY FramesAreAGroup DEF Unwalked
  <2>2. Begun(Unwalked, 0)
    BY NAssumption DEF Joints
  <2> HIDE DEF Begun
  <2> QED BY <2>1, <2>2, NAssumption
<1>2. ASSUME NEW n \in 0..(N - 1), n \in P PROVE n + 1 \in P
  <2>1. n \in Joints /\ n + 1 \in 0..N /\ \A j \in Joints : j < n + 1 => j < n \/ j = n
    BY NAssumption DEF Joints
  <2>2. PICK w \in [Joints -> Frames] : Begun(w, n)
    BY <1>2
  <2> DEFINE x == Mul(p[n], Above(s, w, n))
             v == [w EXCEPT ![n] = x]
  <2>3. x \in Frames
    <3>1. Above(s, w, n) \in Frames /\ p[n] \in Frames
      BY <2>1, AboveType
    <3> QED BY <3>1, FramesAreAGroup
  <2>4. v \in [Joints -> Frames]
    BY <2>3
  <2>5. v[n] = x /\ \A j \in Joints : j < n => v[j] = w[j]
    BY <2>1, NAssumption DEF Joints
  <2> HIDE DEF v
  <2>6. ASSUME NEW j \in Joints, j < n + 1 PROVE v[j] = Mul(p[j], Above(s, v, j))
    <3>1. \A i \in Joints : i < j => v[i] = w[i]
      BY <2>1, <2>5, <2>6, NAssumption DEF Joints
    <3>2. Above(s, v, j) = Above(s, w, j)
      BY <3>1, AboveKept
    <3>3. CASE j = n
      BY <2>5, <3>2, <3>3
    <3>4. CASE j < n
      BY <2>2, <2>5, <3>2, <3>4
    <3> QED BY <2>1, <2>6, <3>3, <3>4
  <2>7. Begun(v, n + 1)
    BY <2>6
  <2> HIDE DEF Begun
  <2> QED BY <2>1, <2>4, <2>7
<1>3. 0..N \subseteq P
  <2> HIDE DEF P
  <2> QED BY <1>1, <1>2, NAssumption, UpTo
<1>4. PICK w \in [Joints -> Frames] : Begun(w, N)
  <2>1. N \in P
    <3> HIDE DEF P
    <3> QED BY <1>3, NAssumption
  <2> QED BY <2>1
<1>5. AreWorlds(s, w, p)
  BY <1>4, NAssumption DEF AreWorlds, Joints
<1> QED BY <1>5

\* WorldOf is that table.
LEMMA WorldOfIsWorld ==
  ASSUME stage \in Stages, NEW p \in [Joints -> Frames]
  PROVE  WorldOf(p) \in [Joints -> Frames] /\ AreWorlds(stage, WorldOf(p), p)
<1> DEFINE Is(w) == w = [j \in Joints |-> Mul(p[j], IF stage.parents[j] < 0 THEN Placement(stage)
                                                   ELSE w[stage.parents[j]])]
<1>1. PICK w \in [Joints -> Frames] : AreWorlds(stage, w, p)
  BY WorldsExist
<1>2. Is(w)
  BY <1>1 DEF AreWorlds, Above
<1>3. WorldOf(p) = CHOOSE v : Is(v)
  BY DEF WorldOf
<1>4. Is(WorldOf(p))
  <2> HIDE DEF Is
  <2> QED BY <1>2, <1>3
<1> DEFINE W == WorldOf(p)
<1> HIDE DEF W
<1>5. W = [j \in Joints |-> Mul(p[j], Above(stage, W, j))]
  BY <1>4 DEF Above, W
<1>6. AreWorlds(stage, W, p)
  <2>1. \A j \in Joints : W[j] = Mul(p[j], Above(stage, W, j))
    BY <1>5
  <2> QED BY <2>1 DEF AreWorlds
<1> DEFINE P == {n \in 0..N : \A j \in Joints : j < n => W[j] = w[j]}
<1>7. 0 \in P
  BY NAssumption DEF Joints
<1>8. ASSUME NEW n \in 0..(N - 1), n \in P PROVE n + 1 \in P
  <2>1. n \in Joints /\ n + 1 \in 0..N /\ \A j \in Joints : j < n + 1 => j < n \/ j = n
    BY NAssumption DEF Joints
  <2>2. \A j \in Joints : j < n => W[j] = w[j]
    BY <1>8
  <2>3. Above(stage, W, n) = Above(stage, w, n)
    BY <2>1, <2>2, AboveKept
  <2>4. W[n] = w[n]
    BY <1>1, <1>6, <2>1, <2>3 DEF AreWorlds
  <2> QED BY <2>1, <2>2, <2>4
<1>9. 0..N \subseteq P
  <2> HIDE DEF P
  <2> QED BY <1>7, <1>8, NAssumption, UpTo
<1>10. \A j \in Joints : W[j] = w[j]
  BY <1>9, NAssumption DEF Joints
<1>11. W \in [Joints -> Frames]
  <2>1. W = [j \in Joints |-> W[j]]
    BY <1>5
  <2> QED BY <1>10, <2>1
<1> QED BY <1>6, <1>11 DEF W

-----------------------------------------------------------------------------
(* Feedback of a world nothing moved *)

\* A body that stands where the pose carries it gives its joint that pose.
LEMMA UnmovedLocal ==
  ASSUME NEW b \in Bodies, NEW l \in Frames, NEW above \in Frames
  PROVE  FedLocal(b, Mul(b.offset, Mul(l, above)), above, l) = l
<1> DEFINE o == b.offset
           x == Mul(l, above)
<1>1. o \in Frames
  BY DEF Bodies
<1>2. \A f, g, h \in Frames : Mul(Mul(f, g), h) = Mul(f, Mul(g, h))
  BY FramesAreAGroup
<1>3. Inv(o) \in Frames /\ Inv(above) \in Frames /\ x \in Frames
  BY <1>1, FramesAreAGroup
<1>4. Mul(Inv(o), Mul(o, x)) = x
  <2>1. Mul(Mul(Inv(o), o), x) = Mul(Inv(o), Mul(o, x))
    BY <1>1, <1>2, <1>3
  <2>2. Mul(Inv(o), o) = One /\ Mul(One, x) = x
    BY <1>1, <1>3, FramesAreAGroup
  <2> QED BY <2>1, <2>2
<1>5. Mul(x, Inv(above)) = l
  <2>1. Mul(Mul(l, above), Inv(above)) = Mul(l, Mul(above, Inv(above)))
    BY <1>2, <1>3
  <2>2. Mul(above, Inv(above)) = One /\ Mul(l, One) = l
    BY FramesAreAGroup
  <2> QED BY <2>1, <2>2
<1>6. Keep(l, l) = l
  BY FramesAreAGroup
<1> HIDE DEF x
<1> QED BY <1>4, <1>5, <1>6 DEF FedLocal, x, o

LEMMA UnmovedImplied == CouplingInv => UnmovedFeedsThePose
<1> DEFINE W == WorldOf(pose)
           Unmoved == \A k \in DOMAIN bodies : Feeds(bodies[k]) =>
                        Simulated(rows, bodies[k].path) = Mul(bodies[k].offset, W[bodies[k].joint])
           L(j) == LocalOf(stage, pose, bodies, rows, world, j)
           P == {n \in 0..N : \A j \in Joints : j < n => L(j) = pose[j] /\ world[j] = W[j]}
<1> SUFFICES ASSUME CouplingInv, Returning, Unmoved PROVE Merged(pose, fed) = pose
  BY DEF UnmovedFeedsThePose
<1>1. /\ stage \in Stages /\ pose \in [Joints -> Frames] /\ world \in [Joints -> Frames]
      /\ bodies \in Seq(Bodies) /\ DrivenAgrees(bodies, driven)
      /\ Walked(stage, pose, bodies, rows, world, fed, N)
  BY DEF CouplingInv, AdapterTypeOK, Returning
<1>2. W \in [Joints -> Frames] /\ AreWorlds(stage, W, pose)
  BY <1>1, WorldOfIsWorld
<1> HIDE DEF W
<1>3. 0 \in P
  BY NAssumption DEF Joints
<1>4. ASSUME NEW n \in 0..(N - 1), n \in P PROVE n + 1 \in P
  <2> DEFINE above == Above(stage, W, n)
  <2>1. n \in Joints /\ n + 1 \in 0..N /\ \A j \in Joints : j < n + 1 => j < n \/ j = n
    BY NAssumption DEF Joints
  <2>2. \A j \in Joints : j < n => L(j) = pose[j] /\ world[j] = W[j]
    BY <1>4
  <2>3. Above(stage, world, n) = above
    <3> HIDE DEF L
    <3> QED BY <1>1, <2>1, <2>2, AboveKept
  <2>4. above \in Frames /\ pose[n] \in Frames
    BY <1>1, <1>2, <2>1, AboveType
  <2>5. W[n] = Mul(pose[n], above)
    BY <1>2, <2>1 DEF AreWorlds
  <2> HIDE DEF above
  <2>6. L(n) = pose[n]
    <3>1. CASE Feeders(bodies, n) = {}
      BY <3>1 DEF LocalOf
    <3>2. CASE Feeders(bodies, n) # {}
      <4>1. PICK k \in DOMAIN bodies :
              /\ Feeder(bodies, n) = bodies[k] /\ Feeds(bodies[k]) /\ bodies[k].joint = n
              /\ bodies[k] \in Bodies
        BY <1>1, <2>1, <3>2, FeederIsABody
      <4>2. Simulated(rows, bodies[k].path) = Mul(bodies[k].offset, Mul(pose[n], above))
        BY <2>5, <4>1
      <4>3. L(n) = FedLocal(bodies[k], Simulated(rows, bodies[k].path), above, pose[n])
        BY <2>3, <3>2, <4>1 DEF LocalOf
      <4>4. FedLocal(bodies[k], Mul(bodies[k].offset, Mul(pose[n], above)), above, pose[n]) = pose[n]
        BY <2>4, <4>1, UnmovedLocal
      <4> HIDE DEF L
      <4> QED BY <4>2, <4>3, <4>4
    <3> QED BY <3>1, <3>2
  <2>7. world[n] = Mul(L(n), above)
    BY <1>1, <2>1, <2>3, NAssumption DEF Walked, Joints
  <2> HIDE DEF L
  <2>8. world[n] = W[n]
    BY <2>5, <2>6, <2>7
  <2> QED BY <2>1, <2>2, <2>6, <2>8
<1>5. 0..N \subseteq P
  <2> HIDE DEF P
  <2> QED BY <1>3, <1>4, NAssumption, UpTo
<1>6. \A j \in Joints : L(j) = pose[j]
  BY <1>5, NAssumption DEF Joints
<1>7. \A j \in Joints : Merged(pose, fed)[j] = pose[j]
  BY <1>6, MergedLocals
<1>8. Merged(pose, fed) = [j \in Joints |-> Merged(pose, fed)[j]]
  BY DEF Merged
<1> QED BY <1>1, <1>7, <1>8

\* For every skeleton, binding and pose: if each feeding body stands where the
\* pose carries it, ApplyPhysicsToPose gives back that very pose.
THEOREM UnmovedIsThePose == Spec => []UnmovedFeedsThePose
  BY UnmovedImplied, CouplingIsInductive, PTL

-----------------------------------------------------------------------------
(* What Bind makes of the stage *)

RestOf(s) == [j \in Joints |-> Metres(s.rest[j])]

\* Body k drives joint j.
DrivesAt(s, k, j) == Drives(s.bodies[k]) /\ s.bodies[k].joint = j

\* Of the first n bodies, k is the last that drives joint j; or none does.
LastDriver(s, n, j, k) == k \in 1..n /\ DrivesAt(s, k, j) /\ \A l \in 1..n : DrivesAt(s, l, j) => l <= k
Undriven(s, n, j) == \A l \in 1..n : ~DrivesAt(s, l, j)

\* The first bodies are those of the stage, on offsets from the rest pose, and
\* the last driver of each joint so far feeds it.
Bound(s, bs, dr, w) ==
  /\ \A k \in 1..Len(bs) : LET b == s.bodies[k] IN
       /\ bs[k].joint = b.joint
       /\ b.joint >= 0 => Mul(bs[k].offset, w[b.joint]) = Metres(b.frame)
       /\ Feeds(bs[k]) <=> Drives(b) /\ dr[b.joint] = k
  /\ \A j \in Joints : IF dr[j] = 0 THEN Undriven(s, Len(bs), j) ELSE LastDriver(s, Len(bs), j, dr[j])

\* The joints before n are placed.
PlacedTo(s, p, w, n) == \A j \in Joints : j < n => w[j] = Mul(p[j], Above(s, w, j))

Binding == pc \in {"unbound", "binding"} \/ (pc = "posing" /\ op = "bind")
Coupled == op # "bind" /\ pc \in {"bound", "posing", "feeding"}

\* Until Bind returns, the rest pose is walked and the bodies so far are bound;
\* from then on all are, whatever calls do.
BindInv ==
  /\ Binding =>
       /\ op = "bind"
       /\ pc # "binding" => bodies = <<>> /\ driven = [j \in Joints |-> 0]
       /\ pc = "unbound" => at = 0
       /\ pc # "unbound" => pose = RestOf(stage) /\ PlacedTo(stage, pose, world, at)
       /\ pc = "binding" => at = N /\ Bound(stage, bodies, driven, world)
  /\ pc \in {"bound", "feeding"} => op # "bind"
  /\ Coupled =>
       /\ Len(bodies) = Len(stage.bodies)
       /\ \A w \in [Joints -> Frames] :
            AreWorlds(stage, w, RestOf(stage)) => Bound(stage, bodies, driven, w)

LEMMA RestType ==
  ASSUME NEW s \in Stages
  PROVE  RestOf(s) \in [Joints -> Frames]
<1>1. \A j \in Joints : s.rest[j] \in Frames
  BY StagesAssumption
<1>2. \A j \in Joints : Metres(s.rest[j]) \in Frames
  BY <1>1, FramesAreAGroup
<1> QED BY <1>2 DEF RestOf

\* Placing one joint more.
LEMMA PlacedOneMore ==
  ASSUME NEW s \in Stages, NEW p, NEW w \in [Joints -> Frames], NEW n \in Joints,
         PlacedTo(s, p, w, n)
  PROVE  PlacedTo(s, p, [w EXCEPT ![n] = Mul(p[n], Above(s, w, n))], n + 1)
<1> DEFINE x == Mul(p[n], Above(s, w, n))
           v == [w EXCEPT ![n] = x]
<1>1. n \in Int /\ \A j \in Joints : j \in Int
  BY NAssumption DEF Joints
<1>2. v[n] = x /\ \A j \in Joints : j < n => v[j] = w[j]
  BY <1>1
<1> HIDE DEF v
<1>3. ASSUME NEW j \in Joints, j < n + 1 PROVE v[j] = Mul(p[j], Above(s, v, j))
  <2>1. \A i \in Joints : i < j => v[i] = w[i]
    BY <1>1, <1>2, <1>3
  <2>2. Above(s, v, j) = Above(s, w, j)
    BY <2>1, AboveKept
  <2>3. CASE j = n
    BY <1>2, <2>2, <2>3
  <2>4. CASE j < n
    BY <1>2, <2>2, <2>4 DEF PlacedTo
  <2> QED BY <1>1, <1>3, <2>3, <2>4
<1> QED BY <1>3 DEF PlacedTo, v

\* What BindBody appends, and which body it silences.
LEMMA BoundBodies ==
  ASSUME CouplingInv, BindBody
  PROVE  /\ Len(bodies) \in Nat /\ Len(bodies') = Len(bodies) + 1
         /\ bodies'[Len(bodies) + 1] = Body(NextBody)
         /\ \A i \in 1..Len(bodies) :
              /\ bodies'[i].joint = bodies[i].joint /\ bodies'[i].offset = bodies[i].offset
              /\ Feeds(bodies'[i]) <=>
                   Feeds(bodies[i]) /\ ~(Drives(NextBody) /\ driven[NextBody.joint] = i)
<1>1. pc = "binding" /\ Pending /\ Admitted(NextBody)
  BY DEF BindBody
<1> DEFINE b == NextBody
           n == Len(bodies)
           taken == Drives(b) /\ driven[b.joint] # 0
           old == IF taken THEN Silenced(driven[b.joint]) ELSE bodies
<1>2. Body(b) \in Bodies /\ b.joint \in -1..(N - 1)
  BY <1>1, BodyType
<1>3. /\ bodies \in Seq(Bodies) /\ n \in Nat /\ \A i \in 1..n : bodies[i] \in Bodies
      /\ driven \in [Joints -> 0..n]
  BY SequenceShape DEF CouplingInv, AdapterTypeOK
<1>4. bodies' = Append(old, Body(b))
  BY DEF BindBody
<1>5. Drives(b) => b.joint \in Joints
  BY <1>2, NAssumption DEF Drives, Joints
<1> HIDE DEF b, n
<1>6. /\ old \in Seq(Bodies) /\ Len(old) = n
      /\ \A i \in 1..n :
           /\ old[i].joint = bodies[i].joint /\ old[i].offset = bodies[i].offset
           /\ Feeds(old[i]) <=> Feeds(bodies[i]) /\ ~(Drives(b) /\ driven[b.joint] = i)
  <2>1. CASE ~taken
    <3>1. \A i \in 1..n : ~(Drives(b) /\ driven[b.joint] = i)
      BY <1>3, <2>1
    <3> QED BY <1>3, <2>1, <3>1 DEF n
  <2>2. CASE taken
    <3> DEFINE d == driven[b.joint]
               x == [bodies[d] EXCEPT !.feedback = FALSE]
    <3>1. d \in 1..n
      BY <1>3, <1>5, <2>2
    <3>2. bodies[d] \in Bodies
      BY <1>3, <3>1
    <3>3. /\ x \in Bodies /\ x.joint = bodies[d].joint /\ x.feedback = FALSE
          /\ x.offset = bodies[d].offset
      BY <3>2 DEF Bodies
    <3>4. old = [bodies EXCEPT ![d] = x]
      BY <2>2 DEF Silenced
    <3> HIDE DEF d, x
    <3>5. /\ [bodies EXCEPT ![d] = x] \in Seq(Bodies) /\ Len([bodies EXCEPT ![d] = x]) = n
          /\ [bodies EXCEPT ![d] = x][d] = x
          /\ \A k \in 1..n : k # d => [bodies EXCEPT ![d] = x][k] = bodies[k]
      BY <1>3, <3>1, <3>3, OneChanged DEF n
    <3>6. \A i \in 1..n : /\ old[i].joint = bodies[i].joint /\ old[i].offset = bodies[i].offset
                          /\ Feeds(old[i]) <=> Feeds(bodies[i]) /\ d # i
      BY <3>3, <3>4, <3>5 DEF Feeds
    <3>7. \A i : (Drives(b) /\ driven[b.joint] = i) <=> d = i
      BY <2>2 DEF d
    <3> QED BY <3>4, <3>5, <3>6, <3>7
  <2> QED BY <2>1, <2>2
<1> HIDE DEF old
<1>7. /\ Len(bodies') = n + 1 /\ bodies'[n + 1] = Body(b)
      /\ \A i \in 1..n : bodies'[i] = old[i]
  BY <1>2, <1>4, <1>6, OneMore
<1> QED BY <1>3, <1>6, <1>7 DEF b, n

\* One body more is bound.
LEMMA OneMoreBound ==
  ASSUME CouplingInv, BindBody, Bound(stage, bodies, driven, world)
  PROVE  Bound(stage, bodies', driven', world)
<1> DEFINE b == NextBody
           n == Len(bodies)
           S(k) == stage.bodies[k]
<1>1. pc = "binding" /\ Pending /\ Admitted(NextBody)
  BY DEF BindBody
<1>2. /\ b.joint \in -1..(N - 1) /\ Body(b).joint = b.joint /\ (Feeds(Body(b)) <=> Drives(b))
  BY <1>1, BodyType
<1>3. /\ n \in Nat /\ Len(bodies') = n + 1 /\ bodies'[n + 1] = Body(b)
      /\ \A i \in 1..n :
           /\ bodies'[i].joint = bodies[i].joint /\ bodies'[i].offset = bodies[i].offset
           /\ Feeds(bodies'[i]) <=> Feeds(bodies[i]) /\ ~(Drives(b) /\ driven[b.joint] = i)
  BY BoundBodies
<1>4. /\ driven' = IF Drives(b) THEN [driven EXCEPT ![b.joint] = n + 1] ELSE driven
      /\ driven \in [Joints -> 0..n] /\ world \in [Joints -> Frames] /\ stage \in Stages
  BY DEF BindBody, CouplingInv, AdapterTypeOK
<1>5. Drives(b) => b.joint \in Joints
  BY <1>2, NAssumption DEF Drives, Joints
<1>6. b = S(n + 1)
  BY DEF NextBody
<1>7. \A j \in Joints : driven'[j] = IF Drives(b) /\ b.joint = j THEN n + 1 ELSE driven[j]
  BY <1>4, <1>5
<1>8. b.joint >= 0 => Mul(Body(b).offset, world[b.joint]) = Metres(b.frame)
  <2> SUFFICES ASSUME b.joint >= 0 PROVE Mul(Body(b).offset, world[b.joint]) = Metres(b.frame)
    OBVIOUS
  <2> DEFINE m == Metres(b.frame)
             x == world[b.joint]
  <2>1. x \in Frames
    <3>1. b.joint \in Joints
      BY <1>2, NAssumption DEF Joints
    <3> QED BY <1>4, <3>1
  <2>2. m \in Frames
    <3>1. stage.bodies \in Seq([path : Paths, joint : Int, mode : STRING, kinematic : BOOLEAN,
                                static : BOOLEAN, frame : Frames])
      BY <1>4, StagesAssumption
    <3>2. Len(stage.bodies) \in Nat
      BY <3>1, SequenceShape
    <3>3. n + 1 \in 1..Len(stage.bodies)
      BY <1>1, <1>3, <3>2 DEF Pending
    <3>4. NextBody \in [path : Paths, joint : Int, mode : STRING, kinematic : BOOLEAN,
                        static : BOOLEAN, frame : Frames]
      BY <3>1, <3>3, SequenceShape DEF NextBody
    <3>5. b.frame \in Frames
      BY <3>4
    <3> QED BY <3>5, FramesAreAGroup
  <2>3. Body(b).offset = Mul(m, Inv(x))
    <3>1. ~(b.joint < 0)
      BY <1>2
    <3> QED BY <3>1 DEF Body, OffsetOf
  <2> HIDE DEF m, x
  <2>4. Inv(x) \in Frames /\ Mul(Inv(x), x) = One /\ Mul(m, One) = m
    BY <2>1, <2>2, FramesAreAGroup
  <2>5. Mul(Mul(m, Inv(x)), x) = Mul(m, Mul(Inv(x), x))
    BY <2>1, <2>2, <2>4, FramesAreAGroup
  <2> QED BY <2>3, <2>4, <2>5 DEF m, x
<1> HIDE DEF b, n
<1>9. /\ \A k \in 1..n :
           /\ bodies[k].joint = S(k).joint
           /\ S(k).joint >= 0 => Mul(bodies[k].offset, world[S(k).joint]) = Metres(S(k).frame)
           /\ Feeds(bodies[k]) <=> Drives(S(k)) /\ driven[S(k).joint] = k
      /\ \A j \in Joints : IF driven[j] = 0 THEN Undriven(stage, n, j)
                           ELSE LastDriver(stage, n, j, driven[j])
  BY DEF Bound, n
<1>10. ASSUME NEW k \in 1..(n + 1)
       PROVE  /\ bodies'[k].joint = S(k).joint
              /\ S(k).joint >= 0 => Mul(bodies'[k].offset, world[S(k).joint]) = Metres(S(k).frame)
              /\ Feeds(bodies'[k]) <=> Drives(S(k)) /\ driven'[S(k).joint] = k
  <2>1. CASE k = n + 1
    <3>1. S(k) = b /\ bodies'[k] = Body(b)
      BY <1>3, <1>6, <2>1
    <3>2. Drives(b) => driven'[b.joint] = k
      BY <1>5, <1>7, <2>1
    <3> HIDE DEF S
    <3> QED BY <1>2, <1>8, <3>1, <3>2
  <2>2. CASE k # n + 1
    <3>1. k \in 1..n
      BY <1>3, <2>2
    <3> DEFINE c == S(k)
    <3>2. /\ bodies'[k].joint = c.joint
          /\ c.joint >= 0 => Mul(bodies'[k].offset, world[c.joint]) = Metres(c.frame)
      BY <1>3, <1>9, <3>1
    <3>3. Drives(c) => c.joint \in Joints
      <4>1. bodies[k] \in Bodies
        BY <3>1, SequenceShape DEF CouplingInv, AdapterTypeOK, n
      <4>2. c.joint \in -1..(N - 1)
        BY <1>9, <3>1, <4>1 DEF Bodies
      <4> QED BY <4>2, NAssumption DEF Drives, Joints
    <3>4. Drives(b) /\ driven[b.joint] = k => Drives(c) /\ c.joint = b.joint
      <4> SUFFICES ASSUME Drives(b), driven[b.joint] = k PROVE Drives(c) /\ c.joint = b.joint
        OBVIOUS
      <4>1. LastDriver(stage, n, b.joint, k)
        BY <1>5, <1>9, <3>1
      <4> QED BY <4>1 DEF LastDriver, DrivesAt
    <3>5. (Feeds(bodies[k]) <=> Drives(c) /\ driven[c.joint] = k) /\ k # n + 1
      BY <1>9, <2>2, <3>1
    <3>6. Feeds(bodies'[k]) <=> Feeds(bodies[k]) /\ ~(Drives(b) /\ driven[b.joint] = k)
      BY <1>3, <3>1
    <3>7. Drives(c) => driven'[c.joint] = IF Drives(b) /\ b.joint = c.joint THEN n + 1 ELSE driven[c.joint]
      BY <1>7, <3>3
    <3> HIDE DEF c
    <3>8. Feeds(bodies'[k]) <=> Drives(c) /\ driven'[c.joint] = k
      BY <3>4, <3>5, <3>6, <3>7
    <3> QED BY <3>2, <3>8 DEF c
  <2> QED BY <2>1, <2>2
<1>11. ASSUME NEW j \in Joints
       PROVE  IF driven'[j] = 0 THEN Undriven(stage, n + 1, j)
              ELSE LastDriver(stage, n + 1, j, driven'[j])
  <2>0. 1..(n + 1) = 1..n \cup {n + 1} /\ n + 1 # 0 /\ \A l \in 1..(n + 1) : l <= n + 1
    BY <1>3
  <2>1. CASE Drives(b) /\ b.joint = j
    <3>1. driven'[j] = n + 1 /\ DrivesAt(stage, n + 1, j)
      BY <1>6, <1>7, <2>1 DEF DrivesAt
    <3> QED BY <2>0, <3>1 DEF LastDriver
  <2>2. CASE ~(Drives(b) /\ b.joint = j)
    <3>1. driven'[j] = driven[j] /\ ~DrivesAt(stage, n + 1, j)
      BY <1>6, <1>7, <2>2 DEF DrivesAt
    <3>2. CASE driven[j] = 0
      <4>1. Undriven(stage, n, j)
        BY <1>9, <3>2
      <4> QED BY <2>0, <3>1, <3>2, <4>1 DEF Undriven
    <3>3. CASE driven[j] # 0
      <4>1. LastDriver(stage, n, j, driven[j])
        BY <1>9, <3>3
      <4>2. LastDriver(stage, n + 1, j, driven[j])
        BY <2>0, <3>1, <4>1 DEF LastDriver
      <4> QED BY <3>1, <3>3, <4>2
    <3> QED BY <3>2, <3>3
  <2> QED BY <2>1, <2>2
<1> QED BY <1>3, <1>10, <1>11 DEF Bound

\* What Bind has bound is not touched by any later call.
LEMMA CouplingStays ==
  ASSUME BindInv, Coupled, UNCHANGED <<stage, bodies, driven>>,
         op' # "bind", pc' \in {"bound", "posing", "feeding"}
  PROVE  BindInv'
<1>1. /\ Len(bodies) = Len(stage.bodies)
      /\ \A w \in [Joints -> Frames] :
           AreWorlds(stage, w, RestOf(stage)) => Bound(stage, bodies, driven, w)
  BY DEF BindInv
<1>2. stage' = stage /\ bodies' = bodies /\ driven' = driven
  OBVIOUS
<1>3. /\ Len(bodies') = Len(stage'.bodies)
      /\ \A w \in [Joints -> Frames] :
           AreWorlds(stage', w, RestOf(stage')) => Bound(stage', bodies', driven', w)
  BY <1>1, <1>2
<1>4. ~Binding'
  BY DEF Binding
<1> QED BY <1>3, <1>4 DEF BindInv

LEMMA BindStep == CouplingInv /\ BindInv /\ (Place \/ BindSkeleton \/ RestPlaced) => BindInv'
<1>1. ASSUME CouplingInv, BindInv, Place PROVE BindInv'
  <2>1. /\ pc = "posing" /\ at < N /\ at' = at + 1
        /\ world' = [world EXCEPT ![at] = Mul(pose[at], Above(stage, world, at))]
        /\ UNCHANGED <<stage, pc, op, pose, bodies, driven, notes, kept, sim, rows, fed>>
    BY <1>1 DEF Place
  <2>2. CASE op # "bind"
    BY <1>1, <2>1, <2>2, CouplingStays DEF Coupled
  <2>3. CASE op = "bind"
    <3>1. /\ stage \in Stages /\ world \in [Joints -> Frames] /\ at \in Joints
      BY <1>1, <2>1, NAssumption DEF CouplingInv, AdapterTypeOK, Joints
    <3>2. /\ bodies = <<>> /\ driven = [j \in Joints |-> 0] /\ pose = RestOf(stage)
          /\ PlacedTo(stage, pose, world, at)
      BY <1>1, <2>1, <2>3 DEF BindInv, Binding
    <3>3. PlacedTo(stage, pose, world', at + 1)
      BY <2>1, <3>1, <3>2, PlacedOneMore
    <3>4. /\ bodies' = <<>> /\ driven' = [j \in Joints |-> 0] /\ pose' = RestOf(stage')
          /\ PlacedTo(stage', pose', world', at') /\ pc' = "posing" /\ op' = "bind"
      BY <2>1, <2>3, <3>2, <3>3
    <3> QED BY <3>4 DEF BindInv, Coupled
  <2> QED BY <2>2, <2>3
<1>2. ASSUME CouplingInv, BindInv, BindSkeleton PROVE BindInv'
  <2>1. /\ pc = "unbound" /\ pc' = "posing" /\ pose' = RestOf(stage)
        /\ UNCHANGED <<stage, op, at, world, bodies, driven>>
    BY <1>2 DEF BindSkeleton, RestOf
  <2>2. op = "bind" /\ bodies = <<>> /\ driven = [j \in Joints |-> 0] /\ at = 0
    BY <1>2, <2>1 DEF BindInv, Binding
  <2>3. PlacedTo(stage', pose', world', at')
    BY <2>1, <2>2, NAssumption DEF PlacedTo, Joints
  <2>4. pose' = RestOf(stage')
    BY <2>1
  <2> QED BY <2>1, <2>2, <2>3, <2>4 DEF BindInv, Coupled
<1>3. ASSUME CouplingInv, BindInv, RestPlaced PROVE BindInv'
  <2>1. /\ pc = "posing" /\ op = "bind" /\ at = N /\ pc' = "binding"
        /\ UNCHANGED <<stage, op, pose, at, world, bodies, driven>>
    BY <1>3 DEF RestPlaced
  <2>2. /\ bodies = <<>> /\ driven = [j \in Joints |-> 0] /\ pose = RestOf(stage)
        /\ PlacedTo(stage, pose, world, at)
    BY <1>3, <2>1 DEF BindInv, Binding
  <2>3. Bound(stage, bodies, driven, world)
    <3>1. Len(bodies) = 0 /\ \A j \in Joints : driven[j] = 0
      BY <2>2
    <3> QED BY <3>1 DEF Bound, Undriven
  <2>4. /\ Bound(stage', bodies', driven', world') /\ pose' = RestOf(stage')
        /\ PlacedTo(stage', pose', world', at') /\ at' = N /\ op' = "bind"
    BY <2>1, <2>2, <2>3
  <2> QED BY <2>1, <2>4 DEF BindInv, Coupled
<1> QED BY <1>1, <1>2, <1>3

LEMMA BindBodyStep == CouplingInv /\ BindInv /\ BindBody => BindInv'
<1> SUFFICES ASSUME CouplingInv, BindInv, BindBody PROVE BindInv'
  OBVIOUS
<1>1. pc = "binding" /\ UNCHANGED <<stage, pc, op, pose, at, world>>
  BY DEF BindBody
<1>2. /\ op = "bind" /\ at = N /\ pose = RestOf(stage) /\ PlacedTo(stage, pose, world, at)
      /\ Bound(stage, bodies, driven, world)
  BY <1>1 DEF BindInv, Binding
<1>3. Bound(stage, bodies', driven', world)
  BY <1>2, OneMoreBound
<1>4. /\ Bound(stage', bodies', driven', world') /\ pose' = RestOf(stage')
      /\ PlacedTo(stage', pose', world', at') /\ at' = N /\ op' = "bind" /\ pc' = "binding"
  BY <1>1, <1>2, <1>3
<1> QED BY <1>4 DEF BindInv, Coupled

\* When Bind returns, the worlds it walked are those of the rest pose.
LEMMA BindReturnsStep == CouplingInv /\ BindInv /\ BindReturns => BindInv'
<1> SUFFICES ASSUME CouplingInv, BindInv, BindReturns PROVE BindInv'
  OBVIOUS
<1>1. /\ pc = "binding" /\ ~Pending /\ pc' = "bound" /\ op' = "none"
      /\ UNCHANGED <<stage, bodies, driven>>
  BY DEF BindReturns, Idle
<1>2. /\ at = N /\ pose = RestOf(stage) /\ PlacedTo(stage, pose, world, at)
      /\ Bound(stage, bodies, driven, world)
  BY <1>1 DEF BindInv, Binding
<1>3. /\ stage \in Stages /\ world \in [Joints -> Frames]
      /\ Len(bodies) <= Len(stage.bodies) /\ Len(bodies) \in Nat
  BY SequenceShape DEF CouplingInv, AdapterTypeOK
<1>4. Len(bodies) = Len(stage.bodies)
  <2>1. stage.bodies \in Seq([path : Paths, joint : Int, mode : STRING, kinematic : BOOLEAN,
                              static : BOOLEAN, frame : Frames])
    BY <1>3, StagesAssumption
  <2>2. Len(stage.bodies) \in Nat
    BY <2>1, SequenceShape
  <2> QED BY <1>1, <1>3, <2>2 DEF Pending
<1>5. AreWorlds(stage, world, RestOf(stage))
  BY <1>2, NAssumption DEF PlacedTo, AreWorlds, Joints
<1>6. ASSUME NEW w \in [Joints -> Frames], AreWorlds(stage, w, RestOf(stage))
      PROVE  Bound(stage, bodies, driven, w)
  <2>1. w = world
    BY <1>3, <1>5, <1>6, WorldsAreUnique
  <2> QED BY <1>2, <2>1
<1>7. stage' = stage /\ bodies' = bodies /\ driven' = driven
  BY <1>1
<1>8. /\ Len(bodies') = Len(stage'.bodies)
      /\ \A w \in [Joints -> Frames] :
           AreWorlds(stage', w, RestOf(stage')) => Bound(stage', bodies', driven', w)
  BY <1>4, <1>6, <1>7
<1> QED BY <1>1, <1>8 DEF BindInv, Binding

LEMMA NextBind == CouplingInv /\ BindInv /\ [Next]_vars => BindInv'
<1> SUFFICES ASSUME CouplingInv, BindInv, [Next]_vars PROVE BindInv'
  OBVIOUS
<1>0. pc \in {"bound", "feeding"} => op # "bind"
  BY DEF BindInv
<1>1. CASE Place \/ BindSkeleton \/ RestPlaced
  BY <1>1, BindStep
<1>2. CASE RejectSkeleton \/ RejectBody
  <2>1. pc' = "rejected"
    BY <1>2 DEF RejectSkeleton, RejectBody
  <2> QED BY <2>1 DEF BindInv, Binding, Coupled
<1>3. CASE BindBody
  BY <1>3, BindBodyStep
<1>4. CASE BindReturns
  BY <1>4, BindReturnsStep
<1>5. CASE BodyTransforms \/ RefuseSnapshot \/ ApplyReturns
  <2>1. /\ op # "bind" /\ pc \in {"posing", "feeding"} /\ op' = "none" /\ pc' = "bound"
        /\ UNCHANGED <<stage, bodies, driven>>
    BY <1>0, <1>5 DEF BodyTransforms, RefuseSnapshot, ApplyReturns, Idle
  <2> QED BY <2>1, CouplingStays DEF Coupled
<1>6. ASSUME NEW name \in {"initial", "kinematic", "apply"}, NEW p, NEW rs, Call(name, p, rs)
      PROVE  BindInv'
  <2>1. /\ pc = "bound" /\ pc' = "posing" /\ op' = name
        /\ UNCHANGED <<stage, bodies, driven>>
    BY <1>6 DEF Call
  <2> QED BY <1>0, <2>1, CouplingStays DEF Coupled
<1>7. ASSUME NEW p \in Poses, InitialBodyTransforms(p) \/ UpdateKinematicBodies(p) PROVE BindInv'
  BY <1>6, <1>7 DEF InitialBodyTransforms, UpdateKinematicBodies
<1>8. ASSUME NEW p \in Poses, NEW r \in Reports, ApplyPhysicsToPose(p, r) PROVE BindInv'
  BY <1>6, <1>8 DEF ApplyPhysicsToPose
<1>9. ASSUME NEW i \in DOMAIN bodies, NEW m \in Frames, Step(i, m) PROVE BindInv'
  <2>1. pc = "bound" /\ UNCHANGED <<stage, pc, op, bodies, driven>>
    BY <1>9 DEF Step
  <2> QED BY <1>0, <2>1, CouplingStays DEF Coupled
<1>10. CASE AcceptSnapshot
  <2>1. /\ pc = "posing" /\ op = "apply" /\ pc' = "feeding" /\ UNCHANGED <<stage, op, bodies, driven>>
    BY <1>10 DEF AcceptSnapshot
  <2> QED BY <2>1, CouplingStays DEF Coupled
<1>11. CASE FeedJoint
  <2>1. pc = "feeding" /\ UNCHANGED <<stage, pc, op, bodies, driven>>
    BY <1>11 DEF FeedJoint
  <2> QED BY <1>0, <2>1, CouplingStays DEF Coupled
<1>12. CASE UNCHANGED vars
  <2>1. UNCHANGED <<stage, pc, op, pose, at, world, bodies, driven>>
    BY <1>12 DEF vars
  <2> QED BY <2>1 DEF BindInv, Binding, Coupled
<1> QED BY <1>1, <1>2, <1>3, <1>4, <1>5, <1>7, <1>8, <1>9, <1>10, <1>11, <1>12 DEF Next

LEMMA MeaningImplied == CouplingInv /\ BindInv => BindingMeansTheStage
<1> DEFINE rest == WorldOf(RestOf(stage))
           n == Len(bodies)
           S(k) == stage.bodies[k]
<1>0. BindingMeansTheStage <=>
        (pc = "bound" =>
           \A k \in DOMAIN bodies :
             /\ bodies[k].joint >= 0 =>
                  Mul(bodies[k].offset, rest[bodies[k].joint]) = Metres(S(k).frame)
             /\ bodies[k].feedback /\ S(k).joint >= 0 <=>
                  /\ Drives(S(k))
                  /\ \A l \in DOMAIN stage.bodies :
                       l > k /\ Drives(S(l)) => S(l).joint # S(k).joint)
  BY DEF BindingMeansTheStage, RestOf
<1> SUFFICES ASSUME CouplingInv, BindInv, pc = "bound", NEW k \in DOMAIN bodies
             PROVE  /\ bodies[k].joint >= 0 =>
                         Mul(bodies[k].offset, rest[bodies[k].joint]) = Metres(S(k).frame)
                    /\ bodies[k].feedback /\ S(k).joint >= 0 <=>
                         /\ Drives(S(k))
                         /\ \A l \in DOMAIN stage.bodies :
                              l > k /\ Drives(S(l)) => S(l).joint # S(k).joint
  BY <1>0
<1>1. /\ stage \in Stages /\ n \in Nat /\ DOMAIN bodies = 1..n
      /\ \A i \in 1..n : bodies[i] \in Bodies
  BY SequenceShape DEF CouplingInv, AdapterTypeOK
<1>2. DOMAIN stage.bodies = 1..n
  <2>1. stage.bodies \in Seq([path : Paths, joint : Int, mode : STRING, kinematic : BOOLEAN,
                              static : BOOLEAN, frame : Frames])
    BY <1>1, StagesAssumption
  <2>2. Len(bodies) = Len(stage.bodies)
    BY DEF BindInv, Coupled
  <2> QED BY <2>1, <2>2, SequenceShape
<1>3. rest \in [Joints -> Frames] /\ AreWorlds(stage, rest, RestOf(stage))
  BY <1>1, RestType, WorldOfIsWorld
<1>4. Bound(stage, bodies, driven, rest)
  <2> HIDE DEF rest
  <2> QED BY <1>3 DEF BindInv, Coupled
<1> HIDE DEF rest
<1>5. /\ bodies[k].joint = S(k).joint
      /\ S(k).joint >= 0 => Mul(bodies[k].offset, rest[S(k).joint]) = Metres(S(k).frame)
      /\ Feeds(bodies[k]) <=> Drives(S(k)) /\ driven[S(k).joint] = k
  BY <1>1, <1>4 DEF Bound
<1>6. S(k).joint >= 0 => S(k).joint \in Joints
  <2>1. S(k).joint \in -1..(N - 1)
    BY <1>1, <1>5 DEF Bodies
  <2> QED BY <2>1, NAssumption DEF Joints
<1>7. Feeds(bodies[k]) <=> bodies[k].feedback /\ S(k).joint >= 0
  BY <1>5 DEF Feeds
<1>8. ASSUME Drives(S(k))
      PROVE  driven[S(k).joint] = k <=>
               \A l \in 1..n : l > k /\ Drives(S(l)) => S(l).joint # S(k).joint
  <2> DEFINE j == S(k).joint
             d == driven[j]
  <2>1. j \in Joints /\ DrivesAt(stage, k, j)
    BY <1>6, <1>8 DEF Drives, DrivesAt
  <2>2. k \in 1..n
    BY <1>1
  <2>3. IF d = 0 THEN Undriven(stage, n, j) ELSE LastDriver(stage, n, j, d)
    BY <1>4, <2>1 DEF Bound
  <2>4. LastDriver(stage, n, j, d)
    BY <2>1, <2>2, <2>3 DEF Undriven
  <2> HIDE DEF d, j
  <2>5. /\ d \in 1..n /\ DrivesAt(stage, d, j)
        /\ \A l \in 1..n : DrivesAt(stage, l, j) => l <= d
    BY <2>4 DEF LastDriver
  <2>6. \A l \in 1..n : DrivesAt(stage, l, j) <=> Drives(S(l)) /\ S(l).joint = j
    BY DEF DrivesAt
  <2>7. ASSUME d = k, NEW l \in 1..n, l > k PROVE ~DrivesAt(stage, l, j)
    BY <1>1, <2>2, <2>5, <2>7
  <2>8. ASSUME \A l \in 1..n : l > k => ~DrivesAt(stage, l, j) PROVE d = k
    <3>1. k <= d /\ ~(d > k)
      BY <2>1, <2>2, <2>5, <2>8
    <3> QED BY <1>1, <2>2, <2>5, <3>1
  <2>9. d = k <=> \A l \in 1..n : l > k /\ Drives(S(l)) => S(l).joint # j
    BY <2>6, <2>7, <2>8
  <2> QED BY <2>9 DEF d, j
<1> QED BY <1>2, <1>5, <1>7, <1>8

\* The binding and the skeleton's rest pose agree throughout.
THEOREM BindingIsInductive == Spec => []BindInv
<1>1. Init => BindInv
  BY DEF Init, BindInv, Coupled
<1>2. CouplingInv /\ BindInv /\ [Next]_vars => BindInv'
  BY NextBind
<1> QED BY <1>1, <1>2, CouplingIsInductive, PTL DEF Spec

\* For every skeleton and list of bodies Bind accepts: its offsets put each body
\* of the rest pose on the frame the stage authors, and each joint that bodies
\* drive is fed by exactly the last of them.
THEOREM BindingIsTheStage == Spec => []BindingMeansTheStage
  BY MeaningImplied, CouplingIsInductive, BindingIsInductive, PTL
=============================================================================
