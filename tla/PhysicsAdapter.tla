--------------------------- MODULE PhysicsAdapter ---------------------------
(***************************************************************************)
(* The bone/body coupling of libs/mmdPhysicsAdapter.  Bind reads a         *)
(* skeleton and a list of bodies once; InitialBodyTransforms and           *)
(* UpdateKinematicBodies carry a pose into the host's physics world, and   *)
(* ApplyPhysicsToPose carries the simulated world back as feedback for     *)
(* Evaluator::ResumePhysics.                                               *)
(*                                                                         *)
(* A rigid transform is an element of any group Frames; Mul is the row-    *)
(* vector product local * parent.  Overflow of a product is left out: a    *)
(* frame the code's Rigid refuses enters as a flag of what was read.       *)
(***************************************************************************)
EXTENDS Integers, FiniteSets, Sequences

CONSTANTS
  N,                \* joints of the bound skeleton
  Paths,            \* paths of the bodies
  Stages,           \* skeletons with the bodies a host passes to Bind
  Poses,            \* poses a host passes, canonical order
  Reports,          \* rows a host passes: sequences of [body, rigid]
  Frames, One, Mul(_, _), Inv(_),   \* rigid transforms
  Metres(_),        \* a stage transform in metres
  Keep(_, _)        \* Keep(m, b): m with the translation of b

Joints == 0..(N - 1)
Modes == {"followBone", "dynamic", "dynamicWithBone"}

ASSUME NAssumption == N \in Nat

ASSUME FramesAreAGroup ==
  /\ One \in Frames
  /\ \A p \in Frames : /\ Inv(p) \in Frames /\ Metres(p) \in Frames
                       /\ Mul(One, p) = p /\ Mul(p, One) = p
                       /\ Mul(p, Inv(p)) = One /\ Mul(Inv(p), p) = One
                       /\ Keep(p, p) = p
  /\ \A p, q \in Frames : /\ Mul(p, q) \in Frames /\ Keep(p, q) \in Frames
                           /\ Keep(Keep(p, q), q) = Keep(p, q)
  /\ \A p, q, r \in Frames : Mul(Mul(p, q), r) = Mul(p, Mul(q, r))

\* UsdSkelTopology::Validate: a parent precedes its children.
ASSUME StagesAssumption ==
  \A s \in Stages :
    /\ s.parents \in [Joints -> Joints \cup {-1}]
    /\ \A j \in Joints : s.parents[j] < j
    /\ s.rest \in [Joints -> Frames] /\ s.placement \in Frames
    /\ s.bodies \in Seq([path : Paths, joint : Int, mode : STRING, kinematic : BOOLEAN,
                         static : BOOLEAN, frame : Frames])

ASSUME PosesAssumption == Poses \subseteq [Joints -> Frames]

VARIABLES
  stage,   \* what the host passed to Bind
  pc,      \* "unbound", "bound", "rejected", or inside a call
  op,      \* the running call
  pose,    \* the pose it walks
  at,      \* the next joint of that walk
  world,   \* world transforms of the joints
  bodies,  \* Adapter::_bodies
  driven,  \* Bind's map from a joint to the body that feeds it, 0 for none
  notes,   \* recoverable diagnostics of Bind: <<code, body>>
  kept,    \* the diagnostics the result of Bind carries
  sim,     \* the host's physics world: where each body is
  rows,    \* the snapshot passed to ApplyPhysicsToPose
  fed      \* its feedback so far

vars == <<stage, pc, op, pose, at, world, bodies, driven, notes, kept, sim, rows, fed>>

-----------------------------------------------------------------------------
(* The walk of a pose, parents first: PoseWorld, and Bind's over the rest. *)

Placement(s) == Metres(s.placement)
Above(s, w, j) == IF s.parents[j] < 0 THEN Placement(s) ELSE w[s.parents[j]]

Unwalked == [j \in Joints |-> One]

Place ==
  /\ pc = "posing" /\ at < N
  /\ world' = [world EXCEPT ![at] = Mul(pose[at], Above(stage, world, at))]
  /\ at' = at + 1
  /\ UNCHANGED <<stage, pc, op, pose, bodies, driven, notes, kept, sim, rows, fed>>

-----------------------------------------------------------------------------
(* Bind *)

\* Bind rejects a skeleton it cannot couple before it looks at a body.
RejectSkeleton ==
  /\ pc = "unbound" /\ ~stage.coupled
  /\ pc' = "rejected"
  /\ UNCHANGED <<stage, op, pose, at, world, bodies, driven, notes, kept, sim, rows, fed>>

BindSkeleton ==
  /\ pc = "unbound" /\ stage.coupled
  /\ pc' = "posing" /\ pose' = [j \in Joints |-> Metres(stage.rest[j])]
  /\ UNCHANGED <<stage, op, at, world, bodies, driven, notes, kept, sim, rows, fed>>

RestPlaced ==
  /\ pc = "posing" /\ op = "bind" /\ at = N
  /\ pc' = "binding"
  /\ UNCHANGED <<stage, op, pose, at, world, bodies, driven, notes, kept, sim, rows, fed>>

Pending == Len(bodies) < Len(stage.bodies)
NextBody == stage.bodies[Len(bodies) + 1]

Declared(b) == b.joint \in -1..(N - 1) /\ b.mode \in Modes

Admitted(b) ==
  /\ \A i \in DOMAIN bodies : bodies[i].path # b.path
  /\ Declared(b)
  /\ b.kinematic = (b.mode = "followBone")
  /\ b.static

\* Any other body fails the whole binding, without the diagnostics so far.
RejectBody ==
  /\ pc = "binding" /\ Pending /\ ~Admitted(NextBody)
  /\ pc' = "rejected" /\ kept' = {}
  /\ UNCHANGED <<stage, op, pose, at, world, bodies, driven, notes, sim, rows, fed>>

\* Faulty variant of OffsetOf: the product in the wrong order.
OffsetSwapped(b, w) == Mul(Inv(w[b.joint]), Metres(b.frame))

\* Where body b stands from its joint.
OffsetOf(b, w) == Mul(Metres(b.frame), Inv(w[b.joint]))

Body(b) ==
  [path |-> b.path, joint |-> b.joint, follow |-> b.mode = "followBone",
   feedback |-> b.mode # "followBone", keepTranslation |-> b.mode = "dynamicWithBone",
   offset |-> IF b.joint < 0 THEN One ELSE OffsetOf(b, world)]

Drives(b) == b.joint >= 0 /\ b.mode # "followBone"

\* Faulty variant of Silenced: the earlier driver keeps writing.
SilencedNot(i) == bodies

\* The earlier driver i stops writing to the joint.
Silenced(i) == [bodies EXCEPT ![i].feedback = FALSE]

\* A body the binding keeps; a later driver of a joint takes it over.
BindBody ==
  /\ pc = "binding" /\ Pending /\ Admitted(NextBody)
  /\ LET b == NextBody
         taken == Drives(b) /\ driven[b.joint] # 0
     IN  /\ bodies' = Append(IF taken THEN Silenced(driven[b.joint]) ELSE bodies, Body(b))
         /\ driven' = IF Drives(b) THEN [driven EXCEPT ![b.joint] = Len(bodies) + 1] ELSE driven
         /\ notes' = notes \cup (IF b.joint < 0 THEN {<<"unassociated", b.path>>} ELSE {})
                           \cup (IF taken THEN {<<"multiplyDriven", b.path>>} ELSE {})
  /\ UNCHANGED <<stage, pc, op, pose, at, world, kept, sim, rows, fed>>

\* Between calls nothing of a call is left.
Idle ==
  /\ pc' = "bound" /\ op' = "none" /\ pose' = Unwalked /\ at' = 0
  /\ world' = Unwalked /\ rows' = <<>> /\ fed' = <<>>

BindReturns ==
  /\ pc = "binding" /\ ~Pending
  /\ kept' = notes
  /\ Idle
  /\ UNCHANGED <<stage, bodies, driven, notes, sim>>

-----------------------------------------------------------------------------
(* A pose into the host's world *)

\* The host passes pose p to one of the three queries.  (A pose of another
\* size or with a transform that is not rigid is refused and changes nothing.)
Call(name, p, snapshot) ==
  /\ pc = "bound"
  /\ pc' = "posing" /\ op' = name /\ pose' = p /\ rows' = snapshot
  /\ UNCHANGED <<stage, at, world, bodies, driven, notes, kept, sim, fed>>

InitialBodyTransforms(p) == Call("initial", p, <<>>)
UpdateKinematicBodies(p) == Call("kinematic", p, <<>>)

Moves(b) == b.joint >= 0 /\ (op = "kinematic" => b.follow)
Moved(p) == {i \in DOMAIN bodies : bodies[i].path = p /\ Moves(bodies[i])}

\* The host puts every body the query returned where it says.
BodyTransforms ==
  /\ pc = "posing" /\ at = N /\ op \in {"initial", "kinematic"}
  /\ sim' = [p \in Paths |->
               IF Moved(p) = {} THEN sim[p]
               ELSE LET b == bodies[CHOOSE i \in Moved(p) : TRUE]
                    IN  Mul(b.offset, world[b.joint])]
  /\ Idle
  /\ UNCHANGED <<stage, bodies, driven, notes, kept>>

\* The simulation moves a body that does not follow its bone.
Step(i, m) ==
  /\ pc = "bound" /\ ~bodies[i].follow
  /\ sim' = [sim EXCEPT ![bodies[i].path] = m]
  /\ UNCHANGED <<stage, pc, op, pose, at, world, bodies, driven, notes, kept, rows, fed>>

-----------------------------------------------------------------------------
(* The host's world back into a pose *)

Snapshot(report) ==
  [i \in DOMAIN report |->
     [body |-> report[i].body, rigid |-> report[i].rigid,
      world |-> IF report[i].body \in Paths THEN sim[report[i].body] ELSE One]]

ApplyPhysicsToPose(p, report) == Call("apply", p, Snapshot(report))

Feeds(b) == b.feedback /\ b.joint >= 0

\* Rows name known bodies once, and every feedback body has one.
Complete(bs, rs) ==
  /\ \A i \in DOMAIN rs :
       /\ rs[i].rigid
       /\ \E k \in DOMAIN bs : bs[k].path = rs[i].body
       /\ \A k \in DOMAIN rs \ {i} : rs[k].body # rs[i].body
  /\ \A k \in DOMAIN bs : Feeds(bs[k]) => \E i \in DOMAIN rs : rs[i].body = bs[k].path

RefuseSnapshot ==
  /\ pc = "posing" /\ op = "apply" /\ at = N /\ ~Complete(bodies, rows)
  /\ Idle
  /\ UNCHANGED <<stage, bodies, driven, notes, kept, sim>>

AcceptSnapshot ==
  /\ pc = "posing" /\ op = "apply" /\ at = N /\ Complete(bodies, rows)
  /\ pc' = "feeding" /\ at' = 0
  /\ UNCHANGED <<stage, op, pose, world, bodies, driven, notes, kept, sim, rows, fed>>

\* driven.emplace keeps the first feedback body of a joint.
Feeders(bs, j) == {k \in DOMAIN bs : Feeds(bs[k]) /\ bs[k].joint = j}
Feeder(bs, j) == bs[CHOOSE k \in Feeders(bs, j) : \A l \in Feeders(bs, j) : k <= l]
Simulated(rs, path) == rs[CHOOSE i \in DOMAIN rs : rs[i].body = path].world

\* Faulty variant of FedLocal: the joint goes where its body is.
FedLocalAtBody(b, sim1, above, before) == Mul(sim1, Inv(above))

\* The local transform that body b, simulated at sim1, gives its joint.
FedLocal(b, sim1, above, before) ==
  LET m == Mul(Mul(Inv(b.offset), sim1), Inv(above))
  IN  IF b.keepTranslation THEN Keep(m, before) ELSE m

\* The local transform joint j gets: its feeder's, or what it had.
LocalOf(s, p, bs, rs, w, j) ==
  IF Feeders(bs, j) = {} THEN p[j]
  ELSE LET b == Feeder(bs, j)
       IN  FedLocal(b, Simulated(rs, b.path), Above(s, w, j), p[j])

\* Faulty variant of Rebuilt: a joint nothing drives keeps its old world.
RebuiltDriven(local, above, j) ==
  IF Feeders(bodies, j) = {} THEN world ELSE [world EXCEPT ![j] = Mul(local, above)]

\* Undriven joints below a fed one move as well.
Rebuilt(local, above, j) == [world EXCEPT ![j] = Mul(local, above)]

\* Faulty variant of Reported: every joint is fed.
ReportedAll(j, local) == Append(fed, [joint |-> j, local |-> local])

\* The feedback is sparse.
Reported(j, local) ==
  IF Feeders(bodies, j) = {} THEN fed ELSE Append(fed, [joint |-> j, local |-> local])

FeedJoint ==
  /\ pc = "feeding" /\ at < N
  /\ LET local == LocalOf(stage, pose, bodies, rows, world, at)
     IN  /\ fed' = Reported(at, local)
         /\ world' = Rebuilt(local, Above(stage, world, at), at)
  /\ at' = at + 1
  /\ UNCHANGED <<stage, pc, op, pose, bodies, driven, notes, kept, sim, rows>>

\* The host takes the feedback to ResumePhysics.
ApplyReturns ==
  /\ pc = "feeding" /\ at = N
  /\ Idle
  /\ UNCHANGED <<stage, bodies, driven, notes, kept, sim>>

-----------------------------------------------------------------------------

Init ==
  /\ stage \in Stages
  /\ pc = "unbound" /\ op = "bind" /\ at = 0
  /\ pose = Unwalked /\ world = Unwalked
  /\ bodies = <<>> /\ driven = [j \in Joints |-> 0] /\ notes = {} /\ kept = {}
  /\ sim = [p \in Paths |-> One]
  /\ rows = <<>> /\ fed = <<>>

Next ==
  \/ Place
  \/ RejectSkeleton \/ BindSkeleton \/ RestPlaced \/ RejectBody \/ BindBody \/ BindReturns
  \/ \E p \in Poses : InitialBodyTransforms(p) \/ UpdateKinematicBodies(p)
  \/ BodyTransforms
  \/ \E i \in DOMAIN bodies, m \in Frames : Step(i, m)
  \/ \E p \in Poses, r \in Reports : ApplyPhysicsToPose(p, r)
  \/ RefuseSnapshot \/ AcceptSnapshot \/ FeedJoint \/ ApplyReturns

Spec == Init /\ [][Next]_vars

-----------------------------------------------------------------------------
(* Properties *)

Bodies == [path : Paths, joint : -1..(N - 1), follow : BOOLEAN, feedback : BOOLEAN,
           keepTranslation : BOOLEAN, offset : Frames]
Edits == [joint : Joints, local : Frames]

\* The binding names only joints of its skeleton, every transform stays a
\* rigid one, and the walk stays within the skeleton.
AdapterTypeOK ==
  /\ pc \in {"unbound", "posing", "binding", "bound", "feeding", "rejected"}
  /\ op \in {"none", "bind", "initial", "kinematic", "apply"}
  /\ pose \in [Joints -> Frames] /\ world \in [Joints -> Frames] /\ at \in 0..N
  /\ bodies \in Seq(Bodies) /\ Len(bodies) <= Len(stage.bodies)
  /\ driven \in [Joints -> 0..Len(bodies)]
  /\ sim \in [Paths -> Frames]
  /\ fed \in Seq(Edits)

\* w are the world transforms of a pose on skeleton s.
AreWorlds(s, w, locals) == \A j \in Joints : w[j] = Mul(locals[j], Above(s, w, j))

\* Pose p once feedback f replaced what it names.
Merged(p, f) ==
  [j \in Joints |-> IF \E i \in DOMAIN f : f[i].joint = j
                    THEN f[CHOOSE i \in DOMAIN f : f[i].joint = j].local ELSE p[j]]

Returning == pc = "feeding" /\ at = N

\* ApplyPhysicsToPose leaves a dynamic body where it was simulated: in the pose
\* merged from the feedback, below fed and unfed ancestors alike, the joint
\* carries its body exactly there.  A dynamicWithBone joint keeps its place.
BodiesStayWhereSimulated ==
  Returning =>
    \E w \in [Joints -> Frames] :
      /\ AreWorlds(stage, w, Merged(pose, fed))
      /\ \A k \in DOMAIN bodies : Feeds(bodies[k]) =>
           LET b == bodies[k]
               local == Merged(pose, fed)[b.joint]
           IN  IF b.keepTranslation THEN local = Keep(local, pose[b.joint])
               ELSE Mul(b.offset, w[b.joint]) = Simulated(rows, b.path)

\* ResumePhysics never has reason to refuse the feedback: it names each joint
\* at most once, in order, and exactly the joints some body feeds.
FeedbackIsAccepted ==
  Returning =>
    /\ \A i, k \in DOMAIN fed : i < k => fed[i].joint < fed[k].joint
    /\ {fed[i].joint : i \in DOMAIN fed} = {j \in Joints : Feeders(bodies, j) # {}}

\* The world transforms of a pose.
WorldOf(locals) ==
  LET w[j \in Joints] == Mul(locals[j], IF stage.parents[j] < 0 THEN Placement(stage)
                                        ELSE w[stage.parents[j]])
  IN  w

\* The offsets of Bind put every associated body of the rest pose on the frame
\* the stage authors for it, in metres, and whatever the order of bodies each
\* joint that a dynamic or dynamicWithBone body names is fed by exactly the last.
BindingMeansTheStage ==
  pc = "bound" =>
    LET rest == WorldOf([j \in Joints |-> Metres(stage.rest[j])]) IN
    \A k \in DOMAIN bodies :
      LET b == stage.bodies[k] IN
      /\ bodies[k].joint >= 0 =>
           Mul(bodies[k].offset, rest[bodies[k].joint]) = Metres(b.frame)
      /\ bodies[k].feedback /\ b.joint >= 0 <=>
           /\ Drives(b)
           /\ \A l \in DOMAIN stage.bodies :
                l > k /\ Drives(stage.bodies[l]) => stage.bodies[l].joint # b.joint

\* If the simulation left every feeding body where InitialBodyTransforms of the
\* same pose puts it, the feedback changes no joint.
UnmovedFeedsThePose ==
  Returning =>
    LET w == WorldOf(pose) IN
    (\A k \in DOMAIN bodies :
       Feeds(bodies[k]) => Simulated(rows, bodies[k].path) = Mul(bodies[k].offset, w[bodies[k].joint]))
    => Merged(pose, fed) = pose

\* What a caller of Bind is told: Adapter.h says that several simulated bodies
\* of one joint reject.  They do not.
AmbiguousDriversReject ==
  pc = "bound" =>
    \A i, k \in DOMAIN bodies :
      i # k /\ Drives(stage.bodies[i]) /\ Drives(stage.bodies[k])
      => bodies[i].joint # bodies[k].joint

\* Result.h says that a failure keeps the recoverable diagnostics raised before
\* the fatal one.  A rejected binding does not.
FailureKeepsDiagnostics == pc = "rejected" => kept = notes
=============================================================================
