----------------------------- MODULE Canonicalize -----------------------------
(***************************************************************************)
(* The Canonicalizer of libs/mmdModel: a parsed PMX document becomes a      *)
(* CanonicalDocument in the order of Run.  The skeleton phase is module     *)
(* JointOrder and the morph phase ends with module GroupCycles; the phases  *)
(* after the skeleton rewrite every bone index of the source into the joint *)
(* of the same bone.  Names, texture paths, bases and material values are   *)
(* left out: no index depends on them.                                      *)
(***************************************************************************)
EXTENDS JointOrder, GroupCycles, FiniteSetsExt

CONSTANTS
  Documents,  \* the parsed documents
  Unit,       \* weights count in 1/Unit
  Tolerance   \* kWeightTolerance, in the same unit

\* How many weights a vertex of so many slots stores: the last of two is implied.
StoredWeights(slots) == CASE slots = 1 -> 0 [] slots = 2 -> 1 [] slots = 4 -> 4

ASSUME DocumentsAssumption ==
  \A d \in Documents :
    /\ DOMAIN d.tail = Bones /\ DOMAIN d.append = Bones /\ DOMAIN d.ik = Bones
    /\ \A b \in Bones : d.ik[b] = None \/ d.ik[b].links \in Seq(Int)
    /\ d.boneOffsets \in Seq(Int) /\ d.bodies \in Seq(Int)
    /\ \A i \in DOMAIN d.vertices : LET v == d.vertices[i] IN
         v.slots \in {1, 2, 4} /\ v.weights \in [1..StoredWeights(v.slots) -> Int \cup {None}]
ASSUME NoneAssumption == None \notin Bones
ASSUME UnitAssumption == Unit \in Nat \ {0} /\ Tolerance \in 0..Unit

VARIABLES
  phase,     \* what Run does next
  doc,       \* the parsed document
  jointOf,   \* skeleton.jointOfSourceBone
  bones,     \* skeleton.bones
  skin,      \* each vertex's influences
  offsets,   \* the bone morph offsets kept
  controls,  \* rig.bones
  chains,    \* rig.ikChains
  bodies,    \* physics.rigidBodies
  links      \* physics.joints

canonVars == <<phase, doc, jointOf, bones, skin, offsets, controls, chains, bodies, links>>

NoJoints == [b \in Bones |-> None]

CanonInit ==
  /\ doc \in Documents /\ phase = "skeleton"
  /\ source = doc.parents /\ Init
  /\ group = [composite |-> doc.composite, members |-> doc.members] /\ InitGroups
  /\ jointOf = NoJoints /\ bones = <<>> /\ skin = <<>> /\ offsets = <<>>
  /\ controls = <<>> /\ chains = <<>> /\ bodies = <<>> /\ links = <<>>

\* Faulty variant of Joint: a bone that names nothing is not filtered.
JointUnfiltered(b) == IF b \in Bones THEN jointOf[b] ELSE b

\* A bone relation of the source, as a canonical joint.
Joint(b) == IF b \in Bones THEN jointOf[b] ELSE None

\* The bone a canonical joint comes from.
SourceIndex(c) == order[c + 1]

Skeleton ==
  /\ phase = "skeleton" /\ pc = "done"
  /\ jointOf' = [b \in Bones |-> CHOOSE c \in Bones : SourceIndex(c) = b]
  /\ bones' = [c \in Bones |-> [sourceIndex |-> SourceIndex(c),
                                parent |-> LET p == parents[SourceIndex(c)]
                                           IN  IF p = Root THEN None ELSE jointOf'[p]]]
  /\ phase' = "mesh"
  /\ UNCHANGED <<doc, skin, offsets, controls, chains, bodies, links, vars, groupVars>>

\* A stored weight: BDEF1's is 1, the second of two what the first leaves, and
\* None stands for one that is not finite.
Weight(v, k) ==
  CASE v.slots = 1 -> Unit
    [] v.slots = 2 /\ k = 2 -> IF v.weights[1] = None THEN None ELSE Unit - v.weights[1]
    [] OTHER -> v.weights[k]

\* Faulty variant of Clamped: a negative weight is kept.
ClampedNot(w) == IF w = None THEN 0 ELSE w

Clamped(w) == IF w = None THEN 0 ELSE IF w > 0 THEN w ELSE 0

KeptSlots(v) == {k \in 1..v.slots : v.bones[k] \in Bones}
OfSlots(w) == w[1] + w[2] + w[3] + w[4]

\* A vertex's influences by stored slot: the joints, and the weights as parts of
\* a whole.  Bound to nothing, it is bound to its first bone or else the root.
Influences(v) ==
  LET kept == KeptSlots(v)
      weight == [k \in 1..4 |-> IF k \in kept THEN Clamped(Weight(v, k)) ELSE 0]
      sum == OfSlots(weight)
      only == IF kept = {} THEN 0 ELSE jointOf[v.bones[Min(kept)]]
  IN  IF sum = 0
      THEN [joint |-> [k \in {1} |-> only], weight |-> [k \in 1..4 |-> IF k = 1 THEN 1 ELSE 0],
            whole |-> 1]
      ELSE [joint |-> [k \in kept |-> jointOf[v.bones[k]]], weight |-> weight,
            whole |-> IF sum - Unit \in -Tolerance..Tolerance THEN Unit ELSE sum]

MeshAndSkinning ==
  /\ phase = "mesh"
  /\ skin' = IF N = 0 THEN <<>> ELSE [i \in DOMAIN doc.vertices |-> Influences(doc.vertices[i])]
  /\ phase' = "morphs"
  /\ UNCHANGED <<doc, jointOf, bones, offsets, controls, chains, bodies, links, vars, groupVars>>

\* Bone morph offsets whose bone exists, then the group cycles.
BoneOffsets ==
  /\ phase = "morphs"
  /\ offsets' = LET kept == Selected(doc.boneOffsets, Bones)
                IN  [i \in DOMAIN kept |-> jointOf[kept[i]]]
  /\ phase' = "groups"
  /\ UNCHANGED <<doc, jointOf, bones, skin, controls, chains, bodies, links, vars, groupVars>>

GroupsBroken ==
  /\ phase = "groups" /\ at = "done" /\ phase' = "rig"
  /\ UNCHANGED <<doc, jointOf, bones, skin, offsets, controls, chains, bodies, links, vars, groupVars>>

\* Faulty variant of ControlOf: reads the bone at the joint's own index.
ControlOfIndex(c) ==
  [tail |-> Joint(doc.tail[c]), append |-> Joint(doc.append[c]), after |-> c \in doc.after]

\* The control of canonical joint c: the semantics of its bone.
ControlOf(c) ==
  LET b == bones[c].sourceIndex
  IN  [tail |-> Joint(doc.tail[b]), append |-> Joint(doc.append[b]), after |-> b \in doc.after]

\* A chain without an effector brings nothing anywhere; a link that names no
\* bone is dropped.
HasEffector(b) == doc.ik[b] # None /\ Joint(doc.ik[b].target) # None
ChainOfBone(b) ==
  [joint |-> jointOf[b], effector |-> Joint(doc.ik[b].target),
   links |-> LET kept == Selected(doc.ik[b].links, {l \in Elements(doc.ik[b].links) : Joint(l) # None})
             IN  [i \in DOMAIN kept |-> Joint(kept[i])]]

\* Faulty variant of Owners: the chains follow the joint order.
OwnersByJoint == Selected(order, {b \in Bones : HasEffector(b)})

\* The IK bones with a chain, in bone-table order.
Owners == Selected([i \in 1..N |-> i - 1], {b \in Bones : HasEffector(b)})

Rig ==
  /\ phase = "rig"
  /\ controls' = [c \in Bones |-> ControlOf(c)]
  /\ chains' = [i \in DOMAIN Owners |-> ChainOfBone(Owners[i])]
  /\ phase' = "physics"
  /\ UNCHANGED <<doc, jointOf, bones, skin, offsets, bodies, links, vars, groupVars>>

\* A body keeps its place even without a bone; a physics joint that does not
\* join two bodies goes.
JoinsBodies(j) == j[1] \in 1..Len(doc.bodies) /\ j[2] \in 1..Len(doc.bodies)

Physics ==
  /\ phase = "physics"
  /\ bodies' = [i \in DOMAIN doc.bodies |-> Joint(doc.bodies[i])]
  /\ links' = Selected(doc.joints, {j \in Elements(doc.joints) : JoinsBodies(j)})
  /\ phase' = "done"
  /\ UNCHANGED <<doc, jointOf, bones, skin, offsets, controls, chains, vars, groupVars>>

CanonNext ==
  \/ phase = "skeleton" /\ Next /\ UNCHANGED <<canonVars, groupVars>>
  \/ phase = "groups" /\ BreakGroupCycles /\ UNCHANGED <<canonVars, vars>>
  \/ Skeleton \/ MeshAndSkinning \/ BoneOffsets \/ GroupsBroken \/ Rig \/ Physics

CanonSpec ==
  /\ CanonInit /\ [][CanonNext]_<<canonVars, vars, groupVars>>
  /\ WF_<<canonVars, vars, groupVars>>(CanonNext)

-----------------------------------------------------------------------------
(* Properties *)

\* The bone behind a canonical index; what names no bone is nothing.  An index
\* of no joint stays what it is, and so is told from nothing.
BoneOf(c) == IF c \in Bones THEN bones[c].sourceIndex ELSE c
Kept(b) == IF b \in Bones THEN b ELSE None

\* Renumbering commutes with every relation of the source: whatever the joint
\* order, the joint of a bone carries that bone's own parent, tail, append, flag
\* and chain, and each of them, as each body and morph offset, leads to the
\* joint of the bone the file named.  A consumer's one forward pass meets
\* parents first, and chains in the order of the bone table, of which it takes
\* the first.
RelationsFollowBones ==
  phase = "done" =>
    /\ \A c \in Bones : bones[c].parent # None => bones[c].parent < c
    /\ \A i, k \in DOMAIN chains : i < k => BoneOf(chains[i].joint) < BoneOf(chains[k].joint)
    /\ \A c \in Bones : LET b == BoneOf(c) IN
         /\ BoneOf(bones[c].parent) = Kept(parents[b])
         /\ BoneOf(controls[c].tail) = Kept(doc.tail[b])
         /\ BoneOf(controls[c].append) = Kept(doc.append[b])
         /\ controls[c].after <=> b \in doc.after
         /\ doc.ik[b] # None /\ doc.ik[b].target \in Bones =>
              \E i \in DOMAIN chains :
                /\ chains[i].joint = c /\ BoneOf(chains[i].effector) = doc.ik[b].target
                /\ {BoneOf(chains[i].links[k]) : k \in DOMAIN chains[i].links}
                     = {doc.ik[b].links[k] : k \in DOMAIN doc.ik[b].links} \cap Bones
    /\ \A i \in DOMAIN bodies : BoneOf(bodies[i]) = Kept(doc.bodies[i])
    /\ {BoneOf(c) : c \in Elements(offsets)} = Elements(doc.boneOffsets) \cap Bones

\* Every vertex is bound: its weights are not negative and add up to the whole
\* (within the tolerance), on bones it was stored with unless it had none.
WeightsAreWhole ==
  phase = "done" =>
    \A i \in DOMAIN skin : LET v == skin[i] IN
      /\ OfSlots(v.weight) - v.whole \in -Tolerance..Tolerance
      /\ \A k \in 1..4 : v.weight[k] >= 0 /\ (v.weight[k] > 0 => k \in DOMAIN v.joint)
      /\ \E k \in DOMAIN v.joint : v.weight[k] > 0
      /\ {BoneOf(v.joint[k]) : k \in DOMAIN v.joint} \subseteq
           IF \A k \in 1..doc.vertices[i].slots : doc.vertices[i].bones[k] \notin Bones
           THEN {BoneOf(0)} ELSE {doc.vertices[i].bones[k] : k \in 1..doc.vertices[i].slots}

\* Whatever cycles bones or morphs form, canonicalizing returns.
Returns == <>(phase = "done")
=============================================================================
