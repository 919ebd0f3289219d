--------------------------- MODULE SkeletonAdapter ---------------------------
(***************************************************************************)
(* libs/mmdSkeletonAdapter: the humanoid roles of a canonical skeleton, the *)
(* rest its arms state, the joints a finish must hold, and the arm roll     *)
(* that is carried onto twist bones once a pose was retargeted.  Joints     *)
(* count from 1 in canonical order, parents first; 0 is no joint.           *)
(***************************************************************************)
EXTENDS Quaternions, Sequences, SequencesExt, Selecting

CONSTANTS
  Skeletons,    \* skeletons: sequences of [name, sourceIndex, parent, offset]
  Roles,        \* the humanoid vocabulary, in its order
  ParentRole,   \* its hierarchy: a role's parent, or NoRole
  NoRole,
  TPose,        \* the shared core's T-pose direction of a role
  RoleSpecs,    \* the source names of a role's bone, best first
  ArmChain,     \* kArmChain
  Twists,       \* kTwists: [role, follower, twist]
  ArmRotations  \* rotations a retarget may give to an arm joint

ASSUME SkeletonsAssumption ==
  \A s \in Skeletons :
    /\ s \in Seq(Range(s))
    /\ \A j \in DOMAIN s : s[j].parent \in 0..j - 1 /\ s[j].sourceIndex \in Int

\* The vocabulary has the roles that the adapter names.
ASSUME RolesAssumption ==
  /\ Roles \in Seq(Range(Roles))
  /\ {"hips", "spine", "chest", "upperChest", "leftUpperLeg", "rightUpperLeg"} \subseteq Range(Roles)
  /\ \A r \in Range(Roles) : RoleSpecs[r] \in Seq(Range(RoleSpecs[r]))

\* Its hierarchy is one: no roles are below each other.
ASSUME HierarchyAssumption ==
  /\ NoRole \notin Range(Roles)
  /\ \A r \in Range(Roles) : ParentRole[r] \in Range(Roles) \cup {NoRole}
  /\ \A T \in SUBSET Range(Roles) : T # {} => \E r \in T : ParentRole[r] \notin T

ASSUME TwistsAssumption ==
  /\ Twists \in Seq(Range(Twists))
  /\ \A spec \in Range(Twists) : {spec.role, spec.follower} \subseteq Range(Roles)

VARIABLES
  phase,    \* "model", "adapted", "posed", "finished", or what MotionAdapter adds
  bones,    \* the skeleton
  adapted,  \* AdaptedSkeleton
  pose,     \* the retargeted pose: local rotations and translations
  before,   \* history: the pose as the retarget left it
  carried   \* twists done

bodyVars == <<bones, adapted, pose, before, carried>>

Unmapped == 0
HumanRoles == Range(Roles)

-----------------------------------------------------------------------------
(* Roles                                                                    *)

\* Of the first name that some bone has, the bone that comes first in the source.
FindBone(names) ==
  LET Of(name) == {i \in DOMAIN bones : bones[i].name = name}
      had == {k \in DOMAIN names : Of(names[k]) # {}}
      found == Of(names[Min(had)])
  IN  IF had = {} THEN Unmapped
      ELSE CHOOSE i \in found : \A j \in found : bones[i].sourceIndex <= bones[j].sourceIndex

\* A joint and its ancestors.
Line(joint) ==
  LET Up[j \in 0..Len(bones)] == IF j = 0 THEN {} ELSE {j} \cup Up[bones[j].parent]
  IN  Up[joint]
IsAncestor(ancestor, joint) == ancestor \in Line(joint)

OrderUpperBody(joints) ==
  LET chest == joints["chest"]
      upper == joints["upperChest"]
  IN  CASE Unmapped \in {chest, upper} \/ IsAncestor(chest, upper) -> joints
        [] Unmapped \notin {chest, upper} /\ IsAncestor(upper, chest) ->
             [joints EXCEPT !["chest"] = upper, !["upperChest"] = chest]
        [] OTHER -> [joints EXCEPT !["upperChest"] = Unmapped]

\* The source's chest is the lower of the two, and there is no other.
SourceUpperBody(joints) ==
  IF joints["upperChest"] = Unmapped THEN joints
  ELSE [joints EXCEPT !["chest"] = joints["upperChest"], !["upperChest"] = Unmapped]

\* The nearest common ancestor of the spine and the legs.
TargetHips(source) ==
  LET needed == {source["spine"], source["leftUpperLeg"], source["rightUpperLeg"]}
      common == {j \in DOMAIN bones : \A n \in needed : IsAncestor(j, n)}
  IN  IF Unmapped \in needed \/ common = {} THEN Unmapped ELSE Max(common)

Present(joints) == {r \in HumanRoles : joints[r] # Unmapped}

\* The shared core's NearestPresentAncestor, or NoRole.
NearestPresentAncestor(role, present) ==
  LET Up[r \in HumanRoles \cup {NoRole}] ==
        IF r = NoRole \/ r \in present THEN r ELSE Up[ParentRole[r]]
  IN  Up[ParentRole[role]]

-----------------------------------------------------------------------------
(* The rest of the arms                                                     *)

\* A joint's position in the model's rest.
RestPosition(joint) ==
  LET At[j \in 0..Len(bones)] == IF j = 0 THEN Origin ELSE Plus(At[bones[j].parent], bones[j].offset)
  IN  At[joint]

\* The role's only child, or the first that points as the role does.
Follower(role, present) ==
  LET children == SelectSeq(Roles, LAMBDA c : c \in present /\ NearestPresentAncestor(c, present) = role)
      alike == SelectSeq(children, LAMBDA c : TPose[c] = TPose[role])
  IN  IF Len(children) = 1 THEN children[1] ELSE IF alike # <<>> THEN alike[1] ELSE NoRole

\* From a role's joint to its follower's; Origin where there is none to aim.
Along(joints, role) ==
  LET follower == Follower(role, Present(joints))
  IN  IF follower = NoRole THEN Origin
      ELSE Minus(RestPosition(joints[follower]), RestPosition(joints[role]))

\* Each role's world rest: the identity off the chain, the T-pose aim on it.
ArmChainAims(joints) ==
  LET present == Present(joints)
      Aim(world, role) ==
        LET parent == NearestPresentAncestor(role, present)
            inherited == IF parent = NoRole THEN Identity ELSE world[parent]
            along == Along(joints, role)
            aimed == Times(ShortestRotation(Rotated(inherited, along), TPose[role]), inherited)
        IN  IF role \notin present THEN world
            ELSE [world EXCEPT ![role] = IF along = Origin THEN inherited ELSE aimed]
  IN  FoldLeft(Aim, [r \in HumanRoles |-> Identity], ArmChain)

\* The source's rest: each role's aim relative to that of its nearest ancestor.
SourceRest(joints) ==
  LET aims == ArmChainAims(joints)
      Parent(role) == NearestPresentAncestor(role, Present(joints))
  IN  [r \in HumanRoles |->
         IF r \notin Range(ArmChain) \cap Present(joints) THEN Identity
         ELSE Undone(IF Parent(r) = NoRole THEN Identity ELSE aims[Parent(r)], aims[r])]

\* World rotations of local ones, down the skeleton.
WorldRotations(locals) ==
  LET World[j \in 0..Len(bones)] == IF j = 0 THEN Identity ELSE Times(World[bones[j].parent], locals[j])
  IN  World

Depth(joint) == Cardinality(Line(joint))

\* Faulty variant of ByDepth: in the order of the chain.
ByChain(joints) == SelectSeq(ArmChain, LAMBDA r : joints[r] # Unmapped)

\* The bound roles of the chain, those of higher joints first.
ByDepth(joints) ==
  LET bound == SelectSeq(ArmChain, LAMBDA r : joints[r] # Unmapped)
      Before(i, k) == \/ Depth(joints[bound[i]]) < Depth(joints[bound[k]])
                      \/ Depth(joints[bound[i]]) = Depth(joints[bound[k]]) /\ i < k
      sorted == SetToSortSeq(DOMAIN bound, Before)
  IN  [i \in DOMAIN sorted |-> bound[sorted[i]]]

\* The target's rest: each bound joint's aim relative to the rest above it.
TargetArmChainRest(joints) ==
  LET aims == ArmChainAims(joints)
      State(locals, role) ==
        LET j == joints[role]
        IN  [locals EXCEPT ![j] = Undone(WorldRotations(locals)[bones[j].parent], aims[role])]
  IN  FoldLeft(State, [j \in DOMAIN bones |-> Identity], ByDepth(joints))

-----------------------------------------------------------------------------
(* Twist bones and held joints                                              *)

\* A twist bone is below its joint and above the joint's follower.
ArmTwists(joints) ==
  LET Twist(spec) ==
        [joint |-> joints[spec.role], twist |-> FindBone(<<spec.twist>>),
         axis |-> Minus(RestPosition(joints[spec.follower]), RestPosition(joints[spec.role]))]
      Usable(spec) ==
        LET joint == joints[spec.role]
            follower == joints[spec.follower]
            twist == FindBone(<<spec.twist>>)
        IN  /\ Unmapped \notin {joint, follower, twist} /\ twist \notin {joint, follower}
            /\ IsAncestor(joint, twist) /\ IsAncestor(twist, follower)
            /\ Twist(spec).axis # Origin
      usable == Selected(Twists, {spec \in Range(Twists) : Usable(spec)})
  IN  [i \in DOMAIN usable |-> Twist(usable[i])]

\* Faulty variant of Hold: the joint itself is not looked at, only those above.
HoldAbove(held, joint) ==
  LET line == Line(joint)
  IN  held \cup ({a \in line : \A h \in held \cap line : a \notin Line(h)} \ {joint})

\* The walk from a joint upwards, which stops at the first held one.
Hold(held, joint) ==
  LET line == Line(joint)
  IN  held \cup {a \in line : \A h \in held \cap line : a \notin Line(h)}

\* Of a role that binds no joint the walk ends where it begins.
HeldJoints(joints, twists) ==
  LET walks == [i \in DOMAIN Roles |-> joints[Roles[i]]] \o [i \in DOMAIN twists |-> twists[i].twist]
      Held[k \in 0..Len(walks)] == IF k = 0 THEN {} ELSE Hold(Held[k - 1], walks[k])
  IN  Held[Len(walks)]

\* The shared core builds no skeleton of no joints.
IsBuilt == bones # <<>>

Nobody == [source |-> <<>>, target |-> <<>>, sourceRest |-> <<>>, targetRest |-> <<>>,
           twists |-> <<>>, held |-> {}]

AdaptedSkeleton ==
  LET found == OrderUpperBody([r \in HumanRoles |-> FindBone(RoleSpecs[r])])
      source == SourceUpperBody(found)
      target == [r \in HumanRoles |-> IF r = "hips" THEN TargetHips(source) ELSE found[r]]
      twists == IF IsBuilt THEN ArmTwists(target) ELSE <<>>
  IN  [source |-> source, target |-> target, sourceRest |-> SourceRest(source),
       targetRest |-> TargetArmChainRest(target), twists |-> twists,
       held |-> HeldJoints(target, twists)]

Adapt ==
  /\ phase = "model" /\ phase' = "adapted"
  /\ adapted' = AdaptedSkeleton
  /\ UNCHANGED <<bones, pose, before, carried>>

-----------------------------------------------------------------------------
(* Finishing a retargeted pose                                              *)

\* The shared core's retarget: any rotations of the arm joints that roles bind,
\* the other joints at rest.
Retarget ==
  /\ phase = "adapted" /\ bones # <<>> /\ phase' = "posed"
  /\ LET turned == {adapted.target[r] : r \in Range(ArmChain)} \ {Unmapped}
     IN  \E turns \in [turned -> ArmRotations] :
       pose' = [rotations |-> [j \in DOMAIN bones |-> IF j \in turned THEN turns[j] ELSE Identity],
                translations |-> [j \in DOMAIN bones |-> bones[j].offset]]
  /\ before' = pose' /\ carried' = 0
  /\ UNCHANGED <<bones, adapted>>

\* The part of a rotation about an axis, up to the scale; 0 where the rotation
\* is a half turn across it.
Roll(q, axis) ==
  LET along == Dot(<<q[1], q[2], q[3]>>, axis)
  IN  Reduced(<<axis[1] * along, axis[2] * along, axis[3] * along, q[4] * Dot(axis, axis)>>)

\* Faulty variant of RollCarried: the twist bone's offset stays as it is.
CarriedInPlace(p, t) ==
  LET q == p.rotations[t.joint]
      roll == Roll(q, t.axis)
  IN  IF Norm(roll) = 0 THEN p
      ELSE [p EXCEPT !.rotations[t.joint] = Times(q, Conjugate(roll)),
                     !.rotations[t.twist] = Times(roll, @)]

\* CarryArmRoll for one twist: the joint keeps the swing.
RollCarried(p, t) ==
  LET q == p.rotations[t.joint]
      roll == Roll(q, t.axis)
  IN  IF Norm(roll) = 0 THEN p
      ELSE [p EXCEPT !.rotations[t.joint] = Times(q, Conjugate(roll)),
                     !.rotations[t.twist] = Times(roll, @),
                     !.translations[t.twist] = Rotated(roll, @)]

CarryArmRoll ==
  /\ phase = "posed"
  /\ IF carried < Len(adapted.twists)
     THEN /\ pose' = RollCarried(pose, adapted.twists[carried + 1])
          /\ carried' = carried + 1 /\ UNCHANGED phase
     ELSE phase' = "finished" /\ UNCHANGED <<pose, carried>>
  /\ UNCHANGED <<bones, adapted, before>>

SkeletonInit ==
  /\ phase = "model" /\ bones \in Skeletons
  /\ adapted = Nobody /\ carried = 0
  /\ pose = [rotations |-> <<>>, translations |-> <<>>] /\ before = pose

SkeletonNext == Adapt \/ Retarget \/ CarryArmRoll

-----------------------------------------------------------------------------
(* Properties *)

\* Both rests, composed down their own hierarchies, put the bone of each arm
\* role that has a follower on its T-pose direction, even in a model that
\* chains its arm joints in another order.
ArmsReachTheTPose ==
  phase # "model" =>
    /\ \A r \in Range(ArmChain) \cap Present(adapted.target) :
         LET along == Along(adapted.target, r)
             world == WorldRotations(adapted.targetRest)[adapted.target[r]]
         IN  along # Origin => SameDirection(Rotated(world, along), TPose[r])
    /\ LET present == Present(adapted.source)
           World[r \in HumanRoles \cup {NoRole}] ==
             IF r = NoRole THEN Identity
             ELSE Times(World[NearestPresentAncestor(r, present)], adapted.sourceRest[r])
       IN  \A r \in Range(ArmChain) \cap present :
             LET along == Along(adapted.source, r)
             IN  along # Origin => SameDirection(Rotated(World[r], along), TPose[r])

\* What Evaluator::Complete is told to keep: the joints that roles bind, the
\* twist bones, and all above them; so everything the arm roll has turned.
HeldAreClosed ==
  phase # "model" =>
    /\ adapted.held = UNION {Line(j) : j \in {adapted.target[r] : r \in Present(adapted.target)}
                                            \cup {adapted.twists[i].twist : i \in DOMAIN adapted.twists}}
    /\ \A j \in DOMAIN pose.rotations :
         <<pose.rotations[j], pose.translations[j]>> # <<before.rotations[j], before.translations[j]>>
         => j \in adapted.held

\* World transforms of a pose.
World(p) ==
  LET turns == WorldRotations(p.rotations)
      At[j \in 0..Len(bones)] ==
        IF j = 0 THEN Origin
        ELSE Plus(At[bones[j].parent], Rotated(turns[bones[j].parent], p.translations[j]))
  IN  [j \in DOMAIN bones |-> <<turns[j], At[j]>>]

\* The joints that lose their arm joint's roll: those below it, twist bone and
\* all below that excepted.
Unrolled(t) == {j \in DOMAIN bones : IsAncestor(t.joint, j) /\ ~IsAncestor(t.twist, j)}
\* No joint between the two is off the line of the bone.
Straight(t) ==
  \A j \in (Line(t.twist) \ Line(t.joint)) \ {t.twist} : Cross(bones[j].offset, t.axis) = Origin

\* Carrying the roll leaves an arm joint the swing alone, which takes the bone
\* where it was, and leaves every other joint's world transform as it was,
\* those of the twist bones and of all below them included.
RollIsCarriedWhole ==
  phase = "finished" =>
    LET twists == Range(adapted.twists)
        Roll0(t) == Roll(before.rotations[t.joint], t.axis)
    IN  /\ \A t \in twists : Norm(Roll0(t)) # 0 =>
             LET q == pose.rotations[t.joint]
             IN  /\ Dot(<<q[1], q[2], q[3]>>, t.axis) = 0
                 /\ Rotated(q, t.axis) = Rotated(before.rotations[t.joint], t.axis)
        /\ (\A t \in twists : Straight(t)) =>
             \A j \in DOMAIN bones \ UNION {Unrolled(t) : t \in twists} :
               World(pose)[j] = World(before)[j]

\* MOTION_CONTRACT.md and Adapter.cpp say it of every skeleton: the twist bone
\* keeps its world transform even where it sits off the bone line.  It does not
\* below another joint that is off the line.
TwistBonesKeepTheirPlace ==
  phase = "finished" =>
    \A i \in DOMAIN adapted.twists :
      LET twist == adapted.twists[i].twist IN World(pose)[twist] = World(before)[twist]
=============================================================================
