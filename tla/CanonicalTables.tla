--------------------------- MODULE CanonicalTables ---------------------------
(***************************************************************************)
(* The tables of a canonical document, as Canonicalize makes them from the  *)
(* tables of a parsed one: identifiers, face ranges, texture slots, offsets *)
(* and bodies, and what it reports.  An index counts from 0, None names     *)
(* nothing.  Parents form a forest here: what repairs them is in module     *)
(* JointOrder; members close no cycle: what drops them is in GroupCycles.   *)
(***************************************************************************)
EXTENDS Integers, Identifiers

CONSTANT None

InTable(i, table) == i \in 0..Len(table) - 1
InTableOrNone(i, table) == IF InTable(i, table) THEN i ELSE None

-----------------------------------------------------------------------------
(* The document                                                            *)

Kind(table) ==
  CASE table = "materials" -> "material" [] table = "bones" -> "bone" [] table = "morphs" -> "morph"
    [] table = "rigidBodies" -> "rigidBody" [] table = "joints" -> "joint"

\* DisplayName of every English name: without trailing NULs.
English(table) == [i \in DOMAIN table |-> Unpadded(table[i].english)]
Names(d, table) == AssignIdentifiers(Kind(table), English(d[table]))

\* OrderJoints on a forest: the lowest bone whose parent is in the order.
JointOrderOf(parents) ==
  LET bones == 0..Len(parents) - 1
      Ready(order) == {b \in bones : /\ b \notin Range(order)
                                     /\ parents[b + 1] \in {None} \cup Range(order)}
  IN  FoldLeft(LAMBDA order, p : Append(order, Min(Ready(order))), <<>>, parents)

Parents(d) == [i \in DOMAIN d.bones |-> d.bones[i].parent]

\* Canonical joints by source bone, counting from 0.
JointOf(d, b) == (CHOOSE c \in DOMAIN d.bones : JointOrderOf(Parents(d))[c] = b) - 1
Joint(d, b) == IF InTable(b, d.bones) THEN JointOf(d, b) ELSE None

Skeleton(d) ==
  LET order == JointOrderOf(Parents(d))
      ids == Names(d, "bones")
  IN  [c \in DOMAIN order |-> [id |-> ids[order[c] + 1], of |-> order[c],
                               append |-> Joint(d, d.bones[order[c] + 1].append)]]

Wanted(m) == IF m.faces > 0 THEN m.faces ELSE 0

\* Faces the materials before i, and i, consume.
Consumed(d, i) == FoldLeft(LAMBDA n, m : Min({n + Wanted(m), d.faces}), 0, SubSeq(d.materials, 1, i))

SphereMode(mode) ==
  CASE mode = 1 -> "multiply" [] mode = 2 -> "add" [] mode = 3 -> "subTexture" [] OTHER -> "disabled"

\* A material's toon: [source, texture].
Toon(d, m) ==
  LET texture == InTableOrNone(m.toon, d.textures)
  IN  IF m.shared THEN [source |-> IF m.toon <= 9 THEN "shared" ELSE "none", texture |-> None]
      ELSE [source |-> IF texture = None THEN "none" ELSE "individual", texture |-> texture]

Materials(d) ==
  LET ids == Names(d, "materials")
  IN  [i \in DOMAIN d.materials |->
        LET m == d.materials[i] IN
          [id |-> ids[i], of |-> i - 1, first |-> Consumed(d, i - 1),
           faces |-> Consumed(d, i) - Consumed(d, i - 1),
           texture |-> InTableOrNone(m.texture, d.textures),
           sphere |-> InTableOrNone(m.sphere, d.textures),
           sphereMode |-> SphereMode(m.sphereMode), toon |-> Toon(d, m)]]

Panel(panel) ==
  CASE panel = 0 -> "hidden" [] panel = 1 -> "eyebrow" [] panel = 2 -> "eye" [] panel = 3 -> "mouth"
    [] OTHER -> "other"

Members(d, offsets) == SelectSeq(offsets, LAMBDA o : InTable(o, d.morphs))
VertexOffsets(d, offsets) == SelectSeq(offsets, LAMBDA o : InTable(o, d.vertices))
UvOffsets(d, offsets) == SelectSeq(offsets, LAMBDA o : InTable(o, d.vertices))
ImpulseOffsets(d, offsets) == SelectSeq(offsets, LAMBDA o : InTable(o, d.rigidBodies))

BoneOffsets(d, offsets) ==
  LET kept == SelectSeq(offsets, LAMBDA o : InTable(o, d.bones))
  IN  [i \in DOMAIN kept |-> JointOf(d, kept[i])]

\* None of a material means every one.
MaterialOffsets(d, offsets) == [i \in DOMAIN offsets |-> InTableOrNone(offsets[i], d.materials)]

Offsets(d, m) ==
  CASE m.type \in {"group", "flip"} -> Members(d, m.offsets)
    [] m.type = "vertex" -> VertexOffsets(d, m.offsets)
    [] m.type = "bone" -> BoneOffsets(d, m.offsets)
    [] m.type = "uv" -> UvOffsets(d, m.offsets)
    [] m.type = "material" -> MaterialOffsets(d, m.offsets)
    [] m.type = "impulse" -> ImpulseOffsets(d, m.offsets)

Morphs(d) ==
  LET ids == Names(d, "morphs")
  IN  [i \in DOMAIN d.morphs |->
        [id |-> ids[i], of |-> i - 1, type |-> d.morphs[i].type,
         panel |-> Panel(d.morphs[i].panel), offsets |-> Offsets(d, d.morphs[i])]]

\* IK chains, in bone-table order; one needs an effector.
Chains(d) ==
  LET HasChain(b) == Joint(d, b.effector) # None
      owners == SelectSeq([i \in DOMAIN d.bones |-> i], LAMBDA i : HasChain(d.bones[i]))
  IN  [k \in DOMAIN owners |-> [joint |-> JointOf(d, owners[k] - 1),
                                effector |-> Joint(d, d.bones[owners[k]].effector)]]

Shape(shape) == CASE shape = 1 -> "box" [] shape = 2 -> "capsule" [] OTHER -> "sphere"
Mode(mode) == CASE mode = 1 -> "dynamic" [] mode = 2 -> "dynamicWithBone" [] OTHER -> "followBone"

RigidBodies(d) ==
  LET ids == Names(d, "rigidBodies")
  IN  [i \in DOMAIN d.rigidBodies |->
        LET b == d.rigidBodies[i] IN
          [id |-> ids[i], of |-> i - 1, bone |-> Joint(d, b.bone), shape |-> Shape(b.shape),
           mode |-> Mode(b.mode)]]

JointTypes == <<"spring6Dof", "sixDof", "pointToPoint", "coneTwist", "slider", "hinge">>
LastType(d) == IF d.version = "2.1" THEN 5 ELSE 0
JointType(d, type) == JointTypes[(IF type <= LastType(d) THEN type ELSE 0) + 1]

JoinsBodies(d, j) == InTable(j.a, d.rigidBodies) /\ InTable(j.b, d.rigidBodies)

\* A joint without two bodies goes; the others keep their identifiers.
Joints(d) ==
  LET ids == Names(d, "joints")
      kept == SelectSeq([i \in DOMAIN d.joints |-> i], LAMBDA i : JoinsBodies(d, d.joints[i]))
  IN  [k \in DOMAIN kept |->
        LET i == kept[k] IN
          [id |-> ids[i], of |-> i - 1, type |-> JointType(d, d.joints[i].type),
           a |-> d.joints[i].a, b |-> d.joints[i].b]]

Canonical(d) ==
  [vertices |-> d.vertices, faces |-> d.faces, covered |-> Consumed(d, Len(d.materials)) = d.faces,
   textures |-> [i \in DOMAIN d.textures |-> NormalizeTexturePath(d.textures[i]).asset],
   materials |-> Materials(d), bones |-> Skeleton(d), chains |-> Chains(d), morphs |-> Morphs(d),
   bodies |-> RigidBodies(d), joints |-> Joints(d), softBodies |-> d.softBodies]

-----------------------------------------------------------------------------
(* What is reported, in the order of Run                                   *)

When(condition, code, table) == IF condition THEN <<[code |-> code, table |-> table]>> ELSE <<>>
Each(table, Problem(_)) == FlattenSeq([i \in DOMAIN table |-> Problem(i)])

NameProblems(d, table) ==
  Each(d[table], LAMBDA i : When(English(d[table])[i] # d[table][i].english, "TEXT_TRAILING_NUL", table))
  \o Each(d[table], LAMBDA i : When(i \in Collided(Kind(table), English(d[table])),
                                 "USD_IDENTIFIER_COLLISION", table))

MaterialProblems(d) ==
  Each(d.textures, LAMBDA i : When(NormalizeTexturePath(d.textures[i]).unsafe,
                                   "PATH_UNSAFE_TEXTURE_PATH", "textures"))
  \o Each(d.materials, LAMBDA i :
       When(d.materials[i].sphereMode > 3, "MATERIAL_UNSUPPORTED_SPHERE_MODE", "materials")
       \o When(d.materials[i].shared /\ d.materials[i].toon > 9,
               "MATERIAL_UNSUPPORTED_TOON_SLOT", "materials"))

MorphProblems(d) ==
  Each(d.morphs, LAMBDA i : When(d.morphs[i].panel > 4, "MORPH_UNKNOWN_PANEL", "morphs"))

PhysicsProblems(d) ==
  Each(d.rigidBodies, LAMBDA i :
       When(d.rigidBodies[i].shape > 2, "PHYSICS_UNKNOWN_SHAPE", "rigidBodies")
       \o When(d.rigidBodies[i].mode > 2, "PHYSICS_UNKNOWN_MODE", "rigidBodies"))
  \o Each(d.joints, LAMBDA i :
       When(JoinsBodies(d, d.joints[i]) /\ d.joints[i].type > LastType(d),
            "PHYSICS_UNKNOWN_JOINT_TYPE", "joints"))

Problems(d) ==
  LET order == JointOrderOf(Parents(d))
      all == FlattenSeq([i \in 1..5 |->
               NameProblems(d, <<"materials", "bones", "morphs", "rigidBodies", "joints">>[i])])
             \o When(order # [c \in DOMAIN order |-> c - 1], "SKEL_JOINTS_REORDERED", "bones")
             \o MaterialProblems(d) \o MorphProblems(d) \o PhysicsProblems(d)
  IN  Taken(FoldLeft(LAMBDA list, p : Added(list, p.code, p.table), NoDiagnostics, all))
=============================================================================
