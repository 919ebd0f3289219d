----------------------------- MODULE StageAuthor -----------------------------
(***************************************************************************)
(* The USD authorer of plugins/usdMmdFileFormat: a canonical document as a  *)
(* stage.  A path holds the names below /Asset, which is <<>>.  A stage has *)
(*   prims   in authoring order: [path, type, of], of the source element    *)
(*   props   properties: [on, name, value], the value only where it is a    *)
(*           token an element's own field decides                           *)
(*   wires   connections of properties: <<path, name, path, name>>          *)
(*   rels    relationships: [on, name, targets]                             *)
(*   arrays  arrays of indices: [on, name, values]                          *)
(* Colours, transforms, offsets and limits are left out.                    *)
(***************************************************************************)
EXTENDS CanonicalTables

Geo == << <<"geo">> >>
Mtl == << <<"mtl">> >>
Skel == << <<"skel">> >>
Morph == << <<"morph">> >>
Rig == << <<"rig">> >>
Ik == Append(Rig, <<"ik">>)
Physics == << <<"physics">> >>
RigidBodiesPath == Append(Physics, <<"rigidBodies">>)
JointsPath == Append(Physics, <<"joints">>)
MeshPath == Append(Geo, <<"mesh">>)
SkeletonPath == Append(Skel, <<"skeleton">>)

Skinned(c) == c.bones # <<>>
HasMesh(c) == c.vertices # <<>>

\* What a scope and a part of an element is of.
Nothing == [table |-> "", index |-> 0]
Source(table, i) == [table |-> table, index |-> i]

\* Defining a prim that is there changes its type and what is said of it.
Define(s, path, type, of) ==
  LET prim == [path |-> path, type |-> type, of |-> of]
      there == {i \in DOMAIN s.prims : s.prims[i].path = path}
  IN  IF there = {} THEN [s EXCEPT !.prims = Append(@, prim)]
      ELSE [s EXCEPT !.prims[Min(there)] = prim]

Set(s, on, name, value) == [s EXCEPT !.props = @ \cup {[on |-> on, name |-> name, value |-> value]}]
Relate(s, on, name, targets) ==
  [s EXCEPT !.rels = @ \cup {[on |-> on, name |-> name, targets |-> targets]}]
Index(s, on, name, values) ==
  [s EXCEPT !.arrays = @ \cup {[on |-> on, name |-> name, values |-> values]}]

\* The empty stage, then /Asset: a SkelRoot of a model with bones.
Begun(c) ==
  [prims |-> <<[path |-> <<>>, type |-> IF Skinned(c) THEN "SkelRoot" ELSE "Xform",
               of |-> Source("model", 0)]>>,
   props |-> {}, wires |-> {}, rels |-> {}, arrays |-> {}]

Mesh(c, s) ==
  IF ~HasMesh(c) THEN s
  ELSE LET mesh == Define(Define(s, Geo, "Scope", Nothing), MeshPath, "Mesh", Nothing)
       IN  IF Skinned(c) THEN Relate(mesh, MeshPath, "skel:skeleton", <<SkeletonPath>>) ELSE mesh

-----------------------------------------------------------------------------
(* Materials                                                               *)

HasAsset(c, texture) == texture # None /\ c.textures[texture + 1] # <<>>

\* A slot's asset attribute is authored only for a path that is safe.
TextureSlot(c, s, path, texture, name) ==
  IF HasAsset(c, texture) THEN Set(s, path, name, "") ELSE s

MaterialSemantics(s, path, m) ==
  LET colored == Set(s, path, "diffuseColor", "")
      sphere == Set(colored, path, "sphereMode", m.sphereMode)
  IN  Set(sphere, path, "toonSource", m.toon.source)

\* A graph: its nodes with their outputs, inputs that the material's property
\* of the same name feeds, and wires between nodes; Of names the graph itself.
Of == "graph"
Wire(path, w) ==
  LET At(node) == IF node = Of THEN path ELSE Append(path, <<node>>)
  IN  <<At(w[1]), w[2], At(w[3]), w[4]>>

Graph(s, material, name, nodes, inputs, wires) ==
  LET path == Append(material, <<name>>)
      graph == Define(s, path, "NodeGraph", Nothing)
      whole == FoldLeft(LAMBDA t, n : Define(t, Append(path, <<n[1]>>), "Shader", Nothing), graph, nodes)
      outputs == {[on |-> Append(path, <<n[1]>>), name |-> n[2], value |-> ""] : n \in Range(nodes)}
      own == {[on |-> path, name |-> i, value |-> ""] : i \in inputs \cup {"surface"}}
  IN  [whole EXCEPT
        !.props = @ \cup outputs \cup own,
        !.wires = @ \cup {Wire(path, w) : w \in wires} \cup {<<path, i, material, i>> : i \in inputs}
                    \cup {<<path, "surface", Append(path, <<"surface">>), "surface">>,
                          <<material, name, path, "surface">>}]

\* Faulty variant of Textured: the slot is there, its asset may not be.
TexturedSlot(c, m) == m.texture # None

Textured(c, m) == HasAsset(c, m.texture)

AuthorPreview(c, s, path, m) ==
  IF Textured(c, m)
  THEN Graph(s, path, "preview",
             << <<"surface", "surface">>, <<"stReader", "result">>, <<"baseTexture", "rgb">>,
                <<"baseTexture", "a">> >>,
             {"diffuseColor", "texture"},
             { <<"baseTexture", "file", Of, "texture">>, <<"baseTexture", "st", "stReader", "result">>,
               <<"baseTexture", "scale", Of, "diffuseColor">>,
               <<"surface", "emissiveColor", "baseTexture", "rgb">>,
               <<"surface", "opacity", "baseTexture", "a">> })
  ELSE Graph(s, path, "preview", << <<"surface", "surface">> >>, {}, {})

AuthorMtlx(c, s, path, m) ==
  LET split == {<<"baseColorRgb", "in1", "baseColorSplit", "outr">>,
                <<"baseColorRgb", "in2", "baseColorSplit", "outg">>,
                <<"baseColorRgb", "in3", "baseColorSplit", "outb">>,
                <<"surface", "emissive", "baseColorRgb", "out">>,
                <<"surface", "alpha", "baseColorSplit", "outa">>}
      nodes == << <<"surface", "surface">>, <<"baseColorSplit", "outr">>, <<"baseColorSplit", "outg">>,
                  <<"baseColorSplit", "outb">>, <<"baseColorSplit", "outa">>, <<"baseColorRgb", "out">> >>
  IN  IF Textured(c, m)
      THEN Graph(s, path, "mtlx",
                 nodes \o << <<"st", "out">>, <<"baseTexture", "out">>, <<"baseColorFactor", "out">> >>,
                 {"diffuseColor", "texture"},
                 split \cup {<<"baseTexture", "file", Of, "texture">>,
                             <<"baseTexture", "texcoord", "st", "out">>,
                             <<"baseColorFactor", "in1", "baseTexture", "out">>,
                             <<"baseColorFactor", "in2", Of, "diffuseColor">>,
                             <<"baseColorSplit", "in", "baseColorFactor", "out">>})
      ELSE Graph(s, path, "mtlx", nodes, {"diffuseColor"},
                 split \cup {<<"baseColorSplit", "in", Of, "diffuseColor">>})

Material(c, s, m) ==
  LET path == Append(Mtl, m.id)
      prim == MaterialSemantics(Define(s, path, "Material", Source("materials", m.of)), path, m)
      base == TextureSlot(c, prim, path, m.texture, "texture")
      sphere == TextureSlot(c, base, path, m.sphere, "sphereTexture")
      toon == IF m.toon.source = "individual"
              THEN TextureSlot(c, sphere, path, m.toon.texture, "toonTexture") ELSE sphere
  IN  AuthorMtlx(c, AuthorPreview(c, toon, path, m), path, m)

MaterialPrims(c, s) ==
  IF c.materials = <<>> THEN s
  ELSE FoldLeft(LAMBDA t, m : Material(c, t, m), Define(s, Mtl, "Scope", Nothing), c.materials)

\* A subset of the mesh for every material with a face, bound to it.
Subset(s, m) ==
  LET path == Append(MeshPath, m.id)
      subset == Define(s, path, "GeomSubset", Nothing)
      faces == Index(subset, path, "indices", [k \in 1..m.faces |-> m.first + k - 1])
  IN  Relate(faces, path, "material:binding", <<Append(Mtl, m.id)>>)

Subsets(c, s) ==
  LET drawn == SelectSeq(c.materials, LAMBDA m : m.faces > 0)
  IN  IF ~HasMesh(c) \/ drawn = <<>> THEN s
      ELSE Set(FoldLeft(Subset, s, drawn), MeshPath, "familyType",
               IF c.covered THEN "partition" ELSE "nonOverlapping")

-----------------------------------------------------------------------------
(* Skeleton, morphs, rig and physics                                       *)

\* The joints' paths and, beside them, the bones they come from.
SkeletonPrim(c, s) ==
  IF ~Skinned(c) THEN s
  ELSE LET scope == Define(s, Skel, "Scope", Nothing)
           prim == Define(scope, SkeletonPath, "Skeleton", Nothing)
       IN  Index(prim, SkeletonPath, "mmd:bone:sourceIndex", [i \in DOMAIN c.bones |-> c.bones[i].of])

BlendShapes(c) == Skinned(c) /\ HasMesh(c)
IsShape(c, m) == m.type = "vertex" /\ BlendShapes(c)

MorphMembers(c, s, path, m) ==
  Relate(s, path, "mmd:morph:members",
         [i \in DOMAIN m.offsets |-> Append(Morph, c.morphs[m.offsets[i] + 1].id)])

OffsetArray(m) ==
  CASE m.type \in {"vertex", "uv"} -> "pointIndices" [] m.type = "bone" -> "joints"
    [] m.type = "material" -> "materialIndices" [] m.type = "impulse" -> "rigidBodyIndices"

MorphPrim(c, s, m) ==
  LET path == Append(Morph, m.id)
      prim == Set(Define(s, path, IF IsShape(c, m) THEN "BlendShape" ELSE "", Source("morphs", m.of)),
                  path, "panel", m.panel)
  IN  IF m.type \in {"group", "flip"} THEN MorphMembers(c, prim, path, m)
      ELSE Index(prim, path, OffsetArray(m), m.offsets)

MorphPrims(c, s) ==
  LET prims == FoldLeft(LAMBDA t, m : MorphPrim(c, t, m), Define(s, Morph, "Scope", Nothing), c.morphs)
      shapes == SelectSeq(c.morphs, LAMBDA m : IsShape(c, m))
  IN  IF c.morphs = <<>> THEN s
      ELSE IF shapes = <<>> THEN prims
      ELSE Relate(prims, MeshPath, "skel:blendShapeTargets",
                  [i \in DOMAIN shapes |-> Append(Morph, shapes[i].id)])

\* A chain is named after its IK bone.
ChainPath(c, chain) == Append(Ik, c.bones[chain.joint + 1].id)

ChainPrim(c, s, chain) ==
  LET path == ChainPath(c, chain)
      prim == Define(s, path, "", Source("bones", c.bones[chain.joint + 1].of))
  IN  Index(Index(prim, path, "joint", <<chain.joint>>), path, "effector", <<chain.effector>>)

RigPrims(c, s) ==
  LET path == Append(Rig, <<"Bones">>)
      prim == Define(Define(s, Rig, "Scope", Nothing), path, "", Nothing)
      bones == Index(prim, path, "appendSources", [i \in DOMAIN c.bones |-> c.bones[i].append])
  IN  IF ~Skinned(c) THEN s
      ELSE IF c.chains = <<>> THEN bones
      ELSE FoldLeft(LAMBDA t, k : ChainPrim(c, t, k), Define(bones, Ik, "Scope", Nothing), c.chains)

\* A body, and its shape as a collider below it.
RigidBody(s, b) ==
  LET path == Append(RigidBodiesPath, b.id)
      prim == Define(s, path, "Xform", Source("rigidBodies", b.of))
      tokens == Set(Set(prim, path, "shape", b.shape), path, "mode", b.mode)
  IN  Define(Index(tokens, path, "bone", <<b.bone>>), Append(path, <<"collider">>), b.shape, Nothing)

IsSixDof(type) == type \in {"spring6Dof", "sixDof"}

PhysicsJoint(c, s, j) ==
  LET path == Append(JointsPath, j.id)
      BodyPath(i) == Append(RigidBodiesPath, c.bodies[i + 1].id)
      prim == Set(Define(s, path, IF IsSixDof(j.type) THEN "PhysicsJoint" ELSE "", Source("joints", j.of)),
                  path, "type", j.type)
      between == Relate(Relate(prim, path, "body0", <<BodyPath(j.a)>>), path, "body1", <<BodyPath(j.b)>>)
  IN  IF ~IsSixDof(j.type) THEN prim
      ELSE IF j.a = j.b THEN Set(between, path, "jointEnabled", "false") ELSE between

PhysicsPrims(c, s) ==
  LET scopes == Define(Define(s, Physics, "Scope", Nothing), RigidBodiesPath, "Scope", Nothing)
      bodies == FoldLeft(RigidBody, scopes, c.bodies)
  IN  IF c.bodies = <<>> THEN s
      ELSE IF c.joints = <<>> THEN bodies
      ELSE FoldLeft(LAMBDA t, j : PhysicsJoint(c, t, j), Define(bodies, JointsPath, "Scope", Nothing), c.joints)

-----------------------------------------------------------------------------
(* The order of Author                                                     *)

Section(k, c, s) ==
  CASE k = 1 -> Begun(c) [] k = 2 -> Mesh(c, s) [] k = 3 -> MaterialPrims(c, s) [] k = 4 -> Subsets(c, s)
    [] k = 5 -> SkeletonPrim(c, s) [] k = 6 -> MorphPrims(c, s) [] k = 7 -> RigPrims(c, s)
    [] k = 8 -> PhysicsPrims(c, s)

Counted(n, code, table) == IF n = 0 THEN <<>> ELSE <<Diagnostic(code, table, n)>>
Count(table, Is(_)) == Cardinality({i \in DOMAIN table : Is(table[i])})

\* Faulty variant of Preserved: a model without a mesh is forgotten.
PreservedBoneless(c) == IF Skinned(c) THEN 0 ELSE Count(c.morphs, LAMBDA m : m.type = "vertex")

\* Vertex morphs that are no blend shapes.
Preserved(c) == IF BlendShapes(c) THEN 0 ELSE Count(c.morphs, LAMBDA m : m.type = "vertex")

\* What the stage approximates or leaves out, each with how many it is about.
ImporterDiagnostics(c) ==
  Counted(IF Skinned(c) THEN Count(c.vertices, LAMBDA v : v = "sdef") ELSE 0,
          "SKEL_SDEF_APPROXIMATED", "vertices")
  \o Counted(IF Skinned(c) THEN Count(c.vertices, LAMBDA v : v = "qdef") ELSE 0,
             "SKEL_QDEF_APPROXIMATED", "vertices")
  \o Counted(Preserved(c), "MORPH_NO_SKELETON", "morphs")
  \o Counted(Count(c.joints, LAMBDA j : ~IsSixDof(j.type)), "PHYSICS_JOINT_UNMAPPED", "joints")
  \o Counted(Count(c.joints, LAMBDA j : IsSixDof(j.type) /\ j.a = j.b), "PHYSICS_JOINT_SELF", "joints")
  \o Counted(c.softBodies, "PHYSICS_SOFT_BODY_UNSUPPORTED", "softBodies")
=============================================================================
