-------------------------------- MODULE Import --------------------------------
(***************************************************************************)
(* A model from its file to a layer: Read of the file format with the       *)
(* canonical tables and the stage authored from them.                       *)
(***************************************************************************)
EXTENDS FileFormat, StageAuthor

\* Codes whose severity is only information, which is recorded and not posted.
Informative == {"TEXT_TRAILING_NUL", "USD_IDENTIFIER_COLLISION", "SKEL_JOINTS_REORDERED"}
Warnings(list) == SelectSeq(list, LAMBDA p : p.code \notin Informative)

-----------------------------------------------------------------------------
(* Properties *)

d == Document(file)
authoredStage == layer.content

Paths(s) == {p.path : p \in Range(s.prims)}
Children(s, scope) ==
  SelectSeq(s.prims, LAMBDA p : p.path # <<>> /\ Front(p.path) = scope)
OfPath(s, path) == (CHOOSE p \in Range(s.prims) : p.path = path).of
Targets(s, on, name) == (CHOOSE r \in s.rels : r.on = on /\ r.name = name).targets
Values(s, on, name) == (CHOOSE a \in s.arrays : a.on = on /\ a.name = name).values
Token(s, on, name) == (CHOOSE p \in s.props : p.on = on /\ p.name = name).value
Has(s, on, name) == \E p \in s.props : p.on = on /\ p.name = name

\* Where an element of a table is authored.
Place(table) ==
  CASE table = "materials" -> Mtl [] table = "morphs" -> Morph
    [] table = "rigidBodies" -> RigidBodiesPath [] table = "joints" -> JointsPath
Authored(s, table) == Children(s, Place(table))
PathOf(s, table, i) == (CHOOSE p \in Range(Authored(s, table)) : p.of = Source(table, i)).path

\* Every prim has its parent, siblings differ even where case does not count,
\* and every target and every connected property is there.
StageIsClosed(s) ==
  /\ \A p \in Range(s.prims) : p.path = <<>> \/ Front(p.path) \in Paths(s)
  /\ \A p, q \in Range(s.prims) :
       /\ p.path # <<>> /\ q.path # <<>> /\ p # q /\ Front(p.path) = Front(q.path)
       => CollisionKey(Last(p.path)) # CollisionKey(Last(q.path))
  /\ \A r \in s.rels : Range(r.targets) \cup {r.on} \subseteq Paths(s)
  /\ \A w \in s.wires : w[1] \in Paths(s) /\ Has(s, w[3], w[4])

\* The elements of the file, each with one prim and in the file's order.
ElementsAreAuthored(s) ==
  \A table \in {"materials", "morphs", "rigidBodies", "joints"} :
    LET kept == SelectSeq([i \in DOMAIN d[table] |-> i - 1],
                          LAMBDA i : table = "joints" => JoinsBodies(d, d.joints[i + 1]))
        prims == Authored(s, table)
    IN  [k \in DOMAIN prims |-> prims[k].of] = [k \in DOMAIN kept |-> Source(table, kept[k])]

\* What an index in the file's own numbering leads to.
Joins(s, v) == IF v = None THEN None ELSE Values(s, SkeletonPath, "mmd:bone:sourceIndex")[v + 1]
Stands(s, table, v) == IF v = None THEN None ELSE Authored(s, table)[v + 1].of.index
InFile(offsets, table) == SelectSeq(offsets, LAMBDA o : InTable(o, d[table]))
Mapped(f(_), values) == [k \in DOMAIN values |-> f(values[k])]

MorphMeans(s, i) ==
  LET m == d.morphs[i]
      path == PathOf(s, "morphs", i - 1)
  IN  CASE m.type \in {"group", "flip"} ->
             Mapped(LAMBDA p : OfPath(s, p).index, Targets(s, path, "mmd:morph:members"))
               = InFile(m.offsets, "morphs")
        [] m.type = "bone" -> Mapped(LAMBDA v : Joins(s, v), Values(s, path, "joints"))
                                = InFile(m.offsets, "bones")
        [] m.type = "impulse" -> Mapped(LAMBDA v : Stands(s, "rigidBodies", v), Values(s, path, "rigidBodyIndices"))
                                   = InFile(m.offsets, "rigidBodies")
        [] m.type = "material" ->
             Mapped(LAMBDA v : Stands(s, "materials", v), Values(s, path, "materialIndices"))
               = Mapped(LAMBDA o : InTableOrNone(o, d.materials), m.offsets)
        [] OTHER -> Range(Values(s, path, "pointIndices")) \subseteq 0..Len(d.vertices) - 1

\* Faces in file order belong to the materials in file order.
FacesBefore(i) == FoldLeft(LAMBDA n, m : n + m.faces, 0, SubSeq(d.materials, 1, i))
SubsetsMean(s) ==
  LET subsets == Children(s, MeshPath)
      Faces(p) == Range(Values(s, p.path, "indices"))
      Bound(p) == OfPath(s, Targets(s, p.path, "material:binding")[1]).index + 1
  IN  d.vertices # <<>> =>
        /\ {Bound(p) : p \in Range(subsets)} = {i \in DOMAIN d.materials : d.materials[i].faces > 0}
        /\ \A p \in Range(subsets) : Faces(p) = FacesBefore(Bound(p) - 1)..FacesBefore(Bound(p)) - 1
        /\ subsets # <<>> => (Token(s, MeshPath, "familyType") = "partition"
                                <=> UNION {Faces(p) : p \in Range(subsets)} = 0..d.faces - 1)

BonesMean(s) ==
  /\ \A b \in DOMAIN d.rigidBodies :
       Joins(s, Values(s, PathOf(s, "rigidBodies", b - 1), "bone")[1])
         = InTableOrNone(d.rigidBodies[b].bone, d.bones)
  /\ d.bones # <<>> =>
       \A c \in DOMAIN d.bones :
         Joins(s, Values(s, Append(Rig, <<"Bones">>), "appendSources")[c])
           = InTableOrNone(d.bones[Joins(s, c - 1) + 1].append, d.bones)
  /\ {p.of.index : p \in Range(Children(s, Ik))}
       = {b \in 0..Len(d.bones) - 1 : InTable(d.bones[b + 1].effector, d.bones)}
  /\ \A p \in Range(Children(s, Ik)) :
       /\ Joins(s, Values(s, p.path, "joint")[1]) = p.of.index
       /\ Joins(s, Values(s, p.path, "effector")[1]) = d.bones[p.of.index + 1].effector

JointsMean(s) ==
  \A p \in Range(Authored(s, "joints")) :
    LET j == d.joints[p.of.index + 1] IN
      p.type = "PhysicsJoint" =>
        /\ OfPath(s, Targets(s, p.path, "body0")[1]) = Source("rigidBodies", j.a)
        /\ OfPath(s, Targets(s, p.path, "body1")[1]) = Source("rigidBodies", j.b)

\* Identifiers, dropped offsets, renumbered bones and dropped joints leave no
\* reference of a stage dangling, and each leads to the element whose index
\* the file holds.
ReferencesResolve ==
  result = "read" =>
    LET s == authoredStage IN
      /\ StageIsClosed(s) /\ ElementsAreAuthored(s)
      /\ \A i \in DOMAIN d.morphs : MorphMeans(s, i)
      /\ SubsetsMean(s) /\ BonesMean(s) /\ JointsMean(s)

-----------------------------------------------------------------------------

\* How many things the recorded diagnostics of a code speak of.
Reported(code, table) ==
  LET these == SelectSeq(layer.recorded, LAMBDA p : p.code = code /\ p.table = table)
  IN  FoldLeft(LAMBDA n, p : n + IF p.more > 0 THEN p.more ELSE 1, 0, these)

Said(names, value) == IF value + 1 \in DOMAIN names THEN names[value + 1] ELSE "unnamed"
Unlike(s, table, name, Meant(_)) ==
  {i \in DOMAIN d[table] :
     \E p \in Range(Authored(s, table)) :
       p.of = Source(table, i - 1) /\ Token(s, p.path, name) # Meant(d[table][i])}

\* A path leaves the model's directory where more ".." than names come first.
Leaves(path) ==
  \E n \in DOMAIN path :
    LET start == SubSeq(path, 1, n)
        Times(token) == Cardinality({i \in DOMAIN start : start[i] = token})
    IN  Times("..") > n - Times("..") - Times(".") - Times("/") - Times("\\")
Unfollowed(path) ==
  LET text == Unpadded(path) IN
    \/ \E i \in DOMAIN text : text[i] \in Controls
    \/ text # <<>> /\ text[1] \in {"/", "\\"} \cup Schemes
    \/ Leaves(text)

\* Whatever is on the stage in another form than in the file is recorded with
\* it, and nothing else is: as many names, paths, modes, types, shapes, morphs,
\* joints and vertices as differ.
FallbacksAreReported ==
  result = "read" =>
    LET s == authoredStage
        Prims(table, type) == {p \in Range(Authored(s, table)) : p.type = type}
        morphs == {i \in DOMAIN d.morphs : d.morphs[i].type = "vertex"}
        Deform(type) == IF d.bones = <<>> THEN {} ELSE {i \in DOMAIN d.vertices : d.vertices[i] = type}
        Exactly(code, table, set) == Reported(code, table) = Cardinality(set)
    IN
    /\ Exactly("PATH_UNSAFE_TEXTURE_PATH", "textures", {i \in DOMAIN d.textures : Unfollowed(d.textures[i])})
    /\ \A p \in Range(Authored(s, "materials")) :
         LET t == d.materials[p.of.index + 1].texture IN
           Has(s, p.path, "texture") => ~Unfollowed(d.textures[t + 1])
    /\ Exactly("MATERIAL_UNSUPPORTED_SPHERE_MODE", "materials",
               Unlike(s, "materials", "sphereMode",
                      LAMBDA m : Said(<<"disabled", "multiply", "add", "subTexture">>, m.sphereMode)))
    /\ Exactly("MATERIAL_UNSUPPORTED_TOON_SLOT", "materials",
               {i \in DOMAIN d.materials : d.materials[i].shared}
                 \cap Unlike(s, "materials", "toonSource", LAMBDA m : "shared"))
    /\ Exactly("MORPH_UNKNOWN_PANEL", "morphs",
               Unlike(s, "morphs", "panel",
                      LAMBDA m : Said(<<"hidden", "eyebrow", "eye", "mouth", "other">>, m.panel)))
    /\ Exactly("PHYSICS_UNKNOWN_SHAPE", "rigidBodies",
               Unlike(s, "rigidBodies", "shape", LAMBDA b : Said(<<"sphere", "box", "capsule">>, b.shape)))
    /\ Exactly("PHYSICS_UNKNOWN_MODE", "rigidBodies",
               Unlike(s, "rigidBodies", "mode",
                      LAMBDA b : Said(<<"followBone", "dynamic", "dynamicWithBone">>, b.mode)))
    /\ Exactly("PHYSICS_UNKNOWN_JOINT_TYPE", "joints",
               Unlike(s, "joints", "type",
                      LAMBDA j : Said(IF d.version = "2.1" THEN JointTypes ELSE <<"spring6Dof">>, j.type)))
    /\ Exactly("MORPH_NO_SKELETON", "morphs",
               {i \in morphs : PathOf(s, "morphs", i - 1) \notin {p.path : p \in Prims("morphs", "BlendShape")}})
    /\ Exactly("PHYSICS_JOINT_UNMAPPED", "joints", Prims("joints", ""))
    /\ Exactly("PHYSICS_JOINT_SELF", "joints",
               {p \in Prims("joints", "PhysicsJoint") : Has(s, p.path, "jointEnabled")})
    /\ Exactly("PHYSICS_SOFT_BODY_UNSUPPORTED", "softBodies", 1..d.softBodies)
    /\ \A type \in {"sdef", "qdef"} :
         Exactly(IF type = "sdef" THEN "SKEL_SDEF_APPROXIMATED" ELSE "SKEL_QDEF_APPROXIMATED",
                 "vertices", Deform(type))
    /\ \A table \in {"materials", "morphs", "rigidBodies"} :
         Exactly("USD_IDENTIFIER_COLLISION", table,
                 {p \in Range(Authored(s, table)) :
                    Last(p.path) # FirstChoice(Kind(table), d[table][p.of.index + 1].english, p.of.index)})
    /\ Exactly("SKEL_JOINTS_REORDERED", "bones",
               {b \in {1} : d.bones # <<>> /\ \E c \in DOMAIN d.bones : Joins(s, c - 1) # c - 1})
=============================================================================
