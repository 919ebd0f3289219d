------------------------------ MODULE MCImport ------------------------------
(***************************************************************************)
(* Small models that need every fallback: names that collide, also with the *)
(* identifiers made for others, paths that leave the directory, bones out   *)
(* of order, values out of range, and bodies, bones and meshes left out.    *)
(***************************************************************************)
EXTENDS Import

MCWords == {"a", "b", "A", "material", "bone", "morph", "rigidBody", "joint"}
MCLower(c) == IF c = "A" THEN "a" ELSE c

Bone(parent, append, effector) ==
  [english |-> <<"a">>, parent |-> parent, append |-> append, effector |-> effector]
Body(english, bone, shape, mode) == [english |-> english, bone |-> bone, shape |-> shape, mode |-> mode]
Link(english, type, a, b) == [english |-> english, type |-> type, a |-> a, b |-> b]
MorphRow(english, type, panel, offsets) ==
  [english |-> english, type |-> type, panel |-> panel, offsets |-> offsets]
MaterialRow(english, faces, texture, sphere, mode, shared, toon) ==
  [english |-> english, faces |-> faces, texture |-> texture, sphere |-> sphere, sphereMode |-> mode,
   shared |-> shared, toon |-> toon]

Skeletons ==
  { <<>>, <<Bone(1, 2, None), Bone(None, None, 0), Bone(0, 9, None)>>,
    <<Bone(None, None, 1), Bone(0, 0, 7)>> }
Meshes == { [vertices |-> <<>>, faces |-> 0], [vertices |-> <<"sdef", "qdef", "linear", "sdef">>, faces |-> 3] }

Textures == << <<"a", "\\", "b">>, <<"a", "/", "..", "/", "..", "/", "b">>, <<"b", "NUL", "NUL">>, <<"C:", "a">>, <<"..", "/", "..", "\\", "b">> >>

\* The identifier made for the third material, and one cut to what its
\* fallback is numbered to: the third material takes its fifth choice.
MadeFor2 == <<"material", "_", "0", "0", "0", "2">>
MaterialTables ==
  { <<>>,
    <<MaterialRow(<<"a", "_", "2">>, 1, 0, 1, 1, FALSE, 2), MaterialRow(<<"A", "!">>, 0, 1, 0, 4, FALSE, 3),
      MaterialRow(<<"a">>, 2, 2, None, 3, TRUE, 10)>>,
    <<MaterialRow(MadeFor2, 1, 5, 2, 0, FALSE, None),
      MaterialRow(MadeFor2 \o <<"_", "2", "a">>, 0, None, 0, 1, FALSE, 0),
      MaterialRow(<<"NUL">>, 1, None, 3, 2, TRUE, 9)>> }

MorphTables ==
  { <<>>,
    <<MorphRow(<<"b">>, "vertex", 5, <<0, 8>>), MorphRow(<<"b">>, "bone", 0, <<2, 0, 9, 1>>),
      MorphRow(<<"B", "1">>, "group", 4, <<1, 6, 0>>), MorphRow(<<>>, "material", 1, <<2, None>>)>>,
    <<MorphRow(<<"_">>, "impulse", 2, <<1, 2, 0>>), MorphRow(<<"a", "_", "1">>, "uv", 3, <<3, 4>>),
      MorphRow(<<"a">>, "flip", 9, <<1, 0>>), MorphRow(<<"a">>, "vertex", 4, <<1>>)>> }

Bodies ==
  { [rigidBodies |-> <<>>, joints |-> <<Link(<<"a">>, 0, 0, 0)>>],
    [rigidBodies |-> <<Body(<<"1">>, 1, 0, 0), Body(<<"_", "1">>, 7, 3, 2), Body(<<"a">>, None, 2, 5)>>,
     joints |-> <<Link(<<"a">>, 0, 0, 2), Link(<<"a">>, 4, 2, 1), Link(<<"a">>, 1, 1, 5),
                  Link(<<>>, 6, 1, 1)>>] }

Model(version, bones, mesh, materials, morphs, physics, soft) ==
  [version |-> version, bones |-> bones, vertices |-> mesh.vertices, faces |-> mesh.faces,
   textures |-> Textures, materials |-> materials, morphs |-> morphs,
   rigidBodies |-> physics.rigidBodies, joints |-> physics.joints, softBodies |-> soft]

Models ==
  {Model(IF morphs = <<>> THEN "2.0" ELSE "2.1", bones, mesh, materials, morphs, physics,
         IF bones = <<>> THEN 2 ELSE 0) :
     bones \in Skeletons, mesh \in Meshes, materials \in MaterialTables, morphs \in MorphTables,
     physics \in Bodies}

\* What else may be wrong with a file; the parser's own diagnostics are few.
Warned == [code |-> "PMX_INVALID_INDEX", table |-> "bones", more |-> 0]
FileOf(opens, parses, list, model) == [opens |-> opens, parses |-> parses, list |-> list, model |-> model]
AnyModel == CHOOSE m \in Models : Len(m.bones) = 3 /\ m.vertices # <<>> /\ m.morphs # <<>>
MCFiles ==
  {FileOf(TRUE, TRUE, <<>>, m) : m \in Models}
  \cup {FileOf(FALSE, FALSE, <<>>, AnyModel), FileOf(TRUE, FALSE, <<Warned>>, AnyModel),
        FileOf(TRUE, TRUE, <<Warned>>, AnyModel)}

\* What TLC works out once for every model.
Canonicals == [m \in Models |-> Canonical(m)]
Reports == [m \in Models |-> Problems(m)]
Stages ==
  [c \in Range(Canonicals) |->
    FoldLeft(LAMBDA stages, k : Append(stages, Section(k, c, IF k = 1 THEN NoStage ELSE Last(stages))),
             <<>>, [k \in 1..8 |-> k])]

MCCanonical(m) == Canonicals[m]
MCReports(m) == Reports[m]
MCSection(k, c, s) == Stages[c][k]

MCOpens(f) == f.opens
MCParses(f) == f.parses
MCDocument(f) == f.model
MCParserDiagnostics(f) == f.list
=============================================================================
