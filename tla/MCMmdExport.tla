----------------------------- MODULE MCMmdExport -----------------------------
(***************************************************************************)
(* Two runs over layers whose names meet: a renamed texture and a file of   *)
(* its new name, a directory of that name, a texture below the root layer's *)
(* name, one already called tex_0001, and textures that are missing, not    *)
(* convertible, not decodable or outside the model's directory.             *)
(***************************************************************************)
EXTENDS MmdExport

In(dir, file) == <<dir, file>>

Spa == << <<"a", "spa">> >>
SpaPng == << <<"a", "spa", "png">> >>
BelowSpaPng == In(<<"a", "spa", "png">>, <<"c", "png">>)
Bmp == << <<"b", "bmp">> >>
Broken == << <<"c", "bmp">> >>
Gif == << <<"g", "gif">> >>
Missing == << <<"h", "png">> >>
Jpeg == << <<"j", "jpg">> >>
BelowRoot == In(<<"m", "usdc">>, <<"x", "png">>)
Tex1 == In(<<"textures">>, <<"tex_0001", "png">>)
Tga == << <<"u", "tga">> >>
Outside == In(<<"..">>, <<"z", "png">>)

Tex(i, ext) == In(<<"textures">>, <<"tex_000" \o ToString(i), ext>>)

\* Byte order: "." sorts before "/" and both before letters, and a name before
\* what begins with it.
Suffixed(p) == <<p, WithSuffix(p, "jpg"), WithSuffix(p, "png")>>
Numbered(i) == <<Tex(i, "avif"), Tex(i, "exr"), Tex(i, "jpeg"), Tex(i, "jpg"), Tex(i, "png")>>
Order == <<Outside, Spa, WithSuffix(Spa, "jpg")>> \o Suffixed(SpaPng) \o Suffixed(BelowSpaPng)
         \o Suffixed(Bmp) \o Suffixed(Broken) \o Suffixed(Gif) \o Suffixed(Missing)
         \o Suffixed(Jpeg) \o Suffixed(BelowRoot)
         \o Numbered(1) \o <<WithSuffix(Tex1, "jpg"), WithSuffix(Tex1, "png")>> \o Numbered(2)
         \o Suffixed(Tga)
MCPaths == {Order[i] : i \in DOMAIN Order}
Place == [p \in MCPaths |-> CHOOSE i \in DOMAIN Order : Order[i] = p]
MCPrecedes(p, q) == Place[p] < Place[q]

MCNumber(i) == "tex_000" \o ToString(i)
MCStem == "m"

File(format, image) == [format |-> format, image |-> image]

Textures == [p \in {Outside, Spa, Bmp, Broken, Gif, Jpeg, BelowRoot, Tex1, Tga} |->
  CASE p = Outside -> File("png", "outside")
    [] p = Spa -> File("png", "spa") [] p = Bmp -> File("bmp", "bmp")
    [] p = Broken -> File("bm", "broken") [] p = Gif -> File("gif", "gif")
    [] p = Jpeg -> File("jpeg", "jpeg") [] p = BelowRoot -> File("png", "below")
    [] p = Tex1 -> File("png", "tex") [] OTHER -> File("raw", "tga")]

With(p, image) == [q \in DOMAIN Textures \cup {p} |-> IF q = p THEN File("png", image) ELSE Textures[q]]

MCDisks == { Textures, With(SpaPng, "other"), With(BelowSpaPng, "deep") }

Layer(names) == [names |-> names, layers |-> FALSE]
MCModels ==
  { Layer(<<Spa, Bmp, Spa>>), Layer(<<Spa, SpaPng>>), Layer(<<Spa, BelowSpaPng>>),
    Layer(<<Tex1, Spa>>), Layer(<<BelowRoot>>), Layer(<<Jpeg, Tga>>), Layer(<<Broken, Bmp>>),
    Layer(<<Gif>>), Layer(<<Missing, Jpeg>>), Layer(<<Outside, Jpeg>>), Layer(<<>>),
    [names |-> <<Jpeg>>, layers |-> TRUE] }

MCSymmetry == Permutations(Runs)

MCChanges == { <<Spa, File("bmp", "new")>>, <<Bmp, None>>, <<Jpeg, File("png", "new")>> }
=============================================================================
