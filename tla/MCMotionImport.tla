--------------------------- MODULE MCMotionImport ---------------------------
(***************************************************************************)
(* Motions of up to three records and a model whose names collide, tear and *)
(* cannot be written.  The name fields are two and three bytes wide.        *)
(***************************************************************************)
EXTENDS MotionImport

\* "a", "b" and NUL have one byte, "K" has two and "x" none.
MCLeads == {3}
MCPairs == {<<3, 2>>}
MCEncoded(c) ==
  CASE c = "a" -> <<1>> [] c = "b" -> <<2>> [] c = "0" -> <<0>> [] c = "K" -> <<3, 2>>
    [] c = "x" -> <<>>

Name(name, sourceIndex) == [name |-> name, sourceIndex |-> sourceIndex]

MCBones ==
  <<Name(<<"a", "b", "a">>, 2), Name(<<"a", "K">>, 3), Name(<<"a", "b">>, 1),
    Name(<<"x">>, 4), Name(<<>>, 0), Name(<<"b", "0", "a">>, 5)>>
MCMorphs == <<Name(<<"K">>, 1), Name(<<"a", "x">>, 2), Name(<<"a", "0">>, 3), Name(<<"a">>, 0)>>

\* Names as fields: "a" with two paddings, both that are "ab" once cut, a torn
\* "K", a pair that is no character, and no name.
MCFields(w) ==
  CASE w = 2 -> {<<1, 0>>, <<1, 2>>, <<1, 3>>, <<3, 1>>, <<0, 1>>, <<2, 0>>}
    [] w = 3 -> {<<1, 2, 0>>, <<1, 2, 1>>, <<1, 3, 2>>, <<1, 0, 2>>}
    [] OTHER -> {[i \in 1..w |-> IF w = 10 THEN 1 ELSE 3]}

File(counts, sizes, extra, nameSize) ==
  LET stored == counts \o [i \in 1..6 - Len(counts) |-> 0]
      bytes(s) == 4 + stored[s] * RecordSize(Sections[s])
      all == Total([s \in DOMAIN counts |-> bytes(s)]) + Total(sizes) * IkStateRecord
  IN  [size |-> SignatureSize + nameSize + all + extra, nameSize |-> nameSize,
       stored |-> stored, states |-> sizes]

MCFiles ==
  { [File(<<>>, <<>>, 0, 20) EXCEPT !.size = n] : n \in {0, 29, 30, 49} }
  \cup {File(c, <<>>, 0, 20) : c \in {<<3>>, <<0, 3>>, <<1, 2, 0>>}}
  \cup {File(<<1, 1>>, <<>>, e, 20) : e \in {-1, 1, 3}}
  \cup {File(<<0, 1, 1, 0, 1, 1>>, <<0>>, 0, 10), File(<<0, 0, 2, 1, 1>>, <<>>, 4, 20)}
  \cup {File(<<0, 0, 1, 1, 1>>, <<>>, e, 20) : e \in {-9, -1, 0}}
  \cup {File(<<0, 0, 0, 0, 0, n>>, SubSeq(s, 1, n), e, 10) :
          n \in {1, 2}, s \in {<<1, 1>>, <<0, 2>>, <<2, 0>>}, e \in {-10, -1, 0, 5}}
  \cup {File(<<>>, <<>>, e, 10) : e \in {-1, 0, 2}}
=============================================================================
