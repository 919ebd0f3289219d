--------------------------- MODULE MCCanonicalize ---------------------------
(***************************************************************************)
(* Every parent table of three bones (own parents, cycles, indices on both  *)
(* sides of the range) with one set of relations, and every group of three  *)
(* morphs with up to two members under one parent table.                    *)
(***************************************************************************)
EXTENDS Canonicalize

MCTables == [0..2 -> -2..3]

Lists == UNION {[1..n -> 0..2] : n \in 0..2}
MCGroups ==
  {[composite |-> c, members |-> [m \in 0..2 |-> IF m \in c THEN f[m] ELSE <<>>]] :
     c \in {0..2, {0, 2}, {1, 2}}, f \in [0..2 -> Lists]}

Vertex(slots, named, weights) == [slots |-> slots, bones |-> named, weights |-> weights]

Document(parentTable, g) ==
  [parents |-> parentTable, composite |-> g.composite, members |-> g.members,
   append |-> [b \in 0..2 |-> CASE b = 0 -> 2 [] b = 1 -> 0 [] OTHER -> 5],
   tail |-> [b \in 0..2 |-> CASE b = 0 -> 1 [] b = 1 -> 3 [] OTHER -> 0],
   after |-> {1},
   ik |-> [b \in 0..2 |-> CASE b = 1 -> [target |-> 2, links |-> <<0, 4, 2>>]
                            [] b = 2 -> [target |-> 0, links |-> <<1>>]
                            [] OTHER -> [target |-> -1, links |-> <<2>>]],
   vertices |-> << Vertex(1, <<1>>, <<>>), Vertex(2, <<2, 0>>, <<3>>), Vertex(2, <<-1, 2>>, <<4>>),
                   Vertex(4, <<0, 1, 2, 2>>, <<2, None, -5, 4>>), Vertex(4, <<-1, -1, 7, -1>>, <<4, 0, 0, 0>>),
                   Vertex(2, <<2, 1>>, <<9>>), Vertex(4, <<1, 0, 2, 0>>, <<4, 0, 1, 0>>) >>,
   boneOffsets |-> <<2, -1, 0>>,
   bodies |-> <<2, -1, 0>>,
   joints |-> << <<1, 3>>, <<0, 2>>, <<2, 2>> >>]

Cyclic == [b \in 0..2 |-> (b + 1) % 3]
Mutual == [composite |-> 0..2, members |-> [m \in 0..2 |-> <<2 - m>>]]

MCDocuments ==
  {Document(t, Mutual) : t \in MCTables} \cup {Document(Cyclic, g) : g \in MCGroups}
=============================================================================
