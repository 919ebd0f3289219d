--------------------------- MODULE MCMorphChannels ---------------------------
(***************************************************************************)
(* Five morphs: three groups, or two and a flip, that list two or less of   *)
(* the others, a bone morph or one whose offset is out of range, and one    *)
(* with offsets.                                                            *)
(***************************************************************************)
EXTENDS MorphChannels

Lists(m) == {<<>>, <<3>>} \cup {<<a, b>> : a \in (0..2) \ {m}, b \in 0..4}
MCGroups ==
  {[composite |-> 0..2, members |-> [m \in 0..4 |-> IF m <= 2 THEN f[m] ELSE <<>>]] :
     f \in {g \in [0..2 -> Lists(0) \cup Lists(1) \cup Lists(2)] : \A m \in 0..2 : g[m] \in Lists(m)}}
MCKinds ==
  {<<"group", "group", "group", "bone", "material">>, <<"group", "group", "group", "material", "uv">>,
   <<"group", "flip", "group", "bone", "uv1">>, <<"group", "flip", "group", "uv", "material">>}
KindsFromZero == {[m \in 0..4 |-> k[m + 1]] : k \in MCKinds}
MCRatio == [g \in 0..4 |-> [m \in 0..4 |-> IF m = 3 THEN 2 ELSE IF g = 1 /\ m = 4 THEN -1 ELSE 1]]

Track(morph, weight) == [morph |-> morph, weight |-> weight]
MCMotions ==
  {<<Track(2, 1), Track(0, 3), Track(9, 1)>>, <<Track(1, 1), Track(3, 1), Track(4, 2), Track(1, 1)>>}
MCChannels == {<<Track(0, 0), Track(3, 1), Track(-1, 4)>>}

Uv(vertex, delta) == [vertex |-> vertex, delta |-> delta]
Material(material, operation, value) ==
  [material |-> material, operation |-> operation, value |-> value]
MCUvOffsets == 
  [m \in 0..4 |-> CASE m = 4 -> <<Uv(0, 1), Uv(2, 3), Uv(0, 2)>> [] m = 3 -> <<Uv(3, 1)>> [] OTHER -> <<>>]
MCMaterialOffsets ==
  [m \in 0..4 |-> CASE m = 4 -> <<Material(1, "multiply", 3), Material(-1, "add", 2)>>
                     [] m = 3 -> <<Material(0, "add", 1), Material(2, "add", 1)>> [] OTHER -> <<>>]
=============================================================================
