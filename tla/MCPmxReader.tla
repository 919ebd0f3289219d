---------------------------- MODULE MCPmxReader ----------------------------
(***************************************************************************)
(* Files of a few records: the empty model and what is short of it, and,    *)
(* for each relation between tables, a file just large enough to hold both  *)
(* its ends.                                                                *)
(***************************************************************************)
EXTENDS PmxReader, TLC

Header(v21, vec4s, more, w, wide) ==
  [v21 |-> v21, vec4s |-> vec4s, more |-> more,
   width |-> [t \in Tables |-> IF t \in wide THEN 4 ELSE w]]

Narrow == Header(FALSE, 0, 0, 1, {})
Wide == Header(FALSE, 1, 1, 2, {"bones", "textures"})
New == Header(TRUE, 0, 0, 1, {"materials", "morphs"})

\* The header, four empty texts and the counts of empty tables.
Empty(h) == 17 + h.more + 16 + (IF h.v21 THEN 40 ELSE 36)

File(h, bytes, most) ==
  [header |-> h, size |-> bytes, most |-> most @@ [t \in Tables |-> 0]]
Holding(h, bytes, most) == File(h, Empty(h) + bytes, most)

MCFiles ==
  {File(h, bytes, "joints" :> 3) :
     h \in {Narrow, Wide, New}, bytes \in {0, 3, 8, 16, 18, 34, 69, 70, 73}}
  \cup
  { Holding(Narrow, 68, "vertices" :> 1 @@ "bones" :> 1),
    Holding(New, 77, "vertices" :> 1),
    Holding(Wide, 62, "vertices" :> 1),
    Holding(Narrow, 98, "bones" :> 1),
    Holding(Narrow, 56, "bones" :> 2),
    Holding(Wide, 75, "bones" :> 1),
    Holding(Narrow, 56, "bones" :> 1 @@ "morphs" :> 1),
    Holding(Wide, 86, "vertices" :> 1 @@ "morphs" :> 1),
    Holding(New, 220, "materials" :> 1 @@ "morphs" :> 1),
    Holding(New, 111, "rigidBodies" :> 1 @@ "morphs" :> 1),
    Holding(Narrow, 91, "materials" :> 1 @@ "textures" :> 1),
    Holding(Wide, 73, "materials" :> 1),
    Holding(Wide, 247, "vertices" :> 1 @@ "faces" :> 3 @@ "materials" :> 2),
    Holding(Wide, 54, "displayFrames" :> 1 @@ "bones" :> 1),
    Holding(Narrow, 33, "displayFrames" :> 1 @@ "morphs" :> 1),
    Holding(Narrow, 180, "rigidBodies" :> 1 @@ "joints" :> 1),
    Holding(New, 155, "softBodies" :> 1) }

MCBoneFlags ==
  {{f} : f \in Flags} \cup {{}, {"tail", "append"}, {"local", "ik"}, {"tail", "ik"}, Flags}
MCStored(w) == CASE w = 1 -> {-1, 0, 1} [] w = 2 -> {-2, 0, 1} [] w = 4 -> {-2, 0}
MCLengths(r) == {-1, 0, r + 1} \cup (IF r <= 40 THEN {1} ELSE {r})
MCCounts(k) == {-1, 0, 1, 2, 3, k, k + 1}
=============================================================================
