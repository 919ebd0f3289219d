------------------------------ MODULE PmxReader ------------------------------
(***************************************************************************)
(* The PMX reader of libs/mmdPmx: one pass over the bytes in file order,    *)
(* then the index checks.  A file is its size and globals; what its other  *)
(* bytes hold is chosen when they are read, which is once at most.  Offsets *)
(* count bytes and every field has its width.  What no later step depends   *)
(* on (coordinates, colours, names) is data of a width and no value.        *)
(***************************************************************************)
EXTENDS Integers, FiniteSets, DiagnosticList

CONSTANTS
  Files,       \* files: [size, header, most]; bound: a table t holds most[t] records
  Stored(_),   \* Stored(w): signed values found in an index field of w bytes
  Lengths(_),  \* Lengths(r): text lengths found where r bytes remain
  Counts(_),   \* Counts(k): counts found where k records of the smallest size fit
  BoneFlags,   \* sets of flags bones may have
  None,
  MaxRecords   \* bound: records a list in a record holds

Tables == {"vertices", "faces", "textures", "materials", "bones", "morphs",
           "displayFrames", "rigidBodies", "joints", "softBodies"}

Flags == {"tail", "append", "fixed", "local", "external", "ik"}

\* What _ReadHeader accepts; more is the number of further globals.
Headers == [v21 : BOOLEAN, vec4s : 0..4, more : 0..247, width : [Tables -> {1, 2, 4}]]

ASSUME FilesAssumption ==
  \A f \in Files : f.size \in Nat /\ f.header \in Headers /\ f.most \in [Tables -> Nat]
ASSUME StoredAssumption == \A w \in {1, 2, 4} : Stored(w) \subseteq Int
ASSUME LengthsAssumption == \A f \in Files : \A r \in 0..f.size : Lengths(r) \subseteq Int
ASSUME CountsAssumption ==
  \A f \in Files : \A k \in 0..f.size \cup 0..f.most["faces"] : Counts(k) \subseteq Int
ASSUME BoneFlagsAssumption == BoneFlags \subseteq SUBSET Flags /\ {"tail"} \in BoneFlags
ASSUME MaxRecordsAssumption == MaxRecords \in Nat

VARIABLES
  pc,        \* "header", "read", "check", "done" or "failed"
  file,      \* its size in bytes, its globals, and the bound of each table
  offset,    \* the cursor
  todo,      \* the fields and lists still to read
  table,     \* the table being read
  counts,    \* how many records each table holds
  refs,      \* every index of the document, in file order
  checked,   \* how many of them _Validate has checked
  consumed,  \* face indices drawn by the materials so far
  problems,  \* the diagnostic list
  result,    \* what Read returns: its fatal diagnostic and the others
  said,      \* history: the indices as the file states them
  claimed,   \* history: bytes that accepted counts claim at the least
  raised     \* history: every recoverable diagnostic, in order

vars == <<pc, file, offset, todo, table, counts, refs, checked, consumed, problems,
          result, said, claimed, raised>>

size == file.size
header == file.header
remaining == size - offset

-----------------------------------------------------------------------------
(* Layout: the fields of each record                                       *)

Data(n) == [f |-> "data", n |-> n]
Text == [f |-> "text", n |-> 4]
\* An index into a table; needed where a none is an error.
Index(to, needed) == [f |-> "index", n |-> header.width[to], to |-> to, needed |-> needed]
Ref(to) == Index(to, FALSE)
Face == [f |-> "face", n |-> header.width["vertices"]]
List(of) == [f |-> "list", n |-> 4, of |-> of]
Records(of, left) == [f |-> "records", n |-> 0, of |-> of, left |-> left]
Select(what, n) == [f |-> "select", n |-> n, what |-> what]
FaceCount == [f |-> "faceCount", n |-> 4]

Vertex == <<Data(12 + 12 + 8 + 16 * header.vec4s), Select("deform", 1), Data(4)>>
Material ==
  <<Text, Text, Data(16 + 12 + 4 + 12 + 1 + 16 + 4), Ref("textures"), Ref("textures"),
    Data(1), Select("toon", 1), Text, FaceCount>>
Bone == <<Text, Text, Data(12), Ref("bones"), Data(4), Select("bone", 2)>>
IkLink == <<Ref("bones"), Select("limits", 1)>>
Morph == <<Text, Text, Data(1), Select("morph", 1)>>
GroupOffset == <<Ref("morphs"), Data(4)>>
VertexOffset == <<Ref("vertices"), Data(12)>>
BoneOffset == <<Ref("bones"), Data(12 + 16)>>
UvOffset == <<Ref("vertices"), Data(16)>>
MaterialOffset == <<Ref("materials"), Data(1 + 16 + 12 + 4 + 12 + 16 + 4 + 16 + 16 + 16)>>
ImpulseOffset == <<Ref("rigidBodies"), Data(1 + 12 + 12)>>
DisplayFrame == <<Text, Text, Data(1), List("elements")>>
FrameElement == <<Select("kind", 1)>>
RigidBody == <<Text, Text, Ref("bones"), Data(1 + 2 + 1 + 12 + 12 + 12 + 20 + 1)>>
Joint == <<Text, Text, Data(1), Ref("rigidBodies"), Ref("rigidBodies"), Data(8 * 12)>>
SoftBody ==
  <<Text, Text, Data(1), Ref("materials"), Data(1 + 2 + 1 + 20 + 48 + 24 + 16 + 12),
    List("anchors"), List("pins")>>
SoftBodyAnchor == <<Ref("rigidBodies"), Ref("vertices"), Data(1)>>

Record(of) ==
  CASE of = "vertices" -> Vertex [] of = "faces" -> <<Face>> [] of = "textures" -> <<Text>>
    [] of = "materials" -> Material [] of = "bones" -> Bone [] of = "links" -> IkLink
    [] of = "morphs" -> Morph [] of = "members" -> GroupOffset [] of = "moves" -> VertexOffset
    [] of = "turns" -> BoneOffset [] of = "uvs" -> UvOffset [] of = "shades" -> MaterialOffset
    [] of = "impulses" -> ImpulseOffset [] of = "displayFrames" -> DisplayFrame
    [] of = "elements" -> FrameElement [] of = "rigidBodies" -> RigidBody
    [] of = "joints" -> Joint [] of = "softBodies" -> SoftBody
    [] of = "anchors" -> SoftBodyAnchor [] of = "pins" -> <<Ref("vertices")>>

\* A deform is its type and the influences whose weight is not 0.
Influences(n, weighted) ==
  [k \in 1..n |-> IF k \in weighted THEN Index("bones", TRUE) ELSE Ref("bones")]
Deforms ==
  {<<0, {1}>>} \cup {<<t, w>> : t \in {1, 3}, w \in {{1}, {2}, {1, 2}}}
  \cup {<<t, w>> : t \in {2, 4}, w \in {{}, {1}, 1..4}}

If(flag, flags, fields) == IF flag \in flags THEN fields ELSE <<>>

\* The values a layout byte may have.
LayoutValues(what) ==
  CASE what = "deform" -> {d \in Deforms : d[1] < 4 \/ header.v21}
    [] what = "toon" -> {0, 1}
    [] what = "bone" -> BoneFlags
    [] what = "limits" -> {0, 1}
    [] what = "morph" -> {t \in 0..10 : t < 9 \/ header.v21}
    [] what = "kind" -> {0, 1}

\* The fields that follow a deform's type, a bone's flags and a morph's type.
Deform(v) ==
  CASE v[1] = 0 -> Influences(1, v[2])
    [] v[1] = 1 -> Append(Influences(2, v[2]), Data(4))
    [] v[1] = 3 -> Append(Influences(2, v[2]), Data(4 + 12 + 12 + 12))
    [] OTHER -> Append(Influences(4, v[2]), Data(16))

BoneRest(f) ==
  (IF "tail" \in f THEN <<Ref("bones")>> ELSE <<Data(12)>>)
  \o If("append", f, <<Ref("bones"), Data(4)>>)
  \o If("fixed", f, <<Data(12)>>) \o If("local", f, <<Data(12), Data(12)>>)
  \o If("external", f, <<Data(4)>>)
  \o If("ik", f, <<Ref("bones"), Data(4 + 4), List("links")>>)

Offsets(type) ==
  <<List(CASE type \in {0, 9} -> "members" [] type = 1 -> "moves" [] type = 2 -> "turns"
           [] type \in 3..7 -> "uvs" [] type = 8 -> "shades" [] type = 10 -> "impulses")>>

Chosen(what, v) ==
  CASE what = "deform" -> Deform(v) [] what = "bone" -> BoneRest(v) [] what = "morph" -> Offsets(v)
    [] what = "toon" -> IF v = 0 THEN <<Ref("textures")>> ELSE <<Data(1)>>
    [] what = "limits" -> IF v = 1 THEN <<Data(12), Data(12)>> ELSE <<>>
    [] what = "kind" -> IF v = 0 THEN <<Ref("bones")>> ELSE <<Ref("morphs")>>

\* Faulty variant of MinimumOf: a material's toon is taken for a texture index.
MinimumLarger(of) ==
  IF of = "materials" THEN 8 + 65 + 3 * header.width["textures"] + 1 + 1 + 4 + 4 ELSE 4

\* minimumRecordSize of each table and list.
MinimumOf(of) ==
  LET w == header.width IN
  CASE of = "vertices" -> 12 + 12 + 8 + 16 * header.vec4s + 1 + w["bones"] + 4
    [] of = "faces" -> w["vertices"]
    [] of = "textures" -> 4
    [] of = "materials" -> 8 + (16 + 12 + 4 + 12 + 1 + 16 + 4) + 2 * w["textures"] + 1 + 1 + 1 + 4 + 4
    [] of = "bones" -> 8 + 12 + w["bones"] + 4 + 2 + w["bones"]
    [] of = "links" -> w["bones"] + 1
    [] of = "morphs" -> 8 + 1 + 1 + 4
    [] of = "members" -> w["morphs"] + 4
    [] of = "moves" -> w["vertices"] + 12
    [] of = "turns" -> w["bones"] + 28
    [] of = "uvs" -> w["vertices"] + 16
    [] of = "shades" -> w["materials"] + 113
    [] of = "impulses" -> w["rigidBodies"] + 25
    [] of = "displayFrames" -> 8 + 1 + 4
    [] of = "elements" -> 1 + Min({w["bones"], w["morphs"]})
    [] of = "rigidBodies" -> 8 + w["bones"] + 1 + 2 + 1 + 36 + 20 + 1
    [] of = "joints" -> 8 + 1 + 2 * w["rigidBodies"] + 96
    [] of = "softBodies" -> 8 + 1 + w["materials"] + 1 + 2 + 1 + 20 + 100 + 4 + 4
    [] of = "anchors" -> w["rigidBodies"] + w["vertices"] + 1
    [] of = "pins" -> w["vertices"]

TableOrder == <<"vertices", "faces", "textures", "materials", "bones", "morphs", "displayFrames",
                "rigidBodies", "joints">>

\* Run after the header: the model's four texts, then the tables.
Body ==
  <<Text, Text, Text, Text>> \o [i \in DOMAIN TableOrder |-> List(TableOrder[i])]
  \o (IF header.v21 THEN <<List("softBodies")>> ELSE <<>>)

-----------------------------------------------------------------------------
(* Reading                                                                  *)

\* A vertex index is unsigned at widths 1 and 2, every other index signed.
Decoded(to, w, v) ==
  IF to # "vertices" \/ v >= 0 \/ w = 4 THEN v ELSE v + (IF w = 1 THEN 256 ELSE 65536)

NoIndex == -1
\* Faulty variant of OutOfRange: the index after the last is one of the table.
OutOfRangeByOne(i, n) == i < NoIndex \/ i > n

OutOfRange(i, n) == i < NoIndex \/ i >= n
VertexOutOfRange(i, n) == i < 0 \/ i >= n

Reads(f) == pc = "read" /\ todo # <<>> /\ todo[1].f = f

\* What a failed Read returns: the fatal diagnostic and those before it.
Fatal(code, about) ==
  /\ pc' = "failed"
  /\ result' = [fatal |-> code, about |-> about, list |-> Taken(problems)]
  /\ UNCHANGED <<file, todo, table, counts, refs, checked, consumed, problems,
                 said, claimed, raised>>

Report(code, where) ==
  problems' = Added(problems, code, where) /\ raised' = Append(raised, <<code, where>>)
Silent == UNCHANGED <<problems, raised>>

\* The file cannot be opened, sized or read.
Unreadable == pc = "header" /\ Fatal("FILE_UNREADABLE", None) /\ UNCHANGED offset

SignatureSize == 4
GlobalsAt == 9   \* signature, version, count

\* _ReadHeader accepts: the globals it needs, and any further ones.
ReadHeader ==
  /\ pc = "header" /\ size >= GlobalsAt + 8 + header.more
  /\ pc' = "read"
  /\ offset' = GlobalsAt + 8 + header.more
  /\ todo' = Body /\ table' = "model"
  /\ IF header.more > 0 THEN Report("UNKNOWN_GLOBALS", "header") ELSE Silent
  /\ UNCHANGED <<file, counts, refs, checked, consumed, result, said, claimed>>

\* _ReadHeader refuses: bytes that are no PMX, too few of them, or values no
\* global may have.
RefuseHeader ==
  /\ pc = "header"
  /\ \/ Fatal("BAD_SIGNATURE", None)
     \/ size > 0 /\ size < GlobalsAt + 255 /\ Fatal("TRUNCATED_BUFFER", None)
     \/ size >= SignatureSize + 4 /\ Fatal("UNSUPPORTED_VERSION", None)
     \/ size >= GlobalsAt /\ Fatal("INVALID_GLOBALS", None)
     \/ /\ size >= GlobalsAt + 8
        /\ \/ Fatal("INVALID_ENCODING_FLAG", None)
           \/ Fatal("INVALID_INDEX_SIZE", None)
  /\ UNCHANGED offset

\* Faulty variant of Missing: a field may end one byte after the file.
MissingLate == remaining + 1 < todo[1].n

Missing == remaining < todo[1].n

\* A field that the file ends in is fatal, and so is all that follows it.
Truncated ==
  /\ pc = "read" /\ todo # <<>> /\ Missing
  /\ Fatal("TRUNCATED_BUFFER", None) /\ UNCHANGED offset

ReadData ==
  /\ Reads("data") /\ ~Missing
  /\ offset' = offset + todo[1].n /\ todo' = Tail(todo)
  /\ Silent
  /\ UNCHANGED <<pc, file, table, counts, refs, checked, consumed, result, said, claimed>>

\* _Text: a length, then that many bytes; undecodable text is read as empty.
ReadText(n, decodes) ==
  /\ Reads("text") /\ ~Missing
  /\ IF n < 0 \/ n > remaining - 4
     THEN Fatal("COUNT_EXCEEDS_BUFFER", None) /\ offset' = offset + 4
     ELSE /\ offset' = offset + 4 + n /\ todo' = Tail(todo)
          /\ IF decodes THEN Silent ELSE n > 0 /\ Report("TEXT_INVALID", table)
          /\ UNCHANGED <<pc, file, table, counts, refs, checked, consumed, result, said, claimed>>

\* Its range is checked once every table is read.
ReadIndex(v) ==
  /\ Reads("index") /\ ~Missing
  /\ LET x == todo[1]
         r == [table |-> table, to |-> x.to, needed |-> x.needed, value |-> Decoded(x.to, x.n, v)]
     IN  refs' = Append(refs, r) /\ said' = Append(said, r)
  /\ offset' = offset + todo[1].n /\ todo' = Tail(todo)
  /\ Silent
  /\ UNCHANGED <<pc, file, table, counts, checked, consumed, result, claimed>>

\* A face's index is checked at once: dropping a face would shift the materials'.
ReadFace(v) ==
  /\ Reads("face") /\ ~Missing
  /\ offset' = offset + todo[1].n
  /\ IF VertexOutOfRange(Decoded("vertices", todo[1].n, v), counts["vertices"])
     THEN Fatal("FACE_INDEX_OUT_OF_RANGE", None)
     ELSE /\ todo' = Tail(todo) /\ Silent
          /\ UNCHANGED <<pc, file, table, counts, refs, checked, consumed, result, said, claimed>>

\* Faulty variant of Fits: any count that is not negative.
FitsAny(n, of, room) == n \in Nat

\* _Count accepts what the bytes left can hold at the least.
Fits(n, of, room) == n \in 0..(room \div MinimumOf(of))

\* The least a record can take, from its layout.
Sizes(fields) == [i \in DOMAIN fields |-> fields[i].n]
LeastSize(x) ==
  IF x.f = "select" THEN x.n + Min({Total(Sizes(Chosen(x.what, v))) : v \in LayoutValues(x.what)})
  ELSE x.n
Least(fields) == [i \in DOMAIN fields |-> LeastSize(fields[i])]
Smallest(of) == Total(Least(Record(of)))

\* A count is accepted, and room for its records made, or it ends the reading.
ReadCount(n) ==
  /\ Reads("list") /\ ~Missing
  /\ offset' = offset + 4
  /\ LET of == todo[1].of IN
     IF ~Fits(n, of, remaining - 4)
     THEN Fatal("COUNT_EXCEEDS_BUFFER", [of |-> of, n |-> n])
     ELSE IF of = "faces" /\ n % 3 # 0
     THEN Fatal("FACE_COUNT_NOT_TRIANGLES", None)
     ELSE /\ n <= IF of \in Tables THEN file.most[of] ELSE MaxRecords
          /\ todo' = <<Records(of, n)>> \o Tail(todo)
          /\ claimed' = claimed + n * Smallest(of)
          /\ IF of \in Tables
             THEN table' = of /\ counts' = [counts EXCEPT ![of] = n]
             ELSE UNCHANGED <<table, counts>>
          /\ Silent /\ UNCHANGED <<pc, file, refs, checked, consumed, result, said>>

\* The next record of a list.
NextRecord ==
  /\ Reads("records") /\ todo[1].left > 0
  /\ todo' = Record(todo[1].of) \o <<Records(todo[1].of, todo[1].left - 1)>> \o Tail(todo)
  /\ Silent
  /\ UNCHANGED <<pc, file, offset, table, counts, refs, checked, consumed, result, said, claimed>>

\* Face indices no material draws are reported when the last material is read.
EndOfList ==
  /\ Reads("records") /\ todo[1].left = 0
  /\ todo' = Tail(todo)
  /\ IF todo[1].of = "materials" /\ consumed < counts["faces"]
     THEN Report("MATERIAL_FACES_SHORT", "materials") ELSE Silent
  /\ UNCHANGED <<pc, file, offset, table, counts, refs, checked, consumed, result, said, claimed>>

\* A byte that selects the layout of what follows; a value PMX does not define
\* leaves the record's length unknown.  Any bone flags have a layout.
ReadSelect(v) ==
  /\ Reads("select") /\ ~Missing
  /\ v \in LayoutValues(todo[1].what)
  /\ offset' = offset + todo[1].n
  /\ todo' = Chosen(todo[1].what, v) \o Tail(todo)
  /\ Silent
  /\ UNCHANGED <<pc, file, table, counts, refs, checked, consumed, result, said, claimed>>

RefuseSelect ==
  /\ Reads("select") /\ ~Missing /\ todo[1].what # "bone"
  /\ offset' = offset + todo[1].n
  /\ Fatal(CASE todo[1].what = "deform" -> "INVALID_DEFORM_TYPE"
             [] todo[1].what = "morph" -> "INVALID_MORPH_TYPE"
             [] OTHER -> "INVALID_LAYOUT_FLAG", None)

\* Faulty variant of Left: every material may draw the whole table.
LeftWhole == counts["faces"]

Left == counts["faces"] - consumed

\* A material draws the next face indices, whole triangles of those left.
ReadFaceCount(n) ==
  /\ Reads("faceCount") /\ ~Missing
  /\ offset' = offset + 4
  /\ IF n < 0 \/ n % 3 # 0 \/ n > Left
     THEN Fatal("MATERIAL_FACES_EXCEED_TABLE", None)
     ELSE /\ consumed' = consumed + n /\ todo' = Tail(todo)
          /\ Silent
          /\ UNCHANGED <<pc, file, table, counts, refs, checked, result, said, claimed>>

\* _ReadEnd: bytes after the last table are ignored and reported.
ReadEnd ==
  /\ pc = "read" /\ todo = <<>>
  /\ pc' = "check"
  /\ IF remaining > 0 THEN Report("TRAILING_BYTES", "") ELSE Silent
  /\ UNCHANGED <<file, offset, todo, table, counts, refs, checked, consumed, result, said, claimed>>

-----------------------------------------------------------------------------
(* _Validate                                                                *)

Rejected(r) ==
  IF r.to = "vertices" THEN VertexOutOfRange(r.value, counts[r.to])
  ELSE OutOfRange(r.value, counts[r.to])

\* An index that names nothing becomes none; a none that must name something
\* is reported.
CheckIndex ==
  /\ pc = "check" /\ checked < Len(refs)
  /\ checked' = checked + 1
  /\ LET r == refs[checked + 1] IN
     /\ refs' = IF Rejected(r) THEN [refs EXCEPT ![checked + 1].value = NoIndex] ELSE refs
     /\ IF Rejected(r) \/ (r.needed /\ r.value = NoIndex)
        THEN Report("INDEX_OUT_OF_RANGE", r.table) ELSE Silent
  /\ UNCHANGED <<pc, file, offset, todo, table, counts, consumed, result, said, claimed>>

\* Success: the document and its diagnostics.
Succeed ==
  /\ pc = "check" /\ checked = Len(refs)
  /\ pc' = "done"
  /\ result' = [fatal |-> None, about |-> None, list |-> Taken(problems)]
  /\ Silent
  /\ UNCHANGED <<file, offset, todo, table, counts, refs, checked, consumed, said, claimed>>

Init ==
  /\ pc = "header" /\ file \in Files /\ offset = 0
  /\ todo = <<>> /\ table = "header" /\ counts = [t \in Tables |-> 0]
  /\ refs = <<>> /\ checked = 0 /\ consumed = 0
  /\ problems = NoDiagnostics /\ result = None
  /\ said = <<>> /\ claimed = 0 /\ raised = <<>>

Next ==
  \/ Unreadable \/ RefuseHeader \/ ReadHeader
  \/ Truncated \/ ReadData
  \/ \E n \in Lengths(remaining - 4), decodes \in BOOLEAN : ReadText(n, decodes)
  \/ Reads("index") /\ \E v \in Stored(todo[1].n) : ReadIndex(v)
  \/ Reads("face") /\ \E v \in Stored(todo[1].n) : ReadFace(v)
  \/ Reads("list") /\ \E n \in Counts((remaining - 4) \div MinimumOf(todo[1].of)) : ReadCount(n)
  \/ NextRecord \/ EndOfList
  \/ Reads("select") /\ \E v \in LayoutValues(todo[1].what) : ReadSelect(v)
  \/ RefuseSelect
  \/ Reads("faceCount") /\ \E n \in Counts(Left) : ReadFaceCount(n)
  \/ ReadEnd \/ CheckIndex \/ Succeed

Spec == Init /\ [][Next]_vars

-----------------------------------------------------------------------------
(* Properties *)

\* No count is refused that some file of this size could honour: the smallest
\* record the layout allows is the one the reader counts with.
OnlyImpossibleCountsAreRefused ==
  pc = "failed" /\ result.about # None /\ result.about.n >= 0 =>
    result.about.n * Smallest(result.about.of) > remaining

\* Whatever the file promises, the cursor stays within it, and what accepted
\* counts claim is bounded by it: lists in lists included, at most twice its bytes.
AllocationIsBounded == offset <= size /\ claimed <= 2 * size

\* After a success every index names an element of the table it points into,
\* wherever in the file that table is, or is none; one that names an element is
\* as the file states it.
IndicesAreResolved ==
  pc = "done" =>
    \A i \in DOMAIN refs :
      LET v == said[i].value
          names == v >= 0 /\ v < counts[said[i].to]
      IN  refs[i].value = IF names THEN v ELSE NoIndex

\* The materials draw whole triangles, one after another, of the faces there
\* are, and what they leave is reported.
MaterialsDrawTheFaces ==
  pc = "done" =>
    /\ counts["faces"] % 3 = 0 /\ consumed % 3 = 0 /\ consumed <= counts["faces"]
    /\ consumed < counts["faces"] <=> <<"MATERIAL_FACES_SHORT", "materials">> \in Range(raised)

\* Every diagnostic raised is accounted for, whether Read fails or not: up to
\* the limit each one of a code in a table is listed, the rest is one number
\* after all of them.
DiagnosticsAreAccounted ==
  result # None =>
    LET Of(p) == {i \in DOMAIN raised : raised[i] = p}
        Listed(p) == {i \in DOMAIN result.list : <<result.list[i].code, result.list[i].table>> = p
                                                 /\ result.list[i].more = 0}
        Summed(p) == {i \in DOMAIN result.list : <<result.list[i].code, result.list[i].table>> = p
                                                 /\ result.list[i].more > 0}
    IN  \A p \in Range(raised) :
          LET n == Cardinality(Of(p)) IN
          /\ Cardinality(Listed(p)) = IF n < Limit THEN n ELSE Limit
          /\ Cardinality(Summed(p)) = IF n > Limit THEN 1 ELSE 0
          /\ \A i \in Summed(p) : /\ result.list[i].more = n - Limit
                                  /\ \A q \in Range(raised) : \A k \in Listed(q) : k < i
=============================================================================
