--------------------------- MODULE PmxReaderProofs ---------------------------
(***************************************************************************)
(* For files of any size and content: the document of a successful read     *)
(* names only elements of its tables, and those the file states; materials  *)
(* draw whole triangles of the faces there are; a count is refused only     *)
(* where the bytes left cannot hold its records, and what the others claim  *)
(* is bounded by the file; every diagnostic is accounted for.               *)
(***************************************************************************)
EXTENDS PmxReader, Induction

Lists == Tables \cup {"links", "members", "moves", "turns", "uvs", "shades", "impulses",
                      "elements", "anchors", "pins"}
Widths == {1, 2, 4}

\* What may stand in todo.
Fields ==
  [f : {"data"}, n : Nat] \cup [f : {"text", "faceCount"}, n : {4}]
  \cup [f : {"index"}, n : Widths, to : Tables, needed : BOOLEAN]
  \cup [f : {"face"}, n : Widths] \cup [f : {"list"}, n : {4}, of : Lists]
  \cup [f : {"records"}, n : {0}, of : Lists, left : Nat]
  \cup [f : {"select"}, n : {1, 2},
        what : {"deform", "toon", "bone", "limits", "morph", "kind"}]

HeaderOK == header \in Headers

\* The fields that the drawing of faces turns on, and the others.
IsMaterials(x) == x.f \in {"list", "records"} /\ x.of = "materials"
IsFaces(x) == x.f = "list" /\ x.of = "faces"
IsDraw(x) == x.f = "faceCount"
Plain == {x \in Fields : ~IsMaterials(x) /\ ~IsFaces(x) /\ ~IsDraw(x)}

\* The lists of the file itself, and the fields whose size is their width.
IsTable(x) == x.f = "list" /\ x.of \in Tables
Simple == {x \in Plain : x.f \notin {"select", "records"} /\ ~IsTable(x)}

\* Each kind of field is one, and most are plain.
LEMMA FieldTypes ==
  ASSUME HeaderOK
  PROVE  /\ \A n \in Nat : Data(n) \in Plain
         /\ Text \in Plain /\ Face \in Plain /\ FaceCount \in Fields
         /\ \A to \in Tables, needed \in BOOLEAN : Index(to, needed) \in Plain
         /\ \A to \in Tables : Ref(to) \in Plain
         /\ \A of \in Lists : List(of) \in Fields
         /\ \A of \in Lists \ {"faces", "materials"} : List(of) \in Plain
         /\ \A of \in Lists, left \in Nat : Records(of, left) \in Fields
         /\ \A of \in Lists \ {"materials"}, left \in Nat : Records(of, left) \in Plain
         /\ \A what \in {"deform", "toon", "bone", "limits", "morph", "kind"}, n \in {1, 2} :
              Select(what, n) \in Plain
         /\ \A n \in Nat : Data(n) \in Simple
         /\ \A to \in Tables, needed \in BOOLEAN : Index(to, needed) \in Simple
         /\ \A to \in Tables : Ref(to) \in Simple
         /\ \A of \in Lists \ Tables : List(of) \in Simple
<1> USE DEF Plain, IsMaterials, IsFaces, IsDraw
<1>1. header.width \in [Tables -> Widths]
  BY DEF HeaderOK, Headers, Widths
<1>2. \A to \in Tables : header.width[to] \in Widths /\ header.width["vertices"] \in Widths
  BY <1>1 DEF Tables
<1>3. \A n \in Nat : Data(n) \in Plain
  BY DEF Data, Fields
<1>4. Text \in Plain /\ FaceCount \in Fields
  BY DEF Text, FaceCount, Fields
<1>5. Face \in Plain
  BY <1>2 DEF Face, Fields, Tables
<1>6. \A to \in Tables, needed \in BOOLEAN : Index(to, needed) \in Plain
  BY <1>2 DEF Index, Fields
<1>7. \A to \in Tables : Ref(to) \in Plain
  BY <1>6 DEF Ref
<1>8. /\ \A of \in Lists : List(of) \in Fields
      /\ \A of \in Lists \ {"faces", "materials"} : List(of) \in Plain
      /\ \A of \in Lists, left \in Nat : Records(of, left) \in Fields
      /\ \A of \in Lists \ {"materials"}, left \in Nat : Records(of, left) \in Plain
  BY DEF List, Records, Fields
<1>9. \A what \in {"deform", "toon", "bone", "limits", "morph", "kind"}, n \in {1, 2} :
        Select(what, n) \in Plain
  BY DEF Select, Fields
<1>10. /\ \A n \in Nat : Data(n) \in Simple
       /\ \A to \in Tables, needed \in BOOLEAN : Index(to, needed) \in Simple
  BY <1>3, <1>6 DEF Simple, Data, Index, IsTable
<1>11. \A to \in Tables : Ref(to) \in Simple
  BY <1>10 DEF Ref
<1>12. \A of \in Lists \ Tables : List(of) \in Simple
  <2>1. "faces" \in Tables /\ "materials" \in Tables
    BY DEF Tables
  <2> QED BY <1>8, <2>1 DEF Simple, List, IsTable
<1> QED BY <1>3, <1>4, <1>5, <1>6, <1>7, <1>8, <1>9, <1>10, <1>11, <1>12

LEMMA PlainFields == Seq(Plain) \subseteq Seq(Fields)
BY DEF Plain

\* The fields of a material before the faces it draws.
MaterialStart ==
  <<Text, Text, Data(16 + 12 + 4 + 12 + 1 + 16 + 4), Ref("textures"), Ref("textures"),
    Data(1), Select("toon", 1), Text>>

\* Every record is a sequence of plain fields, but a material, which ends in
\* the faces it draws.
LEMMA RecordTypes ==
  ASSUME HeaderOK
  PROVE  /\ \A of \in Lists \ {"materials"} : Record(of) \in Seq(Plain)
         /\ MaterialStart \in Seq(Plain)
         /\ Record("materials") = MaterialStart \o <<FaceCount>>
<1>1. Vertex \in Seq(Plain)
  <2>1. 12 + 12 + 8 + 16 * header.vec4s \in Nat
    BY DEF HeaderOK, Headers
  <2> QED BY <2>1, FieldTypes DEF Vertex
<1>2. /\ Bone \in Seq(Plain) /\ IkLink \in Seq(Plain)
      /\ Morph \in Seq(Plain) /\ DisplayFrame \in Seq(Plain) /\ FrameElement \in Seq(Plain)
  BY FieldTypes DEF Bone, IkLink, Morph, DisplayFrame, FrameElement, Tables, Lists
<1>3. /\ GroupOffset \in Seq(Plain) /\ VertexOffset \in Seq(Plain)
      /\ BoneOffset \in Seq(Plain) /\ UvOffset \in Seq(Plain)
      /\ MaterialOffset \in Seq(Plain) /\ ImpulseOffset \in Seq(Plain)
  BY FieldTypes DEF GroupOffset, VertexOffset, BoneOffset, UvOffset, MaterialOffset, ImpulseOffset, Tables
<1>4. /\ RigidBody \in Seq(Plain) /\ Joint \in Seq(Plain) /\ SoftBody \in Seq(Plain)
      /\ SoftBodyAnchor \in Seq(Plain)
  BY FieldTypes DEF RigidBody, Joint, SoftBody, SoftBodyAnchor, Tables, Lists
<1>5. <<Face>> \in Seq(Plain) /\ <<Text>> \in Seq(Plain) /\ <<Ref("vertices")>> \in Seq(Plain)
  BY FieldTypes DEF Tables
<1>6. MaterialStart \in Seq(Plain)
  BY FieldTypes DEF MaterialStart, Tables
<1>7. Record("materials") = MaterialStart \o <<FaceCount>>
  BY DEF Record, Material, MaterialStart
<1>8. \A of \in Lists \ {"materials"} : Record(of) \in Seq(Plain)
  BY <1>1, <1>2, <1>3, <1>4, <1>5 DEF Record, Lists, Tables
<1> QED BY <1>6, <1>7, <1>8

LEMMA RecordFields == HeaderOK => \A of \in Lists : Record(of) \in Seq(Fields)
<1> SUFFICES ASSUME HeaderOK, NEW of \in Lists PROVE Record(of) \in Seq(Fields)
  OBVIOUS
<1>1. CASE of = "materials"
  <2>1. <<FaceCount>> \in Seq(Fields) /\ MaterialStart \in Seq(Fields)
    BY FieldTypes, RecordTypes, PlainFields
  <2> QED BY <1>1, <2>1, RecordTypes, ConcatProperties
<1>2. CASE of # "materials"
  BY <1>2, RecordTypes, PlainFields
<1> QED BY <1>1, <1>2

\* What a layout byte chooses is a sequence of fields of a known size.
LEMMA ChosenTypes ==
  ASSUME HeaderOK, NEW what \in {"deform", "toon", "bone", "limits", "morph", "kind"},
         NEW v \in LayoutValues(what)
  PROVE  Chosen(what, v) \in Seq(Simple) /\ Chosen(what, v) \in Seq(Plain)
<1>5. Seq(Simple) \subseteq Seq(Plain)
  BY DEF Simple
<1> SUFFICES Chosen(what, v) \in Seq(Simple)
  BY <1>5
<1>1. CASE what = "deform"
  <2>1. \A n \in Nat : \A w : Influences(n, w) \in Seq(Simple)
    <3>1. Index("bones", TRUE) \in Simple /\ Ref("bones") \in Simple
      BY FieldTypes DEF Tables
    <3> TAKE n \in Nat
    <3> TAKE w
    <3>2. Influences(n, w) \in [1..n -> Simple]
      BY <3>1 DEF Influences
    <3> QED BY <3>2
  <2>2. /\ Append(Influences(2, v[2]), Data(4)) \in Seq(Simple)
        /\ Append(Influences(2, v[2]), Data(4 + 12 + 12 + 12)) \in Seq(Simple)
        /\ Append(Influences(4, v[2]), Data(16)) \in Seq(Simple)
        /\ Influences(1, v[2]) \in Seq(Simple)
    BY <2>1, FieldTypes
  <2>3. Deform(v) \in Seq(Simple)
    BY <2>2 DEF Deform
  <2> QED BY <1>1, <2>3 DEF Chosen
<1>2. CASE what = "bone"
  <2>1. /\ <<Ref("bones")>> \in Seq(Simple) /\ <<Data(12)>> \in Seq(Simple)
        /\ <<Ref("bones"), Data(4)>> \in Seq(Simple) /\ <<Data(12), Data(12)>> \in Seq(Simple)
        /\ <<Data(4)>> \in Seq(Simple)
        /\ <<Ref("bones"), Data(4 + 4), List("links")>> \in Seq(Simple)
        /\ <<>> \in Seq(Simple)
    BY FieldTypes DEF Tables, Lists
  <2>2. /\ (IF "tail" \in v THEN <<Ref("bones")>> ELSE <<Data(12)>>) \in Seq(Simple)
        /\ If("append", v, <<Ref("bones"), Data(4)>>) \in Seq(Simple)
        /\ If("fixed", v, <<Data(12)>>) \in Seq(Simple)
        /\ If("local", v, <<Data(12), Data(12)>>) \in Seq(Simple)
        /\ If("external", v, <<Data(4)>>) \in Seq(Simple)
        /\ If("ik", v, <<Ref("bones"), Data(4 + 4), List("links")>>) \in Seq(Simple)
    BY <2>1 DEF If
  <2>3. \A s, t \in Seq(Simple) : s \o t \in Seq(Simple)
    BY ConcatProperties
  <2>4. BoneRest(v) \in Seq(Simple)
    BY <2>2, <2>3, Zenon DEF BoneRest
  <2> QED BY <1>2, <2>4 DEF Chosen
<1>3. CASE what = "morph"
  <2>1. v \in 0..10
    BY <1>3 DEF LayoutValues
  <2>2. Offsets(v) \in Seq(Simple)
    <3>1. \A of \in Lists \ Tables : <<List(of)>> \in Seq(Simple)
      BY FieldTypes
    <3> QED BY <2>1, <3>1 DEF Offsets, Lists, Tables
  <2> QED BY <1>3, <2>2 DEF Chosen
<1>4. CASE what = "toon" \/ what = "limits" \/ what = "kind"
  <2>1. /\ <<Ref("textures")>> \in Seq(Simple) /\ <<Data(1)>> \in Seq(Simple)
        /\ <<Data(12), Data(12)>> \in Seq(Simple) /\ <<>> \in Seq(Simple)
        /\ <<Ref("bones")>> \in Seq(Simple) /\ <<Ref("morphs")>> \in Seq(Simple)
    BY FieldTypes DEF Tables
  <2> QED BY <1>4, <2>1 DEF Chosen
<1> QED BY <1>1, <1>2, <1>3, <1>4

\* The file after its header is a sequence of fields.
LEMMA BodyTypes == HeaderOK => Body \in Seq(Fields)
<1> SUFFICES ASSUME HeaderOK PROVE Body \in Seq(Fields)
  OBVIOUS
<1>1. <<Text, Text, Text, Text>> \in Seq(Fields)
  BY FieldTypes DEF Plain
<1>2. [i \in DOMAIN TableOrder |-> List(TableOrder[i])] \in Seq(Fields)
  <2>1. DOMAIN TableOrder = 1..9 /\ \A i \in 1..9 : TableOrder[i] \in Lists
    BY DEF TableOrder, Lists, Tables
  <2> QED BY <2>1, FieldTypes
<1>3. (IF header.v21 THEN <<List("softBodies")>> ELSE <<>>) \in Seq(Fields)
  BY FieldTypes DEF Lists, Tables
<1> QED BY <1>1, <1>2, <1>3, ConcatProperties DEF Body

-----------------------------------------------------------------------------
(* The invariant *)

Pcs == {"header", "read", "check", "done", "failed"}

Refs == [table : Tables \cup {"header", "model"}, to : Tables, needed : BOOLEAN, value : Int]

\* The state has its types; no index is checked while the file is read.
ReadInv ==
  /\ pc \in Pcs /\ file \in Files /\ todo \in Seq(Fields)
  /\ table \in Tables \cup {"header", "model"} /\ counts \in [Tables -> Nat]
  /\ refs \in Seq(Refs) /\ said \in Seq(Refs) /\ Len(refs) = Len(said)
  /\ checked \in 0..Len(refs)
  /\ pc \in {"header", "read"} => checked = 0
  /\ pc = "done" => checked = Len(refs)

\* What the index i of the file stands for.
Meaning(i) ==
  IF said[i].value >= 0 /\ said[i].value < counts[said[i].to] THEN said[i].value ELSE NoIndex

\* Indices checked are what they mean, the others what the file states.
SplitInv ==
  \A i \in 1..Len(refs) :
    /\ refs[i].to = said[i].to
    /\ refs[i].value = IF i <= checked THEN Meaning(i) ELSE said[i].value

IndexInv == ReadInv /\ SplitInv

LEMMA HeaderTypes == file \in Files => HeaderOK /\ size \in Nat
BY FilesAssumption DEF HeaderOK, header, size

LEMMA InitIndices == Init => IndexInv
BY DEF Init, IndexInv, ReadInv, SplitInv, Pcs, Tables

\* A step that leaves the indices and the counts alone keeps what is said of them.
LEMMA Undisturbed ==
  ASSUME IndexInv, UNCHANGED <<file, counts, refs, checked, said>>,
         todo' \in Seq(Fields), table' \in Tables \cup {"header", "model"}, pc' \in Pcs,
         pc' \in {"header", "read"} => pc \in {"header", "read"},
         pc' = "done" => checked = Len(refs)
  PROVE  IndexInv'
<1>1. ReadInv'
  BY DEF IndexInv, ReadInv
<1>2. SplitInv'
  BY DEF IndexInv, SplitInv, Meaning
<1> QED BY <1>1, <1>2 DEF IndexInv

\* A fatal diagnostic ends the reading and touches nothing else.
LEMMA FatalKeeps ==
  ASSUME IndexInv, NEW code, NEW about, Fatal(code, about)
  PROVE  IndexInv'
BY Undisturbed DEF Fatal, IndexInv, ReadInv, Pcs

\* An index read is stated as it is kept.
LEMMA ReadIndexKeeps ==
  ASSUME IndexInv, Reads("index"), NEW v \in Stored(todo[1].n), ReadIndex(v)
  PROVE  IndexInv'
<1> DEFINE x == todo[1]
           r == [table |-> table, to |-> x.to, needed |-> x.needed,
                 value |-> Decoded(x.to, x.n, v)]
<1>1. x \in [f : {"index"}, n : Widths, to : Tables, needed : BOOLEAN]
  <2>1. x \in Fields /\ x.f = "index"
    BY DEF IndexInv, ReadInv, Reads
  <2> QED BY <2>1 DEF Fields
<1>2. v \in Int
  BY <1>1, StoredAssumption DEF Widths
<1>3. r \in Refs
  BY <1>1, <1>2 DEF Refs, Decoded, IndexInv, ReadInv
<1>4. /\ refs' = Append(refs, r) /\ said' = Append(said, r)
      /\ pc = "read" /\ todo' \in Seq(Fields) /\ checked = 0
      /\ UNCHANGED <<pc, file, table, counts, checked>>
  BY DEF ReadIndex, Reads, IndexInv, ReadInv
<1> HIDE DEF r
<1>5. ReadInv'
  BY <1>3, <1>4 DEF IndexInv, ReadInv
<1>6. SplitInv'
  BY <1>3, <1>4 DEF IndexInv, ReadInv, SplitInv
<1> QED BY <1>5, <1>6 DEF IndexInv

\* A count makes room for the records it announces while nothing is checked.
LEMMA ReadCountKeeps ==
  ASSUME IndexInv, NEW n, ReadCount(n)
  PROVE  IndexInv'
<1> DEFINE of == todo[1].of
<1>1. CASE ~Fits(n, of, remaining - 4)
  BY <1>1, FatalKeeps DEF ReadCount
<1>2. CASE Fits(n, of, remaining - 4) /\ of = "faces" /\ n % 3 # 0
  BY <1>2, FatalKeeps DEF ReadCount
<1>3. CASE Fits(n, of, remaining - 4) /\ ~(of = "faces" /\ n % 3 # 0)
  <2>1. of \in Lists
    <3>1. todo[1] \in Fields /\ todo[1].f = "list"
      BY DEF IndexInv, ReadInv, ReadCount, Reads
    <3> QED BY <3>1 DEF Fields
  <2>2. n \in Nat
    BY <1>3 DEF Fits
  <2>3. /\ todo' = <<Records(of, n)>> \o Tail(todo) /\ todo # <<>> /\ pc = "read"
        /\ IF of \in Tables THEN table' = of /\ counts' = [counts EXCEPT ![of] = n]
           ELSE UNCHANGED <<table, counts>>
        /\ UNCHANGED <<pc, file, refs, checked, said>>
    BY <1>3 DEF ReadCount, Reads
  <2>4. todo' \in Seq(Fields)
    <3>1. <<Records(of, n)>> \in Seq(Fields)
      BY <2>1, <2>2, HeaderTypes, FieldTypes DEF IndexInv, ReadInv
    <3>2. Tail(todo) \in Seq(Fields)
      BY <2>3 DEF IndexInv, ReadInv
    <3> QED BY <2>3, <3>1, <3>2, ConcatProperties
  <2>5. ReadInv'
    BY <2>2, <2>3, <2>4 DEF IndexInv, ReadInv
  <2>6. SplitInv'
    BY <2>3 DEF IndexInv, ReadInv, SplitInv
  <2> QED BY <2>5, <2>6 DEF IndexInv
<1> QED BY <1>1, <1>2, <1>3

\* An index checked becomes what it means.
LEMMA CheckIndexKeeps ==
  ASSUME IndexInv, CheckIndex
  PROVE  IndexInv'
<1> DEFINE k == checked + 1
<1>1. /\ pc = "check" /\ k \in 1..Len(refs) /\ checked' = k
      /\ refs' = IF Rejected(refs[k]) THEN [refs EXCEPT ![k].value = NoIndex] ELSE refs
      /\ UNCHANGED <<pc, file, todo, table, counts, said>>
  BY DEF CheckIndex, IndexInv, ReadInv
<1>2. /\ refs[k] \in Refs /\ said[k] \in Refs /\ refs[k].to = said[k].to
      /\ refs[k].value = said[k].value
  BY <1>1 DEF IndexInv, ReadInv, SplitInv
<1>3. counts[refs[k].to] \in Nat
  BY <1>2 DEF IndexInv, ReadInv, Refs
<1>4. Meaning(k) = IF Rejected(refs[k]) THEN NoIndex ELSE refs[k].value
  BY <1>2, <1>3 DEF Meaning, Rejected, OutOfRange, VertexOutOfRange, NoIndex, Refs
<1>5. refs' \in Seq(Refs) /\ Len(refs') = Len(refs)
  <2>1. [refs[k] EXCEPT !.value = NoIndex] \in Refs
    BY <1>2 DEF Refs, NoIndex
  <2>2. [refs EXCEPT ![k].value = NoIndex] = [refs EXCEPT ![k] = [refs[k] EXCEPT !.value = NoIndex]]
    OBVIOUS
  <2>3. refs \in Seq(Refs)
    BY DEF IndexInv, ReadInv
  <2> QED BY <1>1, <2>1, <2>2, <2>3, ExceptSeq
<1>6. ReadInv'
  BY <1>1, <1>5 DEF IndexInv, ReadInv
<1>7. SplitInv'
  <2> SUFFICES ASSUME NEW i \in 1..Len(refs)
               PROVE  /\ refs'[i].to = said[i].to
                      /\ refs'[i].value = IF i <= k THEN Meaning(i) ELSE said[i].value
    BY <1>1, <1>5 DEF SplitInv, Meaning
  <2>1. CASE i = k
    <3>1. refs'[k] = IF Rejected(refs[k]) THEN [refs[k] EXCEPT !.value = NoIndex] ELSE refs[k]
      BY <1>1
    <3>2. refs'[k].to = refs[k].to /\ refs'[k].value = Meaning(k)
      BY <3>1, <1>2, <1>4 DEF Refs
    <3> QED BY <3>2, <1>2, <2>1
  <2>2. CASE i # k
    BY <1>1, <2>2 DEF IndexInv, ReadInv, SplitInv
  <2> QED BY <2>1, <2>2
<1> QED BY <1>6, <1>7 DEF IndexInv

-----------------------------------------------------------------------------
(* Every step *)

LEMMA StepIndices == IndexInv /\ [Next]_vars => IndexInv'
<1> SUFFICES ASSUME IndexInv, [Next]_vars PROVE IndexInv'
  OBVIOUS
<1> USE DEF Pcs
<1>0. /\ HeaderOK /\ pc \in Pcs /\ todo \in Seq(Fields)
      /\ table \in Tables \cup {"header", "model"}
      /\ pc = "done" => checked = Len(refs)
  BY HeaderTypes DEF IndexInv, ReadInv
<1>1. CASE Unreadable
  BY <1>1, FatalKeeps DEF Unreadable
<1>2. CASE RefuseHeader
  BY <1>2, FatalKeeps DEF RefuseHeader
<1>3. CASE ReadHeader
  BY <1>3, <1>0, BodyTypes, Undisturbed DEF ReadHeader
<1>4. CASE Truncated
  BY <1>4, FatalKeeps DEF Truncated
<1>5. CASE ReadData
  <2>1. todo' \in Seq(Fields)
    BY <1>0, <1>5 DEF ReadData, Reads
  <2> QED BY <2>1, <1>0, <1>5, Undisturbed DEF ReadData, Reads
<1>6. CASE \E n \in Lengths(remaining - 4), decodes \in BOOLEAN : ReadText(n, decodes)
  <2> PICK n \in Lengths(remaining - 4), decodes \in BOOLEAN : ReadText(n, decodes)
    BY <1>6
  <2>1. CASE n < 0 \/ n > remaining - 4
    BY <2>1, FatalKeeps DEF ReadText
  <2>2. CASE ~(n < 0 \/ n > remaining - 4)
    <3>1. todo' \in Seq(Fields)
      BY <1>0, <2>2 DEF ReadText, Reads
    <3> QED BY <3>1, <1>0, <2>2, Undisturbed DEF ReadText, Reads
  <2> QED BY <2>1, <2>2
<1>7. CASE Reads("index") /\ \E v \in Stored(todo[1].n) : ReadIndex(v)
  BY <1>7, ReadIndexKeeps
<1>8. CASE Reads("face") /\ \E v \in Stored(todo[1].n) : ReadFace(v)
  <2> PICK v \in Stored(todo[1].n) : ReadFace(v)
    BY <1>8
  <2> DEFINE out == VertexOutOfRange(Decoded("vertices", todo[1].n, v), counts["vertices"])
  <2>1. CASE out
    BY <2>1, FatalKeeps DEF ReadFace
  <2>2. CASE ~out
    <3>1. todo' \in Seq(Fields)
      BY <1>0, <2>2 DEF ReadFace, Reads
    <3> QED BY <3>1, <1>0, <2>2, Undisturbed DEF ReadFace, Reads
  <2> QED BY <2>1, <2>2
<1>9. CASE Reads("list") /\ \E n \in Counts((remaining - 4) \div MinimumOf(todo[1].of)) : ReadCount(n)
  BY <1>9, ReadCountKeeps
<1>10. CASE NextRecord
  <2> DEFINE of == todo[1].of
  <2>1. of \in Lists /\ todo[1].left - 1 \in Nat
    <3>1. todo[1] \in Fields /\ todo[1].f = "records" /\ todo[1].left > 0
      BY <1>0, <1>10 DEF NextRecord, Reads
    <3> QED BY <3>1 DEF Fields
  <2>2. Record(of) \in Seq(Fields)
    BY <1>0, <2>1, RecordFields
  <2>3. <<Records(of, todo[1].left - 1)>> \in Seq(Fields)
    BY <1>0, <2>1, FieldTypes
  <2>4. Tail(todo) \in Seq(Fields)
    BY <1>0, <1>10 DEF NextRecord, Reads
  <2>5. todo' = Record(of) \o <<Records(of, todo[1].left - 1)>> \o Tail(todo)
    BY <1>10 DEF NextRecord
  <2>6. todo' \in Seq(Fields)
    BY <2>2, <2>3, <2>4, <2>5, ConcatProperties
  <2> QED BY <2>6, <1>0, <1>10, Undisturbed DEF NextRecord, Reads
<1>11. CASE EndOfList
  <2>1. todo' \in Seq(Fields)
    BY <1>0, <1>11 DEF EndOfList, Reads
  <2> QED BY <2>1, <1>0, <1>11, Undisturbed DEF EndOfList, Reads
<1>12. CASE Reads("select") /\ \E v \in LayoutValues(todo[1].what) : ReadSelect(v)
  <2> PICK v \in LayoutValues(todo[1].what) : ReadSelect(v)
    BY <1>12
  <2>1. todo[1].what \in {"deform", "toon", "bone", "limits", "morph", "kind"}
    <3>1. todo[1] \in Fields /\ todo[1].f = "select"
      BY <1>0, <1>12 DEF Reads
    <3> QED BY <3>1 DEF Fields
  <2>2. Chosen(todo[1].what, v) \in Seq(Fields)
    BY <1>0, <2>1, ChosenTypes, PlainFields
  <2>3. todo' = Chosen(todo[1].what, v) \o Tail(todo) /\ Tail(todo) \in Seq(Fields)
    BY <1>0, <1>12 DEF ReadSelect, Reads
  <2>4. todo' \in Seq(Fields)
    BY <2>2, <2>3, ConcatProperties
  <2> QED BY <2>4, <1>0, Undisturbed DEF ReadSelect, Reads
<1>13. CASE RefuseSelect
  BY <1>13, FatalKeeps DEF RefuseSelect
<1>14. CASE Reads("faceCount") /\ \E n \in Counts(Left) : ReadFaceCount(n)
  <2> PICK n \in Counts(Left) : ReadFaceCount(n)
    BY <1>14
  <2>1. CASE n < 0 \/ n % 3 # 0 \/ n > Left
    BY <2>1, FatalKeeps DEF ReadFaceCount
  <2>2. CASE ~(n < 0 \/ n % 3 # 0 \/ n > Left)
    <3>1. todo' \in Seq(Fields)
      BY <1>0, <2>2 DEF ReadFaceCount, Reads
    <3> QED BY <3>1, <1>0, <2>2, Undisturbed DEF ReadFaceCount, Reads
  <2> QED BY <2>1, <2>2
<1>15. CASE ReadEnd
  <2>1. ReadInv'
    BY <1>0, <1>15 DEF ReadEnd, IndexInv, ReadInv
  <2>2. SplitInv'
    BY <1>15 DEF ReadEnd, IndexInv, SplitInv, Meaning
  <2> QED BY <2>1, <2>2 DEF IndexInv
<1>16. CASE CheckIndex
  BY <1>16, CheckIndexKeeps
<1>17. CASE Succeed
  BY <1>0, <1>17, Undisturbed DEF Succeed
<1>18. CASE UNCHANGED vars
  BY <1>0, <1>18, Undisturbed DEF vars
<1> QED
  BY <1>1, <1>2, <1>3, <1>4, <1>5, <1>6, <1>7, <1>8, <1>9, <1>10, <1>11, <1>12, <1>13,
     <1>14, <1>15, <1>16, <1>17, <1>18 DEF Next

\* For files of any size, globals and contents the reader accepts, every index
\* of the document names an element or is none, and names what the file states.
THEOREM IndicesResolved == Spec => []IndicesAreResolved
<1>1. Init => IndexInv
  BY InitIndices
<1>2. IndexInv /\ [Next]_vars => IndexInv'
  BY StepIndices
<1>3. IndexInv => IndicesAreResolved
  <2> SUFFICES ASSUME IndexInv, pc = "done", NEW i \in DOMAIN refs
               PROVE  refs[i].value = Meaning(i)
    BY DEF IndicesAreResolved, Meaning
  <2>1. i \in 1..Len(refs) /\ i <= checked
    BY DEF IndexInv, ReadInv
  <2> QED BY <2>1 DEF IndexInv, SplitInv
<1> QED BY <1>1, <1>2, <1>3, PTL DEF Spec

-----------------------------------------------------------------------------
(* Drawing the faces *)

\* Where the materials stand in what is still to read.
AtMaterials(s) == {i \in 1..Len(s) : IsMaterials(s[i])}

\* The materials are read once, after the faces, and draw while they are read.
Ordered(s) ==
  \A i \in 1..Len(s) :
    /\ IsMaterials(s[i]) => AtMaterials(s) = {i}
    /\ IsFaces(s[i]) => \E j \in AtMaterials(s) : i < j /\ s[j].f = "list"
    /\ IsDraw(s[i]) => \E j \in AtMaterials(s) : i < j /\ s[j].f = "records"

\* A fresh front of plain fields in the place of the first.
LEMMA FrontOf ==
  ASSUME NEW s \in Seq(Fields), s # <<>>, NEW p \in Seq(Fields), NEW q, q = p \o Tail(s)
  PROVE  /\ q \in Seq(Fields) /\ Len(q) = Len(p) + Len(s) - 1
         /\ \A i \in 1..Len(p) : i \in 1..Len(q) /\ q[i] = p[i]
         /\ \A i \in 2..Len(s) : Len(p) + i - 1 \in 1..Len(q) /\ q[Len(p) + i - 1] = s[i]
         /\ \A i \in 1..Len(q) : i > Len(p) => /\ i - Len(p) + 1 \in 2..Len(s)
                                            /\ q[i] = s[i - Len(p) + 1]
<1>1. /\ Tail(s) \in Seq(Fields) /\ Len(Tail(s)) = Len(s) - 1 /\ Len(s) \in Nat \ {0}
      /\ \A i \in 1..(Len(s) - 1) : Tail(s)[i] = s[i + 1]
  OBVIOUS
<1>2. /\ q \in Seq(Fields) /\ Len(q) = Len(p) + (Len(s) - 1) /\ Len(p) \in Nat
      /\ \A i \in 1..(Len(p) + (Len(s) - 1)) :
           q[i] = IF i <= Len(p) THEN p[i] ELSE Tail(s)[i - Len(p)]
  BY <1>1, ConcatProperties
<1>3. \A i \in 1..Len(p) : i \in 1..Len(q) /\ q[i] = p[i]
  BY <1>1, <1>2
<1>4. ASSUME NEW i \in 2..Len(s)
      PROVE  Len(p) + i - 1 \in 1..Len(q) /\ q[Len(p) + i - 1] = s[i]
  <2>1. i - 1 \in 1..(Len(s) - 1) /\ Tail(s)[i - 1] = s[(i - 1) + 1] /\ (i - 1) + 1 = i
    BY <1>1
  <2>2. /\ Len(p) + i - 1 \in 1..(Len(p) + (Len(s) - 1)) /\ ~(Len(p) + i - 1 <= Len(p))
        /\ (Len(p) + i - 1) - Len(p) = i - 1
    BY <1>1, <1>2
  <2> QED BY <2>1, <2>2, <1>2
<1>5. ASSUME NEW i \in 1..Len(q), i > Len(p)
      PROVE  i - Len(p) + 1 \in 2..Len(s) /\ q[i] = s[i - Len(p) + 1]
  <2>1. i - Len(p) \in 1..(Len(s) - 1) /\ (i - Len(p)) + 1 = i - Len(p) + 1
    BY <1>1, <1>2, <1>5
  <2> QED BY <2>1, <1>1, <1>2, <1>5
<1> QED BY <1>1, <1>2, <1>3, <1>4, <1>5

\* What the drawing turns on stays where it is.
LEMMA PlainFront ==
  ASSUME NEW s \in Seq(Fields), s # <<>>, Ordered(s), ~IsMaterials(s[1]),
         NEW p \in Seq(Plain), NEW q, q = p \o Tail(s)
  PROVE  /\ Ordered(q)
         /\ AtMaterials(q) = {Len(p) + i - 1 : i \in AtMaterials(s)}
         /\ \A i \in AtMaterials(s) : q[Len(p) + i - 1] = s[i]
<1>1. /\ p \in Seq(Fields) /\ Len(p) \in Nat /\ Len(s) \in Nat
      /\ \A i \in 1..Len(p) : p[i] \in Plain
  BY PlainFields
<1>2. /\ q \in Seq(Fields) /\ Len(q) = Len(p) + Len(s) - 1
      /\ \A i \in 1..Len(p) : i \in 1..Len(q) /\ q[i] = p[i]
      /\ \A i \in 2..Len(s) : Len(p) + i - 1 \in 1..Len(q) /\ q[Len(p) + i - 1] = s[i]
      /\ \A i \in 1..Len(q) : i > Len(p) => /\ i - Len(p) + 1 \in 2..Len(s)
                                            /\ q[i] = s[i - Len(p) + 1]
  BY <1>1, FrontOf
<1>3. \A i \in 1..Len(p) : ~IsMaterials(q[i]) /\ ~IsFaces(q[i]) /\ ~IsDraw(q[i])
  BY <1>1, <1>2 DEF Plain
<1>4. AtMaterials(s) \subseteq 2..Len(s)
  BY <1>1 DEF AtMaterials
<1>5. \A i \in AtMaterials(s) : q[Len(p) + i - 1] = s[i] /\ Len(p) + i - 1 \in AtMaterials(q)
  BY <1>2, <1>4 DEF AtMaterials
<1>6. ASSUME NEW k \in AtMaterials(q)
      PROVE  k - Len(p) + 1 \in AtMaterials(s) /\ k = Len(p) + (k - Len(p) + 1) - 1
  <2>1. k \in 1..Len(q) /\ k > Len(p) /\ k \in Int
    BY <1>1, <1>2, <1>3 DEF AtMaterials
  <2>2. k - Len(p) + 1 \in 2..Len(s) /\ q[k] = s[k - Len(p) + 1]
    BY <2>1, <1>2
  <2>3. k - Len(p) + 1 \in 1..Len(s)
    BY <2>2, <1>1
  <2> QED BY <2>1, <2>2, <2>3, <1>1 DEF AtMaterials
<1>7. AtMaterials(q) = {Len(p) + i - 1 : i \in AtMaterials(s)}
  BY <1>5, <1>6
<1>8. ASSUME NEW i \in 1..Len(q), IsMaterials(q[i]) \/ IsFaces(q[i]) \/ IsDraw(q[i])
      PROVE  i - Len(p) + 1 \in 1..Len(s) /\ q[i] = s[i - Len(p) + 1] /\ i = Len(p) + (i - Len(p) + 1) - 1
  <2>1. i > Len(p) /\ i \in Int
    BY <1>1, <1>2, <1>3, <1>8
  <2>2. i - Len(p) + 1 \in 2..Len(s) /\ q[i] = s[i - Len(p) + 1]
    BY <2>1, <1>2
  <2>3. i - Len(p) + 1 \in 1..Len(s)
    BY <2>2, <1>1
  <2> QED BY <2>1, <2>2, <2>3, <1>1
<1>9. Ordered(q)
  <2> SUFFICES ASSUME NEW i \in 1..Len(q)
               PROVE  /\ IsMaterials(q[i]) => AtMaterials(q) = {i}
                      /\ IsFaces(q[i]) => \E j \in AtMaterials(q) : i < j /\ q[j].f = "list"
                      /\ IsDraw(q[i]) => \E j \in AtMaterials(q) : i < j /\ q[j].f = "records"
    BY DEF Ordered
  <2> DEFINE k == i - Len(p) + 1
  <2>1. CASE IsMaterials(q[i])
    <3>1. k \in 1..Len(s) /\ IsMaterials(s[k]) /\ i = Len(p) + k - 1
      BY <2>1, <1>8
    <3>2. AtMaterials(s) = {k}
      BY <3>1 DEF Ordered
    <3>3. AtMaterials(q) = {Len(p) + k - 1}
      BY <3>2, <1>7
    <3>4. ~IsFaces(q[i]) /\ ~IsDraw(q[i])
      BY <2>1 DEF IsMaterials, IsFaces, IsDraw
    <3> QED BY <3>1, <3>3, <3>4
  <2>2. CASE IsFaces(q[i])
    <3>1. k \in 1..Len(s) /\ IsFaces(s[k]) /\ i = Len(p) + k - 1
      BY <2>2, <1>8
    <3>2. PICK j \in AtMaterials(s) : k < j /\ s[j].f = "list"
      BY <3>1 DEF Ordered
    <3>3. Len(p) + j - 1 \in AtMaterials(q) /\ q[Len(p) + j - 1].f = "list"
      BY <3>2, <1>5
    <3>4. i < Len(p) + j - 1
      BY <3>1, <3>2, <1>1, <1>4
    <3>5. ~IsMaterials(q[i]) /\ ~IsDraw(q[i])
      BY <2>2 DEF IsMaterials, IsFaces, IsDraw
    <3> QED BY <3>3, <3>4, <3>5
  <2>3. CASE IsDraw(q[i])
    <3>1. k \in 1..Len(s) /\ IsDraw(s[k]) /\ i = Len(p) + k - 1
      BY <2>3, <1>8
    <3>2. PICK j \in AtMaterials(s) : k < j /\ s[j].f = "records"
      BY <3>1 DEF Ordered
    <3>3. Len(p) + j - 1 \in AtMaterials(q) /\ q[Len(p) + j - 1].f = "records"
      BY <3>2, <1>5
    <3>4. i < Len(p) + j - 1
      BY <3>1, <3>2, <1>1, <1>4
    <3>5. ~IsMaterials(q[i]) /\ ~IsFaces(q[i])
      BY <2>3 DEF IsMaterials, IsFaces, IsDraw
    <3> QED BY <3>3, <3>4, <3>5
  <2> QED BY <2>1, <2>2, <2>3
<1> QED BY <1>5, <1>7, <1>9

\* The recoverable diagnostics, and where they are found.
Codes == {"UNKNOWN_GLOBALS", "TEXT_INVALID", "MATERIAL_FACES_SHORT", "TRAILING_BYTES",
          "INDEX_OUT_OF_RANGE"}
Places == Tables \cup {"header", "model", ""}

Short == <<"MATERIAL_FACES_SHORT", "materials">>

\* While the materials are ahead, nothing is reported of them; once they are
\* read, what they leave is.
DrawInv ==
  /\ Ordered(todo)
  /\ consumed \in Nat /\ consumed % 3 = 0 /\ counts["faces"] % 3 = 0
  /\ consumed <= counts["faces"] /\ counts["faces"] <= file.most["faces"]
  /\ raised \in Seq(Codes \X Places)
  /\ AtMaterials(todo) # {} => Short \notin Range(raised)
  /\ \A i \in AtMaterials(todo) : todo[i].f = "list" => consumed = 0
  /\ AtMaterials(todo) = {} => (consumed < counts["faces"] <=> Short \in Range(raised))
  /\ pc = "header" => todo = <<>> /\ consumed = 0 /\ raised = <<>>

\* A report of something else.
LEMMA OtherReports ==
  ASSUME DrawInv, NEW code \in Codes, NEW where \in Places, code # "MATERIAL_FACES_SHORT",
         Report(code, where) \/ Silent
  PROVE  raised' \in Seq(Codes \X Places) /\ (Short \in Range(raised') <=> Short \in Range(raised))
<1>1. CASE Silent
  BY <1>1 DEF Silent, DrawInv
<1>2. CASE Report(code, where)
  <2> DEFINE r == raised
             note == <<code, where>>
  <2>1. r \in Seq(Codes \X Places) /\ note \in Codes \X Places /\ raised' = Append(r, note)
    BY <1>2 DEF Report, DrawInv
  <2>2. note # Short
    BY DEF Short
  <2> HIDE DEF r, note
  <2>3. /\ Append(r, note) \in Seq(Codes \X Places) /\ Len(Append(r, note)) = Len(r) + 1
        /\ Append(r, note)[Len(r) + 1] = note /\ \A i \in 1..Len(r) : Append(r, note)[i] = r[i]
    BY <2>1, OneMore
  <2>4. Range(r) = {r[i] : i \in 1..Len(r)} /\ Len(r) \in Nat
    BY <2>1 DEF Range
  <2>5. Range(Append(r, note)) = {Append(r, note)[i] : i \in 1..(Len(r) + 1)}
    BY <2>3 DEF Range
  <2>6. Short \in Range(Append(r, note)) <=> Short \in Range(r)
    BY <2>2, <2>3, <2>4, <2>5
  <2> QED BY <2>1, <2>3, <2>6 DEF r
<1> QED BY <1>1, <1>2

\* A step in which the materials stay ahead or behind, and nothing is drawn.
LEMMA NothingDrawn ==
  ASSUME DrawInv, UNCHANGED <<file, counts["faces"], consumed>>, pc' # "header",
         raised' \in Seq(Codes \X Places), Short \in Range(raised') <=> Short \in Range(raised),
         Ordered(todo'), AtMaterials(todo') = {} <=> AtMaterials(todo) = {},
         \A i \in AtMaterials(todo') : todo'[i].f = "list" => consumed = 0
  PROVE  DrawInv'
BY DEF DrawInv

LEMMA PlainSteps ==
  ASSUME IndexInv, DrawInv, UNCHANGED <<file, counts["faces"], consumed>>, pc' # "header",
         raised' \in Seq(Codes \X Places), Short \in Range(raised') <=> Short \in Range(raised),
         todo # <<>>, ~IsMaterials(todo[1]), NEW p \in Seq(Plain), todo' = p \o Tail(todo)
  PROVE  DrawInv'
<1>1. /\ Ordered(todo')
      /\ AtMaterials(todo') = {Len(p) + i - 1 : i \in AtMaterials(todo)}
      /\ \A i \in AtMaterials(todo) : todo'[Len(p) + i - 1] = todo[i]
  <2> DEFINE s == todo
             q == todo'
  <2>1. s \in Seq(Fields) /\ Ordered(s) /\ s # <<>> /\ ~IsMaterials(s[1]) /\ q = p \o Tail(s)
    BY DEF IndexInv, ReadInv, DrawInv
  <2> HIDE DEF s, q
  <2>2. /\ Ordered(q)
        /\ AtMaterials(q) = {Len(p) + i - 1 : i \in AtMaterials(s)}
        /\ \A i \in AtMaterials(s) : q[Len(p) + i - 1] = s[i]
    BY <2>1, PlainFront
  <2> QED BY <2>2 DEF s, q
<1>2. AtMaterials(todo') = {} <=> AtMaterials(todo) = {}
  BY <1>1
<1>3. \A i \in AtMaterials(todo') : todo'[i].f = "list" => consumed = 0
  BY <1>1 DEF DrawInv
<1> QED BY <1>1, <1>2, <1>3, NothingDrawn

\* The same where the first field leaves nothing behind.
LEMMA FieldSteps ==
  ASSUME IndexInv, DrawInv, UNCHANGED <<file, counts["faces"], consumed, raised>>, pc' # "header",
         todo # <<>>, ~IsMaterials(todo[1]), todo' = Tail(todo)
  PROVE  DrawInv'
<1>1. <<>> \in Seq(Plain) /\ todo' = <<>> \o Tail(todo)
  BY DEF IndexInv, ReadInv
<1> QED BY <1>1, PlainSteps DEF DrawInv

LEMMA FatalDraws ==
  ASSUME DrawInv, NEW code, NEW about, Fatal(code, about)
  PROVE  DrawInv'
BY NothingDrawn DEF Fatal, DrawInv

\* While they are at the front, nothing behind them is of the faces.
LEMMA BehindMaterials ==
  ASSUME NEW s \in Seq(Fields), s # <<>>, Ordered(s), IsMaterials(s[1])
  PROVE  \A i \in 2..Len(s) : ~IsMaterials(s[i]) /\ ~IsFaces(s[i]) /\ ~IsDraw(s[i])
<1>1. Len(s) \in Nat /\ 1 \in 1..Len(s) /\ AtMaterials(s) = {1}
  BY SequenceShape DEF Ordered
<1>2. ASSUME NEW i \in 2..Len(s) PROVE ~IsMaterials(s[i]) /\ ~IsFaces(s[i]) /\ ~IsDraw(s[i])
  <2>1. i \in 1..Len(s) /\ i > 1
    BY <1>1
  <2>2. ~IsMaterials(s[i])
    BY <1>1, <2>1 DEF AtMaterials
  <2>3. ~IsFaces(s[i]) /\ ~IsDraw(s[i])
    BY <1>1, <2>1 DEF Ordered
  <2> QED BY <2>2, <2>3
<1> QED BY <1>2

\* The count or the next of the materials at the front.
LEMMA MaterialsFront ==
  ASSUME NEW s \in Seq(Fields), s # <<>>, Ordered(s), IsMaterials(s[1]),
         NEW p \in Seq(Fields), Len(p) >= 1, IsMaterials(p[Len(p)]), p[Len(p)].f = "records",
         \A i \in 1..(Len(p) - 1) : ~IsMaterials(p[i]) /\ ~IsFaces(p[i]),
         NEW q, q = p \o Tail(s)
  PROVE  Ordered(q) /\ AtMaterials(q) = {Len(p)} /\ q[Len(p)].f = "records"
<1>1. Len(p) \in Nat /\ Len(s) \in Nat /\ Len(p) \in 1..Len(p)
  OBVIOUS
<1>2. /\ Len(q) = Len(p) + Len(s) - 1
      /\ \A i \in 1..Len(p) : i \in 1..Len(q) /\ q[i] = p[i]
      /\ \A i \in 1..Len(q) : i > Len(p) => /\ i - Len(p) + 1 \in 2..Len(s)
                                            /\ q[i] = s[i - Len(p) + 1]
  BY FrontOf
<1>3. \A i \in 1..Len(q) : i > Len(p) => ~IsMaterials(q[i]) /\ ~IsFaces(q[i]) /\ ~IsDraw(q[i])
  BY <1>2, BehindMaterials
<1>4. q[Len(p)] = p[Len(p)] /\ Len(p) \in 1..Len(q)
  BY <1>1, <1>2
<1>5. ASSUME NEW i \in 1..Len(q), i < Len(p) PROVE ~IsMaterials(q[i]) /\ ~IsFaces(q[i])
  <2>1. i \in 1..(Len(p) - 1) /\ i \in 1..Len(p)
    BY <1>1, <1>5
  <2> QED BY <2>1, <1>2
<1>6. AtMaterials(q) = {Len(p)}
  <2>1. Len(p) \in AtMaterials(q)
    BY <1>4 DEF AtMaterials
  <2>2. ASSUME NEW i \in AtMaterials(q) PROVE i = Len(p)
    <3>1. i \in 1..Len(q) /\ IsMaterials(q[i]) /\ i \in Int
      BY DEF AtMaterials
    <3>2. ~(i > Len(p)) /\ ~(i < Len(p))
      BY <3>1, <1>3, <1>5
    <3> QED BY <3>1, <3>2, <1>1
  <2> QED BY <2>1, <2>2
<1>7. ASSUME NEW i \in 1..Len(q)
      PROVE  /\ IsMaterials(q[i]) => AtMaterials(q) = {i}
             /\ IsFaces(q[i]) => \E j \in AtMaterials(q) : i < j /\ q[j].f = "list"
             /\ IsDraw(q[i]) => \E j \in AtMaterials(q) : i < j /\ q[j].f = "records"
  <2>0. i \in Int /\ (i = Len(p) \/ i > Len(p) \/ i < Len(p))
    BY <1>1
  <2>1. CASE i = Len(p)
    <3>1. IsMaterials(q[i]) /\ q[i].f = "records"
      BY <2>1, <1>4
    <3>2. ~IsFaces(q[i]) /\ ~IsDraw(q[i])
      BY <3>1 DEF IsFaces, IsDraw
    <3> QED BY <3>2, <2>1, <1>6
  <2>2. CASE i > Len(p)
    BY <2>2, <1>3
  <2>3. CASE i < Len(p)
    BY <2>3, <1>4, <1>5, <1>6
  <2> QED BY <2>0, <2>1, <2>2, <2>3
<1> QED BY <1>4, <1>6, <1>7 DEF Ordered

\* The tables of the body are in this order.
LEMMA BodyOrder ==
  ASSUME HeaderOK
  PROVE  Ordered(Body) /\ AtMaterials(Body) # {} /\ \A i \in AtMaterials(Body) : Body[i].f = "list"
<1> DEFINE a == <<Text, Text, Text, Text>>
           b == [i \in DOMAIN TableOrder |-> List(TableOrder[i])]
           c == IF header.v21 THEN <<List("softBodies")>> ELSE <<>>
           ab == a \o b
           q == Body
<1>1. /\ a \in Seq(Fields) /\ Len(a) = 4 /\ \A i \in 1..4 : a[i] = Text
  BY FieldTypes DEF Plain
<1>2. /\ b \in Seq(Fields) /\ Len(b) = 9 /\ \A i \in 1..9 : b[i] = List(TableOrder[i])
  <2>1. DOMAIN TableOrder = 1..9 /\ \A i \in 1..9 : TableOrder[i] \in Lists
    BY DEF TableOrder, Lists, Tables
  <2> QED BY <2>1, FieldTypes
<1>3. /\ c \in Seq(Fields) /\ Len(c) \in 0..1 /\ \A i \in 1..Len(c) : c[i] = List("softBodies")
  BY FieldTypes DEF Lists, Tables
<1>4. q = ab \o c
  BY DEF Body
<1> HIDE DEF a, b, c, ab, q
<1>5. /\ ab \in Seq(Fields) /\ Len(ab) = 13
      /\ \A i \in 1..13 : ab[i] = IF i <= 4 THEN a[i] ELSE b[i - 4]
  <2>1. /\ a \o b \in Seq(Fields) /\ Len(a \o b) = Len(a) + Len(b)
        /\ \A i \in 1..(Len(a) + Len(b)) : (a \o b)[i] = IF i <= Len(a) THEN a[i] ELSE b[i - Len(a)]
    BY <1>1, <1>2, ConcatProperties
  <2>2. Len(a) = 4 /\ Len(b) = 9
    BY <1>1, <1>2
  <2>3. Len(a) + Len(b) = 13
    BY <2>2
  <2> HIDE <1>1, <1>2
  <2> QED BY <2>1, <2>2, <2>3, Zenon DEF ab
<1>6. /\ q \in Seq(Fields) /\ Len(q) \in 13..14
      /\ Len(q) = 13 + Len(c)
      /\ \A i \in 1..Len(q) : q[i] = IF i <= 13 THEN ab[i] ELSE c[i - 13]
  <2>1. ab \in Seq(Fields) /\ c \in Seq(Fields) /\ Len(ab) = 13 /\ q = ab \o c
    BY <1>3, <1>4, <1>5
  <2>2. /\ ab \o c \in Seq(Fields) /\ Len(ab \o c) = Len(ab) + Len(c)
        /\ \A i \in 1..(Len(ab) + Len(c)) : (ab \o c)[i] = IF i <= Len(ab) THEN ab[i] ELSE c[i - Len(ab)]
    BY <2>1, ConcatProperties
  <2>3. Len(ab) + Len(c) \in 13..14
    <3>1. Len(c) = 0 \/ Len(c) = 1
      BY <1>3
    <3>2. Len(ab) + Len(c) = 13 + Len(c)
      BY <1>5
    <3>3. 13 + 0 \in 13..14 /\ 13 + 1 \in 13..14
      OBVIOUS
    <3> QED BY <3>1, <3>2, <3>3, Zenon
  <2>4. \A i \in 1..Len(q) : q[i] = IF i <= 13 THEN ab[i] ELSE c[i - 13]
    BY <2>1, <2>2, Zenon
  <2>5. Len(q) = 13 + Len(c)
    BY <2>1, <2>2
  <2> QED BY <2>1, <2>2, <2>3, <2>4, <2>5
<1>7. ASSUME NEW i \in 1..Len(q)
      PROVE  /\ q[i] = Text \/ q[i] = List("softBodies") \/ (i \in 5..13 /\ q[i] = List(TableOrder[i - 4]))
             /\ i \in 5..13 => q[i] = List(TableOrder[i - 4])
  <2>1. CASE i \in 1..4
    <3>1. q[i] = ab[i] /\ i \in 1..13 /\ i <= 4
      BY <2>1, <1>6
    <3>2. q[i] = a[i]
      BY <3>1, <1>5
    <3> QED BY <2>1, <3>2, <1>1
  <2>2. CASE i \in 5..13
    <3>1. i - 4 \in 1..9 /\ i \in 1..13 /\ ~(i <= 4)
      BY <2>2
    <3>2. q[i] = ab[i]
      BY <2>2, <1>6
    <3>3. q[i] = b[i - 4]
      BY <3>1, <3>2, <1>5
    <3> QED BY <2>2, <3>1, <3>3, <1>2
  <2>3. CASE i = 14
    <3>1. i - 13 \in 1..Len(c)
      BY <2>3, <1>3, <1>6
    <3> QED BY <2>3, <3>1, <1>3, <1>6
  <2> QED BY <2>1, <2>2, <2>3, <1>6
<1>8. /\ ~IsMaterials(Text) /\ ~IsFaces(Text) /\ \A of : ~IsDraw(List(of)) /\ ~IsDraw(Text)
      /\ \A of : IsMaterials(List(of)) <=> of = "materials"
      /\ \A of : IsFaces(List(of)) <=> of = "faces"
      /\ \A of : List(of).f = "list"
  BY DEF IsMaterials, IsFaces, IsDraw, Text, List
<1>9. \A k \in 1..9 : /\ TableOrder[k] = "materials" <=> k = 4
                      /\ TableOrder[k] = "faces" <=> k = 2
  BY DEF TableOrder
<1>10. AtMaterials(q) = {8} /\ q[8].f = "list"
  <2>1. 8 \in 1..Len(q) /\ q[8] = List(TableOrder[4])
    BY <1>6, <1>7
  <2>2. 8 \in AtMaterials(q) /\ q[8].f = "list"
    BY <2>1, <1>8, <1>9 DEF AtMaterials
  <2>3. ASSUME NEW i \in AtMaterials(q) PROVE i = 8
    <3>1. i \in 1..Len(q) /\ IsMaterials(q[i])
      BY DEF AtMaterials
    <3>2. i \in 5..13 /\ q[i] = List(TableOrder[i - 4])
      BY <3>1, <1>7, <1>8
    <3>3. i - 4 = 4
      BY <3>1, <3>2, <1>8, <1>9
    <3> QED BY <3>2, <3>3
  <2> QED BY <2>2, <2>3
<1>11. ASSUME NEW i \in 1..Len(q)
       PROVE  /\ ~IsDraw(q[i]) /\ (IsFaces(q[i]) => i < 8) /\ (IsMaterials(q[i]) => i = 8)
  <2>1. ~IsDraw(q[i])
    BY <1>7, <1>8
  <2>2. IsFaces(q[i]) => i < 8
    <3> SUFFICES ASSUME IsFaces(q[i]) PROVE i < 8
      OBVIOUS
    <3>2. i \in 5..13 /\ q[i] = List(TableOrder[i - 4])
      BY <1>7, <1>8
    <3>3. i - 4 = 2
      BY <3>2, <1>8, <1>9
    <3> QED BY <3>2, <3>3
  <2> QED BY <2>1, <2>2, <1>10 DEF AtMaterials
<1>12. Ordered(q)
  BY <1>10, <1>11 DEF Ordered
<1> QED BY <1>10, <1>12 DEF q

\* A material is read and leaves the rest of them; a count leaves the materials.
LEMMA MaterialsSteps ==
  ASSUME IndexInv, DrawInv, UNCHANGED <<file, counts["faces"], consumed, raised>>, pc' # "header",
         todo # <<>>, IsMaterials(todo[1]), NEW left \in Nat, NEW p \in Seq(Plain),
         \/ todo' = <<Records("materials", left)>> \o Tail(todo)
         \/ todo' = ((p \o <<FaceCount>>) \o <<Records("materials", left)>>) \o Tail(todo)
  PROVE  DrawInv'
<1> DEFINE s == todo
           last == Records("materials", left)
           front == IF todo' = <<last>> \o Tail(todo) THEN <<last>>
                    ELSE (p \o <<FaceCount>>) \o <<last>>
           q == todo'
<1>1. s \in Seq(Fields) /\ s # <<>> /\ Ordered(s) /\ IsMaterials(s[1]) /\ q = front \o Tail(s)
  BY DEF IndexInv, ReadInv, DrawInv
<1>2. last \in Fields /\ IsMaterials(last) /\ last.f = "records" /\ ~IsMaterials(FaceCount)
      /\ ~IsFaces(FaceCount) /\ FaceCount \in Fields
  BY HeaderTypes, FieldTypes DEF IndexInv, ReadInv, Lists, Tables, Records, IsMaterials, FaceCount, IsFaces
<1> HIDE DEF last
<1>3. /\ front \in Seq(Fields) /\ Len(front) >= 1 /\ front[Len(front)] = last
      /\ \A i \in 1..(Len(front) - 1) : ~IsMaterials(front[i]) /\ ~IsFaces(front[i])
  <2>1. CASE front = <<last>>
    <3>1. /\ <<last>> \in Seq(Fields) /\ Len(<<last>>) = 1 /\ <<last>>[1] = last
      BY <1>2
    <3> HIDE DEF front
    <3> QED BY <2>1, <3>1
  <2>2. CASE front = (p \o <<FaceCount>>) \o <<last>>
    <3> DEFINE u == p \o <<FaceCount>>
               n == Len(p)
    <3>1. p \in Seq(Fields) /\ <<FaceCount>> \in Seq(Fields) /\ n \in Nat
          /\ Len(<<FaceCount>>) = 1 /\ <<FaceCount>>[1] = FaceCount
      BY <1>2, PlainFields
    <3>2. /\ u \in Seq(Fields) /\ Len(u) = n + 1
          /\ \A i \in 1..(n + 1) : u[i] = IF i <= n THEN p[i] ELSE <<FaceCount>>[i - n]
      BY <3>1, ConcatProperties
    <3>3. \A i \in 1..(n + 1) : ~IsMaterials(u[i]) /\ ~IsFaces(u[i])
      <4> TAKE i \in 1..(n + 1)
      <4>1. CASE i <= n
        <5>1. i \in 1..n /\ u[i] = p[i]
          BY <4>1, <3>1, <3>2
        <5>2. p[i] \in Plain
          BY <5>1
        <5> QED BY <5>1, <5>2 DEF Plain
      <4>2. CASE ~(i <= n)
        <5>1. i = n + 1 /\ i - n = 1
          BY <4>2, <3>1
        <5>2. u[i] = FaceCount
          BY <5>1, <4>2, <3>1, <3>2
        <5> QED BY <5>2, <1>2
      <4> QED BY <4>1, <4>2
    <3> HIDE DEF u, n
    <3>4. <<last>> \in Seq(Fields) /\ Len(<<last>>) = 1 /\ <<last>>[1] = last
      BY <1>2
    <3>5. /\ u \o <<last>> \in Seq(Fields) /\ Len(u \o <<last>>) = Len(u) + 1
          /\ \A i \in 1..(Len(u) + 1) : (u \o <<last>>)[i] = IF i <= Len(u) THEN u[i] ELSE <<last>>[i - Len(u)]
      BY <3>2, <3>4, ConcatProperties
    <3> DEFINE w == u \o <<last>>
    <3>6. /\ w \in Seq(Fields) /\ Len(w) = n + 2
          /\ \A i \in 1..(n + 2) : w[i] = IF i <= n + 1 THEN u[i] ELSE <<last>>[i - (n + 1)]
      <4>1. Len(u) = n + 1 /\ Len(u) + 1 = n + 2
        BY <3>1, <3>2
      <4> QED BY <4>1, <3>5, Zenon
    <3>7. n + 2 \in 1..(n + 2) /\ ~(n + 2 <= n + 1) /\ (n + 2) - (n + 1) = 1
      BY <3>1
    <3>8. w[n + 2] = last
      BY <3>4, <3>6, <3>7
    <3>9. front = w
      BY <2>2 DEF u
    <3> HIDE DEF w, front
    <3>10. \A i \in 1..(n + 1) : i \in 1..(n + 2) /\ i <= n + 1
      BY <3>1
    <3>11. Len(w) - 1 = n + 1 /\ Len(w) >= 1
      BY <3>1, <3>6
    <3>12. \A i \in 1..(Len(w) - 1) : ~IsMaterials(w[i]) /\ ~IsFaces(w[i])
      BY <3>3, <3>6, <3>10, <3>11
    <3> QED BY <3>6, <3>8, <3>9, <3>11, <3>12
  <2> QED BY <2>1, <2>2
<1> HIDE DEF s, q, front
<1>4. Ordered(q) /\ AtMaterials(q) = {Len(front)} /\ q[Len(front)].f = "records"
  <2>1. front \in Seq(Fields) /\ IsMaterials(front[Len(front)]) /\ front[Len(front)].f = "records"
    BY <1>2, <1>3
  <2> QED BY <1>1, <1>3, <2>1, MaterialsFront
<1>5. AtMaterials(s) # {}
  BY <1>1, SequenceShape DEF AtMaterials
<1>6. \A i \in AtMaterials(q) : q[i].f = "list" => consumed = 0
  BY <1>4
<1>7. raised' \in Seq(Codes \X Places) /\ (Short \in Range(raised') <=> Short \in Range(raised))
  BY DEF DrawInv
<1> QED BY <1>4, <1>5, <1>6, <1>7, NothingDrawn DEF s, q

\* The last material read reports what is left.
LEMMA MaterialsEnd ==
  ASSUME IndexInv, DrawInv, EndOfList, IsMaterials(todo[1])
  PROVE  DrawInv'
<1> DEFINE s == todo
           q == todo'
<1>1. /\ s \in Seq(Fields) /\ s # <<>> /\ Ordered(s) /\ IsMaterials(s[1]) /\ q = Tail(s)
      /\ UNCHANGED <<file, counts["faces"], consumed>> /\ pc = "read" /\ pc' = "read"
  BY DEF IndexInv, ReadInv, DrawInv, EndOfList, Reads
<1>2. \A i \in 1..Len(q) : q[i] = s[i + 1] /\ i + 1 \in 2..Len(s)
  BY <1>1
<1>3. /\ \A i \in 1..Len(q) : ~IsMaterials(q[i]) /\ ~IsFaces(q[i]) /\ ~IsDraw(q[i])
  BY <1>1, <1>2, BehindMaterials
<1>4. Ordered(q) /\ AtMaterials(q) = {}
  BY <1>3 DEF Ordered, AtMaterials
<1>5. Short \notin Range(raised) /\ raised \in Seq(Codes \X Places)
  <2>1. 1 \in AtMaterials(s)
    BY <1>1, SequenceShape DEF AtMaterials
  <2> QED BY <2>1 DEF DrawInv
<1>6. todo[1].of = "materials"
  BY DEF IsMaterials
<1>7. CASE consumed < counts["faces"]
  <2> DEFINE r == raised
  <2>1. raised' = Append(r, Short) /\ Short \in Codes \X Places /\ r \in Seq(Codes \X Places)
    <3>1. Report("MATERIAL_FACES_SHORT", "materials")
      BY <1>6, <1>7 DEF EndOfList
    <3>2. raised' = Append(raised, Short)
      BY <3>1 DEF Report, Short
    <3>3. Short \in Codes \X Places
      BY DEF Short, Codes, Places, Tables
    <3> QED BY <1>5, <3>2, <3>3
  <2> HIDE DEF r
  <2>2. /\ Append(r, Short) \in Seq(Codes \X Places)
        /\ Len(Append(r, Short)) = Len(r) + 1 /\ Append(r, Short)[Len(r) + 1] = Short
    BY <2>1, OneMore
  <2>3. raised' \in Seq(Codes \X Places) /\ Short \in Range(raised')
    <3>1. Len(r) + 1 \in DOMAIN Append(r, Short)
      BY <2>1, <2>2
    <3> QED BY <2>1, <2>2, <3>1 DEF Range
  <2> QED BY <1>1, <1>4, <1>7, <2>3 DEF DrawInv
<1>8. CASE ~(consumed < counts["faces"])
  <2>1. raised' = raised
    BY <1>8 DEF EndOfList, Silent
  <2> QED BY <1>1, <1>4, <1>5, <1>8, <2>1 DEF DrawInv
<1> QED BY <1>7, <1>8

LEMMA DrawType == IndexInv /\ DrawInv => consumed \in Nat /\ counts["faces"] \in Nat
BY DEF DrawInv, IndexInv, ReadInv, Tables

\* A material draws whole triangles of what is left, and the materials are
\* still being read.
LEMMA DrawingSteps ==
  ASSUME IndexInv, DrawInv, NEW n \in Int, ReadFaceCount(n)
  PROVE  DrawInv'
<1>1. CASE n < 0 \/ n % 3 # 0 \/ n > Left
  BY <1>1, FatalDraws DEF ReadFaceCount
<1>2. CASE ~(n < 0 \/ n % 3 # 0 \/ n > Left)
  <2> DEFINE s == todo
             q == todo'
  <2>1. /\ s \in Seq(Fields) /\ s # <<>> /\ Ordered(s) /\ s[1].f = "faceCount" /\ q = Tail(s)
        /\ consumed' = consumed + n /\ n \in Nat /\ n % 3 = 0 /\ n <= counts["faces"] - consumed
        /\ UNCHANGED <<pc, file, counts, raised>> /\ pc = "read"
    <3>1. todo \in Seq(Fields) /\ Ordered(todo)
      BY DEF IndexInv, ReadInv, DrawInv
    <3>2. Reads("faceCount") /\ n \in Nat /\ n % 3 = 0 /\ n <= Left
      BY <1>2, DrawType DEF ReadFaceCount, Left
    <3> QED BY <1>2, <3>1, <3>2 DEF ReadFaceCount, Reads, Silent, Left
  <2>2. ~IsMaterials(s[1]) /\ IsDraw(s[1]) /\ 1 \in 1..Len(s)
    BY <2>1, SequenceShape DEF IsMaterials, IsDraw
  <2>3. PICK j \in AtMaterials(s) : s[j].f = "records"
    BY <2>1, <2>2 DEF Ordered
  <2>4. AtMaterials(s) = {j}
    BY <2>1, <2>3 DEF Ordered, AtMaterials
  <2>5. <<>> \in Seq(Plain) /\ q = <<>> \o Tail(s) /\ Len(<<>>) = 0
    BY <2>1
  <2> HIDE DEF s, q
  <2>6. /\ Ordered(q)
        /\ AtMaterials(q) = {Len(<<>>) + i - 1 : i \in AtMaterials(s)}
        /\ \A i \in AtMaterials(s) : q[Len(<<>>) + i - 1] = s[i]
    BY <2>1, <2>2, <2>5, PlainFront
  <2>7. AtMaterials(q) # {} /\ \A i \in AtMaterials(q) : q[i].f # "list"
    BY <2>3, <2>4, <2>6
  <2>8. /\ consumed \in Nat /\ consumed % 3 = 0 /\ counts["faces"] \in Nat
    BY DEF DrawInv, IndexInv, ReadInv, Tables
  <2>9. consumed + n \in Nat /\ (consumed + n) % 3 = 0 /\ consumed + n <= counts["faces"]
    <3>1. \A a, b \in Nat : a % 3 = 0 /\ b % 3 = 0 => (a + b) % 3 = 0
      OBVIOUS
    <3> DEFINE c == consumed
               k == counts["faces"]
    <3>2. c \in Nat /\ k \in Nat /\ n \in Nat /\ n <= k - c /\ c % 3 = 0 /\ n % 3 = 0
      BY <2>1, <2>8
    <3> HIDE DEF c, k
    <3>3. (c + n) % 3 = 0
      BY <3>1, <3>2
    <3>4. c + n \in Nat /\ c + n <= k
      BY ONLY <3>2
    <3> QED BY <3>3, <3>4 DEF c, k
  <2>10. Short \notin Range(raised) /\ raised \in Seq(Codes \X Places)
    BY <2>3 DEF DrawInv, s
  <2>11. counts["faces"] % 3 = 0 /\ counts["faces"] <= file.most["faces"]
    BY DEF DrawInv
  <2> QED BY <2>1, <2>6, <2>7, <2>9, <2>10, <2>11 DEF DrawInv, q
<1> QED BY <1>1, <1>2

LEMMA FacesCount ==
  ASSUME IndexInv, DrawInv, UNCHANGED <<pc, file, consumed, raised>>, pc = "read",
         todo # <<>>, IsFaces(todo[1]), NEW n \in Nat, n % 3 = 0, n <= file.most["faces"],
         NEW p \in Seq(Plain), todo' = p \o Tail(todo), counts'["faces"] = n
  PROVE  DrawInv'
<1> DEFINE s == todo
           q == todo'
<1>1. s \in Seq(Fields) /\ Ordered(s) /\ s # <<>> /\ q = p \o Tail(s) /\ 1 \in 1..Len(s) /\ IsFaces(s[1])
  BY SequenceShape DEF IndexInv, ReadInv, DrawInv
<1>2. ~IsMaterials(s[1])
  BY <1>1 DEF IsFaces, IsMaterials
<1>3. PICK j \in AtMaterials(s) : s[j].f = "list"
  BY <1>1 DEF Ordered
<1>4. consumed = 0 /\ Short \notin Range(raised) /\ raised \in Seq(Codes \X Places)
  BY <1>3 DEF DrawInv
<1> HIDE DEF s, q
<1>5. /\ Ordered(q)
      /\ AtMaterials(q) = {Len(p) + i - 1 : i \in AtMaterials(s)}
      /\ \A i \in AtMaterials(s) : q[Len(p) + i - 1] = s[i]
  BY <1>1, <1>2, PlainFront
<1>6. AtMaterials(q) # {}
  BY <1>3, <1>5
<1>7. 0 % 3 = 0
  OBVIOUS
<1> QED BY <1>4, <1>5, <1>6, <1>7 DEF DrawInv, q

\* A count of faces comes before anything is drawn.
LEMMA CountSteps ==
  ASSUME IndexInv, DrawInv, NEW n, ReadCount(n)
  PROVE  DrawInv'
<1> DEFINE of == todo[1].of
<1>1. CASE ~Fits(n, of, remaining - 4)
  BY <1>1, FatalDraws DEF ReadCount
<1>2. CASE Fits(n, of, remaining - 4) /\ of = "faces" /\ n % 3 # 0
  BY <1>2, FatalDraws DEF ReadCount
<1>3. CASE Fits(n, of, remaining - 4) /\ ~(of = "faces" /\ n % 3 # 0)
  <2>1. of \in Lists /\ todo[1].f = "list" /\ todo # <<>> /\ pc = "read"
    <3>1. todo[1] \in Fields /\ todo[1].f = "list" /\ todo # <<>> /\ pc = "read"
      BY DEF IndexInv, ReadInv, ReadCount, Reads
    <3> QED BY <3>1 DEF Fields
  <2>2. n \in Nat
    BY <1>3 DEF Fits
  <2>3. /\ todo' = <<Records(of, n)>> \o Tail(todo)
        /\ n <= IF of \in Tables THEN file.most[of] ELSE MaxRecords
        /\ UNCHANGED <<pc, file, consumed, raised>>
        /\ IF of \in Tables THEN counts' = [counts EXCEPT ![of] = n] ELSE counts' = counts
    BY <1>3 DEF ReadCount, Silent
  <2>4. raised' \in Seq(Codes \X Places) /\ (Short \in Range(raised') <=> Short \in Range(raised))
    BY <2>3 DEF DrawInv
  <2>5. CASE of = "materials"
    <3>1. counts'["faces"] = counts["faces"]
      BY <2>3, <2>5 DEF IndexInv, ReadInv, Tables
    <3>2. IsMaterials(todo[1])
      BY <2>1, <2>5 DEF IsMaterials
    <3>3. <<>> \in Seq(Plain) /\ todo' = <<Records("materials", n)>> \o Tail(todo)
      BY <2>3, <2>5
    <3>4. UNCHANGED <<file, counts["faces"], consumed, raised>> /\ pc' # "header" /\ todo # <<>>
      BY <2>1, <2>3, <3>1
    <3> QED BY <2>2, <3>2, <3>3, <3>4, MaterialsSteps
  <2>6. CASE of # "materials"
    <3> DEFINE p == <<Records(of, n)>>
    <3>1. p \in Seq(Plain)
      BY <2>1, <2>2, <2>6, HeaderTypes, FieldTypes DEF IndexInv, ReadInv
    <3>2. ~IsMaterials(todo[1])
      BY <2>6 DEF IsMaterials
    <3>3. CASE of # "faces"
      <4>1. counts'["faces"] = counts["faces"]
        BY <2>3, <3>3 DEF IndexInv, ReadInv, Tables
      <4> QED BY <2>1, <2>3, <2>4, <3>1, <3>2, <4>1, PlainSteps
    <3>4. CASE of = "faces"
      <4>1. counts' = [counts EXCEPT !["faces"] = n] /\ n <= file.most["faces"] /\ n % 3 = 0
        BY <1>3, <2>3, <3>4 DEF Tables
      <4>2. counts'["faces"] = n
        BY SMTT(40), <4>1 DEF IndexInv, ReadInv, Tables
      <4> QED BY <2>1, <2>2, <2>3, <3>1, <3>4, <4>1, <4>2, FacesCount DEF IsFaces
    <3> QED BY <3>3, <3>4
  <2> QED BY <2>5, <2>6
<1> QED BY <1>1, <1>2, <1>3

\* Once the indices are checked, nothing is left to read.
ReadOut == pc \in {"check", "done"} => todo = <<>>

LEMMA StepReadOut == ReadOut /\ [Next]_vars => ReadOut'
BY DEF ReadOut, Next, vars, Fatal, Reads, Unreadable, RefuseHeader, ReadHeader, Truncated, ReadData,
       ReadText, ReadIndex, ReadFace, ReadCount, NextRecord, EndOfList, ReadSelect, RefuseSelect,
       ReadFaceCount, ReadEnd, CheckIndex, Succeed

LEMMA DrawInit == Init => DrawInv
<1> SUFFICES ASSUME Init PROVE DrawInv
  OBVIOUS
<1>1. /\ todo = <<>> /\ raised = <<>> /\ consumed = 0 /\ counts["faces"] = 0
      /\ file.most["faces"] \in Nat
  BY FilesAssumption DEF Init, Tables
<1>2. Ordered(todo) /\ AtMaterials(todo) = {}
  BY <1>1 DEF Ordered, AtMaterials
<1>3. raised \in Seq(Codes \X Places) /\ Short \notin Range(raised)
  BY <1>1 DEF Range
<1>4. 0 % 3 = 0
  OBVIOUS
<1> QED BY <1>1, <1>2, <1>3, <1>4 DEF DrawInv

LEMMA StepDraws == IndexInv /\ DrawInv /\ [Next]_vars => DrawInv'
<1> SUFFICES ASSUME IndexInv, DrawInv, [Next]_vars PROVE DrawInv'
  OBVIOUS
<1>0. /\ HeaderOK /\ pc \in Pcs /\ todo \in Seq(Fields) /\ file \in Files
      /\ table \in Places /\ raised \in Seq(Codes \X Places)
  BY HeaderTypes DEF IndexInv, ReadInv, DrawInv, Places
<1>a. \A x : x.f \notin {"list", "records"} => ~IsMaterials(x)
  BY DEF IsMaterials
<1>1. CASE Unreadable
  BY <1>1, FatalDraws DEF Unreadable
<1>2. CASE RefuseHeader
  BY <1>2, FatalDraws DEF RefuseHeader
<1>3. CASE ReadHeader
  <2>1. /\ pc = "header" /\ pc' = "read" /\ todo' = Body
        /\ UNCHANGED <<file, counts, consumed>>
        /\ Report("UNKNOWN_GLOBALS", "header") \/ Silent
    BY <1>3 DEF ReadHeader
  <2>2. raised' \in Seq(Codes \X Places) /\ (Short \in Range(raised') <=> Short \in Range(raised))
    BY <2>1, OtherReports DEF Codes, Places
  <2>3. raised = <<>> /\ consumed = 0
    BY <2>1 DEF DrawInv
  <2>4. Short \notin Range(raised')
    BY <2>2, <2>3 DEF Range
  <2>5. /\ Ordered(todo') /\ AtMaterials(todo') # {}
        /\ \A i \in AtMaterials(todo') : todo'[i].f = "list"
    BY <1>0, <2>1, BodyOrder
  <2> QED BY <2>1, <2>2, <2>3, <2>4, <2>5 DEF DrawInv
<1>4. CASE Truncated
  BY <1>4, FatalDraws DEF Truncated
<1>5. CASE ReadData
  BY <1>5, <1>a, FieldSteps DEF ReadData, Reads, Silent
<1>6. CASE \E n \in Lengths(remaining - 4), decodes \in BOOLEAN : ReadText(n, decodes)
  <2> PICK n \in Lengths(remaining - 4), decodes \in BOOLEAN : ReadText(n, decodes)
    BY <1>6
  <2>1. CASE n < 0 \/ n > remaining - 4
    BY <2>1, FatalDraws DEF ReadText
  <2>2. CASE ~(n < 0 \/ n > remaining - 4)
    <3>1. /\ todo # <<>> /\ todo' = Tail(todo) /\ UNCHANGED <<pc, file, counts, consumed>>
          /\ pc = "read"
          /\ Report("TEXT_INVALID", table) \/ Silent
          /\ todo[1].f = "text"
      BY <2>2 DEF ReadText, Reads
    <3>2. raised' \in Seq(Codes \X Places) /\ (Short \in Range(raised') <=> Short \in Range(raised))
      BY <3>1, <1>0, OtherReports DEF Codes
    <3>3. ~IsMaterials(todo[1]) /\ <<>> \in Seq(Plain) /\ todo' = <<>> \o Tail(todo)
      BY <3>1, <1>0, <1>a
    <3>4. UNCHANGED <<file, counts["faces"], consumed>> /\ pc' # "header" /\ todo # <<>>
      BY <3>1
    <3> QED BY <3>2, <3>3, <3>4, PlainSteps
  <2> QED BY <2>1, <2>2
<1>7. CASE Reads("index") /\ \E v \in Stored(todo[1].n) : ReadIndex(v)
  BY <1>7, <1>a, FieldSteps DEF ReadIndex, Reads, Silent
<1>8. CASE Reads("face") /\ \E v \in Stored(todo[1].n) : ReadFace(v)
  <2> PICK v \in Stored(todo[1].n) : ReadFace(v)
    BY <1>8
  <2> DEFINE out == VertexOutOfRange(Decoded("vertices", todo[1].n, v), counts["vertices"])
  <2>1. CASE out
    BY <2>1, FatalDraws DEF ReadFace
  <2>2. CASE ~out
    BY <2>2, <1>a, FieldSteps DEF ReadFace, Reads, Silent
  <2> QED BY <2>1, <2>2
<1>9. CASE Reads("list") /\ \E n \in Counts((remaining - 4) \div MinimumOf(todo[1].of)) : ReadCount(n)
  BY <1>9, CountSteps
<1>10. CASE NextRecord
  <2> DEFINE of == todo[1].of
             left == todo[1].left - 1
  <2>1. of \in Lists /\ left \in Nat /\ todo # <<>> /\ todo[1].f = "records"
    <3>1. todo[1] \in Fields /\ todo[1].f = "records" /\ todo[1].left > 0 /\ todo # <<>>
      BY <1>0, <1>10 DEF NextRecord, Reads
    <3> QED BY <3>1 DEF Fields
  <2>2. /\ todo' = Record(of) \o <<Records(of, left)>> \o Tail(todo)
        /\ UNCHANGED <<pc, file, counts, consumed, raised>> /\ pc = "read"
    BY <1>10 DEF NextRecord, Reads, Silent
  <2>3. UNCHANGED <<file, counts["faces"], consumed, raised>> /\ pc' # "header"
    BY <2>2
  <2>4. CASE of = "materials"
    <3>1. /\ MaterialStart \in Seq(Plain)
          /\ todo' = ((MaterialStart \o <<FaceCount>>) \o <<Records("materials", left)>>) \o Tail(todo)
      BY <1>0, <2>2, <2>4, RecordTypes
    <3>2. IsMaterials(todo[1])
      BY <2>1, <2>4 DEF IsMaterials
    <3> QED BY <2>1, <2>3, <3>1, <3>2, MaterialsSteps
  <2>5. CASE of # "materials"
    <3> DEFINE p == Record(of) \o <<Records(of, left)>>
    <3>1. Record(of) \in Seq(Plain) /\ <<Records(of, left)>> \in Seq(Plain)
      BY <1>0, <2>1, <2>5, RecordTypes, FieldTypes
    <3>2. p \in Seq(Plain) /\ todo' = p \o Tail(todo)
      BY <2>2, <3>1, ConcatProperties
    <3>3. ~IsMaterials(todo[1])
      BY <2>5 DEF IsMaterials
    <3>4. raised' \in Seq(Codes \X Places) /\ (Short \in Range(raised') <=> Short \in Range(raised))
      BY <1>0, <2>3
    <3> HIDE DEF p
    <3> QED BY <2>1, <2>3, <3>2, <3>3, <3>4, PlainSteps
  <2> QED BY <2>4, <2>5
<1>11. CASE EndOfList
  <2>1. CASE IsMaterials(todo[1])
    BY <1>11, <2>1, MaterialsEnd
  <2>2. CASE ~IsMaterials(todo[1])
    <3>1. todo[1].of # "materials"
      BY <1>11, <2>2 DEF EndOfList, Reads, IsMaterials
    <3> QED BY <1>11, <2>2, <3>1, FieldSteps DEF EndOfList, Reads, Silent
  <2> QED BY <2>1, <2>2
<1>12. CASE Reads("select") /\ \E v \in LayoutValues(todo[1].what) : ReadSelect(v)
  <2> PICK v \in LayoutValues(todo[1].what) : ReadSelect(v)
    BY <1>12
  <2> DEFINE p == Chosen(todo[1].what, v)
  <2>1. todo[1].what \in {"deform", "toon", "bone", "limits", "morph", "kind"}
    <3>1. todo[1] \in Fields /\ todo[1].f = "select"
      BY <1>0, <1>12 DEF Reads
    <3> QED BY <3>1 DEF Fields
  <2>2. p \in Seq(Plain)
    BY <1>0, <2>1, ChosenTypes
  <2>3. /\ todo' = p \o Tail(todo) /\ todo # <<>> /\ todo[1].f = "select"
        /\ UNCHANGED <<pc, file, counts, consumed, raised>> /\ pc = "read"
    BY <1>12 DEF ReadSelect, Reads, Silent
  <2>4. ~IsMaterials(todo[1])
    BY <2>3, <1>a
  <2>5. UNCHANGED <<file, counts["faces"], consumed>> /\ pc' # "header"
    BY <2>3
  <2>6. raised' \in Seq(Codes \X Places) /\ (Short \in Range(raised') <=> Short \in Range(raised))
    BY <1>0, <2>3
  <2> HIDE DEF p
  <2> QED BY <2>2, <2>3, <2>4, <2>5, <2>6, PlainSteps
<1>13. CASE RefuseSelect
  BY <1>13, FatalDraws DEF RefuseSelect
<1>14. CASE Reads("faceCount") /\ \E n \in Counts(Left) : ReadFaceCount(n)
  <2> PICK n \in Counts(Left) : ReadFaceCount(n)
    BY <1>14
  <2>1. Left \in 0..file.most["faces"]
    <3>1. file.most["faces"] \in Nat
      BY <1>0, FilesAssumption DEF Tables
    <3>2. consumed \in Nat /\ counts["faces"] \in Nat /\ consumed <= counts["faces"]
          /\ counts["faces"] <= file.most["faces"]
      BY DrawType DEF DrawInv
    <3> QED BY <3>1, <3>2 DEF Left
  <2>2. n \in Int
    BY <1>0, <2>1, CountsAssumption
  <2> QED BY <2>2, DrawingSteps
<1>15. CASE ReadEnd
  <2>1. /\ UNCHANGED <<file, counts, consumed, todo>> /\ pc' = "check"
        /\ Report("TRAILING_BYTES", "") \/ Silent
    BY <1>15 DEF ReadEnd
  <2>2. raised' \in Seq(Codes \X Places) /\ (Short \in Range(raised') <=> Short \in Range(raised))
    BY <2>1, OtherReports DEF Codes, Places
  <2> QED BY <2>1, <2>2 DEF DrawInv
<1>16. CASE CheckIndex
  <2> DEFINE where == refs[checked + 1].table
  <2>1. /\ UNCHANGED <<pc, file, counts, consumed, todo>> /\ pc = "check"
        /\ Report("INDEX_OUT_OF_RANGE", where) \/ Silent
    BY <1>16 DEF CheckIndex
  <2>2. where \in Places
    <3>1. checked + 1 \in 1..Len(refs) /\ refs \in Seq(Refs)
      BY <1>16 DEF CheckIndex, IndexInv, ReadInv
    <3>2. refs[checked + 1] \in Refs
      BY <3>1
    <3> QED BY <3>2 DEF Refs, Places
  <2>3. raised' \in Seq(Codes \X Places) /\ (Short \in Range(raised') <=> Short \in Range(raised))
    BY <2>1, <2>2, OtherReports DEF Codes
  <2> QED BY <2>1, <2>3 DEF DrawInv
<1>17. CASE Succeed
  BY <1>17 DEF Succeed, Silent, DrawInv
<1>18. CASE UNCHANGED vars
  BY <1>18 DEF vars, DrawInv
<1> QED
  BY <1>1, <1>2, <1>3, <1>4, <1>5, <1>6, <1>7, <1>8, <1>9, <1>10, <1>11, <1>12, <1>13,
     <1>14, <1>15, <1>16, <1>17, <1>18 DEF Next

\* Whatever the counts a file states and in however many draws, the materials
\* of the document draw whole triangles of the faces there are, and those they
\* leave are reported.
THEOREM FacesAreDrawn == Spec => []MaterialsDrawTheFaces
<1>1. Init => IndexInv /\ ReadOut /\ DrawInv
  BY InitIndices, DrawInit DEF Init, ReadOut
<1>2. IndexInv /\ ReadOut /\ DrawInv /\ [Next]_vars => (IndexInv /\ ReadOut /\ DrawInv)'
  BY StepIndices, StepDraws, StepReadOut
<1>3. IndexInv /\ ReadOut /\ DrawInv => MaterialsDrawTheFaces
  <2> SUFFICES ASSUME ReadOut, DrawInv, pc = "done"
               PROVE  /\ counts["faces"] % 3 = 0 /\ consumed % 3 = 0 /\ consumed <= counts["faces"]
                      /\ consumed < counts["faces"] <=> Short \in Range(raised)
    BY DEF MaterialsDrawTheFaces, Short
  <2>1. AtMaterials(todo) = {}
    BY DEF ReadOut, AtMaterials
  <2> QED BY <2>1 DEF DrawInv
<1> QED BY <1>1, <1>2, <1>3, PTL DEF Spec

-----------------------------------------------------------------------------
(* The smallest record *)

\* The bytes of some fields, texts and lists without what they announce.
Bytes(s) == Total(Sizes(s))

LEMMA FieldSize == \A x \in Fields : x.n \in Nat
BY DEF Fields, Widths

\* The number g has for each field.
Mapped(s, g) == [i \in DOMAIN s |-> g[s[i]]]

LEMMA MappedType ==
  ASSUME NEW g \in [Fields -> Nat], NEW s \in Seq(Fields)
  PROVE  Mapped(s, g) \in Seq(Nat) /\ Len(Mapped(s, g)) = Len(s)
<1>1. Len(s) \in Nat /\ DOMAIN s = 1..Len(s) /\ \A i \in 1..Len(s) : g[s[i]] \in Nat
  BY SequenceShape
<1>2. Mapped(s, g) = [i \in 1..Len(s) |-> g[s[i]]]
  BY <1>1 DEF Mapped
<1> QED BY <1>1, <1>2

LEMMA MappedConcat ==
  ASSUME NEW g \in [Fields -> Nat], NEW s \in Seq(Fields), NEW t \in Seq(Fields)
  PROVE  /\ Total(Mapped(s \o t, g)) = Total(Mapped(s, g)) + Total(Mapped(t, g))
         /\ Total(Mapped(s, g)) \in Nat /\ Total(Mapped(t, g)) \in Nat
<1> DEFINE q == s \o t
           u == Mapped(s, g)
           v == Mapped(t, g)
           z == Mapped(q, g)
<1>1. /\ q \in Seq(Fields) /\ Len(q) = Len(s) + Len(t)
      /\ \A i \in 1..(Len(s) + Len(t)) : q[i] = IF i <= Len(s) THEN s[i] ELSE t[i - Len(s)]
  BY ConcatProperties
<1>2. u \in Seq(Nat) /\ v \in Seq(Nat) /\ Len(u) = Len(s) /\ Len(v) = Len(t)
  BY MappedType
<1>3. \A i \in 1..Len(s) : u[i] = g[s[i]]
  BY DEF Mapped
<1>4. \A i \in 1..Len(t) : v[i] = g[t[i]]
  BY DEF Mapped
<1>5. z \in Seq(Nat) /\ Len(z) = Len(q) /\ \A i \in 1..Len(q) : z[i] = g[q[i]]
  <2>1. q \in Seq(Fields)
    BY <1>1
  <2> HIDE DEF q
  <2>2. z \in Seq(Nat) /\ Len(z) = Len(q)
    BY <2>1, MappedType
  <2>3. \A i \in 1..Len(q) : z[i] = g[q[i]]
    BY <2>1 DEF Mapped
  <2> QED BY <2>2, <2>3
<1> HIDE DEF q, u, v, z
<1>6. /\ u \o v \in Seq(Nat) /\ Len(u \o v) = Len(s) + Len(t)
      /\ \A i \in 1..(Len(s) + Len(t)) : (u \o v)[i] = IF i <= Len(s) THEN u[i] ELSE v[i - Len(s)]
  <2>1. /\ u \o v \in Seq(Nat) /\ Len(u \o v) = Len(u) + Len(v)
        /\ \A i \in 1..(Len(u) + Len(v)) : (u \o v)[i] = IF i <= Len(u) THEN u[i] ELSE v[i - Len(u)]
    BY <1>2, ConcatProperties
  <2> QED BY <1>2, <2>1, Zenon
<1>7. ASSUME NEW i \in 1..Len(q) PROVE z[i] = (u \o v)[i]
  <2>0. i \in 1..(Len(s) + Len(t)) /\ Len(s) \in Nat /\ Len(t) \in Nat
    BY <1>1
  <2>1. CASE i <= Len(s)
    <3>1. i \in 1..Len(s)
      BY <2>0, <2>1
    <3>2. q[i] = s[i] /\ (u \o v)[i] = u[i]
      BY <1>1, <1>6, <2>0, <2>1
    <3> QED BY <3>1, <3>2, <1>3, <1>5
  <2>2. CASE ~(i <= Len(s))
    <3>1. i - Len(s) \in 1..Len(t)
      BY <2>0, <2>2
    <3>2. q[i] = t[i - Len(s)] /\ (u \o v)[i] = v[i - Len(s)]
      BY <1>1, <1>6, <2>0, <2>2
    <3> QED BY <3>1, <3>2, <1>4, <1>5
  <2> QED BY <2>1, <2>2
<1>8. z = u \o v
  <2>1. z \in Seq(Nat) /\ u \o v \in Seq(Nat) /\ Len(z) = Len(u \o v)
    BY <1>1, <1>5, <1>6
  <2>2. \A i \in 1..Len(z) : z[i] = (u \o v)[i]
    BY <1>5, <1>7
  <2> QED BY <2>1, <2>2, SeqEqual
<1>9. Total(u \o v) = Total(u) + Total(v) /\ Total(u) \in Nat /\ Total(v) \in Nat
  BY <1>2, TotalConcat, TotalType
<1> QED BY <1>8, <1>9 DEF q, u, v, z

Size == [x \in Fields |-> x.n]

LEMMA BytesMapped ==
  /\ Size \in [Fields -> Nat]
  /\ \A s \in Seq(Fields) : Bytes(s) = Total(Mapped(s, Size))
<1>1. ASSUME NEW s \in Seq(Fields) PROVE Sizes(s) = Mapped(s, Size)
  <2>1. \A i \in DOMAIN s : s[i] \in Fields
    BY SequenceShape
  <2> QED BY <2>1 DEF Sizes, Mapped, Size
<1> QED BY <1>1, FieldSize DEF Size, Bytes

LEMMA BytesConcat ==
  ASSUME NEW s \in Seq(Fields), NEW t \in Seq(Fields)
  PROVE  Bytes(s \o t) = Bytes(s) + Bytes(t) /\ Bytes(s) \in Nat /\ Bytes(t) \in Nat
<1>1. s \o t \in Seq(Fields)
  BY ConcatProperties
<1>2. Bytes(s) = Total(Mapped(s, Size)) /\ Bytes(t) = Total(Mapped(t, Size))
  BY BytesMapped
<1>3. Bytes(s \o t) = Total(Mapped(s \o t, Size))
  BY <1>1, BytesMapped
<1> QED BY <1>2, <1>3, BytesMapped, MappedConcat

LEMMA BytesType == ASSUME NEW s \in Seq(Fields) PROVE Bytes(s) \in Nat
BY BytesConcat

LEMMA BytesOne == ASSUME NEW x \in Fields PROVE Bytes(<<x>>) = x.n
<1>1. Sizes(<<x>>) = <<x.n>> /\ x.n \in Nat
  BY FieldSize DEF Sizes
<1> QED BY <1>1, TotalOne DEF Bytes

LEMMA BytesNone == Bytes(<<>>) = 0
<1>1. Sizes(<<>>) = <<>>
  BY DEF Sizes
<1> QED BY <1>1, TotalNone DEF Bytes

LEMMA BytesMore ==
  ASSUME NEW s \in Seq(Fields), NEW x \in Fields
  PROVE  Bytes(Append(s, x)) = Bytes(s) + x.n /\ Append(s, x) \in Seq(Fields) /\ Bytes(s) \in Nat
<1>1. Append(s, x) = s \o <<x>> /\ <<x>> \in Seq(Fields) /\ Append(s, x) \in Seq(Fields)
  OBVIOUS
<1> QED BY <1>1, BytesConcat, BytesOne

LEMMA BytesTwo ==
  ASSUME NEW x \in Fields, NEW y \in Fields
  PROVE  Bytes(<<x, y>>) = x.n + y.n
<1>1. <<x, y>> = Append(<<x>>, y) /\ <<x>> \in Seq(Fields)
  OBVIOUS
<1> QED BY <1>1, BytesMore, BytesOne

LEMMA BytesAtLeast ==
  ASSUME NEW s \in Seq(Fields), s # <<>>
  PROVE  Bytes(s) >= s[1].n /\ Bytes(s) \in Nat
<1>1. s = <<s[1]>> \o Tail(s) /\ s[1] \in Fields /\ <<s[1]>> \in Seq(Fields) /\ Tail(s) \in Seq(Fields)
  OBVIOUS
<1>2. Bytes(<<s[1]>> \o Tail(s)) = Bytes(<<s[1]>>) + Bytes(Tail(s)) /\ Bytes(Tail(s)) \in Nat
  BY <1>1, BytesConcat
<1>3. Bytes(<<s[1]>>) = s[1].n /\ s[1].n \in Nat
  BY <1>1, BytesOne, FieldSize
<1>4. Bytes(s) = s[1].n + Bytes(Tail(s))
  BY <1>1, <1>2, <1>3
<1> HIDE <1>1
<1> QED BY <1>2, <1>3, <1>4

LEMMA MinIs ==
  ASSUME NEW S \in SUBSET Int, NEW m \in S, \A x \in S : m <= x
  PROVE  Min(S) = m
<1>1. Min(S) \in S /\ \A x \in S : Min(S) <= x
  BY DEF Min
<1>2. Min(S) \in Int /\ m \in Int /\ Min(S) <= m /\ m <= Min(S)
  BY <1>1
<1> QED BY <1>2

\* The sizes that a layout byte chooses from.
ChosenSizes(what) == {Bytes(Chosen(what, v)) : v \in LayoutValues(what)}

LEMMA ChosenSizesType ==
  ASSUME HeaderOK, NEW what \in {"deform", "toon", "bone", "limits", "morph", "kind"}
  PROVE  ChosenSizes(what) \in SUBSET Int
<1>1. ASSUME NEW v \in LayoutValues(what) PROVE Bytes(Chosen(what, v)) \in Int
  <2>1. Chosen(what, v) \in Seq(Fields)
    BY ChosenTypes, PlainFields
  <2>2. Bytes(Chosen(what, v)) \in Nat
    BY <2>1, BytesType
  <2> QED BY <2>2
<1> QED BY <1>1 DEF ChosenSizes

\* The chosen size m and no smaller one.
LEMMA LeastChoice ==
  ASSUME HeaderOK, NEW what \in {"deform", "toon", "bone", "limits", "morph", "kind"},
         NEW m, NEW v \in LayoutValues(what), Bytes(Chosen(what, v)) = m,
         \A x \in LayoutValues(what) : m <= Bytes(Chosen(what, x))
  PROVE  Min(ChosenSizes(what)) = m
<1>1. m \in ChosenSizes(what) /\ \A x \in ChosenSizes(what) : m <= x
  BY DEF ChosenSizes
<1> QED BY <1>1, ChosenSizesType, MinIs

WidthOf(to) == header.width[to]

LEMMA WidthTypes == HeaderOK => \A to \in Tables : WidthOf(to) \in Widths
BY DEF HeaderOK, Headers, Widths, WidthOf

LEMMA RefSize ==
  ASSUME HeaderOK, NEW to \in Tables
  PROVE  Ref(to) \in Fields /\ Ref(to).n = WidthOf(to) /\ Index(to, TRUE) \in Fields /\ Index(to, TRUE).n = WidthOf(to)
<1>1. Ref(to) \in Plain /\ Index(to, TRUE) \in Plain
  BY FieldTypes
<1> QED BY <1>1 DEF Plain, Ref, Index, WidthOf

LEMMA DataSize == HeaderOK => \A n \in Nat : Data(n) \in Fields /\ Data(n).n = n
<1> SUFFICES ASSUME HeaderOK, NEW n \in Nat PROVE Data(n) \in Fields /\ Data(n).n = n
  OBVIOUS
<1>1. Data(n) \in Plain
  BY FieldTypes
<1> QED BY <1>1 DEF Plain, Data

LEMMA ListSize == HeaderOK => \A of \in Lists : List(of) \in Fields /\ List(of).n = 4
BY FieldTypes DEF List

\* A deform has one bone or more.
LEMMA LeastDeform == HeaderOK => Min(ChosenSizes("deform")) = WidthOf("bones")
<1> SUFFICES ASSUME HeaderOK PROVE Min(ChosenSizes("deform")) = WidthOf("bones")
  OBVIOUS
<1> DEFINE w == WidthOf("bones")
<1>1. \A v \in LayoutValues("deform") : v[1] \in 0..4
  BY DEF LayoutValues, Deforms
<1>2. "bones" \in Tables
  BY DEF Tables
<1>3. ASSUME NEW n \in {1, 2, 4}, NEW ws
      PROVE  /\ Influences(n, ws) \in Seq(Fields) /\ Len(Influences(n, ws)) = n
             /\ Influences(n, ws)[1].n = w
  <2>1. /\ Index("bones", TRUE) \in Fields /\ Ref("bones") \in Fields
        /\ Index("bones", TRUE).n = w /\ Ref("bones").n = w
    BY <1>2, RefSize
  <2>2. /\ Influences(n, ws) \in [1..n -> Fields]
        /\ Influences(n, ws)[1] = IF 1 \in ws THEN Index("bones", TRUE) ELSE Ref("bones")
    <3>1. 1 \in 1..n
      OBVIOUS
    <3> QED BY <2>1, <3>1 DEF Influences
  <2>3. Influences(n, ws)[1].n = w
    BY <2>1, <2>2
  <2>4. Influences(n, ws) \in Seq(Fields) /\ Len(Influences(n, ws)) = n
    BY <2>2
  <2> QED BY <2>3, <2>4
<1>4. ASSUME NEW v \in LayoutValues("deform") PROVE w <= Bytes(Chosen("deform", v))
  <2>1. Chosen("deform", v) = Deform(v)
    BY DEF Chosen
  <2>2. ASSUME NEW n \in {1, 2, 4}, NEW d \in Fields
        PROVE  /\ w <= Bytes(Append(Influences(n, v[2]), d))
               /\ w <= Bytes(Influences(n, v[2]))
    <3> DEFINE s == Influences(n, v[2])
    <3>1. s \in Seq(Fields) /\ Len(s) = n /\ s[1].n = w
      BY <1>3
    <3> HIDE DEF s
    <3>2. Append(s, d) \in Seq(Fields) /\ Append(s, d)[1] = s[1] /\ Append(s, d) # <<>> /\ s # <<>>
      BY <3>1
    <3>3. Bytes(s) >= s[1].n /\ Bytes(s) \in Nat
      BY <3>1, <3>2, BytesAtLeast
    <3>4. Bytes(Append(s, d)) >= Append(s, d)[1].n /\ Bytes(Append(s, d)) \in Nat
      BY <3>2, BytesAtLeast
    <3>5. w \in Nat
      BY <1>2, WidthTypes DEF Widths
    <3> HIDE DEF w
    <3> QED BY <3>1, <3>2, <3>3, <3>4, <3>5 DEF s
  <2>3. Data(4) \in Fields /\ Data(4 + 12 + 12 + 12) \in Fields /\ Data(16) \in Fields
    BY DataSize
  <2> QED BY <2>1, <2>2, <2>3 DEF Deform
<1>5. <<0, {1}>> \in LayoutValues("deform")
  BY DEF LayoutValues, Deforms
<1>6. Bytes(Chosen("deform", <<0, {1}>>)) = w
  <2> DEFINE s == Influences(1, {1})
  <2>1. s \in Seq(Fields) /\ Len(s) = 1 /\ s[1].n = w
    BY <1>3
  <2>2. Chosen("deform", <<0, {1}>>) = s
    BY DEF Chosen, Deform
  <2> HIDE DEF s
  <2>3. s = <<s[1]>> /\ s[1] \in Fields
    BY <2>1
  <2>4. Bytes(<<s[1]>>) = s[1].n
    BY <2>3, BytesOne
  <2> QED BY <2>1, <2>2, <2>3, <2>4
<1> QED BY <1>4, <1>5, <1>6, LeastChoice

\* A toon is one of ten or a texture.
LEMMA LeastToon == HeaderOK => Min(ChosenSizes("toon")) = 1
<1> SUFFICES ASSUME HeaderOK PROVE Min(ChosenSizes("toon")) = 1
  OBVIOUS
<1>1. LayoutValues("toon") = {0, 1}
  BY DEF LayoutValues
<1>2. Chosen("toon", 0) = <<Ref("textures")>> /\ Chosen("toon", 1) = <<Data(1)>>
  BY DEF Chosen
<1>3. Bytes(<<Data(1)>>) = 1
  BY DataSize, BytesOne
<1>4. Bytes(<<Ref("textures")>>) = WidthOf("textures") /\ WidthOf("textures") \in Widths
  BY RefSize, BytesOne, WidthTypes DEF Tables
<1>5. WidthOf("textures") >= 1
  BY <1>4 DEF Widths
<1>6. \A v \in LayoutValues("toon") : 1 <= Bytes(Chosen("toon", v))
  BY <1>1, <1>2, <1>3, <1>4, <1>5
<1>7. 1 \in LayoutValues("toon") /\ Bytes(Chosen("toon", 1)) = 1
  BY <1>1, <1>2, <1>3
<1> QED BY <1>6, <1>7, LeastChoice

\* An IK link has its limits or none.
LEMMA LeastLimits == HeaderOK => Min(ChosenSizes("limits")) = 0
<1> SUFFICES ASSUME HeaderOK PROVE Min(ChosenSizes("limits")) = 0
  OBVIOUS
<1>1. LayoutValues("limits") = {0, 1}
  BY DEF LayoutValues
<1>2. Chosen("limits", 1) = <<Data(12), Data(12)>> /\ Chosen("limits", 0) = <<>>
  BY DEF Chosen
<1>3. Bytes(<<>>) = 0 /\ Bytes(<<Data(12), Data(12)>>) = 24
  BY DataSize, BytesTwo, BytesNone
<1>4. \A v \in LayoutValues("limits") : 0 <= Bytes(Chosen("limits", v))
  BY <1>1, <1>2, <1>3
<1>5. 0 \in LayoutValues("limits") /\ Bytes(Chosen("limits", 0)) = 0
  BY <1>1, <1>2, <1>3
<1> QED BY <1>4, <1>5, LeastChoice

\* Every morph has a list of offsets.
LEMMA LeastMorph == HeaderOK => Min(ChosenSizes("morph")) = 4
<1> SUFFICES ASSUME HeaderOK PROVE Min(ChosenSizes("morph")) = 4
  OBVIOUS
<1>1. LayoutValues("morph") \subseteq 0..10 /\ 0 \in LayoutValues("morph")
  BY DEF LayoutValues
<1>2. \A of \in Lists : Bytes(<<List(of)>>) = 4
  BY ListSize, BytesOne
<1>3. ASSUME NEW v \in LayoutValues("morph") PROVE Bytes(Chosen("morph", v)) = 4
  <2>1. v \in 0..10 /\ Chosen("morph", v) = Offsets(v)
    BY <1>1 DEF Chosen
  <2>2. \E of \in Lists : Offsets(v) = <<List(of)>>
    BY <2>1 DEF Offsets, Lists, Tables
  <2> QED BY <1>2, <2>1, <2>2
<1> QED BY <1>1, <1>3, LeastChoice

\* An element of a display frame is a bone or a morph.
LEMMA LeastKind ==
  HeaderOK => /\ Min(ChosenSizes("kind")) = Min({WidthOf("bones"), WidthOf("morphs")})
              /\ Min(ChosenSizes("kind")) \in Widths
<1> SUFFICES ASSUME HeaderOK
             PROVE  /\ Min(ChosenSizes("kind")) = Min({WidthOf("bones"), WidthOf("morphs")})
                    /\ Min(ChosenSizes("kind")) \in Widths
  OBVIOUS
<1>1. LayoutValues("kind") = {0, 1}
  BY DEF LayoutValues
<1>2. Chosen("kind", 0) = <<Ref("bones")>> /\ Chosen("kind", 1) = <<Ref("morphs")>>
  BY DEF Chosen
<1>3. Bytes(<<Ref("bones")>>) = WidthOf("bones") /\ Bytes(<<Ref("morphs")>>) = WidthOf("morphs")
  BY RefSize, BytesOne DEF Tables
<1>4. ChosenSizes("kind") = {WidthOf("bones"), WidthOf("morphs")}
  BY <1>1, <1>2, <1>3 DEF ChosenSizes
<1>5. WidthOf("bones") \in Widths /\ WidthOf("morphs") \in Widths
  BY WidthTypes DEF Tables
<1>6. \E m \in {WidthOf("bones"), WidthOf("morphs")} :
        \A x \in {WidthOf("bones"), WidthOf("morphs")} : m <= x
  BY <1>5 DEF Widths
<1>7. Min({WidthOf("bones"), WidthOf("morphs")}) \in Widths
  BY <1>5, <1>6 DEF Min
<1> QED BY <1>4, <1>7

\* Any bone has the bone at its tail or a position, which is not smaller.
LEMMA LeastBone == HeaderOK => Min(ChosenSizes("bone")) = WidthOf("bones")
<1> SUFFICES ASSUME HeaderOK PROVE Min(ChosenSizes("bone")) = WidthOf("bones")
  OBVIOUS
<1> DEFINE w == WidthOf("bones")
<1>1. LayoutValues("bone") = BoneFlags /\ {"tail"} \in BoneFlags
  BY BoneFlagsAssumption DEF LayoutValues
<1>2. w \in Widths /\ Bytes(<<Ref("bones")>>) = w /\ Bytes(<<Data(12)>>) = 12
  BY RefSize, DataSize, WidthTypes, BytesOne DEF Tables
<1>3. \A v : Chosen("bone", v) = BoneRest(v)
  BY DEF Chosen
<1>4. /\ <<Ref("bones")>> \in Seq(Fields) /\ <<Data(12)>> \in Seq(Fields)
      /\ <<Ref("bones"), Data(4)>> \in Seq(Fields) /\ <<Data(12), Data(12)>> \in Seq(Fields)
      /\ <<Data(4)>> \in Seq(Fields)
      /\ <<Ref("bones"), Data(4 + 4), List("links")>> \in Seq(Fields) /\ <<>> \in Seq(Fields)
  BY RefSize, DataSize, ListSize DEF Tables, Lists
<1>5. ASSUME NEW v
      PROVE  w <= Bytes(BoneRest(v))
  <2> DEFINE a == IF "tail" \in v THEN <<Ref("bones")>> ELSE <<Data(12)>>
             b == If("append", v, <<Ref("bones"), Data(4)>>)
             c == If("fixed", v, <<Data(12)>>)
             d == If("local", v, <<Data(12), Data(12)>>)
             e == If("external", v, <<Data(4)>>)
             f == If("ik", v, <<Ref("bones"), Data(4 + 4), List("links")>>)
  <2>1. /\ a \in Seq(Fields) /\ b \in Seq(Fields) /\ c \in Seq(Fields) /\ d \in Seq(Fields)
        /\ e \in Seq(Fields) /\ f \in Seq(Fields)
    BY <1>4 DEF If
  <2>2. w <= Bytes(a) /\ Bytes(a) \in Nat
    BY <1>2 DEF Widths
  <2>3. BoneRest(v) = ((((a \o b) \o c) \o d) \o e) \o f
    BY DEF BoneRest
  <2> HIDE DEF a, b, c, d, e, f
  <2>4. \A s, t \in Seq(Fields) : /\ s \o t \in Seq(Fields)
                                 /\ Bytes(s) <= Bytes(s \o t) /\ Bytes(s) \in Nat /\ Bytes(s \o t) \in Nat
    <3> TAKE s, t \in Seq(Fields)
    <3>1. s \o t \in Seq(Fields)
      BY ConcatProperties
    <3>2. Bytes(s \o t) = Bytes(s) + Bytes(t) /\ Bytes(s) \in Nat /\ Bytes(t) \in Nat
      BY BytesConcat
    <3> QED BY <3>1, <3>2
  <2> DEFINE p == a \o b
             q == p \o c
             r == q \o d
             u == r \o e
             x == u \o f
  <2>5. p \in Seq(Fields) /\ Bytes(a) <= Bytes(p) /\ Bytes(p) \in Nat
    BY <2>1, <2>4
  <2>6. q \in Seq(Fields) /\ Bytes(p) <= Bytes(q) /\ Bytes(q) \in Nat
    <3> HIDE DEF p
    <3> QED BY <2>1, <2>4, <2>5
  <2>7. r \in Seq(Fields) /\ Bytes(q) <= Bytes(r) /\ Bytes(r) \in Nat
    <3> HIDE DEF q
    <3> QED BY <2>1, <2>4, <2>6
  <2>8. u \in Seq(Fields) /\ Bytes(r) <= Bytes(u) /\ Bytes(u) \in Nat
    <3> HIDE DEF r
    <3> QED BY <2>1, <2>4, <2>7
  <2>9. Bytes(u) <= Bytes(x) /\ Bytes(x) \in Nat
    <3> HIDE DEF u
    <3> QED BY <2>1, <2>4, <2>8
  <2>10. BoneRest(v) = x
    BY <2>3
  <2>11. w \in Nat
    BY <1>2 DEF Widths
  <2> HIDE DEF p, q, r, u, x, w
  <2> QED BY <2>2, <2>5, <2>6, <2>7, <2>8, <2>9, <2>10, <2>11
<1>6. BoneRest({"tail"}) = <<Ref("bones")>>
  BY <1>4 DEF BoneRest, If
<1> QED BY <1>1, <1>2, <1>3, <1>5, <1>6, LeastChoice

\* The least size of a field is a number.
LEMMA LeastSizeType ==
  ASSUME HeaderOK
  PROVE  /\ \A x \in Fields : x.f # "select" => LeastSize(x) = x.n
         /\ \A x \in Fields : LeastSize(x) \in Nat
         /\ LeastSize(Select("deform", 1)) = 1 + WidthOf("bones")
         /\ LeastSize(Select("toon", 1)) = 2
         /\ LeastSize(Select("bone", 2)) = 2 + WidthOf("bones")
         /\ LeastSize(Select("limits", 1)) = 1
         /\ LeastSize(Select("morph", 1)) = 5
         /\ LeastSize(Select("kind", 1)) = 1 + Min({WidthOf("bones"), WidthOf("morphs")})
<1>0. \A x : x.f = "select" => LeastSize(x) = x.n + Min(ChosenSizes(x.what))
  BY Zenon DEF LeastSize, ChosenSizes, Bytes
<1>1. \A what : \A n : LeastSize(Select(what, n)) = n + Min(ChosenSizes(what))
  <2> TAKE what
  <2> TAKE n
  <2> DEFINE x == Select(what, n)
  <2>1. x.f = "select" /\ x.n = n /\ x.what = what
    BY DEF Select
  <2> HIDE DEF x
  <2>2. LeastSize(x) = n + Min(ChosenSizes(what))
    BY <1>0, <2>1, Zenon
  <2> QED BY <2>2 DEF x
<1>2. /\ Min(ChosenSizes("deform")) = WidthOf("bones") /\ Min(ChosenSizes("toon")) = 1
      /\ Min(ChosenSizes("bone")) = WidthOf("bones") /\ Min(ChosenSizes("limits")) = 0
      /\ Min(ChosenSizes("morph")) = 4
      /\ Min(ChosenSizes("kind")) = Min({WidthOf("bones"), WidthOf("morphs")})
      /\ Min(ChosenSizes("kind")) \in Widths
  BY LeastDeform, LeastToon, LeastBone, LeastLimits, LeastMorph, LeastKind
<1>3. WidthOf("bones") \in Nat /\ Widths \subseteq Nat
  BY WidthTypes DEF Tables, Widths
<1>4. \A what \in {"deform", "toon", "bone", "limits", "morph", "kind"} : Min(ChosenSizes(what)) \in Nat
  <2>1. /\ Min(ChosenSizes("deform")) \in Nat /\ Min(ChosenSizes("bone")) \in Nat
        /\ Min(ChosenSizes("kind")) \in Nat
    BY <1>2, <1>3
  <2>2. /\ Min(ChosenSizes("toon")) \in Nat /\ Min(ChosenSizes("limits")) \in Nat
        /\ Min(ChosenSizes("morph")) \in Nat
    BY <1>2
  <2> QED BY <2>1, <2>2, Zenon
<1>5. ASSUME NEW x \in Fields, x.f # "select" PROVE LeastSize(x) = x.n /\ LeastSize(x) \in Nat
  BY <1>5, FieldSize DEF LeastSize
<1>6. ASSUME NEW x \in Fields, x.f = "select" PROVE LeastSize(x) \in Nat
  <2>1. x \in [f : {"select"}, n : {1, 2}, what : {"deform", "toon", "bone", "limits", "morph", "kind"}]
    BY <1>6 DEF Fields
  <2>2. x = Select(x.what, x.n)
    BY <2>1 DEF Select
  <2>3. LeastSize(x) = x.n + Min(ChosenSizes(x.what))
    BY <1>1, <2>2
  <2> QED BY <2>1, <2>3, <1>4
<1>7. 1 + 1 = 2 /\ 1 + 0 = 1 /\ 1 + 4 = 5
  OBVIOUS
<1>8. /\ LeastSize(Select("toon", 1)) = 2 /\ LeastSize(Select("limits", 1)) = 1
      /\ LeastSize(Select("morph", 1)) = 5
  BY <1>1, <1>2, <1>7
<1> QED BY <1>1, <1>2, <1>5, <1>6, <1>8, Zenon

LeastOf == [x \in Fields |-> LeastSize(x)]

\* The least bytes of some fields.
LeastBytes(s) == Total(Least(s))

LEMMA LeastMapped ==
  ASSUME HeaderOK
  PROVE  /\ LeastOf \in [Fields -> Nat]
         /\ \A s \in Seq(Fields) : LeastBytes(s) = Total(Mapped(s, LeastOf))
<1>1. ASSUME NEW s \in Seq(Fields) PROVE Least(s) = Mapped(s, LeastOf)
  <2>1. \A i \in DOMAIN s : s[i] \in Fields
    BY SequenceShape
  <2> QED BY <2>1 DEF Least, Mapped, LeastOf
<1> QED BY <1>1, LeastSizeType DEF LeastOf, LeastBytes

LEMMA LeastConcat ==
  ASSUME HeaderOK, NEW s \in Seq(Fields), NEW t \in Seq(Fields)
  PROVE  LeastBytes(s \o t) = LeastBytes(s) + LeastBytes(t) /\ LeastBytes(s) \in Nat /\ LeastBytes(t) \in Nat
<1>1. s \o t \in Seq(Fields)
  BY ConcatProperties
<1>2. LeastBytes(s) = Total(Mapped(s, LeastOf)) /\ LeastBytes(t) = Total(Mapped(t, LeastOf))
  BY LeastMapped
<1>3. LeastBytes(s \o t) = Total(Mapped(s \o t, LeastOf))
  BY <1>1, LeastMapped
<1> QED BY <1>2, <1>3, LeastMapped, MappedConcat

LEMMA LeastOne ==
  ASSUME HeaderOK, NEW x \in Fields
  PROVE  LeastBytes(<<x>>) = LeastSize(x) /\ LeastSize(x) \in Nat
<1>1. Least(<<x>>) = <<LeastSize(x)>> /\ LeastSize(x) \in Nat
  BY LeastSizeType DEF Least
<1> QED BY <1>1, TotalOne DEF LeastBytes

LEMMA LeastMore ==
  ASSUME HeaderOK, NEW s \in Seq(Fields), NEW x \in Fields
  PROVE  /\ LeastBytes(Append(s, x)) = LeastBytes(s) + LeastSize(x)
         /\ Append(s, x) \in Seq(Fields) /\ LeastBytes(s) \in Nat
<1>1. Append(s, x) = s \o <<x>> /\ <<x>> \in Seq(Fields) /\ Append(s, x) \in Seq(Fields)
  OBVIOUS
<1> QED BY <1>1, LeastConcat, LeastOne

LEMMA TotalUnrolled ==
  ASSUME NEW u \in Seq(Nat)
  PROVE  /\ Len(u) = 1 =>
              Total(u) = u[1]
         /\ Len(u) = 2 =>
              Total(u) = u[1] + u[2]
         /\ Len(u) = 3 =>
              Total(u) = u[1] + u[2] + u[3]
         /\ Len(u) = 4 =>
              Total(u) = u[1] + u[2] + u[3] + u[4]
         /\ Len(u) = 6 =>
              Total(u) = u[1] + u[2] + u[3] + u[4] +
               u[5] + u[6]
         /\ Len(u) = 7 =>
              Total(u) = u[1] + u[2] + u[3] + u[4] +
               u[5] + u[6] + u[7]
         /\ Len(u) = 9 =>
              Total(u) = u[1] + u[2] + u[3] + u[4] +
               u[5] + u[6] + u[7] + u[8] + u[9]
<1> DEFINE F == SumTo(u)
<1>1. F[0] = 0 /\ \A k \in 1..Len(u) : F[k] = F[k - 1] + u[k]
  BY SumSteps
<1>2. Total(u) = F[Len(u)] /\ \A k \in 1..Len(u) : u[k] \in Nat
  BY DEF Total
<1> HIDE DEF F
<1>3. ASSUME Len(u) = 1 PROVE Total(u) = u[1]
  <2>1. 1 \in 1..1
    OBVIOUS
  <2>2. F[1] = F[0] + u[1] /\ u[1] \in Nat
    <3>1. F[1] = F[1 - 1] + u[1] /\ u[1] \in Nat
      BY <1>1, <1>2, <1>3, <2>1
    <3> QED BY <3>1
  <2> QED BY <1>1, <1>2, <1>3, <2>2
<1>4. ASSUME Len(u) = 2 PROVE Total(u) = u[1] + u[2]
  <2>1. 1 \in 1..2 /\ 2 \in 1..2
    OBVIOUS
  <2>2. F[1] = F[0] + u[1] /\ u[1] \in Nat
    <3>1. F[1] = F[1 - 1] + u[1] /\ u[1] \in Nat
      BY <1>1, <1>2, <1>4, <2>1
    <3> QED BY <3>1
  <2>3. F[2] = F[1] + u[2] /\ u[2] \in Nat
    <3>1. F[2] = F[2 - 1] + u[2] /\ u[2] \in Nat
      BY <1>1, <1>2, <1>4, <2>1
    <3> QED BY <3>1
  <2> QED BY <1>1, <1>2, <1>4, <2>2, <2>3
<1>5. ASSUME Len(u) = 3 PROVE Total(u) = u[1] + u[2] + u[3]
  <2>1. 1 \in 1..3 /\ 2 \in 1..3 /\ 3 \in 1..3
    OBVIOUS
  <2>2. F[1] = F[0] + u[1] /\ u[1] \in Nat
    <3>1. F[1] = F[1 - 1] + u[1] /\ u[1] \in Nat
      BY <1>1, <1>2, <1>5, <2>1
    <3> QED BY <3>1
  <2>3. F[2] = F[1] + u[2] /\ u[2] \in Nat
    <3>1. F[2] = F[2 - 1] + u[2] /\ u[2] \in Nat
      BY <1>1, <1>2, <1>5, <2>1
    <3> QED BY <3>1
  <2>4. F[3] = F[2] + u[3] /\ u[3] \in Nat
    <3>1. F[3] = F[3 - 1] + u[3] /\ u[3] \in Nat
      BY <1>1, <1>2, <1>5, <2>1
    <3> QED BY <3>1
  <2> QED BY <1>1, <1>2, <1>5, <2>2, <2>3, <2>4
<1>6. ASSUME Len(u) = 4 PROVE Total(u) = u[1] + u[2] + u[3] + u[4]
  <2>1. 1 \in 1..4 /\ 2 \in 1..4 /\ 3 \in 1..4 /\ 4 \in 1..4
    OBVIOUS
  <2>2. F[1] = F[0] + u[1] /\ u[1] \in Nat
    <3>1. F[1] = F[1 - 1] + u[1] /\ u[1] \in Nat
      BY <1>1, <1>2, <1>6, <2>1
    <3> QED BY <3>1
  <2>3. F[2] = F[1] + u[2] /\ u[2] \in Nat
    <3>1. F[2] = F[2 - 1] + u[2] /\ u[2] \in Nat
      BY <1>1, <1>2, <1>6, <2>1
    <3> QED BY <3>1
  <2>4. F[3] = F[2] + u[3] /\ u[3] \in Nat
    <3>1. F[3] = F[3 - 1] + u[3] /\ u[3] \in Nat
      BY <1>1, <1>2, <1>6, <2>1
    <3> QED BY <3>1
  <2>5. F[4] = F[3] + u[4] /\ u[4] \in Nat
    <3>1. F[4] = F[4 - 1] + u[4] /\ u[4] \in Nat
      BY <1>1, <1>2, <1>6, <2>1
    <3> QED BY <3>1
  <2> QED BY <1>1, <1>2, <1>6, <2>2, <2>3, <2>4, <2>5
<1>7. ASSUME Len(u) = 6 PROVE Total(u) = u[1] + u[2] + u[3] + u[4] +
               u[5] + u[6]
  <2>1. /\ 1 \in 1..6 /\ 2 \in 1..6 /\ 3 \in 1..6 /\ 4 \in 1..6 /\ 5 \in 1..6
        /\ 6 \in 1..6
    OBVIOUS
  <2>2. F[1] = F[0] + u[1] /\ u[1] \in Nat
    <3>1. F[1] = F[1 - 1] + u[1] /\ u[1] \in Nat
      BY <1>1, <1>2, <1>7, <2>1
    <3> QED BY <3>1
  <2>3. F[2] = F[1] + u[2] /\ u[2] \in Nat
    <3>1. F[2] = F[2 - 1] + u[2] /\ u[2] \in Nat
      BY <1>1, <1>2, <1>7, <2>1
    <3> QED BY <3>1
  <2>4. F[3] = F[2] + u[3] /\ u[3] \in Nat
    <3>1. F[3] = F[3 - 1] + u[3] /\ u[3] \in Nat
      BY <1>1, <1>2, <1>7, <2>1
    <3> QED BY <3>1
  <2>5. F[4] = F[3] + u[4] /\ u[4] \in Nat
    <3>1. F[4] = F[4 - 1] + u[4] /\ u[4] \in Nat
      BY <1>1, <1>2, <1>7, <2>1
    <3> QED BY <3>1
  <2>6. F[5] = F[4] + u[5] /\ u[5] \in Nat
    <3>1. F[5] = F[5 - 1] + u[5] /\ u[5] \in Nat
      BY <1>1, <1>2, <1>7, <2>1
    <3> QED BY <3>1
  <2>7. F[6] = F[5] + u[6] /\ u[6] \in Nat
    <3>1. F[6] = F[6 - 1] + u[6] /\ u[6] \in Nat
      BY <1>1, <1>2, <1>7, <2>1
    <3> QED BY <3>1
  <2> QED BY <1>1, <1>2, <1>7, <2>2, <2>3, <2>4, <2>5, <2>6, <2>7
<1>8. ASSUME Len(u) = 7 PROVE Total(u) = u[1] + u[2] + u[3] + u[4] +
               u[5] + u[6] + u[7]
  <2>1. /\ 1 \in 1..7 /\ 2 \in 1..7 /\ 3 \in 1..7 /\ 4 \in 1..7 /\ 5 \in 1..7
        /\ 6 \in 1..7 /\ 7 \in 1..7
    OBVIOUS
  <2>2. F[1] = F[0] + u[1] /\ u[1] \in Nat
    <3>1. F[1] = F[1 - 1] + u[1] /\ u[1] \in Nat
      BY <1>1, <1>2, <1>8, <2>1
    <3> QED BY <3>1
  <2>3. F[2] = F[1] + u[2] /\ u[2] \in Nat
    <3>1. F[2] = F[2 - 1] + u[2] /\ u[2] \in Nat
      BY <1>1, <1>2, <1>8, <2>1
    <3> QED BY <3>1
  <2>4. F[3] = F[2] + u[3] /\ u[3] \in Nat
    <3>1. F[3] = F[3 - 1] + u[3] /\ u[3] \in Nat
      BY <1>1, <1>2, <1>8, <2>1
    <3> QED BY <3>1
  <2>5. F[4] = F[3] + u[4] /\ u[4] \in Nat
    <3>1. F[4] = F[4 - 1] + u[4] /\ u[4] \in Nat
      BY <1>1, <1>2, <1>8, <2>1
    <3> QED BY <3>1
  <2>6. F[5] = F[4] + u[5] /\ u[5] \in Nat
    <3>1. F[5] = F[5 - 1] + u[5] /\ u[5] \in Nat
      BY <1>1, <1>2, <1>8, <2>1
    <3> QED BY <3>1
  <2>7. F[6] = F[5] + u[6] /\ u[6] \in Nat
    <3>1. F[6] = F[6 - 1] + u[6] /\ u[6] \in Nat
      BY <1>1, <1>2, <1>8, <2>1
    <3> QED BY <3>1
  <2>8. F[7] = F[6] + u[7] /\ u[7] \in Nat
    <3>1. F[7] = F[7 - 1] + u[7] /\ u[7] \in Nat
      BY <1>1, <1>2, <1>8, <2>1
    <3> QED BY <3>1
  <2> QED BY <1>1, <1>2, <1>8, <2>2, <2>3, <2>4, <2>5, <2>6, <2>7, <2>8
<1>9. ASSUME Len(u) = 9 PROVE Total(u) = u[1] + u[2] + u[3] + u[4] +
               u[5] + u[6] + u[7] + u[8] + u[9]
  <2>1. /\ 1 \in 1..9 /\ 2 \in 1..9 /\ 3 \in 1..9 /\ 4 \in 1..9 /\ 5 \in 1..9
        /\ 6 \in 1..9 /\ 7 \in 1..9 /\ 8 \in 1..9 /\ 9 \in 1..9
    OBVIOUS
  <2>2. F[1] = F[0] + u[1] /\ u[1] \in Nat
    <3>1. F[1] = F[1 - 1] + u[1] /\ u[1] \in Nat
      BY <1>1, <1>2, <1>9, <2>1
    <3> QED BY <3>1
  <2>3. F[2] = F[1] + u[2] /\ u[2] \in Nat
    <3>1. F[2] = F[2 - 1] + u[2] /\ u[2] \in Nat
      BY <1>1, <1>2, <1>9, <2>1
    <3> QED BY <3>1
  <2>4. F[3] = F[2] + u[3] /\ u[3] \in Nat
    <3>1. F[3] = F[3 - 1] + u[3] /\ u[3] \in Nat
      BY <1>1, <1>2, <1>9, <2>1
    <3> QED BY <3>1
  <2>5. F[4] = F[3] + u[4] /\ u[4] \in Nat
    <3>1. F[4] = F[4 - 1] + u[4] /\ u[4] \in Nat
      BY <1>1, <1>2, <1>9, <2>1
    <3> QED BY <3>1
  <2>6. F[5] = F[4] + u[5] /\ u[5] \in Nat
    <3>1. F[5] = F[5 - 1] + u[5] /\ u[5] \in Nat
      BY <1>1, <1>2, <1>9, <2>1
    <3> QED BY <3>1
  <2>7. F[6] = F[5] + u[6] /\ u[6] \in Nat
    <3>1. F[6] = F[6 - 1] + u[6] /\ u[6] \in Nat
      BY <1>1, <1>2, <1>9, <2>1
    <3> QED BY <3>1
  <2>8. F[7] = F[6] + u[7] /\ u[7] \in Nat
    <3>1. F[7] = F[7 - 1] + u[7] /\ u[7] \in Nat
      BY <1>1, <1>2, <1>9, <2>1
    <3> QED BY <3>1
  <2>9. F[8] = F[7] + u[8] /\ u[8] \in Nat
    <3>1. F[8] = F[8 - 1] + u[8] /\ u[8] \in Nat
      BY <1>1, <1>2, <1>9, <2>1
    <3> QED BY <3>1
  <2>10. F[9] = F[8] + u[9] /\ u[9] \in Nat
    <3>1. F[9] = F[9 - 1] + u[9] /\ u[9] \in Nat
      BY <1>1, <1>2, <1>9, <2>1
    <3> QED BY <3>1
  <2> QED BY <1>1, <1>2, <1>9, <2>2, <2>3, <2>4, <2>5, <2>6, <2>7, <2>8, <2>9, <2>10
<1> QED BY <1>3, <1>4, <1>5, <1>6, <1>7, <1>8, <1>9

\* A record's fields one by one.
LEMMA LeastUnrolled ==
  ASSUME HeaderOK, NEW s \in Seq(Fields)
  PROVE  /\ Len(s) = 1 =>
              LeastBytes(s) = LeastSize(s[1])
         /\ Len(s) = 2 =>
              LeastBytes(s) = LeastSize(s[1]) + LeastSize(s[2])
         /\ Len(s) = 3 =>
              LeastBytes(s) = LeastSize(s[1]) + LeastSize(s[2]) + LeastSize(s[3])
         /\ Len(s) = 4 =>
              LeastBytes(s) = LeastSize(s[1]) + LeastSize(s[2]) + LeastSize(s[3]) + LeastSize(s[4])
         /\ Len(s) = 6 =>
              LeastBytes(s) = LeastSize(s[1]) + LeastSize(s[2]) + LeastSize(s[3]) + LeastSize(s[4]) +
               LeastSize(s[5]) + LeastSize(s[6])
         /\ Len(s) = 7 =>
              LeastBytes(s) = LeastSize(s[1]) + LeastSize(s[2]) + LeastSize(s[3]) + LeastSize(s[4]) +
               LeastSize(s[5]) + LeastSize(s[6]) + LeastSize(s[7])
         /\ Len(s) = 9 =>
              LeastBytes(s) = LeastSize(s[1]) + LeastSize(s[2]) + LeastSize(s[3]) + LeastSize(s[4]) +
               LeastSize(s[5]) + LeastSize(s[6]) + LeastSize(s[7]) + LeastSize(s[8]) + LeastSize(s[9])
<1> DEFINE u == Least(s)
<1>1. Len(s) \in Nat /\ DOMAIN s = 1..Len(s) /\ \A i \in 1..Len(s) : LeastSize(s[i]) \in Nat
  BY SequenceShape, LeastSizeType
<1>2. u = [i \in 1..Len(s) |-> LeastSize(s[i])]
  BY <1>1 DEF Least
<1>3. u \in Seq(Nat) /\ Len(u) = Len(s) /\ \A i \in 1..Len(s) : u[i] = LeastSize(s[i])
  BY <1>1, <1>2
<1>4. LeastBytes(s) = Total(u)
  BY DEF LeastBytes
<1> HIDE DEF u
<1>5. ASSUME Len(s) = 1
      PROVE  LeastBytes(s) = LeastSize(s[1])
  <2>1. Len(u) = 1 /\ \A i \in 1..1 : u[i] = LeastSize(s[i])
    BY <1>3, <1>5
  <2>2. /\ u[1] = LeastSize(s[1])
    BY <2>1
  <2> QED BY <1>3, <1>4, <2>1, <2>2, TotalUnrolled
<1>6. ASSUME Len(s) = 2
      PROVE  LeastBytes(s) = LeastSize(s[1]) + LeastSize(s[2])
  <2>1. Len(u) = 2 /\ \A i \in 1..2 : u[i] = LeastSize(s[i])
    BY <1>3, <1>6
  <2>2. /\ u[1] = LeastSize(s[1]) /\ u[2] = LeastSize(s[2])
    BY <2>1
  <2> QED BY <1>3, <1>4, <2>1, <2>2, TotalUnrolled
<1>7. ASSUME Len(s) = 3
      PROVE  LeastBytes(s) = LeastSize(s[1]) + LeastSize(s[2]) + LeastSize(s[3])
  <2>1. Len(u) = 3 /\ \A i \in 1..3 : u[i] = LeastSize(s[i])
    BY <1>3, <1>7
  <2>2. /\ u[1] = LeastSize(s[1]) /\ u[2] = LeastSize(s[2]) /\ u[3] = LeastSize(s[3])
    BY <2>1
  <2> QED BY <1>3, <1>4, <2>1, <2>2, TotalUnrolled
<1>8. ASSUME Len(s) = 4
      PROVE  LeastBytes(s) = LeastSize(s[1]) + LeastSize(s[2]) + LeastSize(s[3]) + LeastSize(s[4])
  <2>1. Len(u) = 4 /\ \A i \in 1..4 : u[i] = LeastSize(s[i])
    BY <1>3, <1>8
  <2>2. /\ u[1] = LeastSize(s[1]) /\ u[2] = LeastSize(s[2]) /\ u[3] = LeastSize(s[3]) /\ u[4] = LeastSize(s[4])
    BY <2>1
  <2> QED BY <1>3, <1>4, <2>1, <2>2, TotalUnrolled
<1>9. ASSUME Len(s) = 6
      PROVE  LeastBytes(s) = LeastSize(s[1]) + LeastSize(s[2]) + LeastSize(s[3]) + LeastSize(s[4]) +
               LeastSize(s[5]) + LeastSize(s[6])
  <2>1. Len(u) = 6 /\ \A i \in 1..6 : u[i] = LeastSize(s[i])
    BY <1>3, <1>9
  <2>2. /\ u[1] = LeastSize(s[1]) /\ u[2] = LeastSize(s[2]) /\ u[3] = LeastSize(s[3]) /\ u[4] = LeastSize(s[4])
        /\ u[5] = LeastSize(s[5]) /\ u[6] = LeastSize(s[6])
    BY <2>1
  <2> QED BY <1>3, <1>4, <2>1, <2>2, TotalUnrolled
<1>10. ASSUME Len(s) = 7
      PROVE  LeastBytes(s) = LeastSize(s[1]) + LeastSize(s[2]) + LeastSize(s[3]) + LeastSize(s[4]) +
               LeastSize(s[5]) + LeastSize(s[6]) + LeastSize(s[7])
  <2>1. Len(u) = 7 /\ \A i \in 1..7 : u[i] = LeastSize(s[i])
    BY <1>3, <1>10
  <2>2. /\ u[1] = LeastSize(s[1]) /\ u[2] = LeastSize(s[2]) /\ u[3] = LeastSize(s[3]) /\ u[4] = LeastSize(s[4])
        /\ u[5] = LeastSize(s[5]) /\ u[6] = LeastSize(s[6]) /\ u[7] = LeastSize(s[7])
    BY <2>1
  <2> QED BY <1>3, <1>4, <2>1, <2>2, TotalUnrolled
<1>11. ASSUME Len(s) = 9
      PROVE  LeastBytes(s) = LeastSize(s[1]) + LeastSize(s[2]) + LeastSize(s[3]) + LeastSize(s[4]) +
               LeastSize(s[5]) + LeastSize(s[6]) + LeastSize(s[7]) + LeastSize(s[8]) + LeastSize(s[9])
  <2>1. Len(u) = 9 /\ \A i \in 1..9 : u[i] = LeastSize(s[i])
    BY <1>3, <1>11
  <2>2. /\ u[1] = LeastSize(s[1]) /\ u[2] = LeastSize(s[2]) /\ u[3] = LeastSize(s[3]) /\ u[4] = LeastSize(s[4])
        /\ u[5] = LeastSize(s[5]) /\ u[6] = LeastSize(s[6]) /\ u[7] = LeastSize(s[7]) /\ u[8] = LeastSize(s[8])
        /\ u[9] = LeastSize(s[9])
    BY <2>1
  <2> QED BY <1>3, <1>4, <2>1, <2>2, TotalUnrolled
<1> QED BY <1>5, <1>6, <1>7, <1>8, <1>9, <1>10, <1>11

\* The least sizes of the fields that records are made of.
LEMMA LeastFields ==
  ASSUME HeaderOK
  PROVE  /\ \A n \in Nat : Data(n) \in Fields /\ LeastSize(Data(n)) = n
         /\ Text \in Fields /\ LeastSize(Text) = 4
         /\ FaceCount \in Fields /\ LeastSize(FaceCount) = 4
         /\ Face \in Fields /\ LeastSize(Face) = WidthOf("vertices")
         /\ \A to \in Tables : Ref(to) \in Fields /\ LeastSize(Ref(to)) = WidthOf(to)
         /\ \A of \in Lists : List(of) \in Fields /\ LeastSize(List(of)) = 4
         /\ \A what \in {"deform", "toon", "bone", "limits", "morph", "kind"}, n \in {1, 2} :
              Select(what, n) \in Fields
<1>1. \A n \in Nat : Data(n) \in Fields /\ LeastSize(Data(n)) = n
  BY DataSize, LeastSizeType DEF Data
<1>2. Text \in Fields /\ FaceCount \in Fields /\ Face \in Fields
  BY FieldTypes DEF Plain
<1>3. LeastSize(Text) = 4 /\ LeastSize(FaceCount) = 4 /\ LeastSize(Face) = WidthOf("vertices")
  BY <1>2, LeastSizeType DEF Text, FaceCount, Face, WidthOf
<1>4. \A to \in Tables : Ref(to) \in Fields /\ LeastSize(Ref(to)) = WidthOf(to)
  <2> TAKE to \in Tables
  <2>1. Ref(to) \in Fields /\ Ref(to).n = WidthOf(to) /\ Ref(to).f # "select"
    BY RefSize DEF Ref, Index
  <2> QED BY <2>1, LeastSizeType
<1>5. \A of \in Lists : List(of) \in Fields /\ LeastSize(List(of)) = 4
  BY ListSize, LeastSizeType DEF List
<1>6. \A what \in {"deform", "toon", "bone", "limits", "morph", "kind"}, n \in {1, 2} :
        Select(what, n) \in Fields
  BY FieldTypes DEF Plain
<1> QED BY <1>1, <1>2, <1>3, <1>4, <1>5, <1>6

\* The count is checked with the smallest record the layout allows.
LEMMA SmallestIsMinimum ==
  ASSUME HeaderOK, NEW of \in Lists
  PROVE  Smallest(of) = MinimumOf(of) /\ Smallest(of) \in Nat /\ Smallest(of) >= 1
<1>1. /\ \A n \in Nat : LeastSize(Data(n)) = n
      /\ LeastSize(Text) = 4 /\ LeastSize(FaceCount) = 4 /\ LeastSize(Face) = WidthOf("vertices")
      /\ \A to \in Tables : LeastSize(Ref(to)) = WidthOf(to)
      /\ \A list \in Lists : LeastSize(List(list)) = 4
  BY LeastFields
<1>2. /\ LeastSize(Select("deform", 1)) = 1 + WidthOf("bones")
      /\ LeastSize(Select("toon", 1)) = 2
      /\ LeastSize(Select("bone", 2)) = 2 + WidthOf("bones")
      /\ LeastSize(Select("limits", 1)) = 1
      /\ LeastSize(Select("morph", 1)) = 5
      /\ LeastSize(Select("kind", 1)) = 1 + Min({WidthOf("bones"), WidthOf("morphs")})
      /\ Min({WidthOf("bones"), WidthOf("morphs")}) \in Widths
  BY LeastSizeType, LeastKind
<1>3. \A to \in Tables : WidthOf(to) \in Widths /\ WidthOf(to) = header.width[to]
  BY WidthTypes DEF WidthOf
<1>4. \A to \in Tables : WidthOf(to) \in Nat /\ WidthOf(to) >= 1
  BY <1>3 DEF Widths
<1>5. header.vec4s \in Nat
  BY DEF HeaderOK, Headers
<1>6. Smallest(of) = LeastBytes(Record(of)) /\ Record(of) \in Seq(Fields)
  BY RecordFields DEF Smallest, LeastBytes
<1> HIDE DEF Tables, Lists
<1>7. CASE of = "vertices"
  <2> DEFINE s == Record(of)
  <2>1. /\ Len(s) = 3
        /\ s[1] = Data(12 + 12 + 8 + 16 * header.vec4s)
        /\ s[2] = Select("deform", 1)
        /\ s[3] = Data(4)
    BY <1>7 DEF Record, Vertex
  <2>2. /\ LeastSize(Data(12 + 12 + 8 + 16 * header.vec4s)) = 12 + 12 + 8 + 16 * header.vec4s
        /\ LeastSize(Select("deform", 1)) = 1 + WidthOf("bones")
        /\ LeastSize(Data(4)) = 4
    BY <1>1, <1>2, <1>5 DEF Tables, Lists
  <2> HIDE DEF s
  <2>3. LeastBytes(s) = (12 + 12 + 8 + 16 * header.vec4s) + (1 + WidthOf("bones")) + 4
    BY <1>6, <2>1, <2>2, LeastUnrolled DEF s
  <2>4. MinimumOf(of) = 12 + 12 + 8 + 16 * header.vec4s + 1 + WidthOf("bones") + 4
    BY <1>7 DEF MinimumOf, WidthOf
  <2>5. WidthOf("bones") \in Nat /\ WidthOf("bones") >= 1 /\ WidthOf("bones") = header.width["bones"]
    BY <1>3, <1>4 DEF Tables
  <2>6. 16 * header.vec4s \in Nat
    BY <1>5
  <2> DEFINE more == 16 * header.vec4s
  <2> HIDE DEF more
  <2>7. more \in Nat
    BY <2>6 DEF more
  <2>8. /\ LeastBytes(s) = (12 + 12 + 8 + more) + (1 + WidthOf("bones")) + 4
        /\ MinimumOf(of) = 12 + 12 + 8 + more + 1 + WidthOf("bones") + 4
    BY <2>3, <2>4, Zenon DEF more
  <2> QED BY <1>6, <2>5, <2>7, <2>8 DEF s
<1>8. CASE of = "faces"
  <2> DEFINE s == Record(of)
  <2>1. /\ Len(s) = 1
        /\ s[1] = Face
    BY <1>8 DEF Record
  <2>2. /\ LeastSize(Face) = WidthOf("vertices")
    BY <1>1, <1>2, <1>5 DEF Tables, Lists
  <2> HIDE DEF s
  <2>3. LeastBytes(s) = WidthOf("vertices")
    BY <1>6, <2>1, <2>2, LeastUnrolled DEF s
  <2>4. MinimumOf(of) = WidthOf("vertices")
    BY <1>8 DEF MinimumOf, WidthOf
  <2>5. WidthOf("vertices") \in Nat /\ WidthOf("vertices") >= 1 /\ WidthOf("vertices") = header.width["vertices"]
    BY <1>3, <1>4 DEF Tables
  <2> QED BY <1>5, <1>6, <2>3, <2>4, <2>5 DEF s
<1>9. CASE of = "textures"
  <2> DEFINE s == Record(of)
  <2>1. /\ Len(s) = 1
        /\ s[1] = Text
    BY <1>9 DEF Record
  <2>2. /\ LeastSize(Text) = 4
    BY <1>1, <1>2, <1>5 DEF Tables, Lists
  <2> HIDE DEF s
  <2>3. LeastBytes(s) = 4
    BY <1>6, <2>1, <2>2, LeastUnrolled DEF s
  <2>4. MinimumOf(of) = 4
    BY <1>9 DEF MinimumOf, WidthOf
  <2> QED BY <1>5, <1>6, <2>3, <2>4 DEF s
<1>10. CASE of = "materials"
  <2> DEFINE s == Record(of)
  <2>1. /\ Len(s) = 9
        /\ s[1] = Text
        /\ s[2] = Text
        /\ s[3] = Data(16 + 12 + 4 + 12 + 1 + 16 + 4)
        /\ s[4] = Ref("textures")
        /\ s[5] = Ref("textures")
        /\ s[6] = Data(1)
        /\ s[7] = Select("toon", 1)
        /\ s[8] = Text
        /\ s[9] = FaceCount
    BY <1>10 DEF Record, Material
  <2>2. /\ LeastSize(Text) = 4
        /\ LeastSize(Data(16 + 12 + 4 + 12 + 1 + 16 + 4)) = 16 + 12 + 4 + 12 + 1 + 16 + 4
        /\ LeastSize(Ref("textures")) = WidthOf("textures")
        /\ LeastSize(Data(1)) = 1
        /\ LeastSize(Select("toon", 1)) = 2
        /\ LeastSize(FaceCount) = 4
    BY <1>1, <1>2, <1>5 DEF Tables, Lists
  <2> HIDE DEF s
  <2>3. LeastBytes(s) = 4 + 4 + (16 + 12 + 4 + 12 + 1 + 16 + 4) + WidthOf("textures") + WidthOf("textures") + 1 + 2 + 4 + 4
    BY <1>6, <2>1, <2>2, LeastUnrolled DEF s
  <2>4. MinimumOf(of) = 8 + (16 + 12 + 4 + 12 + 1 + 16 + 4) + 2 * WidthOf("textures") + 1 + 1 + 1 + 4 + 4
    BY <1>10 DEF MinimumOf, WidthOf
  <2>5. WidthOf("textures") \in Nat /\ WidthOf("textures") >= 1 /\ WidthOf("textures") = header.width["textures"]
    BY <1>3, <1>4 DEF Tables
  <2> QED BY <1>5, <1>6, <2>3, <2>4, <2>5 DEF s
<1>11. CASE of = "bones"
  <2> DEFINE s == Record(of)
  <2>1. /\ Len(s) = 6
        /\ s[1] = Text
        /\ s[2] = Text
        /\ s[3] = Data(12)
        /\ s[4] = Ref("bones")
        /\ s[5] = Data(4)
        /\ s[6] = Select("bone", 2)
    BY <1>11 DEF Record, Bone
  <2>2. /\ LeastSize(Text) = 4
        /\ LeastSize(Data(12)) = 12
        /\ LeastSize(Ref("bones")) = WidthOf("bones")
        /\ LeastSize(Data(4)) = 4
        /\ LeastSize(Select("bone", 2)) = 2 + WidthOf("bones")
    BY <1>1, <1>2, <1>5 DEF Tables, Lists
  <2> HIDE DEF s
  <2>3. LeastBytes(s) = 4 + 4 + 12 + WidthOf("bones") + 4 + (2 + WidthOf("bones"))
    BY <1>6, <2>1, <2>2, LeastUnrolled DEF s
  <2>4. MinimumOf(of) = 8 + 12 + WidthOf("bones") + 4 + 2 + WidthOf("bones")
    BY <1>11 DEF MinimumOf, WidthOf
  <2>5. WidthOf("bones") \in Nat /\ WidthOf("bones") >= 1 /\ WidthOf("bones") = header.width["bones"]
    BY <1>3, <1>4 DEF Tables
  <2> QED BY <1>5, <1>6, <2>3, <2>4, <2>5 DEF s
<1>12. CASE of = "links"
  <2> DEFINE s == Record(of)
  <2>1. /\ Len(s) = 2
        /\ s[1] = Ref("bones")
        /\ s[2] = Select("limits", 1)
    BY <1>12 DEF Record, IkLink
  <2>2. /\ LeastSize(Ref("bones")) = WidthOf("bones")
        /\ LeastSize(Select("limits", 1)) = 1
    BY <1>1, <1>2, <1>5 DEF Tables, Lists
  <2> HIDE DEF s
  <2>3. LeastBytes(s) = WidthOf("bones") + 1
    BY <1>6, <2>1, <2>2, LeastUnrolled DEF s
  <2>4. MinimumOf(of) = WidthOf("bones") + 1
    BY <1>12 DEF MinimumOf, WidthOf
  <2>5. WidthOf("bones") \in Nat /\ WidthOf("bones") >= 1 /\ WidthOf("bones") = header.width["bones"]
    BY <1>3, <1>4 DEF Tables
  <2> QED BY <1>5, <1>6, <2>3, <2>4, <2>5 DEF s
<1>13. CASE of = "morphs"
  <2> DEFINE s == Record(of)
  <2>1. /\ Len(s) = 4
        /\ s[1] = Text
        /\ s[2] = Text
        /\ s[3] = Data(1)
        /\ s[4] = Select("morph", 1)
    BY <1>13 DEF Record, Morph
  <2>2. /\ LeastSize(Text) = 4
        /\ LeastSize(Data(1)) = 1
        /\ LeastSize(Select("morph", 1)) = 5
    BY <1>1, <1>2, <1>5 DEF Tables, Lists
  <2> HIDE DEF s
  <2>3. LeastBytes(s) = 4 + 4 + 1 + 5
    BY <1>6, <2>1, <2>2, LeastUnrolled DEF s
  <2>4. MinimumOf(of) = 8 + 1 + 1 + 4
    BY <1>13 DEF MinimumOf, WidthOf
  <2> QED BY <1>5, <1>6, <2>3, <2>4 DEF s
<1>14. CASE of = "members"
  <2> DEFINE s == Record(of)
  <2>1. /\ Len(s) = 2
        /\ s[1] = Ref("morphs")
        /\ s[2] = Data(4)
    BY <1>14 DEF Record, GroupOffset
  <2>2. /\ LeastSize(Ref("morphs")) = WidthOf("morphs")
        /\ LeastSize(Data(4)) = 4
    BY <1>1, <1>2, <1>5 DEF Tables, Lists
  <2> HIDE DEF s
  <2>3. LeastBytes(s) = WidthOf("morphs") + 4
    BY <1>6, <2>1, <2>2, LeastUnrolled DEF s
  <2>4. MinimumOf(of) = WidthOf("morphs") + 4
    BY <1>14 DEF MinimumOf, WidthOf
  <2>5. WidthOf("morphs") \in Nat /\ WidthOf("morphs") >= 1 /\ WidthOf("morphs") = header.width["morphs"]
    BY <1>3, <1>4 DEF Tables
  <2> QED BY <1>5, <1>6, <2>3, <2>4, <2>5 DEF s
<1>15. CASE of = "moves"
  <2> DEFINE s == Record(of)
  <2>1. /\ Len(s) = 2
        /\ s[1] = Ref("vertices")
        /\ s[2] = Data(12)
    BY <1>15 DEF Record, VertexOffset
  <2>2. /\ LeastSize(Ref("vertices")) = WidthOf("vertices")
        /\ LeastSize(Data(12)) = 12
    BY <1>1, <1>2, <1>5 DEF Tables, Lists
  <2> HIDE DEF s
  <2>3. LeastBytes(s) = WidthOf("vertices") + 12
    BY <1>6, <2>1, <2>2, LeastUnrolled DEF s
  <2>4. MinimumOf(of) = WidthOf("vertices") + 12
    BY <1>15 DEF MinimumOf, WidthOf
  <2>5. WidthOf("vertices") \in Nat /\ WidthOf("vertices") >= 1 /\ WidthOf("vertices") = header.width["vertices"]
    BY <1>3, <1>4 DEF Tables
  <2> QED BY <1>5, <1>6, <2>3, <2>4, <2>5 DEF s
<1>16. CASE of = "turns"
  <2> DEFINE s == Record(of)
  <2>1. /\ Len(s) = 2
        /\ s[1] = Ref("bones")
        /\ s[2] = Data(12 + 16)
    BY <1>16 DEF Record, BoneOffset
  <2>2. /\ LeastSize(Ref("bones")) = WidthOf("bones")
        /\ LeastSize(Data(12 + 16)) = 12 + 16
    BY <1>1, <1>2, <1>5 DEF Tables, Lists
  <2> HIDE DEF s
  <2>3. LeastBytes(s) = WidthOf("bones") + (12 + 16)
    BY <1>6, <2>1, <2>2, LeastUnrolled DEF s
  <2>4. MinimumOf(of) = WidthOf("bones") + 28
    BY <1>16 DEF MinimumOf, WidthOf
  <2>5. WidthOf("bones") \in Nat /\ WidthOf("bones") >= 1 /\ WidthOf("bones") = header.width["bones"]
    BY <1>3, <1>4 DEF Tables
  <2> QED BY <1>5, <1>6, <2>3, <2>4, <2>5 DEF s
<1>17. CASE of = "uvs"
  <2> DEFINE s == Record(of)
  <2>1. /\ Len(s) = 2
        /\ s[1] = Ref("vertices")
        /\ s[2] = Data(16)
    BY <1>17 DEF Record, UvOffset
  <2>2. /\ LeastSize(Ref("vertices")) = WidthOf("vertices")
        /\ LeastSize(Data(16)) = 16
    BY <1>1, <1>2, <1>5 DEF Tables, Lists
  <2> HIDE DEF s
  <2>3. LeastBytes(s) = WidthOf("vertices") + 16
    BY <1>6, <2>1, <2>2, LeastUnrolled DEF s
  <2>4. MinimumOf(of) = WidthOf("vertices") + 16
    BY <1>17 DEF MinimumOf, WidthOf
  <2>5. WidthOf("vertices") \in Nat /\ WidthOf("vertices") >= 1 /\ WidthOf("vertices") = header.width["vertices"]
    BY <1>3, <1>4 DEF Tables
  <2> QED BY <1>5, <1>6, <2>3, <2>4, <2>5 DEF s
<1>18. CASE of = "shades"
  <2> DEFINE s == Record(of)
  <2>1. /\ Len(s) = 2
        /\ s[1] = Ref("materials")
        /\ s[2] = Data(1 + 16 + 12 + 4 + 12 + 16 + 4 + 16 + 16 + 16)
    BY <1>18 DEF Record, MaterialOffset
  <2>2. /\ LeastSize(Ref("materials")) = WidthOf("materials")
        /\ LeastSize(Data(1 + 16 + 12 + 4 + 12 + 16 + 4 + 16 + 16 + 16)) = 1 + 16 + 12 + 4 + 12 + 16 + 4 + 16 + 16 + 16
    BY <1>1, <1>2, <1>5 DEF Tables, Lists
  <2> HIDE DEF s
  <2>3. LeastBytes(s) = WidthOf("materials") + (1 + 16 + 12 + 4 + 12 + 16 + 4 + 16 + 16 + 16)
    BY <1>6, <2>1, <2>2, LeastUnrolled DEF s
  <2>4. MinimumOf(of) = WidthOf("materials") + 113
    BY <1>18 DEF MinimumOf, WidthOf
  <2>5. WidthOf("materials") \in Nat /\ WidthOf("materials") >= 1 /\ WidthOf("materials") = header.width["materials"]
    BY <1>3, <1>4 DEF Tables
  <2> QED BY <1>5, <1>6, <2>3, <2>4, <2>5 DEF s
<1>19. CASE of = "impulses"
  <2> DEFINE s == Record(of)
  <2>1. /\ Len(s) = 2
        /\ s[1] = Ref("rigidBodies")
        /\ s[2] = Data(1 + 12 + 12)
    BY <1>19 DEF Record, ImpulseOffset
  <2>2. /\ LeastSize(Ref("rigidBodies")) = WidthOf("rigidBodies")
        /\ LeastSize(Data(1 + 12 + 12)) = 1 + 12 + 12
    BY <1>1, <1>2, <1>5 DEF Tables, Lists
  <2> HIDE DEF s
  <2>3. LeastBytes(s) = WidthOf("rigidBodies") + (1 + 12 + 12)
    BY <1>6, <2>1, <2>2, LeastUnrolled DEF s
  <2>4. MinimumOf(of) = WidthOf("rigidBodies") + 25
    BY <1>19 DEF MinimumOf, WidthOf
  <2>5. WidthOf("rigidBodies") \in Nat /\ WidthOf("rigidBodies") >= 1 /\ WidthOf("rigidBodies") = header.width["rigidBodies"]
    BY <1>3, <1>4 DEF Tables
  <2> QED BY <1>5, <1>6, <2>3, <2>4, <2>5 DEF s
<1>20. CASE of = "displayFrames"
  <2> DEFINE s == Record(of)
  <2>1. /\ Len(s) = 4
        /\ s[1] = Text
        /\ s[2] = Text
        /\ s[3] = Data(1)
        /\ s[4] = List("elements")
    BY <1>20 DEF Record, DisplayFrame
  <2>2. /\ LeastSize(Text) = 4
        /\ LeastSize(Data(1)) = 1
        /\ LeastSize(List("elements")) = 4
    BY <1>1, <1>2, <1>5 DEF Tables, Lists
  <2> HIDE DEF s
  <2>3. LeastBytes(s) = 4 + 4 + 1 + 4
    BY <1>6, <2>1, <2>2, LeastUnrolled DEF s
  <2>4. MinimumOf(of) = 8 + 1 + 4
    BY <1>20 DEF MinimumOf, WidthOf
  <2> QED BY <1>5, <1>6, <2>3, <2>4 DEF s
<1>21. CASE of = "elements"
  <2> DEFINE s == Record(of)
  <2>1. /\ Len(s) = 1
        /\ s[1] = Select("kind", 1)
    BY <1>21 DEF Record, FrameElement
  <2>2. /\ LeastSize(Select("kind", 1)) = 1 + Min({WidthOf("bones"), WidthOf("morphs")})
    BY <1>1, <1>2, <1>5 DEF Tables, Lists
  <2> HIDE DEF s
  <2>3. LeastBytes(s) = (1 + Min({WidthOf("bones"), WidthOf("morphs")}))
    BY <1>6, <2>1, <2>2, LeastUnrolled DEF s
  <2>4. MinimumOf(of) = 1 + Min({WidthOf("bones"), WidthOf("morphs")})
    BY <1>21 DEF MinimumOf, WidthOf
  <2>5. /\ WidthOf("bones") \in Nat /\ WidthOf("bones") >= 1 /\ WidthOf("bones") = header.width["bones"]
        /\ WidthOf("morphs") \in Nat /\ WidthOf("morphs") >= 1 /\ WidthOf("morphs") = header.width["morphs"]
    BY <1>3, <1>4 DEF Tables
  <2>6. Min({WidthOf("bones"), WidthOf("morphs")}) \in Nat /\ Min({WidthOf("bones"), WidthOf("morphs")}) >= 1
    BY <1>2 DEF Widths
  <2> QED BY <1>5, <1>6, <2>3, <2>4, <2>5, <2>6 DEF s
<1>22. CASE of = "rigidBodies"
  <2> DEFINE s == Record(of)
  <2>1. /\ Len(s) = 4
        /\ s[1] = Text
        /\ s[2] = Text
        /\ s[3] = Ref("bones")
        /\ s[4] = Data(1 + 2 + 1 + 12 + 12 + 12 + 20 + 1)
    BY <1>22 DEF Record, RigidBody
  <2>2. /\ LeastSize(Text) = 4
        /\ LeastSize(Ref("bones")) = WidthOf("bones")
        /\ LeastSize(Data(1 + 2 + 1 + 12 + 12 + 12 + 20 + 1)) = 1 + 2 + 1 + 12 + 12 + 12 + 20 + 1
    BY <1>1, <1>2, <1>5 DEF Tables, Lists
  <2> HIDE DEF s
  <2>3. LeastBytes(s) = 4 + 4 + WidthOf("bones") + (1 + 2 + 1 + 12 + 12 + 12 + 20 + 1)
    BY <1>6, <2>1, <2>2, LeastUnrolled DEF s
  <2>4. MinimumOf(of) = 8 + WidthOf("bones") + 1 + 2 + 1 + 36 + 20 + 1
    BY <1>22 DEF MinimumOf, WidthOf
  <2>5. WidthOf("bones") \in Nat /\ WidthOf("bones") >= 1 /\ WidthOf("bones") = header.width["bones"]
    BY <1>3, <1>4 DEF Tables
  <2> QED BY <1>5, <1>6, <2>3, <2>4, <2>5 DEF s
<1>23. CASE of = "joints"
  <2> DEFINE s == Record(of)
  <2>1. /\ Len(s) = 6
        /\ s[1] = Text
        /\ s[2] = Text
        /\ s[3] = Data(1)
        /\ s[4] = Ref("rigidBodies")
        /\ s[5] = Ref("rigidBodies")
        /\ s[6] = Data(8 * 12)
    BY <1>23 DEF Record, Joint
  <2>2. /\ LeastSize(Text) = 4
        /\ LeastSize(Data(1)) = 1
        /\ LeastSize(Ref("rigidBodies")) = WidthOf("rigidBodies")
        /\ LeastSize(Data(8 * 12)) = 8 * 12
    BY <1>1, <1>2, <1>5 DEF Tables, Lists
  <2> HIDE DEF s
  <2>3. LeastBytes(s) = 4 + 4 + 1 + WidthOf("rigidBodies") + WidthOf("rigidBodies") + 8 * 12
    BY <1>6, <2>1, <2>2, LeastUnrolled DEF s
  <2>4. MinimumOf(of) = 8 + 1 + 2 * WidthOf("rigidBodies") + 96
    BY <1>23 DEF MinimumOf, WidthOf
  <2>5. WidthOf("rigidBodies") \in Nat /\ WidthOf("rigidBodies") >= 1 /\ WidthOf("rigidBodies") = header.width["rigidBodies"]
    BY <1>3, <1>4 DEF Tables
  <2> QED BY <1>5, <1>6, <2>3, <2>4, <2>5 DEF s
<1>24. CASE of = "softBodies"
  <2> DEFINE s == Record(of)
  <2>1. /\ Len(s) = 7
        /\ s[1] = Text
        /\ s[2] = Text
        /\ s[3] = Data(1)
        /\ s[4] = Ref("materials")
        /\ s[5] = Data(1 + 2 + 1 + 20 + 48 + 24 + 16 + 12)
        /\ s[6] = List("anchors")
        /\ s[7] = List("pins")
    BY <1>24 DEF Record, SoftBody
  <2>2. /\ LeastSize(Text) = 4
        /\ LeastSize(Data(1)) = 1
        /\ LeastSize(Ref("materials")) = WidthOf("materials")
        /\ LeastSize(Data(1 + 2 + 1 + 20 + 48 + 24 + 16 + 12)) = 1 + 2 + 1 + 20 + 48 + 24 + 16 + 12
        /\ LeastSize(List("anchors")) = 4
        /\ LeastSize(List("pins")) = 4
    BY <1>1, <1>2, <1>5 DEF Tables, Lists
  <2> HIDE DEF s
  <2>3. LeastBytes(s) = 4 + 4 + 1 + WidthOf("materials") + (1 + 2 + 1 + 20 + 48 + 24 + 16 + 12) + 4 + 4
    BY <1>6, <2>1, <2>2, LeastUnrolled DEF s
  <2>4. MinimumOf(of) = 8 + 1 + WidthOf("materials") + 1 + 2 + 1 + 20 + 100 + 4 + 4
    BY <1>24 DEF MinimumOf, WidthOf
  <2>5. WidthOf("materials") \in Nat /\ WidthOf("materials") >= 1 /\ WidthOf("materials") = header.width["materials"]
    BY <1>3, <1>4 DEF Tables
  <2> QED BY <1>5, <1>6, <2>3, <2>4, <2>5 DEF s
<1>25. CASE of = "anchors"
  <2> DEFINE s == Record(of)
  <2>1. /\ Len(s) = 3
        /\ s[1] = Ref("rigidBodies")
        /\ s[2] = Ref("vertices")
        /\ s[3] = Data(1)
    BY <1>25 DEF Record, SoftBodyAnchor
  <2>2. /\ LeastSize(Ref("rigidBodies")) = WidthOf("rigidBodies")
        /\ LeastSize(Ref("vertices")) = WidthOf("vertices")
        /\ LeastSize(Data(1)) = 1
    BY <1>1, <1>2, <1>5 DEF Tables, Lists
  <2> HIDE DEF s
  <2>3. LeastBytes(s) = WidthOf("rigidBodies") + WidthOf("vertices") + 1
    BY <1>6, <2>1, <2>2, LeastUnrolled DEF s
  <2>4. MinimumOf(of) = WidthOf("rigidBodies") + WidthOf("vertices") + 1
    BY <1>25 DEF MinimumOf, WidthOf
  <2>5. /\ WidthOf("rigidBodies") \in Nat /\ WidthOf("rigidBodies") >= 1 /\ WidthOf("rigidBodies") = header.width["rigidBodies"]
        /\ WidthOf("vertices") \in Nat /\ WidthOf("vertices") >= 1 /\ WidthOf("vertices") = header.width["vertices"]
    BY <1>3, <1>4 DEF Tables
  <2> QED BY <1>5, <1>6, <2>3, <2>4, <2>5 DEF s
<1>26. CASE of = "pins"
  <2> DEFINE s == Record(of)
  <2>1. /\ Len(s) = 1
        /\ s[1] = Ref("vertices")
    BY <1>26 DEF Record
  <2>2. /\ LeastSize(Ref("vertices")) = WidthOf("vertices")
    BY <1>1, <1>2, <1>5 DEF Tables, Lists
  <2> HIDE DEF s
  <2>3. LeastBytes(s) = WidthOf("vertices")
    BY <1>6, <2>1, <2>2, LeastUnrolled DEF s
  <2>4. MinimumOf(of) = WidthOf("vertices")
    BY <1>26 DEF MinimumOf, WidthOf
  <2>5. WidthOf("vertices") \in Nat /\ WidthOf("vertices") >= 1 /\ WidthOf("vertices") = header.width["vertices"]
    BY <1>3, <1>4 DEF Tables
  <2> QED BY <1>5, <1>6, <2>3, <2>4, <2>5 DEF s
<1> QED BY <1>7, <1>8, <1>9, <1>10, <1>11, <1>12, <1>13, <1>14, <1>15, <1>16, <1>17, <1>18,
     <1>19, <1>20, <1>21, <1>22, <1>23, <1>24, <1>25, <1>26 DEF Lists, Tables

-----------------------------------------------------------------------------
(* The cursor, and the counts refused *)

InFile == offset \in 0..size

\* A count refused for want of bytes could not have been honoured.
Refused ==
  pc = "failed" /\ result.about # None =>
    /\ result.about.of \in Lists /\ result.about.n \in Int
    /\ result.about.n >= 0 => result.about.n * MinimumOf(result.about.of) > remaining

CursorInv == InFile /\ Refused

LEMMA Division ==
  ASSUME NEW a \in Nat, NEW m \in Nat, m >= 1
  PROVE  /\ a \div m \in 0..a /\ (a \div m) * m <= a
         /\ \A n \in Nat : n <= a \div m => n * m <= a /\ n * m \in Nat
         /\ \A n \in Nat : ~(n <= a \div m) => n * m > a
<1> DEFINE q == a \div m
<1>1. q \in Nat /\ q <= a /\ q * m <= a /\ a < (q + 1) * m
  OBVIOUS
<1> HIDE DEF q
<1>2. \A n, p \in Nat : n <= p => n * m <= p * m /\ n * m \in Nat /\ p * m \in Nat
  OBVIOUS
<1>3. ASSUME NEW n \in Nat, n <= q PROVE n * m <= a /\ n * m \in Nat
  <2>1. n * m <= q * m /\ n * m \in Nat /\ q * m \in Nat
    BY <1>1, <1>2, <1>3
  <2> HIDE DEF q
  <2> QED BY <1>1, <2>1
<1>4. ASSUME NEW n \in Nat, ~(n <= q) PROVE n * m > a
  <2>1. q + 1 \in Nat /\ q + 1 <= n
    BY <1>1, <1>4
  <2>2. (q + 1) * m <= n * m /\ (q + 1) * m \in Nat /\ n * m \in Nat
    BY <2>1, <1>2
  <2> QED BY <1>1, <2>2
<1> QED BY <1>1, <1>3, <1>4 DEF q

LEMMA ReadTypes ==
  ASSUME IndexInv, CursorInv
  PROVE  /\ HeaderOK /\ size \in Nat /\ offset \in 0..size /\ remaining \in 0..size
         /\ header.more \in 0..247 /\ todo \in Seq(Fields) /\ file \in Files
         /\ todo # <<>> => todo[1] \in Fields /\ todo[1].n \in Nat
<1>1. HeaderOK /\ size \in Nat /\ offset \in 0..size /\ todo \in Seq(Fields) /\ file \in Files
  BY HeaderTypes DEF IndexInv, ReadInv, CursorInv, InFile
<1>2. remaining \in 0..size
  BY <1>1 DEF remaining
<1>3. header.more \in 0..247
  BY <1>1 DEF HeaderOK, Headers
<1>4. todo # <<>> => todo[1] \in Fields /\ todo[1].n \in Nat
  BY <1>1, FieldSize
<1> QED BY <1>1, <1>2, <1>3, <1>4

\* A step that does not read further than the file and does not fail on a count.
LEMMA CursorMoves ==
  ASSUME NEW o \in 0..size, offset' = o, file' = file,
         pc' # "failed" \/ result'.about = None
  PROVE  CursorInv'
BY DEF CursorInv, InFile, Refused, size

LEMMA FieldTaken ==
  ASSUME IndexInv, CursorInv, todo # <<>>, ~Missing
  PROVE  offset + todo[1].n \in 0..size
BY ReadTypes DEF Missing, remaining

LEMMA FatalCursor ==
  ASSUME NEW o \in 0..size, offset' = o, NEW code, Fatal(code, None)
  PROVE  CursorInv'
BY CursorMoves DEF Fatal

LEMMA CountCursor ==
  ASSUME IndexInv, CursorInv, NEW n \in Int, ReadCount(n)
  PROVE  CursorInv'
<1> DEFINE of == todo[1].of
           about == [of |-> of, n |-> n]
<1>1. /\ todo # <<>> /\ todo[1].f = "list" /\ of \in Lists /\ todo[1].n = 4 /\ ~Missing /\ offset' = offset + 4
      /\ pc = "read"
  <2>1. todo # <<>> /\ todo[1].f = "list" /\ ~Missing /\ offset' = offset + 4 /\ pc = "read"
    BY DEF ReadCount, Reads
  <2> QED BY <2>1, ReadTypes DEF Fields
<1>2. offset + 4 \in 0..size /\ remaining - 4 \in Nat
  <2>1. offset + 4 \in 0..size
    BY <1>1, FieldTaken
  <2> QED BY <2>1, ReadTypes DEF remaining
<1>3. CASE ~Fits(n, of, remaining - 4)
  <2>1. Fatal("COUNT_EXCEEDS_BUFFER", about)
    BY <1>3 DEF ReadCount
  <2>2. result'.about = about /\ file' = file /\ pc' = "failed"
    BY <2>1 DEF Fatal
  <2>3. header' = header /\ size' = size /\ remaining' = remaining - 4
    BY <1>1, <2>2, ReadTypes DEF header, size, remaining
  <2>4. n >= 0 => n * MinimumOf(of) > remaining - 4
    <3> SUFFICES ASSUME n \in Nat PROVE n * MinimumOf(of) > remaining - 4
      OBVIOUS
    <3> DEFINE room == remaining - 4
               m == MinimumOf(of)
    <3>1. m \in Nat /\ m >= 1
      BY <1>1, ReadTypes, SmallestIsMinimum
    <3>2. room \in Nat /\ n \notin 0..(room \div m)
      BY <1>2, <1>3 DEF Fits
    <3> HIDE DEF room, m
    <3>3. ~(n <= room \div m)
      BY <3>1, <3>2, Division
    <3>4. n * m > room
      BY <3>1, <3>2, <3>3, Division
    <3> QED BY <3>4 DEF room, m
  <2>5. PICK x \in Lists : x = of
    BY <1>1
  <2>6. MinimumOf(x)' = MinimumOf(x)
    BY <2>3 DEF MinimumOf
  <2>7. result'.about.of = x /\ result'.about.n = n
    BY <2>2, <2>5
  <2>8. MinimumOf(result.about.of)' = MinimumOf(x)
    BY <2>3, <2>7 DEF MinimumOf
  <2>9. Refused'
    BY <2>3, <2>4, <2>5, <2>7, <2>8 DEF Refused
  <2>10. InFile'
    BY <1>1, <1>2, <2>3 DEF InFile
  <2> QED BY <2>9, <2>10 DEF CursorInv
<1>4. CASE Fits(n, of, remaining - 4) /\ of = "faces" /\ n % 3 # 0
  <2>1. Fatal("FACE_COUNT_NOT_TRIANGLES", None)
    BY <1>4 DEF ReadCount
  <2> QED BY <1>1, <1>2, <2>1, FatalCursor
<1>5. CASE Fits(n, of, remaining - 4) /\ ~(of = "faces" /\ n % 3 # 0)
  <2>1. file' = file /\ pc' = "read"
    BY <1>1, <1>5 DEF ReadCount
  <2> QED BY <1>1, <1>2, <2>1, CursorMoves
<1> QED BY <1>3, <1>4, <1>5

LEMMA CursorInit == Init => CursorInv
<1> SUFFICES ASSUME Init PROVE CursorInv
  OBVIOUS
<1>1. size \in Nat /\ offset = 0 /\ pc = "header"
  BY HeaderTypes DEF Init
<1> QED BY <1>1 DEF CursorInv, InFile, Refused

LEMMA StepCursor == IndexInv /\ DrawInv /\ CursorInv /\ [Next]_vars => CursorInv'
<1> SUFFICES ASSUME IndexInv, DrawInv, CursorInv, [Next]_vars PROVE CursorInv'
  OBVIOUS
<1>0. /\ HeaderOK /\ size \in Nat /\ offset \in 0..size /\ remaining \in 0..size
      /\ header.more \in 0..247 /\ file \in Files
      /\ todo # <<>> => todo[1] \in Fields /\ todo[1].n \in Nat
  BY ReadTypes
<1>1. CASE Unreadable
  BY <1>0, <1>1, FatalCursor DEF Unreadable
<1>2. CASE RefuseHeader
  BY <1>0, <1>2, FatalCursor DEF RefuseHeader
<1>3. CASE ReadHeader
  <2>1. GlobalsAt + 8 + header.more \in 0..size
    <3>1. size >= GlobalsAt + 8 + header.more
      BY <1>3 DEF ReadHeader
    <3>2. GlobalsAt + 8 + header.more \in Nat
      <4>1. header.more \in Nat
        <5>1. \A k \in 0..247 : k \in Nat
          OBVIOUS
        <5> QED BY <1>0, <5>1, Zenon
      <4>2. \A k \in Nat : GlobalsAt + 8 + k \in Nat
        BY DEF GlobalsAt
      <4> QED BY <4>1, <4>2
    <3> QED BY <1>0, <3>1, <3>2
  <2> QED BY <1>3, <2>1, CursorMoves DEF ReadHeader
<1>4. CASE Truncated
  BY <1>0, <1>4, FatalCursor DEF Truncated
<1>5. CASE ReadData
  BY <1>5, FieldTaken, CursorMoves DEF ReadData, Reads
<1>6. CASE \E n \in Lengths(remaining - 4), decodes \in BOOLEAN : ReadText(n, decodes)
  <2> PICK n \in Lengths(remaining - 4), decodes \in BOOLEAN : ReadText(n, decodes)
    BY <1>6
  <2>1. todo # <<>> /\ todo[1].f = "text" /\ ~Missing /\ pc = "read"
    BY DEF ReadText, Reads
  <2>2. todo[1].n = 4
    BY <1>0, <2>1 DEF Fields
  <2>3. offset + 4 \in 0..size /\ remaining - 4 \in 0..size
    <3>1. offset + 4 \in 0..size
      BY <2>1, <2>2, FieldTaken
    <3> QED BY <3>1, <1>0 DEF remaining
  <2>4. n \in Int
    BY <1>0, <2>3, LengthsAssumption DEF size
  <2>5. CASE n < 0 \/ n > remaining - 4
    BY <2>3, <2>5, FatalCursor DEF ReadText
  <2>6. CASE ~(n < 0 \/ n > remaining - 4)
    <3>1. offset + 4 + n \in 0..size
      BY <1>0, <2>3, <2>4, <2>6 DEF remaining
    <3>2. offset' = offset + 4 + n /\ pc' = pc /\ file' = file
      BY <2>6 DEF ReadText
    <3> QED BY <2>1, <3>1, <3>2, CursorMoves
  <2> QED BY <2>5, <2>6
<1>7. CASE Reads("index") /\ \E v \in Stored(todo[1].n) : ReadIndex(v)
  BY <1>7, FieldTaken, CursorMoves DEF ReadIndex, Reads
<1>8. CASE Reads("face") /\ \E v \in Stored(todo[1].n) : ReadFace(v)
  <2> PICK v \in Stored(todo[1].n) : ReadFace(v)
    BY <1>8
  <2>1. offset' = offset + todo[1].n /\ offset + todo[1].n \in 0..size /\ pc = "read"
    BY FieldTaken DEF ReadFace, Reads
  <2>2. Fatal("FACE_INDEX_OUT_OF_RANGE", None) \/ (pc' = pc /\ file' = file)
    BY DEF ReadFace
  <2> QED BY <2>1, <2>2, FatalCursor, CursorMoves
<1>9. CASE Reads("list") /\ \E n \in Counts((remaining - 4) \div MinimumOf(todo[1].of)) : ReadCount(n)
  <2> DEFINE k == (remaining - 4) \div MinimumOf(todo[1].of)
  <2> PICK n \in Counts(k) : ReadCount(n)
    BY <1>9
  <2>1. todo # <<>> /\ todo[1].f = "list" /\ ~Missing
    BY DEF ReadCount, Reads
  <2>2. todo[1].n = 4 /\ todo[1].of \in Lists
    BY <1>0, <2>1 DEF Fields
  <2>3. remaining - 4 \in Nat /\ remaining - 4 <= size
    <3>1. offset + 4 \in 0..size
      BY <2>1, <2>2, FieldTaken
    <3> QED BY <3>1, <1>0 DEF remaining
  <2>4. MinimumOf(todo[1].of) \in Nat /\ MinimumOf(todo[1].of) >= 1
    BY <1>0, <2>2, SmallestIsMinimum
  <2>5. k \in 0..(remaining - 4)
    BY <2>3, <2>4, Division
  <2> HIDE DEF k
  <2>6. k \in 0..size
    BY <1>0, <2>3, <2>5
  <2>7. n \in Int
    BY <1>0, <2>6, CountsAssumption DEF size
  <2> QED BY <2>7, CountCursor
<1>10. CASE NextRecord
  BY <1>0, <1>10, CursorMoves DEF NextRecord, Reads
<1>11. CASE EndOfList
  BY <1>0, <1>11, CursorMoves DEF EndOfList, Reads
<1>12. CASE Reads("select") /\ \E v \in LayoutValues(todo[1].what) : ReadSelect(v)
  BY <1>12, FieldTaken, CursorMoves DEF ReadSelect, Reads
<1>13. CASE RefuseSelect
  BY <1>13, FieldTaken, FatalCursor DEF RefuseSelect, Reads
<1>14. CASE Reads("faceCount") /\ \E n \in Counts(Left) : ReadFaceCount(n)
  <2> PICK n \in Counts(Left) : ReadFaceCount(n)
    BY <1>14
  <2>1. todo # <<>> /\ todo[1].f = "faceCount" /\ ~Missing /\ pc = "read" /\ offset' = offset + 4
    BY DEF ReadFaceCount, Reads
  <2>2. todo[1].n = 4
    BY <1>0, <2>1 DEF Fields
  <2>3. offset + 4 \in 0..size
    BY <2>1, <2>2, FieldTaken
  <2>4. Fatal("MATERIAL_FACES_EXCEED_TABLE", None) \/ (pc' = pc /\ file' = file)
    BY DEF ReadFaceCount
  <2> QED BY <2>1, <2>3, <2>4, FatalCursor, CursorMoves
<1>15. CASE ReadEnd
  BY <1>0, <1>15, CursorMoves DEF ReadEnd
<1>16. CASE CheckIndex
  BY <1>0, <1>16, CursorMoves DEF CheckIndex
<1>17. CASE Succeed
  BY <1>0, <1>17, CursorMoves DEF Succeed
<1>18. CASE UNCHANGED vars
  <2>1. UNCHANGED <<offset, file, pc, result>>
    BY <1>18 DEF vars
  <2>2. \A x : MinimumOf(x)' = MinimumOf(x)
    BY <2>1 DEF MinimumOf, header
  <2>3. MinimumOf(result.about.of)' = MinimumOf(result.about.of)
    BY <2>1 DEF MinimumOf, header
  <2> QED BY <2>1, <2>3 DEF CursorInv, InFile, Refused, remaining, size
<1> QED
  BY <1>1, <1>2, <1>3, <1>4, <1>5, <1>6, <1>7, <1>8, <1>9, <1>10, <1>11, <1>12, <1>13,
     <1>14, <1>15, <1>16, <1>17, <1>18 DEF Next

\* A count is refused only where the bytes left could not hold its records,
\* were each as small as the layout of the file allows.
THEOREM CountsAreRefusedRightly == Spec => []OnlyImpossibleCountsAreRefused
<1>1. Init => IndexInv /\ DrawInv /\ CursorInv
  BY InitIndices, DrawInit, CursorInit
<1>2. IndexInv /\ DrawInv /\ CursorInv /\ [Next]_vars => (IndexInv /\ DrawInv /\ CursorInv)'
  BY StepIndices, StepDraws, StepCursor
<1>3. IndexInv /\ DrawInv /\ CursorInv => OnlyImpossibleCountsAreRefused
  <2> SUFFICES ASSUME IndexInv, CursorInv, pc = "failed", result.about # None, result.about.n >= 0
               PROVE  result.about.n * Smallest(result.about.of) > remaining
    BY DEF OnlyImpossibleCountsAreRefused
  <2>1. result.about.of \in Lists /\ result.about.n * MinimumOf(result.about.of) > remaining
    BY DEF CursorInv, Refused
  <2>2. Smallest(result.about.of) = MinimumOf(result.about.of)
    BY <2>1, ReadTypes, SmallestIsMinimum
  <2> QED BY <2>1, <2>2
<1> QED BY <1>1, <1>2, <1>3, PTL DEF Spec

-----------------------------------------------------------------------------
(* The bytes that accepted counts claim *)

\* What a field still to be read takes at the least.
Owes == [x \in Fields |-> IF x.f = "records" THEN x.left * MinimumOf(x.of) ELSE LeastSize(x)]
Owed(s) == Total(Mapped(s, Owes))

\* The lists of the file; everything else; what a record in a record is made of.
Outer == {x \in Fields : IsTable(x)}
Middle == {x \in Fields : ~IsTable(x)}
Static == {x \in Middle : x.f # "records"}
Inner == {x \in Middle : /\ x.f # "list" /\ (x.f = "records" => x.of \notin Tables)
                         /\ x.f = "select" => x.what \in {"limits", "kind"}}

\* What is to read is a list in a record, the rest of a table, then tables.
\* Tables claim a bytes and lists in records b: no more than has been read or
\* must be read before the next count of the same kind.
ClaimInv ==
  /\ pc = "header" => claimed = 0
  /\ \E a, b \in 0..size, p \in Seq(Inner), m \in Seq(Middle), t \in Seq(Outer) :
       /\ todo = p \o (m \o t) /\ claimed = a + b
       /\ a <= offset + Owed(p) + Owed(m) /\ b <= offset + Owed(p)

LEMMA KindSets ==
  /\ Seq(Inner) \subseteq Seq(Fields) /\ Seq(Inner) \subseteq Seq(Middle)
  /\ Seq(Middle) \subseteq Seq(Fields) /\ Seq(Outer) \subseteq Seq(Fields)
  /\ Seq(Static) \subseteq Seq(Fields) /\ Seq(Simple) \subseteq Seq(Middle)
  /\ Seq(Static) \subseteq Seq(Middle)
BY DEF Inner, Middle, Outer, Static, Simple, Plain

LEMMA OwesType ==
  ASSUME HeaderOK
  PROVE  /\ Owes \in [Fields -> Nat]
         /\ \A x \in Fields : x.f \notin {"select", "records"} => Owes[x] = x.n
         /\ \A of \in Lists, left \in Nat : Owes[Records(of, left)] = left * MinimumOf(of)
<1>1. ASSUME NEW x \in Fields
      PROVE  (IF x.f = "records" THEN x.left * MinimumOf(x.of) ELSE LeastSize(x)) \in Nat
  <2>1. CASE x.f = "records"
    <3>1. x.left \in Nat /\ x.of \in Lists
      BY <2>1 DEF Fields
    <3>2. MinimumOf(x.of) \in Nat
      BY <3>1, SmallestIsMinimum
    <3>3. x.left * MinimumOf(x.of) \in Nat
      <4>1. \A i, k \in Nat : i * k \in Nat
        OBVIOUS
      <4> QED BY <4>1, <3>1, <3>2
    <3> QED BY <3>3, <2>1
  <2>2. CASE x.f # "records"
    BY <2>2, LeastSizeType
  <2> QED BY <2>1, <2>2
<1>2. \A x \in Fields : x.f \notin {"select", "records"} => Owes[x] = x.n
  BY LeastSizeType DEF Owes
<1>3. ASSUME NEW of \in Lists, NEW left \in Nat PROVE Owes[Records(of, left)] = left * MinimumOf(of)
  <2>1. Records(of, left) \in Fields
    BY FieldTypes
  <2>2. Records(of, left).f = "records" /\ Records(of, left).of = of /\ Records(of, left).left = left
    BY DEF Records
  <2> QED BY <2>1, <2>2 DEF Owes
<1> QED BY <1>1, <1>2, <1>3 DEF Owes

LEMMA OwedConcat ==
  ASSUME HeaderOK, NEW s \in Seq(Fields), NEW t \in Seq(Fields)
  PROVE  Owed(s \o t) = Owed(s) + Owed(t) /\ Owed(s) \in Nat /\ Owed(t) \in Nat
BY OwesType, MappedConcat DEF Owed

LEMMA OwedOne ==
  ASSUME HeaderOK, NEW x \in Fields
  PROVE  Owed(<<x>>) = Owes[x] /\ Owes[x] \in Nat
<1>1. Mapped(<<x>>, Owes) = <<Owes[x]>> /\ Owes[x] \in Nat
  BY OwesType DEF Mapped
<1> QED BY <1>1, TotalOne DEF Owed

LEMMA OwedNone == Owed(<<>>) = 0
<1>1. Mapped(<<>>, Owes) = <<>>
  BY DEF Mapped
<1> QED BY <1>1, TotalNone DEF Owed

LEMMA OwedFirst ==
  ASSUME HeaderOK, NEW s \in Seq(Fields), s # <<>>
  PROVE  /\ Owed(s) = Owes[s[1]] + Owed(Tail(s))
         /\ s[1] \in Fields /\ Tail(s) \in Seq(Fields) /\ Owes[s[1]] \in Nat /\ Owed(Tail(s)) \in Nat
<1>1. s = <<s[1]>> \o Tail(s) /\ s[1] \in Fields /\ <<s[1]>> \in Seq(Fields) /\ Tail(s) \in Seq(Fields)
  OBVIOUS
<1>2. Owed(<<s[1]>> \o Tail(s)) = Owed(<<s[1]>>) + Owed(Tail(s)) /\ Owed(Tail(s)) \in Nat
  BY <1>1, OwedConcat
<1>3. Owed(<<s[1]>>) = Owes[s[1]] /\ Owes[s[1]] \in Nat
  BY <1>1, OwedOne
<1>4. Owed(s) = Owes[s[1]] + Owed(Tail(s))
  BY <1>1, <1>2, <1>3
<1> QED BY <1>1, <1>2, <1>3, <1>4

\* Fields of a known size owe their bytes, those without records the least.
LEMMA OwedSimple ==
  ASSUME HeaderOK
  PROVE  /\ \A s \in Seq(Simple) : Owed(s) = Bytes(s)
         /\ \A s \in Seq(Static) : Owed(s) = LeastBytes(s)
<1>1. ASSUME NEW s \in Seq(Simple) PROVE Owed(s) = Bytes(s)
  <2>1. \A i \in DOMAIN s : s[i] \in Simple
    BY SequenceShape
  <2>2. \A x \in Simple : x \in Fields /\ Owes[x] = x.n
    BY OwesType DEF Simple, Plain
  <2>3. Mapped(s, Owes) = Sizes(s)
    BY <2>1, <2>2 DEF Mapped, Sizes
  <2> QED BY <2>3 DEF Owed, Bytes
<1>2. ASSUME NEW s \in Seq(Static) PROVE Owed(s) = LeastBytes(s)
  <2>1. \A i \in DOMAIN s : s[i] \in Static
    BY SequenceShape
  <2>2. \A x \in Static : Owes[x] = LeastSize(x)
    BY DEF Static, Middle, Owes
  <2>3. Mapped(s, Owes) = Least(s)
    BY <2>1, <2>2 DEF Mapped, Least
  <2> QED BY <2>3 DEF Owed, LeastBytes
<1> QED BY <1>1, <1>2

LEMMA OwedSame ==
  ASSUME file' = file
  PROVE  \A s : Owed(s)' = Owed(s)
<1>1. header' = header
  BY DEF header
<1>2. \A x : MinimumOf(x)' = MinimumOf(x)
  BY <1>1 DEF MinimumOf
<1>3. \A what, v : Chosen(what, v)' = Chosen(what, v)
  BY <1>1 DEF Chosen, Deform, BoneRest, Offsets, Influences, Index, Ref, Data, List, If
<1>4. \A what : LayoutValues(what)' = LayoutValues(what)
  BY <1>1 DEF LayoutValues
<1>5. \A x : LeastSize(x)' = LeastSize(x)
  BY <1>3, <1>4 DEF LeastSize
<1>6. Owes' = Owes
  BY <1>2, <1>5 DEF Owes
<1> QED BY <1>6 DEF Owed, Mapped

LEMMA StaticFields ==
  ASSUME HeaderOK
  PROVE  /\ \A n \in Nat : Data(n) \in Static /\ Data(n) \in Inner
         /\ Text \in Static /\ Face \in Static /\ FaceCount \in Static
         /\ \A to \in Tables : Ref(to) \in Static /\ Ref(to) \in Inner
         /\ \A of \in Lists \ Tables : List(of) \in Static
         /\ \A what \in {"deform", "toon", "bone", "limits", "morph", "kind"}, n \in {1, 2} :
              Select(what, n) \in Static
         /\ \A what \in {"limits", "kind"}, n \in {1, 2} : Select(what, n) \in Inner
<1> USE DEF Static, Middle, Inner, IsTable
<1>1. \A n \in Nat : Data(n) \in Static /\ Data(n) \in Inner
  BY LeastFields DEF Data
<1>2. Text \in Static /\ Face \in Static /\ FaceCount \in Static
  BY LeastFields DEF Text, Face, FaceCount
<1>3. \A to \in Tables : Ref(to) \in Static /\ Ref(to) \in Inner
  BY LeastFields DEF Ref, Index
<1>4. \A of \in Lists \ Tables : List(of) \in Static
  BY LeastFields DEF List
<1>5. \A what \in {"deform", "toon", "bone", "limits", "morph", "kind"}, n \in {1, 2} :
        Select(what, n) \in Static
  BY LeastFields DEF Select
<1>6. \A what \in {"limits", "kind"}, n \in {1, 2} : Select(what, n) \in Inner
  BY LeastFields DEF Select
<1> QED BY <1>1, <1>2, <1>3, <1>4, <1>5, <1>6

\* No record holds a table; a record in a record holds no list.
LEMMA RecordKinds ==
  ASSUME HeaderOK
  PROVE  /\ \A of \in Lists : Record(of) \in Seq(Static)
         /\ \A of \in Lists \ Tables : Record(of) \in Seq(Inner)
<1>1. Vertex \in Seq(Static) /\ Material \in Seq(Static)
  <2>1. 12 + 12 + 8 + 16 * header.vec4s \in Nat
    BY DEF HeaderOK, Headers
  <2>2. Vertex \in Seq(Static)
    BY <2>1, StaticFields DEF Vertex
  <2>3. Material \in Seq(Static)
    BY StaticFields DEF Material, Tables
  <2> QED BY <2>2, <2>3
<1>2. /\ Bone \in Seq(Static) /\ IkLink \in Seq(Static)
      /\ Morph \in Seq(Static) /\ DisplayFrame \in Seq(Static) /\ FrameElement \in Seq(Static)
  BY StaticFields DEF Bone, IkLink, Morph, DisplayFrame, FrameElement, Tables, Lists
<1>3. /\ GroupOffset \in Seq(Static) /\ VertexOffset \in Seq(Static)
      /\ BoneOffset \in Seq(Static) /\ UvOffset \in Seq(Static)
      /\ MaterialOffset \in Seq(Static) /\ ImpulseOffset \in Seq(Static)
  BY StaticFields DEF GroupOffset, VertexOffset, BoneOffset, UvOffset, MaterialOffset, ImpulseOffset, Tables
<1>4. /\ RigidBody \in Seq(Static) /\ Joint \in Seq(Static) /\ SoftBody \in Seq(Static)
      /\ SoftBodyAnchor \in Seq(Static)
  BY StaticFields DEF RigidBody, Joint, SoftBody, SoftBodyAnchor, Tables, Lists
<1>5. <<Face>> \in Seq(Static) /\ <<Text>> \in Seq(Static) /\ <<Ref("vertices")>> \in Seq(Static)
  BY StaticFields DEF Tables
<1>6. \A of \in Lists : Record(of) \in Seq(Static)
  BY <1>1, <1>2, <1>3, <1>4, <1>5 DEF Record, Lists, Tables
<1>7. /\ IkLink \in Seq(Inner) /\ FrameElement \in Seq(Inner)
      /\ GroupOffset \in Seq(Inner) /\ VertexOffset \in Seq(Inner)
      /\ BoneOffset \in Seq(Inner) /\ UvOffset \in Seq(Inner)
      /\ MaterialOffset \in Seq(Inner) /\ ImpulseOffset \in Seq(Inner)
      /\ SoftBodyAnchor \in Seq(Inner) /\ <<Ref("vertices")>> \in Seq(Inner)
  BY StaticFields DEF IkLink, FrameElement, GroupOffset, VertexOffset, BoneOffset, UvOffset,
     MaterialOffset, ImpulseOffset, SoftBodyAnchor, Tables
<1>8. \A of \in Lists \ Tables : Record(of) \in Seq(Inner)
  BY <1>7 DEF Record, Lists, Tables
<1> QED BY <1>6, <1>8

LEMMA ChosenInner ==
  ASSUME HeaderOK, NEW what \in {"limits", "kind"}, NEW v \in LayoutValues(what)
  PROVE  Chosen(what, v) \in Seq(Inner)
<1>1. /\ <<Data(12), Data(12)>> \in Seq(Inner) /\ <<>> \in Seq(Inner)
      /\ <<Ref("bones")>> \in Seq(Inner) /\ <<Ref("morphs")>> \in Seq(Inner)
  BY StaticFields DEF Tables
<1> QED BY <1>1 DEF Chosen

\* What stands first, and what is left behind it.
LEMMA FirstOf ==
  ASSUME NEW S, NEW s \in Seq(S), s # <<>>, NEW t \in Seq(S)
  PROVE  (s \o t)[1] = s[1] /\ Tail(s \o t) = Tail(s) \o t /\ s[1] \in S /\ Tail(s) \in Seq(S)
OBVIOUS

LEMMA Joined ==
  ASSUME NEW S, NEW s \in Seq(S), NEW t \in Seq(S), NEW u \in Seq(S)
  PROVE  /\ s \o (t \o u) = (s \o t) \o u /\ s \o t \in Seq(S) /\ t \o u \in Seq(S)
         /\ <<>> \o s = s /\ <<>> \in Seq(S)
OBVIOUS

LEMMA Reassociated == \A x, y, z \in Seq(Fields) : x \o (y \o z) = (x \o y) \o z
<1> TAKE x, y, z \in Seq(Fields)
<1> QED BY Joined

LEMMA ClaimsHold ==
  ASSUME file' = file, NEW a \in 0..size, NEW b \in 0..size, NEW p \in Seq(Inner),
         NEW m \in Seq(Middle), NEW t \in Seq(Outer),
         todo' = p \o (m \o t), claimed' = a + b, pc' # "header",
         a <= offset' + Owed(p) + Owed(m), b <= offset' + Owed(p)
  PROVE  ClaimInv'
<1>1. size' = size
  BY DEF size
<1>2. Owed(p)' = Owed(p) /\ Owed(m)' = Owed(m)
  BY OwedSame
<1>3. /\ todo' = p \o (m \o t) /\ claimed' = a + b
      /\ a <= offset' + Owed(p)' + Owed(m)' /\ b <= offset' + Owed(p)'
  BY <1>2
<1>4. (\E c, d \in 0..size, q \in Seq(Inner), n \in Seq(Middle), u \in Seq(Outer) :
         /\ todo = q \o (n \o u) /\ claimed = c + d
         /\ c <= offset + Owed(q) + Owed(n) /\ d <= offset + Owed(q))'
  BY <1>1, <1>3
<1> QED BY <1>4 DEF ClaimInv

\* A step that reads on, or not at all, and leaves what is to read as it was.
LEMMA ClaimsKept ==
  ASSUME HeaderOK, size \in Nat, offset \in Nat, ClaimInv, file' = file, todo' = todo, claimed' = claimed,
         NEW o \in Nat, offset' = o, offset <= o, pc' # "header" \/ pc = "header"
  PROVE  ClaimInv'
<1>1. PICK a \in 0..size, b \in 0..size, p \in Seq(Inner), m \in Seq(Middle), t \in Seq(Outer) :
        /\ todo = p \o (m \o t) /\ claimed = a + b
        /\ a <= offset + Owed(p) + Owed(m) /\ b <= offset + Owed(p)
  BY DEF ClaimInv
<1>2. Owed(p) \in Nat /\ Owed(m) \in Nat
  BY KindSets, OwedConcat
<1>3. a <= o + Owed(p) + Owed(m) /\ b <= o + Owed(p)
  BY <1>1, <1>2
<1>4. CASE pc' # "header"
  BY <1>1, <1>3, <1>4, ClaimsHold
<1>5. CASE pc' = "header"
  <2>1. size' = size /\ claimed' = 0
    BY <1>5 DEF ClaimInv, size
  <2>2. Owed(p)' = Owed(p) /\ Owed(m)' = Owed(m)
    BY OwedSame
  <2>3. /\ todo' = p \o (m \o t) /\ claimed' = a + b
        /\ a <= offset' + Owed(p)' + Owed(m)' /\ b <= offset' + Owed(p)'
    BY <1>1, <1>3, <2>2
  <2>4. (\E c, d \in 0..size, q \in Seq(Inner), n \in Seq(Middle), u \in Seq(Outer) :
           /\ todo = q \o (n \o u) /\ claimed = c + d
           /\ c <= offset + Owed(q) + Owed(n) /\ d <= offset + Owed(q))'
    BY <2>1, <2>3
  <2> QED BY <2>1, <2>4 DEF ClaimInv
<1> QED BY <1>4, <1>5

\* The first field is read and others may take its place, of the same kind and
\* owing no less than it did but for the bytes read.
LEMMA ClaimsMove ==
  ASSUME HeaderOK, size \in Nat, offset \in Nat, ClaimInv, file' = file, claimed' = claimed,
         pc' # "header", todo # <<>>, ~IsTable(todo[1]), NEW new \in Seq(Middle),
         todo' = new \o Tail(todo), todo[1] \in Inner => new \in Seq(Inner),
         NEW o \in Nat, offset' = o, offset <= o, offset + Owes[todo[1]] <= o + Owed(new)
  PROVE  ClaimInv'
<1>1. PICK a \in 0..size, b \in 0..size, p \in Seq(Inner), m \in Seq(Middle), t \in Seq(Outer) :
        /\ todo = p \o (m \o t) /\ claimed = a + b
        /\ a <= offset + Owed(p) + Owed(m) /\ b <= offset + Owed(p)
  BY DEF ClaimInv
<1>2. /\ Owed(p) \in Nat /\ Owed(m) \in Nat /\ Owed(new) \in Nat /\ new \in Seq(Fields)
      /\ p \in Seq(Fields) /\ m \in Seq(Fields) /\ t \in Seq(Fields) /\ m \o t \in Seq(Fields)
  BY KindSets, OwedConcat, Joined
<1>3. CASE p # <<>>
  <2>1. todo[1] = p[1] /\ Tail(todo) = Tail(p) \o (m \o t) /\ p[1] \in Fields /\ Tail(p) \in Seq(Fields)
    BY <1>1, <1>2, <1>3, FirstOf
  <2>2. p[1] \in Inner /\ Tail(p) \in Seq(Inner)
    BY <1>3
  <2> DEFINE q == new \o Tail(p)
  <2>3. q \in Seq(Inner)
    BY <2>1, <2>2, Joined
  <2>4. todo' = q \o (m \o t)
    <3> DEFINE r == m \o t
               u == Tail(p)
    <3>1. r \in Seq(Fields) /\ u \in Seq(Fields) /\ todo' = new \o (u \o r)
      BY <1>2, <2>1
    <3> HIDE DEF r, u
    <3>2. new \o (u \o r) = (new \o u) \o r
      <4>1. new \in Seq(Fields) /\ u \in Seq(Fields) /\ r \in Seq(Fields)
        BY <1>2, <3>1
      <4> QED BY <4>1, Reassociated, Zenon
    <3> QED BY <3>1, <3>2 DEF r, u
  <2>5. Owed(q) = Owed(new) + Owed(Tail(p)) /\ Owed(Tail(p)) \in Nat
    BY <2>1, <1>2, OwedConcat
  <2>6. Owed(p) = Owes[p[1]] + Owed(Tail(p)) /\ Owes[p[1]] \in Nat
    BY <1>2, <1>3, OwedFirst
  <2>7. offset + Owes[p[1]] <= o + Owed(new)
    BY <2>1
  <2> HIDE DEF q
  <2>8. a <= o + Owed(q) + Owed(m) /\ b <= o + Owed(q)
    <3>1. Owed(q) \in Nat /\ offset + Owed(p) <= o + Owed(q)
      <4> DEFINE x == Owes[p[1]]
                 y == Owed(Tail(p))
                 z == Owed(new)
      <4>1. /\ x \in Nat /\ y \in Nat /\ z \in Nat /\ offset \in Nat /\ o \in Nat
            /\ Owed(q) = z + y /\ Owed(p) = x + y /\ offset + x <= o + z
        BY <1>2, <2>5, <2>6, <2>7
      <4> HIDE DEF x, y, z
      <4> QED BY ONLY <4>1
    <3>2. a <= offset + Owed(p) + Owed(m) /\ b <= offset + Owed(p) /\ Owed(p) \in Nat /\ Owed(m) \in Nat
      BY <1>1, <1>2
    <3> QED BY <3>1, <3>2
  <2> QED BY <1>1, <2>3, <2>4, <2>8, ClaimsHold
<1>4. CASE p = <<>> /\ m # <<>>
  <2>0. todo = m \o t
    BY <1>1, <1>2, <1>4, Joined
  <2>1. todo[1] = m[1] /\ Tail(todo) = Tail(m) \o t /\ m[1] \in Fields /\ Tail(m) \in Seq(Fields)
    BY <2>0, <1>2, <1>4, FirstOf
  <2>2. Tail(m) \in Seq(Middle)
    BY <1>4
  <2> DEFINE q == new \o Tail(m)
  <2>3. q \in Seq(Middle)
    BY <2>2, Joined
  <2>4. todo' = q \o t /\ q \o t \in Seq(Fields)
    <3> DEFINE u == Tail(m)
    <3>1. u \in Seq(Fields) /\ todo' = new \o (u \o t)
      BY <1>2, <2>1
    <3> HIDE DEF u
    <3>2. new \o (u \o t) = (new \o u) \o t /\ new \o u \in Seq(Fields)
      <4>1. new \in Seq(Fields) /\ u \in Seq(Fields) /\ t \in Seq(Fields)
        BY <1>2, <3>1
      <4> QED BY ONLY SMTT(40), <4>1, Joined
    <3>3. (new \o u) \o t \in Seq(Fields)
      BY <3>2, <1>2, Joined
    <3> QED BY <3>1, <3>2, <3>3 DEF u
  <2>5. Owed(q) = Owed(new) + Owed(Tail(m)) /\ Owed(Tail(m)) \in Nat
    BY <2>1, <1>2, OwedConcat
  <2>6. Owed(m) = Owes[m[1]] + Owed(Tail(m)) /\ Owes[m[1]] \in Nat
    BY <1>2, <1>4, OwedFirst
  <2>7. offset + Owes[m[1]] <= o + Owed(new) /\ Owed(p) = 0
    BY <2>1, <1>4, OwedNone
  <2> HIDE DEF q
  <2>8. a <= o + Owed(p) + Owed(q) /\ b <= o + Owed(p)
    <3>1. Owed(q) \in Nat /\ offset + Owed(m) <= o + Owed(q)
      <4> DEFINE x == Owes[m[1]]
                 y == Owed(Tail(m))
                 z == Owed(new)
      <4>1. /\ x \in Nat /\ y \in Nat /\ z \in Nat /\ offset \in Nat /\ o \in Nat
            /\ Owed(q) = z + y /\ Owed(m) = x + y /\ offset + x <= o + z
        BY <1>2, <2>5, <2>6, <2>7
      <4> HIDE DEF x, y, z
      <4> QED BY ONLY <4>1
    <3>2. a <= offset + Owed(p) + Owed(m) /\ b <= offset + Owed(p) /\ Owed(p) = 0 /\ Owed(m) \in Nat
      BY <1>1, <1>2, <2>7
    <3> QED BY <3>1, <3>2
  <2>9. todo' = p \o (q \o t)
    BY <2>4, <1>4, Joined
  <2> QED BY <1>1, <2>3, <2>8, <2>9, ClaimsHold
<1>5. CASE p = <<>> /\ m = <<>>
  <2>1. todo = t
    BY <1>1, <1>2, <1>5, Joined
  <2>2. todo[1] \in Outer
    BY <2>1
  <2> QED BY <2>2 DEF Outer
<1> QED BY <1>3, <1>4, <1>5

\* The same where nothing takes its place.
LEMMA ClaimsTaken ==
  ASSUME HeaderOK, size \in Nat, offset \in Nat, ClaimInv, file' = file, claimed' = claimed,
         pc' # "header", todo \in Seq(Fields), todo # <<>>, ~IsTable(todo[1]), todo' = Tail(todo),
         NEW o \in Nat, offset' = o, offset + Owes[todo[1]] <= o
  PROVE  ClaimInv'
<1>1. Tail(todo) \in Seq(Fields) /\ Owes[todo[1]] \in Nat
  BY OwedFirst
<1>2. todo' = <<>> \o Tail(todo) /\ <<>> \in Seq(Middle) /\ <<>> \in Seq(Inner)
  BY <1>1, Joined
<1>3. offset <= o /\ offset + Owes[todo[1]] <= o + Owed(<<>>)
  BY <1>1, OwedNone
<1> QED BY <1>2, <1>3, ClaimsMove

\* A count is accepted where no other of its kind claims bytes still to be read.
LEMMA CountClaims ==
  ASSUME IndexInv, CursorInv, ClaimInv, NEW n \in Int, ReadCount(n)
  PROVE  ClaimInv'
<1> DEFINE of == todo[1].of
           o == offset + 4
<1>0. /\ HeaderOK /\ size \in Nat /\ offset \in Nat /\ todo \in Seq(Fields) /\ todo # <<>>
      /\ todo[1].f = "list" /\ todo[1].n = 4 /\ of \in Lists /\ ~Missing /\ pc = "read" /\ offset' = o
  <2>1. todo # <<>> /\ todo[1].f = "list" /\ ~Missing /\ offset' = o /\ pc = "read"
    BY DEF ReadCount, Reads
  <2> QED BY <2>1, ReadTypes DEF Fields
<1>1. o \in 0..size /\ remaining - 4 = size - o
  <2>1. offset + todo[1].n \in 0..size
    BY <1>0, FieldTaken
  <2> QED BY <1>0, <2>1 DEF remaining
<1>2. CASE ~Fits(n, of, remaining - 4) \/ (of = "faces" /\ n % 3 # 0)
  <2>1. \E code, about : Fatal(code, about)
    BY <1>2 DEF ReadCount
  <2>2. file' = file /\ todo' = todo /\ claimed' = claimed /\ pc' # "header"
    BY <2>1 DEF Fatal
  <2>3. o \in Nat /\ offset <= o
    BY <1>0
  <2> HIDE DEF o
  <2> QED BY <1>0, <2>2, <2>3, ClaimsKept
<1>3. CASE Fits(n, of, remaining - 4) /\ ~(of = "faces" /\ n % 3 # 0)
  <2> DEFINE new == Records(of, n)
             due == n * MinimumOf(of)
  <2>1. /\ todo' = <<new>> \o Tail(todo) /\ claimed' = claimed + n * Smallest(of)
        /\ file' = file /\ pc' = pc
    BY <1>3 DEF ReadCount
  <2>2. MinimumOf(of) = Smallest(of) /\ MinimumOf(of) \in Nat /\ MinimumOf(of) >= 1
    BY <1>0, SmallestIsMinimum
  <2>3. n \in Nat /\ due \in Nat /\ o + due <= size
    <3> DEFINE room == remaining - 4
               k == MinimumOf(of)
    <3>1. room \in Nat /\ room = size - o
      BY <1>0, <1>1
    <3>2. k \in Nat /\ k >= 1
      BY <2>2
    <3>3. n \in 0..(room \div k)
      BY <1>3 DEF Fits
    <3> HIDE DEF room, k
    <3>4. room \div k \in 0..room
      BY <3>1, <3>2, Division
    <3>5. n \in Nat /\ n <= room \div k
      BY <3>3, <3>4
    <3>6. n * k <= room /\ n * k \in Nat
      BY <3>1, <3>2, <3>5, Division
    <3>7. o + n * k <= size
      BY <3>1, <3>6, <1>0, <1>1
    <3> QED BY <3>5, <3>6, <3>7 DEF k
  <2>4. new \in Fields /\ new \in Middle /\ (of \notin Tables => new \in Inner)
    <3>1. new \in Fields
      BY <1>0, <2>3, FieldTypes
    <3> QED BY <3>1 DEF Middle, Inner, IsTable, Records
  <2>5. Owes[new] = due
    BY <1>0, <2>3, OwesType
  <2>6. claimed' = claimed + due
    BY <2>1, <2>2
  <2>7. Owes[todo[1]] = 4
    <3>1. todo[1] \in Fields
      BY <1>0
    <3> QED BY <3>1, <1>0, OwesType
  <2> HIDE DEF due, new
  <2>8. PICK a \in 0..size, b \in 0..size, p \in Seq(Inner), m \in Seq(Middle), t \in Seq(Outer) :
          /\ todo = p \o (m \o t) /\ claimed = a + b
          /\ a <= offset + Owed(p) + Owed(m) /\ b <= offset + Owed(p)
    BY DEF ClaimInv
  <2>9. /\ Owed(p) \in Nat /\ Owed(m) \in Nat
        /\ p \in Seq(Fields) /\ m \in Seq(Fields) /\ t \in Seq(Fields) /\ m \o t \in Seq(Fields)
    BY <1>0, KindSets, OwedConcat, Joined
  <2>10. p = <<>>
    <3>1. SUFFICES ASSUME p # <<>> PROVE FALSE
      OBVIOUS
    <3>2. todo[1] = p[1]
      BY <2>8, <2>9, <3>1, FirstOf
    <3>3. p[1] \in Inner
      BY <3>1
    <3> QED BY <1>0, <3>2, <3>3 DEF Inner
  <2>11. todo = m \o t /\ Owed(p) = 0
    BY <2>8, <2>9, <2>10, Joined, OwedNone
  <2>12. CASE m # <<>>
    <3>1. todo[1] = m[1] /\ Tail(todo) = Tail(m) \o t /\ Tail(m) \in Seq(Middle) /\ m[1] \in Middle
      <4>1. Tail(m) \in Seq(Middle) /\ m[1] \in Middle
        BY <2>12
      <4> QED BY SMTT(40), <4>1, <2>9, <2>11, <2>12, FirstOf
    <3>2. of \notin Tables
      BY <1>0, <3>1 DEF Middle, IsTable
    <3> DEFINE q == <<new>>
               d == b + due
    <3>3. q \in Seq(Inner) /\ q \in Seq(Fields)
      BY <2>4, <3>2
    <3>4. Owed(q) = due
      BY <1>0, <2>4, <2>5, OwedOne
    <3>5. Owed(m) = 4 + Owed(Tail(m)) /\ Owed(Tail(m)) \in Nat
      BY <1>0, <2>7, <2>9, <2>12, <3>1, OwedFirst
    <3>6. b <= offset /\ a <= offset + Owed(m)
      BY <1>0, <2>8, <2>9, <2>11
    <3>7. d \in 0..size /\ d <= o + due
      BY <1>0, <1>1, <2>3, <3>6
    <3>8. a <= o + due + Owed(Tail(m))
      <4>1. a <= offset + (4 + Owed(Tail(m))) /\ Owed(Tail(m)) \in Nat
        BY <3>5, <3>6
      <4>2. due \in Nat /\ offset \in Nat /\ o = offset + 4
        BY <1>0, <2>3
      <4> HIDE DEF o
      <4> QED BY ONLY <4>1, <4>2
    <3>9. todo' = q \o (Tail(m) \o t)
      BY <2>1, <3>1
    <3>10. claimed' = a + d
      BY <2>3, <2>6, <2>8
    <3> HIDE DEF q, d
    <3>11. a <= offset' + Owed(q) + Owed(Tail(m)) /\ d <= offset' + Owed(q)
      BY <1>0, <3>4, <3>7, <3>8
    <3> QED BY <1>0, <2>1, <2>8, <3>1, <3>3, <3>7, <3>9, <3>10, <3>11, ClaimsHold
  <2>13. CASE m = <<>>
    <3>1. todo = t /\ Owed(m) = 0
      BY <2>9, <2>11, <2>13, Joined, OwedNone
    <3> DEFINE q == <<new>>
               d == a + due
    <3>2. q \in Seq(Middle) /\ q \in Seq(Fields) /\ Tail(t) \in Seq(Outer)
      BY <1>0, <2>4, <3>1
    <3>3. Owed(q) = due
      BY <1>0, <2>4, <2>5, OwedOne
    <3>4. a <= offset /\ b <= offset
      BY <1>0, <2>8, <2>11, <3>1
    <3>5. d \in 0..size /\ d <= o + due /\ b <= o
      BY <1>0, <1>1, <2>3, <3>4
    <3>6. todo' = p \o (q \o Tail(t))
      <4>1. todo' = q \o Tail(t) /\ Tail(t) \in Seq(Fields)
        BY <2>1, <2>9, <3>1, <1>0
      <4> HIDE DEF q
      <4> QED BY <4>1, <2>10, <3>2, Joined
    <3>7. claimed' = d + b
      BY <2>3, <2>6, <2>8
    <3> HIDE DEF q, d
    <3>8. d <= offset' + Owed(p) + Owed(q) /\ b <= offset' + Owed(p)
      BY <1>0, <2>3, <2>11, <3>3, <3>5
    <3> QED BY <1>0, <2>1, <2>8, <3>2, <3>5, <3>6, <3>7, <3>8, ClaimsHold
  <2> QED BY <2>12, <2>13
<1> QED BY <1>2, <1>3

LEMMA LeastIn ==
  ASSUME NEW S \in SUBSET Nat, NEW s \in S
  PROVE  Min(S) \in Nat /\ Min(S) <= s
<1> DEFINE low == {x \in S : x <= s}
<1>1. low \in SUBSET Int /\ IsFiniteSet(low) /\ low # {}
  <2>1. s \in Nat /\ \A x \in S : x \in Nat
    OBVIOUS
  <2>2. IsFiniteSet(0..s)
    BY <2>1, FS_Interval
  <2>3. low \subseteq 0..s /\ s \in low
    <3>1. s <= s
      BY <2>1
    <3>2. \A x \in Nat : x <= s => x \in 0..s
      BY <2>1
    <3> QED BY <2>1, <3>1, <3>2, Zenon
  <2> QED BY <2>1, <2>2, <2>3, FS_Subset
<1>2. PICK m \in low : \A y \in low : m <= y
  <2> HIDE DEF low
  <2> QED BY <1>1, LeastElement
<1>3. m \in S /\ \A y \in S : m <= y
  BY <1>2
<1>4. Min(S) = m
  BY <1>3, MinIs
<1> QED BY <1>3, <1>4

LEMMA ClaimsInit == Init => ClaimInv
<1> SUFFICES ASSUME Init PROVE ClaimInv
  OBVIOUS
<1>1. HeaderOK /\ size \in Nat /\ offset = 0 /\ claimed = 0 /\ todo = <<>>
  BY HeaderTypes DEF Init
<1>2. /\ 0 \in 0..size /\ <<>> \in Seq(Inner) /\ <<>> \in Seq(Middle) /\ <<>> \in Seq(Outer)
      /\ todo = <<>> \o (<<>> \o <<>>) /\ claimed = 0 + 0
      /\ 0 <= offset + Owed(<<>>) + Owed(<<>>) /\ 0 <= offset + Owed(<<>>)
  BY <1>1, OwedNone
<1> QED BY <1>1, <1>2 DEF ClaimInv

\* After the header four texts are to be read and then the tables.
LEMMA HeaderClaims ==
  ASSUME HeaderOK, size \in Nat, claimed = 0, file' = file, claimed' = claimed, pc' # "header",
         offset' \in Nat, todo' = Body
  PROVE  ClaimInv'
<1> DEFINE m == <<Text, Text, Text, Text>>
           u == [i \in DOMAIN TableOrder |-> List(TableOrder[i])]
           v == IF header.v21 THEN <<List("softBodies")>> ELSE <<>>
           t == u \o v
<1>1. m \in Seq(Middle)
  <2>1. Text \in Middle
    BY StaticFields DEF Static
  <2> QED BY <2>1
<1>2. u \in Seq(Outer)
  <2>1. DOMAIN TableOrder = 1..9 /\ \A i \in 1..9 : TableOrder[i] \in Tables
    BY DEF TableOrder, Tables
  <2>2. \A of \in Tables : List(of) \in Outer
    BY FieldTypes DEF Outer, IsTable, List, Lists
  <2> QED BY <2>1, <2>2
<1>3. v \in Seq(Outer)
  <2>1. List("softBodies") \in Outer
    BY FieldTypes DEF Outer, IsTable, List, Lists, Tables
  <2> QED BY <2>1
<1>4. todo' = (m \o u) \o v
  BY DEF Body
<1> HIDE DEF m, u, v
<1>5. t \in Seq(Outer)
  BY <1>2, <1>3, Joined
<1>6. m \in Seq(Fields) /\ u \in Seq(Fields) /\ v \in Seq(Fields)
  BY <1>1, <1>2, <1>3, KindSets
<1>7. todo' = m \o t /\ t \in Seq(Fields)
  <2>1. \A x, y, z \in Seq(Fields) : x \o (y \o z) = (x \o y) \o z /\ y \o z \in Seq(Fields)
    BY Joined
  <2> QED BY <1>4, <1>6, <2>1, Zenon
<1> HIDE DEF t
<1>8. todo' = <<>> \o (m \o t) /\ <<>> \in Seq(Inner)
  BY <1>6, <1>7, Joined
<1>9. Owed(m) \in Nat /\ Owed(<<>>) = 0
  BY <1>6, OwedConcat, OwedNone
<1>10. 0 \in 0..size /\ claimed' = 0 + 0 /\ 0 <= offset' + Owed(<<>>) + Owed(m) /\ 0 <= offset' + Owed(<<>>)
  BY <1>9
<1> QED BY <1>1, <1>5, <1>8, <1>10, ClaimsHold

LEMMA FatalClaims ==
  ASSUME HeaderOK, size \in Nat, offset \in Nat, ClaimInv, NEW code, NEW about, Fatal(code, about),
         NEW o \in Nat, offset' = o, offset <= o
  PROVE  ClaimInv'
BY ClaimsKept DEF Fatal

\* A field that is no list, record or choice owes its bytes.
LEMMA FirstOwes ==
  ASSUME IndexInv, CursorInv, todo # <<>>, todo[1].f \notin {"list", "records", "select"}
  PROVE  /\ ~IsTable(todo[1]) /\ Owes[todo[1]] = todo[1].n /\ todo[1].n \in Nat
         /\ offset + todo[1].n \in Nat /\ offset + Owes[todo[1]] <= offset + todo[1].n
         /\ offset <= offset + todo[1].n
<1>1. ~IsTable(todo[1])
  BY DEF IsTable
<1>2. HeaderOK /\ todo[1] \in Fields /\ todo[1].n \in Nat /\ offset \in Nat
  BY ReadTypes
<1>3. Owes[todo[1]] = todo[1].n
  BY <1>2, OwesType
<1> QED BY <1>1, <1>2, <1>3

LEMMA StepClaims == IndexInv /\ CursorInv /\ ClaimInv /\ [Next]_vars => ClaimInv'
<1> SUFFICES ASSUME IndexInv, CursorInv, ClaimInv, [Next]_vars PROVE ClaimInv'
  OBVIOUS
<1>0. /\ HeaderOK /\ size \in Nat /\ offset \in Nat /\ remaining \in 0..size /\ todo \in Seq(Fields)
      /\ header.more \in 0..247 /\ file \in Files /\ offset <= offset
      /\ todo # <<>> => todo[1] \in Fields /\ todo[1].n \in Nat
  BY ReadTypes
<1>1. CASE Unreadable
  BY <1>0, <1>1, FatalClaims DEF Unreadable
<1>2. CASE RefuseHeader
  BY <1>0, <1>2, FatalClaims DEF RefuseHeader
<1>3. CASE ReadHeader
  <2>1. offset' \in Nat
    <3>1. \A k \in 0..247 : GlobalsAt + 8 + k \in Nat
      BY DEF GlobalsAt
    <3>2. offset' = GlobalsAt + 8 + header.more
      BY <1>3 DEF ReadHeader
    <3> QED BY <1>0, <3>1, <3>2, Zenon
  <2>2. claimed = 0 /\ file' = file /\ claimed' = claimed /\ pc' = "read" /\ todo' = Body
    BY <1>3 DEF ReadHeader, ClaimInv
  <2> QED BY <1>0, <2>1, <2>2, HeaderClaims
<1>4. CASE Truncated
  BY <1>0, <1>4, FatalClaims DEF Truncated
<1>5. CASE ReadData
  BY <1>0, <1>5, FirstOwes, ClaimsTaken DEF ReadData, Reads
<1>6. CASE \E n \in Lengths(remaining - 4), decodes \in BOOLEAN : ReadText(n, decodes)
  <2> PICK n \in Lengths(remaining - 4), decodes \in BOOLEAN : ReadText(n, decodes)
    BY <1>6
  <2>1. todo # <<>> /\ todo[1].f = "text" /\ ~Missing /\ pc = "read"
    BY DEF ReadText, Reads
  <2>2. todo[1].n = 4
    BY <1>0, <2>1 DEF Fields
  <2>3. remaining - 4 \in 0..size
    <3>1. offset + 4 \in 0..size
      BY <2>1, <2>2, FieldTaken
    <3> QED BY <3>1, <1>0 DEF remaining
  <2>4. n \in Int
    BY <1>0, <2>3, LengthsAssumption DEF size
  <2>5. CASE n < 0 \/ n > remaining - 4
    <3>1. offset + 4 \in Nat /\ offset <= offset + 4
      BY <1>0
    <3>2. Fatal("COUNT_EXCEEDS_BUFFER", None) /\ offset' = offset + 4
      BY <2>5 DEF ReadText
    <3> QED BY <1>0, <3>1, <3>2, FatalClaims
  <2>6. CASE ~(n < 0 \/ n > remaining - 4)
    <3>1. /\ offset' = offset + 4 + n /\ pc' = pc /\ file' = file /\ claimed' = claimed
          /\ todo' = Tail(todo)
      BY <2>6 DEF ReadText
    <3>2. n \in Nat /\ ~IsTable(todo[1]) /\ Owes[todo[1]] = 4
      BY <2>1, <2>2, <2>4, <2>6, FirstOwes
    <3>3. offset + 4 + n \in Nat /\ offset + Owes[todo[1]] <= offset + 4 + n
      BY <1>0, <3>2
    <3> QED BY <1>0, <2>1, <3>1, <3>2, <3>3, ClaimsTaken
  <2> QED BY <2>5, <2>6
<1>7. CASE Reads("index") /\ \E v \in Stored(todo[1].n) : ReadIndex(v)
  BY <1>0, <1>7, FirstOwes, ClaimsTaken DEF ReadIndex, Reads
<1>8. CASE Reads("face") /\ \E v \in Stored(todo[1].n) : ReadFace(v)
  <2> PICK v \in Stored(todo[1].n) : ReadFace(v)
    BY <1>8
  <2>1. offset' = offset + todo[1].n /\ pc = "read" /\ todo # <<>> /\ todo[1].f = "face"
    BY DEF ReadFace, Reads
  <2>2. Fatal("FACE_INDEX_OUT_OF_RANGE", None)
        \/ (todo' = Tail(todo) /\ UNCHANGED <<pc, file, claimed>>)
    BY DEF ReadFace
  <2> QED BY <1>0, <2>1, <2>2, FirstOwes, FatalClaims, ClaimsTaken
<1>9. CASE Reads("list") /\ \E n \in Counts((remaining - 4) \div MinimumOf(todo[1].of)) : ReadCount(n)
  <2> DEFINE k == (remaining - 4) \div MinimumOf(todo[1].of)
  <2> PICK n \in Counts(k) : ReadCount(n)
    BY <1>9
  <2>1. todo # <<>> /\ todo[1].f = "list" /\ ~Missing
    BY DEF ReadCount, Reads
  <2>2. todo[1].n = 4 /\ todo[1].of \in Lists
    BY <1>0, <2>1 DEF Fields
  <2>3. remaining - 4 \in Nat /\ remaining - 4 <= size
    <3>1. offset + 4 \in 0..size
      BY <2>1, <2>2, FieldTaken
    <3> QED BY <3>1, <1>0 DEF remaining
  <2>4. MinimumOf(todo[1].of) \in Nat /\ MinimumOf(todo[1].of) >= 1
    BY <1>0, <2>2, SmallestIsMinimum
  <2>5. k \in 0..(remaining - 4)
    BY <2>3, <2>4, Division
  <2> HIDE DEF k
  <2>6. k \in 0..size
    BY <1>0, <2>3, <2>5
  <2>7. n \in Int
    BY <1>0, <2>6, CountsAssumption DEF size
  <2> QED BY <2>7, CountClaims
<1>10. CASE NextRecord
  <2> DEFINE of == todo[1].of
             left == todo[1].left
             rest == Records(of, left - 1)
             new == Record(of) \o <<rest>>
  <2>1. /\ todo # <<>> /\ todo[1].f = "records" /\ left > 0 /\ pc' = "read" /\ file' = file
        /\ claimed' = claimed /\ offset' = offset
        /\ todo' = Record(of) \o <<rest>> \o Tail(todo)
    BY <1>10 DEF NextRecord, Reads
  <2>2. of \in Lists /\ left \in Nat \ {0} /\ left - 1 \in Nat /\ todo[1] \in Fields
    BY <1>0, <2>1 DEF Fields
  <2>3. todo[1] = Records(of, left)
    BY <2>1, <2>2 DEF Fields, Records
  <2>4. rest \in Fields /\ rest \in Middle /\ (todo[1] \in Inner => rest \in Inner)
    <3>1. rest \in Fields
      BY <1>0, <2>2, FieldTypes
    <3> QED BY <3>1, <2>1 DEF Middle, Inner, IsTable, Records
  <2>5. Record(of) \in Seq(Static) /\ (todo[1] \in Inner => Record(of) \in Seq(Inner))
    BY <1>0, <2>1, <2>2, RecordKinds DEF Inner
  <2>6. Record(of) \in Seq(Middle) /\ Record(of) \in Seq(Fields)
    BY <2>5, KindSets
  <2>7. new \in Seq(Middle) /\ (todo[1] \in Inner => new \in Seq(Inner))
    <3> HIDE DEF rest
    <3>1. <<rest>> \in Seq(Middle) /\ (todo[1] \in Inner => <<rest>> \in Seq(Inner))
      BY <2>4
    <3> QED BY <2>5, <2>6, <3>1, Joined
  <2>8. Owed(Record(of)) = MinimumOf(of) /\ MinimumOf(of) \in Nat
    <3>1. Owed(Record(of)) = Smallest(of)
      BY <1>0, <2>5, OwedSimple DEF LeastBytes, Smallest
    <3> QED BY <1>0, <2>2, <3>1, SmallestIsMinimum
  <2>9. Owed(<<rest>>) = (left - 1) * MinimumOf(of)
    <3>1. Owes[rest] = (left - 1) * MinimumOf(of)
      BY <1>0, <2>2, OwesType
    <3> HIDE DEF rest
    <3> QED BY <1>0, <2>4, <3>1, OwedOne
  <2>10. Owes[todo[1]] = left * MinimumOf(of)
    BY <1>0, <2>2, <2>3, OwesType
  <2>11. Owed(new) = Owes[todo[1]]
    <3> DEFINE s == <<rest>>
    <3>1. s \in Seq(Fields) /\ Owed(s) = (left - 1) * MinimumOf(of)
      BY <2>4, <2>9
    <3>2. new = Record(of) \o s
      OBVIOUS
    <3> HIDE DEF s, new
    <3>3. Owed(new) = Owed(Record(of)) + Owed(s)
      BY <1>0, <2>6, <3>1, <3>2, OwedConcat
    <3>4. \A l, w \in Nat : w + (l - 1) * w = l * w
      OBVIOUS
    <3>5. MinimumOf(of) + (left - 1) * MinimumOf(of) = left * MinimumOf(of)
      BY <2>2, <2>8, <3>4
    <3> QED BY <2>8, <2>10, <3>1, <3>3, <3>5
  <2>12. ~IsTable(todo[1]) /\ Owes[todo[1]] \in Nat
    BY <1>0, <2>1, <2>2, OwesType DEF IsTable
  <2>13. todo' = new \o Tail(todo)
    BY <2>1
  <2> HIDE DEF new
  <2>14. offset + Owes[todo[1]] <= offset + Owed(new)
    BY <1>0, <2>11, <2>12
  <2> QED BY <1>0, <2>1, <2>7, <2>12, <2>13, <2>14, ClaimsMove
<1>11. CASE EndOfList
  <2>1. /\ todo # <<>> /\ todo[1].f = "records" /\ todo[1].left = 0 /\ pc' = "read" /\ file' = file
        /\ claimed' = claimed /\ offset' = offset /\ todo' = Tail(todo)
    BY <1>11 DEF EndOfList, Reads
  <2>2. todo[1].of \in Lists /\ todo[1] \in Fields
    BY <1>0, <2>1 DEF Fields
  <2>3. Owes[todo[1]] = 0 * MinimumOf(todo[1].of) /\ MinimumOf(todo[1].of) \in Nat
    BY <1>0, <2>1, <2>2, SmallestIsMinimum DEF Owes
  <2>4. ~IsTable(todo[1]) /\ offset + Owes[todo[1]] <= offset
    BY <1>0, <2>1, <2>3 DEF IsTable
  <2> QED BY <1>0, <2>1, <2>4, ClaimsTaken
<1>12. CASE Reads("select") /\ \E v \in LayoutValues(todo[1].what) : ReadSelect(v)
  <2> PICK v \in LayoutValues(todo[1].what) : ReadSelect(v)
    BY <1>12
  <2> DEFINE what == todo[1].what
             new == Chosen(what, v)
  <2>1. /\ todo # <<>> /\ todo[1].f = "select" /\ pc' = "read" /\ file' = file
        /\ claimed' = claimed /\ offset' = offset + todo[1].n /\ todo' = new \o Tail(todo)
    BY DEF ReadSelect, Reads
  <2>2. /\ what \in {"deform", "toon", "bone", "limits", "morph", "kind"}
        /\ todo[1] \in Fields /\ todo[1].n \in Nat
    BY <1>0, <2>1 DEF Fields
  <2>3. new \in Seq(Simple) /\ new \in Seq(Middle) /\ (todo[1] \in Inner => new \in Seq(Inner))
    <3>1. new \in Seq(Simple)
      BY <1>0, <2>2, ChosenTypes
    <3>2. todo[1] \in Inner => new \in Seq(Inner)
      BY <1>0, <2>1, ChosenInner DEF Inner
    <3> QED BY <3>1, <3>2, KindSets
  <2>4. Owed(new) = Bytes(new)
    BY <1>0, <2>3, OwedSimple
  <2>5. Owes[todo[1]] = todo[1].n + Min(ChosenSizes(what))
    <3>1. Owes[todo[1]] = LeastSize(todo[1])
      BY <2>1, <2>2 DEF Owes
    <3>2. LeastSize(todo[1]) = todo[1].n + Min(ChosenSizes(what))
      BY <2>1, Zenon DEF LeastSize, ChosenSizes, Bytes
    <3> QED BY <3>1, <3>2
  <2>6. Min(ChosenSizes(what)) <= Bytes(new) /\ Bytes(new) \in Nat /\ Min(ChosenSizes(what)) \in Int
    <3>1. \A w \in LayoutValues(what) : Bytes(Chosen(what, w)) \in Nat
      BY <1>0, <2>2, ChosenTypes, PlainFields, BytesType
    <3>2. Bytes(new) \in ChosenSizes(what) /\ ChosenSizes(what) \in SUBSET Nat
      BY <3>1 DEF ChosenSizes
    <3> HIDE DEF what, new
    <3> QED BY <3>2, LeastIn
  <2>7. ~IsTable(todo[1])
    BY <2>1 DEF IsTable
  <2> HIDE DEF new, what
  <2>8. /\ offset + todo[1].n \in Nat /\ offset <= offset + todo[1].n
        /\ offset + Owes[todo[1]] <= offset + todo[1].n + Owed(new)
    BY <1>0, <2>2, <2>4, <2>5, <2>6
  <2>9. pc' # "header"
    BY <2>1
  <2> QED BY <1>0, <2>1, <2>3, <2>7, <2>8, <2>9, ClaimsMove
<1>13. CASE RefuseSelect
  <2>1. offset + todo[1].n \in Nat /\ offset <= offset + todo[1].n
    BY <1>0, <1>13 DEF RefuseSelect, Reads
  <2> QED BY <1>0, <1>13, <2>1, FatalClaims DEF RefuseSelect, Reads
<1>14. CASE Reads("faceCount") /\ \E n \in Counts(Left) : ReadFaceCount(n)
  <2> PICK n \in Counts(Left) : ReadFaceCount(n)
    BY <1>14
  <2>1. todo # <<>> /\ todo[1].f = "faceCount" /\ pc = "read" /\ offset' = offset + 4
    BY DEF ReadFaceCount, Reads
  <2>2. todo[1].n = 4
    BY <1>0, <2>1 DEF Fields
  <2>3. Fatal("MATERIAL_FACES_EXCEED_TABLE", None)
        \/ (todo' = Tail(todo) /\ UNCHANGED <<pc, file, claimed>>)
    BY DEF ReadFaceCount
  <2>4. offset' = offset + todo[1].n
    BY <2>1, <2>2
  <2> QED BY <1>0, <2>1, <2>3, <2>4, FirstOwes, FatalClaims, ClaimsTaken
<1>15. CASE ReadEnd
  BY <1>0, <1>15, ClaimsKept DEF ReadEnd
<1>16. CASE CheckIndex
  BY <1>0, <1>16, ClaimsKept DEF CheckIndex
<1>17. CASE Succeed
  BY <1>0, <1>17, ClaimsKept DEF Succeed
<1>18. CASE UNCHANGED vars
  BY <1>0, <1>18, ClaimsKept DEF vars
<1> QED
  BY <1>1, <1>2, <1>3, <1>4, <1>5, <1>6, <1>7, <1>8, <1>9, <1>10, <1>11, <1>12, <1>13,
     <1>14, <1>15, <1>16, <1>17, <1>18 DEF Next

\* Whatever counts a file states, the reader stays in it and makes room for at
\* most twice its bytes.
THEOREM AllocationBounded == Spec => []AllocationIsBounded
<1>1. Init => IndexInv /\ DrawInv /\ CursorInv /\ ClaimInv
  BY InitIndices, DrawInit, CursorInit, ClaimsInit
<1>2. IndexInv /\ DrawInv /\ CursorInv /\ ClaimInv /\ [Next]_vars
      => (IndexInv /\ DrawInv /\ CursorInv /\ ClaimInv)'
  BY StepIndices, StepDraws, StepCursor, StepClaims
<1>3. IndexInv /\ CursorInv /\ ClaimInv => AllocationIsBounded
  <2> SUFFICES ASSUME IndexInv, CursorInv, ClaimInv PROVE offset <= size /\ claimed <= 2 * size
    BY DEF AllocationIsBounded
  <2>1. size \in Nat /\ offset \in 0..size
    BY ReadTypes
  <2>2. PICK a \in 0..size, b \in 0..size : claimed = a + b
    BY DEF ClaimInv
  <2> QED BY <2>1, <2>2
<1> QED BY <1>1, <1>2, <1>3, PTL DEF Spec

-----------------------------------------------------------------------------
(* The diagnostic list *)

\* Where x stands in a sequence, and how often.
At(s, x) == {i \in 1..Len(s) : s[i] = x}
Count(s, x) == Cardinality(At(s, x))

LEMMA CountType ==
  ASSUME NEW S, NEW s \in Seq(S), NEW x
  PROVE  IsFiniteSet(At(s, x)) /\ Count(s, x) \in Nat /\ (Count(s, x) = 0 <=> At(s, x) = {})
<1>1. IsFiniteSet(1..Len(s)) /\ At(s, x) \subseteq 1..Len(s)
  BY FS_Interval DEF At
<1>2. IsFiniteSet(At(s, x))
  BY <1>1, FS_Subset
<1> QED BY <1>2, FS_CardinalityType, FS_EmptySet DEF Count

LEMMA CountMore ==
  ASSUME NEW S, NEW s \in Seq(S), NEW y \in S, NEW x
  PROVE  Count(Append(s, y), x) = IF y = x THEN Count(s, x) + 1 ELSE Count(s, x)
<1>1. /\ Append(s, y) \in Seq(S) /\ Len(Append(s, y)) = Len(s) + 1 /\ Append(s, y)[Len(s) + 1] = y
      /\ \A i \in 1..Len(s) : Append(s, y)[i] = s[i]
  BY OneMore
<1>2. Len(s) \in Nat /\ 1..(Len(s) + 1) = 1..Len(s) \cup {Len(s) + 1} /\ Len(s) + 1 \notin 1..Len(s)
  OBVIOUS
<1>3. At(Append(s, y), x) = IF y = x THEN At(s, x) \cup {Len(s) + 1} ELSE At(s, x)
  <2> DEFINE q == Append(s, y)
             n == Len(s)
  <2>1. Len(q) = n + 1 /\ q[n + 1] = y /\ \A i \in 1..n : q[i] = s[i]
    BY <1>1
  <2>2. 1..(n + 1) = 1..n \cup {n + 1}
    BY <1>2
  <2> HIDE DEF q, n
  <2>3. {i \in 1..Len(q) : q[i] = x} = {i \in 1..n : s[i] = x} \cup (IF y = x THEN {n + 1} ELSE {})
    BY <2>1, <2>2
  <2> QED BY <2>3 DEF At, q, n
<1>4. IsFiniteSet(At(s, x)) /\ Len(s) + 1 \notin At(s, x)
  BY <1>2, CountType DEF At
<1>5. Cardinality(At(s, x) \cup {Len(s) + 1}) = Cardinality(At(s, x)) + 1
  BY <1>4, FS_AddElement
<1> QED BY <1>3, <1>5 DEF Count

Tallies == [code : Codes, table : Places, seen : Nat]
Notes == [code : Codes, table : Places, more : {0}]
Listable(n) == IF n < Limit THEN n ELSE Limit

\* The list accounts for what was raised: of each code in a table as many as
\* may be are listed, and its one tally counts them all.
Accounts(d, r) ==
  /\ d.tallies \in Seq(Tallies) /\ d.list \in Seq(Notes) /\ r \in Seq(Codes \X Places)
  /\ d = [tallies |-> d.tallies, list |-> d.list]
  /\ \A c \in Codes, t \in Places :
       /\ Count(d.list, Diagnostic(c, t, 0)) = Listable(Count(r, <<c, t>>))
       /\ IF Count(r, <<c, t>>) = 0 THEN TallyAt(d, c, t) = {}
          ELSE \E i \in 1..Len(d.tallies) : TallyAt(d, c, t) = {i} /\ d.tallies[i].seen = Count(r, <<c, t>>)

\* After _Find, the code and table have a tally, and the others as before.
FoundOf(d, r, f, i, code, where) ==
  /\ f.tallies \in Seq(Tallies) /\ f.list = d.list
  /\ i \in 1..Len(f.tallies) /\ TallyAt(f, code, where) = {i}
  /\ f.tallies[i].seen = Count(r, <<code, where>>)
  /\ \A c \in Codes, t \in Places : <<c, t>> # <<code, where>> =>
       /\ TallyAt(f, c, t) = TallyAt(d, c, t)
       /\ \A k \in TallyAt(d, c, t) : f.tallies[k] = d.tallies[k]
       /\ i \notin TallyAt(d, c, t)

LEMMA FindTally ==
  ASSUME NEW d, NEW r, Accounts(d, r), NEW code \in Codes, NEW where \in Places
  PROVE  \E i : FoundOf(d, r, Found(d, code, where), i, code, where)
<1> DEFINE f == Found(d, code, where)
           s == d.tallies
           n == Count(r, <<code, where>>)
<1>1. s \in Seq(Tallies) /\ Len(s) \in Nat /\ DOMAIN s = 1..Len(s) /\ \A k \in 1..Len(s) : s[k] \in Tallies
  BY DEF Accounts
<1>2. CASE TallyAt(d, code, where) # {}
  <2>1. f = d
    BY <1>2 DEF Found
  <2>2. PICK i \in 1..Len(s) : TallyAt(d, code, where) = {i} /\ s[i].seen = n
    BY <1>2 DEF Accounts
  <2>3. s[i].code = code /\ s[i].table = where
    BY <2>2 DEF TallyAt, SameTally
  <2>4. \A c \in Codes, t \in Places : <<c, t>> # <<code, where>> => i \notin TallyAt(d, c, t)
    BY <2>3 DEF TallyAt, SameTally
  <2> HIDE DEF f
  <2> QED BY <1>1, <2>1, <2>2, <2>4 DEF FoundOf, f
<1>3. CASE TallyAt(d, code, where) = {}
  <2> DEFINE new == [code |-> code, table |-> where, seen |-> 0]
             i == Len(s) + 1
             q == Append(s, new)
  <2>1. new \in Tallies /\ new.code = code /\ new.table = where /\ new.seen = 0
    BY DEF Tallies
  <2>2. f.tallies = q /\ f.list = d.list
    <3>1. d = [tallies |-> d.tallies, list |-> d.list]
      BY DEF Accounts
    <3>2. f = [d EXCEPT !.tallies = q]
      BY <1>3 DEF Found
    <3> HIDE DEF q, f
    <3> QED BY <3>1, <3>2
  <2>3. n = 0
    BY <1>3 DEF Accounts
  <2> HIDE DEF new
  <2>4. /\ q \in Seq(Tallies) /\ Len(q) = i /\ q[i] = new
        /\ \A k \in 1..Len(s) : q[k] = s[k]
    BY <1>1, <2>1, OneMore
  <2>5. i \in 1..i /\ i \notin 1..Len(s) /\ 1..i = 1..Len(s) \cup {i}
    BY <1>1
  <2> HIDE DEF q, i, f, s
  <2>6. \A c, t : TallyAt(f, c, t) = {k \in 1..i : q[k].code = c /\ q[k].table = t}
    BY <2>2, <2>4 DEF TallyAt, SameTally
  <2>7. \A c, t : TallyAt(d, c, t) = {k \in 1..Len(s) : s[k].code = c /\ s[k].table = t}
    BY <1>1 DEF TallyAt, SameTally, s
  <2>8. TallyAt(f, code, where) = {i}
    <3>1. \A k \in 1..Len(s) : ~(q[k].code = code /\ q[k].table = where)
      <4>1. {k \in 1..Len(s) : s[k].code = code /\ s[k].table = where} = {}
        BY <1>3, <2>7, Zenon
      <4> QED BY <2>4, <4>1
    <3> QED BY <2>1, <2>4, <2>5, <2>6, <3>1
  <2>9. ASSUME NEW c \in Codes, NEW t \in Places, <<c, t>> # <<code, where>>
        PROVE  /\ TallyAt(f, c, t) = TallyAt(d, c, t)
               /\ \A k \in TallyAt(d, c, t) : q[k] = s[k]
               /\ i \notin TallyAt(d, c, t)
    <3>1. ~(q[i].code = c /\ q[i].table = t)
      BY <2>1, <2>4, <2>9
    <3>2. TallyAt(f, c, t) = {k \in 1..i : q[k].code = c /\ q[k].table = t}
      BY <2>6, Zenon
    <3>3. TallyAt(d, c, t) = {k \in 1..Len(s) : s[k].code = c /\ s[k].table = t}
      BY <2>7, Zenon
    <3>4. {k \in 1..i : q[k].code = c /\ q[k].table = t} = {k \in 1..Len(s) : s[k].code = c /\ s[k].table = t}
      BY <2>4, <2>5, <3>1
    <3> QED BY <2>4, <2>5, <3>2, <3>3, <3>4
  <2>10. q[i].seen = n
    BY <2>1, <2>3, <2>4
  <2> QED BY <2>2, <2>4, <2>5, <2>8, <2>9, <2>10 DEF FoundOf, f, s
<1> QED BY <1>2, <1>3

LEMMA NoneAccounted == Accounts(NoDiagnostics, <<>>)
<1>1. \A x : Count(<<>>, x) = 0 /\ At(<<>>, x) = {}
  BY FS_EmptySet DEF Count, At
<1>2. Listable(0) = 0
  BY LimitAssumption DEF Listable
<1> QED BY <1>1, <1>2 DEF Accounts, NoDiagnostics, TallyAt

LEMMA AddedAccounts ==
  ASSUME NEW d, NEW r, Accounts(d, r), NEW code \in Codes, NEW where \in Places
  PROVE  Accounts(Added(d, code, where), Append(r, <<code, where>>))
<1> DEFINE f == Found(d, code, where)
           p == <<code, where>>
           n == Count(r, p)
           e == Added(d, code, where)
           w == Append(r, p)
<1>1. PICK i : FoundOf(d, r, f, i, code, where)
  BY FindTally
<1> DEFINE q == f.tallies
           u == [q EXCEPT ![i].seen = n + 1]
           note == Diagnostic(code, where, 0)
           l == IF n + 1 <= Limit THEN Append(d.list, note) ELSE d.list
<1>2. /\ q \in Seq(Tallies) /\ Len(q) \in Nat /\ DOMAIN q = 1..Len(q) /\ i \in 1..Len(q)
      /\ q[i].seen = n /\ q[i] \in Tallies /\ f.list = d.list
  BY <1>1 DEF FoundOf
<1>3. e = [tallies |-> u, list |-> l]
  <2>1. (CHOOSE k \in TallyAt(f, code, where) : TRUE) = i
    BY <1>1 DEF FoundOf
  <2> HIDE DEF f, n
  <2> QED BY <1>2, <2>1 DEF Added, f
<1>4. /\ r \in Seq(Codes \X Places) /\ p \in Codes \X Places /\ w \in Seq(Codes \X Places)
      /\ d.list \in Seq(Notes) /\ note \in Notes
  BY DEF Accounts, Diagnostic, Notes
<1>5. n \in Nat /\ n + 1 \in Nat
  BY <1>4, CountType
<1> HIDE DEF n, p, w, e, f, l
<1>6. /\ u \in Seq(Tallies) /\ Len(u) = Len(q) /\ u[i].seen = n + 1
      /\ \A k \in 1..Len(q) : u[k].code = q[k].code /\ u[k].table = q[k].table /\ (k # i => u[k] = q[k])
  <2> HIDE DEF q
  <2>1. [q[i] EXCEPT !.seen = n + 1] \in Tallies
    BY <1>2, <1>5 DEF Tallies
  <2>2. u \in Seq(Tallies) /\ Len(u) = Len(q)
    BY <1>2, <2>1
  <2>3. \A k \in 1..Len(q) : u[k] = IF k = i THEN [q[i] EXCEPT !.seen = n + 1] ELSE q[k]
    BY <1>2
  <2>4. \A k \in 1..Len(q) : q[k] \in Tallies
    BY <1>2
  <2>5. u[i] = [q[i] EXCEPT !.seen = n + 1]
    BY <1>2, <2>3
  <2>6. u[i].seen = n + 1 /\ u[i].code = q[i].code /\ u[i].table = q[i].table
    BY <1>2, <2>5 DEF Tallies
  <2> QED BY <2>2, <2>3, <2>6
<1> HIDE DEF u, q
<1>7. \A c, t : TallyAt(e, c, t) = TallyAt(f, c, t)
  <2>1. e.tallies = u /\ DOMAIN u = 1..Len(q) /\ DOMAIN q = 1..Len(q)
    BY <1>2, <1>3, <1>6
  <2>3. f.tallies = q
    BY DEF q
  <2> TAKE c, t
  <2>4. TallyAt(e, c, t) = {k \in 1..Len(q) : u[k].code = c /\ u[k].table = t}
    BY <2>1 DEF TallyAt, SameTally
  <2>5. TallyAt(f, c, t) = {k \in 1..Len(q) : q[k].code = c /\ q[k].table = t}
    BY <2>1, <2>3 DEF TallyAt, SameTally
  <2>6. {k \in 1..Len(q) : u[k].code = c /\ u[k].table = t} = {k \in 1..Len(q) : q[k].code = c /\ q[k].table = t}
    BY <1>6
  <2> QED BY <2>4, <2>5, <2>6
<1>8. l \in Seq(Notes) /\ (l = Append(d.list, note) \/ l = d.list)
  BY <1>4 DEF l
<1>9. \A x : Count(w, x) = IF p = x THEN Count(r, x) + 1 ELSE Count(r, x)
  BY <1>4, CountMore DEF w
<1>10. ASSUME NEW c \in Codes, NEW t \in Places
       PROVE  /\ Count(l, Diagnostic(c, t, 0)) = Listable(Count(w, <<c, t>>))
              /\ IF Count(w, <<c, t>>) = 0 THEN TallyAt(e, c, t) = {}
                 ELSE \E k \in 1..Len(u) : TallyAt(e, c, t) = {k} /\ u[k].seen = Count(w, <<c, t>>)
  <2>0. /\ Count(d.list, Diagnostic(c, t, 0)) = Listable(Count(r, <<c, t>>))
        /\ IF Count(r, <<c, t>>) = 0 THEN TallyAt(d, c, t) = {}
           ELSE \E k \in 1..Len(d.tallies) : TallyAt(d, c, t) = {k} /\ d.tallies[k].seen = Count(r, <<c, t>>)
    BY DEF Accounts
  <2>1. CASE <<c, t>> = p
    <3>1. Count(w, <<c, t>>) = n + 1 /\ Count(r, <<c, t>>) = n /\ c = code /\ t = where
      BY <1>9, <2>1 DEF n, p
    <3>2. TallyAt(e, c, t) = {i} /\ u[i].seen = n + 1 /\ i \in 1..Len(u)
      BY <1>1, <1>2, <1>6, <1>7, <3>1 DEF FoundOf
    <3>3. Count(l, note) = Listable(n + 1)
      <4>1. Count(d.list, note) = Listable(n)
        BY <2>0, <3>1
      <4>2. CASE n + 1 <= Limit
        <5>1. Count(l, note) = Count(d.list, note) + 1
          BY <1>4, <4>2, CountMore DEF l
        <5>2. Listable(n) = n /\ Listable(n + 1) = n + 1
          BY <1>5, <4>2, LimitAssumption DEF Listable
        <5> QED BY <4>1, <5>1, <5>2
      <4>3. CASE ~(n + 1 <= Limit)
        <5>1. l = d.list
          BY <4>3 DEF l
        <5>2. Listable(n) = Limit /\ Listable(n + 1) = Limit
          BY <1>5, <4>3, LimitAssumption DEF Listable
        <5> QED BY <4>1, <5>1, <5>2
      <4> QED BY <4>2, <4>3
    <3>4. Diagnostic(c, t, 0) = note
      BY <3>1
    <3> HIDE DEF note
    <3> QED BY <1>5, <3>1, <3>2, <3>3, <3>4
  <2>2. CASE <<c, t>> # p
    <3>1. Count(w, <<c, t>>) = Count(r, <<c, t>>) /\ <<c, t>> # <<code, where>>
      BY <1>9, <2>2 DEF p
    <3>2. Diagnostic(c, t, 0) # note
      BY <3>1 DEF Diagnostic
    <3>3. Count(l, Diagnostic(c, t, 0)) = Count(d.list, Diagnostic(c, t, 0))
      <4>1. Count(Append(d.list, note), Diagnostic(c, t, 0)) = Count(d.list, Diagnostic(c, t, 0))
        BY <1>4, <3>2, CountMore
      <4> HIDE DEF note
      <4> QED BY <4>1, <1>8
    <3>4. /\ TallyAt(f, c, t) = TallyAt(d, c, t)
          /\ \A k \in TallyAt(d, c, t) : q[k] = d.tallies[k]
          /\ i \notin TallyAt(d, c, t)
      BY <1>1, <3>1 DEF FoundOf, q
    <3>5. TallyAt(e, c, t) = TallyAt(d, c, t)
      BY <1>7, <3>4
    <3>6. CASE Count(r, <<c, t>>) = 0
      BY <2>0, <3>1, <3>3, <3>5, <3>6
    <3>7. CASE Count(r, <<c, t>>) # 0
      <4>1. PICK k \in 1..Len(d.tallies) : TallyAt(d, c, t) = {k} /\ d.tallies[k].seen = Count(r, <<c, t>>)
        BY <2>0, <3>7
      <4>2. q[k] = d.tallies[k] /\ k # i /\ k \in 1..Len(q)
        <5>1. k \in TallyAt(f, c, t)
          BY <3>4, <4>1
        <5>2. k \in DOMAIN q
          BY <5>1 DEF TallyAt, q
        <5> QED BY <1>2, <3>4, <4>1, <5>2
      <4>3. u[k] = q[k] /\ k \in 1..Len(u)
        BY <1>6, <4>2
      <4>4. u[k].seen = Count(w, <<c, t>>) /\ TallyAt(e, c, t) = {k}
        BY <3>1, <3>5, <4>1, <4>2, <4>3
      <4> QED BY <2>0, <3>1, <3>3, <3>7, <4>3, <4>4
    <3> QED BY <3>6, <3>7
  <2> QED BY <2>1, <2>2
<1>11. e.tallies = u /\ e.list = l /\ e = [tallies |-> e.tallies, list |-> e.list]
  BY <1>3
<1>12. Accounts(e, w)
  BY <1>4, <1>6, <1>8, <1>10, <1>11 DEF Accounts
<1> QED BY <1>12 DEF e, w, p

\* The positions of a code in a table, and of its summary.
ListedOf(list, p) == {i \in DOMAIN list : <<list[i].code, list[i].table>> = p /\ list[i].more = 0}
SummedOf(list, p) == {i \in DOMAIN list : <<list[i].code, list[i].table>> = p /\ list[i].more > 0}

\* What Take returns of a list that accounts for r.
LEMMA TakenAccounts ==
  ASSUME NEW d, NEW r, Accounts(d, r), NEW c \in Codes, NEW t \in Places, Count(r, <<c, t>>) # 0
  PROVE  /\ Cardinality(ListedOf(Taken(d), <<c, t>>)) = Listable(Count(r, <<c, t>>))
         /\ Cardinality(SummedOf(Taken(d), <<c, t>>)) = IF Count(r, <<c, t>>) > Limit THEN 1 ELSE 0
         /\ \A i \in SummedOf(Taken(d), <<c, t>>) : /\ Taken(d)[i].more = Count(r, <<c, t>>) - Limit
                                                    /\ i > Len(d.list) /\ i \in Nat
         /\ \A i \in ListedOf(Taken(d), <<c, t>>) : i <= Len(d.list) /\ i \in Nat
<1> DEFINE s == d.tallies
           S == {x \in Range(s) : Over(x)}
           over == Selected(s, S)
           sums == [i \in DOMAIN over |-> Summary(over[i])]
           a == Len(d.list)
           b == Len(over)
           list == d.list \o sums
           n == Count(r, <<c, t>>)
<1>1. /\ s \in Seq(Tallies) /\ d.list \in Seq(Notes) /\ a \in Nat
      /\ \A k \in 1..a : d.list[k] \in Notes
      /\ Count(d.list, Diagnostic(c, t, 0)) = Listable(n)
  BY DEF Accounts
<1>2. PICK j \in 1..Len(s) : TallyAt(d, c, t) = {j} /\ s[j].seen = n
  BY DEF Accounts
<1>3. n \in Nat /\ n # 0
  <2>1. r \in Seq(Codes \X Places)
    BY DEF Accounts
  <2> QED BY <2>1, CountType
<1>4. over \in Seq(Tallies) /\ Ranked(s, S, over, Len(s))
  BY <1>1, SelectedRanks
<1>5. /\ b \in Nat /\ DOMAIN over = 1..b /\ \A k \in 1..b : over[k] \in Tallies
  BY <1>4, SequenceShape
<1>6. /\ Len(sums) = b /\ sums \in Seq({Summary(x) : x \in Tallies})
      /\ \A k \in 1..b : sums[k] = Summary(over[k])
  BY <1>5
<1>7. /\ Len(list) = a + b /\ DOMAIN list = 1..(a + b)
      /\ \A i \in 1..(a + b) : list[i] = IF i <= a THEN d.list[i] ELSE sums[i - a]
  <2> DEFINE x == d.list
             V == Notes \cup {Summary(y) : y \in Tallies}
  <2>1. x \in Seq(V) /\ sums \in Seq(V) /\ list = x \o sums /\ Len(x) = a /\ Len(sums) = b
    BY <1>1, <1>6
  <2> HIDE DEF x, sums, V, list, a, b
  <2>2. /\ x \o sums \in Seq(V) /\ Len(x \o sums) = Len(x) + Len(sums)
        /\ \A i \in 1..(Len(x) + Len(sums)) : (x \o sums)[i] = IF i <= Len(x) THEN x[i] ELSE sums[i - Len(x)]
    BY <2>1, ConcatProperties
  <2>3. DOMAIN (x \o sums) = 1..Len(x \o sums)
    BY <2>2
  <2>4. /\ Len(list) = a + b /\ DOMAIN list = 1..(a + b)
        /\ \A i \in 1..(a + b) : list[i] = IF i <= a THEN x[i] ELSE sums[i - a]
    BY <2>1, <2>2, <2>3, Zenon
  <2> QED BY <2>4 DEF x
<1>8. Taken(d) = list
  BY DEF Taken
<1>9. \A k \in 1..Len(s) : s[k] \in Tallies /\ (s[k] \in S <=> s[k].seen > Limit)
  BY <1>1 DEF Range, Over
<1>10. \A k \in 1..Len(s) : s[k].code = c /\ s[k].table = t => k = j
  BY <1>1, <1>2 DEF TallyAt, SameTally
<1>11. s[j].code = c /\ s[j].table = t
  BY <1>2 DEF TallyAt, SameTally
<1> DEFINE rank(k) == Cardinality(KeptUpTo(s, S, k))
<1>12. /\ \A k \in KeptUpTo(s, S, Len(s)) : rank(k) \in 1..b /\ over[rank(k)] = s[k]
       /\ \A i \in 1..b : \E k \in KeptUpTo(s, S, Len(s)) : i = rank(k)
  BY <1>4 DEF Ranked
<1>13. \A k : k \in KeptUpTo(s, S, Len(s)) <=> k \in 1..Len(s) /\ s[k] \in S
  BY DEF KeptUpTo
<1> HIDE DEF s, S, over, sums, list, a, b, n, rank
<1>14. ASSUME NEW i \in 1..b
       PROVE  /\ over[i].seen > Limit /\ over[i].seen \in Nat
              /\ over[i].code = c /\ over[i].table = t => n > Limit /\ i = rank(j) /\ over[i].seen = n
  <2>1. PICK k \in KeptUpTo(s, S, Len(s)) : i = rank(k)
    BY <1>12
  <2>2. over[i] = s[k] /\ k \in 1..Len(s) /\ s[k] \in S
    BY <1>12, <1>13, <2>1
  <2>3. s[k].seen > Limit /\ s[k].seen \in Nat
    BY <1>9, <2>2 DEF Tallies
  <2> QED BY <1>2, <1>10, <2>1, <2>2, <2>3
<1>15. n > Limit => /\ rank(j) \in 1..b /\ over[rank(j)].code = c /\ over[rank(j)].table = t
                    /\ over[rank(j)].seen = n
  <2> SUFFICES ASSUME n > Limit
               PROVE  /\ rank(j) \in 1..b /\ over[rank(j)].code = c /\ over[rank(j)].table = t
                      /\ over[rank(j)].seen = n
    OBVIOUS
  <2>1. s[j] \in S
    BY <1>2, <1>9
  <2>2. rank(j) \in 1..b /\ over[rank(j)] = s[j]
    BY <1>2, <1>12, <1>13, <2>1
  <2> QED BY <2>2, <1>2, <1>11
<1>16. ASSUME NEW i \in 1..a
       PROVE  /\ list[i] = d.list[i] /\ i \in 1..(a + b) /\ list[i].more = 0
              /\ list[i] = Diagnostic(c, t, 0) <=> list[i].code = c /\ list[i].table = t
  <2>1. list[i] = d.list[i] /\ i \in 1..(a + b)
    BY <1>1, <1>5, <1>7
  <2>2. d.list[i] \in [code : Codes, table : Places, more : {0}]
    BY <1>1 DEF Notes
  <2>3. d.list[i].more = 0
        /\ (d.list[i] = Diagnostic(c, t, 0) <=> d.list[i].code = c /\ d.list[i].table = t)
    BY <2>2 DEF Diagnostic
  <2> QED BY <2>1, <2>3
<1>17. ASSUME NEW k \in 1..b
       PROVE  /\ a + k \in 1..(a + b) /\ a + k > a
              /\ list[a + k].code = over[k].code /\ list[a + k].table = over[k].table
              /\ list[a + k].more = over[k].seen - Limit /\ over[k].seen - Limit > 0
  <2>1. a + k \in 1..(a + b) /\ ~(a + k <= a) /\ (a + k) - a = k /\ a + k > a
    BY <1>1, <1>5
  <2>2. list[a + k] = Summary(over[k])
    BY <1>6, <1>7, <2>1
  <2>3. over[k].seen > Limit /\ over[k].seen \in Nat /\ Limit \in Nat
    BY <1>14, LimitAssumption
  <2> QED BY <2>1, <2>2, <2>3 DEF Summary, Diagnostic
<1>18. \A i \in 1..(a + b) : i \in 1..a \/ \E k \in 1..b : i = a + k
  <2> SUFFICES ASSUME NEW i \in 1..(a + b), i \notin 1..a PROVE \E k \in 1..b : i = a + k
    OBVIOUS
  <2>1. i - a \in 1..b /\ i = a + (i - a)
    BY <1>1, <1>5
  <2> QED BY <2>1
<1> DEFINE Listed == {i \in 1..(a + b) : <<list[i].code, list[i].table>> = <<c, t>> /\ list[i].more = 0}
           Summed == {i \in 1..(a + b) : <<list[i].code, list[i].table>> = <<c, t>> /\ list[i].more > 0}
<1>19. Listed = At(d.list, Diagnostic(c, t, 0))
  <2>1. ASSUME NEW i \in Listed PROVE i \in 1..a
    <3>1. SUFFICES ASSUME NEW k \in 1..b, i = a + k PROVE FALSE
      BY <1>18
    <3>2. list[i].more = over[k].seen - Limit /\ over[k].seen - Limit > 0
      BY <1>17, <3>1
    <3> QED BY <3>2
  <2>2. ASSUME NEW i \in 1..a
        PROVE  i \in Listed <=> d.list[i] = Diagnostic(c, t, 0)
    BY <1>16
  <2>3. At(d.list, Diagnostic(c, t, 0)) = {i \in 1..a : d.list[i] = Diagnostic(c, t, 0)}
    BY DEF At, a
  <2> HIDE DEF Listed
  <2> QED BY <2>1, <2>2, <2>3
<1>20. Summed = IF n > Limit THEN {a + rank(j)} ELSE {}
  <2>1. ASSUME NEW i \in Summed PROVE n > Limit /\ i = a + rank(j)
    <3>1. i \notin 1..a
      <4>1. \A k \in 1..a : list[k].more = 0
        BY <1>16
      <4> QED BY <4>1
    <3>2. PICK k \in 1..b : i = a + k
      BY <1>18, <3>1
    <3>3. list[a + k].code = c /\ list[a + k].table = t
      BY <3>2
    <3>4. over[k].code = c /\ over[k].table = t
      BY <1>17, <3>3
    <3> QED BY <1>14, <3>2, <3>4
  <2>2. ASSUME n > Limit PROVE a + rank(j) \in Summed
    <3> DEFINE k == rank(j)
    <3>1. k \in 1..b /\ over[k].code = c /\ over[k].table = t
      BY <1>15, <2>2
    <3> HIDE DEF k
    <3>2. a + k \in 1..(a + b) /\ list[a + k].code = c /\ list[a + k].table = t
          /\ list[a + k].more = over[k].seen - Limit /\ over[k].seen - Limit > 0
      BY <1>17, <3>1
    <3>3. a + k \in Summed
      BY <3>2
    <3> QED BY <3>3 DEF k
  <2> HIDE DEF Summed
  <2> QED BY <2>1, <2>2
<1>21. \A i \in Listed : i <= a
  <2>1. At(d.list, Diagnostic(c, t, 0)) \subseteq 1..a
    BY DEF At, a
  <2> HIDE DEF Listed
  <2> QED BY <1>1, <1>19, <2>1
<1>22. \A i \in Summed : list[i].more = n - Limit /\ i > a
  <2> SUFFICES ASSUME n > Limit PROVE list[a + rank(j)].more = n - Limit /\ a + rank(j) > a
    <3> HIDE DEF Summed
    <3> QED BY <1>20
  <2> QED BY <1>15, <1>17
<1>23. Cardinality(Listed) = Listable(n)
  BY <1>1, <1>19 DEF Count
<1>24. Cardinality(Summed) = IF n > Limit THEN 1 ELSE 0
  <2> HIDE DEF Summed
  <2> QED BY <1>20, FS_Singleton, FS_EmptySet
<1>25. ListedOf(list, <<c, t>>) = Listed /\ SummedOf(list, <<c, t>>) = Summed
  BY <1>7 DEF ListedOf, SummedOf
<1>26. \A i \in Listed \cup Summed : i \in Nat
  OBVIOUS
<1> HIDE DEF Listed, Summed
<1> QED BY <1>8, <1>21, <1>22, <1>23, <1>24, <1>25, <1>26 DEF a, n

\* What is raised in a step, if anything.
Raises == (\E code \in Codes, where \in Places : Report(code, where)) \/ UNCHANGED <<problems, raised>>

\* The list accounts for what was raised; a result holds what Take returns.
DiagInv ==
  /\ Accounts(problems, raised)
  /\ result = None \/ (pc \in {"failed", "done"} /\ result.list = Taken(problems))

LEMMA NextRaises == IndexInv /\ CursorInv /\ [Next]_vars => Raises
<1> SUFFICES ASSUME IndexInv, CursorInv, [Next]_vars PROVE Raises
  OBVIOUS
<1>0. table \in Places /\ \A code, about : Fatal(code, about) => UNCHANGED <<problems, raised>>
  BY DEF IndexInv, ReadInv, Places, Fatal
<1>1. CASE Unreadable
  BY <1>0, <1>1 DEF Unreadable, Raises
<1>2. CASE RefuseHeader
  BY <1>0, <1>2 DEF RefuseHeader, Raises
<1>3. CASE ReadHeader
  <2>1. "UNKNOWN_GLOBALS" \in Codes /\ "header" \in Places
    BY DEF Codes, Places
  <2> QED BY <1>3, <2>1 DEF ReadHeader, Raises, Silent
<1>4. CASE Truncated
  BY <1>0, <1>4 DEF Truncated, Raises
<1>5. CASE ReadData
  BY <1>5 DEF ReadData, Raises, Silent
<1>6. CASE \E n \in Lengths(remaining - 4), decodes \in BOOLEAN : ReadText(n, decodes)
  <2>1. "TEXT_INVALID" \in Codes
    BY DEF Codes
  <2> QED BY <1>0, <1>6, <2>1 DEF ReadText, Raises, Silent
<1>7. CASE Reads("index") /\ \E v \in Stored(todo[1].n) : ReadIndex(v)
  BY <1>7 DEF ReadIndex, Raises, Silent
<1>8. CASE Reads("face") /\ \E v \in Stored(todo[1].n) : ReadFace(v)
  BY <1>0, <1>8 DEF ReadFace, Raises, Silent
<1>9. CASE Reads("list") /\ \E n \in Counts((remaining - 4) \div MinimumOf(todo[1].of)) : ReadCount(n)
  <2> PICK n \in Counts((remaining - 4) \div MinimumOf(todo[1].of)) : ReadCount(n)
    BY <1>9
  <2>1. (\E code, about : Fatal(code, about)) \/ Silent
    BY DEF ReadCount
  <2> QED BY <1>0, <2>1 DEF Raises, Silent
<1>10. CASE NextRecord
  BY <1>10 DEF NextRecord, Raises, Silent
<1>11. CASE EndOfList
  <2>1. "MATERIAL_FACES_SHORT" \in Codes /\ "materials" \in Places
    BY DEF Codes, Places, Tables
  <2> QED BY <1>11, <2>1 DEF EndOfList, Raises, Silent
<1>12. CASE Reads("select") /\ \E v \in LayoutValues(todo[1].what) : ReadSelect(v)
  BY <1>12 DEF ReadSelect, Raises, Silent
<1>13. CASE RefuseSelect
  BY <1>0, <1>13 DEF RefuseSelect, Raises
<1>14. CASE Reads("faceCount") /\ \E n \in Counts(Left) : ReadFaceCount(n)
  BY <1>0, <1>14 DEF ReadFaceCount, Raises, Silent
<1>15. CASE ReadEnd
  <2>1. "TRAILING_BYTES" \in Codes /\ "" \in Places
    BY DEF Codes, Places
  <2> QED BY <1>15, <2>1 DEF ReadEnd, Raises, Silent
<1>16. CASE CheckIndex
  <2> DEFINE r == refs[checked + 1]
  <2>1. r.table \in Places
    <3>1. checked + 1 \in 1..Len(refs) /\ refs \in Seq(Refs)
      BY <1>16 DEF CheckIndex, IndexInv, ReadInv
    <3>2. r \in Refs
      BY <3>1
    <3> QED BY <3>2 DEF Refs, Places
  <2>2. "INDEX_OUT_OF_RANGE" \in Codes
    BY DEF Codes
  <2>3. Report("INDEX_OUT_OF_RANGE", r.table) \/ Silent
    BY <1>16 DEF CheckIndex
  <2> HIDE DEF r
  <2> QED BY <2>1, <2>2, <2>3 DEF Raises, Silent
<1>17. CASE Succeed
  BY <1>17 DEF Succeed, Raises, Silent
<1>18. CASE UNCHANGED vars
  BY <1>18 DEF vars, Raises
<1> QED
  BY <1>1, <1>2, <1>3, <1>4, <1>5, <1>6, <1>7, <1>8, <1>9, <1>10, <1>11, <1>12, <1>13,
     <1>14, <1>15, <1>16, <1>17, <1>18 DEF Next

\* A step leaves no result, or ends the reading with what Take returns.
Results ==
  \/ result' = result /\ pc \notin {"failed", "done"}
  \/ UNCHANGED <<pc, result, problems>>
  \/ pc' \in {"failed", "done"} /\ result'.list = Taken(problems) /\ problems' = problems

LEMMA NextResults == [Next]_vars => Results
<1> SUFFICES ASSUME [Next]_vars PROVE Results
  OBVIOUS
<1>0. /\ \A code, about : Fatal(code, about) => Results
      /\ result' = result /\ pc \in {"header", "read", "check"} => Results
  BY DEF Fatal, Results
<1>1. CASE Unreadable \/ RefuseHeader
  BY <1>0, <1>1 DEF Unreadable, RefuseHeader
<1>2. CASE ReadHeader \/ ReadData \/ NextRecord \/ EndOfList
  BY <1>0, <1>2 DEF ReadHeader, ReadData, NextRecord, EndOfList, Reads
<1>3. CASE Truncated \/ RefuseSelect
  BY <1>0, <1>3 DEF Truncated, RefuseSelect
<1>4. CASE \E n \in Lengths(remaining - 4), decodes \in BOOLEAN : ReadText(n, decodes)
  BY <1>0, <1>4 DEF ReadText, Reads
<1>5. CASE Reads("index") /\ \E v \in Stored(todo[1].n) : ReadIndex(v)
  BY <1>0, <1>5 DEF ReadIndex, Reads
<1>6. CASE Reads("face") /\ \E v \in Stored(todo[1].n) : ReadFace(v)
  BY <1>0, <1>6 DEF ReadFace, Reads
<1>7. CASE Reads("list") /\ \E n \in Counts((remaining - 4) \div MinimumOf(todo[1].of)) : ReadCount(n)
  <2> PICK n \in Counts((remaining - 4) \div MinimumOf(todo[1].of)) : ReadCount(n)
    BY <1>7
  <2>1. (\E code, about : Fatal(code, about)) \/ (result' = result /\ pc = "read")
    BY DEF ReadCount, Reads
  <2> QED BY <1>0, <2>1
<1>8. CASE Reads("select") /\ \E v \in LayoutValues(todo[1].what) : ReadSelect(v)
  BY <1>0, <1>8 DEF ReadSelect, Reads
<1>9. CASE Reads("faceCount") /\ \E n \in Counts(Left) : ReadFaceCount(n)
  BY <1>0, <1>9 DEF ReadFaceCount, Reads
<1>10. CASE ReadEnd \/ CheckIndex
  BY <1>0, <1>10 DEF ReadEnd, CheckIndex
<1>11. CASE Succeed
  BY <1>11 DEF Succeed, Silent, Results
<1>12. CASE UNCHANGED vars
  BY <1>12 DEF vars, Results
<1> QED
  BY <1>1, <1>2, <1>3, <1>4, <1>5, <1>6, <1>7, <1>8, <1>9, <1>10, <1>11, <1>12 DEF Next

LEMMA StepDiagnostics == IndexInv /\ CursorInv /\ DiagInv /\ [Next]_vars => DiagInv'
<1> SUFFICES ASSUME IndexInv, CursorInv, DiagInv, [Next]_vars PROVE DiagInv'
  OBVIOUS
<1>1. Raises /\ Results
  BY NextRaises, NextResults
<1>2. Accounts(problems', raised')
  <2>1. CASE UNCHANGED <<problems, raised>>
    BY <2>1 DEF DiagInv
  <2>2. CASE \E code \in Codes, where \in Places : Report(code, where)
    <3> PICK code \in Codes, where \in Places : Report(code, where)
      BY <2>2
    <3>1. problems' = Added(problems, code, where) /\ raised' = Append(raised, <<code, where>>)
      BY DEF Report
    <3> QED BY <3>1, AddedAccounts DEF DiagInv
  <2> QED BY <1>1, <2>1, <2>2 DEF Raises
<1>3. result' = None \/ (pc' \in {"failed", "done"} /\ result'.list = Taken(problems'))
  BY <1>1 DEF Results, DiagInv
<1> QED BY <1>2, <1>3 DEF DiagInv

\* Up to the limit every diagnostic raised is listed, and the rest of it is one
\* number behind all of them.
THEOREM DiagnosticsAccounted == Spec => []DiagnosticsAreAccounted
<1>1. Init => IndexInv /\ DrawInv /\ CursorInv /\ DiagInv
  <2>1. Init => DiagInv
    BY NoneAccounted DEF Init, DiagInv
  <2> QED BY <2>1, InitIndices, DrawInit, CursorInit
<1>2. IndexInv /\ DrawInv /\ CursorInv /\ DiagInv /\ [Next]_vars
      => (IndexInv /\ DrawInv /\ CursorInv /\ DiagInv)'
  BY StepIndices, StepDraws, StepCursor, StepDiagnostics
<1>3. DiagInv => DiagnosticsAreAccounted
  <2> SUFFICES ASSUME DiagInv, result # None PROVE DiagnosticsAreAccounted
    BY DEF DiagnosticsAreAccounted
  <2> DEFINE list == result.list
             Of(p) == {i \in DOMAIN raised : raised[i] = p}
  <2>1. list = Taken(problems) /\ Accounts(problems, raised) /\ raised \in Seq(Codes \X Places)
    BY DEF DiagInv, Accounts
  <2>2. \A p : Cardinality(Of(p)) = Count(raised, p)
    <3>1. DOMAIN raised = 1..Len(raised)
      BY <2>1
    <3> QED BY <3>1 DEF Count, At
  <2>3. ASSUME NEW p \in Range(raised)
        PROVE  /\ Cardinality(ListedOf(list, p)) = Listable(Count(raised, p))
               /\ Cardinality(SummedOf(list, p)) = IF Count(raised, p) > Limit THEN 1 ELSE 0
               /\ \A i \in SummedOf(list, p) : /\ list[i].more = Count(raised, p) - Limit
                                               /\ i > Len(problems.list) /\ i \in Nat
               /\ \A i \in ListedOf(list, p) : i <= Len(problems.list) /\ i \in Nat
    <3>1. PICK k \in 1..Len(raised) : raised[k] = p
      BY <2>1 DEF Range
    <3>2. p \in Codes \X Places
      BY <2>1, <3>1
    <3>3. PICK c \in Codes, t \in Places : p = <<c, t>>
      BY <3>2
    <3>4. Count(raised, p) # 0
      BY <2>1, <3>1, CountType DEF At
    <3>5. Count(raised, <<c, t>>) # 0
      BY <3>3, <3>4
    <3> HIDE DEF list
    <3> QED BY <2>1, <3>3, <3>5, TakenAccounts
  <2>4. Len(problems.list) \in Nat
    BY <2>1 DEF Accounts
  <2>5. ASSUME NEW p \in Range(raised), NEW i \in SummedOf(list, p), NEW q \in Range(raised),
               NEW k \in ListedOf(list, q)
        PROVE  k < i
    <3>1. i > Len(problems.list) /\ i \in Nat
      BY <2>3
    <3>2. k <= Len(problems.list) /\ k \in Nat
      BY <2>3
    <3> QED BY <2>4, <3>1, <3>2
  <2>6. \A p \in Range(raised) :
          /\ Cardinality(ListedOf(list, p)) = IF Cardinality(Of(p)) < Limit THEN Cardinality(Of(p)) ELSE Limit
          /\ Cardinality(SummedOf(list, p)) = IF Cardinality(Of(p)) > Limit THEN 1 ELSE 0
          /\ \A i \in SummedOf(list, p) : /\ list[i].more = Cardinality(Of(p)) - Limit
                                          /\ \A q \in Range(raised) : \A k \in ListedOf(list, q) : k < i
    <3> HIDE DEF list, Of
    <3> QED BY <2>2, <2>3, <2>5 DEF Listable
  <2> QED BY <2>6, Zenon DEF DiagnosticsAreAccounted, ListedOf, SummedOf
<1> QED BY <1>1, <1>2, <1>3, PTL DEF Spec
=============================================================================
