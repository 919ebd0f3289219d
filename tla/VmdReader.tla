------------------------------ MODULE VmdReader ------------------------------
(***************************************************************************)
(* The VMD reader of libs/motionVmd: the header, then six sections in file  *)
(* order, any of which may be where the file ends.  A file is its size and  *)
(* the counts stored in it; what its names and frames are is chosen when    *)
(* they are read, once at most.  A key's value is its rank in the file, so  *)
(* that later steps can tell the keys apart.                                *)
(***************************************************************************)
EXTENDS Integers, FiniteSets, DiagnosticList, Cp932

CONSTANTS
  Files,       \* files: [size, nameSize, stored, states]; stored holds the sections'
               \* counts, states those of the IK records the last one promises,
               \* nameSize is 10 or 20 by version
  Fields(_),   \* Fields(w): contents found in a name field of w bytes
  Frames,      \* frames found in a key
  BoneName,    \* kBoneNameSize, and the morphs' kMorphNameSize
  IkName,      \* kIkNameSize
  None

Sections == <<"bones", "morphs", "cameras", "lights", "shadows", "ik">>

ASSUME FilesAssumption ==
  \A f \in Files :
    /\ f.size \in Nat /\ f.nameSize \in {10, 20} /\ f.stored \in [DOMAIN Sections -> Nat]
    /\ f.states \in Seq(Nat) /\ Len(f.states) = f.stored[6]
ASSUME NamesAssumption == BoneName \in Nat /\ IkName \in Nat
ASSUME FieldsAssumption == \A w \in {BoneName, IkName, 10, 20} : Fields(w) \subseteq [1..w -> Nat]
ASSUME FramesAssumption == Frames \subseteq Nat

VARIABLES
  pc,        \* "header", "sections", "done" or "failed"
  file,      \* its size and the counts stored in it
  offset,    \* the cursor
  section,   \* how many sections have been begun
  left,      \* records of the section still to read
  states,    \* states of the IK record still to read
  doc,       \* the records read, by section
  problems,  \* the diagnostic list
  result,    \* what Read returns: its fatal diagnostic and the others
  keys       \* history: every key read, in file order

vars == <<pc, file, offset, section, left, states, doc, problems, result, keys>>

remaining == file.size - offset

SignatureSize == 30
BoneRecord == BoneName + 4 + 12 + 16 + 64
MorphRecord == BoneName + 4 + 4
IkRecordMinimum == 4 + 1 + 4
IkStateRecord == IkName + 1
StageRecord(s) == CASE s = "cameras" -> 61 [] s = "lights" -> 28 [] s = "shadows" -> 9

RecordSize(s) ==
  CASE s = "bones" -> BoneRecord [] s = "morphs" -> MorphRecord [] s = "ik" -> IkRecordMinimum
    [] OTHER -> StageRecord(s)

Here == Sections[section]

-----------------------------------------------------------------------------

\* What a failed Read returns: the fatal diagnostic and those before it.
Fatal(code) ==
  /\ pc' = "failed"
  /\ result' = [fatal |-> code, list |-> Taken(problems)]
  /\ UNCHANGED <<file, offset, section, left, states, doc, problems, keys>>

Truncated == Fatal("MOTION_TRUNCATED_BUFFER")

\* _Name: what it reports of the field's bytes.
Named(d, bytes, where) ==
  CASE DecodeCp932(bytes) = "invalid" -> Added(d, "TEXT_INVALID_CP932", where)
    [] DecodeCp932(bytes) = "truncated" -> Added(d, "TEXT_TRUNCATED_CP932", where)
    [] OTHER -> d

\* ReadFile: the path is no file that can be opened, sized and read in full.
Unreadable == pc = "header" /\ Fatal("MOTION_FILE_UNREADABLE")

\* _ReadHeader refuses: no signature, or a file that ends in the header.  A
\* file shorter than the signature is truncated as long as it may start one.
RefuseHeader ==
  /\ pc = "header"
  /\ \/ file.size > 0 /\ Fatal("MOTION_BAD_SIGNATURE")
     \/ file.size < SignatureSize + file.nameSize /\ Truncated

\* The model's name has 10 bytes in version 1 and 20 in version 2.
ReadHeader(field) ==
  /\ pc = "header" /\ file.size >= SignatureSize + file.nameSize
  /\ pc' = "sections"
  /\ offset' = SignatureSize + file.nameSize
  /\ problems' = Named(problems, UpToNul(field), "header")
  /\ UNCHANGED <<file, section, left, states, doc, result, keys>>

Between == pc = "sections" /\ left = 0 /\ states = 0

\* Faulty variant of Fits: one byte more than there is.
FitsLate(count, recordSize, at) == count * recordSize <= file.size - at - 4 + 1

\* _Count: that many records of at least this size follow the count stored there.
Fits(count, recordSize, at) == count * recordSize <= file.size - at - 4

\* A section's count.  A file may end before any section.
BeginSection ==
  /\ Between /\ remaining > 0 /\ section < Len(Sections)
  /\ LET s == Sections[section + 1]
         count == file.stored[section + 1]
     IN  IF remaining < 4 THEN Truncated
         ELSE IF ~Fits(count, RecordSize(s), offset)
         THEN Fatal("MOTION_COUNT_EXCEEDS_BUFFER")
         ELSE /\ offset' = offset + 4 /\ section' = section + 1 /\ left' = count
              /\ UNCHANGED <<pc, file, states, doc, problems, result, keys>>

Reads(s) == pc = "sections" /\ left > 0 /\ states = 0 /\ Here = s

Key(kind, name, frame) ==
  [kind |-> kind, name |-> name, frame |-> frame, value |-> Len(keys) + 1]

\* _ReadBones and _ReadMorphs: one record.
ReadNamed(s, field, frame) ==
  /\ Reads(s)
  /\ LET k == Key(s, UpToNul(field), frame) IN
     /\ doc' = [doc EXCEPT ![s] = Append(@, k)]
     /\ keys' = Append(keys, k)
     /\ problems' = Named(problems, k.name, s)
  /\ offset' = offset + RecordSize(s) /\ left' = left - 1
  /\ UNCHANGED <<pc, file, section, states, result>>

\* _ReadCameras, _ReadLights and _ReadSelfShadows: one record.
ReadStage(s, frame) ==
  /\ Reads(s)
  /\ doc' = [doc EXCEPT ![s] = Append(@, Key(s, <<>>, frame))]
  /\ keys' = Append(keys, Key(s, <<>>, frame))
  /\ offset' = offset + RecordSize(s) /\ left' = left - 1
  /\ UNCHANGED <<pc, file, section, states, problems, result>>

\* _ReadIk: one record up to its states.  The section's count was checked
\* against the smallest record, so the file may still end before this one.
ReadIk(frame) ==
  /\ Reads("ik")
  /\ LET count == file.states[Len(doc.ik) + 1]
         at == offset + 5   \* past the frame and the visibility
     IN  IF remaining < IkRecordMinimum THEN Truncated
         ELSE IF ~Fits(count, IkStateRecord, at)
         THEN Fatal("MOTION_COUNT_EXCEEDS_BUFFER")
         ELSE /\ offset' = at + 4 /\ left' = left - 1 /\ states' = count
              /\ doc' = [doc EXCEPT !.ik = Append(@, [key |-> Key("visibility", <<>>, frame),
                                                      states |-> <<>>])]
              /\ keys' = Append(keys, Key("visibility", <<>>, frame))
              /\ UNCHANGED <<pc, file, section, problems, result>>

ReadIkState(field) ==
  /\ pc = "sections" /\ states > 0
  /\ LET record == Last(doc.ik)
         k == Key("ik", UpToNul(field), record.key.frame)
     IN  /\ doc' = [doc EXCEPT !.ik[Len(doc.ik)].states = Append(@, k)]
         /\ keys' = Append(keys, k)
         /\ problems' = Named(problems, k.name, "ik")
  /\ offset' = offset + IkStateRecord /\ states' = states - 1
  /\ UNCHANGED <<pc, file, section, left, result>>

\* Success: bytes after the last section are reported.
Succeed ==
  /\ Between /\ (remaining = 0 \/ section = Len(Sections))
  /\ pc' = "done"
  /\ problems' = IF remaining > 0 THEN Added(problems, "MOTION_TRAILING_BYTES", "") ELSE problems
  /\ result' = [fatal |-> None, list |-> Taken(problems')]
  /\ UNCHANGED <<file, offset, section, left, states, doc, keys>>

Init ==
  /\ pc = "header" /\ file \in Files /\ offset = 0
  /\ section = 0 /\ left = 0 /\ states = 0
  /\ doc = [s \in Range(Sections) |-> <<>>]
  /\ problems = NoDiagnostics /\ result = None /\ keys = <<>>

Next ==
  \/ Unreadable \/ RefuseHeader
  \/ \E field \in Fields(file.nameSize) : ReadHeader(field)
  \/ BeginSection
  \/ \E s \in {"bones", "morphs"}, field \in Fields(BoneName), frame \in Frames :
       ReadNamed(s, field, frame)
  \/ \E s \in {"cameras", "lights", "shadows"}, frame \in Frames : ReadStage(s, frame)
  \/ \E frame \in Frames : ReadIk(frame)
  \/ \E field \in Fields(IkName) : ReadIkState(field)
  \/ Succeed

Spec == Init /\ [][Next]_vars

-----------------------------------------------------------------------------
(* Properties *)

\* The bytes of the file's section s and where section n ends, as its counts
\* state it.
SectionBytes(s) ==
  4 + file.stored[s] * RecordSize(Sections[s])
  + (IF Sections[s] = "ik" THEN IkStateRecord * Total(file.states) ELSE 0)
SectionEnd(n) ==
  SignatureSize + file.nameSize + SumTo([s \in DOMAIN Sections |-> SectionBytes(s)])[n]

\* A motion is read when its file ends between two sections or after the last
\* one, and only then; and every record its counts promise is in the document.
OnlyWholeSectionsAreRead ==
  LET all == Len(Sections)
      whole == \/ file.size > SectionEnd(all)
               \/ \E n \in 0..all : file.size = SectionEnd(n)
  IN  /\ pc = "failed" /\ offset > 0 => ~whole
      /\ pc = "done" =>
           /\ whole /\ offset = SectionEnd(section)
           /\ \A n \in 1..all :
                Len(doc[Sections[n]]) = IF n <= section THEN file.stored[n] ELSE 0
           /\ offset < file.size <=>
                \E i \in DOMAIN result.list : result.list[i].code = "MOTION_TRAILING_BYTES"
=============================================================================
