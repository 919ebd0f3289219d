---------------------------- MODULE MotionBinding ----------------------------
(***************************************************************************)
(* Bind: the tracks of a motion to the elements of a model, by the bytes a  *)
(* VMD field holds of an element's source name.                             *)
(***************************************************************************)
EXTENDS Integers, FiniteSets, Cp932, DiagnosticList

CONSTANTS
  Bones,       \* skeleton.bones and morphs of the model: sequences of
  Morphs,      \* [name, sourceIndex]
  BoneField,   \* kBoneNameField, kMorphNameField
  IkField      \* kIkNameField

ASSUME ElementsAssumption ==
  \A t \in {Bones, Morphs} :
    /\ t \in Seq(Range(t))
    /\ \A i \in DOMAIN t :
         /\ t[i].sourceIndex \in Nat /\ t[i].name \in Seq(Range(t[i].name))
         /\ \A c \in Range(t[i].name) : Encoded(c) \in Seq(Nat)
    /\ \A i, j \in DOMAIN t : t[i].sourceIndex = t[j].sourceIndex => i = j
ASSUME FieldAssumption == BoneField \in Nat /\ IkField \in Nat

Unbound == 0   \* kNone; element indices start at 1 here

\* IndexNames: the elements whose names fill a field with these bytes.
Elements(table, width, bytes) ==
  {i \in DOMAIN table :
     /\ table[i].name # <<>> /\ Encodable(table[i].name)
     /\ FieldBytes(table[i].name, width) = bytes}
Unencodable(table) == {i \in DOMAIN table : ~Encodable(table[i].name)}

ReportUnencodable(table, where) ==
  IF Unencodable(table) = {} THEN Silence ELSE <<"MOTION_UNENCODABLE_NAME", where>>

\* Faulty variant of Match: the first in the model's order is bound.
MatchFirst(table, width, bytes) ==
  LET matches == Elements(table, width, bytes)
  IN  IF bytes = <<>> \/ matches = {} THEN Unbound ELSE Min(matches)

\* Match: of several elements, the one that comes first in the source.
Match(table, width, bytes) ==
  LET matches == Elements(table, width, bytes)
  IN  IF bytes = <<>> \/ matches = {} THEN Unbound
      ELSE CHOOSE i \in matches : \A j \in matches : table[i].sourceIndex <= table[j].sourceIndex

\* What Match reports of a track's name.
Reported(table, width, bytes, section, unmatched) ==
  LET matches == Elements(table, width, bytes)
  IN  CASE bytes = <<>> \/ matches = {} -> <<unmatched, section>>
        [] bytes # <<>> /\ Cardinality(matches) > 1 -> <<"MOTION_AMBIGUOUS_NAME", section>>
        [] OTHER -> Silence

\* The tracks that bind, by element.
Bound(tracks, table, width) ==
  LET all == [t \in 1..Len(tracks) |-> [element |-> Match(table, width, tracks[t].name),
                                         keys |-> tracks[t].keys]]
      out == Selected(all, {o \in Range(all) : o.element # Unbound})
      places == 1..Len(out)
      place == OrderedBy(places, {p \in places \X places : out[p[1]].element < out[p[2]].element})
  IN  [i \in places |-> out[place[i]]]

\* What Bind reports, in this order.
ReportedIn(tracks, table, width, section, unmatched) ==
  [t \in 1..Len(tracks) |-> Reported(table, width, tracks[t].name, section, unmatched)]
ReportedOf(motion) ==
  <<ReportUnencodable(Bones, "bones"), ReportUnencodable(Morphs, "morphs")>>
  \o ReportedIn(motion.bones, Bones, BoneField, "bones", "MOTION_UNMATCHED_BONE")
  \o ReportedIn(motion.morphs, Morphs, BoneField, "morphs", "MOTION_UNMATCHED_MORPH")
  \o ReportedIn(motion.ik, Bones, IkField, "ik", "MOTION_UNMATCHED_BONE")

Bind(motion) ==
  [bones |-> Bound(motion.bones, Bones, BoneField),
   morphs |-> Bound(motion.morphs, Morphs, BoneField),
   ik |-> Bound(motion.ik, Bones, IkField),
   visibility |-> motion.stage.visibility,
   list |-> Taken(AddedAll(ReportedOf(motion)))]
=============================================================================
