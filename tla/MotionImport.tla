---------------------------- MODULE MotionImport ----------------------------
(***************************************************************************)
(* A motion from its file to the tracks of a model: the reader, BuildMotion,*)
(* Bind and the sampling of what they deliver.                              *)
(***************************************************************************)
EXTENDS VmdReader, VmdMotion, MotionBinding, MotionSample

CONSTANT Times   \* times to sample at, doubled

ASSUME TimesAssumption == Times \subseteq Int

VARIABLE store   \* the tracks that the records read so far make, as a store

motion == BuildMotion(doc)
bound == Bind(motion)

\* Bound tracks by element, those of the stage whole: what stands at each
\* element and frame.
Slots(kind, element, track) ==
  {[at |-> <<[kind |-> kind, element |-> element], track[i].frame>>, value |-> track[i].value] :
     i \in DOMAIN track}
Whole(m, b) == [m.stage EXCEPT !.visibility = b.visibility]
Stored(m, b) ==
  LET tracks == (UNION {{<<k, {t.element}, t.keys>> : t \in Range(b[k])} : k \in {"bones", "morphs", "ik"}})
                \cup {<<k, {None}, Whole(m, b)[k]>> : k \in DOMAIN m.stage}
  IN  UNION {Slots(t[1], t[2], t[3]) : t \in tracks}
StoredOf(m) == Stored(m, Bind(m))
StoreOf(records) == StoredOf(BuildMotion(records))

ImportInit == Init /\ store = {}
ImportNext == Next /\ store' = StoreOf(doc')

ImportSpec == ImportInit /\ [][ImportNext]_<<vars, store>>

-----------------------------------------------------------------------------
(* Properties *)

\* What a name means: of the elements whose name is this field's once written
\* in CP932 and cut, the one that comes first in the source.
Means(table, width, bytes) ==
  {i \in DOMAIN table :
     /\ bytes # <<>> /\ table[i].name # <<>> /\ Encodable(table[i].name)
     /\ UpToNul(SubSeq(EncodeCp932(table[i].name) \o [n \in 1..width |-> 0], 1, width)) = bytes}
Meant(table, width, bytes) ==
  {i \in Means(table, width, bytes) :
     \A j \in Means(table, width, bytes) : table[i].sourceIndex <= table[j].sourceIndex}

ByName(k, Choice(_, _, _)) ==
  CASE k.kind = "bones" -> Choice(Bones, BoneField, k.name)
    [] k.kind = "morphs" -> Choice(Morphs, BoneField, k.name)
    [] k.kind = "ik" -> Choice(Bones, IkField, k.name)
    [] OTHER -> {None}

\* Only what the stage has one of needs no name.
ElementOf(k) == [kind |-> k.kind, element |-> ByName(k, Meant)]

NamedIn(b) == [bones |-> b.bones, morphs |-> b.morphs, ik |-> b.ik]
BoundTracks == NamedIn(bound)

\* Reading, building and binding are writes to a store: whatever the order of
\* the records, the last one of a frame is the one its element keeps, and an
\* element keeps nothing else.
Store == INSTANCE TrackStore
           WITH Element <- ElementOf, Nameless <- {}
TracksAreStored == Store!Spec

\* A track is sampled as the file's records say: the last written values of
\* the nearest frames around the time, or of the nearest one where the time is
\* on a frame or outside them all.
SamplesFollowTheRecords ==
  pc = "done" =>
    \A kind \in {"bones", "morphs", "ik"} : \A t \in Range(BoundTracks[kind]) :
      LET mine == {k \in Range(keys) : ElementOf(k) = [kind |-> kind, element |-> {t.element}]}
          Written(f) == Max({k.value : k \in {m \in mine : m.frame = f}})
          frames == {k.frame : k \in mine}
      IN \A time \in Times :
           LET before == {f \in frames : 2 * f <= time}
               after == frames \ before
               near == IF before = {} THEN Min(after) ELSE Max(before)
               next == Min(after)
           IN  IF kind = "ik" THEN SampleIk(t.keys, time) = Written(near)
               ELSE LET s == Sample(t.keys, time, None) IN
                    /\ s.from = Written(near)
                    /\ IF before = {} \/ after = {} \/ time = 2 * near THEN s.to = s.from
                       ELSE /\ s.to = Written(next)
                            /\ s.part * 2 * (next - near) = s.whole * (time - 2 * near)

\* How many things the diagnostics of a code and a table speak of.
Worth(diagnostic, code, where) ==
  IF diagnostic.code # code \/ diagnostic.table # where THEN 0
  ELSE IF diagnostic.more > 0 THEN diagnostic.more ELSE 1
CountOf(list, code, where) == Total([i \in DOMAIN list |-> Worth(list[i], code, where)])

Ascends(ts) == \A i, j \in DOMAIN ts : i < j => ts[i].element < ts[j].element

\* Each element has one track at most, and no key is dropped in silence: a
\* name that means nothing, a name that means several elements and a frame
\* written twice are reported once per name.
WhatIsDroppedIsReported ==
  pc = "done" =>
    LET tracks == BoundTracks
        unbound == bound.list
        doubled == motion.list
    IN
    /\ \A kind \in DOMAIN tracks :
         Ascends(tracks[kind])
    /\ \A kind \in {"bones", "morphs", "ik"} :
         LET mine == {k \in Range(keys) : k.kind = kind}
             names == {k.name : k \in mine}
             twice == {n \in names : \E k, l \in mine :
                         k.name = n /\ l.name = n /\ k.frame = l.frame /\ k.value # l.value}
             shown == {k \in Range(keys) : k.kind = "visibility"}
             stage == IF kind = "ik" /\ \E k, l \in shown : k.frame = l.frame /\ k.value # l.value
                      THEN 1 ELSE 0
             Of(n) == ByName([kind |-> kind, name |-> n], Means)
             unmatched == IF kind = "morphs" THEN "MOTION_UNMATCHED_MORPH" ELSE "MOTION_UNMATCHED_BONE"
         IN  /\ CountOf(unbound, unmatched, kind) = Cardinality({n \in names : Of(n) = {}})
             /\ CountOf(unbound, "MOTION_AMBIGUOUS_NAME", kind)
                  = Cardinality({n \in names : Cardinality(Of(n)) > 1})
             /\ CountOf(doubled, "MOTION_DUPLICATE_KEYFRAME", kind) = Cardinality(twice) + stage
=============================================================================
