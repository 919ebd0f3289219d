------------------------------ MODULE VmdMotion ------------------------------
(***************************************************************************)
(* BuildMotion: a document's records as tracks, each sorted by frame with   *)
(* one key per frame.  The document is VmdReader's.                         *)
(***************************************************************************)
EXTENDS Naturals, FiniteSets, DiagnosticList

\* The places of records by frame, those of one frame in the records' order.
Before(records, i, j) ==
  \/ records[i].frame < records[j].frame
  \/ records[i].frame = records[j].frame /\ i < j
ByFrame(records) ==
  LET places == 1..Len(records)
  IN  OrderedBy(places, {p \in places \X places : Before(records, p[1], p[2])})

\* Faulty variant of SortAndDeduplicate: the first record of a frame is kept.
SortAndKeepFirst(records) ==
  LET sorted == ByFrame(records)
      First(p) == p = 1 \/ records[sorted[p - 1]].frame # records[sorted[p]].frame
      places == 1..Len(records)
      kept == Selected([p \in places |-> p], {p \in places : First(p)})
  IN  [p \in 1..Len(kept) |-> records[sorted[kept[p]]]]

\* A stable sort by frame; the last record of each frame stays.
SortAndDeduplicate(records) ==
  LET sorted == ByFrame(records)
      Latest(p) == p = Len(records) \/ records[sorted[p + 1]].frame # records[sorted[p]].frame
      places == 1..Len(records)
      kept == Selected([p \in places |-> p], {p \in places : Latest(p)})
  IN  [p \in 1..Len(kept) |-> records[sorted[kept[p]]]]

OfName(records, name) == Selected(records, {r \in Range(records) : r.name = name})

\* TrackFor: the records of each name, names by first use and equal when their
\* bytes are.
Tracks(records) ==
  LET First(i) == \A j \in 1..i - 1 : records[j].name # records[i].name
      places == 1..Len(records)
      heads == Selected([i \in places |-> i], {i \in places : First(i)})
      NameAt(t) == records[heads[t]].name
  IN  [t \in 1..Len(heads) |-> [name |-> NameAt(t), records |-> OfName(records, NameAt(t))]]

States(ik) == Chained([i \in DOMAIN ik |-> ik[i].states])
Visibility(ik) == [i \in DOMAIN ik |-> ik[i].key]

\* ReportDuplicates: one diagnostic for a track that lost records.
ReportDuplicates(records, section) ==
  IF Len(SortAndDeduplicate(records)) < Len(records)
  THEN <<"MOTION_DUPLICATE_KEYFRAME", section>> ELSE Silence

\* What is reported of a document's tracks, in this order.
DuplicatesIn(section, tracks) ==
  [t \in 1..Len(tracks) |-> ReportDuplicates(tracks[t].records, section)]
DuplicatesOf(doc) ==
  DuplicatesIn("bones", Tracks(doc.bones)) \o DuplicatesIn("morphs", Tracks(doc.morphs))
  \o <<ReportDuplicates(doc.cameras, "cameras"), ReportDuplicates(doc.lights, "lights"),
       ReportDuplicates(doc.shadows, "shadows"), ReportDuplicates(Visibility(doc.ik), "ik")>>
  \o DuplicatesIn("ik", Tracks(States(doc.ik)))

Sorted(tracks) ==
  [t \in 1..Len(tracks) |-> [name |-> tracks[t].name,
                            keys |-> SortAndDeduplicate(tracks[t].records)]]

\* The tracks of a document and what is reported of them.
BuildMotion(doc) ==
  [bones |-> Sorted(Tracks(doc.bones)), morphs |-> Sorted(Tracks(doc.morphs)),
   ik |-> Sorted(Tracks(States(doc.ik))),
   stage |-> [cameras |-> SortAndDeduplicate(doc.cameras),
              lights |-> SortAndDeduplicate(doc.lights),
              shadows |-> SortAndDeduplicate(doc.shadows),
              visibility |-> SortAndDeduplicate(Visibility(doc.ik))],
   list |-> Taken(AddedAll(DuplicatesOf(doc)))]
=============================================================================
