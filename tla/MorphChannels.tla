---------------------------- MODULE MorphChannels ----------------------------
(***************************************************************************)
(* The morphs of libs/mmdControl: Prepare orders the groups of a canonical  *)
(* document, _Sample expands a motion's weights into the bone morphs and    *)
(* hands the rest on as channels, and a consumer resolves channels into UV  *)
(* deltas and material modulations.  The document comes from the walk of    *)
(* GroupCycles, which is what makes the order complete.                     *)
(***************************************************************************)
EXTENDS GroupCycles, FiniteSetsExt

CONSTANTS
  Kinds,           \* the types of the morphs: "group", "flip", "bone", "uv", ...
  Ratio,           \* Ratio[g][m]: the weight of member m of group g
  Motions,         \* a motion's morph tracks at a frame: lists of [morph, weight]
  Channels,        \* other lists of channels a consumer may resolve
  UvOffsets,       \* a uv morph's offsets: [vertex, delta]
  MaterialOffsets, \* a material morph's offsets: [material, operation, value]
  Vertices,        \* the number of vertices
  Materials,       \* the number of materials
  AdditionalUvs    \* additionalUvCount

ASSUME RatioAssumption == Ratio \in [Morphs -> [Morphs -> Int]]
ASSUME ListsAssumption == Motions \cup Channels \subseteq Seq([morph : Int, weight : Int])

VARIABLES
  kinds,       \* the morphs' types
  stage,       \* "document", "order", "prepared", "sampled", "resolved"
  listedBy,    \* how often each group is listed by groups not yet ordered
  groupOrder,  \* Evaluator::_groupOrder
  motion,      \* the tracks sampled
  boneWeights, \* the weights of the bone morphs
  channels,    \* Pose::channels
  given,       \* the channels a consumer resolves
  result       \* what it gets: resolved channels, uv deltas, modulations

morphVars == <<kinds, stage, listedBy, groupOrder, motion, boneWeights, channels, given, result>>

OfKind(k) == {m \in Morphs : kinds[m] = k}
GroupMorphs == OfKind("group")
Bone == OfKind("bone")
NoRows == <<>>

\* The sum of a function of morphs.
SumOver(f) == Total([i \in 1..M |-> IF i - 1 \in DOMAIN f THEN f[i - 1] ELSE 0])

\* How often morph g lists morph m.
Listed(g, m) == Cardinality({k \in DOMAIN members[g] : members[g][k] = m})

\* What a list has of the morphs of S, in its order.
OfMorphs(list, S) ==
  Selected(list, {list[i] : i \in {k \in DOMAIN list : list[k].morph \in S}})

-----------------------------------------------------------------------------
(* Prepare                                                                  *)

\* How often groups list morph m.
Listings(m) == SumOver([g \in GroupMorphs |-> Listed(g, m)])

CountListings ==
  /\ stage = "document" /\ at = "done" /\ stage' = "order"
  /\ listedBy' = [m \in Morphs |-> IF m \in GroupMorphs THEN Listings(m) ELSE 0]
  /\ UNCHANGED <<kinds, groupOrder, motion, boneWeights, channels, given, result>>

Ordered == Range(groupOrder)
Waiting == GroupMorphs \ Ordered

\* Faulty variant of Ready: a group is ready whoever lists it.
ReadyListed == Waiting

\* The groups whose every listing is in the order.
Ready == {g \in Waiting : listedBy[g] = 0}

OrderGroup ==
  /\ stage = "order"
  /\ IF Ready = {} THEN stage' = "prepared" /\ UNCHANGED <<listedBy, groupOrder>>
     ELSE LET g == Min(Ready) IN
          /\ groupOrder' = Append(groupOrder, g) /\ UNCHANGED stage
          /\ listedBy' = [m \in Morphs |-> IF m \in GroupMorphs THEN listedBy[m] - Listed(g, m) ELSE 0]
  /\ UNCHANGED <<kinds, motion, boneWeights, channels, given, result>>

-----------------------------------------------------------------------------
(* Weights                                                                  *)

\* Faulty variant of Pushed: a group of no weight is passed over altogether.
PushedWeighty(s, g) ==
  [weights |-> [m \in Morphs |-> s.weights[m] + Listed(g, m) * (s.weights[g] * Ratio[g][m])],
   reached |-> IF g \in s.reached /\ s.weights[g] # 0 THEN s.reached \cup Range(members[g]) ELSE s.reached]

\* A group's weight goes to its members, and that it was reached.
Pushed(s, g) ==
  [weights |-> [m \in Morphs |-> s.weights[m] + Listed(g, m) * (s.weights[g] * Ratio[g][m])],
   reached |-> IF g \in s.reached THEN s.reached \cup Range(members[g]) ELSE s.reached]

\* The groups in their order, the first n of them for each n.
Expanded(s) ==
  LET after[n \in 0..Len(groupOrder)] ==
        IF n = 0 THEN s ELSE Pushed(after[n - 1], groupOrder[n])
  IN  after
ExpandGroups(s) == Expanded(s)[Len(groupOrder)]

\* What a list gives each morph itself, and which it names.
GivenTo(list, m) == Total([i \in DOMAIN list |-> IF list[i].morph = m THEN list[i].weight ELSE 0])
Named(list) == {list[i].morph : i \in DOMAIN list}
Given(list) == [weights |-> [m \in Morphs |-> GivenTo(list, m)], reached |-> Named(list)]

\* The tracks of morphs the model has, expanded into the bone morphs; all of
\* them but bone morphs are the pose's channels, unexpanded.
Sample ==
  /\ stage = "prepared" /\ stage' = "sampled"
  /\ \E tracks \in Motions :
       /\ motion' = OfMorphs(tracks, Morphs)
       /\ channels' = OfMorphs(tracks, Morphs \ Bone)
       /\ boneWeights' = [m \in Bone |-> ExpandGroups(Given(motion')).weights[m]]
  /\ UNCHANGED <<kinds, listedBy, groupOrder, given, result>>

\* The morphs that are neither bone morphs nor groups.
Leaves == Morphs \ (Bone \cup GroupMorphs)

\* The channels of leaves, by morph: those reached, even at no weight.
ResolveMorphChannels(list) ==
  LET s == ExpandGroups(Given(OfMorphs(list, Morphs \ Bone)))
      leaves == Selected([m \in 1..M |-> m - 1], s.reached \cap Leaves)
  IN  [i \in 1..Len(leaves) |-> [morph |-> leaves[i], weight |-> s.weights[leaves[i]]]]

\* Rows are refused with the first morph of a list, if it has one.
Refused(failing, rows) ==
  IF failing # <<>> THEN [failed |-> failing[1].morph, rows |-> NoRows]
  ELSE [failed |-> None, rows |-> rows]

\* Deltas by texture channel and vertex; the primary channel's v points down.
UvMorphs == OfKind("uv") \cup OfKind("uv1")
UvChannel(m) == IF kinds[m] = "uv" THEN 0 ELSE 1
UvInvalid(m) ==
  UvChannel(m) > AdditionalUvs \/ \E o \in Range(UvOffsets[m]) : o.vertex \notin 0..Vertices - 1
UvDeltas(resolved) ==
  LET known == OfMorphs(resolved, UvMorphs)
      Delta(c, channel, vertex) ==
        Total([k \in DOMAIN UvOffsets[c.morph] |->
                 IF UvChannel(c.morph) = channel /\ UvOffsets[c.morph][k].vertex = vertex
                 THEN (IF channel = 0 THEN -1 ELSE 1) * c.weight * UvOffsets[c.morph][k].delta ELSE 0])
      keys == UNION {{<<UvChannel(m), o.vertex>> : o \in Range(UvOffsets[m])} : m \in Named(known)}
  IN  Refused(OfMorphs(known, {m \in UvMorphs : UvInvalid(m)}),
              [key \in keys |-> Total([i \in DOMAIN known |-> Delta(known[i], key[1], key[2])])])

\* Modulations by material; an offset without one is of them all.
MaterialMorphs == OfKind("material")
MaterialInvalid(m) ==
  \E o \in Range(MaterialOffsets[m]) :
    ~(o.material \in -1..Materials - 1 /\ o.operation \in {"multiply", "add"})
Modulated(o) == IF o.material = -1 THEN 0..Materials - 1 ELSE {o.material}
Product(s) == LET product[k \in 0..Len(s)] == IF k = 0 THEN 1 ELSE product[k - 1] * s[k] IN product[Len(s)]
Modulations(resolved) ==
  LET known == OfMorphs(resolved, MaterialMorphs)
      Offsets(c, material, operation) ==
        LET offsets == MaterialOffsets[c.morph]
        IN  Selected(offsets, {o \in Range(offsets) : material \in Modulated(o) /\ o.operation = operation})
      Factors(c, material) ==
        LET offsets == Offsets(c, material, "multiply")
        IN  Product([k \in DOMAIN offsets |-> 1 + c.weight * (offsets[k].value - 1)])
      Terms(c, material) ==
        LET offsets == Offsets(c, material, "add")
        IN  Total([k \in DOMAIN offsets |-> c.weight * offsets[k].value])
      modulated == UNION {UNION {Modulated(o) : o \in Range(MaterialOffsets[m])} : m \in Named(known)}
  IN  Refused(OfMorphs(known, {m \in MaterialMorphs : MaterialInvalid(m)}),
              [material \in modulated |->
                 [multiply |-> Product([i \in DOMAIN known |-> Factors(known[i], material)]),
                  add |-> Total([i \in DOMAIN known |-> Terms(known[i], material)])]])

\* A consumer resolves the pose's channels, or others.
Resolve ==
  /\ stage = "sampled" /\ stage' = "resolved"
  /\ \E list \in {channels} \cup Channels :
       LET resolved == ResolveMorphChannels(list) IN
       /\ given' = list
       /\ result' = [channels |-> resolved, uvs |-> UvDeltas(resolved), materials |-> Modulations(resolved)]
  /\ UNCHANGED <<kinds, listedBy, groupOrder, motion, boneWeights, channels>>

MorphInit ==
  /\ InitGroups
  /\ kinds \in Kinds /\ group.composite = GroupMorphs \cup OfKind("flip")
  /\ stage = "document" /\ listedBy = [m \in Morphs |-> 0] /\ groupOrder = <<>>
  /\ motion = <<>> /\ boneWeights = <<>> /\ channels = <<>> /\ given = <<>> /\ result = <<>>

MorphNext ==
  \/ BreakGroupCycles /\ UNCHANGED morphVars
  \/ (CountListings \/ OrderGroup \/ Sample \/ Resolve) /\ UNCHANGED groupVars

MorphSpec == MorphInit /\ [][MorphNext]_<<groupVars, morphVars>>

-----------------------------------------------------------------------------
(* Properties *)

\* What the listed weights make of each morph, by way of the groups above it.
Listers(m) == {g \in GroupMorphs : Listed(g, m) > 0}
Totals(list) ==
  LET Up[m \in Morphs] ==
        GivenTo(list, m) + SumOver([g \in Listers(m) |-> Listed(g, m) * (Up[g] * Ratio[g][m])])
  IN  Up

\* The morphs a list of channels reaches: groups pass it on whatever they weigh.
Closed(F) == \A g \in F \cap GroupMorphs : Range(members[g]) \subseteq F
ReachedBy(list) == {m \in Morphs : \A F \in SUBSET Morphs : Named(list) \subseteq F /\ Closed(F) => m \in F}

\* What a consumer resolved: the channels of morphs that are not bone morphs.
Resolved == OfMorphs(given, Morphs \ Bone)
ReachedLeaves == ReachedBy(Resolved) \cap Leaves
Weighed == IF given = channels THEN motion ELSE Resolved

\* A canonical document has its groups in an order that expands each weight to
\* the end, however groups list each other: a bone morph weighs what every way
\* through the groups adds up to.
BonesWeigh == stage \in {"sampled", "resolved"} => \A m \in Bone : boneWeights[m] = Totals(motion)[m]

\* So does a resolved channel, each leaf reached has its channel, at weight 0
\* too, and the pose's channels lose nothing of the motion.
LeavesWeigh ==
  /\ Named(result.channels) = ReachedLeaves
  /\ \A i \in DOMAIN result.channels :
       /\ result.channels[i].weight = Totals(Weighed)[result.channels[i].morph]
       /\ \A k \in 1..i - 1 : result.channels[k].morph < result.channels[i].morph

\* What is not refused moves every vertex and modulates every material named
\* by a morph that was reached, and no other; only a reached morph is refused.
RowsAreReached ==
  LET uvs == ReachedLeaves \cap UvMorphs
      materials == ReachedLeaves \cap MaterialMorphs
  IN  /\ result.uvs.failed \in uvs \cup {None} /\ result.materials.failed \in materials \cup {None}
      /\ result.uvs.failed = None =>
           {row[2] : row \in DOMAIN result.uvs.rows}
             = UNION {{o.vertex : o \in Range(UvOffsets[m])} : m \in uvs}
      /\ result.materials.failed = None =>
           DOMAIN result.materials.rows =
             UNION {UNION {Modulated(o) : o \in Range(MaterialOffsets[m])} : m \in materials}

\* The weights of a motion or of other channels reach the morphs that deform,
\* whole and once by every way, and nothing else is deformed.
WeightsReachTheLeaves ==
  /\ BonesWeigh
  /\ stage = "resolved" => LeavesWeigh /\ RowsAreReached
=============================================================================
