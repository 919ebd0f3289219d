# Verification of usd-mmd-plugins in TLA+

This directory models the parts of usd-mmd-plugins that decide something:
orders, repairs, barriers, what is held and what may move, what reaches a file
and when. TLC checks the models on small instances and TLAPS proves the most
important results for every value of the constants. Paths below are relative to
the repository root.

## 1. The system

```
PMX file -> libs/mmdPmx -> libs/mmdModel -> plugins/usdMmdFileFormat -> USD layer
            Reader         Canonicalize     Authorer                     |
                                                                         +-> tools/mmdExport -> .usdz
VMD file -> libs/motionVmd -> libs/mmdMotionBinding -> libs/mmdControl -> libs/mmdMotionAdapter -> clip
            Reader, BuildMotion  Bind                  Evaluator  ^  |
                                                                  |  v
                                      libs/mmdPhysicsAdapter <-> host physics world
                                      libs/mmdSkeletonAdapter (retarget roles, arm roll)
```

Nearly everything is a synchronous call on values: a reader returns a document,
the canonicalizer a canonical document, the evaluator a pose. Concurrency
enters in four places: the host that interleaves its own calls with the
adapter's and the evaluator's (section 5 of `docs/design/PHYSICS_INTEGRATION.md`), the worker thread of
the file format plugin, the export tool as one of several processes on a file
system, and Hydra's invalidation in the imaging plugin.

| Component | State it keeps | Operations | What makes it correct |
| --- | --- | --- | --- |
| Control-rig evaluator (`libs/mmdControl`) | prepared bones, chains, groups, evaluation order; per call a `State`; continuations owned by the host | `Prepare`, `Evaluate`, `BeginPhysics`, `ResumePhysics`, `Complete`, `ResolveMorphChannels`, UV and material resolution | held joints stay as given; the barrier keeps the pre-physics frame and the feedback; the split call agrees with the whole one; appends read settled sources; a morph weight reaches every leaf |
| Joint order (`libs/mmdModel/src/Skeleton.cpp`) | parent table under repair, walk states, queue, order | `OrderJoints` | a forest of all bones, parents first, stable, repaired no more than necessary |
| Canonicalizer (`libs/mmdModel/src/Canonicalize.cpp`) | the canonical document | `Canonicalize`, `_BreakGroupCycles` and one pass per table | relations survive renumbering, no group cycle left, weights bind every vertex |
| Physics adapter (`libs/mmdPhysicsAdapter`) | bound bodies; the host's world and rows | `Bind`, `InitialBodyTransforms`, `UpdateKinematicBodies`, `ApplyPhysicsToPose` | feedback puts every driven body where it was simulated and is acceptable to the evaluator |
| Package exporter (`tools/mmdExport`) | private directory, plan, the output path | discover, convert, materialize, validate, archive, move | nothing partial at the output, nothing left behind, names lead to the images they named |
| PMX reader, diagnostics (`libs/mmdPmx`) | cursor, tables, bounded diagnostic list | `Read` | indices checked after the last table; counts bounded; diagnostics counted at their limit |
| VMD reader, motion, binding (`libs/motionVmd`, `libs/mmdMotionBinding`) | tracks by name | `Read`, `BuildMotion`, `Bind` | only whole sections are read; last record of a frame wins, first element of a name wins; nothing is dropped in silence |
| Motion and skeleton adapters | none between calls; `AdaptedSkeleton` owned by the caller | `BuildClip`, `Adapt`, `CarryArmRoll` | a clip ends exactly at its end and follows the motion; the rests reach the T-pose; held joints are closed under parents; a carried roll moves nothing |
| File format plugin (`plugins/usdMmdFileFormat`) | the layer, a stage of its own, a worker thread, the interpreter lock | `Read`, authoring | ends, whatever locks are held; all or nothing; warnings posted once; references between prims lead where the file's do |
| Imaging plugin (`plugins/mmdImaging`) | none | `GetImagingSubprimData`, `InvalidateImagingSubprim` | what changed is dirtied |
| Schema plugin, inspection tools, scripts | none | generated code, printing, build steps | outside the models (section 8) |

Behaviour that is hard here: the order of controls (an append reads a source
that may come later or lie on a cycle; a chain turns joints already visited),
two numberings of the same bones alive at once, edits that must neither double
nor lose an append across the physics barrier, walks over tables a file can make
arbitrary, names torn by fixed byte fields, fallbacks that renumber or rename what
others refer to, a wait for a thread that needs a lock the waiting one may hold, and
file replacement under kills and overlapping runs. `PROJECT.json`
lists each hazard at its line with the properties that watch it, and those no
module reaches with the reason.

## 2. Modules

| Module | Models | Uses |
| --- | --- | --- |
| `Selecting` | the loops that keep, sort, add up and concatenate, as recursive functions and choices | |
| `Evaluator` | `libs/mmdControl/src/Evaluator.cpp` | |
| `JointOrder` | `libs/mmdModel/src/Skeleton.cpp` | |
| `GroupCycles` | `_BreakGroupCycles` of `Canonicalize.cpp` | extends `Selecting` |
| `Canonicalize` | `Canonicalizer::Run` | extends `JointOrder` and `GroupCycles` |
| `PhysicsAdapter` | `libs/mmdPhysicsAdapter/src/Adapter.cpp` with a host world | |
| `MorphChannels` | the morphs of `Evaluator.cpp`, `MaterialMorph.cpp` | extends `GroupCycles` |
| `DiagnosticList` | `DiagnosticList.h` of `libs/mmdPmx`, as operators on a list | extends `Selecting` |
| `PmxReader` | `libs/mmdPmx/src/Reader.cpp` | extends `DiagnosticList` |
| `Cp932` | the name fields of a motion: `libs/motionVmd/src/Cp932.cpp`, and cutting in `Bind.cpp` | extends `Selecting` |
| `VmdReader` | `libs/motionVmd/src/Reader.cpp` | extends `Cp932`, `DiagnosticList` |
| `VmdMotion` | `libs/motionVmd/src/Motion.cpp` | extends `DiagnosticList` |
| `MotionBinding` | `libs/mmdMotionBinding/src/Bind.cpp` | extends `Cp932`, `DiagnosticList` |
| `MotionSample` | the sampling of tracks in `libs/mmdControl` | |
| `TrackStore` | what importing a motion promises | |
| `MotionImport` | reader, `BuildMotion`, `Bind` and sampling composed | implements `TrackStore` |
| `Identifiers` | identifier assignment and texture paths of `libs/mmdModel` | extends `DiagnosticList` |
| `CanonicalTables` | what `Canonicalize.cpp` makes of each table | extends `Identifiers` |
| `StageAuthor` | `UsdMmdAuthorer.cpp` | extends `CanonicalTables` |
| `FileFormat` | `UsdMmdFileFormat::Read`, its worker and the interpreter lock | |
| `Import` | a model from its file to a layer | extends `FileFormat`, `StageAuthor` |
| `Quaternions` | the rotation arithmetic the adapters share | |
| `SkeletonAdapter` | `libs/mmdSkeletonAdapter/src/Adapter.cpp` | extends `Quaternions`, `Selecting` |
| `MotionAdapter` | `libs/mmdMotionAdapter/src/Adapter.cpp` | extends `SkeletonAdapter` |
| `PackageOutput` | what the exporter promises about its output path | |
| `MmdExport` | `tools/mmdExport` | implements `PackageOutput` |
| `MC*` | instances for TLC | the module of that name; `MCHumanoid`: `MotionAdapter` |
| `Induction` | lemmas: induction over sets of numbers, and what the operators of `Selecting` return | `Selecting`, TLAPS |
| `*Proofs` | theorems | the module of that name, `Induction`, TLAPS; those on `JointOrder`, `GroupCycles` and `MorphChannels` are in `CanonicalizeProofs`, those on the skeleton and motion adapters in `EvaluatorProofs`, which stands between them |

Definitions called "faulty variant" are plausible mistakes: each, put in
the place of the definition that follows it, breaks the property listed for it
under `mutants` in `PROJECT.json`.

### Evaluator

`rig` is what `Prepare` keeps (append sources and chains already filtered),
`st` is `Evaluator::State`, `todo` the joints `_Pass` has still to visit,
`slots` the host's `PhysicsContinuation`s and `log` the poses finished calls
returned (history, for comparing calls). A public call samples or copies its
inputs (`Evaluate`, `BeginPhysics`, `ResumePhysics`, `Complete`; a refused
resume is `RefuseResume`), then `Visit` is one iteration of `_Pass` (append,
then chain) and `Return` its end. A translation is one integer, a rotation an
element of any group, so the order of products and the difference between
adding and subtracting a rest translation are kept. CCD is a
deterministic choice per link that may look at the whole pose (`Aims`); the iteration
clamp, the reset of the links, the identity left on an effector and on links of a chain without
iterations are the code's.

What feeds held joints is marked as `Complete` does it, by one walk after another (`Markings`), each from the
source of a held joint to that one's own, ended at a joint marked before (`MarkFrom`). The properties
compare with the least set that has the sources of the held joints and of its own members (`Feeders`): a
walk that ended early, on a cycle or at an earlier walk's joints, would leave some of it out.

The evaluator's identity is the shared implementation pointer, so `Evaluators` are
identities on one rig; a continuation of one is foreign to another.

### JointOrder, GroupCycles, Canonicalize

`JointOrder` takes the loops of `OrderJoints` one turn at a time: entering
a walk, following a parent, settling or breaking, then popping the priority queue.
`GroupCycles` does the same for the explicit stack of `_BreakGroupCycles`.
`Canonicalize` runs the phases of `Canonicalizer::Run` in their order and adds
the passes that renumber: weights, bone morph offsets, controls, chains, bodies
and joints. Weights count in `1/Unit`, with `None` for a value that is not finite.

### PhysicsAdapter

The host calls `Bind` (one body per step, each rejection a step of its own), then
any of the three operations while its world steps between them. Transforms are
elements of any group of frames with two further maps: `Metres` (units) and
`Keep` (the translation `DynamicWithBone` keeps from the bone). Row-vector products keep
the code's factor order.

### DiagnosticList, PmxReader

A file is its size and globals; what any other byte holds is chosen when it is read. `todo` is
the rest of the program `Run` would still execute: fields of a width, texts, indices into a table, lists
with their counts. A step reads one field or one layout byte, takes one turn of a loop, or checks
one index; every return of a `_Read*` function with a fatal diagnostic is `Fatal`, with
the diagnostics listed until then. Consecutive fields nothing depends on are one `Data` of their total
width, since a file ending in any of them is the same fatal diagnostic. A deform's weights enter only
as whether they are 0. `said`, `claimed` and `raised` are history: the indices as the file has them,
the bytes announced by accepted counts and the diagnostics raised.

### MorphChannels

The walk of `GroupCycles` comes first, because the order of the groups is complete only for
what it leaves. `CountListings` and `OrderGroup` are `Prepare`'s loops, one group per step;
`Sample` is `_Sample`'s morphs of a motion, `Resolve` a consumer that resolves the pose's channels or any
others. Expanding is the recursive function `Expanded`, the groups in their order; rows are refused as a whole with the first morph
that names what the model has not (`Refused`). Weights are integers and ratios too, which exact sums and products need; a UV offset is its `v`
component, whose sign the primary channel turns; a material's row is one value multiplied and one added.

### Cp932, VmdReader, VmdMotion, MotionBinding, MotionSample, MotionImport

A motion file is its size and the counts stored in it; a name field's bytes and a key's frame are chosen
when they are read, once at most. `ReadHeader`, `BeginSection` and the record steps follow `Read`'s return points, each fatal
diagnostic among them. A key's value is its rank in the file, which is what tells two records of one frame apart later.
A byte is a number; a character of two bytes is a pair in `Pairs`, so that a field can end in half of one and a name can be cut in
the middle. `BuildMotion` and `Bind` are functions of the document, since nothing interrupts them: a track is the records of its name,
sorted by frame and place, the last of each frame; a bound track is one whose name matches an element.
`TrackStore` is the abstract specification: one write per key, to the element its name means. `MotionImport` shows, after each
record, that the tracks built and bound from the records so far are that store.

### Identifiers, CanonicalTables, StageAuthor, FileFormat, Import

`FileFormat` is `Read` as threads see it: the caller posts the warnings of the parser, of the canonicalizer and of the author in
three batches, gives the interpreter lock away (if it holds it) while it waits, takes it back, imports the text into a
layer of its own and transfers the content. The worker authors a section at a time; each sends notices, for which a
registered listener takes the lock. Another Python thread may take and give it at any time. A failure is possible at each point at
which the code tests for one. The parser, the canonicalizer and the sections are parameters, so that the theorems hold for any.

`CanonicalTables` and `StageAuthor` give those parameters. Tables become identifiers, face ranges, slots, offsets and
diagnostics; sections author prims, properties, relationships, connections and arrays of indices, in the order of the code.
A document here has parents that form a forest and no group cycle: those repairs are `Canonicalize`'s. Text is a sequence of
characters, one of which may stand for a longer run. Colours, transforms, limits and how values are formatted are left out.

### Quaternions, SkeletonAdapter, MotionAdapter

A rotation is a quaternion of integers up to a scale, in a reduced form, so that products are exact. Rotating a vector is exact
for the rotations that permute the axes, which is where it is used: arms hang along the axes.
`Adapt` is one step per call; a retarget gives the arm joints any rotation of `ArmRotations` (external), and
`CarryArmRoll` carries one twist at a time. The shared core's `NearestPresentAncestor` and `ShortestRotation` are external, modelled from their use.
`BuildClip` is the range checks, the sample times, then one sample per step with the failure of each.
A time is `<<t, e>>`, `e` units of rounding above `t`, which is far below a step: rounding only decides what happens where a
regular time meets the end. The evaluator is the one of the model.
The two share the variables of `SkeletonAdapter` (`phase` to `carried`): a call of either leaves alone what the other owns.

### PackageOutput, MmdExport

`PackageOutput` is the abstract specification: the output path holds what it held or a
whole package, and a run replaces it exactly when it reports success.
`MmdExport` is the tool: one step per texture discovered or staged, one per later
phase of `Run`, the copy beside the output taking time, and `Killed` between any two.
A path is a sequence of segments, a segment a sequence of labels; the appended
extension, the clash tests in both directions, and the replacement of names in
the layer are computed on these. `Paths` are the names there may be, compared as strings are: the loops that
go through a sorted set of names or assets go through its members in that order. A file is its format and its image, so a wrong image
under a right name is visible.

## 3. Runs

| Run | Instance | Shows |
| --- | --- | --- |
| `evaluator` | 3 joints, rotations in S3, 24 rigs, 2 evaluators, 1 slot, 4 public calls | `HeldAsGiven`, `BarrierFrame`, `AppendsSettled`, `EmptyFeedbackIsEvaluate`, `ResumesAreRepeatable`, `CompleteIsEvaluate` |
| `canonicalize` | every parent table of 3 bones over -2..3; every member graph of 3 morphs with up to 2 members each | `ParentsFirst`, `RepairsAreMinimal`, `StableOrder`, `NoGroupCycle`, `OnlyClosersDropped`, `RelationsFollowBones`, `WeightsAreWhole`, `Returns` |
| `physics_adapter` | 3 joints in a chain or a fork, 9 lists of bodies, a group of six frames, 6 snapshots | `BodiesStayWhereSimulated`, `FeedbackIsAccepted`, `BindingMeansTheStage`, `UnmovedFeedsThePose` |
| `pmx_reader` | 3 sets of globals, 27 short files and 17 files each with room for a pair of related tables | `OnlyImpossibleCountsAreRefused`, `AllocationIsBounded`, `IndicesAreResolved`, `MaterialsDrawTheFaces`, `DiagnosticsAreAccounted` |
| `mmd_export` | 2 overlapping runs, 12 layers, 3 directories, one texture replaced at any moment | `OutputIsReplacedWhole`, `NothingLeftBehind`, `NamesLeadToTheirImages` |
| `motion_import` | files of up to three records in any section, short files and impossible counts, 6 bones and 4 morphs whose names collide, fill or overrun a field | `OnlyWholeSectionsAreRead`, `TracksAreStored`, `SamplesFollowTheRecords`, `WhatIsDroppedIsReported` |
| `import` | 108 models, one for each combination of small tables, and three files that fail or warn; every schedule of caller, worker, listener and another thread | `ReadIsAllOrNothing`, `PostedOnce`, `ReferencesResolve`, `FallbacksAreReported`, `ReadReturns` |
| `humanoid_clip` | 8 skeletons of up to 14 bones, 5 rotations of each arm joint, clips of up to 3 samples | `ArmsReachTheTPose`, `HeldAreClosed`, `RollIsCarriedWhole`, `ClipFollowsTheMotion` |
| `morph_channels` | 5 morphs, every graph of three composites with up to 2 members, all types of leaves | `WeightsReachTheLeaves` |
| `ambiguous_drivers` | the physics instance | `AmbiguousDriversReject`: the header's claim that two drivers reject, refuted |
| `failed_binding` | the physics instance | `FailureKeepsDiagnostics`: the claim that failures keep diagnostics, refuted |
| `arm_roll` | the humanoid instance | `TwistBonesKeepTheirPlace`: the claim that twist bones keep their world transforms, refuted |

Why the bounds are enough.

- Three joints are the smallest rig with an append chain of two, an append
  cycle beside a third joint, a chain whose effector, goal and link differ, and a held joint with
  a source and a source's source. S3 is the smallest group in which order matters.
  Four calls allow begin, resume, resume again and an evaluation to compare with (`MaxCalls`).
- Three bones contain every cycle shape up to a cycle of three and a tail into a cycle, and
  every kind of invalid index; the theorems remove the bound for what is proved.
- Three bodies are the smallest number in which a driver is replaced twice or
  another joint's body lies in between; one list has three drivers of one joint.
- The reader's records depend on each other only through indices and the order of tables, so
  each file has room for one or two tables with records (`most`, one or two records each, up to three joints
  and face indices) and a few spare bytes, so that it also ends inside them. Each index takes values below -1, none, the first
  element and one past the last; each count one record more than fits. The globals use every index width, both versions,
  an additional vec4 and an unknown global. Bone flags are tried one by one and in the combinations of `MCBoneFlags`, and
  a list in a record holds three at most (`MaxRecords`). The diagnostic limit is 1 instead of 16.
- Two runs suffice for interference because runs share only the output path and the
  textures; the theorems hold for any set of runs. One texture change (`MaxChanges`) can
  fall between any two steps, in particular between classification and copy.

- A motion of three records has two of one frame with one of another between or around them, for one name or for two that
  mean the same element. Name fields are 2 bytes (bones and morphs) and 3 (IK) instead of 15 and 20: a two-byte character then fits, is
  cut, or stands between others. The counts in `MCFiles` bound the keys of a file; the diagnostic limit is 1.
- The models of `import` hold the smallest tables that need every fallback at once: three names that collide, also with a name
  made for another; a name of more than `Cap` (8) characters, and identifiers such that the third material finds its
  first choice, its index after it, its fallback and the first number after that all taken; bones not in parent order; offsets, bodies and joints out of range; faces that no material
  draws. Eight sections, of which one listener can hold up each; tables are independent enough that products of them suffice.
- The skeletons of `humanoid_clip` are the usual one and seven that each break a rule: upper bodies in two lines, a twist bone that
  is not above the hand, a joint between arm and twist on and off the line, arms chained backwards, a zero-length bone, no bones. Clips of up to
  `MaxSamples` (2) steps have a first, a middle and a last sample; rounding goes two units either way with a `Tolerance` of one.
- Three composites contain a group of groups of groups, one listed twice by one or by two, and every cycle up to three; two leaves
  are a morph of each type beside a bone morph.

Runs stop when their calls are used up or every run has ended, so deadlock is not checked
in these instances.

Fairness: only `Returns` and `ReadReturns` need any. `Returns` assumes weak fairness of `CanonNext`, which is that
the single-threaded call keeps executing; nothing is assumed about which branch is taken. `ReadReturns` assumes
that a thread that can go on does, and one that waits for the interpreter lock gets it if it is free again and again (strong fairness
of `Caller` and of `Worker`): a free lock is taken by others infinitely often, and the operating system's lock wakes a
waiter in between. It also assumes that Python makes another thread give the lock up (weak fairness of
`OtherGives`), which its forced switching does. Nothing is assumed of what a listener is or when others take the lock. All
other properties are safety and hold without fairness.

## 4. What the properties mean

`HeldAsGiven`: `Complete` lets a caller hold joints, and chains or appends must not
see, at any moment of the pass, anything but the transform given for them.
`BarrierFrame`: after `ResumePhysics` a pre-physics joint is what physics fed, or what the host was
shown before. `AppendsSettled` compares each append with its source's final total, for
sources earlier in the order. `CompleteIsEvaluate`, `EmptyFeedbackIsEvaluate` and `ResumesAreRepeatable`
relate whole calls.

`RepairsAreMinimal`: a parent is dropped exactly if it is invalid or closes a cycle, one per cycle.
`StableOrder`: among all orders with parents first the code emits the one that always takes
the lowest available source index. `RelationsFollowBones` translates the
indices that were renumbered (parents, tails, append sources, effectors and links of chains, bodies, bone morph
offsets) back through the order and compares each with the bone the file named. `WeightsAreWhole`: the influences of every vertex name joints, add up to one within the tolerance, and exist.

`BodiesStayWhereSimulated`: composing the fed local transforms down the skeleton puts each
dynamic body where the snapshot had it, through joints no body drives.
`BindingMeansTheStage`: `Bind` puts every body of the rest pose on the frame authored for it, in
metres, and of several bodies of one joint exactly the last drives.
`UnmovedFeedsThePose`: a world that did not move feeds back the pose itself.

`OnlyImpossibleCountsAreRefused`: the smallest size each table counts with is the smallest its
layout allows, for all globals. `AllocationIsBounded`: accepted counts, those inside records included, claim at most
twice the file, and the cursor stays within it. `IndicesAreResolved` compares the document with the file after the last check.
`MaterialsDrawTheFaces`: a material's range starts where the last one ended and nothing is lost silently.
`DiagnosticsAreAccounted`: the list returned and its summaries add up to what was raised, per code and table,
after a failure too.

`NamesLeadToTheirImages`: following any name of the packaged layer gives the image
that name's texture held at some time, although names were appended to, or numbered
into names other textures were authored under. While
no texture is replaced the file is also of the format its extension says: a texture replaced between its classification and its copy is stored under the extension its
former bytes earned, and for that case only the image is guaranteed.

`OnlyWholeSectionsAreRead`: a file may end after any section, and a section is read whole or the read fails. `TracksAreStored` is the
refinement of `TrackStore`: whatever the order of records, names and sections, the last record of a frame stands, at the
element with the lowest source index whose name gives the field's bytes. `SamplesFollowTheRecords` compares a sampled value with the records
nearest in the file. `WhatIsDroppedIsReported` counts names that mean nothing or several elements and frames written twice, and compares with the diagnostics.

`ReadIsAllOrNothing`: a failure at any point leaves the layer alone, success leaves the whole stage and every diagnostic.
`PostedOnce`: the three batches post each warning once and in order. `ReferencesResolve`: following any relationship,
connection or array of indices on the stage leads to the element whose index the file holds, in the file's own numbering.
`FallbacksAreReported`: what stands on the stage in another form than in the file is recorded, as often as it differs, and nothing else is.
`ReadReturns`: no schedule of caller, worker, listener and other threads leaves `Read` waiting for ever.

`ArmsReachTheTPose`: both rests, composed down their own hierarchies, put each arm along its T-pose direction.
`HeldAreClosed`: the joints handed to `Complete` contain all that roles and twists name, with their ancestors, and all the arm
roll changes. `RollIsCarriedWhole`: the arm keeps the swing alone and every joint outside the limb's own stretch its world transform.
`ClipFollowsTheMotion`: first and last sample are at the range's ends, samples ascend by at most a step, and the rotations compose to the evaluated world rotations.
`WeightsReachTheLeaves`: bone morphs and resolved channels weigh what all paths through the groups add up to, and each leaf
reached has its channel, its vertices and its materials, at weight 0 too.

## 5. Proofs

| Theorem | Statement |
| --- | --- |
| `EvaluatorProofs!TypeCorrect` | `Spec => []TypeOK` |
| `EvaluatorProofs!HeldStayAsGiven` | `Spec => []HeldAsGiven` |
| `EvaluatorProofs!BarrierIsAFrame` | `Spec => []BarrierFrame` |
| `EvaluatorProofs!AppendsAreSettled` | `Spec => []AppendsSettled` |
| `EvaluatorProofs!EmptyFeedbackAgrees`, `ResumesRepeat`, `CompletionAgrees` | the three agreements between calls: `EmptyFeedbackIsEvaluate`, `ResumesAreRepeatable`, `CompleteIsEvaluate` |
| `EvaluatorProofs!HeldIsClosed` | of the skeleton adapter: `AdapterSpec => []HeldAreClosed` |
| `EvaluatorProofs!ClipIsTheMotion` | of the motion adapter: `AdapterSpec => []ClipFollowsTheMotion` |
| `CanonicalizeProofs!OrderTypeCorrect`, `ParentsComeFirst` | of `JointOrder`: `Spec => []TypeOK`, `Spec => []ParentsFirst` |
| `CanonicalizeProofs!OnlyBadParentsAreCut` | of `JointOrder`: `Spec => []RepairsAreMinimal` |
| `CanonicalizeProofs!OrderIsStable` | of `JointOrder`: `Spec => []StableOrder` |
| `CanonicalizeProofs!NoCycleSurvives`, `OnlyClosersAreDropped` | of `GroupCycles`: no cycle of members is left, and only members that closed one were dropped |
| `CanonicalizeProofs!SkeletonIsOrderJoints`, `MorphsBreakCycles` | the composed specification implements each of its two parts |
| `CanonicalizeProofs!CanonicalOrder` | `CanonSpec => []ParentsFirst` |
| `CanonicalizeProofs!CanonicalRelations` | `CanonSpec => []RelationsFollowBones` |
| `CanonicalizeProofs!VerticesAreBound` | `CanonSpec => []WeightsAreWhole` |
| `CanonicalizeProofs!MorphsAreFreed` | of `MorphChannels`: `MorphSpec => GroupSpec`, the walk comes first and is not disturbed |
| `CanonicalizeProofs!WeightsReach` | of `MorphChannels`: `MorphSpec => []WeightsReachTheLeaves` |
| `PhysicsAdapterProofs!CouplingTypeCorrect`, `BodiesStay`, `FeedbackAccepted` | the adapter's three central invariants |
| `PhysicsAdapterProofs!BindingIsTheStage` | `Spec => []BindingMeansTheStage` |
| `PhysicsAdapterProofs!UnmovedIsThePose` | `Spec => []UnmovedFeedsThePose` |
| `PmxReaderProofs!IndicesResolved` | `Spec => []IndicesAreResolved` |
| `PmxReaderProofs!FacesAreDrawn` | `Spec => []MaterialsDrawTheFaces` |
| `PmxReaderProofs!CountsAreRefusedRightly` | `Spec => []OnlyImpossibleCountsAreRefused` |
| `PmxReaderProofs!AllocationBounded` | `Spec => []AllocationIsBounded` |
| `PmxReaderProofs!DiagnosticsAccounted` | `Spec => []DiagnosticsAreAccounted` |
| `FileFormatProofs!AllOrNothing` | `Spec => []ReadIsAllOrNothing` |
| `FileFormatProofs!NeverWaitsWithTheLock` | `Spec => []LockIsHandedBack`: the caller never waits with the lock, and returns with it as entered |
| `FileFormatProofs!EachIsPostedOnce` | `Spec => []PostedOnce` |
| `MmdExportProofs!OutputIsWhole` | `Spec => PackageOutput!Spec` under the mapping in `MmdExport` |
| `MmdExportProofs!NothingIsLeftBehind` | `Spec => []NothingLeftBehind` |
| `MmdExportProofs!NamesLead` | `Spec => []NamesLeadToTheirImages` |
| `MotionImportProofs!RecordsAreWrites` | `ImportSpec => TrackStore!Spec` under the mapping in `MotionImport` |
| `MotionImportProofs!SamplesAreTheRecords` | `ImportSpec => []SamplesFollowTheRecords` |
| `MotionImportProofs!WholeSections` | `ImportSpec => []OnlyWholeSectionsAreRead` |
| `MotionImportProofs!DroppedKeysAreReported` | `ImportSpec => []WhatIsDroppedIsReported` |

Assumptions are the `ASSUME`s of each module: constants range over what the code's
types give (indices are integers, tables functions of them, counts and bytes naturals), rotations and frames are
groups, parents of a bound skeleton precede their children (checked by UsdSkel before
`Bind`), bounds are naturals. Group axioms stand for exact
arithmetic: floating-point rounding is outside the models. Those that say more than a type:

- `Evaluator`: joints are numbered from 0 without gaps, in the order the walk of `Complete` takes them
  (`IndicesAssumption`).
- `PhysicsAdapter`: a frame that keeps its own translation is itself, and keeping one translation twice is keeping it once
  (`FramesAreAGroup`).
- `MmdExport`: comparing names orders them all (`PathsAssumption`), and names that are numbered differ if their numbers do (`StoredAssumption`).
- `FileFormat`: a list of diagnostics is posted one after the other (`PostedAssumption`).
- `PmxReader`: the shortest bone record, the one with a tail index, is among those a file may hold (`BoneFlagsAssumption`).
- `SkeletonAdapter`: the vocabulary has the roles the code names, and no roles are below each other (`RolesAssumption`,
  `HierarchyAssumption`). `MotionAdapter`: the evaluator is the model's own, so each frame has a quaternion for every joint
  (`EvaluationsAssumption`); it may be 0, which fails the clip.
- `MotionBinding`: the source indices of elements differ (`ElementsAssumption`); `VmdReader`: a file states as many counts of states as
  IK records (`FilesAssumption`), and a field of width `w` has `w` bytes.

Arguments. Each invariant named here is inductive; `TLC` checked it, or the property it carries, on the run of its module.

- Evaluator: `TypeOK` needs that ratios keep rotations rotations and that a call's arguments
  come from the constants (`TypeInv`). `HeldAsGiven` is not inductive alone: a chain later
  in the pass could turn a held joint or a source of its append. `HeldInv` adds that
  enabled chains stay clear of the held joints and of their `Feeders`, that neither append
  nor IK of a held joint was touched, and that its motion is the given one. That the walks mark these feeders is by induction over the walks: what earlier walks marked is
  closed, so a walk that stops there misses nothing, and the least closed set for one joint more is what it adds. `FrameInv` for
  the barrier says the same of the joints the pass does not visit, relative to the continuation.
  `AppendInv` says that the joints visited come before all those to visit, and that what they took of a source whose total
  can no longer change is that total. For the agreements, `Leads` relates two points of a pass (joints to visit, state) whenever
  every set closed under single visits that has the first has the second; a visit is a function of rig and state, so a pass has one
  end. `RunInv` says where the running pass can have come from, and the same of every snapshot and every logged pose; two calls with
  one start then have one result. A snapshot splits `Evaluate`'s pass in two because joints before the barrier are visited first.
- JointOrder: `OrderInv` relates the walk's states to the table under repair (settled bones
  reach a root in a ranking by walk position) and the queue to the
  order (a bone is released exactly when its parent is emitted); parents first
  follows, and that the order ends with all bones, because a set of bones never released would contain its parents.
  `RepairInv` compares the table under repair with the source: settled bones are repaired, the others as they were, and what a settled
  bone leads to is settled. That exactly one bone of each cycle is cut, the lowest, follows from the walk starting at bones in ascending
  order and from `Above` being the least set closed under parents. `StableInv`: of the bones a bone still waits for, one is ready, so what
  was emitted instead is no higher than it.
- GroupCycles: `GroupInv` says that finished morphs lead only to finished morphs through members
  kept so far, by a ranking in the order of finishing; a set of morphs each with a member in
  the set would have a first-finished element whose member finished before it. `ClosingInv` says that the walk is a chain of members and
  that what was dropped leads back to its owner through members passed since, which stay passed.
- Canonicalize: `CanonInv` says which of the derived tables stand in each phase, each as a function of the skeleton, which no later phase
  touches. With `OrderInv`, renumbering is a bijection, so a renumbered index names the bone the source named. For the weights, the sum of the
  influences is followed through clamping, filtering and normalising by the lemmas on `Total`.
- MorphChannels: `MorphInv` says that each group stands in the order behind all that list it, and that a group not yet ordered is counted once
  for each listing by a group that waits too. The walk left no cycle, so some waiting group is listed by none that waits
  (`SomeIsUnlisted`), and when none is ready none waits. Then pushing the weights down the order is done with a group before its members
  need it: the expanded weights satisfy the equations that define `Totals` (`GroupsExpand`, with the sums kept by every push,
  `PushKeepsSums`). These have one solution, because a group's weight depends on earlier groups only (`SolutionsAgree`), and what a
  push reaches is in every closed set and ends closed (`PushKeepsReached`). Leaving the bone morphs out of the channels changes no other weight, because
  nothing is below them.
- PhysicsAdapter: `CouplingInv` fixes, during the walk down the skeleton, the world
  transform of every joint passed and that the feedback so far rebuilds it. That an unmoved world feeds back the pose needs that a pose has
  one family of world transforms, by the least joint at which two would differ. `BindInv` holds the worlds of the rest pose and the bodies bound so
  far to the stage, and from the end of `Bind` on all of them, whatever calls follow.
- PmxReader: `IndexInv` says that nothing is checked while tables are read, and that afterwards the
  indices up to `checked` are what they mean in the final tables and the rest are as in the file. That the indices
  have tables to point into needs `todo` to hold well-formed fields, hence a lemma per record layout.
  `CursorInv` adds that the cursor is in the file and that a refused count could not be honoured; each layout's least size is computed in
  the proof. `ClaimInv` is why twice the file is enough although counts nest: what is claimed splits into what tables and what lists in
  records claimed, the first at most what was read and what records still to read must hold, the second at most what was read and what the list at
  hand still must hold. `DrawInv` keeps the faces drawn a multiple of three below the faces there are, and ties the one diagnostic about
  them to the end of the materials. `DiagInv`: the list is the history cut at the limit, and tallies count it.
- FileFormat: `InStep` says which states of the worker go with which of the caller, who can hold the lock in each, and that
  a read result comes from an authored stage; `WorkerIsWhole` that a worker that is done and successful went through all sections
  and recorded the diagnostics as they stand. Neither needs fairness: with `LockIsHandedBack` no wait can hold what the worker needs.
  `PostInv` says, at each place of the caller and of the worker, which diagnostics exist and which of them have been posted.
- MmdExport: `ExportInv` fixes for each step of a run what exists: a partial file only while moving and
  belonging to that run, an archive only after packaging, closed once validated, an error only in a run that will report it.
  `Whole` then holds of the partial file at the rename, and every other step stutters or stops a run. `NamesInv` follows a name
  through the phases: while discovering, each name is to visit, planned once or an error; then every name has an asset and
  assets keep apart; while converting, each asset is to visit or staged with an image its texture held. That a texture held it survives what other runs
  and the user change, because the files seen only become more (`Later`).
- Motion: `Reading` says what the document's records look like, and `StepShape` that a step adds one key to the list of one kind, or none.
  The store of a list of keys (`KindStore`) is what its lasting keys write, those no later key of their name and frame replaces; sorting,
  deduplicating, grouping by name and binding leave exactly these (`OnePerFrame`, `TracksAre`, `BoundIs`), and one key more replaces
  what stood at its element and frame (`StoreOfMore`). Two names do not match one element, because a name matches an element when
  it is what a field holds of that element's. For samples, `RankedIn` adds that keys are numbered in file order, so that the last one of a frame is the
  one with the greatest value; `SampleIs` says which two keys `UpperBound` chooses. For whole sections, `WholeInv` holds the cursor to
  where the records still pending lead: the end of the section begun, which the file reaches unless a later read fails.
  For what is reported, `Tells` says what a list and its tallies say of one code and table after so many additions: recorded up to the limit, and
  counted beyond it, so that what is taken speaks of all of them (`AddedAllTells`). The tracks of a kind are one per name, so a report per track is
  one per name (`TracksCount`); a track loses records exactly if two keys of its name are of one frame (`LostIff`, by counting the records that
  stay).
- Skeleton adapter: `BodyInv` says that what `Adapt` made stands and that the pose is what the retarget left, but for held joints. The
  walk of `Hold` may stop at the first held joint because what is held is closed under parents at every walk (`HoldAddsTheLine`); both joints of a
  twist are on lines that are held.
- Motion adapter: `ClipInv` says that the times span the range and that each sample so far is that of a frame without fault. For the times,
  all regular ones before the end are kept, so that only the last can be short of the end, on it or, by rounding, beyond it (`RegularTimesAre`).
  For the rotations, a reduced quaternion is the only one of its multiples (`CanonicalIsOne`; its common divisor is the least positive
  combination of its parts), and a product with a multiple is a multiple of the product, so that a rotation relative to another one, composed with that one,
  is the rotation again (`ComposedAgain`). That the climb to the nearest present role ends and the composition exists
  needs only that no roles are below each other (`DownTheHierarchy`).

Only model-checked: `Returns` and `ReadReturns` (liveness is beyond the prover), `ReferencesResolve`, `FallbacksAreReported`,
`ArmsReachTheTPose`, `RollIsCarriedWhole`. Induction over data is done in
`Induction`, with sets of numbers where the library's theorems take operators, for recursive functions: selecting, sums,
concatenation, and sorting as a choice. What the folds of the community modules return, which `StageAuthor` and `CanonicalTables`
are built from, is an induction over data of an operator. `ArmsReachTheTPose` and `RollIsCarriedWhole` hold where rotating a vector is exact,
for the rotations and skeletons of the instance, and not for every integer quaternion.

## 6. Findings

- `ambiguous_drivers`: `Adapter.h:29` says that several simulated bodies of one joint "reject as
  ambiguous"; `Bind` reports the earlier one and lets the latest drive (`Adapter.cpp:242`).
- `failed_binding`: `Result.h:17` says a failure keeps the recoverable diagnostics raised before
  it; `Bind` drops them (`Adapter.cpp:24`).
- `arm_roll`: `Adapter.h:64` of the skeleton adapter says that carrying the roll leaves "the twist bone and every joint below" their world
  transforms; where a joint off the bone's line lies between the arm and its twist bone, `CarryArmRoll` does not turn that joint's offset, and the twist bone moves (`Adapter.cpp:492`).

## 7. What could follow

- Two rigs in `Evaluator`, so that a foreign continuation would be visibly wrong and not only refused.
- Index widths per table in `PmxReader`'s values, where the same bytes mean none in one and an element in another.
- Theorems: `ReferencesResolve` for one table at a time, with the folds of `StageAuthor` as recursive functions.

## 8. Not modelled

- Physics admission helpers: stateless reads of one prim, each a conjunction of presence and finiteness checks.
- The imaging adapter: a stateless projection of attributes to Hydra data. What is called when, and what reads
  the result, is Hydra's.
- Inspection tools (printing), the schema plugin (generated), scripts and CI (build tooling).
- `Basis.cpp` (a change of axes by fixed signs), the numerics of CCD, the CP932 tables themselves, pixels and the checks inside
  OpenUSD's validators, floating-point rounding except where a sample time meets the end of a clip, texts of diagnostics, a sample's
  metadata, the translations of a source rest.
- Random file names are taken to be distinct and removals of private files to succeed.
