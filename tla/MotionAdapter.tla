---------------------------- MODULE MotionAdapter ----------------------------
(***************************************************************************)
(* libs/mmdMotionAdapter: the shared clip of a motion, sampled from the     *)
(* evaluator over a time range.  A time is <<t, e>>: t exact, and e units   *)
(* of rounding above it, which t and a sample's step dwarf.                 *)
(***************************************************************************)
EXTENDS SkeletonAdapter

CONSTANTS
  ClipRanges,    \* ranges: [finite, start, end, step], step the time per sample
  MaxSamples,    \* samples a clip may have
  Required,      \* RequiredJoints, in order
  Evaluations,   \* what one frame may evaluate to: [world, root, channels, visible]
  Morphs,        \* the model's morph names, by index from 1
  Errors,        \* rounding errors of a regular sample's time
  Tolerance      \* errors below the end that SampleTimes takes for the end

ASSUME ClipsAssumption ==
  /\ \A o \in ClipRanges : {o.start, o.end, o.step} \subseteq Int
  /\ Errors \subseteq Int /\ Tolerance \in Nat

\* The evaluator is the model's own, so it gives every joint a rotation.
ASSUME EvaluationsAssumption ==
  \A e \in Evaluations, s \in Skeletons : \A j \in DOMAIN s : e.world[j] \in [1..4 -> Int]

VARIABLES
  range,        \* ClipOptions
  times,        \* SampleTimes
  samples,      \* MotionClip.samples
  diagnostics,  \* of the result
  evaluated     \* history: the evaluation of each sample begun

clipVars == <<range, times, samples, diagnostics, evaluated>>
adapterVars == <<phase, bodyVars, clipVars>>

NoRange == [finite |-> FALSE, start |-> 0, end |-> 0, step |-> 0]

-----------------------------------------------------------------------------
(* The range                                                                *)

IsRange(o) == o.finite /\ o.step > 0 /\ o.start <= o.end
FitsSamples(o) == o.end - o.start <= MaxSamples * o.step

At(t) == <<t, 0>>
Earlier(a, b) == a[1] < b[1] \/ (a[1] = b[1] /\ a[2] < b[2])

\* floor(duration / step): one too few where the quotient is rounded down.
RegularCounts(o) ==
  LET exact == (o.end - o.start) \div o.step
  IN  {exact} \cup (IF (o.end - o.start) % o.step = 0 THEN {exact - 1} ELSE {})

\* Samples at the regular times up to the end: a rounding error decides whether
\* one that should be the end is past it.
RegularTimes(o, regular, error) ==
  LET Time(i) == LET t == o.start + i * o.step IN <<t, IF t = o.end THEN error ELSE 0>>
      all == [k \in 1..regular + 1 |-> Time(k - 1)]
  IN  Selected(all, {time \in Range(all) : ~Earlier(At(o.end), time)})

\* Faulty variant of SampleTimes: a last sample as good as at the end is left.
UnsnappedTimes(o, regular, error) ==
  LET kept == RegularTimes(o, regular, error)
  IN  IF o.start = o.end THEN <<At(o.start)>>
      ELSE IF Earlier(Last(kept), <<o.end, -Tolerance>>) THEN Append(kept, At(o.end)) ELSE kept

\* The last sample is the end: the last regular one is moved there where it is
\* within the tolerance, and else one is added.
SampleTimes(o, regular, error) ==
  LET kept == RegularTimes(o, regular, error)
  IN  IF o.start = o.end THEN <<At(o.start)>>
      ELSE IF Earlier(Last(kept), <<o.end, -Tolerance>>) THEN Append(kept, At(o.end))
      ELSE [kept EXCEPT ![Len(kept)] = At(o.end)]

-----------------------------------------------------------------------------
(* BuildClip                                                                *)

\* The two early returns for a range no clip is built of.
RefuseRange ==
  /\ phase = "adapted" /\ phase' = "refused"
  /\ \E o \in ClipRanges :
       /\ ~IsRange(o) \/ ~FitsSamples(o)
       /\ range' = o
  /\ diagnostics' = <<<<"MotionInvalidSampleRange">>>>
  /\ UNCHANGED <<bodyVars, times, samples, evaluated>>

BeginClip ==
  /\ phase = "adapted" /\ phase' = "clipping"
  /\ \E o \in ClipRanges :
       /\ IsRange(o) /\ FitsSamples(o)
       /\ range' = o
       /\ \E regular \in RegularCounts(o), error \in Errors :
            times' = SampleTimes(o, regular, error)
  /\ LET missing == SelectSeq(Required, LAMBDA r : adapted.source[r] = Unmapped)
     IN  diagnostics' = [i \in DOMAIN missing |-> <<"MotionMissingRequiredJoint", missing[i]>>]
  /\ UNCHANGED <<bodyVars, samples, evaluated>>

SourcePresent == Present(adapted.source)
WorldOf(e, role) == e.world[adapted.source[role]]

\* What cannot be a finite sample, in the order of the sample's fields: a role
\* fails by its own rotation or by that of the ancestor it is relative to.
Faults(e) ==
  LET Unusable(r) == r # NoRole /\ ~IsUsableRotation(WorldOf(e, r))
      Ancestor(r) == NearestPresentAncestor(r, SourcePresent)
      failing == Selected(Roles, {r \in SourcePresent : Unusable(r) \/ Unusable(Ancestor(r))})
      blame == [i \in DOMAIN failing |-> IF Unusable(failing[i]) THEN failing[i] ELSE Ancestor(failing[i])]
      unbounded == \E i \in DOMAIN e.channels :
                     e.channels[i].morph \in DOMAIN Morphs /\ ~e.channels[i].finite
  IN  blame \o (IF "hips" \in SourcePresent /\ ~e.root THEN <<"root.position">> ELSE <<>>)
            \o (IF unbounded THEN <<"channels">> ELSE <<>>)

\* Faulty variant of LocalRotation: relative to the role above, present or not.
RotationBelowParent(e, role) ==
  LET parent == ParentRole[role]
  IN  IF parent \notin SourcePresent THEN Reduced(WorldOf(e, role))
      ELSE Undone(WorldOf(e, parent), WorldOf(e, role))

\* A role's rotation relative to its nearest present ancestor's.
LocalRotation(e, role) ==
  LET parent == NearestPresentAncestor(role, SourcePresent)
  IN  IF parent = NoRole THEN Reduced(WorldOf(e, role))
      ELSE Undone(WorldOf(e, parent), WorldOf(e, role))

\* The channels by name: a later morph of a name takes the channel.
Channels(e) ==
  LET known == SelectSeq(e.channels, LAMBDA c : c.morph \in DOMAIN Morphs)
      Set(set, c) == [n \in DOMAIN set \cup {Morphs[c.morph]} |->
                        IF n = Morphs[c.morph] THEN c.weight ELSE set[n]]
  IN  FoldLeft(Set, <<>>, known)

Sample(time, e) ==
  [timestamp |-> time,
   local |-> [r \in SourcePresent |-> LocalRotation(e, r)],
   root |-> IF "hips" \in SourcePresent THEN Reduced(WorldOf(e, "hips")) ELSE Origin,
   channels |-> Channels(e), visible |-> e.visible]

\* One sample: what cannot be represented fails the clip, with the diagnostics
\* it had.
BuildSample ==
  /\ phase = "clipping" /\ Len(samples) < Len(times)
  /\ \E e \in Evaluations :
       /\ evaluated' = Append(evaluated, e)
       /\ IF Faults(e) = <<>>
          THEN /\ samples' = Append(samples, Sample(times[Len(samples) + 1], e))
               /\ UNCHANGED <<phase, diagnostics>>
          ELSE /\ phase' = "failed" /\ UNCHANGED samples
               /\ diagnostics' = Append(diagnostics,
                                   <<"MotionNonFiniteSample", Len(samples), Faults(e)[1]>>)
  /\ UNCHANGED <<bodyVars, range, times>>

FinishClip ==
  /\ phase = "clipping" /\ Len(samples) = Len(times) /\ phase' = "clipped"
  /\ UNCHANGED <<bodyVars, clipVars>>

ClipInit ==
  /\ range = NoRange /\ times = <<>> /\ samples = <<>> /\ diagnostics = <<>> /\ evaluated = <<>>
ClipNext == RefuseRange \/ BeginClip \/ BuildSample \/ FinishClip

AdapterInit == SkeletonInit /\ ClipInit
AdapterNext == (SkeletonNext /\ UNCHANGED clipVars) \/ ClipNext
AdapterSpec == AdapterInit /\ [][AdapterNext]_adapterVars

-----------------------------------------------------------------------------
(* Properties *)

\* A clip begins and ends exactly where its range does, whatever was rounded;
\* its samples ascend, none more than a step after another.  Down the hierarchy of
\* the roles the skeleton has, each sample's rotations compose to the world
\* rotations that were evaluated, although the roles in between are missing.
ClipFollowsTheMotion ==
  phase = "clipped" =>
    /\ samples[1].timestamp = At(range.start) /\ Last(samples).timestamp = At(range.end)
    /\ \A k \in 1..Len(samples) - 1 :
         LET a == samples[k].timestamp
             b == samples[k + 1].timestamp
         IN  Earlier(a, b) /\ ~Earlier(<<a[1] + range.step, a[2]>>, b)
    /\ \A k \in DOMAIN samples :
         LET Composed[r \in HumanRoles \cup {NoRole}] ==
               IF r = NoRole THEN Identity
               ELSE LET above == Composed[ParentRole[r]]
                    IN  IF r \in SourcePresent THEN Times(above, samples[k].local[r]) ELSE above
         IN  \A r \in SourcePresent : Composed[r] = Reduced(WorldOf(evaluated[k], r))
=============================================================================
