------------------------------ MODULE Evaluator ------------------------------
(***************************************************************************)
(* The control-rig evaluator of libs/mmdControl: Prepare, Evaluate, the    *)
(* split evaluation BeginPhysics / ResumePhysics around a host's physics   *)
(* step, and Complete over a pose another solver produced.                 *)
(*                                                                         *)
(* A joint's local transform is a translation (an integer: one axis is     *)
(* enough for sums and differences) and a rotation (an element of any      *)
(* group Rot: unit quaternions compose, invert and scale, and the order of *)
(* a product matters).  The CCD solver is abstracted to a deterministic    *)
(* choice per link, Aims, from the pose and the motion rotations.  Keys,    *)
(* morphs and IK enables reach the evaluator as one sampled Motion.        *)
(***************************************************************************)
EXTENDS Integers, FiniteSets, Sequences

CONSTANTS
  Joints,          \* canonical joint indices
  Models,          \* the slices of a CanonicalDocument that Prepare reads
  Motions,         \* what _Sample finds at a frame
  Feedbacks,       \* lists of PhysicsFeedback a host may pass
  Givens,          \* poses another solver hands to Complete
  Evaluators,      \* prepared evaluators; copies share an identity
  Slots,           \* where the host keeps continuations
  None,            \* kNone, an empty continuation
  Rot, Id, Mul(_, _), Inv(_), Pow(_, _),  \* unit quaternions; Pow is ScaleRotation
  Aims(_, _, _, _, _),                    \* Aims(goal, link, pose, motion, q): CCD leaves q on link
  MaxCalls         \* bound: public calls per behaviour

ASSUME JointsAssumption == Joints \subseteq Nat /\ IsFiniteSet(Joints) /\ None \notin Joints
ASSUME IndicesAssumption == Joints = 0..(Cardinality(Joints) - 1)

ASSUME RotationsAreAGroup ==
  /\ Id \in Rot
  /\ \A p \in Rot : /\ Inv(p) \in Rot
                    /\ Mul(Id, p) = p /\ Mul(p, Id) = p
                    /\ Mul(p, Inv(p)) = Id /\ Mul(Inv(p), p) = Id
  /\ \A p, q \in Rot : Mul(p, q) \in Rot
  /\ \A p, q, r \in Rot : Mul(Mul(p, q), r) = Mul(p, Mul(q, r))

ASSUME ModelsAssumption ==
  \A m \in Models :
    /\ m.rest \in [Joints -> Int]
    /\ m.after \in [Joints -> BOOLEAN]
    /\ m.layer \in [Joints -> Int]
    /\ m.index \in [Joints -> Int]
    /\ m.ratio \in [Joints -> Int]
    /\ m.appendsR \in [Joints -> BOOLEAN]
    /\ m.appendsT \in [Joints -> BOOLEAN]
    /\ DOMAIN m.append = Joints
    /\ \A c \in DOMAIN m.chains : m.chains[c].loops \in Int
    /\ \A j \in Joints : \A p \in Rot : Pow(p, m.ratio[j]) \in Rot

ASSUME MotionsAssumption ==
  \A m \in Motions : /\ m.a \in [Joints -> Int]
                     /\ m.rho \in [Joints -> Rot]
                     /\ m.enabled \subseteq Joints

ASSUME FeedbacksAssumption ==
  \A f \in Feedbacks : \A i \in DOMAIN f : f[i].t \in Int /\ f[i].r \in Rot

ASSUME GivensAssumption ==
  \A g \in Givens : /\ g.reached \subseteq Joints
                    /\ g.t \in [Joints -> Int]
                    /\ g.r \in [Joints -> Rot]

ASSUME MaxCallsAssumption == MaxCalls \in Nat

NoChain == [effector |-> None, links |-> {}, iterations |-> 0]
MaxIkIterations == 256
Clamp(x, lo, hi) == IF x < lo THEN lo ELSE IF x > hi THEN hi ELSE x

VARIABLES
  rig,      \* what Prepare made of the model
  pc,       \* "idle", or "pass" inside a public call
  call,     \* the running (or last) call and its arguments
  todo,     \* joints the pass has still to visit
  enabled,  \* goals whose chain this call solves
  st,       \* Evaluator::State of the call
  slots,    \* the host's continuations
  log,      \* poses returned by finished calls that hold no joint
  calls     \* public calls made

vars == <<rig, pc, call, todo, enabled, st, slots, log, calls>>

-----------------------------------------------------------------------------
(* Prepare *)

\* The chain of IK bone j: the first listed one whose goal and effector name
\* joints; later ones of the same goal are dropped, and so are invalid links.
ChainOf(m, j) ==
  LET usable == {c \in DOMAIN m.chains : m.chains[c].goal = j /\ m.chains[c].effector \in Joints}
      first == {c \in usable : \A l \in usable : c <= l}
      chain == m.chains[CHOOSE c \in first : TRUE]
  IN  IF first = {} THEN NoChain
      ELSE [effector |-> chain.effector, links |-> chain.links \cap Joints,
            iterations |-> Clamp(chain.loops, 0, MaxIkIterations)]

\* The source joint j appends from; an append of nothing is no append.
SourceOf(m, j) ==
  IF m.append[j] \in Joints /\ (m.appendsR[j] \/ m.appendsT[j]) THEN m.append[j] ELSE None

Prepare(m) ==
  [rest |-> m.rest, after |-> m.after, layer |-> m.layer, index |-> m.index,
   ratio |-> m.ratio, appendsR |-> m.appendsR, appendsT |-> m.appendsT,
   source |-> [j \in Joints |-> SourceOf(m, j)],
   chain  |-> [j \in Joints |-> ChainOf(m, j)]]

\* MMD's evaluation order: (after-physics flag, layer, source index, joint).
Before(r, i, j) ==
  LET key(x) == <<IF r.after[x] THEN 1 ELSE 0, r.layer[x], r.index[x], x>>
  IN  \E k \in 1..4 : /\ key(i)[k] < key(j)[k]
                      /\ \A l \in 1..(k - 1) : key(i)[l] = key(j)[l]

\* The pass visits the joints of a set in that order.
IsNext(j) == j \in todo /\ \A i \in todo \ {j} : Before(rig, j, i)

-----------------------------------------------------------------------------
(* Evaluator::State *)

Zero == [j \in Joints |-> 0]
Still == [j \in Joints |-> Id]

LocalOf(r, s, j) ==
  [t |-> r.rest[j] + s.a[j] + s.appT[j], r |-> Mul(Mul(s.ik[j], s.rho[j]), s.appR[j])]

PoseOf(r, s) == [j \in Joints |-> LocalOf(r, s, j)]

\* A state that holds only a motion: no IK and no append.
MotionState(a, rho) == [a |-> a, rho |-> rho, ik |-> Still, appT |-> Zero, appR |-> Still]

\* Faulty variant of AppendR: the source's own append is not taken along.
AppendRUnchained(s, src, ratio) == Pow(Mul(s.ik[src], s.rho[src]), ratio)

AppendR(s, src, ratio) == Pow(Mul(Mul(s.ik[src], s.rho[src]), s.appR[src]), ratio)
AppendT(s, src, ratio) == ratio * (s.a[src] + s.appT[src])

\* Joint j's append, taken from its source's state at this moment.
TakenR(s, j) ==
  IF rig.appendsR[j] THEN AppendR(s, rig.source[j], rig.ratio[j]) ELSE s.appR[j]
TakenT(s, j) ==
  IF rig.appendsT[j] THEN AppendT(s, rig.source[j], rig.ratio[j]) ELSE s.appT[j]

Appended(s, j, hold) ==
  IF rig.source[j] = None \/ j \in hold THEN s
  ELSE [s EXCEPT !.appR[j] = TakenR(s, j), !.appT[j] = TakenT(s, j)]

\* What the solver leaves on link l of goal g, seeing the pose with every link
\* at identity; the effector, and a chain that does not iterate, stay there.
Turn(g, l, pose, motion) ==
  LET turns == {q \in Rot : Aims(g, l, pose, motion, q)}
  IN  IF rig.chain[g].iterations = 0 \/ l = rig.chain[g].effector \/ turns = {}
      THEN Id ELSE CHOOSE q \in turns : TRUE

\* Solve of the chain of goal g: its links' IK rotations start over.
Solved(s, g) ==
  LET links == rig.chain[g].links
      reset == [s EXCEPT !.ik = [l \in Joints |-> IF l \in links THEN Id ELSE s.ik[l]]]
      pose == PoseOf(rig, reset)
  IN  [reset EXCEPT !.ik = [l \in Joints |-> IF l \in links THEN Turn(g, l, pose, s.rho)
                                             ELSE reset.ik[l]]]

HasChain(j) == rig.chain[j].effector # None

\* One position of the pass: the append, then the chain.
Visited(s, j) ==
  LET t == Appended(s, j, call.held)
  IN  IF HasChain(j) /\ j \in enabled THEN Solved(t, j) ELSE t

-----------------------------------------------------------------------------
(* The public calls.  Each samples or copies its inputs, runs the pass one  *)
(* joint per step, and returns.                                             *)

Given0 == [reached |-> {}, t |-> Zero, r |-> Still]

Ops == {"evaluate", "begin", "resume", "complete"}

Start ==
  /\ pc = "idle" /\ calls < MaxCalls
  /\ pc' = "pass" /\ calls' = calls + 1
  /\ UNCHANGED <<rig, slots, log>>

Call(op, e, s, m, f, g, h) ==
  [op |-> op, self |-> e, slot |-> s, motion |-> m, fed |-> f, given |-> g, held |-> h]

\* Between calls nothing of a call is left.
NoCall == Call("complete", None, None, None, <<>>, Given0, {})

Evaluate(e, m) ==
  /\ Start
  /\ call' = Call("evaluate", e, None, m, <<>>, Given0, {})
  /\ todo' = Joints /\ enabled' = m.enabled /\ st' = MotionState(m.a, m.rho)

BeginPhysics(e, s, m) ==
  /\ Start
  /\ call' = Call("begin", e, s, m, <<>>, Given0, {})
  /\ todo' = {j \in Joints : ~rig.after[j]} /\ enabled' = m.enabled
  /\ st' = MotionState(m.a, m.rho)

\* Feedback names each joint at most once with a finite rigid transform.
WellFormed(f) ==
  \A i \in DOMAIN f : /\ f[i].joint \in Joints /\ f[i].rigid
                      /\ \A k \in DOMAIN f \ {i} : f[k].joint # f[i].joint

EditOf(f, j) == f[CHOOSE i \in DOMAIN f : f[i].joint = j]
Fed(f) == {f[i].joint : i \in DOMAIN f}

\* Faulty variant of Reconciled: the retained append is counted twice.
ReconciledDoubling(r, s, f) ==
  [s EXCEPT !.a   = [j \in Joints |-> IF j \in Fed(f) THEN EditOf(f, j).t - r.rest[j] ELSE s.a[j]],
            !.rho = [j \in Joints |-> IF j \in Fed(f) THEN EditOf(f, j).r ELSE s.rho[j]],
            !.ik  = [j \in Joints |-> IF j \in Fed(f) THEN Id ELSE s.ik[j]]]

\* The edited total replaces motion and IK; the append is retained apart.
Reconciled(r, s, f) ==
  [s EXCEPT !.a   = [j \in Joints |-> IF j \in Fed(f)
                                      THEN EditOf(f, j).t - r.rest[j] - s.appT[j] ELSE s.a[j]],
            !.rho = [j \in Joints |-> IF j \in Fed(f)
                                      THEN Mul(EditOf(f, j).r, Inv(s.appR[j])) ELSE s.rho[j]],
            !.ik  = [j \in Joints |-> IF j \in Fed(f) THEN Id ELSE s.ik[j]]]

Accepts(e, s, f) == slots[s] # None /\ slots[s].owner = e /\ WellFormed(f)

\* Faulty variant of AfterBarrier: resuming starts the whole pass again.
AfterBarrierAll(r) == Joints

\* The joints a resume visits.
AfterBarrier(r) == {j \in Joints : r.after[j]}

\* Faulty variant of ResumePhysics: the edit goes into the shared snapshot.
ResumeInPlace(e, s, f) ==
  /\ Accepts(e, s, f) /\ pc = "idle" /\ calls < MaxCalls
  /\ LET c == slots[s] IN
     /\ slots' = [slots EXCEPT ![s].st = Reconciled(rig, c.st, f)]
     /\ call' = Call("resume", e, s, c.motion, f, Given0, {})
     /\ todo' = AfterBarrier(rig) /\ enabled' = c.enabled /\ st' = Reconciled(rig, c.st, f)
  /\ pc' = "pass" /\ calls' = calls + 1 /\ UNCHANGED <<rig, log>>

\* ResumePhysics on an accepted continuation works on a copy of it.
ResumePhysics(e, s, f) ==
  /\ Accepts(e, s, f) /\ Start
  /\ call' = Call("resume", e, s, slots[s].motion, f, Given0, {})
  /\ todo' = AfterBarrier(rig) /\ enabled' = slots[s].enabled
  /\ st' = Reconciled(rig, slots[s].st, f)

\* ResumePhysics refuses an empty or foreign continuation and malformed feedback.
RefuseResume(e, s, f) ==
  /\ pc = "idle" /\ calls < MaxCalls
  /\ ~Accepts(e, s, f)
  /\ calls' = calls + 1
  /\ UNCHANGED <<rig, pc, call, todo, enabled, st, slots, log>>

\* Faulty variant of MarkFrom: the source is marked, and not what feeds it.
MarkFromOnce(r, marked, s) == marked \cup ({s} \ {None})

\* The walk from a source to its own: it marks every joint it comes to, and
\* ends at one that appends from none or that was marked before.
MarkFrom(r, marked, s) ==
  LET Walked(F) == /\ marked \subseteq F /\ s \in F \cup {None}
                   /\ \A j \in F \ marked : r.source[j] \in F \cup {None}
  IN  {j \in Joints : \A F \in SUBSET Joints : Walked(F) => j \in F}

\* What the walks from the held joints mark, for each n those of the first n.
Markings(r, hold) ==
  LET marked[n \in 0..Cardinality(Joints)] ==
        IF n = 0 THEN {}
        ELSE IF n - 1 \in hold THEN MarkFrom(r, marked[n - 1], r.source[n - 1]) ELSE marked[n - 1]
  IN  marked
FeedsHeld(r, hold) == Markings(r, hold)[Cardinality(Joints)]

\* Faulty variant of ClearChains: a chain may turn the source of a held append.
ClearChainsOfHeld(r, hold) == {g \in Joints : r.chain[g].links \cap hold = {}}

\* Chains run only clear of held joints and of what feeds them.
ClearChains(r, hold) ==
  {g \in Joints : r.chain[g].links \cap (hold \cup FeedsHeld(r, hold)) = {}}

\* Faulty variant of GivenMotion: the rest translation stays in the motion.
GivenMotionWithRest(r, g) ==
  MotionState([j \in Joints |-> IF j \in g.reached THEN g.t[j] ELSE 0],
              [j \in Joints |-> IF j \in g.reached THEN g.r[j] ELSE Id])

\* The motion of a given pose; a joint it does not reach is at rest.
GivenMotion(r, g) ==
  MotionState([j \in Joints |-> IF j \in g.reached THEN g.t[j] - r.rest[j] ELSE 0],
              [j \in Joints |-> IF j \in g.reached THEN g.r[j] ELSE Id])

Complete(e, g, h) ==
  /\ Start
  /\ call' = Call("complete", e, None, None, <<>>, g, h)
  /\ todo' = Joints /\ enabled' = ClearChains(rig, h) /\ st' = GivenMotion(rig, g)

\* One iteration of _Pass.
Visit ==
  /\ pc = "pass"
  /\ \E j \in todo : IsNext(j) /\ st' = Visited(st, j) /\ todo' = todo \ {j}
  /\ UNCHANGED <<rig, pc, call, enabled, slots, log, calls>>

\* Channels and visibility travel with the sample; Complete has none.
Carried == IF call.op = "complete" THEN None ELSE call.motion.carried

\* The pose a call returns; Complete copies a held joint it was given.
Written ==
  [j \in Joints |-> IF j \in call.held \cap call.given.reached
                    THEN [t |-> call.given.t[j], r |-> call.given.r[j]] ELSE LocalOf(rig, st, j)]

\* BeginPhysics returns an owned snapshot; the others a pose.
Return ==
  /\ pc = "pass" /\ todo = {}
  /\ pc' = "idle"
  /\ slots' = IF call.op # "begin" THEN slots
              ELSE [slots EXCEPT ![call.slot] = [owner |-> call.self, motion |-> call.motion,
                                                 enabled |-> enabled, st |-> st]]
  /\ log' = IF call.op = "begin" \/ call.held # {} THEN log
            ELSE log \cup {[call |-> call, pose |-> Written, carried |-> Carried]}
  /\ call' = NoCall /\ enabled' = {} /\ st' = MotionState(Zero, Still)
  /\ UNCHANGED <<rig, todo, calls>>

Init ==
  /\ \E m \in Models : rig = Prepare(m)
  /\ pc = "idle" /\ todo = {} /\ enabled = {} /\ st = MotionState(Zero, Still)
  /\ call = NoCall
  /\ slots = [s \in Slots |-> None] /\ log = {} /\ calls = 0

Next ==
  \/ \E e \in Evaluators, m \in Motions : Evaluate(e, m)
  \/ \E e \in Evaluators, s \in Slots, m \in Motions : BeginPhysics(e, s, m)
  \/ \E e \in Evaluators, s \in Slots, f \in Feedbacks : ResumePhysics(e, s, f)
  \/ \E e \in Evaluators, s \in Slots, f \in Feedbacks : RefuseResume(e, s, f)
  \/ \E e \in Evaluators, g \in Givens, h \in SUBSET Joints : Complete(e, g, h)
  \/ Visit
  \/ Return

Spec == Init /\ [][Next]_vars

-----------------------------------------------------------------------------
(* Properties *)

Transforms == [t : Int, r : Rot]
States == [a : [Joints -> Int], rho : [Joints -> Rot], ik : [Joints -> Rot],
           appT : [Joints -> Int], appR : [Joints -> Rot]]
Chains == [effector : Joints \cup {None}, links : SUBSET Joints, iterations : 0..MaxIkIterations]
Rigs == [rest : [Joints -> Int], after : [Joints -> BOOLEAN], layer : [Joints -> Int],
         index : [Joints -> Int], ratio : [Joints -> Int], appendsR : [Joints -> BOOLEAN],
         appendsT : [Joints -> BOOLEAN], source : [Joints -> Joints \cup {None}],
         chain : [Joints -> Chains]]
Snapshots == [owner : Evaluators, motion : Motions, enabled : SUBSET Joints, st : States]

\* The prepared rig names only joints, the working state is a state of that rig
\* and the host's slots hold whole snapshots.
TypeOK ==
  /\ rig \in Rigs
  /\ pc \in {"idle", "pass"} /\ call.op \in Ops
  /\ todo \subseteq Joints /\ enabled \subseteq Joints
  /\ st \in States
  /\ slots \in [Slots -> Snapshots \cup {None}]
  /\ calls \in 0..MaxCalls

\* What feeds the appends of held joints, directly or through other appends:
\* the least set with their sources that holds the sources of its own.
Feeding(r, hold, F) == \A j \in hold \cup F : r.source[j] \in F \cup {None}
Feeders(r, hold) == {j \in Joints : \A F \in SUBSET Joints : Feeding(r, hold, F) => j \in F}

\* Complete never moves a held joint: all along the pass, what an append or a
\* chain reads of it is the transform it was given (or its rest), so the pose
\* written for it and the pose its followers saw agree; and no chain turned a
\* joint that feeds its append.
HeldAsGiven ==
  pc = "pass" /\ call.op = "complete" =>
    /\ \A j \in call.held :
         LocalOf(rig, st, j) = IF j \in call.given.reached
                               THEN [t |-> call.given.t[j], r |-> call.given.r[j]]
                               ELSE [t |-> rig.rest[j], r |-> Id]
    /\ \A j \in Feeders(rig, call.held) : st.ik[j] = Id

\* A joint that post-physics chains may turn.
TurnedAfter(j) ==
  \E g \in Joints : rig.after[g] /\ g \in enabled /\ HasChain(g) /\ j \in rig.chain[g].links

\* After the barrier a pre-physics joint that no post-physics chain turns is
\* exactly what physics fed it or, unfed, exactly what BeforePhysics showed the
\* host: appends are neither doubled nor lost and pre controls never run again.
BarrierFrame ==
  pc = "pass" /\ call.op = "resume" =>
    \A j \in Joints : ~rig.after[j] /\ ~TurnedAfter(j) =>
      LocalOf(rig, st, j) = IF j \in Fed(call.fed)
                            THEN [t |-> EditOf(call.fed, j).t, r |-> EditOf(call.fed, j).r]
                            ELSE LocalOf(rig, slots[call.slot].st, j)

\* When a call ends, the append of every joint it visited is its source's
\* final total at the joint's ratio, unless the source comes later in the order
\* or a chain turned the source after the append read it.
AppendsSettled ==
  pc = "pass" /\ todo = {} /\ call.op \in {"evaluate", "resume"} =>
    \A j \in Joints : LET src == rig.source[j] IN
      /\ src # None /\ (call.op = "resume" => rig.after[j])
      /\ Before(rig, src, j)
      /\ \A g \in enabled : src \in rig.chain[g].links => Before(rig, g, j)
      => LET total == LocalOf(rig, st, src) IN
         /\ rig.appendsR[j] => st.appR[j] = Pow(total.r, rig.ratio[j])
         /\ rig.appendsT[j] => st.appT[j] = rig.ratio[j] * (total.t - rig.rest[src])

\* BeginPhysics then ResumePhysics without feedback returns what Evaluate
\* returns for the same motion, channels and visibility included.
EmptyFeedbackIsEvaluate ==
  \A x, y \in log :
    /\ x.call.op = "evaluate" /\ y.call.op = "resume"
    /\ y.call.fed = <<>> /\ x.call.motion = y.call.motion
    => x.pose = y.pose /\ x.carried = y.carried

\* Resuming is repeatable: whatever was fed to the same or another snapshot
\* before, the same motion and feedback give the same pose.
ResumesAreRepeatable ==
  \A x, y \in log :
    /\ x.call.op = "resume" /\ y.call.op = "resume"
    /\ x.call.motion = y.call.motion /\ x.call.fed = y.call.fed
    => x.pose = y.pose

\* With no joint held, completing a pose is evaluating a motion keyed at that
\* pose with every chain enabled.
CompleteIsEvaluate ==
  \A x, y \in log :
    /\ x.call.op = "complete" /\ y.call.op = "evaluate"
    /\ x.call.held = {} /\ x.call.given.reached = Joints
    /\ y.call.motion.enabled = Joints /\ y.call.motion.rho = x.call.given.r
    /\ \A j \in Joints : x.call.given.t[j] = rig.rest[j] + y.call.motion.a[j]
    => x.pose = y.pose
=============================================================================
