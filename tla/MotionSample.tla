---------------------------- MODULE MotionSample ----------------------------
(***************************************************************************)
(* How mmdControl samples a bound track at a time between frames.  Times    *)
(* are doubled so that half frames are numbers; a sample is the two keys it *)
(* lies between and how far along it is, part of whole.                     *)
(***************************************************************************)
EXTENDS Naturals, Sequences, FiniteSets

\* Faulty variant of After: a key on the time is not yet reached.
AfterOrOn(key, time) == time <= 2 * key.frame

After(key, time) == time < 2 * key.frame

\* UpperBound: how many keys are not after the time.
UpperBound(keys, time) == Cardinality({i \in DOMAIN keys : ~After(keys[i], time)})

AtKey(key) == [from |-> key.value, to |-> key.value, part |-> 0, whole |-> 1]

\* Step: the last key at or before the time, else the first.
Step(keys, time, empty) ==
  LET upper == UpperBound(keys, time)
  IN  IF keys = <<>> THEN empty ELSE keys[IF upper = 0 THEN 1 ELSE upper].value

\* SampleIk and SampleVisibility of no keys are on.
On == 0
SampleIk(keys, time) == Step(keys, time, On)
SampleVisibility(keys, time) == Step(keys, time, On)

\* SampleBone and SampleMorph: held before the first key and after the last,
\* and between two of them along the later one's curve.
Sample(keys, time, empty) ==
  LET upper == UpperBound(keys, time)
      k0 == keys[upper]
      k1 == keys[upper + 1]
  IN  CASE keys = <<>> -> empty
        [] keys # <<>> /\ upper = 0 -> AtKey(keys[1])
        [] upper > 0 /\ (upper = Len(keys) \/ time = 2 * k0.frame) -> AtKey(k0)
        [] OTHER -> [from |-> k0.value, to |-> k1.value,
                     part |-> time - 2 * k0.frame, whole |-> 2 * (k1.frame - k0.frame)]
=============================================================================
