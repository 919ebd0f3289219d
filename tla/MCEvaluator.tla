---------------------------- MODULE MCEvaluator ----------------------------
(***************************************************************************)
(* A small instance of Evaluator: three joints, rotations in S3 (the        *)
(* smallest group where order matters), rigs that append in and against     *)
(* the evaluation order, on both sides of the barrier, and chains whose     *)
(* links lie before it.                                                     *)
(***************************************************************************)
EXTENDS Evaluator, TLC


MCJoints == 0..2

MCRot == Permutations({1, 2, 3})
MCId == [i \in 1..3 |-> i]
MCMul(p, q) == [i \in 1..3 |-> p[q[i]]]
MCInv(p) == CHOOSE q \in MCRot : MCMul(p, q) = MCId
MCPow(p, n) == IF n = -1 THEN MCInv(p) ELSE IF n = 2 THEN MCMul(p, p) ELSE IF n = 1 THEN p ELSE MCId

Swap == [i \in 1..3 |-> IF i = 1 THEN 2 ELSE IF i = 2 THEN 1 ELSE 3]
Turn3 == [i \in 1..3 |-> IF i = 3 THEN 1 ELSE i + 1]

\* A solver that looks at the whole pose: the link turns by the effector's
\* rotation against the goal's, when the translations sum to an odd number.
MCAims(g, l, pose, motion, q) ==
  /\ (pose[0].t + pose[1].t + pose[2].t + l) % 2 = 1
  /\ q = MCMul(pose[(l + 1) % 3].r, MCMul(MCInv(motion[g]), Turn3))

Flags(on) == [j \in MCJoints |-> j \in on]

Model(append, ratio, after, layer, chains) ==
  [rest |-> [j \in MCJoints |-> 10 * (j + 1)], after |-> Flags(after), layer |-> layer,
   index |-> [j \in MCJoints |-> 2 - j], ratio |-> ratio,
   appendsR |-> Flags({0, 1, 2}), appendsT |-> Flags({1, 2}),
   append |-> append, chains |-> chains]

ChainList(goal, effector, links) ==
  << [goal |-> goal, effector |-> 9, links |-> {0}, loops |-> 1],
     [goal |-> goal, effector |-> effector, links |-> links \cup {7}, loops |-> 300],
     [goal |-> goal, effector |-> effector, links |-> {goal}, loops |-> 1] >>

Joint3(x, y, z) == [j \in MCJoints |-> IF j = 0 THEN x ELSE IF j = 1 THEN y ELSE z]
Flat == [j \in MCJoints |-> 0]
Tilted == [j \in MCJoints |-> IF j = 0 THEN 0 ELSE 1]

MCModels ==
  { Model(append, ratio, split[1], split[2], chains) :
      append \in { Joint3(-1, 0, 1), Joint3(2, 0, 5), Joint3(1, 2, -1), Joint3(1, 0, 5) },
      ratio \in { [j \in MCJoints |-> IF j = 1 THEN 2 ELSE -1] },
      split \in { <<{}, Tilted>>, <<{2}, Flat>>, <<{1, 2}, Tilted>> },
      chains \in { ChainList(2, 1, {0}), ChainList(1, 2, {0, 1}) } }
  
MCMotions ==
  { [a |-> [j \in MCJoints |-> j + 1], rho |-> [j \in MCJoints |-> IF j = 1 THEN Turn3 ELSE Swap],
     enabled |-> e, carried |-> "smile"] : e \in {MCJoints, {1}} }

Edit(j, ok) == [joint |-> j, t |-> 7, r |-> MCMul(Turn3, Swap), rigid |-> ok]

MCFeedbacks ==
  { <<>>, <<Edit(0, TRUE)>>, <<Edit(1, TRUE), Edit(0, TRUE)>>,
    <<Edit(2, TRUE)>>, <<Edit(0, TRUE), Edit(0, TRUE)>>, <<Edit(8, TRUE)>>, <<Edit(1, FALSE)>> }

MCGivens ==
  { [reached |-> r, t |-> [j \in MCJoints |-> 11 * (j + 1)],
     r |-> [j \in MCJoints |-> IF j = 1 THEN Turn3 ELSE Swap]] : r \in {MCJoints, {0, 1}} }
MCSymmetry == Permutations(Evaluators)
=============================================================================
