-------------------------- MODULE MCPhysicsAdapter --------------------------
(***************************************************************************)
(* A small instance of PhysicsAdapter: three joints in a chain or a fork,  *)
(* up to three bodies, and the transforms of a line of three points that   *)
(* can be turned over (a group of six, where order matters).               *)
(***************************************************************************)
EXTENDS PhysicsAdapter, TLC

\* A transform turns (s is 1 or 2, for -1) and then moves by t, modulo 3.
MCFrames == [t : 0..2, s : 1..2]
MCOne == [t |-> 0, s |-> 1]
MCMul(p, q) == [t |-> (p.t * q.s + q.t) % 3, s |-> (p.s * q.s) % 3]
MCInv(p) == [t |-> (3 - ((p.t * p.s) % 3)) % 3, s |-> p.s]
MCMetres(p) == [p EXCEPT !.t = (2 * p.t) % 3]
MCKeep(m, b) == [m EXCEPT !.t = b.t]

Shift(n) == [t |-> n, s |-> 1]
Flip(n) == [t |-> n, s |-> 2]

MCPaths == {"a", "b", "c"}

DynamicBody(path, joint, mode, frame) ==
  [path |-> path, joint |-> joint, mode |-> mode, kinematic |-> mode = "followBone",
   static |-> TRUE, frame |-> frame]

\* Two drivers of one joint, a chain with an undriven joint between, a body of
\* no joint, three drivers of one joint; then bodies that Bind rejects, the
\* first after a diagnostic.
MCBodies ==
  { << DynamicBody("a", 0, "dynamic", Flip(1)), DynamicBody("b", 2, "dynamic", Shift(1)),
       DynamicBody("c", 2, "followBone", Flip(0)) >>,
    << DynamicBody("a", 1, "dynamic", Shift(2)), DynamicBody("b", 0, "dynamicWithBone", Flip(2)),
       DynamicBody("c", 1, "dynamicWithBone", Flip(1)) >>,
    << DynamicBody("c", 2, "dynamicWithBone", Flip(2)), DynamicBody("a", -1, "dynamic", Flip(0)),
       DynamicBody("b", 2, "dynamic", Flip(0)) >>,
    << DynamicBody("b", 1, "dynamic", Flip(1)), DynamicBody("c", 1, "dynamicWithBone", Shift(1)),
       DynamicBody("a", 1, "dynamic", Flip(2)) >>,
    << DynamicBody("a", -1, "dynamic", Shift(0)), DynamicBody("a", 1, "dynamic", Shift(0)) >>,
    << DynamicBody("b", -2, "dynamic", Shift(0)) >>,
    << DynamicBody("b", 1, "softBody", Shift(0)) >>,
    << [DynamicBody("b", 1, "dynamic", Shift(0)) EXCEPT !.kinematic = TRUE] >>,
    << [DynamicBody("b", 1, "dynamic", Shift(0)) EXCEPT !.static = FALSE] >> }

Joint3(x, y, z) == [j \in 0..2 |-> IF j = 0 THEN x ELSE IF j = 1 THEN y ELSE z]

MCStages ==
  { [coupled |-> ok, parents |-> parents, placement |-> Flip(1),
     rest |-> Joint3(Shift(1), Flip(2), Shift(0)), bodies |-> b] :
      ok \in BOOLEAN, parents \in { Joint3(-1, 0, 1), Joint3(-1, 0, 0) }, b \in MCBodies }

MCPoses == { Joint3(MCMetres(Shift(1)), MCMetres(Flip(2)), MCMetres(Shift(0))),
             Joint3(Flip(0), Shift(2), Flip(1)) }

Row(path) == [body |-> path, rigid |-> TRUE]
MCReports ==
  { <<Row("a"), Row("b"), Row("c")>>, <<Row("c"), Row("b"), Row("a")>>, <<Row("b"), Row("a")>>,
    <<Row("a"), Row("b"), Row("a"), Row("c")>>, <<Row("a"), Row("b"), Row("c"), Row("x")>>,
    <<[body |-> "c", rigid |-> FALSE], Row("b"), Row("a")>> }
=============================================================================
