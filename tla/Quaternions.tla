----------------------------- MODULE Quaternions -----------------------------
(***************************************************************************)
(* Rotations as quaternions <<x, y, z, w>> of integers.  A rotation has one *)
(* of them up to a scale, its reduced one; rotating a vector is exact for   *)
(* the rotations that carry the axes onto each other, where it is used.     *)
(***************************************************************************)
EXTENDS Integers, FiniteSetsExt

Identity == <<0, 0, 0, 1>>
Origin == <<0, 0, 0>>

Multiply(a, b) ==
  << a[4] * b[1] + a[1] * b[4] + a[2] * b[3] - a[3] * b[2],
     a[4] * b[2] - a[1] * b[3] + a[2] * b[4] + a[3] * b[1],
     a[4] * b[3] + a[1] * b[2] - a[2] * b[1] + a[3] * b[4],
     a[4] * b[4] - a[1] * b[1] - a[2] * b[2] - a[3] * b[3] >>

\* The inverse, up to the scale.
Conjugate(q) == <<-q[1], -q[2], -q[3], q[4]>>

Norm(q) == q[1] * q[1] + q[2] * q[2] + q[3] * q[3] + q[4] * q[4]
IsUsableRotation(q) == Norm(q) > 0

\* One quaternion for a rotation: no common divisor, its last part or else the
\* first that is not 0 positive.
Reduced(q) ==
  LET parts == {IF q[i] < 0 THEN -q[i] ELSE q[i] : i \in 1..4}
      divisor == Max({d \in 1..Max(parts) : \A i \in 1..4 : q[i] % d = 0})
      lead == IF q[4] # 0 THEN 4 ELSE Min({i \in 1..4 : q[i] # 0})
      sign == IF q[lead] > 0 THEN 1 ELSE -1
  IN  IF Norm(q) = 0 THEN q ELSE [i \in 1..4 |-> sign * (q[i] \div divisor)]

Times(a, b) == Reduced(Multiply(a, b))
Undone(a, b) == Times(Conjugate(a), b)

Plus(u, v) == [i \in 1..3 |-> u[i] + v[i]]
Minus(u, v) == [i \in 1..3 |-> u[i] - v[i]]
Dot(u, v) == u[1] * v[1] + u[2] * v[2] + u[3] * v[3]
Cross(u, v) ==
  <<u[2] * v[3] - u[3] * v[2], u[3] * v[1] - u[1] * v[3], u[1] * v[2] - u[2] * v[1]>>

\* q.Transform(v)
Rotated(q, v) ==
  LET turned == Multiply(Multiply(q, <<v[1], v[2], v[3], 0>>), Conjugate(q))
  IN  [i \in 1..3 |-> turned[i] \div Norm(q)]

Length(v) == CHOOSE n \in 0..Dot(v, v) : n * n = Dot(v, v)
SameDirection(u, v) == Cross(u, v) = Origin /\ Dot(u, v) > 0

\* The shared core's ShortestRotation: u's direction onto v's.  Which half turn
\* it takes between opposite ones is its own choice.
ShortestRotation(u, v) ==
  LET c == Cross(u, v)
      across == CHOOSE a \in {<<1, 0, 0>>, <<0, 1, 0>>, <<0, 0, 1>>} : Dot(a, u) = 0
  IN  Reduced(IF c = Origin /\ Dot(u, v) < 0 THEN <<across[1], across[2], across[3], 0>>
              ELSE <<c[1], c[2], c[3], Length(u) * Length(v) + Dot(u, v)>>)
=============================================================================
