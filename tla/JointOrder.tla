------------------------------ MODULE JointOrder ------------------------------
(***************************************************************************)
(* OrderJoints of libs/mmdModel/src/Skeleton.cpp: a parent table read from  *)
(* a file, which may hold anything, becomes a forest and then the stable    *)
(* topological order that is the canonical joint order.  One step is one    *)
(* turn of a loop of the source.                                            *)
(***************************************************************************)
EXTENDS Integers, Sequences, FiniteSets

CONSTANTS
  N,       \* the number of bones
  Tables   \* the source parent tables

Bones == 0..(N - 1)
Root == -1

ASSUME NAssumption == N \in Nat
ASSUME TablesAssumption == Tables \subseteq [Bones -> Int]

VARIABLES
  source,      \* the parent table as read
  parents,     \* the table being repaired
  pc,          \* "walk": breaking cycles, "emit": ordering, "done"
  state,       \* what the walks have made of each bone
  start,       \* the bone the current walk began at
  current,     \* the bone the walk stands before
  walk,        \* the bones it passed
  ready,       \* the priority queue
  order,       \* the bones emitted
  diagnostics  \* <<code, bone>> reported

vars == <<source, parents, pc, state, start, current, walk, ready, order, diagnostics>>

Elements(s) == {s[i] : i \in 1..Len(s)}
Lowest(S) == CHOOSE x \in S : \A y \in S : x <= y

\* A parent that names no other bone makes its bone a root.
Parent(t, b) == IF t[b] \in Bones \ {b} THEN t[b] ELSE Root

Init ==
  /\ source \in Tables
  /\ parents = [b \in Bones |-> Parent(source, b)]
  /\ pc = "walk" /\ state = [b \in Bones |-> "unvisited"]
  /\ start = 0 /\ current = 0 /\ walk = <<>>
  /\ ready = {} /\ order = <<>>
  /\ diagnostics = {<<"SkelInvalidParent", b>> : b \in {c \in Bones : parents[c] # source[c]}}

\* What the walk stands before.
Before == IF current \in Bones THEN state[current] ELSE "root"

\* The walk goes on to the parent of a bone it has not met.
Advance ==
  /\ pc = "walk" /\ start < N
  /\ Before = "unvisited"
  /\ state' = [state EXCEPT ![current] = "onWalk"]
  /\ walk' = Append(walk, current)
  /\ current' = parents[current]
  /\ UNCHANGED <<source, parents, pc, start, ready, order, diagnostics>>

\* A walk ends: its bones are settled, the next begins.
Settle ==
  /\ state' = [b \in Bones |-> IF b \in Elements(walk) THEN "settled" ELSE state[b]]
  /\ walk' = <<>> /\ start' = start + 1 /\ current' = start + 1
  /\ UNCHANGED <<source, pc, ready, order>>

Arrive ==
  /\ pc = "walk" /\ start < N
  /\ Before \in {"root", "settled"}
  /\ Settle /\ UNCHANGED <<parents, diagnostics>>

\* The bones of the cycle the walk closed: from the one it came back to, on.
Cycle ==
  {walk[i] : i \in {k \in 1..Len(walk) : \E e \in 1..k : walk[e] = current}}

\* Faulty variant of Broken: the cycle is broken where the walk entered it.
BrokenAtEntry(cycle) == [parents EXCEPT ![current] = Root]

\* A cycle is broken at its lowest source index.
Broken(cycle) == [parents EXCEPT ![Lowest(cycle)] = Root]

BreakCycle ==
  /\ pc = "walk" /\ start < N
  /\ Before = "onWalk"
  /\ parents' = Broken(Cycle)
  /\ diagnostics' = diagnostics \cup {<<"SkelParentCycle", Lowest(Cycle)>>}
  /\ Settle

\* Every bone is settled: the roots are queued.
QueueRoots ==
  /\ pc = "walk" /\ start = N
  /\ pc' = "emit" /\ ready' = {b \in Bones : parents[b] = Root}
  /\ UNCHANGED <<source, parents, state, start, current, walk, order, diagnostics>>

\* Faulty variant of Choice: the queue hands out its highest bone.
ChoiceHighest(q) == CHOOSE x \in q : \A y \in q : y <= x

\* The priority queue's top.
Choice(q) == Lowest(q)

\* Faulty variant of Released: all descendants are queued with the children.
ReleasedDeep(b) == {c \in Bones : parents[c] = b \/ (parents[c] # Root /\ parents[parents[c]] = b)}

Released(b) == {c \in Bones : parents[c] = b}

Emit ==
  /\ pc = "emit" /\ ready # {}
  /\ LET b == Choice(ready) IN
     /\ order' = Append(order, b)
     /\ ready' = (ready \ {b}) \cup Released(b)
  /\ UNCHANGED <<source, parents, pc, state, start, current, walk, diagnostics>>

\* OrderJoints returns; the reordering is reported once.
Finish ==
  /\ pc = "emit" /\ ready = {}
  /\ pc' = "done"
  /\ diagnostics' = IF \E i \in 1..Len(order) : order[i] # i - 1
                    THEN diagnostics \cup {<<"SkelJointsReordered", Root>>} ELSE diagnostics
  /\ UNCHANGED <<source, parents, state, start, current, walk, ready, order>>

Next == Advance \/ Arrive \/ BreakCycle \/ QueueRoots \/ Emit \/ Finish

Spec == Init /\ [][Next]_vars

-----------------------------------------------------------------------------
(* Properties *)

TypeOK ==
  /\ source \in Tables
  /\ parents \in [Bones -> Bones \cup {Root}]
  /\ pc \in {"walk", "emit", "done"}
  /\ state \in [Bones -> {"unvisited", "onWalk", "settled"}]
  /\ start \in 0..N /\ current \in Bones \cup {Root, N}
  /\ walk \in Seq(Bones)
  /\ ready \subseteq Bones /\ order \in Seq(Bones)

\* The order is complete and parents come first: when OrderJoints returns,
\* every bone of the table was emitted exactly once and after its parent, so
\* reading order[i] for every bone, and a parent's joint before its child's, is
\* defined whatever the file held.
ParentsFirst ==
  pc = "done" =>
    /\ Elements(order) = Bones
    /\ \A i, k \in 1..Len(order) : order[i] = order[k] => i = k
    /\ \A i \in 1..Len(order) :
         \/ parents[order[i]] = Root
         \/ \E k \in 1..(i - 1) : order[k] = parents[order[i]]

\* The bones above b in a table: the least set with b's parent that holds the
\* parent of each of its own.
Above(t, b) ==
  LET Closed(F) == \A c \in F \cup {b} : t[c] \in F \cup {Root}
  IN  {c \in Bones : \A F \in SUBSET Bones : Closed(F) => c \in F}

Rooted == [b \in Bones |-> Parent(source, b)]

\* Repairs are minimal, reported, and independent of where a walk began: a bone
\* lost its parent only if the parent named no other bone or the bone is the
\* lowest of a cycle of the source, and exactly those bones are reported.
RepairsAreMinimal ==
  pc = "done" =>
    \A b \in Bones :
      /\ parents[b] = IF b \in Above(Rooted, b) /\ \A c \in Above(Rooted, b) : b <= c
                      THEN Root ELSE Rooted[b]
      /\ parents[b] # source[b] <=>
           \E code \in {"SkelInvalidParent", "SkelParentCycle"} : <<code, b>> \in diagnostics

\* The order is stable: a bone goes before a lower-indexed one only when that
\* one waits for an ancestor that is no lower.  A table already in order is
\* left as it is.
StableOrder ==
  pc = "done" =>
    /\ \A i, k \in 1..Len(order) : i < k /\ order[k] < order[i] =>
         \E c \in Above(parents, order[k]) : order[i] <= c
    /\ (\A b \in Bones : source[b] < b /\ Root <= source[b]) =>
         \A i \in 1..Len(order) : order[i] = i - 1
=============================================================================
