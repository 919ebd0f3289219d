------------------------------ MODULE GroupCycles ------------------------------
(***************************************************************************)
(* _BreakGroupCycles of libs/mmdModel/src/Canonicalize.cpp: an iterative    *)
(* depth-first walk over group and flip morphs that drops the members which *)
(* close a cycle, so that whoever expands a group morph terminates.  One    *)
(* step is one turn of the walk's loop.                                     *)
(***************************************************************************)
EXTENDS Integers, Sequences, FiniteSets, Selecting

CONSTANTS
  M,       \* the number of morphs
  Groups,  \* the morphs' composite flags and members, as read
  None     \* kNone

Morphs == 0..(M - 1)

ASSUME MAssumption == M \in Nat /\ None \notin Morphs
ASSUME GroupsAssumption ==
  \A g \in Groups : g.composite \subseteq Morphs /\ g.members \in [Morphs -> Seq(Morphs)]

VARIABLES
  group,    \* the document's morphs
  members,  \* their members, as the walk leaves them
  at,       \* "walk", "erase" or "done"
  mark,     \* what the walk has made of each morph
  first,    \* the morph the outer loop is at
  frames,   \* the walk: the morphs entered and how many members each passed
  dropped   \* <<morph, position>> of the members dropped and reported

groupVars == <<group, members, at, mark, first, frames, dropped>>

InitGroups ==
  /\ group \in Groups
  /\ members = group.members
  /\ at = "walk" /\ mark = [m \in Morphs |-> "unvisited"]
  /\ first = 0 /\ frames = <<>> /\ dropped = {}

Frame(m) == [morph |-> m, passed |-> 0]
Top == frames[Len(frames)]
Walking == at = "walk" /\ frames # <<>>

\* The outer loop enters a composite morph it has not visited.
Enter ==
  /\ at = "walk" /\ frames = <<>> /\ first < M
  /\ mark[first] = "unvisited" /\ first \in group.composite
  /\ mark' = [mark EXCEPT ![first] = "onWalk"]
  /\ frames' = <<Frame(first)>>
  /\ UNCHANGED <<group, members, at, first, dropped>>

Skip ==
  /\ at = "walk" /\ frames = <<>> /\ first < M
  /\ ~(mark[first] = "unvisited" /\ first \in group.composite)
  /\ first' = first + 1
  /\ UNCHANGED <<group, members, at, mark, frames, dropped>>

\* The top morph has no member left.
Leave ==
  /\ Walking /\ Top.passed >= Len(members[Top.morph])
  /\ mark' = [mark EXCEPT ![Top.morph] = "settled"]
  /\ frames' = SubSeq(frames, 1, Len(frames) - 1)
  /\ UNCHANGED <<group, members, at, first, dropped>>

\* The member the top frame stands before, and the frames once past it.
Member == members[Top.morph][Top.passed + 1]

\* Faulty variant of Past: the frame stays before the member it dealt with.
PastUnmoved == frames

Past == [frames EXCEPT ![Len(frames)].passed = @ + 1]
Standing == Walking /\ Top.passed < Len(members[Top.morph])

\* Faulty variant of Leads: only members that are group morphs are followed.
LeadsUnmarked(member) == member \in group.composite /\ mark[member] = "unvisited"

\* A member that can close a cycle: it names a composite morph.
Leads(member) == member \in group.composite

\* Faulty variant of Closes: any morph met before counts as a cycle.
ClosesSettled(member) == mark[member] # "unvisited"

Closes(member) == mark[member] = "onWalk"

Pass ==
  /\ Standing /\ (Leads(Member) => mark[Member] = "settled" /\ ~Closes(Member))
  /\ frames' = Past
  /\ UNCHANGED <<group, members, at, mark, first, dropped>>

Drop ==
  /\ Standing /\ Leads(Member) /\ Closes(Member)
  /\ members' = [members EXCEPT ![Top.morph][Top.passed + 1] = None]
  /\ dropped' = dropped \cup {<<Top.morph, Top.passed + 1>>}
  /\ frames' = Past
  /\ UNCHANGED <<group, at, mark, first>>

Descend ==
  /\ Standing /\ Leads(Member) /\ mark[Member] = "unvisited"
  /\ mark' = [mark EXCEPT ![Member] = "onWalk"]
  /\ frames' = Append(Past, Frame(Member))
  /\ UNCHANGED <<group, members, at, first, dropped>>

EndWalk ==
  /\ at = "walk" /\ frames = <<>> /\ first = M
  /\ at' = "erase"
  /\ UNCHANGED <<group, members, mark, first, frames, dropped>>

\* std::erase_if: the members that still name a morph.
Erased(s) == Selected(s, Morphs)

\* What was dropped is erased; without a cycle nothing is touched.
Erase ==
  /\ at = "erase" /\ at' = "done"
  /\ members' = IF dropped = {} THEN members ELSE [m \in Morphs |-> Erased(members[m])]
  /\ UNCHANGED <<group, mark, first, frames, dropped>>

BreakGroupCycles == Enter \/ Skip \/ Leave \/ Pass \/ Drop \/ Descend \/ EndWalk \/ Erase

GroupSpec == InitGroups /\ [][BreakGroupCycles]_groupVars

-----------------------------------------------------------------------------
(* Properties *)

Settling == {"unvisited", "onWalk", "settled"}

GroupTypeOK ==
  /\ group.composite \subseteq Morphs /\ group.members \in [Morphs -> Seq(Morphs)]
  /\ members \in [Morphs -> Seq(Morphs \cup {None})]
  /\ at \in {"walk", "erase", "done"}
  /\ mark \in [Morphs -> Settling]
  /\ first \in 0..M
  /\ frames \in Seq([morph : group.composite, passed : Nat])

\* The members of a composite morph that can be expanded further.
Members(m) == {members[m][k] : k \in DOMAIN members[m]} \cap group.composite

\* Expanding a group morph terminates: no set of composite morphs is left in
\* which every one has a member of the set.
NoGroupCycle ==
  at # "walk" =>
    \A T \in SUBSET group.composite : T # {} => \E m \in T : Members(m) \cap T = {}

\* The composite morphs that expanding m reaches, m included.
Reached(m) ==
  {x \in Morphs : \A F \in SUBSET Morphs : m \in F /\ (\A y \in F \cap group.composite : Members(y) \subseteq F) => x \in F}

\* The positions of a morph's members that the walk left.
Undropped(m) == {k \in DOMAIN group.members[m] : <<m, k>> \notin dropped}

\* A position left is found again at its rank among those left.
KeepsOrder(m, left) ==
  /\ Len(members[m]) = Cardinality(left)
  /\ \A k \in left : members[m][Cardinality({l \in left : l <= k})] = group.members[m][k]

\* Only closing members go: with any one of the members the walk dropped put
\* back, its morph would reach itself; all others stay, in their order.
OnlyClosersDropped ==
  at = "done" =>
    /\ \A d \in dropped : d[1] \in Reached(group.members[d[1]][d[2]])
    /\ \A m \in Morphs : KeepsOrder(m, Undropped(m))
=============================================================================
