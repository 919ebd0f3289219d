----------------------------- MODULE Identifiers -----------------------------
(***************************************************************************)
(* Stable identifiers and asset paths, from the text a model holds.  Text   *)
(* is a sequence of characters, one of which may stand for a longer run; an *)
(* identifier is such a sequence too.                                       *)
(***************************************************************************)
EXTENDS Naturals, FiniteSets, DiagnosticList

CONSTANTS
  Words,       \* characters an identifier may hold, but for digits and "_"
  Lower(_),    \* CollisionKey of a character
  Cap,         \* kIdentifierCap
  Controls,    \* control characters, NUL among them
  Schemes      \* beginnings such as "C:" that make a path absolute

ASSUME CapAssumption == Cap \in Nat \ {0}

Digit == <<"0", "1", "2", "3", "4", "5", "6", "7", "8", "9">>
NUL == "NUL"

\* DisplayName: without trailing NULs.
Unpadded(text) ==
  LET solid == {i \in DOMAIN text : text[i] # NUL}
  IN  IF solid = {} THEN <<>> ELSE SubSeq(text, 1, Max(solid))

Kept(c) == c \in Words \cup Range(Digit) \cup {"_"}

\* What a run of other characters leaves: one "_".
Replaced(text) ==
  LET First(i) == Kept(text[i]) \/ i = 1 \/ Kept(text[i - 1])
      places == SelectSeq([i \in DOMAIN text |-> i], First)
  IN  [p \in DOMAIN places |-> IF Kept(text[places[p]]) THEN text[places[p]] ELSE "_"]

Cut(text, from, to) == SubSeq(text, from, IF to < from + Cap THEN to ELSE from + Cap - 1)
Trimmed(text, solid) == IF solid = {} THEN <<>> ELSE Cut(text, Min(solid), Max(solid))
Prefixed(word) == IF word # <<>> /\ word[1] \in Range(Digit) THEN <<"_">> \o word ELSE word

\* IdentifierCandidate: trimmed of "_", cut, and not begun by a digit.
IdentifierCandidate(english) ==
  LET Of(text) == Prefixed(Trimmed(text, {i \in DOMAIN text : text[i] # "_"}))
  IN  Of(Replaced(english))

Digits[n \in Nat] ==
  IF n < 10 THEN <<Digit[n + 1]>> ELSE Append(Digits[n \div 10], Digit[(n % 10) + 1])

\* FallbackIdentifier: the kind and the source index in four digits.
FallbackIdentifier(kind, i) ==
  LET digits == Digits[i]
  IN  <<kind, "_">> \o [n \in 1..IF Len(digits) < 4 THEN 4 - Len(digits) ELSE 0 |-> "0"] \o digits

CollisionKey(identifier) == [i \in DOMAIN identifier |-> Lower(identifier[i])]

FirstChoice(kind, english, i) ==
  LET Or(candidate) == IF candidate = <<>> THEN FallbackIdentifier(kind, i) ELSE candidate
  IN  Or(IdentifierCandidate(english))

\* Faulty variant of Assigned: the second choice is not checked against those taken.
AssignedSecond(kind, first, i, taken) ==
  IF CollisionKey(first) \notin taken THEN first ELSE first \o <<"_">> \o Digits[i]

Numbered(identifier, n) == identifier \o <<"_">> \o Digits[n]

\* The identifier of element i, counted from 0: its first choice unless that
\* is taken, then the index after it, then the fallback and a number after it.
Assigned(kind, first, i, taken) ==
  LET Choice(fallback, n) ==
        CASE n = 1 -> first [] n = 2 -> Numbered(first, i) [] n = 3 -> fallback
          [] OTHER -> Numbered(fallback, n - 2)
      Free(fallback) ==
        {n \in 1..Cardinality(taken) + 3 : CollisionKey(Choice(fallback, n)) \notin taken}
      Earliest(fallback) == Choice(fallback, Min(Free(fallback)))
  IN  Earliest(FallbackIdentifier(kind, i))

\* AssignIdentifiers: in source order.
AssignIdentifiers(kind, englishNames) ==
  LET Next(ids, english) ==
        LET i == Len(ids)
        IN  Append(ids, Assigned(kind, FirstChoice(kind, english, i), i, {CollisionKey(d) : d \in Range(ids)}))
  IN  FoldLeft(Next, <<>>, englishNames)

Collided(kind, englishNames) ==
  LET ids == AssignIdentifiers(kind, englishNames)
  IN  {i \in DOMAIN ids : ids[i] # FirstChoice(kind, englishNames[i], i - 1)}

-----------------------------------------------------------------------------
(* NormalizeTexturePath: a path is a sequence of names, ".", "..", and the  *)
(* separators "/" and "\".                                                  *)

Slashed(path) == [i \in DOMAIN path |-> IF path[i] = "\\" THEN "/" ELSE path[i]]

\* Faulty variant of Step: "..", too, steps out of a "..".
StepOut(segments, token) ==
  CASE token \in {"/", "."} -> segments
    [] token = ".." /\ segments # <<>> -> SubSeq(segments, 1, Len(segments) - 1)
    [] OTHER -> Append(segments, token)

Step(segments, token) ==
  CASE token \in {"/", "."} -> segments
    [] token = ".." /\ segments # <<>> /\ Last(segments) # ".." ->
         SubSeq(segments, 1, Len(segments) - 1)
    [] OTHER -> Append(segments, token)

Segments(path) == FoldLeft(Step, <<>>, path)

\* The asset path below the model's directory, or <<>>; unsafe paths have none.
NormalizeTexturePath(source) ==
  LET path == Slashed(Unpadded(source))
      segments == Segments(path)
      unsafe == \/ \E i \in DOMAIN path : path[i] \in Controls
                \/ path # <<>> /\ (path[1] = "/" \/ path[1] \in Schemes)
                \/ segments # <<>> /\ segments[1] = ".."
  IN  [unsafe |-> unsafe, asset |-> IF unsafe THEN <<>> ELSE segments]
=============================================================================
