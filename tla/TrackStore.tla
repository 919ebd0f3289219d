----------------------------- MODULE TrackStore -----------------------------
(***************************************************************************)
(* What reading a motion and binding it to a model promises: every key is   *)
(* one write to the element its name means, at its frame, and the last      *)
(* write stands.  Keys that name no element are dropped.                    *)
(***************************************************************************)
EXTENDS Sequences, Functions

CONSTANTS
  Element(_),  \* what a key is for: its kind and the element
  Nameless     \* the element of a key whose name means none

VARIABLES
  keys,   \* the keys so far, in file order: [kind, name, frame, value]
  store   \* what stands: [at, value], at is an element and a frame

Init == keys = <<>> /\ store = {}

Write(k) ==
  LET at == <<Element(k), k.frame>> IN
  /\ keys' = Append(keys, k)
  /\ store' = IF Element(k).element = Nameless THEN store
              ELSE {s \in store : s.at # at} \cup {[at |-> at, value |-> k.value]}

\* The key written is among those there are then.
Next == \E k \in Range(keys') : Write(k)

Spec == Init /\ [][Next]_<<keys, store>>
=============================================================================
