------------------------------- MODULE Cp932 -------------------------------
(***************************************************************************)
(* The CP932 names of a motion: what a fixed field holds, whether it can be *)
(* decoded, and what a model's name is once written to such a field.  A     *)
(* byte is a number and 0 is NUL; a model's name is a sequence of           *)
(* characters.                                                              *)
(***************************************************************************)
EXTENDS Naturals, Sequences, SequencesExt, Selecting

CONSTANTS
  Leads,        \* bytes that start a two-byte character
  Pairs,        \* the pairs <<lead, trail>> that are a character
  Encoded(_)    \* the bytes of a character; <<>> where CP932 has none

ASSUME PairsAssumption == \A p \in Pairs : p[1] \in Leads

\* What precedes the first NUL.
UpToNul(bytes) ==
  LET nuls == {i \in DOMAIN bytes : bytes[i] = 0}
  IN  IF nuls = {} THEN bytes ELSE SubSeq(bytes, 1, Min(nuls) - 1)

\* DecodeCp932, without the text: "decoded", "invalid" at a pair that is no
\* character, or "truncated" where the bytes end in a lead byte.
DecodeCp932(bytes) ==
  LET From[i \in 1..Len(bytes) + 1] ==
        CASE i > Len(bytes) -> "decoded"
          [] i <= Len(bytes) /\ bytes[i] \notin Leads -> From[i + 1]
          [] i = Len(bytes) /\ bytes[i] \in Leads -> "truncated"
          [] i < Len(bytes) /\ bytes[i] \in Leads ->
               IF <<bytes[i], bytes[i + 1]>> \in Pairs THEN From[i + 2] ELSE "invalid"
  IN  From[1]

\* EncodeCp932 has an answer for this name, and that answer.
Encodable(name) == \A i \in DOMAIN name : Encoded(name[i]) # <<>>
EncodeCp932(name) == Chained([i \in DOMAIN name |-> Encoded(name[i])])

\* Faulty variant of FieldBytes: the field is one byte wider than it is.
FieldBytesWide(name, width) ==
  LET bytes == EncodeCp932(name)
  IN  UpToNul(SubSeq(bytes, 1, Min({Len(bytes), width + 1})))

\* FieldBytes of an encodable name: cut to the field, which may tear a
\* character, then at a NUL.
FieldBytes(name, width) ==
  LET bytes == EncodeCp932(name)
  IN  UpToNul(SubSeq(bytes, 1, Min({Len(bytes), width})))
=============================================================================
