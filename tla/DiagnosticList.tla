--------------------------- MODULE DiagnosticList ---------------------------
(***************************************************************************)
(* The bounded list every component collects its recoverable diagnostics    *)
(* in: a code is recorded at most Limit times per table, and what is left   *)
(* out is counted and summed up at the end.  A diagnostic here is           *)
(* [code, table, more], where more is 0 but in a summary.                   *)
(***************************************************************************)
EXTENDS Sequences, SequencesExt, Selecting

CONSTANT Limit   \* kLimit

ASSUME LimitAssumption == Limit \in Nat \ {0}

\* A list: what was recorded, and one tally per code and table, in the order
\* they first appeared.
NoDiagnostics == [list |-> <<>>, tallies |-> <<>>]

\* Faulty variant of SameTally: one tally serves a code in every table.
SameCode(t, code, table) == t.code = code

SameTally(t, code, table) == t.code = code /\ t.table = table

TallyAt(d, code, table) ==
  {i \in DOMAIN d.tallies : SameTally(d.tallies[i], code, table)}

\* _Find: the tally of a code and table, or a new one with nothing seen.
Found(d, code, table) ==
  IF TallyAt(d, code, table) # {} THEN d
  ELSE [d EXCEPT !.tallies = Append(@, [code |-> code, table |-> table, seen |-> 0])]

Diagnostic(code, table, more) == [code |-> code, table |-> table, more |-> more]

\* Add: the list with one more occurrence.
Added(d, code, table) ==
  LET f == Found(d, code, table)
      i == CHOOSE k \in TallyAt(f, code, table) : TRUE
      seen == f.tallies[i].seen + 1
  IN  [tallies |-> [f.tallies EXCEPT ![i].seen = seen],
       list |-> IF seen <= Limit THEN Append(f.list, Diagnostic(code, table, 0)) ELSE f.list]

\* The list after each of these codes and tables was added, in their order;
\* Silence adds nothing.
Silence == <<>>
AddedUpTo(reports) ==
  LET list[n \in 0..Len(reports)] ==
        IF n = 0 THEN NoDiagnostics
        ELSE IF reports[n] = Silence THEN list[n - 1]
        ELSE Added(list[n - 1], reports[n][1], reports[n][2])
  IN  list
AddedAll(reports) == AddedUpTo(reports)[Len(reports)]

Summary(t) == Diagnostic(t.code, t.table, t.seen - Limit)
Over(t) == t.seen > Limit

\* Take: everything recorded, then a summary of each tally over the limit.
Taken(d) ==
  LET over == Selected(d.tallies, {t \in Range(d.tallies) : Over(t)})
  IN  d.list \o [i \in DOMAIN over |-> Summary(over[i])]
=============================================================================
