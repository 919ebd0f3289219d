---------------------------- MODULE PackageOutput ----------------------------
(***************************************************************************)
(* What mmd_export promises about its output path: whoever looks finds what *)
(* was there before or one whole package, and a run replaces it exactly     *)
(* when it reports success.                                                 *)
(***************************************************************************)
CONSTANTS
  Runs,         \* runs of the tool with one output path
  Old,          \* what the path held before
  Whole(_, _)   \* Whole(x, p): p is a whole package that run x may deliver

VARIABLES
  output,   \* what the path holds
  result    \* what became of each run: "running", "packaged" or "stopped"

Init == output = Old /\ result = [x \in Runs |-> "running"]

Deliver(x) ==
  /\ result[x] = "running"
  /\ result' = [result EXCEPT ![x] = "packaged"]
  /\ Whole(x, output')

Stop(x) ==
  /\ result[x] = "running"
  /\ result' = [result EXCEPT ![x] = "stopped"]
  /\ UNCHANGED output

Next == \E x \in Runs : Deliver(x) \/ Stop(x)

Spec == Init /\ [][Next]_<<output, result>>
=============================================================================
