--------------------------- MODULE MmdExportProofs ---------------------------
(***************************************************************************)
(* Proofs about MmdExport, for every set of runs, layers and textures: the  *)
(* output path behaves as PackageOutput promises, a run that ends by itself *)
(* leaves nothing behind, and in a package every name of the model leads to *)
(* the image of its own texture.                                            *)
(*                                                                          *)
(* The last needs what each step knows of the names: a name is still to     *)
(* visit, planned or an error (DiscoverOK); the planned names keep apart    *)
(* and say what their files will be (PlanOK); an asset is still to stage or *)
(* staged with an image its texture held (ConvertOK).                       *)
(***************************************************************************)
EXTENDS MmdExport, Induction

Unfailed == {"materialize", "check layer", "package", "check package", "move", "copying", "rename"}

\* What run x has made at step p: its archive z, its file f beside the output;
\* whether it has an error e, and its exit status s.
RunOK(x, p, e, s, d, z, f) ==
  /\ p \in {"check package", "move"} => z.by = x
  /\ p = "move" => Closed(z)
  /\ p \in {"copying", "rename"} => /\ f = [package |-> f.package, whole |-> f.whole]
                                    /\ f.package.by = x /\ Closed(f.package)
  /\ p = "rename" => f.whole = TRUE
  /\ p \in Unfailed => e = FALSE
  /\ p = "done" => /\ f = None /\ d = <<>> /\ z = None
                   /\ s = 0 <=> e = FALSE

RunsOK == \A x \in Runs : RunOK(x, pc[x], error[x], status[x], staged[x], zip[x], partial[x])

Steps == {"start", "discover", "convert", "materialize", "check layer", "package",
          "check package", "move", "copying", "rename", "done", "killed"}

IsFcn(f) == f = [x \in Runs |-> f[x]]

FcnsOK ==
  /\ pc \in [Runs -> Steps] /\ error \in [Runs -> BOOLEAN]
  /\ IsFcn(status) /\ IsFcn(staged) /\ IsFcn(zip) /\ IsFcn(partial)

ExportInv == FcnsOK /\ RunsOK

\* A step of run x leaves the other runs alone.
Own(x) ==
  \A y \in Runs \ {x} :
    /\ pc'[y] = pc[y] /\ error'[y] = error[y] /\ status'[y] = status[y]
    /\ staged'[y] = staged[y] /\ zip'[y] = zip[y] /\ partial'[y] = partial[y]

LEMMA RunsKeep ==
  ASSUME RunsOK, NEW x \in Runs, Own(x),
         RunOK(x, pc'[x], error'[x], status'[x], staged'[x], zip'[x], partial'[x])
  PROVE  RunsOK'
<1> SUFFICES ASSUME NEW y \in Runs
             PROVE  RunOK(y, pc'[y], error'[y], status'[y], staged'[y], zip'[y], partial'[y])
  BY DEF RunsOK
<1>1. CASE y = x
  BY <1>1
<1>2. CASE y # x
  BY <1>2 DEF RunsOK, Own
<1> QED
  BY <1>1, <1>2

\* A step of run x, as every proof about one uses it.
StepOf(x) == FcnsOK' /\ Own(x) /\ RunOK(x, pc'[x], error'[x], status'[x], staged'[x], zip'[x], partial'[x])

LEMMA EndStep ==
  ASSUME FcnsOK, NEW x \in Runs, NEW code, End(x, code),
         \/ code = 0 /\ error[x] = FALSE /\ UNCHANGED error
         \/ code # 0 /\ error' = [error EXCEPT ![x] = TRUE]
         \/ code # 0 /\ error[x] = TRUE /\ UNCHANGED error
  PROVE  StepOf(x) /\ pc'[x] = "done" /\ status'[x] = code
<1>1. FcnsOK' /\ pc'[x] = "done" /\ status'[x] = code
  BY DEF FcnsOK, End, IsFcn, Steps
<1>2. Own(x)
  BY DEF FcnsOK, End, IsFcn, Own
<1>3. partial'[x] = None /\ staged'[x] = <<>> /\ zip'[x] = None
  BY DEF FcnsOK, End, IsFcn
<1>4. code = 0 <=> error'[x] = FALSE
  BY DEF FcnsOK
<1> QED
  BY <1>1, <1>2, <1>3, <1>4 DEF StepOf, RunOK, Unfailed

LEMMA CodesFail == NotPackaged # 0 /\ NotReadOrWritten # 0
BY DEF NotPackaged, NotReadOrWritten

LEMMA InitOK == Init => ExportInv
BY DEF Init, ExportInv, FcnsOK, RunsOK, RunOK, IsFcn, Steps, Unfailed

LEMMA RunStep ==
  ASSUME ExportInv, NEW x \in Runs, Step(x)
  PROVE  StepOf(x)
<1>0. RunOK(x, pc[x], error[x], status[x], staged[x], zip[x], partial[x]) /\ FcnsOK
  BY DEF ExportInv, RunsOK
<1>1. ASSUME NEW m \in Models, NEW p \in BOOLEAN, OpenModel(x, m, p) PROVE StepOf(x)
  BY <1>0, <1>1, ModelsAssumption
     DEF OpenModel, StepOf, FcnsOK, Own, IsFcn, Steps, RunOK, Unfailed
<1>2. CASE DiscoverTexture(x)
  BY <1>0, <1>2 DEF DiscoverTexture, StepOf, FcnsOK, Own, IsFcn, Steps, RunOK, Unfailed
<1>3. CASE Discovered(x)
  <2>1. CASE error' = [error EXCEPT ![x] = TRUE] /\ End(x, NotPackaged)
    BY <1>0, <2>1, EndStep, CodesFail
  <2>2. CASE /\ pc' = [pc EXCEPT ![x] = "convert"]
             /\ UNCHANGED <<error, staged, zip, partial, status>>
    BY <1>0, <2>2 DEF StepOf, FcnsOK, Own, IsFcn, Steps, RunOK, Unfailed
  <2> QED
    BY <1>3, <2>1, <2>2 DEF Discovered
<1>4. CASE StageTexture(x)
  BY <1>0, <1>4 DEF StageTexture, StepOf, FcnsOK, Own, IsFcn, Steps, RunOK, Unfailed
<1>5. CASE Converted(x)
  <2>1. CASE error[x] /\ End(x, NotPackaged) /\ UNCHANGED error
    <3>1. error[x] = TRUE
      BY <1>0, <2>1 DEF FcnsOK
    <3> QED
      BY <1>0, <2>1, <3>1, EndStep, CodesFail
  <2>2. CASE /\ ~error[x] /\ pc' = [pc EXCEPT ![x] = "materialize"]
             /\ UNCHANGED <<error, staged, zip, partial, status>>
    BY <1>0, <2>2 DEF StepOf, FcnsOK, Own, IsFcn, Steps, RunOK, Unfailed
  <2> QED
    BY <1>5, <2>1, <2>2 DEF Converted
<1>6. CASE Materialize(x)
  BY <1>0, <1>6 DEF Materialize, StepOf, FcnsOK, Own, IsFcn, Steps, RunOK, Unfailed
<1>7. CASE LayerIsValid(x)
  BY <1>0, <1>7 DEF LayerIsValid, run, StepOf, FcnsOK, Own, IsFcn, Steps, RunOK, Unfailed
<1>8. CASE WritePackage(x)
  BY <1>0, <1>8 DEF WritePackage, StepOf, FcnsOK, Own, IsFcn, Steps, RunOK, Unfailed
<1>9. CASE PackageIsValid(x)
  BY <1>0, <1>9 DEF PackageIsValid, run, StepOf, FcnsOK, Own, IsFcn, Steps, RunOK, Unfailed
<1>10. CASE Invalid(x)
  BY <1>0, <1>10, EndStep, CodesFail DEF Invalid
<1>11. CASE CopyBeside(x)
  BY <1>0, <1>11 DEF CopyBeside, run, StepOf, FcnsOK, Own, IsFcn, Steps, RunOK, Unfailed
<1>12. CASE CopyDone(x)
  BY <1>0, <1>12 DEF CopyDone, run, StepOf, FcnsOK, Own, IsFcn, Steps, RunOK, Unfailed
<1>13. CASE Replace(x)
  BY <1>0, <1>13, EndStep DEF Replace, ReadyToRename, RunOK, Unfailed
<1>14. CASE Unwritable(x)
  BY <1>0, <1>14, EndStep, CodesFail DEF Unwritable
<1>15. CASE Killed(x)
  BY <1>0, <1>15 DEF Killed, run, StepOf, FcnsOK, Own, IsFcn, Steps, RunOK, Unfailed
<1> QED
  BY <1>1, <1>2, <1>3, <1>4, <1>5, <1>6, <1>7, <1>8, <1>9, <1>10, <1>11, <1>12, <1>13, <1>14, <1>15
  DEF Step

LEMMA InvNext == ExportInv /\ [Next]_vars => ExportInv'
<1> SUFFICES ASSUME ExportInv, [Next]_vars PROVE ExportInv'
  OBVIOUS
<1>1. ASSUME NEW x \in Runs, StepOf(x) PROVE ExportInv'
  BY <1>1, RunsKeep DEF StepOf, ExportInv
<1>2. CASE UNCHANGED <<pc, run, partial, status>>
  BY <1>2 DEF run, ExportInv, FcnsOK, RunsOK
<1>3. CASE UNCHANGED vars
  BY <1>2, <1>3 DEF vars
<1>4. CASE \E c \in Changes : Change(c[1], c[2])
  BY <1>2, <1>4 DEF Change
<1> QED
  BY <1>1, <1>3, <1>4, RunStep DEF Next

LEMMA ExportIsInductive == Spec => []ExportInv
<1> QED
  BY InitOK, InvNext, PTL DEF Spec

\* A run that ends by itself leaves no file of its own behind, and its exit
\* status is 0 exactly when it reported no error (Scratch's destructor and the
\* removals of MoveIntoPlace).
THEOREM NothingIsLeftBehind == Spec => []NothingLeftBehind
<1>1. ExportInv => NothingLeftBehind
  <2> SUFFICES ASSUME ExportInv, NEW x \in Runs, pc[x] = "done"
               PROVE  /\ partial[x] = None /\ staged[x] = <<>> /\ zip[x] = None
                      /\ status[x] = 0 <=> ~error[x]
    BY DEF NothingLeftBehind
  <2>1. RunOK(x, pc[x], error[x], status[x], staged[x], zip[x], partial[x])
    BY DEF ExportInv, RunsOK
  <2>2. error[x] \in BOOLEAN
    BY DEF ExportInv, FcnsOK
  <2>3. error[x] = FALSE <=> ~error[x]
    BY <2>2, Zenon
  <2> QED
    BY <2>1, <2>3 DEF RunOK
<1> QED
  BY <1>1, ExportIsInductive, PTL

-----------------------------------------------------------------------------
(* The output path *)

\* What one step of run x is for whoever looks at the output.
ResultOf(p, s) ==
  IF p = "done" /\ s = 0 THEN "packaged"
  ELSE IF p \in {"done", "killed"} THEN "stopped" ELSE "running"

LEMMA ResultIs ==
  /\ Result = [x \in Runs |-> ResultOf(pc[x], status[x])]
  /\ Result' = [x \in Runs |-> ResultOf(pc'[x], status'[x])]
BY DEF Result, ResultOf

\* A step of run x that does not replace the output.
LEMMA SilentStep ==
  ASSUME ExportInv, NEW x \in Runs, StepOf(x), UNCHANGED output, pc[x] \notin {"done", "killed"},
         ~(pc'[x] = "done" /\ status'[x] = 0)
  PROVE  Promise!Stop(x) \/ UNCHANGED <<output, Result>>
<1>1. \A y \in Runs \ {x} : ResultOf(pc'[y], status'[y]) = ResultOf(pc[y], status[y])
  BY DEF StepOf, Own
<1>2. ResultOf(pc[x], status[x]) = "running"
  BY DEF ResultOf
<1>3. CASE pc'[x] \in {"done", "killed"}
  <2>1. ResultOf(pc'[x], status'[x]) = "stopped"
    BY <1>3 DEF ResultOf
  <2>2. Result' = [Result EXCEPT ![x] = "stopped"]
    BY <1>1, <2>1, ResultIs
  <2> QED
    BY <1>2, <2>2, ResultIs DEF Promise!Stop
<1>4. CASE pc'[x] \notin {"done", "killed"}
  <2>1. ResultOf(pc'[x], status'[x]) = "running"
    BY <1>4 DEF ResultOf
  <2> QED
    BY <1>1, <1>2, <2>1, ResultIs
<1> QED
  BY <1>3, <1>4

\* The rename is the only step of a run that an onlooker can see succeed.
LEMMA ReplaceStep ==
  ASSUME ExportInv, NEW x \in Runs, StepOf(x), Replace(x)
  PROVE  Promise!Deliver(x)
<1>1. RunOK(x, pc[x], error[x], status[x], staged[x], zip[x], partial[x]) /\ pc[x] = "rename"
  BY DEF ExportInv, RunsOK, Replace, ReadyToRename
<1>2. WholeFile(x, partial[x])
  BY <1>1 DEF RunOK, WholeFile
<1>3. WholeFile(x, output')
  BY <1>2 DEF Replace
<1>4. pc'[x] = "done" /\ status'[x] = 0
  BY DEF Replace, End, ExportInv, FcnsOK, IsFcn
<1>5. \A y \in Runs \ {x} : ResultOf(pc'[y], status'[y]) = ResultOf(pc[y], status[y])
  BY DEF StepOf, Own
<1>6. ResultOf(pc[x], status[x]) = "running" /\ ResultOf(pc'[x], status'[x]) = "packaged"
  <2>1. ResultOf(pc[x], status[x]) = "running"
    BY <1>1 DEF ResultOf
  <2>2. ResultOf(pc'[x], status'[x]) = "packaged"
    BY <1>4 DEF ResultOf
  <2> QED
    BY <2>1, <2>2
<1>7. Result[x] = "running" /\ Result' = [Result EXCEPT ![x] = "packaged"]
  BY <1>5, <1>6, ResultIs
<1> QED
  BY <1>3, <1>7 DEF Promise!Deliver

LEMMA StepIsPromised ==
  ASSUME ExportInv, NEW x \in Runs, Step(x)
  PROVE  [Promise!Next]_<<output, Result>>
<1>1. StepOf(x)
  BY RunStep
<1>2. CASE Replace(x)
  BY <1>1, <1>2, ReplaceStep DEF Promise!Next
<1>3. CASE ~Replace(x)
  <2>1. UNCHANGED output /\ pc[x] \notin {"done", "killed"}
    BY <1>3 DEF Step, OpenModel, DiscoverTexture, Discovered, StageTexture, Converted, Materialize,
                LayerIsValid, WritePackage, PackageIsValid, Invalid, CopyBeside, CopyDone,
                Unwritable, Killed
  <2>2. End(x, NotPackaged) \/ End(x, NotReadOrWritten) \/ pc'[x] # "done"
    <3>1. pc \in [Runs -> Steps]
      BY DEF ExportInv, FcnsOK
    <3> QED
      BY <1>3, <2>1, <3>1
         DEF Step, OpenModel, DiscoverTexture, Discovered, StageTexture, Converted, Materialize,
             LayerIsValid, WritePackage, PackageIsValid, Invalid, CopyBeside, CopyDone,
             Unwritable, Killed
  <2>3. \A code : End(x, code) => status'[x] = code
    BY DEF End, ExportInv, FcnsOK, IsFcn
  <2>4. ~(pc'[x] = "done" /\ status'[x] = 0)
    BY <2>2, <2>3, CodesFail
  <2> QED
    BY <1>1, <2>1, <2>4, SilentStep DEF Promise!Next
<1> QED
  BY <1>2, <1>3

LEMMA PromiseInit == Init => Promise!Init
BY DEF Init, Promise!Init, Result

\* Whatever fails, whoever is killed and however runs overlap: the output path
\* holds what it held or a whole package, and status 0 means replaced
\* (MoveIntoPlace's rename and Run's order).
THEOREM OutputIsWhole == Spec => OutputIsReplacedWhole
<1>1. ExportInv /\ [Next]_vars => [Promise!Next]_<<output, Result>>
  <2> SUFFICES ASSUME ExportInv, [Next]_vars PROVE [Promise!Next]_<<output, Result>>
    OBVIOUS
  <2>1. CASE UNCHANGED <<pc, status, output>>
    BY <2>1, ResultIs
  <2>2. CASE UNCHANGED vars
    BY <2>1, <2>2 DEF vars
  <2>3. CASE \E c \in Changes : Change(c[1], c[2])
    BY <2>1, <2>3 DEF Change
  <2> QED
    BY <2>2, <2>3, StepIsPromised DEF Next
<1> QED
  BY <1>1, PromiseInit, ExportIsInductive, PTL DEF OutputIsReplacedWhole, Promise!Spec, Spec

-----------------------------------------------------------------------------
(* Sorting *)

\* A finite set of paths has one order.
LEMMA OrderExists ==
  ASSUME NEW S \in SUBSET Paths, IsFiniteSet(S)
  PROVE  \E s \in Bijection(1..Cardinality(S), S) :
           \A i, k \in DOMAIN s : i < k => Precedes(s[i], s[k])
<1> DEFINE R == {p \in S \X S : Precedes(p[1], p[2])}
           n == Cardinality(S)
           s == OrderedBy(S, R)
<1>1. \A p, q \in S : <<p, q>> \in R <=> Precedes(p, q)
  OBVIOUS
<1>2. StrictOrder(S, R)
  <2> HIDE DEF R
  <2> QED BY <1>1, PathsAssumption DEF StrictOrder
<1>3. /\ s \in [1..n -> S] /\ InOrderOf(R, s, n)
      /\ \A i, k \in 1..n : s[i] = s[k] => i = k
      /\ \A p \in S : \E i \in 1..n : s[i] = p
  <2> HIDE DEF R
  <2> QED BY <1>2, OrderedIs
<1> HIDE DEF R, s, n
<1>4. s \in Bijection(1..n, S)
  BY <1>3 DEF Bijection, Injection, Surjection, IsInjective
<1>5. \A i, k \in DOMAIN s : i < k => Precedes(s[i], s[k])
  <2>1. DOMAIN s = 1..n /\ \A i \in 1..n : s[i] \in S
    BY <1>3
  <2> QED BY <1>1, <1>3, <2>1 DEF InOrderOf
<1> QED BY <1>4, <1>5 DEF n

LEMMA SortedIs ==
  ASSUME NEW S \in SUBSET Paths, IsFiniteSet(S)
  PROVE  /\ Sorted(S) \in [1..Cardinality(S) -> S]
         /\ \A i, k \in 1..Cardinality(S) : Sorted(S)[i] = Sorted(S)[k] => i = k
         /\ \A p \in S : \E i \in 1..Cardinality(S) : Sorted(S)[i] = p
<1> DEFINE Ascends(s) == \A i, k \in DOMAIN s : i < k => Precedes(s[i], s[k])
<1>1. \E s \in Bijection(1..Cardinality(S), S) : Ascends(s)
  BY OrderExists
<1>2. Sorted(S) = CHOOSE s \in Bijection(1..Cardinality(S), S) : Ascends(s)
  BY DEF Sorted
<1> HIDE DEF Ascends
<1>3. Sorted(S) \in Bijection(1..Cardinality(S), S)
  BY <1>1, <1>2
<1> QED BY <1>3 DEF Bijection, Injection, Surjection, IsInjective

\* Sorting by archive name only moves textures about, when they have one each.
LEMMA ByArchiveIs ==
  ASSUME NEW T, NEW assets \in Seq(T),
         \A i \in DOMAIN assets : assets[i].archive \in Paths,
         \A i, k \in DOMAIN assets : assets[i].archive = assets[k].archive => i = k
  PROVE  \E f \in Bijection(DOMAIN assets, DOMAIN assets) :
           ByArchive(assets) = [i \in DOMAIN assets |-> assets[f[i]]]
<1> DEFINE D == DOMAIN assets
           n == Len(assets)
           name == [i \in D |-> assets[i].archive]
           A == {name[i] : i \in D}
           Ascends(f) == \A i, k \in D : i < k => ~Precedes(assets[f[k]].archive, assets[f[i]].archive)
<1>1. n \in Nat /\ D = 1..n /\ IsFiniteSet(D) /\ Cardinality(D) = n
  BY SequenceShape, FS_Interval
<1>2. name \in Bijection(D, A)
  <2>1. name \in [D -> A] /\ \A i, k \in D : name[i] = name[k] => i = k
    OBVIOUS
  <2>2. \A p \in A : \E i \in D : name[i] = p
    OBVIOUS
  <2> HIDE DEF name, A, D
  <2> QED BY <2>1, <2>2 DEF Bijection, Injection, Surjection, IsInjective
<1>3. IsFiniteSet(A) /\ Cardinality(A) = n
  <2> HIDE DEF name, A, D
  <2> QED BY <1>1, <1>2, FS_Bijection DEF ExistsBijection
<1>4. A \in SUBSET Paths
  OBVIOUS
<1>5. PICK s \in Bijection(D, A) : \A i, k \in D : i < k => Precedes(s[i], s[k])
  <2> HIDE DEF A, D
  <2>1. PICK s \in Bijection(1..n, A) : \A i, k \in DOMAIN s : i < k => Precedes(s[i], s[k])
    BY <1>3, <1>4, OrderExists
  <2>2. DOMAIN s = D
    BY <1>1 DEF Bijection, Injection
  <2> QED BY <1>1, <2>1, <2>2
<1>6. /\ s \in [D -> A] /\ \A i, k \in D : s[i] = s[k] => i = k
      /\ \A p \in A : \E i \in D : s[i] = p
  <2> HIDE DEF A, D
  <2> QED BY <1>5 DEF Bijection, Injection, Surjection, IsInjective
<1> DEFINE f == [i \in D |-> CHOOSE k \in D : name[k] = s[i]]
<1>7. ASSUME NEW i \in D PROVE f[i] \in D /\ name[f[i]] = s[i]
  <2>1. \E k \in D : name[k] = s[i]
    BY <1>6
  <2> HIDE DEF name, D
  <2> QED BY <2>1
<1>8. f \in Bijection(D, D)
  <2>1. f \in [D -> D]
    BY <1>7
  <2>2. \A i, k \in D : f[i] = f[k] => i = k
    <3> HIDE DEF f, name, D
    <3> QED BY <1>6, <1>7
  <2>3. \A k \in D : \E i \in D : f[i] = k
    <3> TAKE k \in D
    <3>1. PICK i \in D : s[i] = name[k]
      BY <1>6
    <3>2. name[f[i]] = name[k] /\ f[i] \in D
      BY <1>7, <3>1
    <3>3. f[i] = k
      <4> HIDE DEF f
      <4> QED BY <3>2
    <3> HIDE DEF f, D
    <3> QED BY <3>3
  <2> HIDE DEF f, D
  <2> QED BY <2>1, <2>2, <2>3 DEF Bijection, Injection, Surjection, IsInjective
<1>9. Ascends(f)
  <2> TAKE i, k \in D
  <2>1. SUFFICES ASSUME i < k, Precedes(assets[f[k]].archive, assets[f[i]].archive) PROVE FALSE
    OBVIOUS
  <2>2. assets[f[k]].archive = s[k] /\ assets[f[i]].archive = s[i]
    <3> HIDE DEF f
    <3> QED BY <1>7
  <2>3. s[i] \in Paths /\ s[k] \in Paths /\ Precedes(s[i], s[k])
    BY <1>4, <1>5, <1>6, <2>1
  <2> HIDE DEF f
  <2> QED BY <2>1, <2>2, <2>3, PathsAssumption
<1> DEFINE place == CHOOSE g \in Bijection(D, D) : Ascends(g)
<1>10. place \in Bijection(D, D)
  <2> HIDE DEF Ascends, f, D
  <2> QED BY <1>8, <1>9
<1>11. ByArchive(assets) = [i \in D |-> assets[place[i]]]
  BY DEF ByArchive
<1> HIDE DEF place
<1> QED BY <1>10, <1>11

-----------------------------------------------------------------------------
(* Names and images *)

KeptExtensions == {"png", "jpg", "jpeg", "exr", "avif"}
Assets(m) == [authored : NameSet(m), archive : Paths, action : {"keep", "rename", "convert"}]

\* What the facts below look at outside a run.
World ==
  [seen |-> seen, disk |-> disk, changes |-> changes, model |-> model,
   begun |-> {x \in Runs : pc[x] # "start"}]

FileIn(w, p) == IF p \in DOMAIN w.disk THEN w.disk[p] ELSE None

\* What the file of an asset becomes.
Made(a, file) == IF a.action = "convert" THEN [file EXCEPT !.format = "png"] ELSE file

\* The name an asset is stored under says what its file will be.
Told(a, w) ==
  w.changes = 0 => /\ FileIn(w, a.authored) # None
                   /\ FormatIsTold([path |-> a.archive, file |-> Made(a, FileIn(w, a.authored))])

\* An asset has the name its texture was authored under, or that name with a suffix.
StoredAs(a) ==
  /\ Extension(a.archive) \in KeptExtensions
  /\ IF a.action = "keep" THEN a.archive = a.authored
     ELSE \E ext \in {"png", "jpg"} : a.archive = WithSuffix(a.authored, ext)

\* The image of file e is one that texture n held at some time.
Held(n, file, w) == \E s \in w.seen : s[1] = n /\ s[2] # None /\ s[2].image = file.image

EntryOK(n, e, w) == Held(n, e.file, w) /\ (w.changes = 0 => FormatIsTold(e))

\* A package in which every one of the names leads to its image.
Sound(p, names, w) ==
  /\ \A i \in DOMAIN names : \A k \in DOMAIN p.entries :
       p.entries[k].path = p.names[i] => Held(names[i], p.entries[k].file, w)
  /\ \A k, l \in DOMAIN p.entries :
       /\ ~Below(p.entries[k].path, p.entries[l].path)
       /\ k # l => p.entries[k].path # p.entries[l].path
  /\ w.changes = 0 => \A k \in DOMAIN p.entries : FormatIsTold(p.entries[k])

PackageOK(p, w) == p.by \in w.begun /\ Sound(p, w.model[p.by].names, w)

\* Each name is still to visit, planned once, or an error.
DiscoverOK(r, w) ==
  /\ r.model \in Models /\ r.portable \in BOOLEAN
  /\ r.todo \in Seq(NameSet(r.model)) /\ r.plan \in Seq(Assets(r.model))
  /\ \A i, k \in DOMAIN r.todo : r.todo[i] = r.todo[k] => i = k
  /\ \A i, k \in DOMAIN r.plan : r.plan[i].authored = r.plan[k].authored => i = k
  /\ \A i \in DOMAIN r.plan : \A k \in DOMAIN r.todo : r.plan[i].authored # r.todo[k]
  /\ \A i \in DOMAIN r.plan :
       Plain(r.plan[i].authored) /\ StoredAs(r.plan[i]) /\ Told(r.plan[i], w)
  /\ r.error = FALSE => \A n \in NameSet(r.model) :
       \/ \E i \in DOMAIN r.todo : r.todo[i] = n
       \/ \E i \in DOMAIN r.plan : r.plan[i].authored = n

\* A name apart from root: neither it, nor a directory of it, nor below it.
Apart(p, root) == p # root /\ ~Below(root, p) /\ ~Below(p, root)

\* Every name has an asset, and the names of assets and of the layer keep apart.
Ready(assets, m, root, w) ==
  /\ assets \in Seq(Assets(m))
  /\ \A i \in DOMAIN assets :
       Plain(assets[i].archive) /\ Told(assets[i], w) /\ Apart(assets[i].archive, root)
  /\ \A i, k \in DOMAIN assets :
       /\ ~Below(assets[i].archive, assets[k].archive)
       /\ assets[i].archive = assets[k].archive => i = k
       /\ assets[i].authored = assets[k].authored => i = k
  /\ \A n \in NameSet(m) : \E i \in DOMAIN assets : assets[i].authored = n

PlanOK(r, w) ==
  r.model \in Models /\ r.portable \in BOOLEAN /\ Ready(r.plan, r.model, RootOf(r.portable), w)

StagedOK(r, a, w) ==
  /\ a.archive \in DOMAIN r.staged
  /\ EntryOK(a.authored, [path |-> a.archive, file |-> r.staged[a.archive]], w)

ConvertOK(r, w) ==
  /\ r.todo \in Seq(Assets(r.model))
  /\ \A k \in DOMAIN r.todo : \E i \in DOMAIN r.plan : r.todo[k] = r.plan[i]
  /\ r.error = FALSE =>
       \A i \in DOMAIN r.plan : (\E k \in DOMAIN r.todo : r.todo[k] = r.plan[i]) \/ StagedOK(r, r.plan[i], w)

\* A run, as the facts below look at it.
At(x) ==
  [pc |-> pc[x], model |-> model[x], portable |-> portable[x], todo |-> todo[x], plan |-> plan[x],
   error |-> error[x], staged |-> staged[x], layer |-> layer[x], zip |-> zip[x],
   package |-> partial[x].package]

NamesOK(r, w) ==
  /\ \A p \in DOMAIN r.staged : Plain(p)
  /\ r.pc = "start" => r.plan = <<>>
  /\ r.pc = "discover" => DiscoverOK(r, w)
  /\ r.pc \in {"convert", "materialize", "check layer", "package"} => PlanOK(r, w)
  /\ r.pc = "convert" => ConvertOK(r, w)
  /\ r.pc \in {"materialize", "check layer", "package"} =>
       \A i \in DOMAIN r.plan : StagedOK(r, r.plan[i], w)
  /\ r.pc \in {"check layer", "package"} =>
       r.layer = [i \in DOMAIN r.model.names |-> Renamed(r.model.names[i], r.plan)]
  /\ r.pc \in {"check package", "move"} => PackageOK(r.zip, w)
  /\ r.pc \in {"copying", "rename"} => PackageOK(r.package, w)

WorldOK(w) ==
  /\ w.changes \in Nat
  /\ w.disk = [p \in DOMAIN w.disk |-> w.disk[p]]
  /\ \A p \in DOMAIN w.disk : (w.disk[p] = None \/ IsFile(w.disk[p])) /\ <<p, w.disk[p]>> \in w.seen

MoreFcnsOK ==
  /\ portable \in [Runs -> BOOLEAN]
  /\ IsFcn(model) /\ IsFcn(todo) /\ IsFcn(plan) /\ IsFcn(layer)

NamesInv ==
  /\ MoreFcnsOK
  /\ WorldOK(World)
  /\ \A x \in Runs : NamesOK(At(x), World)
  /\ output # Old => PackageOK(output.package, World)

\* What is behind world w when it has become v.
Later(w, v) ==
  /\ w.seen \subseteq v.seen
  /\ v.changes = 0 => w.changes = 0 /\ v.disk = w.disk
  /\ \A y \in w.begun : y \in v.begun /\ v.model[y] = w.model[y]

LEMMA ToldLasts ==
  ASSUME NEW a, NEW w, NEW v, Later(w, v), Told(a, w)
  PROVE  Told(a, v)
BY DEF Later, Told, FileIn

LEMMA HeldLasts ==
  ASSUME NEW n, NEW f, NEW w, NEW v, Later(w, v), Held(n, f, w)
  PROVE  Held(n, f, v)
BY DEF Later, Held

LEMMA EntryLasts ==
  ASSUME NEW n, NEW e, NEW w, NEW v, Later(w, v), EntryOK(n, e, w)
  PROVE  EntryOK(n, e, v)
<1>1. v.changes = 0 => w.changes = 0
  BY DEF Later
<1> QED BY <1>1, HeldLasts DEF EntryOK

LEMMA PackageLasts ==
  ASSUME NEW p, NEW w, NEW v, Later(w, v), PackageOK(p, w)
  PROVE  PackageOK(p, v)
<1> DEFINE names == w.model[p.by].names
<1>1. p.by \in v.begun /\ v.model[p.by] = w.model[p.by] /\ (v.changes = 0 => w.changes = 0)
  BY DEF Later, PackageOK
<1>2. Sound(p, names, w)
  BY DEF PackageOK
<1>3. Sound(p, names, v)
  <2> HIDE DEF names
  <2> QED BY <1>1, <1>2, HeldLasts DEF Sound
<1> QED BY <1>1, <1>3 DEF PackageOK

LEMMA NamesLast ==
  ASSUME NEW r, NEW w, NEW v, Later(w, v), NamesOK(r, w)
  PROVE  NamesOK(r, v)
<1>1. DiscoverOK(r, w) => DiscoverOK(r, v)
  BY ToldLasts DEF DiscoverOK
<1>2. PlanOK(r, w) => PlanOK(r, v)
  BY ToldLasts DEF PlanOK, Ready
<1>3. \A a : StagedOK(r, a, w) => StagedOK(r, a, v)
  BY EntryLasts DEF StagedOK
<1>4. ConvertOK(r, w) => ConvertOK(r, v)
  BY <1>3 DEF ConvertOK
<1>5. \A p : PackageOK(p, w) => PackageOK(p, v)
  BY PackageLasts
<1> QED BY <1>1, <1>2, <1>3, <1>4, <1>5 DEF NamesOK

\* A path is a sequence of segments, and a segment one of labels.
LEMMA PathShape ==
  ASSUME NEW p \in Paths
  PROVE  /\ p \in Seq(Seq(STRING)) /\ Len(p) \in Nat /\ DOMAIN p = 1..Len(p)
         /\ \A i \in 1..Len(p) : p[i] \in Seq(STRING) /\ Len(p[i]) \in Nat
BY PathsAssumption

\* What a suffix does to a name: to its last segment it adds a label.
LEMMA SuffixShape ==
  ASSUME NEW p \in Paths, p # <<>>, NEW ext
  PROVE  LET q == WithSuffix(p, ext) IN
         /\ Len(p) \in Nat \ {0} /\ Len(q) = Len(p) /\ DOMAIN q = 1..Len(p) 
         /\ \A i \in 1..Len(p) : i < Len(p) => q[i] = p[i]
         /\ Len(p[Len(p)]) \in Nat
         /\ q[Len(p)] = [i \in 1..(Len(p[Len(p)]) + 1) |->
                           IF i = Len(p[Len(p)]) + 1 THEN ext ELSE p[Len(p)][i]]
         /\ Len(q[Len(p)]) = Len(p[Len(p)]) + 1
<1> DEFINE q == WithSuffix(p, ext)
           n == Len(p)
           s == p[n]
<1>1. n \in Nat \ {0} /\ DOMAIN p = 1..n /\ s \in Seq(STRING) /\ Len(s) \in Nat
  BY PathShape
<1>2. q = [p EXCEPT ![n] = Append(s, ext)]
  BY DEF WithSuffix
<1>3. q = [i \in 1..n |-> IF i = n THEN Append(s, ext) ELSE p[i]]
  BY <1>1, <1>2
<1>4. Append(s, ext) = [i \in 1..(Len(s) + 1) |-> IF i = Len(s) + 1 THEN ext ELSE s[i]]
  BY <1>1
<1>5. Len(Append(s, ext)) = Len(s) + 1
  BY <1>1
<1> HIDE DEF q, n, s
<1>6. Len(q) = n /\ DOMAIN q = 1..n
  <2>1. DOMAIN q = 1..n
    BY <1>3
  <2>2. q \in [1..n -> {q[i] : i \in 1..n}]
    <3>1. q = [i \in 1..n |-> q[i]]
      BY <1>3
    <3> QED BY <3>1
  <2>3. q \in Seq({q[i] : i \in 1..n})
    BY <1>1, <2>2
  <2> QED BY <1>1, <2>1, <2>3
<1>7. q[n] = Append(s, ext) /\ \A i \in 1..n : i < n => q[i] = p[i]
  BY <1>1, <1>3
<1>8. /\ n \in Nat \ {0} /\ Len(q) = n /\ DOMAIN q = 1..n
      /\ \A i \in 1..n : i < n => q[i] = p[i]
      /\ Len(s) \in Nat
      /\ q[n] = [i \in 1..(Len(s) + 1) |-> IF i = Len(s) + 1 THEN ext ELSE s[i]]
      /\ Len(q[n]) = Len(s) + 1
  BY <1>1, <1>4, <1>5, <1>6, <1>7
<1> QED BY <1>8 DEF q, n, s

\* A name with a suffix is as plain as it was, and its extension is the suffix.
LEMMA SuffixIsPlain ==
  ASSUME NEW p \in Paths, Plain(p), NEW ext
  PROVE  Plain(WithSuffix(p, ext)) /\ Extension(WithSuffix(p, ext)) = ext
<1> DEFINE q == WithSuffix(p, ext)
           n == Len(p)
<1>0. p # <<>>
  BY DEF Plain
<1>1. /\ n \in Nat \ {0} /\ Len(q) = n /\ DOMAIN q = 1..n
      /\ \A i \in 1..n : i < n => q[i] = p[i]
      /\ Len(p[n]) \in Nat
      /\ q[n] = [i \in 1..(Len(p[n]) + 1) |-> IF i = Len(p[n]) + 1 THEN ext ELSE p[n][i]]
      /\ Len(q[n]) = Len(p[n]) + 1
  BY <1>0, SuffixShape
<1>2. DOMAIN p = 1..n /\ \A i \in 1..n : p[i] \in Seq(STRING) /\ p[i] \notin {<<>>, <<".">>, <<"..">>}
  BY PathShape DEF Plain
<1> HIDE DEF q, n
<1>3. Len(p[n]) # 0
  BY <1>1, <1>2
<1>4. Len(q[n]) > 1 /\ q[n][Len(q[n])] = ext
  BY <1>1, <1>3
<1>5. Len(<<>>) = 0 /\ Len(<<".">>) = 1 /\ Len(<<"..">>) = 1
  OBVIOUS
<1>6. q[n] \notin {<<>>, <<".">>, <<"..">>}
  BY <1>4, <1>5
<1>7. \A i \in 1..n : q[i] \notin {<<>>, <<".">>, <<"..">>}
  <2> TAKE i \in 1..n
  <2>1. CASE i = n
    BY <1>6, <2>1
  <2>2. CASE i # n
    <3>1. i < n
      BY <1>1, <2>2
    <3>2. q[i] = p[i]
      BY <1>1, <3>1
    <3> QED BY <1>2, <3>2
  <2> QED BY <2>1, <2>2
<1>8. q # <<>>
  BY <1>1
<1>9. Plain(q)
  BY <1>1, <1>7, <1>8 DEF Plain
<1>10. Last(q) = q[n] /\ Last(q[n]) = ext
  BY <1>1, <1>4 DEF Last
<1>11. Extension(q) = ext
  BY <1>4, <1>10 DEF Extension
<1> QED BY <1>9, <1>11 DEF q

\* What is a directory of a name with a suffix is one of the name.
LEMMA BelowSuffix ==
  ASSUME NEW p \in Paths, NEW r \in Paths, r # <<>>, NEW ext, Below(p, WithSuffix(r, ext))
  PROVE  Below(p, r)
<1> DEFINE q == WithSuffix(r, ext)
           n == Len(r)
<1>1. n \in Nat \ {0} /\ Len(q) = n /\ DOMAIN q = 1..n /\ \A i \in 1..n : i < n => q[i] = r[i]
  BY SuffixShape
<1>2. Len(p) < n /\ SubSeq(q, 1, Len(p)) = p /\ Len(p) \in Nat
  BY <1>1, PathShape DEF Below
<1> HIDE DEF q, n
<1>3. SubSeq(q, 1, Len(p)) = [i \in 1..Len(p) |-> q[i]]
  BY <1>2
<1>4. SubSeq(r, 1, Len(p)) = [i \in 1..Len(p) |-> r[i]]
  BY <1>2
<1>5. \A i \in 1..Len(p) : q[i] = r[i]
  BY <1>1, <1>2
<1>6. SubSeq(r, 1, Len(p)) = p
  BY <1>2, <1>3, <1>4, <1>5
<1> QED BY <1>2, <1>6 DEF Below, n

\* Suffixes do not make two names one.
LEMMA SuffixesApart ==
  ASSUME NEW p \in Paths, NEW r \in Paths, p # <<>>, r # <<>>, NEW e, NEW f,
         WithSuffix(p, e) = WithSuffix(r, f)
  PROVE  p = r
<1> DEFINE q == WithSuffix(p, e)
           n == Len(p)
           k == Len(p[n])
<1>1. /\ n \in Nat \ {0} /\ Len(q) = n
      /\ \A i \in 1..n : i < n => q[i] = p[i]
      /\ k \in Nat /\ Len(q[n]) = k + 1
      /\ q[n] = [i \in 1..(k + 1) |-> IF i = k + 1 THEN e ELSE p[n][i]]
  BY SuffixShape
<1>2. n = Len(r) /\ k = Len(r[n])
  <2> DEFINE t == WithSuffix(r, f)
  <2>0. /\ Len(t) = Len(r)
        /\ Len(r[Len(r)]) \in Nat /\ Len(t[Len(r)]) = Len(r[Len(r)]) + 1
    BY SuffixShape
  <2>1. t = q
    OBVIOUS
  <2> HIDE DEF q, t
  <2>2. n = Len(r)
    BY <1>1, <2>0, <2>1
  <2>3. Len(r[Len(r)]) \in Nat /\ Len(q[Len(r)]) = Len(r[Len(r)]) + 1
    BY <2>0, <2>1
  <2> QED BY <1>1, <2>2, <2>3
<1>3. /\ \A i \in 1..Len(r) : i < Len(r) => q[i] = r[i]
      /\ q[Len(r)] = [i \in 1..(Len(r[Len(r)]) + 1) |->
                        IF i = Len(r[Len(r)]) + 1 THEN f ELSE r[Len(r)][i]]
  BY SuffixShape
<1>4. /\ \A i \in 1..n : i < n => q[i] = r[i]
      /\ q[n] = [i \in 1..(k + 1) |-> IF i = k + 1 THEN f ELSE r[n][i]]
  <2> HIDE DEF q, n, k
  <2> QED BY <1>2, <1>3
<1>5. p[n] \in Seq(STRING) /\ r[n] \in Seq(STRING)
  BY <1>1, <1>2, PathShape
<1> HIDE DEF q
<1>6. \A i \in 1..k : p[n][i] = r[n][i]
  <2> TAKE i \in 1..k
  <2> HIDE DEF n, k
  <2>1. i \in 1..(k + 1) /\ i # k + 1
    BY <1>1
  <2>2. q[n][i] = p[n][i]
    BY <1>1, <2>1
  <2>3. q[n][i] = r[n][i]
    BY <1>4, <2>1
  <2> QED BY <2>2, <2>3
<1>7. p[n] = r[n]
  <2> DEFINE a == p[n]
             b == r[n]
  <2>1. Len(a) = k /\ Len(b) = k /\ a \in Seq(STRING) /\ b \in Seq(STRING) /\ \A i \in 1..k : a[i] = b[i]
    BY <1>2, <1>5, <1>6
  <2> HIDE DEF a, b, k
  <2>2. a = b
    BY <2>1, SeqEqual
  <2> QED BY <2>2 DEF a, b
<1>8. \A i \in 1..n : p[i] = r[i]
  <2> TAKE i \in 1..n
  <2> HIDE DEF n, k
  <2> QED BY <1>1, <1>4, <1>7
<1>9. p \in Seq(Seq(STRING)) /\ r \in Seq(Seq(STRING))
  BY PathShape
<1> HIDE DEF n
<1> QED BY <1>2, <1>8, <1>9, SeqEqual DEF n

\* Numbered names keep apart, whatever their extension.
LEMMA NumberedIs ==
  ASSUME NEW a, NEW ext
  PROVE  LET q == << <<"textures">>, <<a, ext>> >> IN
         Plain(q) /\ Extension(q) = ext /\ Len(q) = 2
<1> DEFINE q == << <<"textures">>, <<a, ext>> >>
<1>1. Len(<<"textures">>) = 1 /\ Len(<<".">>) = 1 /\ Len(<<"..">>) = 1 /\ Len(<<>>) = 0
      /\ Len(<<a, ext>>) = 2
  OBVIOUS
<1>2. <<"textures">>[1] = "textures" /\ <<".">>[1] = "." /\ <<"..">>[1] = ".."
  OBVIOUS
<1>3. <<"textures">> \notin {<<>>, <<".">>, <<"..">>} /\ <<a, ext>> \notin {<<>>, <<".">>, <<"..">>}
  BY <1>1, <1>2
<1>4. Len(q) = 2 /\ DOMAIN q = {1, 2} /\ q[1] = <<"textures">> /\ q[2] = <<a, ext>> /\ q # <<>>
  OBVIOUS
<1>5. <<a, ext>>[2] = ext
  OBVIOUS
<1> HIDE DEF q
<1>6. Plain(q)
  BY <1>3, <1>4 DEF Plain
<1>7. Last(q) = <<a, ext>> /\ Last(<<a, ext>>) = ext
  BY <1>1, <1>4, <1>5 DEF Last
<1>8. Extension(q) = ext
  BY <1>1, <1>7 DEF Extension
<1> QED BY <1>4, <1>6, <1>8 DEF q

\* What ClassifyTexture makes of a texture the package can hold.
LEMMA Classified ==
  ASSUME NEW w, WorldOK(w), NEW p \in Paths, NEW kind, kind = KindOf(p, FileIn(w, p)),
         kind # Unsupported, NEW a,
         a = [authored |-> p, archive |-> Stored(p, kind), action |-> kind.action]
  PROVE  /\ Plain(p) /\ StoredAs(a) /\ Told(a, w)
         /\ a.action \in {"keep", "rename", "convert"}
<1> DEFINE f == FileIn(w, p)
           e == Extension(p)
<1>1. Plain(p) /\ f # None /\ kind = ClassifyTexture(p, f)
  BY DEF KindOf
<1>2. IsFile(f)
  BY <1>1 DEF FileIn, WorldOK
<1>3. Extension(WithSuffix(p, "png")) = "png" /\ Extension(WithSuffix(p, "jpg")) = "jpg"
  BY <1>1, SuffixIsPlain
<1>4. a.authored = p /\ a.archive = Stored(p, kind) /\ a.action = kind.action
  OBVIOUS
<1>5. \/ kind = Keep /\ e \in {"exr", "avif"}
      \/ kind = Keep /\ e = "png" /\ f.format = "png"
      \/ kind = Keep /\ e \in {"jpg", "jpeg"} /\ f.format = "jpeg"
      \/ kind = Rename("png") /\ f.format = "png"
      \/ kind = Rename("jpg") /\ f.format = "jpeg"
      \/ kind = Convert
  <2> HIDE DEF f
  <2> QED BY <1>1 DEF ClassifyTexture
<1> HIDE DEF f, e
<1>6. CASE kind = Keep
  <2>1. a.action = "keep" /\ a.archive = p
    BY <1>4, <1>6 DEF Keep, Stored
  <2>2. e \in KeptExtensions /\ Made(a, f) = f
    BY <1>5, <1>6, <2>1 DEF KeptExtensions, Made, Keep, Rename, Convert
  <2>3. StoredAs(a)
    BY <1>4, <2>1, <2>2 DEF StoredAs, e
  <2>4. FormatIsTold([path |-> p, file |-> f])
    <3>1. \/ e \in {"exr", "avif"}
          \/ e = "png" /\ f.format = "png"
          \/ e \in {"jpg", "jpeg"} /\ f.format = "jpeg"
      BY <1>5, <1>6 DEF Keep, Rename, Convert
    <3> QED BY <3>1 DEF FormatIsTold, e
  <2>5. FormatIsTold([path |-> a.archive, file |-> Made(a, f)])
    BY <2>1, <2>2, <2>4
  <2> QED BY <1>1, <1>4, <2>1, <2>3, <2>5 DEF Told, f
<1>7. ASSUME NEW ext \in {"png", "jpg"}, kind = Rename(ext), f.format = IF ext = "png" THEN "png" ELSE "jpeg"
      PROVE  /\ StoredAs(a) /\ Told(a, w) /\ a.action = "rename"
  <2>1. a.action = "rename" /\ a.archive = WithSuffix(p, ext)
    BY <1>4, <1>7 DEF Rename, Stored
  <2>2. Extension(a.archive) = ext /\ Made(a, f) = f
    BY <1>3, <2>1 DEF Made
  <2>3. StoredAs(a)
    BY <1>4, <2>1, <2>2 DEF StoredAs, KeptExtensions
  <2>4. FormatIsTold([path |-> a.archive, file |-> f])
    BY <1>7, <2>2 DEF FormatIsTold
  <2>5. FormatIsTold([path |-> a.archive, file |-> Made(a, f)])
    BY <2>2, <2>4
  <2> QED BY <1>1, <1>4, <2>1, <2>3, <2>5 DEF Told, f
<1>8. CASE kind = Convert
  <2>1. a.action = "convert" /\ a.archive = WithSuffix(p, "png")
    BY <1>4, <1>8 DEF Convert, Stored
  <2>2. Extension(a.archive) = "png" /\ Made(a, f).format = "png"
    BY <1>2, <1>3, <2>1 DEF Made, IsFile
  <2>3. StoredAs(a)
    BY <1>4, <2>1, <2>2 DEF StoredAs, KeptExtensions
  <2>4. FormatIsTold([path |-> a.archive, file |-> Made(a, f)])
    BY <2>2 DEF FormatIsTold
  <2> QED BY <1>1, <1>4, <2>1, <2>3, <2>4 DEF Told, f
<1> QED BY <1>1, <1>5, <1>6, <1>7, <1>8

\* The layer's names and the names made of them are paths.
LEMMA NamesArePaths ==
  ASSUME NEW m \in Models
  PROVE  /\ NameSet(m) \in SUBSET Paths /\ IsFiniteSet(NameSet(m)) /\ m.names \in Seq(Paths)
         /\ \A p \in NameSet(m), ext \in {"png", "jpg"} : Plain(p) => WithSuffix(p, ext) \in Paths
<1>1. m.names \in Seq(Paths)
  BY ModelsAssumption
<1>2. NameSet(m) \in SUBSET Paths
  BY <1>1 DEF NameSet
<1>3. IsFiniteSet(NameSet(m))
  <2> DEFINE names == m.names
             f == [i \in 1..Len(names) |-> names[i]]
  <2>1. IsFiniteSet(1..Len(names)) /\ DOMAIN names = 1..Len(names)
    BY <1>1, FS_Interval
  <2>2. f \in Surjection(1..Len(names), NameSet(m))
    BY <1>1, <2>1 DEF Surjection, NameSet
  <2> HIDE DEF f, names
  <2> QED BY <2>1, <2>2, FS_Surjection
<1>4. \A p \in NameSet(m), ext \in {"png", "jpg"} : Plain(p) => WithSuffix(p, ext) \in Paths
  BY StoredAssumption
<1> QED BY <1>1, <1>2, <1>3, <1>4

\* OpenModel: every name is still to visit.
LEMMA OpenStep ==
  ASSUME NEW w, NEW m \in Models, NEW s, s.model = m, s.portable \in BOOLEAN,
         s.todo = Sorted(NameSet(m)), s.plan = <<>>
  PROVE  DiscoverOK(s, w)
<1> DEFINE S == NameSet(m)
           t == Sorted(S)
           n == Cardinality(S)
<1>1. /\ t \in [1..n -> S] /\ \A i, k \in 1..n : t[i] = t[k] => i = k
      /\ \A p \in S : \E i \in 1..n : t[i] = p
  BY NamesArePaths, SortedIs
<1>2. n \in Nat
  BY NamesArePaths, FS_CardinalityType
<1> HIDE DEF S, t, n
<1>3. t \in Seq(S) /\ DOMAIN t = 1..n
  BY <1>1, <1>2
<1>4. <<>> \in Seq(Assets(m)) /\ DOMAIN <<>> = {}
  OBVIOUS
<1>5. s.todo = t /\ NameSet(s.model) = S
  BY DEF S, t
<1> QED BY <1>1, <1>3, <1>4, <1>5 DEF DiscoverOK

LEMMA DropHead ==
  ASSUME NEW T, NEW q \in Seq(T), q # <<>>
  PROVE  /\ Tail(q) \in Seq(T) /\ Head(q) = q[1] /\ q[1] \in T /\ 1 \in DOMAIN q
         /\ \A i \in DOMAIN Tail(q) : i + 1 \in DOMAIN q /\ Tail(q)[i] = q[i + 1] /\ i + 1 # 1 /\ i \in Nat
         /\ \A i \in DOMAIN q : i = 1 \/ (i - 1 \in DOMAIN Tail(q) /\ Tail(q)[i - 1] = q[i])
OBVIOUS

LEMMA AddLast ==
  ASSUME NEW T, NEW q \in Seq(T), NEW e \in T
  PROVE  /\ Append(q, e) \in Seq(T)
         /\ \A i \in DOMAIN q : i \in DOMAIN Append(q, e) /\ Append(q, e)[i] = q[i]
         /\ \A i \in DOMAIN Append(q, e) : \/ i \in DOMAIN q /\ Append(q, e)[i] = q[i]
                                           \/ i = Len(q) + 1 /\ Append(q, e)[i] = e
         /\ Len(q) + 1 \in DOMAIN Append(q, e) /\ Append(q, e)[Len(q) + 1] = e
OBVIOUS

\* DiscoverTexture: the next name is planned, or an error.
LEMMA VisitStep ==
  ASSUME NEW w, WorldOK(w), NEW r, DiscoverOK(r, w), r.todo # <<>>,
         NEW p, p = Head(r.todo), NEW kind, kind = KindOf(p, FileIn(w, p)),
         NEW a, a = [authored |-> p, archive |-> Stored(p, kind), action |-> kind.action],
         NEW s, s.model = r.model, s.portable = r.portable, s.todo = Tail(r.todo),
         \/ kind = Unsupported /\ s.error = TRUE /\ s.plan = r.plan
         \/ kind # Unsupported /\ s.error = r.error /\ s.plan = Append(r.plan, a)
  PROVE  DiscoverOK(s, w)
<1> DEFINE m == r.model
           S == NameSet(m)
           q == r.todo
           t == Tail(q)
<1>1. /\ m \in Models /\ r.portable \in BOOLEAN /\ q \in Seq(S) /\ r.plan \in Seq(Assets(m))
      /\ \A i, k \in DOMAIN q : q[i] = q[k] => i = k
      /\ \A i, k \in DOMAIN r.plan : r.plan[i].authored = r.plan[k].authored => i = k
      /\ \A i \in DOMAIN r.plan : \A k \in DOMAIN q : r.plan[i].authored # q[k]
      /\ \A i \in DOMAIN r.plan :
           Plain(r.plan[i].authored) /\ StoredAs(r.plan[i]) /\ Told(r.plan[i], w)
      /\ r.error = FALSE => \A n \in S :
           \/ \E i \in DOMAIN q : q[i] = n
           \/ \E i \in DOMAIN r.plan : r.plan[i].authored = n
  BY DEF DiscoverOK
<1>2. /\ t \in Seq(S) /\ p = q[1] /\ p \in S /\ 1 \in DOMAIN q
      /\ \A i \in DOMAIN t : i + 1 \in DOMAIN q /\ t[i] = q[i + 1] /\ i + 1 # 1 /\ i \in Nat
      /\ \A i \in DOMAIN q : i = 1 \/ (i - 1 \in DOMAIN t /\ t[i - 1] = q[i])
  <2> HIDE DEF S
  <2> QED BY <1>1, DropHead
<1> HIDE DEF S, m, q, t
<1>3. \A i, k \in DOMAIN t : t[i] = t[k] => i = k
  <2> TAKE i, k \in DOMAIN t
  <2>1. i + 1 \in DOMAIN q /\ t[i] = q[i + 1] /\ i \in Nat /\ k + 1 \in DOMAIN q /\ t[k] = q[k + 1] /\ k \in Nat
    BY <1>2
  <2>2. t[i] = t[k] => i + 1 = k + 1
    BY <1>1, <2>1
  <2> QED BY <2>1, <2>2
<1>4. \A i \in DOMAIN t : t[i] # p
  BY <1>1, <1>2
<1>5. s.model = m /\ s.portable = r.portable /\ s.todo = t /\ NameSet(s.model) = S
  BY DEF m, q, t, S
<1>6. CASE kind = Unsupported
  <2>1. s.error = TRUE /\ s.plan = r.plan
    BY <1>6
  <2>2. \A i \in DOMAIN r.plan : \A k \in DOMAIN t : r.plan[i].authored # t[k]
    BY <1>1, <1>2
  <2>3. s.error # FALSE
    BY <2>1
  <2> QED BY SMTT(40), <1>1, <1>2, <1>3, <1>5, <2>1, <2>2, <2>3 DEF DiscoverOK
<1>7. CASE kind # Unsupported
  <2> DEFINE plan1 == Append(r.plan, a)
             l == Len(r.plan) + 1
  <2>1. p \in Paths /\ \A ext \in {"png", "jpg"} : Plain(p) => WithSuffix(p, ext) \in Paths
    BY <1>1, <1>2, NamesArePaths DEF S
  <2>2. Plain(p) /\ StoredAs(a) /\ Told(a, w) /\ a.action \in {"keep", "rename", "convert"}
    BY <1>7, <2>1, Classified
  <2>3. a.authored = p /\ a.archive \in Paths
    BY <2>1, <2>2 DEF StoredAs
  <2>4. a \in Assets(m)
    BY <1>2, <2>2, <2>3 DEF Assets, S
  <2>5. /\ plan1 \in Seq(Assets(m))
        /\ \A i \in DOMAIN r.plan : i \in DOMAIN plan1 /\ plan1[i] = r.plan[i]
        /\ \A i \in DOMAIN plan1 : \/ i \in DOMAIN r.plan /\ plan1[i] = r.plan[i]
                                   \/ i = l /\ plan1[i] = a
        /\ l \in DOMAIN plan1 /\ plan1[l] = a
    BY <1>1, <2>4, AddLast
  <2>6. s.error = r.error /\ s.plan = plan1
    BY <1>7
  <2> HIDE DEF plan1, l
  <2>7. \A i \in DOMAIN r.plan : r.plan[i].authored # p
    BY <1>1, <1>2
  <2>8. \A i, k \in DOMAIN plan1 : plan1[i].authored = plan1[k].authored => i = k
    BY <1>1, <2>3, <2>5, <2>7
  <2>9. \A i \in DOMAIN plan1 : \A k \in DOMAIN t : plan1[i].authored # t[k]
    BY SMTT(40), <1>1, <1>2, <1>4, <2>3, <2>5
  <2>10. \A i \in DOMAIN plan1 : Plain(plan1[i].authored) /\ StoredAs(plan1[i]) /\ Told(plan1[i], w)
    BY <1>1, <2>2, <2>3, <2>5
  <2>11. r.error = FALSE => \A n \in S :
           \/ \E i \in DOMAIN t : t[i] = n
           \/ \E i \in DOMAIN plan1 : plan1[i].authored = n
    <3> SUFFICES ASSUME r.error = FALSE, NEW n \in S
                 PROVE  \/ \E i \in DOMAIN t : t[i] = n
                        \/ \E i \in DOMAIN plan1 : plan1[i].authored = n
      OBVIOUS
    <3>1. CASE n = p
      BY <2>3, <2>5, <3>1
    <3>2. CASE \E i \in DOMAIN r.plan : r.plan[i].authored = n
      BY <2>5, <3>2
    <3>3. CASE n # p /\ \E i \in DOMAIN q : q[i] = n
      BY <1>2, <3>3
    <3> QED BY <1>1, <3>1, <3>2, <3>3
  <2>12. /\ s.model \in Models /\ s.portable \in BOOLEAN
         /\ s.todo \in Seq(NameSet(s.model)) /\ s.plan \in Seq(Assets(s.model))
    BY <1>1, <1>2, <1>5, <2>5, <2>6
  <2>13. s.error = FALSE => \A n \in NameSet(s.model) :
           \/ \E i \in DOMAIN s.todo : s.todo[i] = n
           \/ \E i \in DOMAIN s.plan : s.plan[i].authored = n
    BY <1>5, <2>6, <2>11
  <2>14. \A i, k \in DOMAIN s.todo : s.todo[i] = s.todo[k] => i = k
    BY <1>3, <1>5
  <2>15. \A i, k \in DOMAIN s.plan : s.plan[i].authored = s.plan[k].authored => i = k
    BY <2>6, <2>8
  <2>16. \A i \in DOMAIN s.plan : \A k \in DOMAIN s.todo : s.plan[i].authored # s.todo[k]
    BY <1>5, <2>6, <2>9
  <2>17. \A i \in DOMAIN s.plan :
           Plain(s.plan[i].authored) /\ StoredAs(s.plan[i]) /\ Told(s.plan[i], w)
    BY <2>6, <2>10
  <2> QED BY ONLY <2>12, <2>13, <2>14, <2>15, <2>16, <2>17 DEF DiscoverOK
<1> QED BY <1>6, <1>7

\* An asset of a plan is stored under a path.
LEMMA PlannedIs ==
  ASSUME NEW w, NEW r, DiscoverOK(r, w), NEW i \in DOMAIN r.plan
  PROVE  LET a == r.plan[i] IN
         /\ a.authored \in NameSet(r.model) /\ a.authored \in Paths /\ a.archive \in Paths
         /\ Plain(a.authored) /\ a.authored # <<>> /\ StoredAs(a) /\ Told(a, w)
         /\ Plain(a.archive) /\ a = [authored |-> a.authored, archive |-> a.archive, action |-> a.action]
         /\ a.action \in {"keep", "rename", "convert"}
<1> DEFINE a == r.plan[i]
<1>1. a \in Assets(r.model) /\ Plain(a.authored) /\ StoredAs(a) /\ Told(a, w) /\ r.model \in Models
  BY DEF DiscoverOK
<1>2. NameSet(r.model) \in SUBSET Paths
  BY <1>1, NamesArePaths
<1> HIDE DEF a
<1>3. /\ a.authored \in NameSet(r.model) /\ a.archive \in Paths
      /\ a = [authored |-> a.authored, archive |-> a.archive, action |-> a.action]
      /\ a.action \in {"keep", "rename", "convert"}
  BY <1>1 DEF Assets
<1>4. a.authored \in Paths /\ a.authored # <<>>
  BY <1>1, <1>2, <1>3 DEF Plain
<1>5. Plain(a.archive)
  BY <1>1, <1>4, SuffixIsPlain DEF StoredAs
<1> QED BY <1>1, <1>3, <1>4, <1>5 DEF a

\* Names kept as authored: what does not conflict keeps apart.
LEMMA AuthoredAreReady ==
  ASSUME NEW w, NEW r, DiscoverOK(r, w), r.todo = <<>>, r.error = FALSE, NEW root,
         NEW names, names = {n \in NameSet(r.model) : Plain(n)},
         ~\E a \in Elems(r.plan) : Conflicts(a, root, names)
  PROVE  Ready(r.plan, r.model, root, w)
<1> DEFINE D == DOMAIN r.plan
           name(i) == r.plan[i].authored
           file(i) == r.plan[i].archive
<1>1. ASSUME NEW i \in D
      PROVE  /\ name(i) \in names /\ name(i) \in Paths /\ file(i) \in Paths /\ name(i) # <<>>
             /\ Plain(file(i)) /\ Told(r.plan[i], w)
             /\ IF r.plan[i].action = "keep" THEN file(i) = name(i)
                ELSE \E ext \in {"png", "jpg"} : file(i) = WithSuffix(name(i), ext)
  <2> DEFINE a == r.plan[i]
  <2>1. /\ a.authored \in NameSet(r.model) /\ a.authored \in Paths /\ a.archive \in Paths
        /\ Plain(a.authored) /\ a.authored # <<>> /\ StoredAs(a) /\ Told(a, w) /\ Plain(a.archive)
    BY PlannedIs
  <2>2. a.authored \in names
    BY <2>1
  <2>3. IF a.action = "keep" THEN a.archive = a.authored
        ELSE \E ext \in {"png", "jpg"} : a.archive = WithSuffix(a.authored, ext)
    BY <2>1 DEF StoredAs
  <2> QED BY <2>1, <2>2, <2>3
<1>2. ASSUME NEW i \in D
      PROVE  /\ file(i) # root
             /\ \A n \in names \cup {root} : ~Below(n, file(i)) /\ ~Below(file(i), n)
             /\ r.plan[i].action # "keep" => file(i) \notin names
  <2>1. r.plan[i] \in Elems(r.plan)
    BY DEF Elems
  <2>2. ~Conflicts(r.plan[i], root, names)
    BY <2>1
  <2> QED BY <2>2 DEF Conflicts
<1>3. r.plan \in Seq(Assets(r.model)) /\ \A i, k \in D : name(i) = name(k) => i = k
  BY DEF DiscoverOK
<1>4. \A n \in NameSet(r.model) : \E i \in D : name(i) = n
  <2>1. DOMAIN r.todo = {}
    OBVIOUS
  <2> QED BY <2>1 DEF DiscoverOK
<1> HIDE DEF D, name, file
<1>5. ASSUME NEW i \in D, NEW k \in D PROVE ~Below(file(i), file(k))
  <2>1. SUFFICES ASSUME Below(file(i), file(k)) PROVE FALSE
    OBVIOUS
  <2>2. file(k) = name(k) \/ \E ext \in {"png", "jpg"} : file(k) = WithSuffix(name(k), ext)
    BY <1>1
  <2>3. file(i) \in Paths /\ name(k) \in Paths /\ name(k) # <<>>
    BY <1>1
  <2>4. Below(file(i), name(k))
    BY <2>1, <2>2, <2>3, BelowSuffix
  <2> QED BY <1>1, <1>2, <2>4
<1>6. ASSUME NEW i \in D, NEW k \in D, file(i) = file(k) PROVE i = k
  <2>1. CASE r.plan[i].action = "keep" /\ r.plan[k].action = "keep"
    BY <1>1, <1>3, <1>6, <2>1
  <2>2. CASE r.plan[i].action # "keep" /\ r.plan[k].action # "keep"
    <3>1. PICK e \in {"png", "jpg"} : file(i) = WithSuffix(name(i), e)
      BY <1>1, <2>2
    <3>2. PICK f \in {"png", "jpg"} : file(k) = WithSuffix(name(k), f)
      BY <1>1, <2>2
    <3>3. name(i) \in Paths /\ name(k) \in Paths /\ name(i) # <<>> /\ name(k) # <<>>
      BY <1>1
    <3>4. name(i) = name(k)
      BY <1>6, <3>1, <3>2, <3>3, SuffixesApart
    <3> QED BY <1>3, <3>4
  <2>3. CASE r.plan[i].action # "keep" /\ r.plan[k].action = "keep"
    BY <1>1, <1>2, <1>6, <2>3
  <2>4. CASE r.plan[i].action = "keep" /\ r.plan[k].action # "keep"
    BY <1>1, <1>2, <1>6, <2>4
  <2> QED BY <2>1, <2>2, <2>3, <2>4
<1>7. \A i \in D : Plain(file(i)) /\ Told(r.plan[i], w) /\ Apart(file(i), root)
  BY <1>1, <1>2 DEF Apart
<1>8. \A i, k \in D : /\ ~Below(file(i), file(k)) /\ (file(i) = file(k) => i = k)
                      /\ (name(i) = name(k) => i = k)
  BY <1>3, <1>5, <1>6
<1> QED BY <1>3, <1>4, <1>7, <1>8 DEF Ready, D, name, file

\* Portable names: what is numbered keeps apart.
LEMMA NumberedAreReady ==
  ASSUME NEW w, NEW r, DiscoverOK(r, w), r.todo = <<>>, r.error = FALSE
  PROVE  Ready(Portable(r.plan), r.model, RootOf(TRUE), w)
<1> DEFINE D == DOMAIN r.plan
           m == r.model
           q == Portable(r.plan)
           file(i) == << <<"textures">>, <<Number(i), Extension(r.plan[i].archive)>> >>
           root == RootOf(TRUE)
<1>1. r.plan \in Seq(Assets(m)) /\ D = 1..Len(r.plan) /\ Len(r.plan) \in Nat /\ m \in Models
  BY DEF DiscoverOK
<1>2. Len(r.plan) <= Cardinality(NameSet(m))
  <2> DEFINE f == [i \in 1..Len(r.plan) |-> r.plan[i].authored]
             S == NameSet(m)
             n == Len(r.plan)
  <2>1. /\ IsFiniteSet(S) /\ IsFiniteSet(1..n) /\ Cardinality(1..n) = n
    <3>1. IsFiniteSet(S)
      BY <1>1, NamesArePaths
    <3>2. n \in Nat
      BY <1>1
    <3> HIDE DEF n
    <3>3. IsFiniteSet(1..n) /\ Cardinality(1..n) = n
      BY <3>2, FS_Interval
    <3> QED BY <3>1, <3>3
  <2>2. \A i \in 1..n : f[i] \in S
    BY <1>1, PlannedIs
  <2>3. \A i, k \in 1..n : f[i] = f[k] => i = k
    BY <1>1 DEF DiscoverOK
  <2>4. f \in [1..n -> S]
    BY <2>2
  <2> HIDE DEF f, S, n
  <2>5. f \in Injection(1..n, S)
    BY <2>3, <2>4 DEF Injection, IsInjective
  <2>6. Cardinality(1..n) <= Cardinality(S)
    BY <2>1, <2>5, FS_Injection
  <2> QED BY <2>1, <2>6 DEF S, n
<1>3. ASSUME NEW i \in D PROVE i \in 1..Cardinality(NameSet(m))
  <2>1. Cardinality(NameSet(m)) \in Nat
    BY <1>1, NamesArePaths, FS_CardinalityType
  <2> QED BY <1>1, <1>2, <2>1
<1>4. DOMAIN q = D /\ \A i \in D : q[i] = [r.plan[i] EXCEPT !.archive = file(i)]
  BY DEF Portable
<1>5. ASSUME NEW i \in D
      PROVE  /\ q[i] = [authored |-> r.plan[i].authored, archive |-> file(i), action |-> r.plan[i].action]
             /\ q[i].authored = r.plan[i].authored /\ q[i].archive = file(i)
             /\ q[i].action = r.plan[i].action
  <2> DEFINE a == r.plan[i]
             b == file(i)
  <2>1. a = [authored |-> a.authored, archive |-> a.archive, action |-> a.action]
    BY PlannedIs
  <2>2. q[i] = [a EXCEPT !.archive = b]
    BY <1>4
  <2> HIDE DEF a, b, q
  <2>3. q[i] = [authored |-> a.authored, archive |-> b, action |-> a.action]
    BY <2>1, <2>2
  <2> QED BY <2>3 DEF a, b
<1> HIDE DEF q
<1>6. ASSUME NEW i \in D
      PROVE  file(i) \in Paths /\ Plain(file(i)) /\ Len(file(i)) = 2
             /\ Extension(file(i)) = Extension(r.plan[i].archive)
  <2>1. Extension(r.plan[i].archive) \in {"png", "jpg", "jpeg", "exr", "avif"}
    BY PlannedIs DEF StoredAs, KeptExtensions
  <2>2. file(i) \in Paths
    BY <1>1, <1>3, <2>1, StoredAssumption
  <2> QED BY <2>2, NumberedIs
<1>7. ASSUME NEW i \in D PROVE q[i] \in Assets(m)
  <2>1. /\ r.plan[i].authored \in NameSet(m) /\ r.plan[i].action \in {"keep", "rename", "convert"}
    BY PlannedIs
  <2>2. file(i) \in Paths
    BY <1>6
  <2> DEFINE a == r.plan[i].authored
             b == file(i)
             c == r.plan[i].action
  <2>3. q[i] = [authored |-> a, archive |-> b, action |-> c]
    BY <1>5
  <2>4. a \in NameSet(m) /\ b \in Paths /\ c \in {"keep", "rename", "convert"}
    BY <2>1, <2>2
  <2> HIDE DEF a, b, c
  <2> QED BY <2>3, <2>4 DEF Assets
<1>8. q \in Seq(Assets(m))
  <2>1. q \in [1..Len(r.plan) -> Assets(m)]
    <3>1. q = [i \in D |-> q[i]]
      BY DEF q, Portable
    <3> QED BY <1>1, <1>7, <3>1
  <2> QED BY <1>1, <2>1
<1>9. ASSUME NEW i \in D PROVE Told(q[i], w)
  <2> DEFINE n == r.plan[i].authored
             f == FileIn(w, n)
  <2>1. Told(r.plan[i], w)
    BY PlannedIs
  <2>2. Made(q[i], f) = Made(r.plan[i], f)
    BY <1>5 DEF Made
  <2>3. \A e : FormatIsTold([path |-> r.plan[i].archive, file |-> e]) => FormatIsTold([path |-> file(i), file |-> e])
    BY <1>6 DEF FormatIsTold
  <2>4. w.changes = 0 => f # None /\ FormatIsTold([path |-> r.plan[i].archive, file |-> Made(r.plan[i], f)])
    BY <2>1 DEF Told
  <2> HIDE DEF file
  <2>5. w.changes = 0 => f # None /\ FormatIsTold([path |-> q[i].archive, file |-> Made(q[i], f)])
    BY <1>5, <2>2, <2>3, <2>4
  <2>6. FileIn(w, q[i].authored) = f
    BY <1>5
  <2> HIDE DEF f, n
  <2> QED BY <2>5, <2>6 DEF Told
<1>10. root = << <<"model", "usdc">> >> /\ Len(root) = 1
  BY DEF RootOf
<1>11. ASSUME NEW i \in D PROVE Apart(file(i), root)
  <2>1. Len(file(i)) = 2
    BY <1>6
  <2>2. file(i)[1] = <<"textures">> /\ root[1] # <<"textures">>
    <3>1. root[1] = <<IF TRUE THEN "model" ELSE Stem, "usdc">>
      BY DEF RootOf
    <3>2. Len(root[1]) = 2 /\ Len(<<"textures">>) = 1
      BY <3>1
    <3> HIDE DEF root
    <3> QED BY <3>2
  <2> HIDE DEF file, root
  <2>3. ~Below(root, file(i))
    <3>1. SUFFICES ASSUME SubSeq(file(i), 1, 1) = root PROVE FALSE
      BY <1>10 DEF Below
    <3>2. SubSeq(file(i), 1, 1)[1] = file(i)[1]
      BY <2>1
    <3> QED BY <2>2, <3>1, <3>2
  <2> QED BY <1>10, <2>1, <2>3 DEF Apart, Below
<1>12. ASSUME NEW i \in D, NEW k \in D PROVE ~Below(file(i), file(k)) /\ (file(i) = file(k) => i = k)
  <2>1. Len(file(i)) = 2 /\ Len(file(k)) = 2
    BY <1>6
  <2>2. ~Below(file(i), file(k))
    <3> HIDE DEF file
    <3> QED BY <2>1 DEF Below
  <2>3. file(i) = file(k) => Number(i) = Number(k)
    OBVIOUS
  <2>4. Number(i) = Number(k) => i = k
    BY <1>1, <1>3, StoredAssumption
  <2> QED BY <2>2, <2>3, <2>4
<1>13. \A n \in NameSet(m) : \E i \in D : r.plan[i].authored = n
  <2>1. DOMAIN r.todo = {}
    OBVIOUS
  <2> QED BY <2>1 DEF DiscoverOK
<1>14. \A i, k \in D : r.plan[i].authored = r.plan[k].authored => i = k
  BY DEF DiscoverOK
<1> HIDE DEF file, root, D, m
<1>15. /\ \A i \in DOMAIN q : Plain(q[i].archive) /\ Told(q[i], w) /\ Apart(q[i].archive, root)
       /\ \A i, k \in DOMAIN q : /\ ~Below(q[i].archive, q[k].archive)
                                 /\ q[i].archive = q[k].archive => i = k
                                 /\ q[i].authored = q[k].authored => i = k
       /\ \A n \in NameSet(m) : \E i \in DOMAIN q : q[i].authored = n
  BY <1>4, <1>5, <1>6, <1>9, <1>11, <1>12, <1>13, <1>14
<1> QED BY <1>8, <1>15 DEF Ready, q, root, m

\* Sorting a plan moves its assets about.
LEMMA SortedIsReady ==
  ASSUME NEW w, NEW assets, NEW m, NEW root, Ready(assets, m, root, w)
  PROVE  Ready(ByArchive(assets), m, root, w)
<1> DEFINE D == DOMAIN assets
           q == ByArchive(assets)
<1>1. /\ assets \in Seq(Assets(m)) /\ D = 1..Len(assets) /\ Len(assets) \in Nat
      /\ \A i \in D : assets[i].archive \in Paths
  <2>1. assets \in Seq(Assets(m))
    BY DEF Ready
  <2>2. D = 1..Len(assets) /\ Len(assets) \in Nat /\ \A i \in D : assets[i] \in Assets(m)
    BY <2>1
  <2>3. \A a \in Assets(m) : a.archive \in Paths
    BY DEF Assets
  <2> QED BY <2>1, <2>2, <2>3
<1>2. PICK f \in Bijection(D, D) : q = [i \in D |-> assets[f[i]]]
  BY <1>1, ByArchiveIs DEF Ready
<1>3. /\ f \in [D -> D] /\ \A i, k \in D : f[i] = f[k] => i = k
      /\ \A k \in D : \E i \in D : f[i] = k
  BY <1>2 DEF Bijection, Injection, Surjection, IsInjective
<1> HIDE DEF q
<1>4. DOMAIN q = D /\ \A i \in D : q[i] = assets[f[i]] /\ f[i] \in D
  BY <1>2, <1>3
<1>5. q \in Seq(Assets(m))
  <2>1. \A i \in D : assets[f[i]] \in Assets(m)
    BY <1>1, <1>3
  <2>2. q \in [1..Len(assets) -> Assets(m)]
    BY <1>1, <1>2, <2>1
  <2> QED BY <1>1, <2>2
<1>6. /\ \A i \in D : Plain(assets[i].archive) /\ Told(assets[i], w) /\ Apart(assets[i].archive, root)
      /\ \A i, k \in D : /\ ~Below(assets[i].archive, assets[k].archive)
                         /\ assets[i].archive = assets[k].archive => i = k
                         /\ assets[i].authored = assets[k].authored => i = k
      /\ \A n \in NameSet(m) : \E i \in D : assets[i].authored = n
  BY DEF Ready
<1> HIDE DEF D
<1>7. /\ \A i \in D : Plain(q[i].archive) /\ Told(q[i], w) /\ Apart(q[i].archive, root)
      /\ \A i, k \in D : /\ ~Below(q[i].archive, q[k].archive)
                         /\ q[i].archive = q[k].archive => i = k
                         /\ q[i].authored = q[k].authored => i = k
  <2>1. \A i \in D : Plain(q[i].archive) /\ Told(q[i], w) /\ Apart(q[i].archive, root)
    BY <1>4, <1>6
  <2>2. ASSUME NEW i \in D, NEW k \in D
        PROVE  /\ ~Below(q[i].archive, q[k].archive)
               /\ q[i].archive = q[k].archive => i = k
               /\ q[i].authored = q[k].authored => i = k
    <3>1. q[i] = assets[f[i]] /\ q[k] = assets[f[k]] /\ f[i] \in D /\ f[k] \in D /\ (f[i] = f[k] => i = k)
      BY <1>3, <1>4
    <3> QED BY <1>6, <3>1
  <2> QED BY <2>1, <2>2
<1>8. \A n \in NameSet(m) : \E i \in D : q[i].authored = n
  <2> TAKE n \in NameSet(m)
  <2>1. PICK k \in D : assets[k].authored = n
    BY <1>6
  <2>2. PICK i \in D : f[i] = k
    BY <1>3
  <2> QED BY <1>4, <2>1, <2>2
<1> QED BY <1>4, <1>5, <1>7, <1>8 DEF Ready, q

\* What is staged stays staged when another file is.
LEMMA PutKeeps ==
  ASSUME NEW w, NEW r, NEW a, StagedOK(r, a, w), NEW s, NEW p, NEW file,
         s.staged = Put(r.staged, p, file), a.archive # p
  PROVE  StagedOK(s, a, w)
<1> DEFINE files == r.staged
           t == Put(files, p, file)
<1>0. DOMAIN t = DOMAIN files \cup {p} /\ \A q \in DOMAIN files : q # p => t[q] = files[q]
  BY DEF Put
<1>1. a.archive \in DOMAIN s.staged /\ s.staged[a.archive] = r.staged[a.archive]
  <2>1. a.archive \in DOMAIN files /\ s.staged = t
    BY DEF StagedOK
  <2> HIDE DEF t
  <2>2. a.archive \in DOMAIN t /\ t[a.archive] = files[a.archive]
    BY <1>0, <2>1
  <2> QED BY <2>1, <2>2
<1> QED BY <1>1 DEF StagedOK

\* StageTexture: the next asset is staged, or an error.
LEMMA StageStep ==
  ASSUME NEW w, WorldOK(w), NEW r, PlanOK(r, w), ConvertOK(r, w), r.todo # <<>>,
         NEW a, a = Head(r.todo), NEW file, file = FileIn(w, a.authored), file # None,
         NEW s, s.model = r.model, s.plan = r.plan, s.todo = Tail(r.todo),
         \/ s.error = r.error /\ s.staged = Put(r.staged, a.archive, Made(a, file))
         \/ s.error = TRUE
  PROVE  ConvertOK(s, w)
<1> DEFINE q == r.todo
           t == Tail(q)
           T == Assets(r.model)
           D == DOMAIN r.plan
<1>1. q \in Seq(T) /\ \A k \in DOMAIN q : \E i \in D : q[k] = r.plan[i]
  BY DEF ConvertOK
<1>2. /\ t \in Seq(T) /\ a = q[1] /\ 1 \in DOMAIN q
      /\ \A i \in DOMAIN t : i + 1 \in DOMAIN q /\ t[i] = q[i + 1]
      /\ \A i \in DOMAIN q : i = 1 \/ (i - 1 \in DOMAIN t /\ t[i - 1] = q[i])
  <2> HIDE DEF T
  <2> QED BY <1>1, DropHead
<1>3. \A i, k \in D : r.plan[i].archive = r.plan[k].archive => i = k
  BY DEF PlanOK, Ready
<1>4. r.error = FALSE => \A i \in D : (\E k \in DOMAIN q : q[k] = r.plan[i]) \/ StagedOK(r, r.plan[i], w)
  BY DEF ConvertOK
<1>5. s.todo = t /\ s.plan = r.plan /\ Assets(s.model) = T
  OBVIOUS
<1> HIDE DEF q, t, T
<1>6. \A k \in DOMAIN t : \E i \in D : t[k] = r.plan[i]
  BY <1>1, <1>2
<1>7. ASSUME s.error = FALSE, NEW i \in D
      PROVE  (\E k \in DOMAIN t : t[k] = r.plan[i]) \/ StagedOK(s, r.plan[i], w)
  <2>1. r.error = FALSE /\ s.staged = Put(r.staged, a.archive, Made(a, file))
    BY <1>7
  <2>2. CASE r.plan[i] = a
    <3>1. a.archive \in DOMAIN s.staged /\ s.staged[a.archive] = Made(a, file)
      <4> DEFINE files == r.staged
                 p == a.archive
                 f == Made(a, file)
                 u == Put(files, p, f)
      <4>1. DOMAIN u = DOMAIN files \cup {p} /\ u[p] = f
        BY DEF Put
      <4>2. s.staged = u
        BY <2>1
      <4> HIDE DEF u, f
      <4> QED BY <4>1, <4>2 DEF f
    <3>2. Told(a, w)
      BY <2>2 DEF PlanOK, Ready
    <3>3. IsFile(file) /\ <<a.authored, file>> \in w.seen
      BY DEF FileIn, WorldOK
    <3>4. Made(a, file).image = file.image
      BY <3>3 DEF Made, IsFile
    <3>5. Held(a.authored, Made(a, file), w)
      <4> DEFINE e == <<a.authored, file>>
      <4>1. e \in w.seen /\ e[1] = a.authored /\ e[2] = file
        BY <3>3
      <4> HIDE DEF e
      <4> QED BY <3>4, <4>1 DEF Held
    <3>6. w.changes = 0 => FormatIsTold([path |-> a.archive, file |-> Made(a, file)])
      BY <3>2 DEF Told
    <3>7. EntryOK(a.authored, [path |-> a.archive, file |-> Made(a, file)], w)
      BY <3>5, <3>6 DEF EntryOK
    <3>8. StagedOK(s, a, w)
      BY <3>1, <3>7 DEF StagedOK
    <3> QED BY <2>2, <3>8
  <2>3. CASE r.plan[i] # a /\ \E k \in DOMAIN q : q[k] = r.plan[i]
    BY <1>2, <2>3
  <2>4. CASE r.plan[i] # a /\ StagedOK(r, r.plan[i], w)
    <3>1. r.plan[i].archive # a.archive
      <4>1. PICK k \in D : a = r.plan[k]
        BY <1>1, <1>2
      <4> QED BY <1>3, <2>4, <4>1
    <3> QED BY <2>1, <2>4, <3>1, PutKeeps
  <2> QED BY <1>4, <2>1, <2>2, <2>3, <2>4
<1>8. s.todo \in Seq(Assets(s.model)) /\ \A k \in DOMAIN s.todo : \E i \in DOMAIN s.plan : s.todo[k] = s.plan[i]
  <2>1. s.todo \in Seq(Assets(s.model))
    BY <1>2, <1>5
  <2>2. \A k \in DOMAIN s.todo : \E i \in DOMAIN s.plan : s.todo[k] = s.plan[i]
    BY <1>5, <1>6
  <2> QED BY <2>1, <2>2
<1>9. s.error = FALSE =>
        \A i \in DOMAIN s.plan : (\E k \in DOMAIN s.todo : s.todo[k] = s.plan[i]) \/ StagedOK(s, s.plan[i], w)
  BY <1>5, <1>7
<1> QED BY ONLY <1>8, <1>9 DEF ConvertOK

\* Discovered: all assets are still to stage.
LEMMA ConvertStarts ==
  ASSUME NEW w, NEW s, PlanOK(s, w), s.todo = s.plan
  PROVE  ConvertOK(s, w)
BY DEF PlanOK, Ready, ConvertOK

\* Converted: all assets are staged.
LEMMA ConvertEnds ==
  ASSUME NEW w, NEW r, ConvertOK(r, w), r.todo = <<>>, r.error = FALSE, NEW i \in DOMAIN r.plan
  PROVE  StagedOK(r, r.plan[i], w)
<1>1. DOMAIN r.todo = {}
  OBVIOUS
<1> QED BY <1>1 DEF ConvertOK

\* A name of the layer becomes the name of its one asset.
LEMMA RenamedIs ==
  ASSUME NEW w, NEW r, PlanOK(r, w), NEW i \in DOMAIN r.plan
  PROVE  Renamed(r.plan[i].authored, r.plan) = r.plan[i].archive
<1> DEFINE E == Elems(r.plan)
           n == r.plan[i].authored
<1>1. r.plan[i] \in E /\ \A a \in E : a.authored = n => a = r.plan[i]
  BY DEF PlanOK, Ready, Elems
<1>2. (CHOOSE a \in E : a.authored = n) = r.plan[i]
  <2>1. r.plan[i].authored = n
    OBVIOUS
  <2> HIDE DEF E, n
  <2> QED BY <1>1, <2>1
<1>3. Renamed(n, r.plan) = (CHOOSE a \in E : a.authored = n).archive
  BY ZenonT(30), <1>1 DEF Renamed
<1> HIDE DEF E
<1> QED BY <1>2, <1>3

\* WritePackage: the root layer and the staged assets, under the names it gives them.
LEMMA PackStep ==
  ASSUME NEW w, NEW r, PlanOK(r, w), \A i \in DOMAIN r.plan : StagedOK(r, r.plan[i], w),
         r.layer = [i \in DOMAIN r.model.names |-> Renamed(r.model.names[i], r.plan)],
         NEW paths, paths = <<RootOf(r.portable)>> \o [i \in DOMAIN r.plan |-> r.plan[i].archive],
         NEW z, NEW x, z = [by |-> x, names |-> r.layer,
           entries |-> [i \in DOMAIN paths |-> [path |-> paths[i], file |-> r.staged[paths[i]]]]],
         x \in w.begun, w.model[x] = r.model
  PROVE  PackageOK(z, w)
<1> DEFINE root == RootOf(r.portable)
           n == Len(r.plan)
           D == DOMAIN r.plan
           names == r.model.names
           e == z.entries
<1>1. r.plan \in Seq(Assets(r.model)) /\ n \in Nat /\ D = 1..n /\ r.model \in Models
  BY DEF PlanOK, Ready
<1>2. /\ DOMAIN paths = 1..(n + 1) /\ paths[1] = root
      /\ \A k \in 2..(n + 1) : k - 1 \in D /\ paths[k] = r.plan[k - 1].archive
  <2> DEFINE q == [i \in D |-> r.plan[i].archive]
  <2>1. q \in Seq({r.plan[i].archive : i \in D}) /\ Len(q) = n
    <3>1. q \in [1..n -> {r.plan[i].archive : i \in D}]
      BY <1>1
    <3>2. q \in Seq({r.plan[i].archive : i \in D})
      BY <1>1, <3>1
    <3> HIDE DEF q
    <3>3. DOMAIN q = 1..n
      BY <3>1
    <3> QED BY <1>1, <3>2, <3>3
  <2>2. \A i \in D : q[i] = r.plan[i].archive
    OBVIOUS
  <2>3. paths = <<root>> \o q
    OBVIOUS
  <2> HIDE DEF q, root, n, D
  <2>4. /\ DOMAIN paths = 1..(n + 1) /\ paths[1] = root
        /\ \A k \in 2..(n + 1) : paths[k] = q[k - 1]
    BY <1>1, <2>1, <2>3
  <2>5. \A k \in 2..(n + 1) : k - 1 \in D
    BY <1>1
  <2> QED BY <2>2, <2>4, <2>5
<1>3. /\ z.by = x /\ z.names = r.layer /\ DOMAIN e = DOMAIN paths
      /\ \A k \in DOMAIN e : e[k].path = paths[k] /\ e[k].file = r.staged[paths[k]]
                             /\ e[k] = [path |-> e[k].path, file |-> e[k].file]
  OBVIOUS
<1> HIDE DEF e
<1>4. \A i, k \in D : /\ Apart(r.plan[i].archive, root)
                      /\ ~Below(r.plan[i].archive, r.plan[k].archive)
                      /\ r.plan[i].archive = r.plan[k].archive => i = k
  BY DEF PlanOK, Ready
<1>5. ~Below(root, root)
  BY DEF Below, RootOf
<1>6. /\ Extension(root) = "usdc"
  BY DEF RootOf, Extension, Last
<1> HIDE DEF root, n, D
<1>7. ASSUME NEW k \in DOMAIN e, NEW l \in DOMAIN e
      PROVE  ~Below(e[k].path, e[l].path) /\ (k # l => e[k].path # e[l].path)
  <2>1. e[k].path = paths[k] /\ e[l].path = paths[l] /\ k \in 1..(n + 1) /\ l \in 1..(n + 1)
    BY <1>2, <1>3
  <2>2. CASE k = 1 /\ l = 1
    BY <1>2, <1>5, <2>1, <2>2
  <2>3. CASE k = 1 /\ l # 1
    <3>1. l \in 2..(n + 1)
      BY <1>1, <2>1, <2>3
    <3>2. paths[l] = r.plan[l - 1].archive /\ l - 1 \in D /\ paths[1] = root
      BY <1>2, <3>1
    <3>3. Apart(r.plan[l - 1].archive, root)
      BY <1>4, <3>2
    <3> QED BY <2>1, <2>3, <3>2, <3>3 DEF Apart
  <2>4. CASE k # 1 /\ l = 1
    <3>1. k \in 2..(n + 1)
      BY <1>1, <2>1, <2>4
    <3>2. paths[k] = r.plan[k - 1].archive /\ k - 1 \in D /\ paths[1] = root
      BY <1>2, <3>1
    <3>3. Apart(r.plan[k - 1].archive, root)
      BY <1>4, <3>2
    <3> QED BY <2>1, <2>4, <3>2, <3>3 DEF Apart
  <2>5. CASE k # 1 /\ l # 1
    <3>1. k \in 2..(n + 1) /\ l \in 2..(n + 1) /\ (k - 1 = l - 1 => k = l)
      BY <1>1, <2>1, <2>5
    <3>2. paths[k] = r.plan[k - 1].archive /\ paths[l] = r.plan[l - 1].archive /\ k - 1 \in D /\ l - 1 \in D
      BY <1>2, <3>1
    <3>3. /\ ~Below(r.plan[k - 1].archive, r.plan[l - 1].archive)
          /\ r.plan[k - 1].archive = r.plan[l - 1].archive => k = l
      BY <1>4, <3>1, <3>2
    <3> QED BY <2>1, <3>2, <3>3
  <2> QED BY <2>2, <2>3, <2>4, <2>5
<1>8. ASSUME NEW i \in DOMAIN names, NEW k \in DOMAIN e, e[k].path = z.names[i]
      PROVE  Held(names[i], e[k].file, w)
  <2>1. names[i] \in NameSet(r.model)
    BY DEF NameSet
  <2>2. PICK j \in D : r.plan[j].authored = names[i]
    BY <2>1 DEF PlanOK, Ready, D
  <2>3. z.names[i] = Renamed(names[i], r.plan)
    BY <1>3
  <2>4. z.names[i] = r.plan[j].archive
    BY SMTT(40), <2>2, <2>3, RenamedIs DEF D
  <2>5. paths[k] = r.plan[j].archive /\ e[k].file = r.staged[r.plan[j].archive]
    <3>1. e[k].path = paths[k] /\ e[k].file = r.staged[paths[k]]
      BY <1>3
    <3> QED BY <1>8, <2>4, <3>1
  <2>6. StagedOK(r, r.plan[j], w)
    BY DEF D
  <2>7. EntryOK(names[i], [path |-> r.plan[j].archive, file |-> e[k].file], w)
    BY <2>2, <2>5, <2>6 DEF StagedOK
  <2> QED BY <2>7 DEF EntryOK
<1>9. ASSUME w.changes = 0, NEW k \in DOMAIN e PROVE FormatIsTold(e[k])
  <2>1. k \in 1..(n + 1) /\ e[k].path = paths[k] /\ e[k].file = r.staged[paths[k]]
        /\ e[k] = [path |-> e[k].path, file |-> e[k].file]
    BY <1>2, <1>3
  <2>2. CASE k = 1
    <3>1. Extension(e[k].path) = "usdc"
      BY <1>2, <1>6, <2>1, <2>2
    <3> QED BY <3>1 DEF FormatIsTold
  <2>3. CASE k # 1
    <3>1. k \in 2..(n + 1)
      BY <1>1, <2>1, <2>3
    <3>2. k - 1 \in D /\ paths[k] = r.plan[k - 1].archive
      BY <1>2, <3>1
    <3>3. StagedOK(r, r.plan[k - 1], w)
      BY <3>2 DEF D
    <3> DEFINE f == [path |-> r.plan[k - 1].archive, file |-> r.staged[r.plan[k - 1].archive]]
    <3>4. EntryOK(r.plan[k - 1].authored, f, w)
      BY ONLY <3>3 DEF StagedOK
    <3>5. f = e[k]
      <4> HIDE DEF e
      <4> QED BY ONLY <2>1, <3>2
    <3> HIDE DEF f
    <3>6. FormatIsTold(f)
      BY ONLY ZenonT(30), <1>9, <3>4 DEF EntryOK
    <3> QED BY ONLY ZenonT(30), <3>5, <3>6
  <2> QED BY <2>2, <2>3
<1>10. Sound(z, names, w)
  BY <1>7, <1>8, <1>9 DEF Sound, e
<1> QED BY <1>3, <1>10 DEF PackageOK

\* A step of run x, for the facts about names.
Alone(x) ==
  /\ UNCHANGED <<seen, disk, changes>> /\ pc'[x] # "start"
  /\ pc[x] # "start" => model'[x] = model[x]
  /\ \A y \in Runs \ {x} :
       /\ pc'[y] = pc[y] /\ model'[y] = model[y] /\ portable'[y] = portable[y] /\ todo'[y] = todo[y]
       /\ plan'[y] = plan[y] /\ error'[y] = error[y] /\ staged'[y] = staged[y] /\ layer'[y] = layer[y]
       /\ zip'[y] = zip[y] /\ partial'[y] = partial[y]

LEMMA EndAlone ==
  ASSUME FcnsOK, MoreFcnsOK, NEW x \in Runs, StepOf(x), NEW code, End(x, code)
  PROVE  MoreFcnsOK' /\ Alone(x)
<1>1. MoreFcnsOK'
  BY DEF MoreFcnsOK, End, IsFcn
<1> QED BY <1>1 DEF MoreFcnsOK, Alone, End, StepOf, Own, FcnsOK, IsFcn

LEMMA StepAlone ==
  ASSUME ExportInv, MoreFcnsOK, NEW x \in Runs, Step(x)
  PROVE  MoreFcnsOK' /\ Alone(x)
<1>0. FcnsOK /\ StepOf(x)
  BY RunStep DEF ExportInv
<1>1. ASSUME NEW m \in Models, NEW p \in BOOLEAN, OpenModel(x, m, p) PROVE MoreFcnsOK' /\ Alone(x)
  BY <1>0, <1>1 DEF OpenModel, MoreFcnsOK, Alone, FcnsOK, IsFcn
<1>2. CASE DiscoverTexture(x)
  BY <1>0, <1>2 DEF DiscoverTexture, MoreFcnsOK, Alone, StepOf, Own, FcnsOK, IsFcn
<1>3. CASE Discovered(x)
  <2>1. CASE End(x, NotPackaged)
    BY <1>0, <2>1, EndAlone
  <2>2. CASE /\ pc[x] = "discover" /\ pc' = [pc EXCEPT ![x] = "convert"]
             /\ \E q : plan' = [plan EXCEPT ![x] = q] /\ todo' = [todo EXCEPT ![x] = q]
             /\ UNCHANGED <<model, portable, error, staged, layer, zip, partial, seen, disk, changes>>
    BY <1>0, <2>2 DEF MoreFcnsOK, Alone, FcnsOK, IsFcn
  <2> QED BY <1>3, <2>1, <2>2 DEF Discovered
<1>4. CASE StageTexture(x)
  BY <1>0, <1>4 DEF StageTexture, MoreFcnsOK, Alone, StepOf, Own, FcnsOK, IsFcn
<1>5. CASE Converted(x)
  <2>1. CASE End(x, NotPackaged)
    BY <1>0, <2>1, EndAlone
  <2>2. CASE ~End(x, NotPackaged)
    BY <1>0, <1>5, <2>2 DEF Converted, MoreFcnsOK, Alone, FcnsOK, IsFcn
  <2> QED BY <2>1, <2>2
<1>6. CASE Materialize(x)
  BY <1>0, <1>6 DEF Materialize, MoreFcnsOK, Alone, StepOf, Own, FcnsOK, IsFcn
<1>7. CASE LayerIsValid(x)
  BY ZenonT(60), <1>0, <1>7 DEF LayerIsValid, run, MoreFcnsOK, Alone, FcnsOK, IsFcn
<1>8. CASE WritePackage(x)
  BY <1>0, <1>8 DEF WritePackage, MoreFcnsOK, Alone, StepOf, Own, FcnsOK, IsFcn
<1>9. CASE PackageIsValid(x)
  BY <1>0, <1>9 DEF PackageIsValid, run, MoreFcnsOK, Alone, FcnsOK, IsFcn
<1>10. CASE Invalid(x)
  BY <1>0, <1>10, EndAlone DEF Invalid
<1>11. CASE CopyBeside(x)
  BY <1>0, <1>11 DEF CopyBeside, run, MoreFcnsOK, Alone, StepOf, Own, FcnsOK, IsFcn
<1>12. CASE CopyDone(x)
  BY <1>0, <1>12 DEF CopyDone, run, MoreFcnsOK, Alone, StepOf, Own, FcnsOK, IsFcn
<1>13. CASE Replace(x)
  BY <1>0, <1>13, EndAlone DEF Replace
<1>14. CASE Unwritable(x)
  BY <1>0, <1>14, EndAlone DEF Unwritable
<1>15. CASE Killed(x)
  BY <1>0, <1>15 DEF Killed, run, MoreFcnsOK, Alone, FcnsOK, IsFcn
<1> QED
  BY <1>1, <1>2, <1>3, <1>4, <1>5, <1>6, <1>7, <1>8, <1>9, <1>10, <1>11, <1>12, <1>13, <1>14, <1>15
  DEF Step

LEMMA WorldLater ==
  ASSUME NEW x \in Runs, Alone(x)
  PROVE  Later(World, World')
<1>1. /\ World'.seen = seen' /\ World'.disk = disk' /\ World'.changes = changes' /\ World'.model = model'
      /\ World'.begun = {y \in Runs : pc'[y] # "start"}
  BY DEF World
<1>2. /\ World.seen = seen /\ World.disk = disk /\ World.changes = changes /\ World.model = model
      /\ World.begun = {y \in Runs : pc[y] # "start"}
  BY DEF World
<1>3. seen' = seen /\ disk' = disk /\ changes' = changes
  BY DEF Alone
<1>4. ASSUME NEW y \in World.begun PROVE y \in World'.begun /\ World'.model[y] = World.model[y]
  BY <1>1, <1>2 DEF Alone
<1> QED BY <1>1, <1>2, <1>3, <1>4 DEF Later

\* Facts about names after a step of run x, from those about x itself.
LEMMA NamesKeep ==
  ASSUME NamesInv, NEW x \in Runs, Alone(x), MoreFcnsOK', NamesOK(At(x)', World'),
         UNCHANGED output \/ PackageOK(output'.package, World')
  PROVE  NamesInv'
<1>1. Later(World, World')
  BY WorldLater
<1>2. WorldOK(World')
  <2>1. World'.changes = World.changes /\ World'.disk = World.disk /\ World'.seen = World.seen
    BY DEF World, Alone
  <2> QED BY <2>1 DEF NamesInv, WorldOK
<1>3. ASSUME NEW y \in Runs PROVE NamesOK(At(y)', World')
  <2>1. CASE y = x
    BY <2>1
  <2>2. CASE y # x
    <3>1. At(y)' = At(y)
      BY <2>2 DEF Alone, At
    <3>2. NamesOK(At(y), World')
      BY <1>1, NamesLast DEF NamesInv
    <3> QED BY <3>1, <3>2
  <2> QED BY <2>1, <2>2
<1>4. output' # Old => PackageOK(output'.package, World')
  <2>1. CASE UNCHANGED output
    BY <1>1, <2>1, PackageLasts DEF NamesInv
  <2> QED BY <2>1
<1> QED BY <1>2, <1>3, <1>4 DEF NamesInv

\* The user changes a texture: what every fact is about stays behind.
LEMMA ChangeKeeps ==
  ASSUME NamesInv, NEW c \in Changes, Change(c[1], c[2])
  PROVE  NamesInv'
<1> DEFINE p == c[1]
           file == c[2]
<1>1. /\ changes' = changes + 1 /\ disk' = [disk EXCEPT ![p] = file] /\ seen' = seen \cup {<<p, file>>}
      /\ UNCHANGED <<pc, model, portable, todo, plan, error, staged, layer, zip, partial, output>>
  BY DEF Change, run
<1>2. changes \in Nat /\ disk = [q \in DOMAIN disk |-> disk[q]]
      /\ \A q \in DOMAIN disk : (disk[q] = None \/ IsFile(disk[q])) /\ <<q, disk[q]>> \in seen
  BY DEF NamesInv, WorldOK, World
<1>3. file = None \/ IsFile(file)
  BY DisksAssumption
<1> HIDE DEF p, file
<1>4. /\ World'.seen = seen' /\ World'.disk = disk' /\ World'.changes = changes' /\ World'.model = model
      /\ World'.begun = World.begun
  BY <1>1 DEF World
<1>5. WorldOK(World')
  <2>1. changes' \in Nat
    BY <1>1, <1>2
  <2>2. DOMAIN disk' = DOMAIN disk /\ disk' = [q \in DOMAIN disk' |-> disk'[q]]
    BY <1>1, <1>2
  <2>3. ASSUME NEW q \in DOMAIN disk
        PROVE  (disk'[q] = None \/ IsFile(disk'[q])) /\ <<q, disk'[q]>> \in seen'
    <3>1. CASE q = p
      <4>1. disk'[q] = file
        BY <1>1, <1>2, <3>1
      <4> QED BY <1>1, <1>3, <3>1, <4>1
    <3>2. CASE q # p
      <4>1. disk'[q] = disk[q]
        BY <1>1, <1>2, <3>2
      <4> QED BY <1>1, <1>2, <4>1
    <3> QED BY <3>1, <3>2
  <2> QED BY <1>4, <2>1, <2>2, <2>3 DEF WorldOK
<1>6. Later(World, World')
  <2>1. World.seen = seen /\ World.changes = changes /\ World.model = model
    BY DEF World
  <2>2. changes' # 0
    BY <1>1, <1>2
  <2> QED BY <1>1, <1>4, <2>1, <2>2 DEF Later
<1>7. ASSUME NEW y \in Runs PROVE NamesOK(At(y)', World')
  <2>1. At(y)' = At(y)
    BY <1>1 DEF At
  <2>2. NamesOK(At(y), World')
    BY <1>6, NamesLast DEF NamesInv
  <2> QED BY <2>1, <2>2
<1>8. output' # Old => PackageOK(output'.package, World')
  BY <1>1, <1>6, PackageLasts DEF NamesInv
<1>9. MoreFcnsOK'
  BY <1>1 DEF NamesInv, MoreFcnsOK, IsFcn
<1> QED BY <1>5, <1>7, <1>8, <1>9 DEF NamesInv

LEMMA NamesInit ==
  ASSUME Init
  PROVE  NamesInv
<1>1. MoreFcnsOK
  BY DEF Init, MoreFcnsOK, IsFcn
<1>2. WorldOK(World)
  <2>1. disk \in Disks /\ seen = {<<p, disk[p]>> : p \in DOMAIN disk} /\ changes = 0
    BY DEF Init
  <2>2. disk = [p \in DOMAIN disk |-> disk[p]] /\ \A p \in DOMAIN disk : disk[p] = None \/ IsFile(disk[p])
    BY <2>1, DisksAssumption
  <2>3. World.seen = seen /\ World.disk = disk /\ World.changes = changes
    BY DEF World
  <2> QED BY <2>1, <2>2, <2>3 DEF WorldOK
<1>3. ASSUME NEW x \in Runs PROVE NamesOK(At(x), World)
  <2>1. At(x).pc = "start" /\ At(x).plan = <<>> /\ At(x).staged = <<>>
    BY DEF Init, At
  <2> QED BY <2>1 DEF NamesOK
<1>4. output = Old
  BY DEF Init
<1> QED BY <1>1, <1>2, <1>3, <1>4 DEF NamesInv

LEMMA FileAtIs ==
  ASSUME NEW p
  PROVE  FileAt(p) = FileIn(World, p)
BY DEF FileAt, FileIn, World

LEMMA AtFields ==
  ASSUME NEW x
  PROVE  /\ At(x).pc = pc[x] /\ At(x).model = model[x] /\ At(x).portable = portable[x]
         /\ At(x).todo = todo[x] /\ At(x).plan = plan[x] /\ At(x).error = error[x]
         /\ At(x).staged = staged[x] /\ At(x).layer = layer[x] /\ At(x).zip = zip[x]
         /\ At(x).package = partial[x].package
         /\ At(x)'.pc = pc'[x] /\ At(x)'.model = model'[x] /\ At(x)'.portable = portable'[x]
         /\ At(x)'.todo = todo'[x] /\ At(x)'.plan = plan'[x] /\ At(x)'.error = error'[x]
         /\ At(x)'.staged = staged'[x] /\ At(x)'.layer = layer'[x] /\ At(x)'.zip = zip'[x]
         /\ At(x)'.package = partial'[x].package
BY DEF At

\* What NamesOK says of a run at one step.
LEMMA AtStep ==
  ASSUME NamesInv, NEW x \in Runs
  PROVE  NamesOK(At(x), World)
BY DEF NamesInv

LEMMA EndNames ==
  ASSUME FcnsOK, NEW x \in Runs, NEW w, NEW code, End(x, code)
  PROVE  NamesOK(At(x)', w)
<1>1. pc'[x] = "done" /\ staged'[x] = <<>>
  BY DEF FcnsOK, End, IsFcn
<1> DEFINE s == At(x)'
<1>2. s.pc = "done" /\ s.staged = <<>>
  BY <1>1, AtFields
<1> HIDE DEF s
<1>3. NamesOK(s, w)
  BY <1>2 DEF NamesOK
<1> QED BY <1>3 DEF s

\* One lemma for each step of a run.
LEMMA OpenNames ==
  ASSUME ExportInv, NamesInv, NEW x \in Runs, NEW m \in Models, NEW p \in BOOLEAN, OpenModel(x, m, p)
  PROVE  NamesOK(At(x)', World)
<1> DEFINE r == At(x)
           s == At(x)'
           w == World
<1>1. NamesOK(r, w)
  BY AtStep
<1>2. /\ pc[x] = "start" /\ pc'[x] = "discover" /\ model'[x] = m /\ portable'[x] = p
      /\ todo'[x] = Sorted(NameSet(m)) /\ plan'[x] = plan[x] /\ staged'[x] = staged[x]
  BY DEF OpenModel, ExportInv, FcnsOK, NamesInv, MoreFcnsOK, IsFcn
<1>3. /\ r.pc = "start" /\ s.pc = "discover" /\ s.model = m /\ s.portable = p
      /\ s.todo = Sorted(NameSet(m)) /\ s.plan = r.plan /\ s.staged = r.staged
  BY <1>2, AtFields
<1> HIDE DEF r, s, w
<1>4. s.plan = <<>> /\ \A q \in DOMAIN s.staged : Plain(q)
  BY <1>1, <1>3 DEF NamesOK
<1>5. DiscoverOK(s, w)
  BY <1>3, <1>4, OpenStep
<1>6. NamesOK(s, w)
  BY <1>3, <1>4, <1>5 DEF NamesOK
<1> QED BY <1>6 DEF s, w

LEMMA DiscoverNames ==
  ASSUME ExportInv, NamesInv, NEW x \in Runs, DiscoverTexture(x)
  PROVE  NamesOK(At(x)', World)
<1> DEFINE r == At(x)
           s == At(x)'
           w == World
           p == Head(todo[x])
           kind == KindOf(p, FileAt(p))
           a == [authored |-> p, archive |-> Stored(p, kind), action |-> kind.action]
<1>1. NamesOK(r, w) /\ WorldOK(w)
  BY AtStep DEF NamesInv
<1>2. /\ pc[x] = "discover" /\ pc'[x] = "discover" /\ model'[x] = model[x] /\ portable'[x] = portable[x]
      /\ todo[x] # <<>> /\ todo'[x] = Tail(todo[x]) /\ staged'[x] = staged[x]
  BY DEF DiscoverTexture, ExportInv, FcnsOK, NamesInv, MoreFcnsOK, IsFcn
<1>3. \/ kind = Unsupported /\ error'[x] = TRUE /\ plan'[x] = plan[x]
      \/ kind # Unsupported /\ error'[x] = error[x] /\ plan'[x] = Append(plan[x], a)
  BY DEF DiscoverTexture, ExportInv, FcnsOK, NamesInv, MoreFcnsOK, IsFcn
<1>4. kind = KindOf(p, FileIn(w, p))
  BY FileAtIs
<1>5. /\ r.pc = "discover" /\ s.pc = "discover" /\ s.model = r.model /\ s.portable = r.portable
      /\ r.todo # <<>> /\ s.todo = Tail(r.todo) /\ s.staged = r.staged /\ p = Head(r.todo)
  BY <1>2, AtFields
<1> HIDE DEF kind, p
<1>6. a = [authored |-> p, archive |-> Stored(p, kind), action |-> kind.action]
  OBVIOUS
<1> HIDE DEF a
<1>7. \/ kind = Unsupported /\ s.error = TRUE /\ s.plan = r.plan
      \/ kind # Unsupported /\ s.error = r.error /\ s.plan = Append(r.plan, a)
  BY <1>3, AtFields
<1> HIDE DEF r, s, w
<1>8. DiscoverOK(r, w) /\ \A q \in DOMAIN s.staged : Plain(q)
  BY <1>1, <1>5 DEF NamesOK
<1>9. DiscoverOK(s, w)
  BY <1>1, <1>4, <1>5, <1>6, <1>7, <1>8, VisitStep
<1>10. NamesOK(s, w)
  BY <1>5, <1>8, <1>9 DEF NamesOK
<1> QED BY <1>10 DEF s, w

LEMMA DiscoveredNames ==
  ASSUME ExportInv, NamesInv, NEW x \in Runs, Discovered(x)
  PROVE  NamesOK(At(x)', World)
<1> DEFINE root == RootOf(portable[x])
           names == {n \in NameSet(model[x]) : Plain(n)}
           named == ByArchive(IF portable[x] THEN Portable(plan[x]) ELSE plan[x])
           clash == ~portable[x] /\ \E a \in Elems(plan[x]) : Conflicts(a, root, names)
           r == At(x)
           s == At(x)'
           w == World
<1>0. FcnsOK
  BY DEF ExportInv
<1>1. CASE End(x, NotPackaged)
  BY <1>0, <1>1, EndNames
<1>2. CASE ~End(x, NotPackaged)
  <2>1. NamesOK(r, w)
    BY AtStep
  <2>2. /\ pc[x] = "discover" /\ todo[x] = <<>> /\ ~error[x] /\ ~clash
        /\ pc' = [pc EXCEPT ![x] = "convert"] /\ plan' = [plan EXCEPT ![x] = named]
        /\ todo' = [todo EXCEPT ![x] = named] /\ UNCHANGED <<model, portable, error, staged>>
    BY <1>2 DEF Discovered
  <2>3. error[x] = FALSE
    BY <1>0, <2>2 DEF FcnsOK
  <2> HIDE DEF clash, named
  <2>4. /\ pc'[x] = "convert" /\ plan'[x] = named /\ todo'[x] = named /\ model'[x] = model[x]
        /\ portable'[x] = portable[x] /\ staged'[x] = staged[x]
    BY <2>2 DEF ExportInv, FcnsOK, NamesInv, MoreFcnsOK, IsFcn
  <2>5. /\ r.pc = "discover" /\ r.todo = <<>> /\ r.error = FALSE /\ s.pc = "convert" /\ s.plan = named
        /\ s.todo = named /\ s.model = r.model /\ s.portable = r.portable /\ s.staged = r.staged
    BY <2>2, <2>3, <2>4, AtFields
  <2>6. root = RootOf(r.portable) /\ names = {n \in NameSet(r.model) : Plain(n)}
    BY AtFields
  <2>7. ~clash => r.portable = TRUE \/ ~\E a \in Elems(r.plan) : Conflicts(a, root, names)
    BY AtFields DEF clash, NamesInv, MoreFcnsOK
  <2>8. named = ByArchive(IF r.portable THEN Portable(r.plan) ELSE r.plan)
    BY AtFields DEF named
  <2> HIDE DEF root, names, r, s, w
  <2>9. DiscoverOK(r, w) /\ \A q \in DOMAIN s.staged : Plain(q)
    BY <2>1, <2>5 DEF NamesOK
  <2>10. r.model \in Models /\ r.portable \in BOOLEAN
    BY <2>9 DEF DiscoverOK
  <2>11. Ready(named, r.model, root, w)
    <3>1. CASE r.portable = TRUE
      <4>1. named = ByArchive(Portable(r.plan)) /\ root = RootOf(TRUE)
        BY <2>6, <2>8, <3>1
      <4>2. Ready(Portable(r.plan), r.model, root, w)
        BY <2>5, <2>9, <4>1, NumberedAreReady
      <4> QED BY <4>1, <4>2, SortedIsReady
    <3>2. CASE r.portable = FALSE
      <4>1. named = ByArchive(r.plan)
        BY <2>8, <3>2
      <4>2. ~\E a \in Elems(r.plan) : Conflicts(a, root, names)
        BY <2>2, <2>7, <3>2
      <4>3. Ready(r.plan, r.model, root, w)
        BY <2>5, <2>6, <2>9, <4>2, AuthoredAreReady
      <4> QED BY <4>1, <4>3, SortedIsReady
    <3> QED BY <2>10, <3>1, <3>2
  <2>12. PlanOK(s, w)
    BY <2>5, <2>6, <2>10, <2>11 DEF PlanOK
  <2>13. ConvertOK(s, w)
    BY <2>5, <2>12, ConvertStarts
  <2>14. NamesOK(s, w)
    BY <2>5, <2>9, <2>12, <2>13 DEF NamesOK
  <2> QED BY <2>14 DEF s, w
<1> QED BY <1>1, <1>2

LEMMA StageNames ==
  ASSUME ExportInv, NamesInv, NEW x \in Runs, StageTexture(x)
  PROVE  NamesOK(At(x)', World)
<1> DEFINE a == Head(todo[x])
           file == FileAt(a.authored)
           made == Made(a, file)
           r == At(x)
           s == At(x)'
           w == World
<1>1. NamesOK(r, w) /\ WorldOK(w)
  BY AtStep DEF NamesInv
<1>2. /\ pc[x] = "convert" /\ todo[x] # <<>> /\ file # None /\ pc'[x] = "convert"
      /\ todo'[x] = Tail(todo[x]) /\ model'[x] = model[x] /\ portable'[x] = portable[x]
      /\ plan'[x] = plan[x]
  BY DEF StageTexture, ExportInv, FcnsOK, NamesInv, MoreFcnsOK, IsFcn
<1>3. \/ error' = error /\ staged' = [staged EXCEPT ![x] = Put(@, a.archive, made)]
      \/ error' = [error EXCEPT ![x] = TRUE] /\ staged' = staged
  BY DEF StageTexture, Made
<1> HIDE DEF made
<1>4. \/ error'[x] = error[x] /\ staged'[x] = Put(staged[x], a.archive, made)
      \/ error'[x] = TRUE /\ staged'[x] = staged[x]
  BY <1>3 DEF ExportInv, FcnsOK, IsFcn
<1>5. file = FileIn(w, a.authored)
  BY FileAtIs
<1> HIDE DEF a, file
<1>6. /\ r.pc = "convert" /\ r.todo # <<>> /\ a = Head(r.todo) /\ s.pc = "convert"
      /\ s.todo = Tail(r.todo) /\ s.model = r.model /\ s.portable = r.portable /\ s.plan = r.plan
  BY <1>2, AtFields DEF a
<1>7. \/ s.error = r.error /\ s.staged = Put(r.staged, a.archive, made)
      \/ s.error = TRUE /\ s.staged = r.staged
  BY <1>4, AtFields
<1>8. made = Made(a, file)
  BY DEF made
<1> HIDE DEF r, s, w
<1>9. PlanOK(r, w) /\ ConvertOK(r, w) /\ \A q \in DOMAIN r.staged : Plain(q)
  BY <1>1, <1>6 DEF NamesOK
<1>10. ConvertOK(s, w)
  BY <1>1, <1>2, <1>5, <1>6, <1>7, <1>8, <1>9, StageStep
<1>11. PlanOK(s, w)
  BY <1>6, <1>9 DEF PlanOK
<1>12. Plain(a.archive)
  <2>1. r.todo \in Seq(Assets(r.model)) /\ \A k \in DOMAIN r.todo : \E i \in DOMAIN r.plan : r.todo[k] = r.plan[i]
    BY <1>9 DEF ConvertOK
  <2>2. 1 \in DOMAIN r.todo /\ a = r.todo[1]
    BY <1>6, <2>1
  <2>3. PICK i \in DOMAIN r.plan : a = r.plan[i]
    BY <2>1, <2>2
  <2> QED BY <1>9, <2>3 DEF PlanOK, Ready
<1>13. \A q \in DOMAIN s.staged : Plain(q)
  <2>1. CASE s.staged = r.staged
    BY <1>9, <2>1
  <2>2. CASE s.staged = Put(r.staged, a.archive, made)
    <3>1. DOMAIN s.staged = DOMAIN r.staged \cup {a.archive}
      BY <2>2 DEF Put
    <3> QED BY <1>9, <1>12, <3>1
  <2> QED BY <1>7, <2>1, <2>2
<1>14. NamesOK(s, w)
  BY <1>6, <1>10, <1>11, <1>13 DEF NamesOK
<1> QED BY <1>14 DEF s, w

LEMMA ConvertedNames ==
  ASSUME ExportInv, NamesInv, NEW x \in Runs, Converted(x)
  PROVE  NamesOK(At(x)', World)
<1> DEFINE r == At(x)
           s == At(x)'
           w == World
<1>0. FcnsOK
  BY DEF ExportInv
<1>1. CASE End(x, NotPackaged)
  BY <1>0, <1>1, EndNames
<1>2. CASE ~End(x, NotPackaged)
  <2>1. NamesOK(r, w)
    BY AtStep
  <2>2. /\ pc[x] = "convert" /\ todo[x] = <<>> /\ ~error[x] /\ pc' = [pc EXCEPT ![x] = "materialize"]
        /\ UNCHANGED <<model, portable, plan, staged>>
    BY <1>2 DEF Converted
  <2>3. error[x] = FALSE /\ pc'[x] = "materialize"
    BY <1>0, <2>2 DEF FcnsOK
  <2>4. /\ r.pc = "convert" /\ r.todo = <<>> /\ r.error = FALSE /\ s.pc = "materialize"
        /\ s.model = r.model /\ s.portable = r.portable /\ s.plan = r.plan /\ s.staged = r.staged
    BY <2>2, <2>3, AtFields
  <2> HIDE DEF r, s, w
  <2>5. PlanOK(r, w) /\ ConvertOK(r, w) /\ \A q \in DOMAIN s.staged : Plain(q)
    BY <2>1, <2>4 DEF NamesOK
  <2>6. PlanOK(s, w)
    BY <2>4, <2>5 DEF PlanOK
  <2>7. ASSUME NEW i \in DOMAIN s.plan PROVE StagedOK(s, s.plan[i], w)
    <3>1. StagedOK(r, r.plan[i], w)
      BY <2>4, <2>5, ConvertEnds
    <3> QED BY <2>4, <3>1 DEF StagedOK
  <2>8. NamesOK(s, w)
    BY <2>4, <2>5, <2>6, <2>7 DEF NamesOK
  <2> QED BY <2>8 DEF s, w
<1> QED BY <1>1, <1>2

LEMMA MaterializeNames ==
  ASSUME ExportInv, NamesInv, NEW x \in Runs, Materialize(x)
  PROVE  NamesOK(At(x)', World)
<1> DEFINE r == At(x)
           s == At(x)'
           w == World
           root == RootOf(portable[x])
           usdc == [format |-> "usdc", image |-> None]
           names == [i \in DOMAIN model[x].names |-> Renamed(model[x].names[i], plan[x])]
<1>1. NamesOK(r, w)
  BY AtStep
<1>2. /\ pc[x] = "materialize" /\ pc' = [pc EXCEPT ![x] = "check layer"]
      /\ layer' = [layer EXCEPT ![x] = names] /\ staged' = [staged EXCEPT ![x] = Put(@, root, usdc)]
      /\ UNCHANGED <<model, portable, plan>>
  BY DEF Materialize
<1> HIDE DEF names, root, usdc
<1>3. /\ pc'[x] = "check layer" /\ layer'[x] = names /\ staged'[x] = Put(staged[x], root, usdc)
      /\ model'[x] = model[x] /\ portable'[x] = portable[x] /\ plan'[x] = plan[x]
  BY <1>2 DEF ExportInv, FcnsOK, NamesInv, MoreFcnsOK, IsFcn
<1>4. /\ r.pc = "materialize" /\ s.pc = "check layer" /\ s.layer = names
      /\ s.staged = Put(r.staged, root, usdc) /\ s.model = r.model /\ s.portable = r.portable
      /\ s.plan = r.plan
  BY <1>2, <1>3, AtFields
<1>5. root = RootOf(r.portable)
  BY AtFields DEF root
<1>6. names = [i \in DOMAIN r.model.names |-> Renamed(r.model.names[i], r.plan)]
  BY AtFields DEF names
<1> HIDE DEF r, s, w
<1>7. /\ PlanOK(r, w) /\ \A i \in DOMAIN r.plan : StagedOK(r, r.plan[i], w)
      /\ \A q \in DOMAIN r.staged : Plain(q)
  BY <1>1, <1>4 DEF NamesOK
<1>8. PlanOK(s, w)
  BY <1>4, <1>7 DEF PlanOK
<1>9. ASSUME NEW i \in DOMAIN s.plan PROVE StagedOK(s, s.plan[i], w)
  <2>1. StagedOK(r, r.plan[i], w) /\ r.plan[i].archive # root
    BY <1>4, <1>5, <1>7 DEF PlanOK, Ready, Apart
  <2>2. StagedOK(s, r.plan[i], w)
    BY <1>4, <2>1, PutKeeps
  <2> QED BY <1>4, <2>2
<1>10. \A q \in DOMAIN s.staged : Plain(q)
  <2>1. DOMAIN s.staged = DOMAIN r.staged \cup {root}
    BY <1>4 DEF Put
  <2>2. Plain(root)
    <3> DEFINE a == IF r.portable THEN "model" ELSE Stem
               q == <<a, "usdc">>
    <3>1. Len(q) = 2 /\ Len(<<>>) = 0 /\ Len(<<".">>) = 1 /\ Len(<<"..">>) = 1
      OBVIOUS
    <3>2. root = <<q>>
      BY <1>5 DEF RootOf
    <3> HIDE DEF q
    <3>3. q # <<>> /\ q # <<".">> /\ q # <<"..">>
      <4>1. q # <<>>
        BY <3>1
      <4>2. q # <<".">>
        BY <3>1
      <4>3. q # <<"..">>
        BY <3>1
      <4> QED BY <4>1, <4>2, <4>3
    <3> QED BY <3>2, <3>3 DEF Plain
  <2> QED BY <1>7, <2>1, <2>2
<1>11. s.layer = [i \in DOMAIN s.model.names |-> Renamed(s.model.names[i], s.plan)]
  BY <1>4, <1>6
<1>12. NamesOK(s, w)
  BY <1>4, <1>8, <1>9, <1>10, <1>11 DEF NamesOK
<1> QED BY <1>12 DEF s, w

LEMMA PackageNames ==
  ASSUME ExportInv, NamesInv, NEW x \in Runs, WritePackage(x)
  PROVE  NamesOK(At(x)', World)
<1> DEFINE r == At(x)
           s == At(x)'
           w == World
           paths == <<RootOf(portable[x])>> \o [i \in DOMAIN plan[x] |-> plan[x][i].archive]
           z == [by |-> x, names |-> layer[x],
                 entries |-> [i \in DOMAIN paths |-> [path |-> paths[i], file |-> staged[x][paths[i]]]]]
<1>1. NamesOK(r, w)
  BY AtStep
<1>2. /\ pc[x] = "package" /\ pc' = [pc EXCEPT ![x] = "check package"] /\ zip' = [zip EXCEPT ![x] = z]
      /\ UNCHANGED <<model, portable, plan, staged, layer>>
  BY DEF WritePackage
<1> HIDE DEF z
<1>3. pc'[x] = "check package" /\ zip'[x] = z /\ staged'[x] = staged[x]
  BY <1>2 DEF ExportInv, FcnsOK, IsFcn
<1>4. r.pc = "package" /\ s.pc = "check package" /\ s.zip = z /\ s.staged = r.staged
  BY <1>2, <1>3, AtFields
<1>5. paths = <<RootOf(r.portable)>> \o [i \in DOMAIN r.plan |-> r.plan[i].archive]
  BY AtFields
<1>6. z = [by |-> x, names |-> r.layer,
           entries |-> [i \in DOMAIN paths |-> [path |-> paths[i], file |-> r.staged[paths[i]]]]]
  BY AtFields DEF z
<1>7. x \in w.begun /\ w.model[x] = r.model
  BY <1>2, AtFields DEF World
<1> HIDE DEF paths, r, s, w
<1>8. /\ PlanOK(r, w) /\ \A i \in DOMAIN r.plan : StagedOK(r, r.plan[i], w)
      /\ r.layer = [i \in DOMAIN r.model.names |-> Renamed(r.model.names[i], r.plan)]
      /\ \A q \in DOMAIN r.staged : Plain(q)
  BY <1>1, <1>4 DEF NamesOK
<1>9. PackageOK(z, w)
  BY ZenonT(60), <1>5, <1>6, <1>7, <1>8, PackStep
<1>10. NamesOK(s, w)
  BY <1>4, <1>8, <1>9 DEF NamesOK
<1> QED BY <1>10 DEF s, w

\* Steps that only go on with what is there: two checks, the copy and the end of a run.
LEMMA GoOnNames ==
  ASSUME ExportInv, NamesInv, NEW x \in Runs,
         LayerIsValid(x) \/ PackageIsValid(x) \/ CopyBeside(x) \/ CopyDone(x) \/ Killed(x)
  PROVE  NamesOK(At(x)', World)
<1> DEFINE r == At(x)
           s == At(x)'
           w == World
<1>1. NamesOK(r, w)
  BY AtStep
<1>2. /\ UNCHANGED <<model, portable, todo, plan, error, staged, layer, zip>>
      /\ pc' = [pc EXCEPT ![x] = pc'[x]]
  BY DEF LayerIsValid, PackageIsValid, CopyBeside, CopyDone, Killed, run, ExportInv, FcnsOK
<1>3. /\ s.model = r.model /\ s.portable = r.portable /\ s.todo = r.todo /\ s.plan = r.plan
      /\ s.error = r.error /\ s.staged = r.staged /\ s.layer = r.layer /\ s.zip = r.zip
  BY <1>2, AtFields
<1>4. CASE LayerIsValid(x)
  <2>1. r.pc = "check layer" /\ s.pc = "package"
    BY <1>4, AtFields DEF LayerIsValid, ExportInv, FcnsOK
  <2> HIDE DEF r, s, w
  <2>2. PlanOK(s, w)
    BY <1>1, <1>3, <2>1 DEF NamesOK, PlanOK
  <2>3. \A i \in DOMAIN s.plan : StagedOK(s, s.plan[i], w)
    BY <1>1, <1>3, <2>1 DEF NamesOK, StagedOK
  <2>4. NamesOK(s, w)
    BY <1>1, <1>3, <2>1, <2>2, <2>3 DEF NamesOK
  <2> QED BY <2>4 DEF s, w
<1>5. CASE PackageIsValid(x)
  <2>1. r.pc = "check package" /\ s.pc = "move"
    BY <1>5, AtFields DEF PackageIsValid, ExportInv, FcnsOK
  <2> HIDE DEF r, s, w
  <2>2. NamesOK(s, w)
    BY <1>1, <1>3, <2>1 DEF NamesOK
  <2> QED BY <2>2 DEF s, w
<1>6. CASE CopyBeside(x)
  <2>1. pc[x] = "move" /\ pc'[x] = "copying" /\ partial'[x] = [package |-> zip[x], whole |-> FALSE]
    BY <1>6 DEF CopyBeside, ExportInv, FcnsOK, IsFcn
  <2>2. r.pc = "move" /\ s.pc = "copying" /\ s.package = r.zip
    BY <2>1, AtFields
  <2> HIDE DEF r, s, w
  <2>3. NamesOK(s, w)
    BY <1>1, <1>3, <2>2 DEF NamesOK
  <2> QED BY <2>3 DEF s, w
<1>7. CASE CopyDone(x)
  <2>1. pc[x] = "copying" /\ pc'[x] = "rename" /\ partial' = [partial EXCEPT ![x].whole = TRUE]
    BY <1>7 DEF CopyDone, ExportInv, FcnsOK
  <2>2. partial[x] = [package |-> partial[x].package, whole |-> partial[x].whole]
    BY <2>1 DEF ExportInv, RunsOK, RunOK
  <2>3. partial'[x].package = partial[x].package
    BY <2>1, <2>2 DEF ExportInv, FcnsOK, IsFcn
  <2>4. r.pc = "copying" /\ s.pc = "rename" /\ s.package = r.package
    BY <2>1, <2>3, AtFields
  <2> HIDE DEF r, s, w
  <2>5. NamesOK(s, w)
    BY <1>1, <1>3, <2>4 DEF NamesOK
  <2> QED BY <2>5 DEF s, w
<1>8. CASE Killed(x)
  <2>1. s.pc = "killed"
    BY <1>8, AtFields DEF Killed, ExportInv, FcnsOK
  <2> HIDE DEF r, s, w
  <2>2. NamesOK(s, w)
    BY <1>1, <1>3, <2>1 DEF NamesOK
  <2> QED BY <2>2 DEF s, w
<1> QED BY <1>4, <1>5, <1>6, <1>7, <1>8

LEMMA NamesStep ==
  ASSUME ExportInv, NamesInv, NEW x \in Runs, Step(x)
  PROVE  NamesInv'
<1>0. FcnsOK /\ MoreFcnsOK
  BY DEF ExportInv, NamesInv
<1>1. MoreFcnsOK' /\ Alone(x)
  BY <1>0, StepAlone
<1>2. NamesOK(At(x)', World)
  BY <1>0, OpenNames, DiscoverNames, DiscoveredNames, StageNames, ConvertedNames, MaterializeNames,
     PackageNames, GoOnNames, EndNames
  DEF Step, Invalid, Replace, Unwritable
<1>3. Later(World, World')
  BY <1>1, WorldLater
<1>4. NamesOK(At(x)', World')
  <2> DEFINE s == At(x)'
             w == World
             v == World'
  <2> HIDE DEF s, w, v
  <2>1. NamesOK(s, w) /\ Later(w, v)
    BY <1>2, <1>3 DEF s, w, v
  <2>2. NamesOK(s, v)
    BY <2>1, NamesLast
  <2> QED BY <2>2 DEF s, v
<1>5. UNCHANGED output \/ PackageOK(output'.package, World')
  <2>1. CASE Replace(x)
    <3> DEFINE p == partial[x].package
               w == World
               v == World'
    <3>1. pc[x] = "rename" /\ output'.package = p
      BY <2>1 DEF Replace, ReadyToRename
    <3>2. At(x).pc = "rename" /\ At(x).package = p
      BY <3>1, AtFields
    <3>3. PackageOK(p, w)
      BY <3>2, AtStep DEF NamesOK
    <3> HIDE DEF p, w, v
    <3>4. Later(w, v)
      BY <1>3 DEF w, v
    <3>5. PackageOK(p, v)
      BY <3>3, <3>4, PackageLasts
    <3> QED BY <3>1, <3>5 DEF v
  <2>2. CASE ~Replace(x)
    BY <2>2 DEF Step, OpenModel, DiscoverTexture, Discovered, StageTexture, Converted, Materialize,
                LayerIsValid, WritePackage, PackageIsValid, Invalid, CopyBeside, CopyDone,
                Unwritable, Killed
  <2> QED BY <2>1, <2>2
<1> QED BY <1>1, <1>4, <1>5, NamesKeep

LEMMA NamesNext == ExportInv /\ NamesInv /\ [Next]_vars => NamesInv'
<1> SUFFICES ASSUME ExportInv, NamesInv, [Next]_vars PROVE NamesInv'
  OBVIOUS
<1>1. CASE UNCHANGED vars
  <2>1. UNCHANGED <<pc, model, portable, todo, plan, error, staged, layer, zip, partial, output, disk,
                    seen, changes>>
    BY <1>1 DEF vars, run
  <2>2. World' = World
    BY <2>1 DEF World
  <2>3. \A x \in Runs : At(x)' = At(x)
    BY <2>1 DEF At
  <2>4. WorldOK(World') /\ MoreFcnsOK'
    BY <2>1, <2>2 DEF NamesInv, MoreFcnsOK, IsFcn
  <2>5. \A x \in Runs : NamesOK(At(x)', World')
    BY <2>2, <2>3 DEF NamesInv
  <2>6. output' # Old => PackageOK(output'.package, World')
    BY <2>1, <2>2 DEF NamesInv
  <2> QED BY <2>4, <2>5, <2>6 DEF NamesInv
<1> QED BY <1>1, NamesStep, ChangeKeeps DEF Next

\* In every package that reaches the output each name of the model leads to the
\* image its own texture held at some time, names keep apart, and nothing is
\* staged outside the private directory (Discover's conflicts and names,
\* ConvertTextures, Materialize and WritePackage).
THEOREM NamesLead == Spec => []NamesLeadToTheirImages
<1>1. NamesInv => NamesLeadToTheirImages
  <2> SUFFICES ASSUME NamesInv PROVE NamesLeadToTheirImages
    OBVIOUS
  <2>1. ASSUME NEW x \in Runs, NEW p \in DOMAIN staged[x] PROVE Plain(p)
    <3>1. NamesOK(At(x), World) /\ At(x).staged = staged[x]
      BY AtStep, AtFields
    <3> QED BY <3>1 DEF NamesOK
  <2>2. ASSUME output # Old
        PROVE  LET p == output.package IN Sound(p, model[p.by].names, World)
    BY <2>2 DEF NamesInv, PackageOK, World
  <2>3. World.seen = seen /\ World.changes = changes
    BY DEF World
  <2> QED BY <2>1, <2>2, <2>3 DEF NamesLeadToTheirImages, Sound, Held
<1> QED BY <1>1, NamesInit, NamesNext, ExportIsInductive, PTL DEF Spec
=============================================================================
