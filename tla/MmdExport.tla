------------------------------ MODULE MmdExport ------------------------------
(***************************************************************************)
(* Runs of mmd_export (tools/mmdExport) that write one output path: they    *)
(* discover the textures a model's layer names, stage them, write the layer *)
(* and the archive in a private directory, validate, and move the archive   *)
(* into place.  Between any two steps another run may step, a run may be    *)
(* killed, and the user may replace a texture.                              *)
(*                                                                          *)
(* A path is a sequence of segments and a segment a sequence of labels, the *)
(* last of them its extension.  A file is its format and the image in it.   *)
(* OpenUSD's validators and the file system may refuse at any step.         *)
(***************************************************************************)
EXTENDS Integers, Sequences, SequencesExt

CONSTANTS
  Runs,            \* processes, all with the same output path
  Models,          \* layers: what they name, in order, and whether they name layers
  Paths,           \* what layers name, and what it is stored as
  Stem,            \* the output file's stem
  Disks,           \* the textures beside the model, by path; None where there is none
  Changes,         \* <<path, file>>: what the user may replace a texture by
  Precedes(_, _),  \* byte order of paths
  Number(_),       \* tex_0001, tex_0002, ...
  Old,             \* what the output path held before
  None,
  MaxChanges       \* bound: textures replaced per behaviour

ASSUME MaxChangesAssumption == MaxChanges \in Nat
ASSUME ModelsAssumption ==
  \A m \in Models : /\ m.layers \in BOOLEAN
                    /\ m.names \in Seq(Paths)

\* Comparing strings orders them.
ASSUME PathsAssumption ==
  /\ Paths \subseteq Seq(Seq(STRING))
  /\ \A p \in Paths : ~Precedes(p, p)
  /\ \A p, q \in Paths : p # q => Precedes(p, q) \/ Precedes(q, p)
  /\ \A p, q, r \in Paths : Precedes(p, q) /\ Precedes(q, r) => Precedes(p, r)

IsFile(f) == f = [format |-> f.format, image |-> f.image]
ASSUME DisksAssumption ==
  /\ \A d \in Disks : d = [p \in DOMAIN d |-> d[p]] /\ \A p \in DOMAIN d : d[p] = None \/ IsFile(d[p])
  /\ \A c \in Changes : c[2] = None \/ IsFile(c[2])

VARIABLES
  pc,        \* the step each run is at
  model,     \* the layer it opened
  portable,  \* whether it has --portable-paths
  todo,      \* what its loop has still to visit
  plan,      \* PackagePlan::assets
  error,     \* its diagnostics hold an error
  staged,    \* the files of its private directory, by archive path
  layer,     \* the asset paths its materialized layer names
  zip,       \* its archive
  partial,   \* its file beside the output
  status,    \* its exit status
  output,    \* the file at the output path
  disk,      \* the textures beside the model
  seen,      \* every <<path, file>> that was ever there (history)
  changes    \* textures replaced so far

run == <<model, portable, todo, plan, error, staged, layer, zip>>
vars == <<pc, run, partial, status, output, disk, seen, changes>>

-----------------------------------------------------------------------------
(* Discover *)

\* ArchivePathOf: nothing but a plain relative path stays in the directory.
Plain(p) == p # <<>> /\ \A i \in DOMAIN p : p[i] \notin {<<>>, <<".">>, <<"..">>}

Extension(p) == LET s == Last(p) IN IF Len(s) > 1 THEN Last(s) ELSE ""
WithSuffix(p, ext) == [p EXCEPT ![Len(p)] = Append(@, ext)]

Keep == [action |-> "keep"]
Rename(ext) == [action |-> "rename", appended |-> ext]
Convert == [action |-> "convert", appended |-> "png"]
Unsupported == [action |-> "unsupported"]

\* Faulty variant of ClassifyTexture: the name decides.
ClassifyByName(p, file) ==
  IF Extension(p) \in {"exr", "avif", "png", "jpg", "jpeg"} THEN Keep
  ELSE IF Extension(p) \in {"bmp", "tga"} THEN Convert ELSE Rename("png")

\* What a texture becomes, by its extension and the first bytes of the file;
\* "bm" is BMP's signature over bytes that do not decode.
ClassifyTexture(p, file) ==
  CASE Extension(p) \in {"exr", "avif"} -> Keep
    [] file.format = "png" -> IF Extension(p) = "png" THEN Keep ELSE Rename("png")
    [] file.format = "jpeg" -> IF Extension(p) \in {"jpg", "jpeg"} THEN Keep ELSE Rename("jpg")
    [] file.format \in {"bmp", "bm"} -> Convert
    [] Extension(p) = "tga" -> Convert
    [] OTHER -> Unsupported

Stored(p, kind) == IF kind.action = "keep" THEN p ELSE WithSuffix(p, kind.appended)

Sorted(S) ==
  CHOOSE s \in Bijection(1..Cardinality(S), S) :
    \A i, k \in DOMAIN s : i < k => Precedes(s[i], s[k])
NameSet(m) == {m.names[i] : i \in DOMAIN m.names}

\* The layer's asset paths come in byte order, each once.
OpenModel(x, m, p) ==
  /\ pc[x] = "start"
  /\ pc' = [pc EXCEPT ![x] = "discover"]
  /\ model' = [model EXCEPT ![x] = m] /\ portable' = [portable EXCEPT ![x] = p]
  /\ todo' = [todo EXCEPT ![x] = Sorted(NameSet(m))]
  /\ error' = [error EXCEPT ![x] = m.layers]
  /\ UNCHANGED <<plan, staged, layer, zip, partial, status, output, disk, seen, changes>>

\* A file beside the model, or None.
FileAt(p) == IF p \in DOMAIN disk THEN disk[p] ELSE None

\* Faulty variant of KindOf: whatever resolves is taken.
KindOfResolved(p, file) == IF file # None THEN ClassifyTexture(p, file) ELSE Unsupported

KindOf(p, file) ==
  IF Plain(p) /\ file # None THEN ClassifyTexture(p, file) ELSE Unsupported

\* A texture the package can hold is planned; any other is an error.
DiscoverTexture(x) ==
  /\ pc[x] = "discover" /\ todo[x] # <<>>
  /\ LET p == Head(todo[x])
         kind == KindOf(p, FileAt(p))
         asset == [authored |-> p, archive |-> Stored(p, kind), action |-> kind.action]
     IN  IF kind = Unsupported
         THEN error' = [error EXCEPT ![x] = TRUE] /\ UNCHANGED plan
         ELSE plan' = [plan EXCEPT ![x] = Append(@, asset)] /\ UNCHANGED error
  /\ todo' = [todo EXCEPT ![x] = Tail(@)]
  /\ UNCHANGED <<pc, model, portable, staged, layer, zip, partial, status, output, disk, seen, changes>>

\* Portable names number the textures that were planned, in authored order.
Portable(assets) ==
  [i \in DOMAIN assets |->
     [assets[i] EXCEPT !.archive = << <<"textures">>, <<Number(i), Extension(assets[i].archive)>> >>]]

\* Names made of names are names, and numbers tell textures apart.
ASSUME StoredAssumption ==
  \A m \in Models :
    /\ \A p \in NameSet(m), ext \in {"png", "jpg"} : Plain(p) => WithSuffix(p, ext) \in Paths
    /\ \A i, k \in 1..Cardinality(NameSet(m)) : Number(i) = Number(k) => i = k
    /\ \A i \in 1..Cardinality(NameSet(m)), ext \in {"png", "jpg", "jpeg", "exr", "avif"} :
         << <<"textures">>, <<Number(i), ext>> >> \in Paths

RootOf(p) == << <<IF p THEN "model" ELSE Stem, "usdc">> >>

Below(p, q) == Len(p) < Len(q) /\ SubSeq(q, 1, Len(p)) = p

\* Faulty variant of Conflicts: only files of the very name conflict.
ConflictsExact(a, root, names) == a.action # "keep" /\ a.archive \in names \cup {root}

\* A name beside the model: a file or a directory.
Exists(p) == \E q \in DOMAIN disk : disk[q] # None /\ (q = p \/ Below(p, q))

\* A name in the archive is one file or one directory: names are those the
\* layer gives files, and root that of the layer itself.
Conflicts(a, root, names) ==
  \/ a.archive = root
  \/ \E n \in names \cup {root} : Below(n, a.archive) \/ Below(a.archive, n)
  \/ a.action # "keep" /\ (a.archive \in names \/ Exists(a.archive))

Elems(s) == {s[i] : i \in DOMAIN s}
ByArchive(assets) ==
  LET place == CHOOSE f \in Bijection(DOMAIN assets, DOMAIN assets) :
                 \A i, k \in DOMAIN assets :
                   i < k => ~Precedes(assets[f[k]].archive, assets[f[i]].archive)
  IN  [i \in DOMAIN assets |-> assets[place[i]]]

\* Faulty variant of End: the file beside the output stays.
EndLeaving(x, code) ==
  /\ pc' = [pc EXCEPT ![x] = "done"] /\ status' = [status EXCEPT ![x] = code]
  /\ staged' = [staged EXCEPT ![x] = <<>>] /\ zip' = [zip EXCEPT ![x] = None]
  /\ UNCHANGED <<model, portable, todo, plan, layer, partial, disk, seen, changes>>

\* A run that stops removes its private directory and its file beside the output.
End(x, code) ==
  /\ pc' = [pc EXCEPT ![x] = "done"] /\ status' = [status EXCEPT ![x] = code]
  /\ partial' = [partial EXCEPT ![x] = None]
  /\ staged' = [staged EXCEPT ![x] = <<>>] /\ zip' = [zip EXCEPT ![x] = None]
  /\ todo' = [todo EXCEPT ![x] = <<>>] /\ plan' = [plan EXCEPT ![x] = <<>>]
  /\ layer' = [layer EXCEPT ![x] = <<>>]
  /\ UNCHANGED <<model, portable, disk, seen, changes>>

NotPackaged == 1
NotReadOrWritten == 2

\* Discover is done: names are given, and any error so far ends the run.
Discovered(x) ==
  /\ pc[x] = "discover" /\ todo[x] = <<>>
  /\ LET root == RootOf(portable[x])
         names == {n \in NameSet(model[x]) : Plain(n)}
         named == ByArchive(IF portable[x] THEN Portable(plan[x]) ELSE plan[x])
         clash == ~portable[x] /\ \E a \in Elems(plan[x]) : Conflicts(a, root, names)
     IN  IF error[x] \/ clash
         THEN error' = [error EXCEPT ![x] = TRUE] /\ End(x, NotPackaged) /\ UNCHANGED output
         ELSE /\ pc' = [pc EXCEPT ![x] = "convert"]
              /\ plan' = [plan EXCEPT ![x] = named] /\ todo' = [todo EXCEPT ![x] = named]
              /\ UNCHANGED <<model, portable, error, staged, layer, zip, partial, status, output,
                             disk, seen, changes>>

-----------------------------------------------------------------------------
(* Convert, materialize, package *)

Put(files, p, file) == [q \in DOMAIN files \cup {p} |-> IF q = p THEN file ELSE files[q]]

\* ConvertTextures copies a source as it is now, or decodes it: only then does
\* it turn out that it does not decode, which is an error but not the end.
StageTexture(x) ==
  /\ pc[x] = "convert" /\ todo[x] # <<>>
  /\ LET a == Head(todo[x])
         file == FileAt(a.authored)
     IN  /\ file # None
         /\ \/ /\ a.action # "convert"
               /\ staged' = [staged EXCEPT ![x] = Put(@, a.archive, file)] /\ UNCHANGED error
            \/ /\ a.action = "convert" /\ file.format # "bm"
               /\ staged' = [staged EXCEPT ![x] = Put(@, a.archive, [file EXCEPT !.format = "png"])]
               /\ UNCHANGED error
            \/ /\ a.action = "convert" /\ file.format # "bmp"
               /\ error' = [error EXCEPT ![x] = TRUE] /\ UNCHANGED staged
  /\ todo' = [todo EXCEPT ![x] = Tail(@)]
  /\ UNCHANGED <<pc, model, portable, plan, layer, zip, partial, status, output, disk, seen, changes>>

Converted(x) ==
  /\ pc[x] = "convert" /\ todo[x] = <<>>
  /\ IF error[x] THEN End(x, NotPackaged)
     ELSE /\ pc' = [pc EXCEPT ![x] = "materialize"]
          /\ UNCHANGED <<model, portable, todo, plan, staged, layer, zip, partial, status,
                         disk, seen, changes>>
  /\ UNCHANGED <<error, output>>

\* Faulty variant of Renamed: the names are replaced one asset after another.
RenamedInTurn(name, assets) ==
  LET after[i \in 0..Len(assets)] ==
        IF i = 0 THEN name
        ELSE IF assets[i].authored = after[i - 1] THEN assets[i].archive ELSE after[i - 1]
  IN  after[Len(assets)]

\* The archive name of an authored name.
Renamed(name, assets) ==
  IF \E a \in Elems(assets) : a.authored = name
  THEN (CHOOSE a \in Elems(assets) : a.authored = name).archive ELSE name

\* Materialize copies the layer with its names replaced, and saves it.
Materialize(x) ==
  /\ pc[x] = "materialize"
  /\ pc' = [pc EXCEPT ![x] = "check layer"]
  /\ layer' = [layer EXCEPT ![x] =
                 [i \in DOMAIN model[x].names |-> Renamed(model[x].names[i], plan[x])]]
  /\ staged' = [staged EXCEPT ![x] = Put(@, RootOf(portable[x]), [format |-> "usdc", image |-> None])]
  /\ UNCHANGED <<model, portable, todo, plan, error, zip, partial, status, output, disk, seen, changes>>

\* ValidateMaterialized: every name resolves among the staged files.
LayerIsValid(x) ==
  /\ pc[x] = "check layer"
  /\ \A i \in DOMAIN layer[x] : layer[x][i] \in DOMAIN staged[x]
  /\ pc' = [pc EXCEPT ![x] = "package"]
  /\ UNCHANGED <<run, partial, status, output, disk, seen, changes>>

\* The archive: the root layer, then the assets in the plan's order.
WritePackage(x) ==
  /\ pc[x] = "package"
  /\ pc' = [pc EXCEPT ![x] = "check package"]
  /\ zip' = [zip EXCEPT ![x] =
       LET paths == <<RootOf(portable[x])>> \o [i \in DOMAIN plan[x] |-> plan[x][i].archive]
       IN  [by |-> x, names |-> layer[x],
            entries |-> [i \in DOMAIN paths |-> [path |-> paths[i], file |-> staged[x][paths[i]]]]]]
  /\ UNCHANGED <<model, portable, todo, plan, error, staged, layer, partial, status, output, disk,
                 seen, changes>>

\* Every name of the package leads to one of its entries.
Closed(p) == \A i \in DOMAIN p.names : \E k \in DOMAIN p.entries : p.entries[k].path = p.names[i]

PackageIsValid(x) ==
  /\ pc[x] = "check package" /\ Closed(zip[x])
  /\ pc' = [pc EXCEPT ![x] = "move"]
  /\ UNCHANGED <<run, partial, status, output, disk, seen, changes>>

\* A failed check of the layer, the package or OpenUSD's validators.
Invalid(x) ==
  /\ pc[x] \in {"check layer", "check package"}
  /\ error' = [error EXCEPT ![x] = TRUE] /\ End(x, NotPackaged) /\ UNCHANGED output

\* MoveIntoPlace copies beside the output first; the copy takes time.
CopyBeside(x) ==
  /\ pc[x] = "move"
  /\ pc' = [pc EXCEPT ![x] = "copying"]
  /\ partial' = [partial EXCEPT ![x] = [package |-> zip[x], whole |-> FALSE]]
  /\ UNCHANGED <<run, status, output, disk, seen, changes>>

CopyDone(x) ==
  /\ pc[x] = "copying"
  /\ pc' = [pc EXCEPT ![x] = "rename"]
  /\ partial' = [partial EXCEPT ![x].whole = TRUE]
  /\ UNCHANGED <<run, status, output, disk, seen, changes>>

\* Faulty variant of ReadyToRename: the copy may still be under way.
ReadyEarly(x) == pc[x] \in {"copying", "rename"}

ReadyToRename(x) == pc[x] = "rename"

\* The rename replaces whatever is at the output path.
Replace(x) ==
  /\ ReadyToRename(x)
  /\ output' = partial[x]
  /\ End(x, 0) /\ UNCHANGED error

\* Anything that cannot be read or written: the output's directory, the private
\* one, the input, a source gone, the layer, the archive, the copy, the rename.
Unwritable(x) ==
  /\ \/ pc[x] \in {"start", "materialize", "package", "move", "copying", "rename"}
     \/ pc[x] = "convert" /\ todo[x] # <<>>
  /\ error' = [error EXCEPT ![x] = TRUE] /\ End(x, NotReadOrWritten) /\ UNCHANGED output

-----------------------------------------------------------------------------

\* Killed, a run leaves everything where it is.
Killed(x) ==
  /\ pc[x] \notin {"done", "killed"}
  /\ pc' = [pc EXCEPT ![x] = "killed"]
  /\ UNCHANGED <<run, partial, status, output, disk, seen, changes>>

\* The user replaces or removes a texture.
Change(p, file) ==
  /\ changes < MaxChanges /\ changes' = changes + 1
  /\ disk' = [disk EXCEPT ![p] = file] /\ seen' = seen \cup {<<p, file>>}
  /\ UNCHANGED <<pc, run, partial, status, output>>

Init ==
  /\ disk \in Disks
  /\ seen = {<<p, disk[p]>> : p \in DOMAIN disk} /\ changes = 0
  /\ pc = [x \in Runs |-> "start"]
  /\ model = [x \in Runs |-> None] /\ portable = [x \in Runs |-> FALSE]
  /\ todo = [x \in Runs |-> <<>>] /\ plan = [x \in Runs |-> <<>>]
  /\ error = [x \in Runs |-> FALSE]
  /\ staged = [x \in Runs |-> <<>>] /\ layer = [x \in Runs |-> <<>>]
  /\ zip = [x \in Runs |-> None] /\ partial = [x \in Runs |-> None]
  /\ status = [x \in Runs |-> None] /\ output = Old

Step(x) ==
  \/ \E m \in Models, p \in BOOLEAN : OpenModel(x, m, p)
  \/ DiscoverTexture(x) \/ Discovered(x) \/ StageTexture(x) \/ Converted(x)
  \/ Materialize(x) \/ LayerIsValid(x) \/ WritePackage(x) \/ PackageIsValid(x) \/ Invalid(x)
  \/ CopyBeside(x) \/ CopyDone(x) \/ Replace(x) \/ Unwritable(x) \/ Killed(x)

Next ==
  \/ \E x \in Runs : Step(x)
  \/ \E c \in Changes : Change(c[1], c[2])

Spec == Init /\ [][Next]_vars

-----------------------------------------------------------------------------
(* Properties *)

\* A package file as the output may hold it.
WholeFile(x, f) == f.whole /\ f.package.by = x /\ Closed(f.package)

\* The outcome of a run for the one who started it.
Result ==
  [x \in Runs |-> IF pc[x] = "done" /\ status[x] = 0 THEN "packaged"
                  ELSE IF pc[x] \in {"done", "killed"} THEN "stopped" ELSE "running"]

Promise == INSTANCE PackageOutput WITH Whole <- WholeFile, result <- Result

\* Whatever fails, whoever is killed and however runs overlap, the output path
\* holds what it held or a whole package, and exit status 0 means replaced.
OutputIsReplacedWhole == Promise!Spec

\* A run that ends by itself leaves nothing behind, and its status is what it
\* reported: 0 without an error and only then.
NothingLeftBehind ==
  \A x \in Runs : pc[x] = "done" =>
    /\ partial[x] = None /\ staged[x] = <<>> /\ zip[x] = None
    /\ status[x] = 0 <=> ~error[x]

\* An entry's file is of the format its extension says.
FormatIsTold(e) ==
  CASE Extension(e.path) = "png" -> e.file.format = "png"
    [] Extension(e.path) \in {"jpg", "jpeg"} -> e.file.format = "jpeg"
    [] OTHER -> Extension(e.path) \in {"usdc", "exr", "avif"}

\* In a package every name of the model leads to the image its own texture held
\* at some time, whatever names were appended to or numbered, and no name is a
\* directory of another.  While no texture changes, its file is what the name's
\* extension says.  No name leads out of a run's private directory.
NamesLeadToTheirImages ==
  /\ \A x \in Runs : \A p \in DOMAIN staged[x] : Plain(p)
  /\ output # Old =>
    LET p == output.package
        names == model[p.by].names
        At(n) == {k \in DOMAIN p.entries : p.entries[k].path = n}
    IN  /\ \A i \in DOMAIN names : \A k \in At(p.names[i]) :
             \E s \in seen : s[1] = names[i] /\ s[2] # None /\ s[2].image = p.entries[k].file.image
        /\ \A k, l \in DOMAIN p.entries :
             ~Below(p.entries[k].path, p.entries[l].path) /\ (k # l => p.entries[k].path # p.entries[l].path)
        /\ changes = 0 => \A k \in DOMAIN p.entries : FormatIsTold(p.entries[k])

=============================================================================
