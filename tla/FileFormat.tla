------------------------------ MODULE FileFormat ------------------------------
(***************************************************************************)
(* UsdMmdFileFormat::Read: a file becomes the content of a layer.  The      *)
(* calling thread reads, parses, canonicalizes and waits; a worker authors  *)
(* the stage.  Authoring sends change notices, and a Python listener takes  *)
(* the interpreter lock (the GIL) on the worker, while the caller may have  *)
(* entered Read holding it and another Python thread may hold it too.       *)
(***************************************************************************)
EXTENDS Naturals, Sequences

CONSTANTS
  Files,                  \* what a resolved path may lead to
  Opens(_),               \* the asset is opened, and all of its bytes are read
  Parses(_),              \* the parser accepts it
  Document(_),            \* the parsed document
  ParserDiagnostics(_),
  CanonicalOf(_),         \* the canonical document of a parsed one
  ModelDiagnostics(_),    \* what canonicalizing a document reports
  SectionCount,           \* sections of a stage, each of which sends notices
  AuthorSection(_, _, _), \* AuthorSection(k, c, s): s with section k of document c
  AuthorDiagnostics(_),   \* what the authorer adds
  Posted(_),              \* the diagnostics of a list that are warnings or errors
  NoDocument, NoStage, NoLayer

ASSUME SectionAssumption == SectionCount \in Nat \ {0}

\* What a Read of a file may report, part by part: the parser, then the
\* canonicalizer, then the authorer.
ParserReports(f) == ParserDiagnostics(f)
ModelReports(f) == ParserReports(f) \o ModelDiagnostics(Document(f))
AllReports(f) == ModelReports(f) \o AuthorDiagnostics(CanonicalOf(Document(f)))

IsList(l) == l \in Seq({l[i] : i \in DOMAIN l})

\* A list is posted one diagnostic after the other.
ASSUME PostedAssumption ==
  /\ Posted(<<>>) = <<>>
  /\ \A f \in Files :
       /\ IsList(ParserReports(f)) /\ IsList(ModelDiagnostics(Document(f)))
       /\ IsList(AuthorDiagnostics(CanonicalOf(Document(f))))
       /\ Posted(ModelReports(f)) = Posted(ParserReports(f)) \o Posted(ModelDiagnostics(Document(f)))
       /\ Posted(AllReports(f)) =
            Posted(ModelReports(f)) \o Posted(AuthorDiagnostics(CanonicalOf(Document(f))))

VARIABLES
  pc,           \* the caller
  file,         \* what it reads
  entered,      \* whether it held the lock when it entered Read
  listening,    \* whether a listener is registered
  gil,          \* who holds the lock
  worker,       \* the worker: "none", "author", "notify", "listen", "done"
  section,      \* the section it authors
  canonical,    \* the canonical document
  stage,        \* the stage authored so far
  authored,     \* what the worker returns
  diagnostics,  \* diagnostics of parser, canonicalizer and authorer
  recorded,     \* the diagnostics recorded on the stage
  posted,       \* warnings posted
  layer,        \* the layer's content
  result        \* "none", "read", or "failed"

caller == <<pc, file, entered, posted, layer, result>>
lock == <<listening, gil>>
work == <<worker, section, canonical, stage, authored, diagnostics, recorded>>
vars == <<caller, lock, work>>

Init ==
  /\ file \in Files /\ entered \in BOOLEAN /\ listening \in BOOLEAN
  /\ gil = IF entered THEN "caller" ELSE "free"
  /\ pc = "open" /\ posted = <<>> /\ layer = NoLayer /\ result = "none"
  /\ worker = "none" /\ section = 1 /\ canonical = NoDocument /\ stage = NoStage /\ authored = FALSE
  /\ diagnostics = <<>> /\ recorded = <<>>

Fail == pc' = "returned" /\ result' = "failed"

Open ==
  /\ pc = "open"
  /\ \/ Opens(file) /\ pc' = "parse" /\ UNCHANGED result
     \/ ~Opens(file) /\ Fail
  /\ UNCHANGED <<file, entered, posted, layer, lock, work>>

\* pmx::Read; what it reports is posted before its failure is.
Parse ==
  /\ pc = "parse"
  /\ diagnostics' = ParserDiagnostics(file)
  /\ posted' = Posted(ParserDiagnostics(file))
  /\ \/ Parses(file) /\ pc' = "canonicalize" /\ UNCHANGED result
     \/ ~Parses(file) /\ Fail
  /\ UNCHANGED <<file, entered, layer, lock, worker, section, canonical, stage, authored, recorded>>

\* Faulty variant of Canonicalize: all that is known by now is posted.
CanonicalizeAgain ==
  /\ pc = "canonicalize"
  /\ diagnostics' = diagnostics \o ModelDiagnostics(Document(file))
  /\ posted' = posted \o Posted(diagnostics')
  /\ canonical' = CanonicalOf(Document(file))
  /\ pc' = "started" /\ worker' = "author"
  /\ UNCHANGED <<file, entered, layer, result, lock, section, stage, authored, recorded>>

\* Canonicalize, never fatal for a document the parser accepted, and the start
\* of the worker.
Canonicalize ==
  /\ pc = "canonicalize"
  /\ diagnostics' = diagnostics \o ModelDiagnostics(Document(file))
  /\ posted' = posted \o Posted(ModelDiagnostics(Document(file)))
  /\ canonical' = CanonicalOf(Document(file))
  /\ pc' = "started" /\ worker' = "author"
  /\ UNCHANGED <<file, entered, layer, result, lock, section, stage, authored, recorded>>

\* Faulty variant of AllowThreads: the lock stays with the caller.
AllowThreadsNot ==
  /\ pc = "started" /\ pc' = "waiting"
  /\ UNCHANGED <<file, entered, posted, layer, result, lock, work>>

\* The wait begins by giving the lock away, if the caller holds it.
AllowThreads ==
  /\ pc = "started" /\ pc' = "waiting"
  /\ gil' = IF gil = "caller" THEN "free" ELSE gil
  /\ UNCHANGED <<file, entered, posted, layer, result, listening, work>>

\* The worker has returned, and the lock is taken back.
Resume ==
  /\ pc = "waiting" /\ worker = "done"
  /\ \/ ~entered /\ UNCHANGED gil
     \/ entered /\ gil = "free" /\ gil' = "caller"
  /\ \/ authored /\ pc' = "import" /\ UNCHANGED result
     \/ ~authored /\ Fail
  /\ UNCHANGED <<file, entered, posted, layer, listening, work>>

\* Faulty variant of Import: the layer is filled before the import succeeds.
ImportInPlace ==
  /\ pc = "import"
  /\ posted' = posted \o Posted(AuthorDiagnostics(canonical))
  /\ layer' = [content |-> stage, recorded |-> recorded]
  /\ \/ pc' = "transfer" /\ UNCHANGED result
     \/ Fail
  /\ UNCHANGED <<file, entered, lock, work>>

\* The author's warnings, then the text read back into a layer of its own.
Import ==
  /\ pc = "import"
  /\ posted' = posted \o Posted(AuthorDiagnostics(canonical))
  /\ \/ pc' = "transfer" /\ UNCHANGED result
     \/ Fail
  /\ UNCHANGED <<file, entered, layer, lock, work>>

\* TransferContent.
Transfer ==
  /\ pc = "transfer"
  /\ layer' = [content |-> stage, recorded |-> recorded]
  /\ pc' = "returned" /\ result' = "read"
  /\ UNCHANGED <<file, entered, posted, lock, work>>

\* The worker authors a section; the stage may not be created.
Author ==
  /\ worker = "author" /\ section <= SectionCount
  /\ stage' = AuthorSection(section, canonical, stage)
  /\ worker' = "notify"
  /\ UNCHANGED <<caller, lock, section, canonical, authored, diagnostics, recorded>>

\* The last of Author: what the stage leaves out is added to the diagnostics,
\* all of them are recorded, and the stage is exported, which may fail.
Record ==
  /\ worker = "author" /\ section = SectionCount + 1
  /\ diagnostics' = diagnostics \o AuthorDiagnostics(canonical)
  /\ recorded' = diagnostics' /\ worker' = "done" /\ authored' \in BOOLEAN
  /\ UNCHANGED <<caller, lock, section, canonical, stage>>

NotCreated ==
  /\ worker = "author" /\ section = 1
  /\ worker' = "done" /\ authored' = FALSE
  /\ UNCHANGED <<caller, lock, section, canonical, stage, diagnostics, recorded>>

\* The section's notices: a listener needs the lock.
Notify ==
  /\ worker = "notify"
  /\ \/ ~listening /\ worker' = "author" /\ section' = section + 1 /\ UNCHANGED gil
     \/ listening /\ gil = "free" /\ gil' = "worker" /\ worker' = "listen" /\ UNCHANGED section
  /\ UNCHANGED <<caller, listening, canonical, stage, authored, diagnostics, recorded>>

Listened ==
  /\ worker = "listen"
  /\ gil' = "free" /\ worker' = "author" /\ section' = section + 1
  /\ UNCHANGED <<caller, listening, canonical, stage, authored, diagnostics, recorded>>

\* Another Python thread of the host.
OtherTakes == gil = "free" /\ gil' = "other" /\ UNCHANGED <<caller, listening, work>>
OtherGives == gil = "other" /\ gil' = "free" /\ UNCHANGED <<caller, listening, work>>

Caller == Open \/ Parse \/ Canonicalize \/ AllowThreads \/ Resume \/ Import \/ Transfer
Worker == Author \/ NotCreated \/ Record \/ Notify \/ Listened

Next == Caller \/ Worker \/ OtherTakes \/ OtherGives

\* A thread that can go on does, one that waits for the lock again and again
\* gets it, and Python makes a thread give the lock up.
Fairness == SF_vars(Caller) /\ SF_vars(Worker) /\ WF_vars(OtherGives)

Spec == Init /\ [][Next]_vars /\ Fairness

-----------------------------------------------------------------------------
(* Properties *)

\* Whoever holds the lock, and whatever listens, Read returns.
ReadReturns == <>(pc = "returned")

\* A Read that fails, at whatever point, leaves the layer as it was; one that
\* succeeds leaves the file's whole stage and all that was reported.
ReadIsAllOrNothing ==
  /\ result # "read" => layer = NoLayer
  /\ result = "read" =>
       /\ layer.content = stage /\ layer.recorded = diagnostics
       /\ worker = "done" /\ authored /\ section = SectionCount + 1

\* A Read returns with the lock as it was entered, and never waits holding it.
LockIsHandedBack ==
  /\ pc = "waiting" => gil # "caller"
  /\ pc \notin {"started", "waiting"} => (gil = "caller" <=> entered)

\* What a Read reports is posted once, in order, and all of it if it succeeds.
PostedOnce ==
  /\ pc = "returned" => \E n \in 0..Len(diagnostics) : posted = Posted(SubSeq(diagnostics, 1, n))
  /\ result = "read" => posted = Posted(diagnostics)
=============================================================================
