--------------------------- MODULE FileFormatProofs ---------------------------
(***************************************************************************)
(* Whatever files, parsers, authors and threads do, Read gives a layer all  *)
(* or nothing, posts what it reports once, and never waits holding the      *)
(* interpreter lock.                                                       *)
(***************************************************************************)
EXTENDS FileFormat, SequenceTheorems, TLAPS

\* The caller starts a worker when it has canonicalized, and goes on when the
\* worker is done.
InStep ==
  /\ pc \in {"open", "parse", "canonicalize", "started", "waiting", "import", "transfer", "returned"}
  /\ entered \in BOOLEAN /\ authored \in BOOLEAN
  /\ pc \in {"open", "parse", "canonicalize"} => worker = "none"
  /\ pc \in {"import", "transfer"} => worker = "done" /\ authored = TRUE
  /\ result \in {"none", "read", "failed"}
  /\ result # "none" <=> pc = "returned"
  /\ pc = "returned" => worker \in {"none", "done"}

\* A worker that succeeds has authored every section and recorded everything.
WorkerIsWhole ==
  worker = "done" /\ authored = TRUE => section = SectionCount + 1 /\ recorded = diagnostics

IInv == InStep /\ WorkerIsWhole /\ ReadIsAllOrNothing /\ LockIsHandedBack

LEMMA InitInv == Init => IInv
  BY DEF Init, IInv, InStep, WorkerIsWhole, ReadIsAllOrNothing, LockIsHandedBack

\* The caller's steps.
LEMMA CallerInv == IInv /\ Caller => IInv'
<1> SUFFICES ASSUME IInv, Caller PROVE IInv'
  OBVIOUS
<1> USE DEF IInv, InStep, WorkerIsWhole, ReadIsAllOrNothing, LockIsHandedBack, lock, work
<1>1. CASE Open
  BY <1>1 DEF Open, Fail
<1>2. CASE Parse
  BY <1>2 DEF Parse, Fail
<1>3. CASE Canonicalize
  BY <1>3 DEF Canonicalize
<1>4. CASE AllowThreads
  BY <1>4 DEF AllowThreads
<1>5. CASE Resume
  BY <1>5 DEF Resume, Fail
<1>6. CASE Import
  BY <1>6 DEF Import, Fail
<1>7. CASE Transfer
  BY <1>7 DEF Transfer
<1>8. QED
  BY <1>1, <1>2, <1>3, <1>4, <1>5, <1>6, <1>7 DEF Caller

\* The worker's steps: none of them is the caller's, and no other holder of
\* the lock is the caller.
LEMMA WorkerInv == IInv /\ Worker => IInv'
<1> SUFFICES ASSUME IInv, Worker PROVE IInv'
  OBVIOUS
<1> USE DEF IInv, InStep, WorkerIsWhole, ReadIsAllOrNothing, LockIsHandedBack, caller, lock
<1>1. CASE Author
  BY <1>1 DEF Author
<1>2. CASE NotCreated
  BY <1>2 DEF NotCreated
<1>3. CASE Record
  BY <1>3 DEF Record
<1>4. CASE Notify
  BY <1>4 DEF Notify
<1>5. CASE Listened
  BY <1>5 DEF Listened
<1>6. QED
  BY <1>1, <1>2, <1>3, <1>4, <1>5 DEF Worker

LEMMA StepInv == IInv /\ [Next]_vars => IInv'
<1> SUFFICES ASSUME IInv, [Next]_vars PROVE IInv'
  OBVIOUS
<1>1. CASE OtherTakes \/ OtherGives
  BY <1>1 DEF OtherTakes, OtherGives, IInv, InStep, WorkerIsWhole, ReadIsAllOrNothing,
              LockIsHandedBack, caller, work
<1>2. CASE UNCHANGED vars
  BY <1>2 DEF vars, caller, lock, work, IInv, InStep, WorkerIsWhole, ReadIsAllOrNothing,
              LockIsHandedBack
<1>3. QED
  BY <1>1, <1>2, CallerInv, WorkerInv DEF Next

\* A layer is filled by the last step of a Read that succeeds, from a worker
\* that has finished, and by nothing else.
THEOREM AllOrNothing == Spec => []ReadIsAllOrNothing
<1>1. IInv => ReadIsAllOrNothing
  BY DEF IInv
<1>2. QED
  BY <1>1, InitInv, StepInv, PTL DEF Spec

\* The caller never waits for the worker with the lock the worker may need, and
\* leaves Read with the lock as it was.
THEOREM NeverWaitsWithTheLock == Spec => []LockIsHandedBack
<1>1. IInv => LockIsHandedBack
  BY DEF IInv
<1>2. QED
  BY <1>1, InitInv, StepInv, PTL DEF Spec

-----------------------------------------------------------------------------
(* What is posted *)

\* By the program counter: what has been reported of the file, and what of it
\* has been posted.  The worker reports last, and the caller posts that last.
PostInv ==
  /\ file \in Files
  /\ pc \in {"open", "parse"} => diagnostics = <<>> /\ posted = <<>>
  /\ pc = "canonicalize" => diagnostics = ParserReports(file) /\ posted = Posted(ParserReports(file))
  /\ pc \in {"started", "waiting", "import"} =>
       canonical = CanonicalOf(Document(file)) /\ posted = Posted(ModelReports(file))
  /\ worker \in {"author", "notify", "listen"} =>
       pc \in {"started", "waiting"} /\ diagnostics = ModelReports(file)
  /\ worker = "done" /\ authored => diagnostics = AllReports(file)
  /\ worker = "done" => diagnostics \in {ModelReports(file), AllReports(file)}
  /\ pc = "transfer" => posted = Posted(AllReports(file))
  /\ PostedOnce

\* The first part of a list in two is a beginning of it.
LEMMA Beginning ==
  ASSUME NEW p, NEW q, IsList(p), IsList(q)
  PROVE  /\ IsList(p \o q) /\ Len(p) \in 0..Len(p) /\ Len(p) \in 0..Len(p \o q)
         /\ SubSeq(p \o q, 1, Len(p)) = p /\ SubSeq(p, 1, Len(p)) = p
<1> DEFINE S == {p[i] : i \in DOMAIN p} \cup {q[i] : i \in DOMAIN q}
           r == p \o q
<1>1. p \in Seq(S) /\ q \in Seq(S)
  BY DEF IsList
<1>2. r \in Seq(S) /\ Len(r) = Len(p) + Len(q) /\ Len(p) \in Nat /\ Len(q) \in Nat
  BY <1>1
<1>3. IsList(r)
  <2>1. DOMAIN r = 1..Len(r) /\ Len(r) \in Nat
    BY <1>2
  <2> HIDE DEF r
  <2>2. r = [i \in 1..Len(r) |-> r[i]]
    BY <1>2, LenProperties
  <2>3. r \in Seq({r[i] : i \in DOMAIN r})
    BY <2>1, <2>2
  <2> QED
    BY <2>3 DEF IsList
<1>4. SubSeq(r, 1, Len(p)) = SubSeq(p, 1, Len(p))
  BY <1>1, <1>2, SubSeqOfConcat1
<1>5. SubSeq(p, 1, Len(p)) = p
  BY SMTT(40), <1>1, SubSeqFull
<1> QED
  BY <1>2, <1>3, <1>4, <1>5

\* What has been reported at each point of a Read is a beginning of all that is
\* known by the next.
LEMMA Beginnings ==
  ASSUME NEW f \in Files
  PROVE  LET p == ParserReports(f)
             c == ModelReports(f)
             r == AllReports(f)
         IN  /\ \E n \in 0..Len(p) : p = SubSeq(p, 1, n)
             /\ \E n \in 0..Len(c) : c = SubSeq(c, 1, n)
             /\ \E n \in 0..Len(r) : c = SubSeq(r, 1, n)
             /\ \E n \in 0..Len(r) : r = SubSeq(r, 1, n)
<1> DEFINE p == ParserReports(f)
           m == ModelDiagnostics(Document(f))
           c == ModelReports(f)
           a == AuthorDiagnostics(CanonicalOf(Document(f)))
           r == AllReports(f)
<1>1. c = p \o m /\ r = c \o a /\ IsList(p) /\ IsList(m) /\ IsList(a)
  BY PostedAssumption DEF ModelReports, AllReports
<1> HIDE DEF p, m, c, a, r
<1>2. IsList(c) /\ Len(p) \in 0..Len(p) /\ SubSeq(p, 1, Len(p)) = p
  BY <1>1, Beginning
<1>3. IsList(r) /\ Len(c) \in 0..Len(c) /\ SubSeq(c, 1, Len(c)) = c
      /\ Len(c) \in 0..Len(r) /\ SubSeq(r, 1, Len(c)) = c
  BY <1>1, <1>2, Beginning
<1>4. Len(r) \in 0..Len(r) /\ SubSeq(r, 1, Len(r)) = r
  BY <1>1, <1>3, Beginning
<1> QED
  BY <1>2, <1>3, <1>4 DEF p, c, r

LEMMA InitPosted == Init => PostInv
<1> SUFFICES ASSUME Init PROVE PostInv
  OBVIOUS
<1> QED
  BY DEF Init, PostInv, PostedOnce

\* The caller posts what the part before it reported, or fails with all of it.
LEMMA CallerPosts == IInv /\ PostInv /\ Caller => PostInv'
<1> SUFFICES ASSUME IInv, PostInv, Caller PROVE PostInv'
  OBVIOUS
<1> USE DEF PostInv, PostedOnce
<1>0. IInv /\ InStep /\ WorkerIsWhole
  BY DEF IInv
<1>1. CASE Open
  <2>1. Posted(<<>>) = Posted(SubSeq(<<>>, 1, 0)) /\ 0 \in 0..Len(<<>>)
    <3>1. SubSeq(<<>>, 1, 0) = <<>>
      BY SubSeqEmpty
    <3>2. Posted(<<>>) = Posted(SubSeq(<<>>, 1, 0))
      BY ONLY <3>1, Zenon
    <3>3. 0 \in 0..Len(<<>>)
      BY EmptySeq
    <3> QED
      BY <3>2, <3>3
  <2>2. Posted(<<>>) = <<>>
    BY PostedAssumption
  <2>3. CASE pc' = "parse"
    BY <1>0, <1>1, <2>3 DEF Open, Fail, InStep, work
  <2>4. CASE pc' = "returned" /\ result' = "failed"
    <3>1. diagnostics' = <<>> /\ posted' = <<>>
      BY <1>1 DEF Open, work
    <3>2. PostedOnce'
      BY <2>1, <2>2, <2>4, <3>1
    <3> QED
      BY <1>0, <1>1, <2>4, <3>2 DEF Open, InStep, work
  <2> QED
    BY <1>1, <2>3, <2>4 DEF Open, Fail
<1>2. CASE Parse
  <2>1. diagnostics' = ParserReports(file) /\ posted' = Posted(ParserReports(file)) /\ file' = file
    BY <1>2 DEF Parse, ParserReports
  <2>2. \E n \in 0..Len(ParserReports(file)) : ParserReports(file) = SubSeq(ParserReports(file), 1, n)
    BY Beginnings
  <2>3. worker' = "none" /\ (pc' = "canonicalize" \/ (pc' = "returned" /\ result' = "failed"))
    <3>1. pc = "parse" /\ worker' = worker
      BY <1>2 DEF Parse, lock
    <3>2. worker = "none"
      BY <1>0, <3>1 DEF InStep
    <3> QED
      BY <1>2, <3>1, <3>2 DEF Parse, Fail
  <2>4. PostedOnce'
    BY <1>0, <1>2, <2>1, <2>2, <2>3 DEF InStep, Parse
  <2> QED
    BY <1>2, <2>1, <2>3, <2>4
<1>3. CASE Canonicalize
  BY <1>0, <1>3, PostedAssumption DEF Canonicalize, InStep, ModelReports
<1>4. CASE AllowThreads
  BY <1>0, <1>4 DEF AllowThreads, InStep, work
<1>5. CASE Resume
  BY <1>0, <1>5, Beginnings DEF Resume, Fail, InStep, work
<1>6. CASE Import
  BY <1>0, <1>6, PostedAssumption, Beginnings DEF Import, Fail, InStep, work
<1>7. CASE Transfer
  BY <1>0, <1>7, Beginnings DEF Transfer, InStep, work
<1>8. QED
  BY <1>1, <1>2, <1>3, <1>4, <1>5, <1>6, <1>7 DEF Caller

\* The worker reports once, as the last of what it does.
LEMMA WorkerPosts == IInv /\ PostInv /\ Worker => PostInv'
<1> SUFFICES ASSUME IInv, PostInv, Worker PROVE PostInv'
  OBVIOUS
<1> USE DEF PostInv, PostedOnce
<1>0. IInv /\ InStep /\ WorkerIsWhole
  BY DEF IInv
<1>1. CASE Author \/ Notify \/ Listened
  BY <1>0, <1>1 DEF Author, Notify, Listened, caller, InStep
<1>2. CASE NotCreated
  BY <1>0, <1>2 DEF NotCreated, caller, InStep
<1>3. CASE Record
  BY <1>0, <1>3 DEF Record, caller, InStep, AllReports
<1>6. QED
  BY <1>1, <1>2, <1>3 DEF Worker

\* Every warning the parser, the canonicalizer and the authorer have reported by
\* the time a Read returns is posted, each once and in the order it was
\* reported, and a Read that fails posts a beginning of them.
THEOREM EachIsPostedOnce == Spec => []PostedOnce
<1>1. IInv /\ PostInv /\ [Next]_vars => PostInv'
  <2> SUFFICES ASSUME IInv, PostInv, [Next]_vars PROVE PostInv'
    OBVIOUS
  <2>1. CASE OtherTakes \/ OtherGives
    BY <2>1 DEF OtherTakes, OtherGives, PostInv, PostedOnce, caller, work
  <2>2. CASE UNCHANGED vars
    BY <2>2 DEF vars, caller, lock, work, PostInv, PostedOnce
  <2>3. QED
    BY <2>1, <2>2, CallerPosts, WorkerPosts DEF Next
<1>2. PostInv => PostedOnce
  BY DEF PostInv
<1>3. QED
  BY <1>1, <1>2, InitInv, StepInv, InitPosted, PTL DEF Spec
=============================================================================
