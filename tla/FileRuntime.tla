---------------------------- MODULE FileRuntime ----------------------------
(***************************************************************************)
(* The JSON runtimes (procurement, sales orders, inventory, items,         *)
(* suppliers, customers, settings): a document in one file, written by     *)
(* repositories that each keep a copy of it.  Several repositories of one  *)
(* process share a file, one for every HTTP request; their writes are      *)
(* serialized by withRuntimeFileMutex, a chain of promises per file, and a *)
(* write replaces the file by renaming a temporary one.                    *)
(*                                                                         *)
(* The document is the sequence of the writes it contains, so that its     *)
(* revision is its length.  Every await is a point where others run.       *)
(***************************************************************************)
EXTENDS Naturals, Sequences, FiniteSets

CONSTANTS
  Writes,         \* the calls of transact
  Repositories,
  RepositoryOf,   \* the repository a write goes through
  None,
  MaxCrashes      \* bound on crashes of the process

ASSUME RuntimeAssumption ==
  /\ RepositoryOf \in [Writes -> Repositories]
  /\ None \notin Writes
  /\ MaxCrashes \in Nat

VARIABLES
  file,       \* the document on disk
  tail,       \* the last promise of the chain, by the write that made it
  write,      \* where each write is, whom it waits for, its working copy
  copy,       \* the document of each repository, None before it is loaded
  loading,    \* what a load in progress has read, None when there is none
  crashes

runtimeVars == <<file, tail, write, copy, loading, crashes>>

Documents == UNION {[1..n -> Writes] : n \in 0..Cardinality(Writes)}
Idle == [at |-> "idle", after |-> None, working |-> << >>]
Running == {"working", "writing", "written"}     \* inside the operation of the mutex

RuntimeTypeOK ==
  /\ file \in Documents
  /\ tail \in Writes \cup {None}
  /\ write \in [Writes ->
       [at : {"idle", "queued", "done", "failed", "lost"} \cup Running,
        after : Writes \cup {None}, working : Documents]]
  /\ copy \in [Repositories -> Documents \cup {None}]
  /\ loading \in [Repositories -> Documents \cup {None}]
  /\ crashes \in 0..MaxCrashes

RuntimeInit ==
  /\ file = << >>
  /\ tail = None
  /\ write = [w \in Writes |-> Idle]
  /\ copy = [r \in Repositories |-> None]
  /\ loading = [r \in Repositories |-> None]
  /\ crashes = 0

Go(w, at) == write' = [write EXCEPT ![w].at = at]

-----------------------------------------------------------------------------
\* The mutex

\* A write appends its promise to the chain and waits for the one before.
Enqueue(w) ==
  /\ write[w].at = "idle"
  /\ write' = [write EXCEPT ![w].at = "queued", ![w].after = tail]
  /\ tail' = w
  /\ UNCHANGED <<file, copy, loading, crashes>>

\* Variant: only an operation that succeeds resolves its promise.
MyTurnAfterSuccess(w) == \A v \in Writes : write[w].after = v => write[v].at = "done"

\* The promise before is resolved, whether its operation succeeded or failed.
MyTurn(w) == \A v \in Writes : write[w].after = v => write[v].at \in {"done", "failed"}

\* The promise resolves; the chain is forgotten if no one is behind.
Release(w) == tail' = IF tail = w THEN None ELSE tail

\* The operation ends, one way or the other.
End(w, at) ==
  /\ write' = [write EXCEPT ![w].at = at, ![w].after = None, ![w].working = << >>]
  /\ Release(w)

-----------------------------------------------------------------------------
\* The transaction of a repository

\* Variant: the transaction works on the copy of its repository.
LatestIsMyCopy(w) ==
  LET mine == copy[RepositoryOf[w]] IN IF mine = None THEN file ELSE mine

Latest(w) == file

ReadLatest(w) ==
  /\ write[w].at = "queued"
  /\ MyTurn(w)
  /\ write' = [write EXCEPT ![w].at = "working", ![w].working = Latest(w)]
  /\ UNCHANGED <<file, tail, copy, loading, crashes>>

\* Variant: the copy of the repository is the working document from the start.
OperateOnCopy(w) ==
  /\ write' = [write EXCEPT ![w].at = "writing", ![w].working = Append(@, w)]
  /\ copy' = [copy EXCEPT ![RepositoryOf[w]] = Append(write[w].working, w)]

\* The caller's function changes the working document.
Operate(w) ==
  /\ write' = [write EXCEPT ![w].at = "writing", ![w].working = Append(@, w)]
  /\ UNCHANGED copy

Transact(w) ==
  /\ write[w].at = "working"
  /\ Operate(w)
  /\ UNCHANGED <<file, tail, loading, crashes>>

\* The function refuses, or the temporary file cannot be written or renamed.
Fail(w) ==
  /\ write[w].at \in {"working", "writing"}
  /\ End(w, "failed")
  /\ UNCHANGED <<file, copy, loading, crashes>>

\* The temporary file takes the place of the document.
Rename(w) ==
  /\ write[w].at = "writing"
  /\ file' = write[w].working
  /\ Go(w, "written")
  /\ UNCHANGED <<tail, copy, loading, crashes>>

Finish(w) ==
  /\ write[w].at = "written"
  /\ copy' = [copy EXCEPT ![RepositoryOf[w]] = write[w].working]
  /\ End(w, "done")
  /\ UNCHANGED <<file, loading, crashes>>

-----------------------------------------------------------------------------
\* Readers

\* A reader finds no copy and reads the file, without the mutex.
StartLoad(r) ==
  /\ copy[r] = None /\ loading[r] = None
  /\ loading' = [loading EXCEPT ![r] = file]
  /\ UNCHANGED <<file, tail, write, copy, crashes>>

\* What it has read becomes the copy, even if a write has put a later one there.
FinishLoad(r) ==
  /\ loading[r] # None
  /\ copy' = [copy EXCEPT ![r] = loading[r]]
  /\ loading' = [loading EXCEPT ![r] = None]
  /\ UNCHANGED <<file, tail, write, crashes>>

\* The process stops: only the file is left.
Crash ==
  /\ crashes < MaxCrashes
  /\ crashes' = crashes + 1
  /\ tail' = None
  /\ write' = [w \in Writes |->
       IF write[w].at \in Running \cup {"queued"} THEN [Idle EXCEPT !.at = "lost"] ELSE write[w]]
  /\ copy' = [r \in Repositories |-> None]
  /\ loading' = [r \in Repositories |-> None]
  /\ UNCHANGED file

Proceed(w) == ReadLatest(w) \/ Transact(w) \/ Rename(w) \/ Finish(w)

RuntimeNext ==
  \/ \E w \in Writes : Enqueue(w) \/ Proceed(w) \/ Fail(w)
  \/ \E r \in Repositories : StartLoad(r) \/ FinishLoad(r)
  \/ Crash

(***************************************************************************)
(* Files are read and written, or fail to be, in the end: an operation     *)
(* that has the mutex does not stay in it.                                 *)
(***************************************************************************)
RuntimeFairness == \A w \in Writes : WF_runtimeVars(Proceed(w))

RuntimeSpec == RuntimeInit /\ [][RuntimeNext]_runtimeVars /\ RuntimeFairness

-----------------------------------------------------------------------------
\* Properties

\* One operation at a time is inside the mutex of a file.
OneWriterAtATime ==
  \A v, w \in Writes : write[v].at \in Running /\ write[w].at \in Running => v = w

(***************************************************************************)
(* Writes through any number of repositories are atomic and none is lost:  *)
(* each takes effect on top of all before it, one that is answered is in   *)
(* the document, one that failed is not and never was.                     *)
(***************************************************************************)
Document == INSTANCE AtomicDocument WITH
  content <- file,
  told <- [w \in Writes |-> IF write[w].at \in {"done", "failed", "lost"} THEN write[w].at
                            ELSE "waiting"]
WritesAreAtomic == Document!DocumentSpec

(***************************************************************************)
(* What a repository shows was the document at some time: a copy may lag   *)
(* behind the file, but never shows a write that failed or is not yet in   *)
(* the file.                                                               *)
(***************************************************************************)
CopiesWereTheDocument ==
  \A r \in Repositories : \A seen \in {copy[r], loading[r]} \ {None} :
    /\ Len(seen) <= Len(file)
    /\ seen = SubSeq(file, 1, Len(seen))

(***************************************************************************)
(* The queue of a file does not get stuck: every write that has joined it  *)
(* leaves it, also behind one that failed.                                 *)
(***************************************************************************)
EveryWriteLeavesTheQueue ==
  \A w \in Writes : write[w].at = "queued" ~> write[w].at \notin Running \cup {"queued"}
=============================================================================
