-------------------------- MODULE FileRuntimeProofs --------------------------
(***************************************************************************)
(* Theorems about FileRuntime, for every set of writes and repositories    *)
(* and any number of crashes.                                              *)
(***************************************************************************)
EXTENDS FileRuntime, TLAPS

RuntimeTypes ==
  /\ file \in Seq(Writes)
  /\ tail \in Writes \cup {None}
  /\ write \in [Writes ->
       [at : {"idle", "queued", "done", "failed", "lost"} \cup Running,
        after : Writes \cup {None}, working : Seq(Writes)]]
  /\ copy \in [Repositories -> Seq(Writes) \cup {None}]
  /\ loading \in [Repositories -> Seq(Writes) \cup {None}]

\* The writes that have joined the chain and not left it.
Live == {w \in Writes : write[w].at \in Running \cup {"queued"}}

(***************************************************************************)
(* The promises of the chain, first to last: only the first may run, each  *)
(* of the others waits for the one before it, and tail is the last.        *)
(***************************************************************************)
Queue(n, q) ==
  /\ Live = {q[i] : i \in 1..n}
  /\ \A i, j \in 1..n : q[i] = q[j] => i = j
  /\ \A i \in 2..n : write[q[i]].after = q[i-1] /\ write[q[i]].at = "queued"
  /\ n > 0 => MyTurn(q[1]) /\ tail = q[n]
  /\ n = 0 => tail = None

QueueInv == \E n \in Nat : \E q \in [1..n -> Writes] : Queue(n, q)

\* What is in the file, and what the writer inside the mutex works on.
DocumentInv ==
  \A w \in Writes :
    /\ write[w].at \in {"idle", "queued", "working", "writing", "failed"}
         => ~Document!Contains(w)
    /\ write[w].at \in {"written", "done"} => Document!Contains(w)
    /\ write[w].at \in {"working", "written"} => write[w].working = file
    /\ write[w].at = "writing" => write[w].working = Append(file, w)

\* The document f was s at some time.
Beginning(s, f) ==
  /\ s \in Seq(Writes)
  /\ Len(s) <= Len(f)
  /\ \A i \in 1..Len(s) : s[i] = f[i]

CopiesInv ==
  \A r \in Repositories : \A seen \in {copy[r], loading[r]} \ {None} : Beginning(seen, file)

RuntimeInv == RuntimeTypes /\ QueueInv /\ DocumentInv /\ CopiesInv

-----------------------------------------------------------------------------
\* The chain

\* Whoever may run is the first of the chain.
LEMMA FirstRuns ==
  ASSUME RuntimeTypes, NEW n \in Nat, NEW q \in [1..n -> Writes], Queue(n, q),
         NEW w \in Live, MyTurn(w) \/ write[w].at \in Running
  PROVE  n > 0 /\ w = q[1]
<1>1. PICK i \in 1..n : w = q[i]
  BY DEF Queue
<1>2. ASSUME i # 1 PROVE FALSE
  <2>1. i \in 2..n /\ i - 1 \in 1..n
    BY <1>2
  <2>2. write[w].after = q[i-1] /\ write[w].at = "queued"
    BY <1>1, <2>1 DEF Queue
  <2>3. q[i-1] \in Live
    BY <2>1 DEF Queue
  <2>4. q[i-1] \in Writes /\ write[q[i-1]].at \in Running \cup {"queued"}
    BY <2>3 DEF Live
  <2>5. QED
    BY <2>2, <2>4 DEF MyTurn, Running
<1>3. QED
  BY <1>1, <1>2

\* At most one write is inside the mutex.
LEMMA OneRuns ==
  ASSUME RuntimeTypes, QueueInv,
         NEW v \in Writes, NEW w \in Writes,
         write[v].at \in Running, write[w].at \in Running
  PROVE  v = w
<1>1. PICK n \in Nat : \E q \in [1..n -> Writes] : Queue(n, q)
  BY DEF QueueInv
<1>2. PICK q \in [1..n -> Writes] : Queue(n, q)
  BY <1>1
<1>3. v \in Live /\ w \in Live
  BY DEF Live
<1>4. QED
  BY <1>2, <1>3, FirstRuns

\* A write that moves on inside the mutex leaves the chain as it is.
LEMMA QueueStays ==
  ASSUME RuntimeTypes, QueueInv, NEW w \in Writes, w \in Live,
         MyTurn(w) \/ write[w].at \in Running,
         NEW at \in Running,
         \A v \in Writes \ {w} : write'[v] = write[v],
         write'[w].at = at, write'[w].after = write[w].after, tail' = tail
  PROVE  QueueInv'
<1>1. PICK n \in Nat : \E q \in [1..n -> Writes] : Queue(n, q)
  BY DEF QueueInv
<1>2. PICK q \in [1..n -> Writes] : Queue(n, q)
  BY <1>1
<1>3. n > 0 /\ w = q[1]
  BY <1>2, FirstRuns
<1>4. Live' = Live
  BY DEF Live
<1>5. ASSUME NEW i \in 2..n
      PROVE  write'[q[i]].after = q[i-1] /\ write'[q[i]].at = "queued"
  <2>1. i \in 1..n /\ 1 \in 1..n /\ i # 1
    OBVIOUS
  <2>2. q[i] # w /\ q[i] \in Writes
    BY <1>2, <1>3, <2>1 DEF Queue
  <2>3. QED
    BY <1>2, <2>2 DEF Queue
<1>6. MyTurn(w)'
  <2>1. MyTurn(w)
    BY <1>2, <1>3 DEF Queue
  <2>2. ASSUME NEW v \in Writes, write'[w].after = v PROVE write'[v].at \in {"done", "failed"}
    <3>1. write[v].at \in {"done", "failed"}
      BY <2>1, <2>2 DEF MyTurn
    <3>2. v # w
      BY <3>1 DEF Live, Running
    <3>3. QED
      BY <3>1, <3>2
  <2>3. QED
    BY <2>2 DEF MyTurn
<1>7. Queue(n, q)'
  BY <1>2, <1>3, <1>4, <1>5, <1>6 DEF Queue
<1>8. QED
  BY <1>7 DEF QueueInv

\* A write that joins becomes the last.
LEMMA QueueGrows ==
  ASSUME RuntimeTypes, QueueInv, NEW w \in Writes, Enqueue(w)
  PROVE  QueueInv'
<1>1. PICK n \in Nat : \E q \in [1..n -> Writes] : Queue(n, q)
  BY DEF QueueInv
<1>2. PICK q \in [1..n -> Writes] : Queue(n, q)
  BY <1>1
<1> DEFINE r == [i \in 1..(n + 1) |-> IF i = n + 1 THEN w ELSE q[i]]
<1>3. r \in [1..(n + 1) -> Writes] /\ r[n + 1] = w /\ \A i \in 1..n : r[i] = q[i]
  OBVIOUS
<1>4. w \notin Live
  BY DEF Live, Enqueue, Running
<1>5. /\ write'[w].at = "queued" /\ write'[w].after = tail /\ tail' = w
      /\ \A v \in Writes \ {w} : write'[v] = write[v]
  BY DEF Enqueue, RuntimeTypes
<1>6. Live' = Live \cup {w}
  BY <1>5 DEF Live
<1>7. \A i \in 1..n : q[i] \in Live
  BY <1>2 DEF Queue
<1> HIDE DEF r
<1>8. Live' = {r[i] : i \in 1..(n + 1)}
  <2>1. ASSUME NEW v \in Live' PROVE \E i \in 1..(n + 1) : v = r[i]
    <3>1. CASE v = w
      BY <3>1, <1>3
    <3>2. CASE v \in Live
      <4>1. PICK i \in 1..n : v = q[i]
        BY <3>2, <1>2 DEF Queue
      <4>2. QED BY <4>1, <1>3
    <3>3. QED BY <3>1, <3>2, <1>6
  <2>2. ASSUME NEW i \in 1..(n + 1) PROVE r[i] \in Live'
    BY <1>3, <1>6, <1>7
  <2>3. QED BY <2>1, <2>2
<1>9. ASSUME NEW i \in 1..(n + 1), NEW j \in 1..(n + 1), r[i] = r[j] PROVE i = j
  <2>1. CASE i \in 1..n /\ j \in 1..n
    BY <1>2, <1>3, <1>9, <2>1 DEF Queue
  <2>2. QED
    BY <1>3, <1>4, <1>7, <1>9, <2>1
<1>10. ASSUME NEW i \in 2..(n + 1)
       PROVE  write'[r[i]].after = r[i-1] /\ write'[r[i]].at = "queued"
  <2>1. CASE i = n + 1
    <3>1. n > 0 /\ tail = q[n] /\ n \in 1..n
      BY <2>1, <1>2 DEF Queue
    <3>2. QED
      BY <2>1, <3>1, <1>3, <1>5
  <2>2. CASE i \in 2..n
    <3>1. r[i] = q[i] /\ r[i-1] = q[i-1] /\ q[i] \in Live /\ q[i] \in Writes
      BY <2>2, <1>3, <1>7
    <3>2. QED
      BY <2>2, <3>1, <1>2, <1>4, <1>5 DEF Queue
  <2>3. QED BY <2>1, <2>2
<1>11. MyTurn(r[1])'
  <2>1. CASE n = 0
    <3>1. tail = None /\ r[1] = w
      BY <2>1, <1>2, <1>3 DEF Queue
    <3>2. QED
      BY <3>1, <1>5, RuntimeAssumption DEF MyTurn
  <2>2. CASE n > 0
    <3>1. MyTurn(q[1]) /\ r[1] = q[1] /\ q[1] \in Live /\ q[1] \in Writes
      BY <2>2, <1>2, <1>3, <1>7 DEF Queue
    <3>2. write'[q[1]] = write[q[1]]
      BY <3>1, <1>4, <1>5
    <3>3. ASSUME NEW v \in Writes, write'[q[1]].after = v PROVE write'[v].at \in {"done", "failed"}
      <4>1. write[v].at \in {"done", "failed"}
        BY <3>1, <3>2, <3>3 DEF MyTurn
      <4>2. v # w
        BY <4>1 DEF Enqueue
      <4>3. QED BY <4>1, <4>2, <1>5
    <3>4. QED BY <3>1, <3>3 DEF MyTurn
  <2>3. QED BY <2>1, <2>2
<1>12. Queue(n + 1, r)'
  <2>1. tail' = r[n + 1]
    BY <1>3, <1>5
  <2>2. QED
    BY <1>8, <1>9, <1>10, <1>11, <2>1 DEF Queue
<1>13. QED
  BY <1>3, <1>12 DEF QueueInv

\* The first leaves, and the next may run.
LEMMA QueueShrinks ==
  ASSUME RuntimeTypes, QueueInv, NEW w \in Writes, write[w].at \in Running,
         NEW at \in {"done", "failed"}, End(w, at)
  PROVE  QueueInv'
<1>1. PICK n \in Nat : \E q \in [1..n -> Writes] : Queue(n, q)
  BY DEF QueueInv
<1>2. PICK q \in [1..n -> Writes] : Queue(n, q)
  BY <1>1
<1>3. n > 0 /\ w = q[1]
  <2>1. w \in Live
    BY DEF Live
  <2>2. QED
    BY <1>2, <2>1, FirstRuns
<1> DEFINE r == [i \in 1..(n - 1) |-> q[i + 1]]
<1>4. n - 1 \in Nat /\ r \in [1..(n - 1) -> Writes] /\ \A i \in 1..(n - 1) : r[i] = q[i + 1]
  BY <1>3
<1>5. /\ write'[w].at = at
      /\ \A v \in Writes \ {w} : write'[v] = write[v]
      /\ tail' = IF tail = w THEN None ELSE tail
  BY DEF End, Release, RuntimeTypes
<1>6. Live' = Live \ {w}
  BY <1>5 DEF Live, Running
<1> HIDE DEF r
<1>7. \A i \in 2..n : q[i] # w /\ q[i] \in Writes /\ write'[q[i]] = write[q[i]]
  BY <1>2, <1>3, <1>5 DEF Queue
<1>8. Live' = {r[i] : i \in 1..(n - 1)}
  <2>1. ASSUME NEW v \in Live' PROVE \E i \in 1..(n - 1) : v = r[i]
    <3>1. PICK i \in 1..n : v = q[i]
      BY <1>2, <1>6 DEF Queue
    <3>2. i # 1 /\ i - 1 \in 1..(n - 1)
      BY <3>1, <1>3, <1>6
    <3>3. r[i - 1] = q[i]
      BY <3>2, <1>4
    <3>4. QED BY <3>1, <3>2, <3>3
  <2>2. ASSUME NEW i \in 1..(n - 1) PROVE r[i] \in Live'
    <3>1. i + 1 \in 2..n /\ r[i] = q[i + 1]
      BY <1>4
    <3>2. q[i + 1] \in Live
      BY <3>1, <1>2 DEF Queue
    <3>3. QED BY <3>1, <3>2, <1>6, <1>7
  <2>3. QED BY <2>1, <2>2
<1>9. ASSUME NEW i \in 1..(n - 1), NEW j \in 1..(n - 1), r[i] = r[j] PROVE i = j
  <2>1. i + 1 \in 1..n /\ j + 1 \in 1..n /\ q[i + 1] = q[j + 1]
    BY <1>4, <1>9
  <2>2. i + 1 = j + 1
    BY <2>1, <1>2 DEF Queue
  <2>3. QED BY <2>2
<1>10. ASSUME NEW i \in 2..(n - 1)
       PROVE  write'[r[i]].after = r[i - 1] /\ write'[r[i]].at = "queued"
  <2>1. i + 1 \in 2..n /\ r[i] = q[i + 1] /\ r[i - 1] = q[i]
    BY <1>4
  <2>2. write[q[i + 1]].after = q[i + 1 - 1] /\ write[q[i + 1]].at = "queued"
    BY <2>1, <1>2 DEF Queue
  <2>3. QED BY <2>1, <2>2, <1>7
<1>11. ASSUME n - 1 > 0 PROVE MyTurn(r[1])' /\ tail' = r[n - 1]
  <2>1. 2 \in 2..n /\ 1 \in 1..(n - 1) /\ n - 1 \in 1..(n - 1) /\ n \in 2..n
    BY <1>11
  <2>2. r[1] = q[2] /\ r[n - 1] = q[n]
    BY <2>1, <1>4
  <2>3. write'[q[2]].after = w
    BY <2>1, <1>2, <1>3, <1>7 DEF Queue
  <2>4. tail = q[n] /\ q[n] # w
    BY <2>1, <1>2, <1>3, <1>7 DEF Queue
  <2>5. QED BY <2>2, <2>3, <2>4, <1>5 DEF MyTurn
<1>12. ASSUME n - 1 = 0 PROVE tail' = None
  BY <1>12, <1>2, <1>3, <1>5 DEF Queue
<1>13. Queue(n - 1, r)'
  BY <1>4, <1>8, <1>9, <1>10, <1>11, <1>12 DEF Queue
<1>14. QED
  BY <1>4, <1>13 DEF QueueInv

\* After a crash no one is in the chain.
LEMMA QueueEmpties ==
  ASSUME RuntimeTypes, Crash
  PROVE  QueueInv'
<1>1. \A w \in Writes : write'[w].at \notin Running \cup {"queued"}
  BY DEF Crash, RuntimeTypes, Running, Idle
<1>2. Live' = {} /\ tail' = None
  BY <1>1 DEF Live, Crash
<1> DEFINE q == [i \in 1..0 |-> CHOOSE w \in Writes : TRUE]
<1>3. q \in [1..0 -> Writes]
  OBVIOUS
<1> HIDE DEF q
<1>4. Queue(0, q)'
  BY <1>2 DEF Queue
<1>5. QED
  BY <1>3, <1>4 DEF QueueInv

-----------------------------------------------------------------------------
\* The invariant is preserved

\* Every step keeps the types.
LEMMA TypesStay ==
  ASSUME RuntimeTypes, [RuntimeNext]_runtimeVars
  PROVE  RuntimeTypes'
<1> DEFINE row == [at : {"idle", "queued", "done", "failed", "lost"} \cup Running,
                   after : Writes \cup {None}, working : Seq(Writes)]
<1>0. write \in [Writes -> row]
  BY DEF RuntimeTypes
<1>1. ASSUME NEW w \in Writes, Enqueue(w) PROVE RuntimeTypes'
  <2> DEFINE new == [write[w] EXCEPT !.at = "queued", !.after = tail]
  <2>1. tail \in Writes \cup {None}
    BY DEF RuntimeTypes
  <2>2. new \in row
    BY <1>0, <2>1
  <2>3. write' = [write EXCEPT ![w] = new]
    BY <1>0, <1>1 DEF Enqueue
  <2>4. write' \in [Writes -> row]
    <3> HIDE DEF row, new
    <3> QED BY <1>0, <2>2, <2>3
  <2>5. tail' \in Writes \cup {None} /\ UNCHANGED <<file, copy, loading>>
    BY <1>1 DEF Enqueue
  <2>6. QED
    BY <2>4, <2>5 DEF RuntimeTypes
<1>2. ASSUME NEW w \in Writes, ReadLatest(w) PROVE RuntimeTypes'
  <2> DEFINE new == [write[w] EXCEPT !.at = "working", !.working = file]
  <2>1. file \in Seq(Writes)
    BY DEF RuntimeTypes
  <2>2. new \in row
    BY <1>0, <2>1 DEF Running
  <2>3. write' = [write EXCEPT ![w] = new]
    BY <1>0, <1>2 DEF ReadLatest, Latest
  <2>4. write' \in [Writes -> row]
    <3> HIDE DEF row, new
    <3> QED BY <1>0, <2>2, <2>3
  <2>5. UNCHANGED <<file, tail, copy, loading>>
    BY <1>2 DEF ReadLatest
  <2>6. QED
    BY <2>4, <2>5 DEF RuntimeTypes
<1>3. ASSUME NEW w \in Writes, Transact(w) PROVE RuntimeTypes'
  <2>1. Append(write[w].working, w) \in Seq(Writes)
    BY DEF RuntimeTypes
  <2>2. QED
    BY <1>3, <2>1 DEF RuntimeTypes, Transact, Operate, Running
<1>4. ASSUME NEW w \in Writes, Rename(w) PROVE RuntimeTypes'
  BY <1>4 DEF RuntimeTypes, Rename, Go, Running
<1>5. ASSUME NEW w \in Writes, NEW at \in {"done", "failed"}, End(w, at)
      PROVE  /\ tail' \in Writes \cup {None}
             /\ write' \in [Writes ->
                  [at : {"idle", "queued", "done", "failed", "lost"} \cup Running,
                   after : Writes \cup {None}, working : Seq(Writes)]]
  <2> DEFINE new == [write[w] EXCEPT !.at = at, !.after = None, !.working = << >>]
  <2>1. << >> \in Seq(Writes)
    OBVIOUS
  <2>2. new \in row
    BY <1>0, <2>1
  <2>3. write' = [write EXCEPT ![w] = new]
    BY <1>0, <1>5 DEF End
  <2>4. write' \in [Writes -> row]
    <3> HIDE DEF row, new
    <3> QED BY <1>0, <2>2, <2>3
  <2>5. tail' \in Writes \cup {None}
    BY <1>5 DEF End, Release, RuntimeTypes
  <2>6. QED
    BY <2>4, <2>5
<1>6. ASSUME NEW w \in Writes, Fail(w) PROVE RuntimeTypes'
  BY <1>5, <1>6 DEF RuntimeTypes, Fail
<1>7. ASSUME NEW w \in Writes, Finish(w) PROVE RuntimeTypes'
  BY <1>5, <1>7 DEF RuntimeTypes, Finish
<1>8. ASSUME NEW r \in Repositories, StartLoad(r) \/ FinishLoad(r) PROVE RuntimeTypes'
  BY <1>8 DEF RuntimeTypes, StartLoad, FinishLoad
<1>9. ASSUME Crash PROVE RuntimeTypes'
  <2>1. << >> \in Seq(Writes)
    OBVIOUS
  <2>2. [Idle EXCEPT !.at = "lost"]
          \in [at : {"lost"}, after : {None}, working : Seq(Writes)]
    BY <2>1 DEF Idle
  <2>3. QED
    BY <1>9, <2>2 DEF RuntimeTypes, Crash
<1>10. ASSUME UNCHANGED runtimeVars PROVE RuntimeTypes'
  BY <1>10 DEF RuntimeTypes, runtimeVars
<1>11. QED
  BY <1>1, <1>2, <1>3, <1>4, <1>6, <1>7, <1>8, <1>9, <1>10 DEF RuntimeNext, Proceed

\* Every step keeps the queue of promises: one at most of them runs.
LEMMA QueueInvStays ==
  ASSUME RuntimeTypes, QueueInv, [RuntimeNext]_runtimeVars
  PROVE  QueueInv'
<1>1. RuntimeTypes'
  BY TypesStay
<1>2. ASSUME NEW w \in Writes, ReadLatest(w) PROVE QueueInv'
  <2>1. w \in Live /\ MyTurn(w) /\ "working" \in Running
    BY <1>2 DEF ReadLatest, Live, Running
  <2>2. /\ write'[w].at = "working" /\ write'[w].after = write[w].after /\ tail' = tail
        /\ \A v \in Writes \ {w} : write'[v] = write[v]
    BY <1>2 DEF ReadLatest, RuntimeTypes
  <2>3. QED
    BY <1>1, <2>1, <2>2, QueueStays
<1>3. ASSUME NEW w \in Writes, Transact(w) PROVE QueueInv'
  <2>1. w \in Live /\ write[w].at \in Running /\ "writing" \in Running
    BY <1>3 DEF Transact, Live, Running
  <2>2. /\ write'[w].at = "writing" /\ write'[w].after = write[w].after /\ tail' = tail
        /\ \A v \in Writes \ {w} : write'[v] = write[v]
    BY <1>3 DEF Transact, Operate, RuntimeTypes
  <2>3. QED
    BY <1>1, <2>1, <2>2, QueueStays
<1>4. ASSUME NEW w \in Writes, Rename(w) PROVE QueueInv'
  <2>1. w \in Live /\ write[w].at \in Running /\ "written" \in Running
    BY <1>4 DEF Rename, Live, Running
  <2>2. /\ write'[w].at = "written" /\ write'[w].after = write[w].after /\ tail' = tail
        /\ \A v \in Writes \ {w} : write'[v] = write[v]
    BY <1>4 DEF Rename, Go, RuntimeTypes
  <2>3. QED
    BY <1>1, <2>1, <2>2, QueueStays
<1>5. ASSUME NEW w \in Writes, Fail(w) \/ Finish(w) PROVE QueueInv'
  <2>1. write[w].at \in Running /\ \E at \in {"done", "failed"} : End(w, at)
    BY <1>5 DEF Fail, Finish, Running
  <2>2. QED
    BY <2>1, QueueShrinks
<1>6. ASSUME write' = write, tail' = tail PROVE QueueInv'
  BY <1>6 DEF QueueInv, Queue, Live, MyTurn
<1>7. QED
  BY <1>2, <1>3, <1>4, <1>5, <1>6, QueueGrows, QueueEmpties
     DEF RuntimeNext, Proceed, StartLoad, FinishLoad, runtimeVars

\* Only a rename changes the file, and it adds the write that was inside the mutex.
LEMMA RenameAppends ==
  ASSUME RuntimeTypes, DocumentInv, NEW w \in Writes, Rename(w)
  PROVE  /\ file' = Append(file, w)
         /\ Len(file') = Len(file) + 1
         /\ file'[Len(file) + 1] = w
         /\ \A i \in 1..Len(file) : file'[i] = file[i]
<1>1. file' = Append(file, w)
  BY DEF Rename, DocumentInv
<1>2. QED
  BY <1>1 DEF RuntimeTypes

\* Every step keeps what the file, its copies and the old documents hold.
LEMMA DocumentInvStays ==
  ASSUME RuntimeTypes, QueueInv, DocumentInv, [RuntimeNext]_runtimeVars
  PROVE  DocumentInv'
<1> DEFINE Holds(w) ==
      /\ write[w].at \in {"idle", "queued", "working", "writing", "failed"}
           => ~Document!Contains(w)
      /\ write[w].at \in {"written", "done"} => Document!Contains(w)
      /\ write[w].at \in {"working", "written"} => write[w].working = file
      /\ write[w].at = "writing" => write[w].working = Append(file, w)
<1>1. \A w \in Writes : Holds(w)
  BY DEF DocumentInv
<1>2. SUFFICES \A w \in Writes : Holds(w)'
  BY <1>2 DEF DocumentInv
<1>3. ASSUME file' = file, NEW w \in Writes, Holds(w)',
             \A v \in Writes \ {w} : write'[v] = write[v]
      PROVE  \A v \in Writes : Holds(v)'
  <2>1. ASSUME NEW v \in Writes \ {w} PROVE Holds(v)'
    BY <1>1, <1>3, <2>1 DEF Document!Contains
  <2>2. QED
    BY <1>3, <2>1
<1>4. ASSUME NEW w \in Writes, Enqueue(w) PROVE \A v \in Writes : Holds(v)'
  <2>1. /\ write'[w].at = "queued" /\ write[w].at = "idle" /\ file' = file
        /\ \A v \in Writes \ {w} : write'[v] = write[v]
    BY <1>4 DEF Enqueue, RuntimeTypes
  <2>2. Holds(w)'
    BY <1>1, <2>1 DEF Document!Contains
  <2>3. QED
    BY <1>3, <2>1, <2>2
<1>5. ASSUME NEW w \in Writes, ReadLatest(w) PROVE \A v \in Writes : Holds(v)'
  <2>1. /\ write'[w].at = "working" /\ write'[w].working = file /\ write[w].at = "queued"
        /\ file' = file /\ \A v \in Writes \ {w} : write'[v] = write[v]
    BY <1>5 DEF ReadLatest, Latest, RuntimeTypes
  <2>2. Holds(w)'
    BY <1>1, <2>1 DEF Document!Contains
  <2>3. QED
    BY <1>3, <2>1, <2>2
<1>6. ASSUME NEW w \in Writes, Transact(w) PROVE \A v \in Writes : Holds(v)'
  <2>1. /\ write'[w].at = "writing" /\ write'[w].working = Append(write[w].working, w)
        /\ write[w].at = "working" /\ file' = file
        /\ \A v \in Writes \ {w} : write'[v] = write[v]
    BY <1>6 DEF Transact, Operate, RuntimeTypes
  <2>2. Holds(w)'
    BY <1>1, <2>1 DEF Document!Contains
  <2>3. QED
    BY <1>3, <2>1, <2>2
<1>7. ASSUME NEW w \in Writes, Fail(w) PROVE \A v \in Writes : Holds(v)'
  <2>1. /\ write'[w].at = "failed" /\ write[w].at \in {"working", "writing"} /\ file' = file
        /\ \A v \in Writes \ {w} : write'[v] = write[v]
    BY <1>7 DEF Fail, End, RuntimeTypes
  <2>2. Holds(w)'
    BY <1>1, <2>1 DEF Document!Contains
  <2>3. QED
    BY <1>3, <2>1, <2>2
<1>8. ASSUME NEW w \in Writes, Finish(w) PROVE \A v \in Writes : Holds(v)'
  <2>1. /\ write'[w].at = "done" /\ write[w].at = "written" /\ file' = file
        /\ \A v \in Writes \ {w} : write'[v] = write[v]
    BY <1>8 DEF Finish, End, RuntimeTypes
  <2>2. Holds(w)'
    BY <1>1, <2>1 DEF Document!Contains
  <2>3. QED
    BY <1>3, <2>1, <2>2
<1>9. ASSUME NEW w \in Writes, Rename(w) PROVE \A v \in Writes : Holds(v)'
  <2>1. /\ write'[w].at = "written" /\ write[w].at = "writing"
        /\ write'[w].working = write[w].working
        /\ \A v \in Writes \ {w} : write'[v] = write[v]
    BY <1>9 DEF Rename, Go, RuntimeTypes
  <2>2. /\ file' = Append(file, w) /\ Len(file') = Len(file) + 1 /\ file'[Len(file) + 1] = w
        /\ \A i \in 1..Len(file) : file'[i] = file[i]
    BY <1>9, RenameAppends
  <2>3. /\ DOMAIN file = 1..Len(file) /\ DOMAIN file' = 1..Len(file') /\ Len(file) \in Nat
    BY TypesStay DEF RuntimeTypes
  <2>4. Document!Contains(w)'
    BY <2>2, <2>3 DEF Document!Contains
  <2>5. \A v \in Writes \ {w} : Document!Contains(v)' <=> Document!Contains(v)
    BY <2>2, <2>3 DEF Document!Contains
  <2>6. Holds(w)'
    BY <1>1, <2>1, <2>2, <2>4
  <2>7. ASSUME NEW v \in Writes \ {w} PROVE Holds(v)'
    <3>1. write[v].at \notin Running
      BY <2>1, OneRuns DEF Running
    <3>2. write'[v] = write[v] /\ write[v].at \notin {"working", "writing", "written"}
      BY <3>1, <2>1 DEF Running
    <3>3. QED
      BY <1>1, <2>5, <3>2
  <2>8. QED
    BY <2>6, <2>7
<1>10. ASSUME Crash PROVE \A v \in Writes : Holds(v)'
  <2>1. SUFFICES ASSUME NEW v \in Writes PROVE Holds(v)'
    OBVIOUS
  <2>2. file' = file /\ (write'[v].at = "lost" \/ write'[v] = write[v])
    BY <1>10 DEF Crash, Idle
  <2>3. QED
    BY <1>1, <2>2 DEF Document!Contains
<1>11. ASSUME file' = file, write' = write PROVE \A v \in Writes : Holds(v)'
  BY <1>1, <1>11 DEF Document!Contains
<1> HIDE DEF Holds
<1>12. QED
  BY <1>4, <1>5, <1>6, <1>7, <1>8, <1>9, <1>10, <1>11
     DEF RuntimeNext, Proceed, StartLoad, FinishLoad, runtimeVars

\* A document that the file once was stays a beginning of it.
LEMMA CopiesInvStays ==
  ASSUME RuntimeTypes, DocumentInv, CopiesInv, [RuntimeNext]_runtimeVars
  PROVE  CopiesInv'
<1>1. ASSUME NEW s, Beginning(s, file) PROVE Beginning(s, file')
  <2>1. CASE file' = file
    BY <1>1, <2>1 DEF Beginning
  <2>2. CASE \E w \in Writes : Rename(w)
    <3>1. PICK w \in Writes : Rename(w)
      BY <2>2
    <3>2. /\ Len(file') = Len(file) + 1
          /\ \A i \in 1..Len(file) : file'[i] = file[i]
      BY <3>1, RenameAppends
    <3>3. Len(s) \in Nat /\ Len(file) \in Nat
      BY <1>1 DEF Beginning, RuntimeTypes
    <3>4. QED
      BY <1>1, <3>2, <3>3 DEF Beginning
  <2>3. QED
    BY <2>1, <2>2 DEF RuntimeNext, Proceed, Enqueue, ReadLatest, Transact, Fail, Finish,
                      StartLoad, FinishLoad, Crash, runtimeVars
<1>2. Beginning(file, file)
  BY DEF Beginning, RuntimeTypes
<1>3. \A r \in Repositories : /\ copy[r] # None => Beginning(copy[r], file)
                              /\ loading[r] # None => Beginning(loading[r], file)
  BY DEF CopiesInv
<1>4. SUFFICES ASSUME NEW r \in Repositories
               PROVE  /\ copy'[r] \in {None, copy[r], loading[r], file}
                      /\ loading'[r] \in {None, loading[r], file}
  <2>1. \A x \in Repositories : /\ copy'[x] # None => Beginning(copy'[x], file')
                                /\ loading'[x] # None => Beginning(loading'[x], file')
    BY <1>1, <1>2, <1>3, <1>4
  <2>2. QED
    BY <2>1 DEF CopiesInv
<1>5. ASSUME NEW w \in Writes, Finish(w) PROVE copy'[r] \in {copy[r], file} /\ loading' = loading
  BY <1>5 DEF Finish, DocumentInv, RuntimeTypes
<1>6. ASSUME NEW x \in Repositories, StartLoad(x) \/ FinishLoad(x)
      PROVE  copy'[r] \in {copy[r], loading[r]} /\ loading'[r] \in {None, loading[r], file}
  BY <1>6 DEF StartLoad, FinishLoad, RuntimeTypes
<1>7. ASSUME Crash PROVE copy'[r] = None /\ loading'[r] = None
  BY <1>7 DEF Crash
<1>8. QED
  BY <1>5, <1>6, <1>7 DEF RuntimeNext, Proceed, Enqueue, ReadLatest, Transact, Operate, Rename,
                          Fail, runtimeVars

-----------------------------------------------------------------------------
\* Theorems

\* The invariant that all of the theorems below rest on.
THEOREM RuntimeInvariant == RuntimeSpec => []RuntimeInv
<1>1. RuntimeInit => RuntimeInv
  <2> SUFFICES ASSUME RuntimeInit PROVE RuntimeInv
    OBVIOUS
  <2>1. RuntimeTypes
    BY DEF RuntimeInit, RuntimeTypes, Idle
  <2>2. QueueInv
    <3>1. Live = {} /\ tail = None
      BY DEF RuntimeInit, Live, Idle, Running
    <3> DEFINE q == [i \in 1..0 |-> CHOOSE w \in Writes : TRUE]
    <3>2. q \in [1..0 -> Writes]
      OBVIOUS
    <3> HIDE DEF q
    <3>3. Queue(0, q)
      BY <3>1 DEF Queue
    <3>4. QED
      BY <3>2, <3>3 DEF QueueInv
  <2>3. DocumentInv
    BY DEF RuntimeInit, DocumentInv, Document!Contains, Idle
  <2>4. CopiesInv
    BY DEF RuntimeInit, CopiesInv
  <2>5. QED
    BY <2>1, <2>2, <2>3, <2>4 DEF RuntimeInv
<1>2. RuntimeInv /\ [RuntimeNext]_runtimeVars => RuntimeInv'
  BY TypesStay, QueueInvStays, DocumentInvStays, CopiesInvStays DEF RuntimeInv
<1>3. QED
  BY <1>1, <1>2, PTL DEF RuntimeSpec

\* The mutex of a file lets one operation in at a time, whatever fails or crashes.
THEOREM MutualExclusion == RuntimeSpec => []OneWriterAtATime
<1>1. RuntimeInv => OneWriterAtATime
  BY OneRuns DEF RuntimeInv, OneWriterAtATime
<1>2. QED
  BY RuntimeInvariant, <1>1, PTL

\* What a repository shows was the document at some time.
THEOREM CopiesAreEarlierDocuments == RuntimeSpec => []CopiesWereTheDocument
<1>1. RuntimeInv => CopiesWereTheDocument
  <2>1. ASSUME RuntimeTypes, NEW s, Beginning(s, file)
        PROVE  Len(s) <= Len(file) /\ s = SubSeq(file, 1, Len(s))
    <3>1. /\ file \in Seq(Writes) /\ s \in Seq(Writes)
          /\ Len(s) \in Nat /\ Len(file) \in Nat /\ Len(s) <= Len(file)
          /\ \A i \in 1..Len(s) : s[i] = file[i]
      BY <2>1 DEF RuntimeTypes, Beginning
    <3>2. SubSeq(file, 1, Len(s)) = [i \in 1..Len(s) |-> file[i]]
      BY <3>1
    <3>3. s = [i \in 1..Len(s) |-> s[i]]
      BY <3>1
    <3>4. QED
      BY <3>1, <3>2, <3>3
  <2>2. QED
    BY <2>1 DEF RuntimeInv, CopiesInv, CopiesWereTheDocument
<1>2. QED
  BY RuntimeInvariant, <1>1, PTL

(***************************************************************************)
(* Writes are atomic, none is lost and none that failed leaves a trace:    *)
(* FileRuntime implements AtomicDocument.  A rename is where a write takes *)
(* effect, the end of its operation where its caller is told.              *)
(***************************************************************************)
THEOREM RuntimeIsAtomic == RuntimeSpec => WritesAreAtomic
<1> DEFINE known == [w \in Writes |->
             IF write[w].at \in {"done", "failed", "lost"} THEN write[w].at ELSE "waiting"]
<1>1. RuntimeInit => Document!DocumentInit
  BY DEF RuntimeInit, Document!DocumentInit, Idle
<1>2. ASSUME RuntimeInv, [RuntimeNext]_runtimeVars
      PROVE  [Document!DocumentNext]_<<file, known>>
  <2>1. ASSUME NEW w \in Writes, Enqueue(w) \/ ReadLatest(w) \/ Transact(w)
        PROVE  UNCHANGED <<file, known>>
    <3>1. \A v \in Writes \ {w} : write'[v] = write[v]
      BY <1>2, <2>1 DEF RuntimeInv, RuntimeTypes, Enqueue, ReadLatest, Transact, Operate
    <3>2. /\ write[w].at \in {"idle", "queued", "working"}
          /\ write'[w].at \in {"queued", "working", "writing"}
          /\ UNCHANGED file
      <4>1. CASE Enqueue(w)
        BY <1>2, <4>1 DEF RuntimeInv, RuntimeTypes, Enqueue
      <4>2. CASE ReadLatest(w)
        BY <1>2, <4>2 DEF RuntimeInv, RuntimeTypes, ReadLatest
      <4>3. CASE Transact(w)
        BY <1>2, <4>3 DEF RuntimeInv, RuntimeTypes, Transact, Operate
      <4>4. QED
        BY <2>1, <4>1, <4>2, <4>3
    <3>3. QED
      BY <3>1, <3>2
  <2>2. ASSUME NEW w \in Writes, Rename(w) PROVE Document!TakeEffect(w)
    <3>1. file' = Append(file, w) /\ ~Document!Contains(w)
      BY <1>2, <2>2, RenameAppends DEF RuntimeInv, DocumentInv, Rename
    <3>2. known[w] = "waiting" /\ UNCHANGED known
      BY <1>2, <2>2 DEF RuntimeInv, RuntimeTypes, Rename, Go
    <3>3. QED
      BY <3>1, <3>2 DEF Document!TakeEffect
  <2>3. ASSUME NEW w \in Writes, Finish(w) PROVE Document!TellDone(w)
    <3>1. Document!Contains(w) /\ UNCHANGED file
      BY <1>2, <2>3 DEF RuntimeInv, DocumentInv, Finish
    <3>2. known[w] = "waiting" /\ known' = [known EXCEPT ![w] = "done"]
      BY <1>2, <2>3 DEF RuntimeInv, RuntimeTypes, Finish, End
    <3>3. QED
      BY <3>1, <3>2 DEF Document!TellDone
  <2>4. ASSUME NEW w \in Writes, Fail(w) PROVE Document!TellFailed(w)
    <3>1. ~Document!Contains(w) /\ UNCHANGED file
      BY <1>2, <2>4 DEF RuntimeInv, DocumentInv, Fail
    <3>2. known[w] = "waiting" /\ known' = [known EXCEPT ![w] = "failed"]
      BY <1>2, <2>4 DEF RuntimeInv, RuntimeTypes, Fail, End
    <3>3. QED
      BY <3>1, <3>2 DEF Document!TellFailed
  <2>5. ASSUME Crash PROVE Document!Lose(Live)
    <3>1. UNCHANGED file
      BY <2>5 DEF Crash
    <3>2. \A w \in Live : known[w] = "waiting"
      BY DEF Live, Running
    <3>3. known' = [w \in Writes |-> IF w \in Live THEN "lost" ELSE known[w]]
      BY <2>5 DEF Crash, Live, Idle
    <3>4. QED
      BY <3>1, <3>2, <3>3 DEF Document!Lose
  <2>6. ASSUME UNCHANGED <<file, write>> PROVE UNCHANGED <<file, known>>
    BY <2>6
  <2>7. Live \in SUBSET Writes
    BY DEF Live
  <2>8. CASE \E w \in Writes : Enqueue(w) \/ Proceed(w) \/ Fail(w)
    <3>1. PICK w \in Writes : Enqueue(w) \/ Proceed(w) \/ Fail(w)
      BY <2>8
    <3>2. \/ UNCHANGED <<file, known>>
          \/ Document!TakeEffect(w) \/ Document!TellDone(w) \/ Document!TellFailed(w)
      BY <3>1, <2>1, <2>2, <2>3, <2>4 DEF Proceed
    <3>3. QED
      BY <3>2 DEF Document!DocumentNext
  <2>9. CASE Crash
    <3> HIDE DEF known
    <3>1. QED
      BY <2>5, <2>7, <2>9 DEF Document!DocumentNext, Document!Lose
  <2>10. CASE UNCHANGED <<file, write>>
    BY <2>6, <2>10
  <2>11. QED
    BY <1>2, <2>8, <2>9, <2>10 DEF RuntimeNext, StartLoad, FinishLoad, runtimeVars
<1>3. QED
  BY RuntimeInvariant, <1>1, <1>2, PTL DEF RuntimeSpec, WritesAreAtomic, Document!DocumentSpec
=============================================================================
