-------------------------- MODULE PilotImportProofs --------------------------
(***************************************************************************)
(* Theorems about PilotImport, for any batches, rows, idempotency keys and *)
(* attempts, however their commits, failures and cancellations interleave. *)
(***************************************************************************)
EXTENDS PilotImport, TLAPS

Statuses == {"none", "blocked", "ready", "completed", "failed", "cancelled"}

BatchRow == [status : Statuses, key : ImportKeys \cup {None}]
AttemptRow ==
  [at : {"idle", "transaction", "failing", "answered"}, batch : Batches \cup {None},
   key : ImportKeys \cup {None},
   answer : {"none", "reused", "replayed", "not_ready", "refused", "completed", "failed"}]

\* The types of the tables, but for the stock.
RowTypes ==
  /\ batch \in [Batches -> BatchRow]
  /\ master \in [MasterKeys -> Batches \cup {None, Elsewhere}]
  /\ opening \in [BalanceKeys -> Batches \cup {None}]
  /\ locked \in BOOLEAN
  /\ attempt \in [Attempts -> AttemptRow]

\* A call that is being served has a batch, and a key while it may commit.
CallsAreNamed ==
  \A a \in Attempts :
    /\ attempt[a].at \in {"transaction", "failing"} => attempt[a].batch \in Batches
    /\ attempt[a].at = "transaction" => attempt[a].key \in ImportKeys

Opens(i) == TypeOf[i] = "opening_inventory_balances"

(***************************************************************************)
(* What each batch has made: a completed one all of its rows, in the       *)
(* tables of its type, any other nothing.                                  *)
(***************************************************************************)
Origins ==
  \A i \in Batches :
    /\ \A k \in MasterKeys :
         master[k] = i <=> batch[i].status = "completed" /\ ~Opens(i) /\ k \in Keys(i)
    /\ \A k \in BalanceKeys :
         opening[k] = i <=> batch[i].status = "completed" /\ Opens(i) /\ k \in Keys(i)

LockInv == locked <=> \E i \in Batches : batch[i].status = "completed" /\ Opens(i)

OpenedOnce ==
  \A i, j \in Batches :
    batch[i].status = "completed" /\ Opens(i) /\ batch[j].status = "completed" /\ Opens(j)
      => i = j

ImportInv ==
  /\ RowTypes /\ CallsAreNamed /\ Origins /\ LockInv /\ OpenedOnce /\ KeyNamesOneImport

-----------------------------------------------------------------------------
\* Steps

\* The rows of a batch have keys of its type.
LEMMA KeysOfType ==
  ASSUME NEW i \in Batches
  PROVE  /\ TypeOf[i] \in ImportTypes
         /\ Opens(i) => Keys(i) \subseteq BalanceKeys
         /\ ~Opens(i) => Keys(i) \subseteq MasterKeys /\ TypeOf[i] = "items"
<1>1. TypeOf[i] \in ImportTypes
  BY ImportAssumption
<1>2. PICK part : /\ part \in SUBSET (IF TypeOf[i] = "items" THEN MasterKeys ELSE BalanceKeys)
                  /\ RowsOf[i] \in [part -> Nat]
  BY ImportAssumption
<1>3. Keys(i) = part
  BY <1>2 DEF Keys
<1>4. QED
  BY <1>1, <1>2, <1>3 DEF Opens, ImportTypes

\* A batch that is not completed changes its status, and is not completed then.
LEMMA StatusStep ==
  ASSUME ImportInv, NEW i \in Batches, NEW status \in Statuses \ {"completed"},
         batch[i].status # "completed", batch' = [batch EXCEPT ![i].status = status],
         UNCHANGED <<master, opening, locked>>, attempt' \in [Attempts -> AttemptRow],
         CallsAreNamed'
  PROVE  ImportInv'
<1>1. /\ batch' \in [Batches -> BatchRow] /\ batch'[i].status = status /\ batch'[i].key = batch[i].key
      /\ \A j \in Batches \ {i} : batch'[j] = batch[j]
  <2>1. [batch[i] EXCEPT !.status = status] \in BatchRow
    BY DEF ImportInv, RowTypes, BatchRow
  <2>2. QED
    BY <2>1 DEF ImportInv, RowTypes, BatchRow
<1>2. \A j \in Batches : batch'[j].status = "completed" <=> batch[j].status = "completed"
  BY <1>1
<1>3. RowTypes'
  BY <1>1 DEF ImportInv, RowTypes
<1>4. Origins' /\ LockInv' /\ OpenedOnce'
  BY <1>2 DEF ImportInv, Origins, LockInv, OpenedOnce
<1>5. KeyNamesOneImport'
  BY <1>1, <1>2 DEF ImportInv, KeyNamesOneImport, Completed
<1>6. QED
  BY <1>3, <1>4, <1>5 DEF ImportInv

\* A commit that imports: rows, openings, batch and record in one transaction.
LEMMA CommitStep ==
  ASSUME ImportInv, NEW a \in Attempts, Commit(a)
  PROVE  ImportInv'
<1> DEFINE i == attempt[a].batch
           k == attempt[a].key
<1>1. /\ i \in Batches /\ k \in ImportKeys /\ batch[i].status = "ready"
      /\ Unique(i, k) /\ (TypeOf[i] = "items" => RowsAreNew(i)) /\ (Opens(i) => MayOpen(i))
  BY DEF Commit, Committable, Violates, ImportInv, CallsAreNamed, Opens
<1>2. PICK j \in Batches : j = i
  BY <1>1
<1>3. PICK n \in ImportKeys : n = k
  BY <1>1
<1>4. WriteImport(j, n)
  BY <1>2, <1>3 DEF Commit
<1>5. RowTypes' /\ CallsAreNamed'
  <2>1. [status |-> "completed", key |-> n] \in BatchRow
    BY <1>3 DEF BatchRow, Statuses
  <2>2. batch' \in [Batches -> BatchRow]
    BY <1>4, <2>1 DEF WriteImport, ImportInv, RowTypes
  <2>3. /\ master' \in [MasterKeys -> Batches \cup {None, Elsewhere}]
        /\ opening' \in [BalanceKeys -> Batches \cup {None}]
        /\ locked' \in BOOLEAN
    BY <1>4 DEF WriteImport, ImportInv, RowTypes
  <2>4. attempt[a] \in AttemptRow
    BY DEF ImportInv, RowTypes
  <2>5. PICK r \in AttemptRow : /\ r.at \in {"answered", "failing"} /\ r.batch = i
                                /\ attempt' = [attempt EXCEPT ![a] = r]
    <3>1. CASE attempt' = Answered(a, "completed")
      <4> DEFINE r == [[[attempt[a] EXCEPT !.at = "answered"] EXCEPT !.key = None]
                         EXCEPT !.answer = "completed"]
      <4>1. r \in AttemptRow /\ r.at = "answered" /\ r.batch = i
        BY <2>4 DEF AttemptRow
      <4>2. attempt' = [attempt EXCEPT ![a] = r]
        BY <3>1 DEF Answered, ImportInv, RowTypes
      <4>3. QED
        BY <4>1, <4>2
    <3>2. CASE attempt' = [attempt EXCEPT ![a].at = "failing"]
      BY <2>4, <3>2 DEF AttemptRow
    <3>3. QED
      BY <3>1, <3>2 DEF Commit
  <2>6. attempt' \in [Attempts -> AttemptRow]
        /\ attempt'[a] = r /\ \A b \in Attempts \ {a} : attempt'[b] = attempt[b]
    BY <2>5 DEF ImportInv, RowTypes
  <2>7. CallsAreNamed'
    BY <1>1, <2>5, <2>6 DEF ImportInv, CallsAreNamed
  <2>8. QED
    BY <2>2, <2>3, <2>6, <2>7 DEF RowTypes
<1>6. /\ batch'[j] = [status |-> "completed", key |-> n] /\ batch[j].status = "ready"
      /\ \A h \in Batches \ {j} : batch'[h] = batch[h]
      /\ batch'[j].status = "completed" /\ batch'[j].key = n
  <2>1. /\ batch'[j] = [status |-> "completed", key |-> n] /\ batch[j].status = "ready"
        /\ \A h \in Batches \ {j} : batch'[h] = batch[h]
    BY <1>1, <1>2, <1>4 DEF WriteImport, ImportInv, RowTypes
  <2>2. QED
    BY <2>1
<1>7. ASSUME ~Opens(j) PROVE Origins' /\ LockInv' /\ OpenedOnce'
  <2>1. /\ TypeOf[j] = "items" /\ Keys(j) \subseteq MasterKeys /\ RowsAreNew(j)
        /\ opening' = opening /\ locked' = locked
        /\ master' = [m \in MasterKeys |-> IF m \in Keys(j) /\ master[m] = None THEN j ELSE master[m]]
    BY <1>1, <1>2, <1>4, <1>7, KeysOfType DEF WriteImport
  <2>2. \A m \in MasterKeys : master'[m] = IF m \in Keys(j) THEN j ELSE master[m]
    BY <2>1 DEF RowsAreNew
  <2>3. \A m \in Keys(j) : master[m] \notin Batches
    BY <2>1, ImportAssumption DEF RowsAreNew
  <2>4. Origins'
    <3>1. ASSUME NEW h \in Batches, NEW m \in MasterKeys
          PROVE  master'[m] = h <=> batch'[h].status = "completed" /\ ~Opens(h) /\ m \in Keys(h)
      <4>1. master[m] = h <=> batch[h].status = "completed" /\ ~Opens(h) /\ m \in Keys(h)
        BY DEF ImportInv, Origins
      <4>2. CASE h = j
        BY <1>6, <1>7, <2>2, <4>1, <4>2
      <4>3. CASE h # j
        BY <1>6, <2>2, <2>3, <4>1, <4>3
      <4>4. QED
        BY <4>2, <4>3
    <3>2. ASSUME NEW h \in Batches, NEW m \in BalanceKeys
          PROVE  opening'[m] = h <=> batch'[h].status = "completed" /\ Opens(h) /\ m \in Keys(h)
      <4>1. opening[m] = h <=> batch[h].status = "completed" /\ Opens(h) /\ m \in Keys(h)
        BY DEF ImportInv, Origins
      <4>2. QED
        BY <1>6, <1>7, <2>1, <4>1
    <3>3. QED
      BY <3>1, <3>2 DEF Origins, Keys, Opens
  <2>5. LockInv' /\ OpenedOnce'
    <3>1. \A h \in Batches : batch'[h].status = "completed" /\ Opens(h)
                               <=> batch[h].status = "completed" /\ Opens(h)
      BY <1>6, <1>7
    <3>2. QED
      BY <2>1, <3>1 DEF ImportInv, LockInv, OpenedOnce, Opens
  <2>6. QED
    BY <2>4, <2>5
<1>8. ASSUME Opens(j) PROVE Origins' /\ LockInv' /\ OpenedOnce'
  <2>1. /\ Keys(j) \subseteq BalanceKeys /\ locked = FALSE /\ locked' = TRUE /\ master' = master
        /\ TypeOf[j] # "items"
        /\ opening' = [m \in BalanceKeys |-> IF m \in Keys(j) THEN j ELSE opening[m]]
    BY <1>1, <1>2, <1>4, <1>8, KeysOfType DEF WriteImport, MayOpen, Opens, ImportInv, RowTypes
  <2>2. \A h \in Batches : ~(batch[h].status = "completed" /\ Opens(h))
    BY <2>1 DEF ImportInv, LockInv
  <2>3. Origins'
    <3>1. ASSUME NEW h \in Batches, NEW m \in MasterKeys
          PROVE  master'[m] = h <=> batch'[h].status = "completed" /\ ~Opens(h) /\ m \in Keys(h)
      <4>1. master[m] = h <=> batch[h].status = "completed" /\ ~Opens(h) /\ m \in Keys(h)
        BY DEF ImportInv, Origins
      <4>2. QED
        BY <1>6, <1>8, <2>1, <4>1
    <3>2. ASSUME NEW h \in Batches, NEW m \in BalanceKeys
          PROVE  opening'[m] = h <=> batch'[h].status = "completed" /\ Opens(h) /\ m \in Keys(h)
      <4>1. ~(batch[h].status = "completed" /\ Opens(h)) /\ opening[m] # h
        BY <2>2 DEF ImportInv, Origins
      <4>2. CASE h = j
        BY <1>6, <1>8, <2>1, <4>1, <4>2
      <4>3. CASE h # j
        BY <1>6, <2>1, <4>1, <4>3
      <4>4. QED
        BY <4>2, <4>3
    <3>3. QED
      BY <3>1, <3>2 DEF Origins, Keys, Opens
  <2>4. LockInv' /\ OpenedOnce'
    BY <1>6, <1>8, <2>1, <2>2 DEF LockInv, OpenedOnce, Opens
  <2>5. QED
    BY <2>3, <2>4
<1>9. KeyNamesOneImport'
  <2>1. \A h \in Batches : TypeOf[h] = TypeOf[j] => batch[h].key # n
    BY <1>1, <1>2, <1>3 DEF Unique, UsersOf
  <2>2. ASSUME NEW g \in Batches, NEW h \in Batches,
               batch'[g].status = "completed", batch'[h].status = "completed",
               TypeOf[g] = TypeOf[h], batch'[g].key = batch'[h].key
        PROVE  g = h
    <3>1. CASE g # j /\ h # j
      BY <1>6, <2>2, <3>1 DEF ImportInv, KeyNamesOneImport, Completed
    <3>2. CASE g = j \/ h = j
      BY <1>6, <2>1, <2>2, <3>2
    <3>3. QED
      BY <3>1, <3>2
  <2>3. QED
    BY <2>2 DEF KeyNamesOneImport, Completed
<1>10. QED
  BY <1>5, <1>7, <1>8, <1>9 DEF ImportInv
\* A step that leaves the tables alone but for the stock.
LEMMA CallStep ==
  ASSUME ImportInv, UNCHANGED <<batch, opening, locked>>,
         master' \in [MasterKeys -> Batches \cup {None, Elsewhere}],
         \A k \in MasterKeys : master'[k] = master[k]
                               \/ {master[k], master'[k]} \cap Batches = {},
         attempt' \in [Attempts -> AttemptRow], CallsAreNamed'
  PROVE  ImportInv'
<1>1. RowTypes'
  BY DEF ImportInv, RowTypes
<1>2. Origins'
  BY DEF ImportInv, Origins
<1>3. LockInv' /\ OpenedOnce' /\ KeyNamesOneImport'
  BY DEF ImportInv, LockInv, OpenedOnce, KeyNamesOneImport, Completed
<1>4. QED
  BY <1>1, <1>2, <1>3 DEF ImportInv

\* A call moves on.
LEMMA CallMoves ==
  ASSUME ImportInv, NEW a \in Attempts, NEW r \in AttemptRow, attempt' = [attempt EXCEPT ![a] = r],
         r.at \in {"transaction", "failing"} => r.batch \in Batches,
         r.at = "transaction" => r.key \in ImportKeys
  PROVE  attempt' \in [Attempts -> AttemptRow] /\ CallsAreNamed'
<1>1. attempt'[a] = r /\ \A b \in Attempts \ {a} : attempt'[b] = attempt[b]
  BY DEF ImportInv, RowTypes
<1>2. attempt' \in [Attempts -> AttemptRow]
  BY DEF ImportInv, RowTypes
<1>3. CallsAreNamed'
  BY <1>1 DEF ImportInv, CallsAreNamed
<1>4. QED
  BY <1>2, <1>3

\* A call answers.
LEMMA CallAnswers ==
  ASSUME ImportInv, NEW a \in Attempts,
         NEW answer \in {"not_ready", "refused", "failed"}, attempt' = Answered(a, answer)
  PROVE  attempt' \in [Attempts -> AttemptRow] /\ CallsAreNamed'
<1>1. attempt[a] \in AttemptRow
  BY DEF ImportInv, RowTypes
<1> DEFINE r == [[[attempt[a] EXCEPT !.at = "answered"] EXCEPT !.key = None] EXCEPT !.answer = answer]
<1>2. r \in AttemptRow /\ r.at = "answered"
  BY <1>1 DEF AttemptRow
<1>3. attempt' = [attempt EXCEPT ![a] = r]
  BY DEF Answered, ImportInv, RowTypes
<1> HIDE DEF r
<1>4. PICK row \in AttemptRow : row.at = "answered" /\ attempt' = [attempt EXCEPT ![a] = row]
  BY <1>2, <1>3
<1>5. QED
  BY <1>4, CallMoves

\* The lookups before the transaction change the caller alone.
LEMMA LookUpStep ==
  ASSUME ImportInv, NEW a \in Attempts, NEW i \in Batches, NEW k \in ImportKeys, LookUp(a, i, k)
  PROVE  ImportInv'
<1> DEFINE call == [[Idle EXCEPT !.batch = i] EXCEPT !.key = k]
           going == [call EXCEPT !.at = "transaction"]
           over(answer) == [[[call EXCEPT !.at = "answered"] EXCEPT !.key = None]
                              EXCEPT !.answer = answer]
<1>1. call \in AttemptRow /\ call.batch = i /\ call.key = k
  BY DEF Idle, AttemptRow
<1>2. going \in AttemptRow /\ going.at = "transaction" /\ going.batch = i /\ going.key = k
  <2> HIDE DEF call
  <2>1. QED
    BY <1>1 DEF AttemptRow
<1>3. ASSUME NEW answer \in {"replayed", "reused"}
      PROVE  over(answer) \in AttemptRow /\ over(answer).at = "answered"
  <2> HIDE DEF call
  <2>1. QED
    BY <1>1 DEF AttemptRow
<1>4. \/ attempt' = [attempt EXCEPT ![a] = going]
      \/ attempt' = [attempt EXCEPT ![a] = over("replayed")]
      \/ attempt' = [attempt EXCEPT ![a] = over("reused")]
  BY DEF LookUp
<1> HIDE DEF going, over
<1>5. PICK r \in AttemptRow : /\ attempt' = [attempt EXCEPT ![a] = r]
                              /\ r.at \in {"transaction", "answered"}
                              /\ r.at = "transaction" => r.batch = i /\ r.key = k
  BY <1>2, <1>3, <1>4
<1>6. attempt' \in [Attempts -> AttemptRow] /\ CallsAreNamed'
  BY <1>5, CallMoves
<1>7. QED
  BY <1>6, CallStep DEF LookUp, ImportInv, RowTypes

\* Every step of an import keeps the invariant.
LEMMA StepKeepsInv ==
  ASSUME ImportInv, [ImportNext]_importVars
  PROVE  ImportInv'
<1>1. /\ attempt \in [Attempts -> AttemptRow] /\ CallsAreNamed
      /\ master \in [MasterKeys -> Batches \cup {None, Elsewhere}]
      /\ batch \in [Batches -> BatchRow]
  BY DEF ImportInv, RowTypes
<1>2. ASSUME UNCHANGED attempt PROVE attempt' \in [Attempts -> AttemptRow] /\ CallsAreNamed'
  BY <1>1, <1>2 DEF CallsAreNamed
<1>3. ASSUME NEW i \in Batches, Preview(i) PROVE ImportInv'
  <2>1. PICK status \in {"blocked", "ready"} : batch' = [batch EXCEPT ![i].status = status]
    BY <1>3 DEF Preview
  <2>2. status \in Statuses \ {"completed"} /\ batch[i].status # "completed"
        /\ UNCHANGED <<master, opening, locked, attempt>>
    BY <1>3 DEF Preview, Statuses
  <2>3. QED
    BY <1>2, <2>1, <2>2, StatusStep
<1>4. ASSUME NEW i \in Batches, Cancel(i) PROVE ImportInv'
  <2>1. /\ "cancelled" \in Statuses \ {"completed"} /\ batch[i].status # "completed"
        /\ batch' = [batch EXCEPT ![i].status = "cancelled"]
        /\ UNCHANGED <<master, opening, locked, attempt>>
    BY <1>4 DEF Cancel, Statuses
  <2>2. QED
    BY <1>2, <2>1, StatusStep
<1>5. ASSUME NEW a \in Attempts, Refuse(a) PROVE ImportInv'
  <2>1. attempt' \in [Attempts -> AttemptRow] /\ CallsAreNamed'
    BY <1>5, CallAnswers DEF Refuse
  <2>2. QED
    BY <1>1, <1>5, <2>1, CallStep DEF Refuse
<1>6. ASSUME NEW a \in Attempts, RollBack(a) PROVE ImportInv'
  <2>1. attempt[a] \in AttemptRow /\ attempt[a].batch \in Batches
    BY <1>1, <1>6 DEF RollBack, CallsAreNamed
  <2>2. PICK r \in AttemptRow : /\ r.at = "failing" /\ r.batch \in Batches
                                /\ attempt' = [attempt EXCEPT ![a] = r]
    BY <1>6, <2>1 DEF RollBack, AttemptRow
  <2>3. attempt' \in [Attempts -> AttemptRow] /\ CallsAreNamed'
    BY <2>2, CallMoves
  <2>4. QED
    BY <1>1, <1>6, <2>3, CallStep DEF RollBack
<1>7. ASSUME NEW a \in Attempts, MarkFailed(a) PROVE ImportInv'
  <2>1. attempt' \in [Attempts -> AttemptRow] /\ CallsAreNamed' /\ attempt[a].batch \in Batches
    BY <1>1, <1>7, CallAnswers DEF MarkFailed, CallsAreNamed
  <2>2. PICK i \in Batches : i = attempt[a].batch
    BY <2>1
  <2>3. UNCHANGED <<master, opening, locked>> /\ Fail(i)
    BY <1>7, <2>2 DEF MarkFailed
  <2>4. CASE batch[i].status = "completed"
    BY <1>1, <2>1, <2>3, <2>4, CallStep DEF Fail
  <2>5. CASE batch[i].status # "completed"
    <3>1. "failed" \in Statuses \ {"completed"} /\ batch' = [batch EXCEPT ![i].status = "failed"]
      BY <2>3, <2>5 DEF Fail, Statuses
    <3>2. QED
      BY <2>1, <2>3, <2>5, <3>1, StatusStep
  <2>6. QED
    BY <2>4, <2>5
<1>8. ASSUME NEW a \in Attempts, Crash(a) PROVE ImportInv'
  <2>1. Idle \in AttemptRow /\ Idle.at = "idle"
    BY DEF Idle, AttemptRow
  <2>2. attempt' \in [Attempts -> AttemptRow] /\ CallsAreNamed'
    BY <1>8, <2>1, CallMoves DEF Crash
  <2>3. QED
    BY <1>1, <1>8, <2>2, CallStep DEF Crash
<1>9. ASSUME NEW k \in MasterKeys, CreateRecord(k) PROVE ImportInv'
  <2>1. /\ master[k] = None /\ master' = [master EXCEPT ![k] = Elsewhere]
        /\ UNCHANGED <<batch, opening, locked, attempt>>
    BY <1>9 DEF CreateRecord
  <2>2. master' \in [MasterKeys -> Batches \cup {None, Elsewhere}]
        /\ \A n \in MasterKeys : master'[n] = master[n]
                                 \/ {master[n], master'[n]} \cap Batches = {}
    BY <1>1, <2>1, ImportAssumption
  <2>3. QED
    BY <1>2, <2>1, <2>2, CallStep
<1>10. ASSUME NEW k \in BalanceKeys, ReceiveUnit(k) PROVE ImportInv'
  BY <1>1, <1>2, <1>10, CallStep DEF ReceiveUnit
<1>11. ASSUME UNCHANGED importVars PROVE ImportInv'
  BY <1>1, <1>2, <1>11, CallStep DEF importVars
<1>12. QED
  BY <1>3, <1>4, <1>5, <1>6, <1>7, <1>8, <1>9, <1>10, <1>11, LookUpStep, CommitStep DEF ImportNext

-----------------------------------------------------------------------------
\* Theorems

\* The invariant that the theorems below rest on.
THEOREM ImportInvariant == ImportSpec => []ImportInv
<1>1. ImportInit => ImportInv
  <2> SUFFICES ASSUME ImportInit PROVE ImportInv
    OBVIOUS
  <2>1. NoBatch \in BatchRow /\ NoBatch.status = "none" /\ Idle \in AttemptRow /\ Idle.at = "idle"
    BY DEF NoBatch, BatchRow, Statuses, Idle, AttemptRow
  <2>2. RowTypes /\ CallsAreNamed
    BY <2>1 DEF ImportInit, RowTypes, CallsAreNamed
  <2>3. \A i \in Batches : batch[i].status # "completed"
    BY <2>1 DEF ImportInit
  <2>4. Origins
    BY <2>3, ImportAssumption DEF ImportInit, Origins
  <2>5. LockInv /\ OpenedOnce /\ KeyNamesOneImport
    BY <2>3 DEF ImportInit, LockInv, OpenedOnce, KeyNamesOneImport, Completed
  <2>6. QED
    BY <2>2, <2>4, <2>5 DEF ImportInv
<1>2. ImportInv /\ [ImportNext]_importVars => ImportInv'
  BY StepKeepsInv
<1>3. QED
  BY <1>1, <1>2, PTL DEF ImportSpec

\* An import happens in full or not at all, whatever its batch is marked.
THEOREM ImportsHappenWhole == ImportSpec => []ImportsAreAtomic
<1>1. ImportInv => ImportsAreAtomic
  <2> SUFFICES ASSUME ImportInv, NEW i \in Batches
               PROVE  {k \in MasterKeys : master[k] = i} \cup {k \in BalanceKeys : opening[k] = i}
                        = IF i \in Completed THEN Keys(i) ELSE {}
    BY DEF ImportsAreAtomic
  <2>1. i \in Completed <=> batch[i].status = "completed"
    BY DEF Completed
  <2>2. QED
    BY <2>1, KeysOfType DEF ImportInv, Origins
<1>2. QED
  BY ImportInvariant, <1>1, PTL

\* StockIsOpenedOnce: a workspace is opened once, and its lock tells.
THEOREM StockOpensOnce == ImportSpec => []StockIsOpenedOnce
<1>1. ImportInv => StockIsOpenedOnce
  BY DEF ImportInv, LockInv, OpenedOnce, StockIsOpenedOnce, Completed, Opens
<1>2. QED
  BY ImportInvariant, <1>1, PTL

\* KeyNamesOneImport: two imports of a type never complete under one idempotency key.
THEOREM ImportsAreUnique == ImportSpec => []KeyNamesOneImport
<1>1. ImportInv => KeyNamesOneImport
  BY DEF ImportInv, KeyNamesOneImport, Completed
<1>2. QED
  BY ImportInvariant, <1>1, PTL

\* A batch that was blocked, cancelled or failed is never imported.
THEOREM DeadBatchesAreNotImported == ImportSpec => DeadBatchesStayDead
<1>1. ASSUME ImportInv, [ImportNext]_importVars, NEW i \in Batches,
             batch[i].status \in {"blocked", "cancelled", "failed"}
      PROVE  batch'[i].status # "completed"
  <2>1. ASSUME NEW j \in Batches, NEW status \in Statuses \ {"completed"},
               batch' = [batch EXCEPT ![j].status = status]
        PROVE  batch'[i].status # "completed"
    <3>1. CASE i = j
      <4>1. batch[i] \in BatchRow
        BY <1>1 DEF ImportInv, RowTypes
      <4>2. batch'[i] = [batch[i] EXCEPT !.status = status]
        BY <1>1, <2>1, <3>1 DEF ImportInv, RowTypes
      <4>3. QED
        BY <4>1, <4>2 DEF BatchRow
    <3>2. CASE i # j
      BY <1>1, <2>1, <3>2 DEF ImportInv, RowTypes
    <3>3. QED
      BY <3>1, <3>2
  <2>2. ASSUME NEW a \in Attempts, Commit(a) PROVE batch'[i].status # "completed"
    BY <1>1, <2>2 DEF Commit, Committable, WriteImport, ImportInv, RowTypes
  <2>3. ASSUME NEW a \in Attempts, MarkFailed(a) PROVE batch'[i].status # "completed"
    <3>1. attempt[a].batch \in Batches /\ "failed" \in Statuses \ {"completed"}
      BY <1>1, <2>3 DEF MarkFailed, ImportInv, CallsAreNamed, Statuses
    <3>2. CASE UNCHANGED batch
      BY <1>1, <3>2
    <3>3. QED
      BY <2>1, <2>3, <3>1, <3>2 DEF MarkFailed, Fail
  <2>4. ASSUME NEW j \in Batches, Preview(j) \/ Cancel(j) PROVE batch'[i].status # "completed"
    <3>1. \E status \in {"blocked", "ready", "cancelled"} : batch' = [batch EXCEPT ![j].status = status]
      BY <2>4 DEF Preview, Cancel
    <3>2. {"blocked", "ready", "cancelled"} \subseteq Statuses \ {"completed"}
      BY DEF Statuses
    <3>3. QED
      BY <2>1, <3>1, <3>2
  <2>5. CASE UNCHANGED batch
    BY <1>1, <2>5
  <2>6. QED
    BY <1>1, <2>2, <2>3, <2>4, <2>5
       DEF ImportNext, LookUp, Refuse, RollBack, Crash, CreateRecord, ReceiveUnit, importVars
<1>2. ImportInv /\ [ImportNext]_importVars =>
        [\A i \in Batches : batch[i].status \in {"blocked", "cancelled", "failed"}
           => batch'[i].status # "completed"]_importVars
  BY <1>1
<1>3. QED
  BY ImportInvariant, <1>2, PTL DEF ImportSpec, DeadBatchesStayDead
=============================================================================
