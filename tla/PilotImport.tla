---------------------------- MODULE PilotImport ----------------------------
(***************************************************************************)
(* The import of a workspace's first data: a file is previewed into a      *)
(* batch, and a batch that passed the dry run is committed by creating its *)
(* rows in one serializable transaction.  Master data stands here for      *)
(* every type whose rows are new records under a unique key; opening       *)
(* inventory balances write the stock tables and close the workspace to a  *)
(* second opening.                                                         *)
(*                                                                         *)
(* A commit that fails marks its batch failed after its transaction, in a  *)
(* statement of its own, so that commits, cancellations and failures of    *)
(* one batch interleave.                                                   *)
(***************************************************************************)
EXTENDS StockBalance

CONSTANTS
  Batches,
  TypeOf,       \* the import type of a batch
  RowsOf,       \* the quantity of each natural key a batch has a row for
  MasterKeys,   \* the natural keys of master data
  ImportKeys,   \* idempotency keys
  Attempts      \* the commit calls being served

ImportTypes == {"items", "opening_inventory_balances"}

\* Who creates a record that no import creates.
Elsewhere == "elsewhere"

ASSUME ImportAssumption ==
  /\ TypeOf \in [Batches -> ImportTypes]
  /\ \A i \in Batches :
       LET keys == IF TypeOf[i] = "items" THEN MasterKeys ELSE BalanceKeys
       IN  \E part \in SUBSET keys : part # {} /\ RowsOf[i] \in [part -> Nat]
  /\ None \notin Batches \cup ImportKeys
  /\ Elsewhere \notin Batches

VARIABLES
  batch,     \* the ImportBatch rows
  master,    \* who created the record of a natural key
  opening,   \* the batch whose opening_balance movement a stock key has
  locked,    \* openingBalanceLockedAt of the tenant is set
  attempt    \* what each commit call holds

importVars == <<stockVars, batch, master, opening, locked, attempt>>

NoBatch == [status |-> "none", key |-> None]
Idle == [at |-> "idle", batch |-> None, key |-> None, answer |-> "none"]

ImportTypeOK ==
  /\ StockTypeOK
  /\ batch \in [Batches ->
       [status : {"none", "blocked", "ready", "completed", "failed", "cancelled"},
        key : ImportKeys \cup {None}]]
  /\ \A i \in Batches : batch[i].key # None <=> batch[i].status = "completed"
  /\ master \in [MasterKeys -> Batches \cup {None, Elsewhere}]
  /\ opening \in [BalanceKeys -> Batches \cup {None}]
  /\ locked \in BOOLEAN
  /\ attempt \in [Attempts ->
       [at : {"idle", "transaction", "failing", "answered"}, batch : Batches \cup {None},
        key : ImportKeys \cup {None},
        answer : {"none", "reused", "replayed", "not_ready", "refused", "completed", "failed"}]]

ImportInit ==
  /\ StockInit
  /\ batch = [i \in Batches |-> NoBatch]
  /\ master = [k \in MasterKeys |-> None]
  /\ opening = [k \in BalanceKeys |-> None]
  /\ locked = FALSE
  /\ attempt = [a \in Attempts |-> Idle]

Keys(i) == DOMAIN RowsOf[i]

\* A posted movement exists for the stock key, be it of an opening of nothing.
HasHistory(k) ==
  \/ opening[k] # None
  \/ movement[k] # [quantityIn |-> 0, quantityOut |-> 0, adjustmentQty |-> 0]

-----------------------------------------------------------------------------
\* The dry run

(***************************************************************************)
(* What the preview holds against a file: a record that exists already, or *)
(* opening balances in a workspace that has been opened.  It does not look *)
(* at movements.  Faults of the file itself block it as well.              *)
(***************************************************************************)
HasIssues(i) ==
  \/ TypeOf[i] = "items" /\ \E k \in Keys(i) : master[k] # None
  \/ TypeOf[i] = "opening_inventory_balances" /\ locked

\* The tables are read outside a transaction; whatever changes before the batch
\* is stored could as well change before it is committed.
Preview(i) ==
  /\ batch[i].status = "none"
  /\ \E status \in IF HasIssues(i) THEN {"blocked"} ELSE {"blocked", "ready"} :
       batch' = [batch EXCEPT ![i].status = status]
  /\ UNCHANGED <<stockVars, master, opening, locked, attempt>>

Cancel(i) ==
  /\ batch[i].status \in {"blocked", "ready"}
  /\ batch' = [batch EXCEPT ![i].status = "cancelled"]
  /\ UNCHANGED <<stockVars, master, opening, locked, attempt>>

-----------------------------------------------------------------------------
\* The commit

Answered(a, answer) ==
  [attempt EXCEPT ![a].at = "answered", ![a].key = None, ![a].answer = answer]

\* The batches of the type that have the key.
UsersOf(i, k) == {j \in Batches : TypeOf[j] = TypeOf[i] /\ batch[j].key = k}

\* The lookup before the transaction: a key that has been used is not used again.
LookUp(a, i, k) ==
  /\ attempt[a].at \in {"idle", "answered"}
  /\ batch[i].status # "none"
  /\ LET call == [Idle EXCEPT !.batch = i, !.key = k]
         users == UsersOf(i, k)
     IN  attempt' = [attempt EXCEPT ![a] =
           IF users = {} THEN [call EXCEPT !.at = "transaction"]
           ELSE [call EXCEPT !.at = "answered", !.key = None,
                             !.answer = IF i \in users THEN "replayed" ELSE "reused"]]
  /\ UNCHANGED <<stockVars, batch, master, opening, locked>>

\* Variant: whatever is not completed may be committed.
CommittableUnlessCompleted(i) == batch[i].status # "completed"

\* The status the locked batch must have.
Committable(i) == batch[i].status = "ready"

\* Variant: only the stock keys of the batch are looked at.
MayOpenWhereEmpty(i) == \A k \in Keys(i) : ~HasHistory(k)

\* An opening balance needs an unopened workspace and keys without history.
MayOpen(i) == ~locked /\ \A k \in Keys(i) : ~HasHistory(k)

\* Variant: the key is looked up before the transaction only.
UniqueByLookUp(i, k) == TRUE

\* The unique index on the tenant, the type and the key.
Unique(i, k) == UsersOf(i, k) = {}

\* Variant: rows that exist already are skipped, as with an upsert.
RowsAreNewOrSkipped(i) == \A k \in Keys(i) : master[k] \notin Batches \ {i}

\* The unique index on the natural key of the rows.
RowsAreNew(i) == \A k \in Keys(i) : master[k] = None

\* A statement of the transaction that violates a unique index.
Violates(i, k) == ~Unique(i, k) \/ (TypeOf[i] = "items" /\ ~RowsAreNew(i))

\* One opening movement for each row, and the balance row created or increased.
OpenStock(i) ==
  /\ movement' = [k \in BalanceKeys |-> IF k \notin Keys(i) THEN movement[k]
                  ELSE [movement[k] EXCEPT !.quantityIn = @ + RowsOf[i][k]]]
  /\ balance' = [k \in BalanceKeys |-> IF k \notin Keys(i) THEN balance[k]
                 ELSE [balance[k] EXCEPT !.onHand = @ + RowsOf[i][k],
                                         !.available = @ + RowsOf[i][k],
                                         !.version = @ + 1]]

\* What the transaction writes when it commits.
WriteImport(i, k) ==
  /\ batch' = [batch EXCEPT ![i] = [status |-> "completed", key |-> k]]
  /\ IF TypeOf[i] = "items"
     THEN /\ master' = [n \in MasterKeys |-> IF n \in Keys(i) /\ master[n] = None THEN i
                                             ELSE master[n]]
          /\ UNCHANGED <<stockVars, opening, locked>>
     ELSE /\ OpenStock(i)
          /\ opening' = [n \in BalanceKeys |-> IF n \in Keys(i) THEN i ELSE opening[n]]
          /\ locked' = TRUE
          /\ UNCHANGED master

\* A refusal of the transaction leaves the batch as it is, to be committed again.
Refuse(a) ==
  LET i == attempt[a].batch IN
  /\ attempt[a].at = "transaction"
  /\ \/ ~Committable(i) /\ attempt' = Answered(a, "not_ready")
     \/ /\ Committable(i) /\ Unique(i, attempt[a].key)
        /\ TypeOf[i] = "opening_inventory_balances" /\ ~MayOpen(i)
        /\ attempt' = Answered(a, "refused")
  /\ UNCHANGED <<stockVars, batch, master, opening, locked>>

\* The transaction commits; if the connection is lost then, the call sees an error.
Commit(a) ==
  LET i == attempt[a].batch IN
  /\ attempt[a].at = "transaction"
  /\ Committable(i)
  /\ ~Violates(i, attempt[a].key)
  /\ TypeOf[i] = "opening_inventory_balances" => MayOpen(i)
  /\ WriteImport(i, attempt[a].key)
  /\ \/ attempt' = Answered(a, "completed")
     \/ attempt' = [attempt EXCEPT ![a].at = "failing"]

(***************************************************************************)
(* The transaction is rolled back: a unique index is violated, or the      *)
(* database gives the transaction up, because it conflicts with another    *)
(* one or loses its connection.                                            *)
(***************************************************************************)
RollBack(a) ==
  /\ attempt[a].at = "transaction"
  /\ attempt' = [attempt EXCEPT ![a].at = "failing"]
  /\ UNCHANGED <<stockVars, batch, master, opening, locked>>

\* Variant: the batch of the failed call is failed, whatever it is by now.
FailAnyway(i) == batch' = [batch EXCEPT ![i].status = "failed"]

\* After the transaction, the batch is failed unless it is completed.
Fail(i) ==
  IF batch[i].status = "completed" THEN UNCHANGED batch
  ELSE batch' = [batch EXCEPT ![i].status = "failed"]

MarkFailed(a) ==
  /\ attempt[a].at = "failing"
  /\ Fail(attempt[a].batch)
  /\ attempt' = Answered(a, "failed")
  /\ UNCHANGED <<stockVars, master, opening, locked>>

\* The process dies; the database rolls back what it had not committed.
Crash(a) ==
  /\ attempt[a].at \in {"transaction", "failing"}
  /\ attempt' = [attempt EXCEPT ![a] = Idle]
  /\ UNCHANGED <<stockVars, batch, master, opening, locked>>

-----------------------------------------------------------------------------
\* The rest of the system

\* A record is created by hand, in the item master.
CreateRecord(k) ==
  /\ master[k] = None
  /\ master' = [master EXCEPT ![k] = Elsewhere]
  /\ UNCHANGED <<stockVars, batch, opening, locked, attempt>>

\* Business starts before the workspace is opened: a unit is received at a key.
ReceiveUnit(k) ==
  /\ ~HasHistory(k)
  /\ movement' = [movement EXCEPT ![k].quantityIn = @ + 1]
  /\ balance' = [balance EXCEPT ![k].onHand = @ + 1, ![k].available = @ + 1,
                                ![k].version = @ + 1]
  /\ UNCHANGED <<batch, master, opening, locked, attempt>>

ImportNext ==
  \/ \E i \in Batches : Preview(i) \/ Cancel(i)
  \/ \E a \in Attempts :
       \/ \E i \in Batches, k \in ImportKeys : LookUp(a, i, k)
       \/ Refuse(a) \/ Commit(a) \/ RollBack(a) \/ MarkFailed(a) \/ Crash(a)
  \/ \E k \in MasterKeys : CreateRecord(k)
  \/ \E k \in BalanceKeys : ReceiveUnit(k)

ImportSpec == ImportInit /\ [][ImportNext]_importVars

-----------------------------------------------------------------------------
\* Properties

Completed == {i \in Batches : batch[i].status = "completed"}

(***************************************************************************)
(* An import happens in full or not at all, whatever interrupts it and     *)
(* whatever its batch is marked afterwards: the rows of a completed batch  *)
(* are all its own, and no record comes from a batch that is not           *)
(* completed.                                                              *)
(***************************************************************************)
ImportsAreAtomic ==
  \A i \in Batches :
    LET rows == {k \in MasterKeys : master[k] = i} \cup {k \in BalanceKeys : opening[k] = i}
    IN  rows = IF i \in Completed THEN Keys(i) ELSE {}

(***************************************************************************)
(* The stock of a workspace is opened by one batch at most, and the lock   *)
(* of the tenant says whether it has been.                                 *)
(***************************************************************************)
StockIsOpenedOnce ==
  LET openings == {i \in Completed : TypeOf[i] = "opening_inventory_balances"}
  IN  /\ \A i, j \in openings : i = j
      /\ locked <=> openings # {}

(***************************************************************************)
(* An idempotency key names one import of its type: two calls that use it  *)
(* for different batches cannot both get through, however they race.       *)
(***************************************************************************)
KeyNamesOneImport ==
  \A i, j \in Completed :
    TypeOf[i] = TypeOf[j] /\ batch[i].key = batch[j].key => i = j

(***************************************************************************)
(* A batch that was blocked, cancelled or failed is never imported, also   *)
(* when a commit that began before is still running: the caller who was    *)
(* told that a batch is cancelled will not find its rows.                  *)
(***************************************************************************)
DeadBatchesStayDead ==
  [][\A i \in Batches : batch[i].status \in {"blocked", "cancelled", "failed"}
       => batch'[i].status # "completed"]_importVars
=============================================================================
