-------------------------- MODULE CommandExecution --------------------------
(***************************************************************************)
(* How every command of the server gets its effect exactly once: the       *)
(* execute wrapper of the receiving, outbound, sales order, procurement    *)
(* and inventory services around BusinessCommandExecution, for one         *)
(* document with a version and callers that may send a command again while *)
(* they have no answer.                                                    *)
(*                                                                         *)
(* An attempt is one run of execute for one delivery of a request.  Its    *)
(* transaction is serializable: it reads a snapshot, waits for the locks   *)
(* of others, and either commits everything or leaves nothing.             *)
(***************************************************************************)
EXTENDS Integers, Sequences

CONSTANTS
  Requests, Keys, KeyOf, HashOf, Expected,   \* see CommandContract
  LooksInside,   \* requests whose command looks its key up in the transaction as well
  Attempts,
  RequestOf,     \* the request an attempt works for
  MaxTrouble     \* bound on crashes, lost answers and transactions the database gives up

ASSUME CommandAssumption ==
  /\ KeyOf \in [Requests -> Keys]
  /\ Expected \in [Requests -> Nat]
  /\ LooksInside \subseteq Requests
  /\ RequestOf \in [Attempts -> Requests]
  /\ MaxTrouble \in Nat
  /\ \A p, q \in Requests : KeyOf[p] = KeyOf[q] /\ HashOf[p] = HashOf[q] => Expected[p] = Expected[q]

VARIABLES
  execution,   \* the committed row of each key
  version,     \* the version of the document
  history,     \* the requests that changed the document, in order
  attempt,     \* where each attempt is, and what it holds
  outcome,     \* what each caller knows
  trouble

commandVars == <<execution, version, history, attempt, outcome, trouble>>

Done(n) == [answer |-> "done", version |-> n]
Told(answer) == [answer |-> answer, version |-> -1]
Waiting == Told("waiting")

NoExecution == [hash |-> "none", status |-> "none", result |-> -1]

\* snapshot: the version the transaction sees; reply: what the attempt will answer.
Idle == [at |-> "idle", snapshot |-> -1, reply |-> Waiting]
Holding == {"created", "worked"}      \* in these an attempt holds its key
InTransaction == {"open"} \cup Holding

Hashes == {HashOf[q] : q \in Requests}
Replies == [answer : {"done"}, version : Nat]
             \cup {Told(a) : a \in {"stale", "reused", "conflict", "in_progress", "waiting"}}

CommandTypeOK ==
  /\ execution \in [Keys -> {NoExecution} \cup
       [hash : Hashes, status : {"completed"}, result : Nat \ {0}]]
  /\ version \in Nat
  /\ history \in Seq(Requests)
  /\ attempt \in [Attempts ->
       [at : {"idle", "received", "opening", "duplicate", "answering"} \cup InTransaction,
        snapshot : Nat \cup {-1}, reply : Replies]]
  /\ outcome \in [Requests -> Replies]
  /\ trouble \in 0..MaxTrouble

CommandInit ==
  /\ execution = [k \in Keys |-> NoExecution]
  /\ version = 0
  /\ history = << >>
  /\ attempt = [a \in Attempts |-> Idle]
  /\ outcome = [q \in Requests |-> Waiting]
  /\ trouble = 0

KeyOfAttempt(a) == KeyOf[RequestOf[a]]
Go(a, at) == attempt' = [attempt EXCEPT ![a].at = at]
Answer(a, reply) == attempt' = [attempt EXCEPT ![a] = [Idle EXCEPT !.at = "answering", !.reply = reply]]

-----------------------------------------------------------------------------
\* The caller

(***************************************************************************)
(* A caller sends its request, and perhaps again under the same key while  *)
(* it has no answer, even when an earlier delivery is still being served.  *)
(* It has seen the version it expects.                                     *)
(***************************************************************************)
Send(a) ==
  /\ attempt[a].at = "idle"
  /\ outcome[RequestOf[a]] = Waiting
  /\ Expected[RequestOf[a]] <= version
  /\ Go(a, "received")
  /\ UNCHANGED <<execution, version, history, outcome, trouble>>

(***************************************************************************)
(* The answer arrives, and the first to arrive settles the request: after  *)
(* a refusal of any kind the client drops its preview and loads the        *)
(* document again, and what its user confirms then is another request,     *)
(* under a new key or, for reservations, under the old one.                *)
(***************************************************************************)
Respond(a) ==
  LET q == RequestOf[a] IN
  /\ attempt[a].at = "answering"
  /\ outcome' = IF outcome[q] = Waiting THEN [outcome EXCEPT ![q] = attempt[a].reply] ELSE outcome
  /\ attempt' = [attempt EXCEPT ![a] = Idle]
  /\ UNCHANGED <<execution, version, history, trouble>>

-----------------------------------------------------------------------------
\* The idempotency rows

\* Variant: a key is replayed to whoever sends it.
ReplayToAnyone(a) ==
  LET row == execution[KeyOfAttempt(a)]
  IN  IF row.status = "completed" THEN Done(row.result) ELSE Told("in_progress")

\* What a row found under the key answers.
Replay(a) ==
  LET row == execution[KeyOfAttempt(a)]
  IN  CASE row.hash # HashOf[RequestOf[a]] -> Told("reused")
        [] row.hash = HashOf[RequestOf[a]] /\ row.status # "completed" -> Told("in_progress")
        [] OTHER -> Done(row.result)

Executed(a) == execution[KeyOfAttempt(a)] # NoExecution

\* The lookup before the transaction.
LookUp(a) ==
  /\ attempt[a].at = "received"
  /\ IF Executed(a) THEN Answer(a, Replay(a)) ELSE Go(a, "opening")
  /\ UNCHANGED <<execution, version, history, outcome, trouble>>

(***************************************************************************)
(* The transaction takes its snapshot; some commands look up their key     *)
(* again in it.                                                            *)
(***************************************************************************)
Open(a) ==
  /\ attempt[a].at = "opening"
  /\ IF RequestOf[a] \in LooksInside /\ Executed(a) THEN Answer(a, Replay(a))
     ELSE attempt' = [attempt EXCEPT ![a].at = "open", ![a].snapshot = version]
  /\ UNCHANGED <<execution, version, history, outcome, trouble>>

\* Variant: a duplicate key is taken for a conflict of the database, and the transaction run again.
RunAgainOnDuplicate(a) ==
  /\ attempt[a].at = "open"
  /\ \A b \in Attempts : KeyOfAttempt(b) = KeyOfAttempt(a) => attempt[b].at \notin Holding
  /\ Go(a, IF Executed(a) THEN "opening" ELSE "created")
  /\ UNCHANGED <<execution, version, history, outcome, trouble>>

(***************************************************************************)
(* The pending row is inserted.  The insert waits for another transaction  *)
(* that has inserted the key; when that one commits, the insert fails with *)
(* a duplicate key, or as a serialization failure if the key was looked up *)
(* in the transaction.                                                     *)
(***************************************************************************)
Create(a) ==
  /\ attempt[a].at = "open"
  /\ \A b \in Attempts : KeyOfAttempt(b) = KeyOfAttempt(a) => attempt[b].at \notin Holding
  /\ \/ ~Executed(a) /\ Go(a, "created")
     \/ Executed(a) /\ Go(a, "duplicate")
     \/ Executed(a) /\ RequestOf[a] \in LooksInside /\ Answer(a, Told("conflict"))
  /\ UNCHANGED <<execution, version, history, outcome, trouble>>

\* The lookup after a duplicate key.
LookUpDuplicate(a) ==
  /\ attempt[a].at = "duplicate"
  /\ Answer(a, IF Executed(a) THEN Replay(a) ELSE Told("conflict"))
  /\ UNCHANGED <<execution, version, history, outcome, trouble>>

-----------------------------------------------------------------------------
\* The work of the command, and its commit

VersionMatches(a) == attempt[a].snapshot = Expected[RequestOf[a]]

\* Variant: the row is read before it is locked, and written as it was read.
WorkOnSnapshot(a) ==
  /\ attempt[a].at = "created"
  /\ IF VersionMatches(a) THEN Go(a, "worked") ELSE Answer(a, Told("stale"))
  /\ UNCHANGED <<execution, version, history, outcome, trouble>>

(***************************************************************************)
(* The work locks the document, waiting for the transaction that holds it, *)
(* compares its version, and writes it.  A document that has changed since *)
(* the snapshot cannot be locked or written; a command that reads before   *)
(* it locks may see that its version is stale first.                       *)
(***************************************************************************)
Work(a) ==
  /\ attempt[a].at = "created"
  /\ \A b \in Attempts : attempt[b].at # "worked"
  /\ \/ attempt[a].snapshot # version /\ Answer(a, Told("conflict"))
     \/ ~VersionMatches(a) /\ Answer(a, Told("stale"))
     \/ attempt[a].snapshot = version /\ VersionMatches(a) /\ Go(a, "worked")
  /\ UNCHANGED <<execution, version, history, outcome, trouble>>

\* The result is made from the row the work has read.
CompletedRow(a) == [hash |-> HashOf[RequestOf[a]], status |-> "completed",
                    result |-> attempt[a].snapshot + 1]

\* Document and completed row are published together.
Commit(a) ==
  /\ attempt[a].at = "worked"
  /\ execution' = [execution EXCEPT ![KeyOfAttempt(a)] = CompletedRow(a)]
  /\ version' = version + 1
  /\ history' = Append(history, RequestOf[a])
  /\ Answer(a, Done(attempt[a].snapshot + 1))
  /\ UNCHANGED <<outcome, trouble>>

-----------------------------------------------------------------------------
\* What goes wrong

Trouble == trouble < MaxTrouble /\ trouble' = trouble + 1

\* The database gives a transaction up: a deadlock, a timeout, a false positive.
GiveUp(a) ==
  /\ Trouble
  /\ attempt[a].at \in InTransaction
  /\ Answer(a, Told("conflict"))
  /\ UNCHANGED <<execution, version, history, outcome>>

LoseAnswer(a) ==
  /\ Trouble
  /\ attempt[a].at = "answering"
  /\ attempt' = [attempt EXCEPT ![a] = Idle]
  /\ UNCHANGED <<execution, version, history, outcome>>

\* The server stops: open transactions are rolled back, answers are lost.
Crash ==
  /\ Trouble
  /\ attempt' = [a \in Attempts |-> Idle]
  /\ UNCHANGED <<execution, version, history, outcome>>

-----------------------------------------------------------------------------
Serve(a) ==
  \/ LookUp(a) \/ Open(a) \/ Create(a) \/ LookUpDuplicate(a)
  \/ Work(a) \/ Commit(a) \/ Respond(a)

CommandNext ==
  \/ \E a \in Attempts : Send(a) \/ Serve(a) \/ GiveUp(a) \/ LoseAnswer(a)
  \/ Crash

(***************************************************************************)
(* The server goes on with every delivery it has received.  Nobody has to  *)
(* send anything: a person confirms, and may go away.                      *)
(***************************************************************************)
CommandFairness == \A a \in Attempts : WF_commandVars(Serve(a))

CommandSpec == CommandInit /\ [][CommandNext]_commandVars /\ CommandFairness

-----------------------------------------------------------------------------
\* Properties

(***************************************************************************)
(* The wrapper keeps the contract: one effect at most for a request,       *)
(* however many of its deliveries run at once, on the version it expects,  *)
(* and no caller is told anything but the truth, a caller whose first      *)
(* delivery took effect least of all that its version is stale.            *)
(***************************************************************************)
Contract == INSTANCE CommandContract
KeepsContract == Contract!ContractSpec

(***************************************************************************)
(* No update is lost: the version of the document counts the requests that *)
(* changed it, and each of them has the row that replays its result.       *)
(***************************************************************************)
EveryEffectIsRecorded ==
  /\ version = Len(history)
  /\ \A n \in DOMAIN history :
       execution[KeyOf[history[n]]] =
         [hash |-> HashOf[history[n]], status |-> "completed", result |-> n]
  /\ \A k \in Keys : execution[k] # NoExecution => \E n \in DOMAIN history : KeyOf[history[n]] = k

(***************************************************************************)
(* Every delivery that reaches the server comes to its end, though it      *)
(* waits for others that hold its key or its document, and its caller has  *)
(* an answer then, unless something has gone wrong since.                  *)
(***************************************************************************)
EveryDeliveryIsAnswered ==
  \A a \in Attempts, n \in 0..MaxTrouble :
    (attempt[a].at # "idle" /\ trouble = n)
      ~> (attempt[a].at = "idle" /\ (outcome[RequestOf[a]] # Waiting \/ trouble > n))
=============================================================================
