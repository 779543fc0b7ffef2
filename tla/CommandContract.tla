-------------------------- MODULE CommandContract --------------------------
(***************************************************************************)
(* What a caller may rely on when it sends a command to a document of a    *)
(* given version under an idempotency key: the command takes effect at     *)
(* most once, on exactly the version it was meant for, and the answer is   *)
(* the truth about that, however often the command had to be sent.  A      *)
(* conflict is an answer, too; it says only that the caller has to look.   *)
(***************************************************************************)
EXTENDS Integers, Sequences

CONSTANTS
  Requests,   \* what callers want done
  KeyOf,      \* the idempotency key a request is sent under
  HashOf,     \* the hash of its payload
  Expected    \* the version of the document it was written against

VARIABLES
  history,    \* the requests that took effect, in order
  outcome     \* what each caller knows

Done(n) == [answer |-> "done", version |-> n]
Told(answer) == [answer |-> answer, version |-> -1]
Waiting == Told("waiting")

\* The places in the history of requests sent under the key of q.
ExecutedAs(q) == {n \in DOMAIN history : KeyOf[history[n]] = KeyOf[q]}

SameRequest(p, q) == KeyOf[p] = KeyOf[q] /\ HashOf[p] = HashOf[q]

ContractInit ==
  /\ history = << >>
  /\ outcome = [q \in Requests |-> Waiting]

\* A request takes effect: on the version it expects, under an unused key.
TakeEffect(q) ==
  /\ ExecutedAs(q) = {}
  /\ Expected[q] = Len(history)
  /\ history' = Append(history, q)
  /\ UNCHANGED outcome

LearnDone(q) ==
  \E n \in ExecutedAs(q) :
    /\ SameRequest(history[n], q)
    /\ outcome' = [outcome EXCEPT ![q] = Done(n)]

\* The document has moved on: the request did not take effect and never will.
LearnStale(q) ==
  /\ \A n \in ExecutedAs(q) : ~SameRequest(history[n], q)
  /\ Expected[q] # Len(history)
  /\ outcome' = [outcome EXCEPT ![q] = Told("stale")]

LearnReused(q) ==
  /\ \E n \in ExecutedAs(q) : ~SameRequest(history[n], q)
  /\ outcome' = [outcome EXCEPT ![q] = Told("reused")]

\* Nothing is said about the effect, which another delivery may have had.
LearnConflict(q) == outcome' = [outcome EXCEPT ![q] = Told("conflict")]

ContractNext ==
  \E q \in Requests :
    \/ TakeEffect(q)
    \/ /\ outcome[q] = Waiting
       /\ LearnDone(q) \/ LearnStale(q) \/ LearnReused(q) \/ LearnConflict(q)
       /\ UNCHANGED history

ContractSpec == ContractInit /\ [][ContractNext]_<<history, outcome>>
=============================================================================
