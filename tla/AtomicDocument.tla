--------------------------- MODULE AtomicDocument ---------------------------
(***************************************************************************)
(* What the writers of a runtime document may rely on: each write takes    *)
(* effect in one step on top of all the writes before it, or not at all,   *)
(* and whoever is told that a write is done finds it in the document.      *)
(***************************************************************************)
EXTENDS Sequences

CONSTANT Writes

VARIABLES
  content,    \* the writes the document contains, in order
  told        \* what the caller of each write knows

Contains(w) == \E n \in DOMAIN content : content[n] = w

DocumentInit ==
  /\ content = << >>
  /\ told = [w \in Writes |-> "waiting"]

TakeEffect(w) ==
  /\ ~Contains(w)
  /\ told[w] = "waiting"
  /\ content' = Append(content, w)
  /\ UNCHANGED told

TellDone(w) ==
  /\ told[w] = "waiting"
  /\ Contains(w)
  /\ told' = [told EXCEPT ![w] = "done"]
  /\ UNCHANGED content

TellFailed(w) ==
  /\ told[w] = "waiting"
  /\ ~Contains(w)
  /\ told' = [told EXCEPT ![w] = "failed"]
  /\ UNCHANGED content

\* A crash leaves callers without an answer, whatever became of their writes.
Lose(lost) ==
  /\ \A w \in lost : told[w] = "waiting"
  /\ told' = [w \in Writes |-> IF w \in lost THEN "lost" ELSE told[w]]
  /\ UNCHANGED content

DocumentNext ==
  \/ \E w \in Writes : TakeEffect(w) \/ TellDone(w) \/ TellFailed(w)
  \/ \E lost \in SUBSET Writes : Lose(lost)

DocumentSpec == DocumentInit /\ [][DocumentNext]_<<content, told>>
=============================================================================
