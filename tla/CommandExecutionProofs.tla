----------------------- MODULE CommandExecutionProofs -----------------------
(***************************************************************************)
(* Theorems about CommandExecution, for any requests, keys and attempts,   *)
(* and any number of crashes, lost answers and aborted transactions.       *)
(***************************************************************************)
EXTENDS CommandExecution, TLAPS

\* What a reply says about the request it answers; it stays true.
Truth(q, reply) ==
  /\ reply.answer # "in_progress"
  /\ reply.answer = "done" =>
       /\ reply.version \in DOMAIN history
       /\ reply = Done(reply.version)
       /\ Contract!SameRequest(history[reply.version], q)
  /\ reply.answer = "stale" =>
       /\ reply = Told("stale")
       /\ Expected[q] < version
       /\ \A n \in DOMAIN history : ~Contract!SameRequest(history[n], q)
  /\ reply.answer = "reused" =>
       /\ reply = Told("reused")
       /\ \E n \in DOMAIN history : KeyOf[history[n]] = KeyOf[q] /\ HashOf[history[n]] # HashOf[q]

(***************************************************************************)
(* What an attempt holds: its snapshot is no older than the version its    *)
(* request expects, its key is unused while it holds it, and once its work *)
(* is done the document is the one it has read.                            *)
(***************************************************************************)
AttemptInv(a) ==
  LET q == RequestOf[a] IN
  /\ attempt[a].at # "idle" => Expected[q] <= version
  /\ attempt[a].at \in InTransaction =>
       Expected[q] <= attempt[a].snapshot /\ attempt[a].snapshot <= version
  /\ attempt[a].at \in Holding => ~Executed(a)
  /\ attempt[a].at = "worked" => attempt[a].snapshot = version /\ version = Expected[q]
  /\ attempt[a].at = "answering" => attempt[a].reply.answer # "waiting" /\ Truth(q, attempt[a].reply)

\* One attempt at a time holds a key, and one the document.
Excludes(a, b) ==
  /\ attempt[a].at \in Holding /\ attempt[b].at \in Holding /\ KeyOfAttempt(a) = KeyOfAttempt(b)
       => a = b
  /\ attempt[a].at = "worked" /\ attempt[b].at = "worked" => a = b

CommandInv ==
  /\ CommandTypeOK
  /\ EveryEffectIsRecorded
  /\ \A a \in Attempts : AttemptInv(a)
  /\ \A a, b \in Attempts : Excludes(a, b)

-----------------------------------------------------------------------------
\* Replies

\* What the rows of the tables and the variables of an attempt hold.
LEMMA Rows ==
  ASSUME CommandTypeOK
  PROVE  /\ version \in Nat /\ history \in Seq(Requests)
         /\ DOMAIN history = 1..Len(history) /\ Len(history) \in Nat
         /\ \A n \in DOMAIN history : history[n] \in Requests
         /\ \A a \in Attempts : RequestOf[a] \in Requests /\ KeyOfAttempt(a) \in Keys
         /\ \A q \in Requests : Expected[q] \in Nat /\ KeyOf[q] \in Keys /\ HashOf[q] \in Hashes
  BY CommandAssumption DEF CommandTypeOK, KeyOfAttempt, Hashes

\* A key with a row has been executed, and what the row answers is true.
LEMMA ReplaysAreTrue ==
  ASSUME CommandTypeOK, EveryEffectIsRecorded, NEW a \in Attempts, Executed(a)
  PROVE  /\ Replay(a) \in Replies
         /\ Replay(a).answer # "waiting"
         /\ Truth(RequestOf[a], Replay(a))
<1> DEFINE q == RequestOf[a]
<1>1. PICK n \in DOMAIN history : KeyOf[history[n]] = KeyOf[q]
  BY Rows DEF EveryEffectIsRecorded, Executed, KeyOfAttempt
<1>2. execution[KeyOf[q]] = [hash |-> HashOf[history[n]], status |-> "completed", result |-> n]
  BY <1>1 DEF EveryEffectIsRecorded
<1>3. n \in Nat
  BY Rows
<1>4. CASE HashOf[history[n]] # HashOf[q]
  <2>1. Replay(a) = Told("reused")
    BY <1>2, <1>4 DEF Replay, KeyOfAttempt
  <2>2. QED
    BY <1>1, <1>4, <2>1 DEF Truth, Told, Replies
<1>5. CASE HashOf[history[n]] = HashOf[q]
  <2>1. Replay(a) = Done(n)
    BY <1>2, <1>5 DEF Replay, KeyOfAttempt
  <2>2. QED
    BY <1>1, <1>3, <1>5, <2>1 DEF Truth, Done, Replies, Contract!SameRequest
<1>6. QED
  BY <1>4, <1>5

\* A reply that says nothing about the history is true.
LEMMA ConflictsAreTrue ==
  ASSUME NEW q
  PROVE  Truth(q, Told("conflict")) /\ Told("conflict") \in Replies
         /\ Told("conflict").answer # "waiting"
  BY DEF Truth, Told, Replies

-----------------------------------------------------------------------------
\* Steps that change nothing but an attempt, and what a caller knows

AttemptRow ==
  [at : {"idle", "received", "opening", "duplicate", "answering"} \cup InTransaction,
   snapshot : Nat \cup {-1}, reply : Replies]

\* Attempt a becomes r.
LEMMA QuietStep ==
  ASSUME CommandInv, NEW a \in Attempts, UNCHANGED <<execution, version, history>>,
         NEW r \in AttemptRow, attempt' = [attempt EXCEPT ![a] = r],
         outcome' \in [Requests -> Replies], trouble' \in 0..MaxTrouble,
         r.at # "idle" => Expected[RequestOf[a]] <= version,
         r.at \in InTransaction => Expected[RequestOf[a]] <= r.snapshot /\ r.snapshot <= version,
         r.at \in Holding => ~Executed(a),
         r.at = "worked" => r.snapshot = version /\ version = Expected[RequestOf[a]],
         r.at = "answering" => r.reply.answer # "waiting" /\ Truth(RequestOf[a], r.reply),
         r.at \in Holding /\ attempt[a].at \notin Holding =>
           \A b \in Attempts : KeyOfAttempt(b) = KeyOfAttempt(a) => attempt[b].at \notin Holding,
         r.at = "worked" => \A b \in Attempts : attempt[b].at # "worked"
  PROVE  CommandInv'
<1>1. attempt'[a] = r /\ \A b \in Attempts \ {a} : attempt'[b] = attempt[b]
  BY DEF CommandInv, CommandTypeOK
<1>2. CommandTypeOK'
  BY DEF CommandInv, CommandTypeOK, AttemptRow
<1>3. EveryEffectIsRecorded'
  BY DEF CommandInv, EveryEffectIsRecorded
<1>4. ASSUME NEW b \in Attempts PROVE AttemptInv(b)'
  <2>1. CASE b = a
    BY <1>1, <2>1 DEF AttemptInv, Executed, KeyOfAttempt, Truth, Contract!SameRequest
  <2>2. CASE b # a
    <3>1. AttemptInv(b) /\ attempt'[b] = attempt[b]
      BY <1>1, <2>2 DEF CommandInv
    <3>2. QED
      BY <3>1 DEF AttemptInv, Executed, KeyOfAttempt, Truth, Contract!SameRequest
  <2>3. QED
    BY <2>1, <2>2
<1>5. ASSUME NEW b \in Attempts, NEW c \in Attempts PROVE Excludes(b, c)'
  <2>1. Excludes(b, c) /\ Excludes(a, b) /\ Excludes(a, c)
    BY DEF CommandInv
  <2>2. CASE b = a \/ c = a
    BY <1>1, <2>1, <2>2 DEF Excludes, KeyOfAttempt
  <2>3. CASE b # a /\ c # a
    BY <1>1, <2>1, <2>3 DEF Excludes, KeyOfAttempt
  <2>4. QED
    BY <2>2, <2>3
<1>6. QED
  BY <1>2, <1>3, <1>4, <1>5 DEF CommandInv

\* The row of an attempt that answers.
LEMMA AnswerRow ==
  ASSUME NEW reply \in Replies
  PROVE  LET r == [Idle EXCEPT !.at = "answering", !.reply = reply]
         IN  r \in AttemptRow /\ r.at = "answering" /\ r.reply = reply
  BY DEF Idle, AttemptRow

\* An attempt that answers leaves its transaction.
LEMMA AnswerStep ==
  ASSUME CommandInv, NEW a \in Attempts, UNCHANGED <<execution, version, history, outcome>>,
         trouble' \in 0..MaxTrouble, attempt[a].at # "idle",
         NEW reply \in Replies, reply.answer # "waiting", Truth(RequestOf[a], reply),
         Answer(a, reply)
  PROVE  CommandInv'
<1>1. PICK r \in AttemptRow : /\ r.at = "answering" /\ r.reply = reply
                              /\ attempt' = [attempt EXCEPT ![a] = r]
  BY AnswerRow DEF Answer
<1>2. Expected[RequestOf[a]] <= version
  BY DEF CommandInv, AttemptInv
<1>3. outcome' \in [Requests -> Replies]
  BY DEF CommandInv, CommandTypeOK
<1>4. "answering" \notin InTransaction /\ "answering" \notin Holding
  BY DEF InTransaction, Holding
<1>5. QED
  BY <1>1, <1>2, <1>3, <1>4, QuietStep

-----------------------------------------------------------------------------
\* Commits

\* What was true of the history stays true when a request takes effect.
LEMMA TruthStays ==
  ASSUME CommandInv, NEW a \in Attempts, Commit(a), NEW q \in Requests, NEW reply, Truth(q, reply)
  PROVE  Truth(q, reply)'
<1> DEFINE p == RequestOf[a]
<1>1. /\ version' = version + 1 /\ history' = Append(history, p) /\ p \in Requests
      /\ version \in Nat /\ history \in Seq(Requests) /\ version = Expected[p]
  BY Rows DEF Commit, CommandInv, AttemptInv
<1>2. /\ DOMAIN history = 1..Len(history) /\ DOMAIN history' = 1..(Len(history) + 1)
      /\ history'[Len(history) + 1] = p
      /\ \A n \in DOMAIN history : n \in DOMAIN history' /\ history'[n] = history[n]
  BY <1>1
<1>3. reply.answer = "done" => (reply.version \in DOMAIN history'
                                /\ Contract!SameRequest(history'[reply.version], q))
  BY <1>2 DEF Truth, Contract!SameRequest
<1>4. ASSUME reply.answer = "stale" PROVE
        Expected[q] < version' /\ \A n \in DOMAIN history' : ~Contract!SameRequest(history'[n], q)
  <2>1. Expected[q] < version /\ Expected[q] \in Nat
        /\ \A n \in DOMAIN history : ~Contract!SameRequest(history[n], q)
    BY <1>4, CommandAssumption DEF Truth
  <2>2. ~Contract!SameRequest(p, q)
    BY <1>1, <2>1, CommandAssumption DEF Contract!SameRequest
  <2>3. \A n \in DOMAIN history' : ~Contract!SameRequest(history'[n], q)
    BY <1>2, <2>1, <2>2
  <2>4. QED
    BY <1>1, <2>1, <2>3
<1>5. reply.answer = "reused" =>
        \E n \in DOMAIN history' : KeyOf[history'[n]] = KeyOf[q] /\ HashOf[history'[n]] # HashOf[q]
  BY <1>2 DEF Truth
<1>6. QED
  BY <1>3, <1>4, <1>5 DEF Truth, Contract!SameRequest

\* A commit adds its effect, its record and its answer at once.
LEMMA CommitStep ==
  ASSUME CommandInv, NEW a \in Attempts, Commit(a)
  PROVE  CommandInv'
<1> DEFINE p == RequestOf[a]
<1>1. /\ attempt[a].at = "worked" /\ attempt[a].snapshot = version /\ version = Expected[p]
      /\ version = Len(history) /\ version \in Nat /\ history \in Seq(Requests)
      /\ p \in Requests /\ KeyOf[p] \in Keys /\ HashOf[p] \in Hashes
      /\ execution[KeyOf[p]] = NoExecution
  BY Rows DEF Commit, CommandInv, AttemptInv, EveryEffectIsRecorded, Executed, KeyOfAttempt, Holding
<1>2. /\ version' = version + 1 /\ history' = Append(history, p)
      /\ execution' = [execution EXCEPT ![KeyOf[p]] =
           [hash |-> HashOf[p], status |-> "completed", result |-> version + 1]]
      /\ outcome' = outcome /\ trouble' = trouble
  BY <1>1 DEF Commit, CompletedRow, KeyOfAttempt
<1>3. PICK reply : reply = Done(version + 1)
  OBVIOUS
<1>4. reply = [answer |-> "done", version |-> version + 1] /\ reply \in Replies
  BY <1>1, <1>3 DEF Done, Replies
<1>5. PICK r \in AttemptRow : /\ r.at = "answering" /\ r.reply = reply
                              /\ attempt' = [attempt EXCEPT ![a] = r]
  <2>1. Answer(a, Done(attempt[a].snapshot + 1)) /\ Done(attempt[a].snapshot + 1) = reply
    BY <1>1, <1>3 DEF Commit, Done
  <2>2. attempt' = [attempt EXCEPT ![a] = [Idle EXCEPT !.at = "answering", !.reply = reply]]
    BY <2>1 DEF Answer
  <2>3. QED
    BY <1>4, <2>2, AnswerRow
<1>6. attempt'[a] = r /\ \A b \in Attempts \ {a} : attempt'[b] = attempt[b]
  BY <1>5 DEF CommandInv, CommandTypeOK
<1>7. /\ DOMAIN history = 1..Len(history) /\ DOMAIN history' = 1..(Len(history) + 1)
      /\ history'[Len(history) + 1] = p /\ Len(history') = Len(history) + 1
      /\ \A n \in DOMAIN history : n \in DOMAIN history' /\ history'[n] = history[n]
      /\ history' \in Seq(Requests)
  BY <1>1, <1>2
<1>8. CommandTypeOK'
  <2>1. [hash |-> HashOf[p], status |-> "completed", result |-> version + 1]
          \in [hash : Hashes, status : {"completed"}, result : Nat \ {0}]
    BY <1>1
  <2>2. execution' \in [Keys -> {NoExecution} \cup
          [hash : Hashes, status : {"completed"}, result : Nat \ {0}]]
    BY <1>2, <2>1 DEF CommandInv, CommandTypeOK
  <2>3. attempt' \in [Attempts ->
          [at : {"idle", "received", "opening", "duplicate", "answering"} \cup InTransaction,
           snapshot : Nat \cup {-1}, reply : Replies]]
    BY <1>5 DEF CommandInv, CommandTypeOK, AttemptRow
  <2>4. QED
    BY <1>1, <1>2, <1>7, <2>2, <2>3 DEF CommandInv, CommandTypeOK
<1>9. EveryEffectIsRecorded'
  <2>1. \A n \in DOMAIN history : KeyOf[history[n]] # KeyOf[p]
    <3>1. ASSUME NEW n \in DOMAIN history PROVE execution[KeyOf[history[n]]].status = "completed"
      <4>1. execution[KeyOf[history[n]]] =
              [hash |-> HashOf[history[n]], status |-> "completed", result |-> n]
        BY DEF CommandInv, EveryEffectIsRecorded
      <4>2. QED
        BY <4>1
    <3>2. NoExecution.status = "none"
      BY DEF NoExecution
    <3>3. QED
      BY <1>1, <3>1, <3>2
  <2>2. /\ execution'[KeyOf[p]] =
             [hash |-> HashOf[p], status |-> "completed", result |-> version + 1]
        /\ \A k \in Keys \ {KeyOf[p]} : execution'[k] = execution[k]
    BY <1>1, <1>2 DEF CommandInv, CommandTypeOK
  <2>3. \A n \in DOMAIN history : KeyOf[history[n]] \in Keys
    BY Rows DEF CommandInv
  <2>4. \A n \in DOMAIN history' : execution'[KeyOf[history'[n]]] =
          [hash |-> HashOf[history'[n]], status |-> "completed", result |-> n]
    <3>1. ASSUME NEW n \in DOMAIN history
          PROVE  execution'[KeyOf[history'[n]]] =
                   [hash |-> HashOf[history'[n]], status |-> "completed", result |-> n]
      BY <1>7, <2>1, <2>2, <2>3 DEF CommandInv, EveryEffectIsRecorded
    <3>2. QED
      BY <1>1, <1>7, <2>2, <3>1
  <2>5. ASSUME NEW k \in Keys, execution'[k] # NoExecution
        PROVE  \E n \in DOMAIN history' : KeyOf[history'[n]] = k
    <3>1. CASE k = KeyOf[p]
      BY <1>1, <1>7, <3>1
    <3>2. CASE k # KeyOf[p]
      BY <1>7, <2>2, <2>5, <3>2 DEF CommandInv, EveryEffectIsRecorded
    <3>3. QED
      BY <3>1, <3>2
  <2>6. version' = Len(history')
    BY <1>1, <1>2, <1>7
  <2>7. QED
    BY <2>4, <2>5, <2>6 DEF EveryEffectIsRecorded
<1>10. AttemptInv(a)'
  <2>1. Truth(p, reply)'
    BY <1>1, <1>4, <1>7 DEF Truth, Done, Contract!SameRequest
  <2>2. Expected[p] <= version'
    BY <1>1, <1>2
  <2>3. reply.answer # "waiting"
    BY <1>4
  <2>4. "answering" \notin InTransaction /\ "answering" \notin Holding
    BY DEF InTransaction, Holding
  <2>5. QED
    BY <1>5, <1>6, <2>1, <2>2, <2>3, <2>4 DEF AttemptInv
<1>11. ASSUME NEW b \in Attempts \ {a} PROVE AttemptInv(b)'
  <2> DEFINE q == RequestOf[b]
  <2>1. AttemptInv(b) /\ attempt'[b] = attempt[b] /\ Excludes(a, b) /\ q \in Requests
    BY <1>6, Rows DEF CommandInv
  <2>2. attempt[b].at \in Holding => KeyOfAttempt(b) # KeyOfAttempt(a)
    BY <1>1, <2>1 DEF Excludes, Holding
  <2>3. attempt[b].at \in Holding => ~Executed(b)'
    <3>1. KeyOfAttempt(b) \in Keys /\ KeyOfAttempt(a) = KeyOf[p]
      BY Rows DEF CommandInv, KeyOfAttempt
    <3>2. QED
      BY <1>1, <1>2, <2>1, <2>2, <3>1 DEF AttemptInv, Executed, KeyOfAttempt, CommandInv, CommandTypeOK
  <2>4. attempt[b].at # "worked"
    BY <1>1, <2>1 DEF Excludes
  <2>5. PICK told : told = attempt[b].reply
    OBVIOUS
  <2>6. attempt[b].at = "answering" => told.answer # "waiting" /\ Truth(q, told)'
    BY <2>1, <2>5, TruthStays DEF AttemptInv
  <2>7. Expected[q] \in Nat /\ (attempt[b].at \in InTransaction => attempt[b].snapshot \in Int)
    BY <2>1, Rows DEF CommandInv, CommandTypeOK
  <2>8. QED
    BY <1>1, <1>2, <2>1, <2>3, <2>4, <2>5, <2>6, <2>7 DEF AttemptInv
<1>12. ASSUME NEW b \in Attempts, NEW c \in Attempts PROVE Excludes(b, c)'
  <2>1. Excludes(b, c) /\ "answering" \notin Holding
    BY DEF CommandInv, Holding
  <2>2. QED
    BY <1>5, <1>6, <2>1 DEF Excludes, KeyOfAttempt, Holding
<1>13. QED
  BY <1>8, <1>9, <1>10, <1>11, <1>12 DEF CommandInv
-----------------------------------------------------------------------------
\* Every step

\* The row of an attempt that goes on.
LEMMA GoRow ==
  ASSUME CommandTypeOK, NEW a \in Attempts,
         NEW at \in {"idle", "received", "opening", "duplicate", "answering"} \cup InTransaction
  PROVE  LET r == [attempt[a] EXCEPT !.at = at]
         IN  /\ r \in AttemptRow /\ r.at = at /\ r.snapshot = attempt[a].snapshot
             /\ r.reply = attempt[a].reply
<1>1. attempt[a] \in AttemptRow
  BY DEF CommandTypeOK, AttemptRow
<1>2. QED
  BY <1>1 DEF AttemptRow

\* An attempt goes on without having done its work.
LEMMA GoStep ==
  ASSUME CommandInv, NEW a \in Attempts, UNCHANGED <<execution, version, history, outcome, trouble>>,
         NEW at \in {"received", "opening", "duplicate", "created"}, Go(a, at),
         Expected[RequestOf[a]] <= version,
         at = "created" =>
           /\ attempt[a].at = "open" /\ ~Executed(a)
           /\ \A b \in Attempts : KeyOfAttempt(b) = KeyOfAttempt(a) => attempt[b].at \notin Holding
  PROVE  CommandInv'
<1>1. at \in {"idle", "received", "opening", "duplicate", "answering"} \cup InTransaction
  BY DEF InTransaction, Holding
<1>2. CommandTypeOK /\ outcome' \in [Requests -> Replies] /\ trouble' \in 0..MaxTrouble
  BY DEF CommandInv, CommandTypeOK
<1>3. PICK r \in AttemptRow : /\ r.at = at /\ r.snapshot = attempt[a].snapshot
                              /\ attempt' = [attempt EXCEPT ![a] = r]
  BY <1>1, <1>2, GoRow DEF Go
<1>4. at # "created" => at \notin InTransaction /\ at \notin Holding
  BY DEF InTransaction, Holding
<1>5. at = "created" => Expected[RequestOf[a]] <= r.snapshot /\ r.snapshot <= version
  BY <1>3 DEF CommandInv, AttemptInv, InTransaction
<1>6. QED
  BY <1>2, <1>3, <1>4, <1>5, QuietStep

\* A transaction opens, with a snapshot of the aggregate.
LEMMA OpenStep ==
  ASSUME CommandInv, NEW a \in Attempts, Open(a), ~(RequestOf[a] \in LooksInside /\ Executed(a))
  PROVE  CommandInv'
<1>1. attempt' = [attempt EXCEPT ![a].at = "open", ![a].snapshot = version]
      /\ attempt[a].at = "opening" /\ UNCHANGED <<execution, version, history, outcome, trouble>>
  BY DEF Open
<1>2. CommandTypeOK /\ outcome' \in [Requests -> Replies] /\ trouble' \in 0..MaxTrouble
      /\ version \in Nat
  BY <1>1 DEF CommandInv, CommandTypeOK
<1>3. "open" \in InTransaction /\ "open" \notin Holding
  BY DEF InTransaction, Holding
<1>4. PICK r \in AttemptRow : /\ r.at = "open" /\ r.snapshot = version
                              /\ attempt' = [attempt EXCEPT ![a] = r]
  <2> DEFINE go == [attempt[a] EXCEPT !.at = "open"]
  <2>1. go \in AttemptRow /\ go.at = "open"
    BY <1>2, <1>3, GoRow
  <2>2. attempt' = [attempt EXCEPT ![a] = [go EXCEPT !.snapshot = version]]
    BY <1>1, <1>2 DEF CommandTypeOK
  <2> HIDE DEF go
  <2>3. [go EXCEPT !.snapshot = version] \in AttemptRow
        /\ [go EXCEPT !.snapshot = version].at = "open"
        /\ [go EXCEPT !.snapshot = version].snapshot = version
    BY <1>2, <2>1 DEF AttemptRow
  <2>4. QED
    BY <2>2, <2>3
<1>5. Expected[RequestOf[a]] <= version
  BY <1>1 DEF CommandInv, AttemptInv
<1>6. Expected[RequestOf[a]] <= r.snapshot /\ r.snapshot <= version
  BY <1>2, <1>4, <1>5
<1>7. UNCHANGED <<execution, version, history>>
  BY <1>1
<1>8. QED
  BY <1>2, <1>3, <1>4, <1>5, <1>6, <1>7, QuietStep

\* The handler of the command, at work in its transaction or refused.
LEMMA WorkStep ==
  ASSUME CommandInv, NEW a \in Attempts, Work(a)
  PROVE  CommandInv'
<1> DEFINE q == RequestOf[a]
<1>1. /\ attempt[a].at = "created" /\ \A b \in Attempts : attempt[b].at # "worked"
      /\ UNCHANGED <<execution, version, history, outcome, trouble>>
  BY DEF Work
<1>2. /\ trouble' \in 0..MaxTrouble /\ outcome' \in [Requests -> Replies]
      /\ CommandTypeOK
  BY <1>1 DEF CommandInv, CommandTypeOK
<1>3. /\ ~Executed(a) /\ Expected[q] <= attempt[a].snapshot /\ attempt[a].snapshot <= version
      /\ Expected[q] <= version
  BY <1>1 DEF CommandInv, AttemptInv, Holding, InTransaction
<1>4. CASE Answer(a, Told("conflict"))
  BY <1>1, <1>2, <1>4, AnswerStep, ConflictsAreTrue
<1>5. CASE ~VersionMatches(a) /\ Answer(a, Told("stale"))
  <2>1. attempt[a].snapshot \in Int /\ Expected[q] \in Nat /\ version \in Nat
    BY <1>2, Rows DEF CommandTypeOK
  <2>2. Expected[q] < version
    BY <1>3, <1>5, <2>1 DEF VersionMatches
  <2>3. \A n \in DOMAIN history : ~Contract!SameRequest(history[n], q)
    <3>1. ASSUME NEW n \in DOMAIN history, KeyOf[history[n]] = KeyOf[q] PROVE FALSE
      <4>1. execution[KeyOf[q]] = [hash |-> HashOf[history[n]], status |-> "completed", result |-> n]
        BY <3>1 DEF CommandInv, EveryEffectIsRecorded
      <4>2. execution[KeyOf[q]].status = "completed"
        BY <4>1
      <4>3. NoExecution.status = "none"
        BY DEF NoExecution
      <4>4. QED
        BY <1>3, <4>2, <4>3 DEF Executed, KeyOfAttempt
    <3>2. QED
      BY <3>1 DEF Contract!SameRequest
  <2>4. Truth(q, Told("stale")) /\ Told("stale") \in Replies /\ Told("stale").answer # "waiting"
    BY <2>2, <2>3 DEF Truth, Told, Replies
  <2>5. QED
    BY <1>1, <1>2, <1>5, <2>4, AnswerStep
<1>6. CASE attempt[a].snapshot = version /\ VersionMatches(a) /\ Go(a, "worked")
  <2>1. "worked" \in InTransaction /\ "worked" \in Holding /\ "created" \in Holding
    BY DEF InTransaction, Holding
  <2>2. PICK r \in AttemptRow : /\ r.at = "worked" /\ r.snapshot = attempt[a].snapshot
                                /\ attempt' = [attempt EXCEPT ![a] = r]
    BY <1>2, <1>6, <2>1, GoRow DEF Go
  <2>3. r.snapshot = version /\ version = Expected[q]
    BY <1>6, <2>2 DEF VersionMatches
  <2>4. QED
    BY <1>1, <1>2, <1>3, <2>1, <2>2, <2>3, QuietStep
<1>7. QED
  BY <1>4, <1>5, <1>6 DEF Work

\* An attempt that is over, for its answer has arrived or has got lost.
LEMMA OverStep ==
  ASSUME CommandInv, NEW a \in Attempts, UNCHANGED <<execution, version, history>>,
         attempt' = [attempt EXCEPT ![a] = Idle],
         outcome' \in [Requests -> Replies], trouble' \in 0..MaxTrouble
  PROVE  CommandInv'
<1>1. Idle \in AttemptRow /\ Idle.at = "idle"
  BY DEF Idle, AttemptRow, Waiting, Told, Replies
<1>2. "idle" \notin InTransaction /\ "idle" \notin Holding
  BY DEF InTransaction, Holding
<1>3. QED
  BY <1>1, <1>2, QuietStep

\* A crash forgets every attempt under way and keeps what was committed.
LEMMA CrashStep ==
  ASSUME CommandInv, Crash
  PROVE  CommandInv'
<1>1. \A a \in Attempts : attempt'[a] = Idle /\ Idle.at = "idle"
  BY DEF Crash, Idle
<1>2. "idle" \notin InTransaction /\ "idle" \notin Holding
  BY DEF InTransaction, Holding
<1>3. Idle \in AttemptRow
  BY DEF Idle, AttemptRow, Waiting, Told, Replies
<1>4. CommandTypeOK'
  BY <1>3, CommandAssumption DEF Crash, Trouble, CommandInv, CommandTypeOK, AttemptRow
<1>5. EveryEffectIsRecorded'
  BY DEF Crash, CommandInv, EveryEffectIsRecorded
<1>6. QED
  BY <1>1, <1>2, <1>4, <1>5 DEF CommandInv, AttemptInv, Excludes

\* Every step of a request, and every crash, keeps the invariant.
LEMMA StepKeepsInv ==
  ASSUME CommandInv, [CommandNext]_commandVars
  PROVE  CommandInv'
<1>1. CommandTypeOK /\ EveryEffectIsRecorded /\ trouble \in 0..MaxTrouble /\ MaxTrouble \in Nat
      /\ outcome \in [Requests -> Replies]
  BY CommandAssumption DEF CommandInv, CommandTypeOK
<1>2. ASSUME NEW a \in Attempts, Send(a) PROVE CommandInv'
  BY <1>2, GoStep DEF Send
<1>3. \A a \in Attempts : attempt[a].at # "idle" => Expected[RequestOf[a]] <= version
  BY DEF CommandInv, AttemptInv
<1>4. ASSUME NEW a \in Attempts, LookUp(a) PROVE CommandInv'
  <2>1. CASE Executed(a)
    BY <1>1, <1>4, <2>1, AnswerStep, ReplaysAreTrue DEF LookUp
  <2>2. CASE ~Executed(a)
    BY <1>3, <1>4, <2>2, GoStep DEF LookUp
  <2>3. QED
    BY <2>1, <2>2
<1>5. ASSUME NEW a \in Attempts, Open(a) PROVE CommandInv'
  <2>1. CASE RequestOf[a] \in LooksInside /\ Executed(a)
    BY <1>1, <1>5, <2>1, AnswerStep, ReplaysAreTrue DEF Open
  <2>2. QED
    BY <1>5, <2>1, OpenStep
<1>6. ASSUME NEW a \in Attempts, Create(a) PROVE CommandInv'
  <2>1. CASE Answer(a, Told("conflict"))
    BY <1>1, <1>6, <2>1, AnswerStep, ConflictsAreTrue DEF Create
  <2>2. CASE ~Executed(a) /\ Go(a, "created")
    BY <1>3, <1>6, <2>2, GoStep DEF Create
  <2>3. CASE Executed(a) /\ Go(a, "duplicate")
    BY <1>3, <1>6, <2>3, GoStep DEF Create
  <2>4. QED
    BY <1>6, <2>1, <2>2, <2>3 DEF Create
<1>7. ASSUME NEW a \in Attempts, LookUpDuplicate(a) PROVE CommandInv'
  <2>1. CASE Executed(a)
    BY <1>1, <1>7, <2>1, AnswerStep, ReplaysAreTrue DEF LookUpDuplicate
  <2>2. CASE ~Executed(a)
    BY <1>1, <1>7, <2>2, AnswerStep, ConflictsAreTrue DEF LookUpDuplicate
  <2>3. QED
    BY <2>1, <2>2
<1>8. ASSUME NEW a \in Attempts, Respond(a) PROVE CommandInv'
  <2>1. attempt[a].reply \in Replies
    BY <1>1 DEF CommandTypeOK
  <2>2. outcome' \in [Requests -> Replies]
    BY <1>1, <1>8, <2>1 DEF Respond
  <2>3. QED
    BY <1>1, <1>8, <2>2, OverStep DEF Respond
<1>9. ASSUME NEW a \in Attempts, GiveUp(a) PROVE CommandInv'
  <2>1. attempt[a].at # "idle" /\ trouble' \in 0..MaxTrouble
    BY <1>1, <1>9 DEF GiveUp, Trouble, InTransaction, Holding
  <2>2. QED
    BY <1>9, <2>1, AnswerStep, ConflictsAreTrue DEF GiveUp
<1>10. ASSUME NEW a \in Attempts, LoseAnswer(a) PROVE CommandInv'
  <2>1. trouble' \in 0..MaxTrouble
    BY <1>1, <1>10 DEF LoseAnswer, Trouble
  <2>2. QED
    BY <1>1, <1>10, <2>1, OverStep DEF LoseAnswer
<1>11. ASSUME UNCHANGED commandVars PROVE CommandInv'
  BY <1>11 DEF commandVars, CommandInv, CommandTypeOK, EveryEffectIsRecorded, AttemptInv, Excludes,
               Executed, KeyOfAttempt, Truth, Contract!SameRequest
<1>12. QED
  BY <1>2, <1>4, <1>5, <1>6, <1>7, <1>8, <1>9, <1>10, <1>11, WorkStep, CommitStep, CrashStep
     DEF CommandNext, Serve

-----------------------------------------------------------------------------
\* Theorems

\* The invariant that the theorems below rest on.
THEOREM CommandInvariant == CommandSpec => []CommandInv
<1>1. CommandInit => CommandInv
  <2> SUFFICES ASSUME CommandInit PROVE CommandInv
    OBVIOUS
  <2>1. Idle \in AttemptRow /\ Idle.at = "idle" /\ Waiting \in Replies
    BY DEF Idle, AttemptRow, Waiting, Told, Replies
  <2>2. "idle" \notin InTransaction /\ "idle" \notin Holding
    BY DEF InTransaction, Holding
  <2>3. CommandTypeOK
    BY <2>1, CommandAssumption DEF CommandInit, CommandTypeOK, AttemptRow
  <2>4. EveryEffectIsRecorded
    BY DEF CommandInit, EveryEffectIsRecorded
  <2>5. QED
    BY <2>1, <2>2, <2>3, <2>4 DEF CommandInit, CommandInv, AttemptInv, Excludes
<1>2. CommandInv /\ [CommandNext]_commandVars => CommandInv'
  BY StepKeepsInv
<1>3. QED
  BY <1>1, <1>2, PTL DEF CommandSpec

\* Every change of the document has its row, and every row its change.
THEOREM EffectsAreRecorded == CommandSpec => []EveryEffectIsRecorded
<1>1. CommandInv => EveryEffectIsRecorded
  BY DEF CommandInv
<1>2. QED
  BY CommandInvariant, <1>1, PTL

(***************************************************************************)
(* The wrapper implements CommandContract: a request takes effect at most  *)
(* once, on the version it expects, and what its caller is told is true.   *)
(* A commit is where it takes effect, an answer that arrives where its     *)
(* caller learns.                                                          *)
(***************************************************************************)
THEOREM CommandsKeepContract == CommandSpec => KeepsContract
<1>1. CommandInit => Contract!ContractInit
  BY DEF CommandInit, Contract!ContractInit, Waiting, Told, Contract!Waiting, Contract!Told
<1>2. ASSUME CommandInv, [CommandNext]_commandVars
      PROVE  [Contract!ContractNext]_<<history, outcome>>
  <2>1. ASSUME NEW a \in Attempts, Commit(a) PROVE Contract!TakeEffect(RequestOf[a])
    <3>1. /\ version = Len(history) /\ version = Expected[RequestOf[a]]
          /\ execution[KeyOf[RequestOf[a]]] = NoExecution
          /\ history' = Append(history, RequestOf[a]) /\ UNCHANGED outcome
      BY <1>2, <2>1
         DEF Commit, CommandInv, AttemptInv, EveryEffectIsRecorded, Executed, KeyOfAttempt, Holding
    <3>2. ASSUME NEW n \in DOMAIN history, KeyOf[history[n]] = KeyOf[RequestOf[a]] PROVE FALSE
      <4>1. execution[KeyOf[history[n]]] =
              [hash |-> HashOf[history[n]], status |-> "completed", result |-> n]
        BY <1>2 DEF CommandInv, EveryEffectIsRecorded
      <4>2. execution[KeyOf[history[n]]].status = "completed"
        BY <4>1
      <4>3. NoExecution.status = "none"
        BY DEF NoExecution
      <4>4. QED
        BY <3>1, <3>2, <4>2, <4>3
    <3>3. QED
      BY <3>1, <3>2 DEF Contract!TakeEffect, Contract!ExecutedAs
  <2>2. ASSUME NEW a \in Attempts, Respond(a)
        PROVE  [Contract!ContractNext]_<<history, outcome>>
    <3> DEFINE q == RequestOf[a]
    <3>1. PICK reply : reply = attempt[a].reply
      OBVIOUS
    <3>2. /\ UNCHANGED history /\ reply.answer # "waiting" /\ Truth(q, reply)
          /\ reply \in Replies /\ q \in Requests
      BY <1>2, <2>2, <3>1, Rows DEF Respond, CommandInv, AttemptInv, CommandTypeOK
    <3>3. CASE outcome[q] # Waiting
      BY <2>2, <3>2, <3>3 DEF Respond
    <3>4. CASE outcome[q] = Waiting
      <4>1. outcome' = [outcome EXCEPT ![q] = reply] /\ outcome[q] = Contract!Waiting
        BY <2>2, <3>1, <3>4 DEF Respond, Waiting, Told, Contract!Waiting, Contract!Told
      <4>2. reply.answer \in {"done", "stale", "reused"} \/ reply = Contract!Told("conflict")
        BY <3>2 DEF Replies, Told, Truth, Contract!Told
      <4>3. CASE reply.answer = "done"
        <5>1. reply.version \in DOMAIN history /\ reply = Contract!Done(reply.version)
              /\ Contract!SameRequest(history[reply.version], q)
          BY <3>2, <4>3 DEF Truth, Done, Contract!Done
        <5>2. reply.version \in Contract!ExecutedAs(q)
          BY <5>1 DEF Contract!ExecutedAs, Contract!SameRequest
        <5>3. Contract!LearnDone(q)
          BY <4>1, <5>1, <5>2 DEF Contract!LearnDone
        <5>4. QED
          BY <3>2, <4>1, <5>3 DEF Contract!ContractNext
      <4>4. CASE reply.answer = "stale"
        <5>1. /\ reply = Contract!Told("stale") /\ Expected[q] # Len(history)
              /\ \A n \in DOMAIN history : ~Contract!SameRequest(history[n], q)
          <6>1. /\ reply = Told("stale") /\ Expected[q] < version
                /\ \A n \in DOMAIN history : ~Contract!SameRequest(history[n], q)
            BY <3>2, <4>4 DEF Truth
          <6>2. Expected[q] \in Nat /\ version = Len(history) /\ version \in Nat
            BY <1>2, <3>2, Rows DEF CommandInv, EveryEffectIsRecorded
          <6>3. QED
            BY <6>1, <6>2 DEF Told, Contract!Told
        <5>2. Contract!LearnStale(q)
          BY <4>1, <5>1 DEF Contract!LearnStale, Contract!ExecutedAs
        <5>3. QED
          BY <3>2, <4>1, <5>2 DEF Contract!ContractNext
      <4>5. CASE reply.answer = "reused"
        <5>1. /\ reply = Contract!Told("reused")
              /\ \E n \in DOMAIN history :
                   KeyOf[history[n]] = KeyOf[q] /\ HashOf[history[n]] # HashOf[q]
          BY <3>2, <4>5 DEF Truth, Told, Contract!Told
        <5>2. Contract!LearnReused(q)
          BY <4>1, <5>1 DEF Contract!LearnReused, Contract!ExecutedAs, Contract!SameRequest
        <5>3. QED
          BY <3>2, <4>1, <5>2 DEF Contract!ContractNext
      <4>6. CASE reply = Contract!Told("conflict")
        <5>1. Contract!LearnConflict(q)
          BY <4>1, <4>6 DEF Contract!LearnConflict
        <5>2. QED
          BY <3>2, <4>1, <5>1 DEF Contract!ContractNext
      <4>7. QED
        BY <4>2, <4>3, <4>4, <4>5, <4>6
    <3>5. QED
      BY <3>3, <3>4
  <2>3. ASSUME NEW a \in Attempts, Commit(a) PROVE Contract!ContractNext
    <3>1. RequestOf[a] \in Requests
      BY <1>2, Rows DEF CommandInv
    <3>2. QED
      BY <2>1, <2>3, <3>1 DEF Contract!ContractNext
  <2>4. CASE \E a \in Attempts : Send(a) \/ LookUp(a) \/ Open(a) \/ Create(a) \/ LookUpDuplicate(a)
                                 \/ Work(a) \/ GiveUp(a) \/ LoseAnswer(a)
    BY <2>4 DEF Send, LookUp, Open, Create, LookUpDuplicate, Work, GiveUp, LoseAnswer
  <2>5. CASE Crash
    BY <2>5 DEF Crash
  <2>6. CASE UNCHANGED commandVars
    BY <2>6 DEF commandVars
  <2>7. QED
    BY <1>2, <2>2, <2>3, <2>4, <2>5, <2>6 DEF CommandNext, Serve
<1>3. QED
  BY CommandInvariant, <1>1, <1>2, PTL DEF CommandSpec, KeepsContract, Contract!ContractSpec
=============================================================================
