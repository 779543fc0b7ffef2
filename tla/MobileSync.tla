----------------------------- MODULE MobileSync -----------------------------
(***************************************************************************)
(* A device keeps a copy of the records its user may read: an initial      *)
(* synchronization enumerates them page by page, and changes are replayed  *)
(* from the feed after a sequence number.                                  *)
(*                                                                         *)
(* A command that changes a record inserts its feed row in the same        *)
(* transaction.  The sequence of the row is taken at the insert and is     *)
(* not given back; the row is visible from the commit, and transactions    *)
(* that touch different records commit in any order.                       *)
(*                                                                         *)
(* Of a record only its version counts, of an authorization only whether   *)
(* it is the one of before.  A response may be lost on its way: the        *)
(* device then calls again with the cursor it has.                         *)
(***************************************************************************)
EXTENDS Naturals, FiniteSets, FiniteSetsExt

CONSTANTS
  EntityCount,   \* records are enumerated in the order of their keys, 1, 2, ...
  Sessions,
  Writers,       \* the transactions that may be under way
  PageLimit,     \* feed rows of a page
  MaxSequence, MaxAuthorization, MaxLost  \* bounds

Entities == 1..EntityCount

VARIABLES
  version,        \* committed version of a record
  feed,           \* committed feed rows
  nextSequence,   \* the sequence behind DomainChangeFeed.sequence
  writer,         \* the record and feed row a transaction has written
  authorization,  \* the fingerprint of the user's authorization now
  syncClient,     \* the SyncClient row
  session,        \* the SyncSnapshotSession rows
  device,         \* what the device holds
  lost            \* responses lost so far

serverVars == <<version, feed, nextSequence, writer>>
syncVars == <<serverVars, authorization, syncClient, session, device, lost>>

NoRow == [sequence |-> 0, entity |-> 0]
NoClient == [status |-> "none", fingerprint |-> 0, acknowledged |-> 0]
NoSession == [status |-> "none", next |-> 0, highWatermark |-> 0, fingerprint |-> 0]

\* A cursor names the sequence it goes on from and the authorization it was
\* issued under; that of a snapshot names the session.
NoCursor == [kind |-> "none", session |-> {}, lastSequence |-> 0, fingerprint |-> 0]

SyncInit ==
  /\ version = [e \in Entities |-> 1]
  /\ feed = {}
  /\ nextSequence = 1
  /\ writer = [w \in Writers |-> NoRow]
  /\ authorization = 1
  /\ syncClient = NoClient
  /\ session = [s \in Sessions |-> NoSession]
  /\ device = [cursor |-> NoCursor, copy |-> [e \in Entities |-> 0]]
  /\ lost = 0

-----------------------------------------------------------------------------
\* Business transactions

\* A transaction has the row of its record locked until it ends.
Write(w, e) ==
  /\ writer[w] = NoRow /\ \A v \in Writers : writer[v].entity # e
  /\ nextSequence <= MaxSequence
  /\ writer' = [writer EXCEPT ![w] = [sequence |-> nextSequence, entity |-> e]]
  /\ nextSequence' = nextSequence + 1
  /\ UNCHANGED <<version, feed, authorization, syncClient, session, device, lost>>

CommitWrite(w) ==
  /\ writer[w] # NoRow
  /\ version' = [version EXCEPT ![writer[w].entity] = @ + 1]
  /\ feed' = feed \cup {writer[w]}
  /\ writer' = [writer EXCEPT ![w] = NoRow]
  /\ UNCHANGED <<nextSequence, authorization, syncClient, session, device, lost>>

RollBackWrite(w) ==
  /\ writer[w] # NoRow
  /\ writer' = [writer EXCEPT ![w] = NoRow]
  /\ UNCHANGED <<version, feed, nextSequence, authorization, syncClient, session, device, lost>>

\* Roles, warehouses or modules change.
ChangeAuthorization ==
  /\ authorization < MaxAuthorization
  /\ authorization' = authorization + 1
  /\ UNCHANGED <<serverVars, syncClient, session, device, lost>>

-----------------------------------------------------------------------------
\* What the device receives

\* The response arrives, or is lost and the device is as it was.
Respond(copy, cursor) ==
  \/ device' = [cursor |-> cursor, copy |-> copy] /\ UNCHANGED lost
  \/ lost < MaxLost /\ lost' = lost + 1 /\ UNCHANGED device

\* The device takes over the projections of the records in a page.
Upserted(entities) ==
  [e \in Entities |-> IF e \in entities THEN version[e] ELSE device.copy[e]]

CurrentMax == Max({r.sequence : r \in feed} \cup {0})

Active == syncClient.status = "active"

Register ==
  /\ syncClient.status # "revoked"
  /\ syncClient' = [syncClient EXCEPT !.status = "active", !.fingerprint = authorization]
  /\ UNCHANGED <<serverVars, authorization, session, device, lost>>

\* A page of one record; the last one comes with the cursor for the changes.
ServePage(s, row) ==
  LET hasMore == row.next < EntityCount
  IN /\ session' = [session EXCEPT ![s] = [row EXCEPT
          !.next = @ + 1, !.status = IF hasMore THEN "active" ELSE "completed"]]
     /\ Respond(Upserted({row.next}),
          [kind |-> IF hasMore THEN "snapshot" ELSE "changes", session |-> IF hasMore THEN {s} ELSE {},
           lastSequence |-> row.highWatermark, fingerprint |-> authorization])

\* initial, without a cursor: a new session from the present high watermark.
StartSnapshot(s) ==
  /\ Active /\ session[s] = NoSession
  /\ syncClient' = [syncClient EXCEPT !.fingerprint = authorization]
  /\ ServePage(s, [status |-> "active", next |-> 1, highWatermark |-> CurrentMax,
                   fingerprint |-> authorization])
  /\ UNCHANGED <<serverVars, authorization>>

\* initial, with a cursor: where to go on is in the session, not in the cursor.
ContinueSnapshot(s) ==
  /\ Active /\ s \in device.cursor.session /\ session[s].status = "active"
  /\ syncClient' = [syncClient EXCEPT !.fingerprint = authorization]
  /\ IF session[s].fingerprint = authorization
       THEN ServePage(s, session[s])
       ELSE /\ session' = [session EXCEPT ![s].status = "invalidated"]
            /\ Respond(device.copy, NoCursor)
  /\ UNCHANGED <<serverVars, authorization>>

Invalidated ==
  [s \in Sessions |-> IF session[s].status = "active"
                      THEN [session[s] EXCEPT !.status = "invalidated"] ELSE session[s]]

SameAuthorization ==
  device.cursor.fingerprint = authorization /\ syncClient.fingerprint = authorization

\* The visible rows after a sequence, the oldest PageLimit of them.
After(sequence) == {r \in feed : r.sequence > sequence}
Page(sequence) ==
  {r \in After(sequence) : Cardinality({q \in After(sequence) : q.sequence < r.sequence}) < PageLimit}

Changes ==
  LET page == Page(device.cursor.lastSequence)
      through == Max({r.sequence : r \in page} \cup {device.cursor.lastSequence})
  IN /\ Active /\ device.cursor.kind = "changes"
     /\ device.cursor.lastSequence <= CurrentMax
     /\ IF SameAuthorization
          THEN /\ Respond(Upserted({r.entity : r \in page}), [device.cursor EXCEPT !.lastSequence = through])
               /\ UNCHANGED session
          ELSE /\ Respond(device.copy, NoCursor)
               /\ session' = Invalidated
     /\ UNCHANGED <<serverVars, authorization, syncClient>>

Acknowledge ==
  /\ Active /\ device.cursor.kind # "none" /\ SameAuthorization
  /\ device.cursor.lastSequence \in syncClient.acknowledged..CurrentMax
  /\ syncClient' = [syncClient EXCEPT !.acknowledged = device.cursor.lastSequence]
  /\ UNCHANGED <<serverVars, authorization, session, device, lost>>

\* The feed row of the access epoch concerns no record.
Revoke ==
  /\ Active /\ nextSequence <= MaxSequence
  /\ syncClient' = [syncClient EXCEPT !.status = "revoked"]
  /\ session' = Invalidated
  /\ feed' = feed \cup {[sequence |-> nextSequence, entity |-> 0]}
  /\ nextSequence' = nextSequence + 1
  /\ UNCHANGED <<version, writer, authorization, device, lost>>

SyncNext ==
  \/ \E w \in Writers : (\E e \in Entities : Write(w, e)) \/ CommitWrite(w) \/ RollBackWrite(w)
  \/ ChangeAuthorization
  \/ \E s \in Sessions : StartSnapshot(s) \/ ContinueSnapshot(s)
  \/ Register \/ Changes \/ Acknowledge \/ Revoke

SyncSpec == SyncInit /\ [][SyncNext]_syncVars

-----------------------------------------------------------------------------
(***************************************************************************)
(* "Concurrent writes may be visible in the current projection and are     *)
(* still replayed by the incremental feed"                                 *)
(* (docs/phase-5-2c1-mobile-sync-controls-plan.md): once the device has    *)
(* enumerated all records, each of them is shown as it is, or the feed     *)
(* still has a row of it after the cursor.  The code moves the cursor to   *)
(* the highest sequence it can see; a transaction that took a lower one    *)
(* and commits later is never replayed.                                    *)
(***************************************************************************)
ConcurrentWritesAreReplayed ==
  device.cursor.kind = "changes" =>
    \A e \in Entities :
      device.copy[e] = version[e] \/ \E r \in After(device.cursor.lastSequence) : r.entity = e
=============================================================================
