-------------------------- MODULE StatusLogWriter --------------------------
(***************************************************************************)
(* The batched, coalescing writer of device_status_log                     *)
(* (server/lib/status-log-writer.js): transitions are buffered in memory,  *)
(* the last one per device, and a timer writes the buffer in a transaction.*)
(*                                                                         *)
(* The timer does not wait for the transaction it started, so flushes may  *)
(* overlap.  The rows of a device are kept in the order of their ids; a    *)
(* row belongs to the flush that inserted it until its transaction commits.*)
(***************************************************************************)
EXTENDS Naturals, Sequences, SequencesExt, FiniteSets

CONSTANTS
    Devices, Statuses,
    Flushes,        \* flushes that may run at the same time
    NoStatus, NoDevice, NoFlush,
    MaxRemembered,  \* bound of lastWritten (5000 in the code)
    MaxRows,        \* bound: rows of a device that are in the table at a time
    MaxFaults,      \* bound: transactions that fail
    MaxRestarts     \* bound: restarts of the process

ASSUME WriterAssumption ==
    /\ NoStatus \notin Statuses /\ NoDevice \notin Devices /\ NoFlush \notin Flushes
    /\ MaxRemembered \in Nat /\ MaxRows \in Nat \ {0}
    /\ MaxFaults \in Nat /\ MaxRestarts \in Nat

VARIABLES
    pending,      \* the buffer: the latest status per device
    lastWritten,  \* the last status inserted per device
    batch,        \* what each running flush has still to insert
    writing,      \* the device whose INSERT a flush awaits
    running,      \* flushes inside their transaction
    rows,         \* device_status_log, per device, oldest first
    recorded,     \* history: the last transition recorded since the start
    forgotten,    \* history: devices whose lastWritten was cut or lost
    disturbed,    \* history: a transaction failed, or two overlapped
    erased,       \* history: the newest status of a log that was pruned empty
    faults, restarts

history == <<recorded, forgotten, disturbed, erased>>
bounds  == <<faults, restarts>>
vars    == <<pending, lastWritten, batch, writing, running, rows, history, bounds>>

None   == [d \in Devices |-> NoStatus]
Row    == [status : Statuses, by : Flushes \cup {NoFlush}]

TypeOK ==
    /\ pending \in [Devices -> Statuses \cup {NoStatus}]
    /\ lastWritten \in [Devices -> Statuses \cup {NoStatus}]
    /\ batch \in [Flushes -> [Devices -> Statuses \cup {NoStatus}]]
    /\ writing \in [Flushes -> Devices \cup {NoDevice}]
    /\ running \subseteq Flushes
    /\ \A f \in Flushes \ running : batch[f] = None /\ writing[f] = NoDevice
    /\ \A d \in Devices : rows[d] \in Seq(Row) /\ Len(rows[d]) <= MaxRows
    /\ recorded \in [Devices -> Statuses \cup {NoStatus}]
    /\ erased \in [Devices -> Statuses \cup {NoStatus}]
    /\ forgotten \subseteq Devices /\ disturbed \in BOOLEAN

Init ==
    /\ pending = None /\ lastWritten = None /\ recorded = None /\ erased = None
    /\ batch = [f \in Flushes |-> None]
    /\ writing = [f \in Flushes |-> NoDevice]
    /\ running = {}
    /\ rows = [d \in Devices |-> <<>>]
    /\ forgotten = {} /\ disturbed = FALSE
    /\ faults = 0 /\ restarts = 0

\* A faulty Record that keeps the first transition of a window.
RecordFirst(d, status) ==
    /\ pending' = [pending EXCEPT ![d] = IF @ = NoStatus THEN status ELSE @]
    /\ recorded' = [recorded EXCEPT ![d] = status]
    /\ UNCHANGED <<lastWritten, batch, writing, running, rows, forgotten, disturbed, erased, bounds>>

\* A transition of d: only the latest one is remembered.
Record(d, status) ==
    /\ pending' = [pending EXCEPT ![d] = status]
    /\ recorded' = [recorded EXCEPT ![d] = status]
    /\ UNCHANGED <<lastWritten, batch, writing, running, rows, forgotten, disturbed, erased, bounds>>

\* The buffered transitions that differ from the last one inserted.
NetChanges == [d \in Devices |-> IF pending[d] = lastWritten[d] THEN NoStatus ELSE pending[d]]

\* The timer fires: the buffer becomes the batch of a transaction, if anything
\* in it is worth writing.
Flush(f) ==
    /\ f \notin running
    /\ pending # None
    /\ batch' = [batch EXCEPT ![f] = NetChanges]
    /\ pending' = None
    /\ running' = IF NetChanges = None THEN running ELSE running \cup {f}
    /\ disturbed' = (disturbed \/ running # {})
    /\ UNCHANGED <<lastWritten, writing, rows, recorded, forgotten, erased, bounds>>

InsertLands(f, d) ==
    /\ f \in running /\ writing[f] = NoDevice /\ batch[f][d] # NoStatus
    /\ Len(rows[d]) < MaxRows
    /\ writing' = [writing EXCEPT ![f] = d]
    /\ rows' = [rows EXCEPT ![d] = Append(@, [status |-> batch[f][d], by |-> f])]
    /\ erased' = [erased EXCEPT ![d] = NoStatus]
    /\ UNCHANGED <<pending, lastWritten, batch, running, recorded, forgotten, disturbed, bounds>>

\* Any number of the oldest rows may have passed the retention, the newest one
\* of a device included; a DELETE waits for a row that is not committed.
PastRetention(log) == {k \in 0 .. Len(log) : \A i \in 1 .. k : log[i].by = NoFlush}

\* The sweep deletes by age and by number; a device or a workspace that is
\* deleted takes all its rows along.
Prune(d) ==
    \E k \in PastRetention(rows[d]) \ {0} :
        /\ rows' = [rows EXCEPT ![d] = SubSeq(@, k + 1, Len(@))]
        /\ erased' = IF k = Len(rows[d])
                     THEN [erased EXCEPT ![d] = Last(rows[d]).status] ELSE erased
        /\ UNCHANGED <<pending, lastWritten, batch, writing, running, recorded, forgotten, disturbed, bounds>>

\* A faulty InsertReturns that forgets what it inserted.
InsertReturnsForgetting(f) ==
    LET d == writing[f]
    IN  /\ f \in running /\ d # NoDevice
        /\ batch' = [batch EXCEPT ![f][d] = NoStatus]
        /\ writing' = [writing EXCEPT ![f] = NoDevice]
        /\ UNCHANGED <<pending, lastWritten, rows, running, history, bounds>>

\* The handler resumes, remembers the status and prunes the device's old rows.
InsertReturns(f) ==
    LET d == writing[f]
    IN  /\ f \in running /\ d # NoDevice
        /\ lastWritten' = [lastWritten EXCEPT ![d] = batch[f][d]]
        /\ batch' = [batch EXCEPT ![f][d] = NoStatus]
        /\ writing' = [writing EXCEPT ![f] = NoDevice]
        /\ \E k \in PastRetention(rows[d]) :
              rows' = [rows EXCEPT ![d] = SubSeq(@, k + 1, Len(@))]
        /\ UNCHANGED <<pending, running, history, bounds>>

Remembered == {d \in Devices : lastWritten[d] # NoStatus}

\* The transaction commits; lastWritten is cut down to its bound.
Commit(f) ==
    /\ f \in running /\ writing[f] = NoDevice /\ batch[f] = None
    /\ running' = running \ {f}
    /\ rows' = [d \in Devices |->
                  [i \in DOMAIN rows[d] |->
                     IF rows[d][i].by = f THEN [rows[d][i] EXCEPT !.by = NoFlush] ELSE rows[d][i]]]
    /\ \E kept \in SUBSET Remembered :
          /\ IF Cardinality(Remembered) <= MaxRemembered
             THEN kept = Remembered ELSE Cardinality(kept) = MaxRemembered
          /\ lastWritten' = [d \in Devices |-> IF d \in kept THEN lastWritten[d] ELSE NoStatus]
          /\ forgotten' = forgotten \cup (Remembered \ kept)
    /\ UNCHANGED <<pending, batch, writing, recorded, disturbed, erased, bounds>>

\* The positions of a log that the flushes in F do not hold, and the k-th of them.
KeptRows(log, F) == {i \in DOMAIN log : log[i].by \notin F}
Nth(positions, k) == CHOOSE i \in positions : Cardinality({j \in positions : j <= i}) = k

\* A log without the rows of the flushes in F.
Undone(log, F) ==
    LET kept == KeptRows(log, F)
    IN  [k \in 1 .. Cardinality(kept) |-> log[Nth(kept, k)]]

RolledBack(F) == [d \in Devices |-> Undone(rows[d], F)]

Fault == faults < MaxFaults /\ faults' = faults + 1 /\ disturbed' = TRUE /\ UNCHANGED restarts

\* A faulty FlushFails that forgets neither its batch nor its INSERT.
FlushFailsHalfway(f) ==
    /\ f \in running
    /\ Fault
    /\ running' = running \ {f}
    /\ rows' = RolledBack({f})
    /\ UNCHANGED <<pending, lastWritten, batch, writing, recorded, forgotten, erased>>

\* A statement of the transaction fails: it is rolled back, the error dropped,
\* and neither the batch nor lastWritten is put back.
FlushFails(f) ==
    /\ f \in running
    /\ Fault
    /\ running' = running \ {f}
    /\ batch' = [batch EXCEPT ![f] = None]
    /\ writing' = [writing EXCEPT ![f] = NoDevice]
    /\ rows' = RolledBack({f})
    /\ UNCHANGED <<pending, lastWritten, recorded, forgotten, erased>>

\* The process restarts: its memory is gone and its transactions roll back.
Restart ==
    /\ restarts < MaxRestarts /\ restarts' = restarts + 1
    /\ pending' = None /\ lastWritten' = None /\ recorded' = None
    /\ batch' = [f \in Flushes |-> None]
    /\ writing' = [f \in Flushes |-> NoDevice]
    /\ running' = {}
    /\ rows' = RolledBack(Flushes)
    /\ forgotten' = Devices
    /\ UNCHANGED <<disturbed, erased, faults>>

Next ==
    \/ \E d \in Devices, status \in Statuses : Record(d, status)
    \/ \E f \in Flushes : \/ Flush(f) \/ InsertReturns(f) \/ Commit(f) \/ FlushFails(f)
                          \/ \E d \in Devices : InsertLands(f, d)
    \/ \E d \in Devices : Prune(d)
    \/ Restart

Spec == Init /\ [][Next]_vars

-----------------------------------------------------------------------------

\* The status of the last row a device got, which the prune may have taken.
LastRow(d) == IF rows[d] = <<>> THEN erased[d] ELSE Last(rows[d]).status

\* As long as no transaction fails and none overlaps the next, the last row a
\* device got is, whenever the writer is at rest, the last transition recorded for
\* it, even if lastWritten had forgotten the device.  Only the prune may have taken
\* that row since: the newest row is deleted by age like any other.
NetStateLogged ==
    ~disturbed /\ pending = None /\ running = {} =>
        \A d \in Devices : recorded[d] # NoStatus => LastRow(d) = recorded[d]

\* Coalescing: as long as lastWritten has not forgotten a device, one that ends a
\* flush window where the last one ended adds no row, so neighbours differ.
NeighboursDiffer ==
    ~disturbed => \A d \in Devices \ forgotten :
        \A i \in 1 .. Len(rows[d]) - 1 : rows[d][i].status # rows[d][i + 1].status

\* A transaction that failed, or that a restart cut off, leaves no row behind,
\* whatever other flush was writing the same device.
NoOrphanRows ==
    \A d \in Devices : \A i \in DOMAIN rows[d] : rows[d][i].by \in running \cup {NoFlush}

\* lastWritten is the "last status actually inserted": when the writer is at
\* rest, what it remembers of a device is what the newest row says.
RemembersRows ==
    pending = None /\ running = {} =>
        \A d \in Devices : lastWritten[d] # NoStatus =>
            rows[d] # <<>> /\ Last(rows[d]).status = lastWritten[d]

=============================================================================
