----------------------- MODULE StatusLogWriter_proofs -----------------------
(***************************************************************************)
(* Proofs, for any devices, statuses and number of overlapping flushes,     *)
(* that a transaction which did not commit leaves no row, that the log ends *)
(* in the last transition and that neighbouring rows differ.                *)
(*                                                                          *)
(* The last two hold only until transactions overlap or one fails.  Until   *)
(* then one flush runs at a time, and Agrees says where the last transition *)
(* of a device is: in the buffer, in that flush, or at the end of the log.  *)
(***************************************************************************)
EXTENDS StatusLogWriter, FiniteSetTheorems, SequenceTheorems, TLAPS

Typed ==
    /\ pending \in [Devices -> Statuses \cup {NoStatus}]
    /\ lastWritten \in [Devices -> Statuses \cup {NoStatus}]
    /\ batch \in [Flushes -> [Devices -> Statuses \cup {NoStatus}]]
    /\ writing \in [Flushes -> Devices \cup {NoDevice}]
    /\ running \subseteq Flushes
    /\ \A f \in Flushes \ running : batch[f] = None /\ writing[f] = NoDevice
    /\ \A f \in Flushes : writing[f] # NoDevice => batch[f][writing[f]] # NoStatus
    /\ rows \in [Devices -> Seq(Row)]
    /\ \A d \in Devices : Len(rows[d]) <= MaxRows
    /\ recorded \in [Devices -> Statuses \cup {NoStatus}]
    /\ erased \in [Devices -> Statuses \cup {NoStatus}]
    /\ forgotten \subseteq Devices /\ disturbed \in BOOLEAN

\* The newest row of a log has this status and was inserted by this flush.
EndsIn(log, status, f) == Len(log) > 0 /\ log[Len(log)].status = status /\ log[Len(log)].by = f

\* The last row d got, which the prune may have taken, has this status.
Ended(d, status) == IF Len(rows[d]) > 0 THEN rows[d][Len(rows[d])].status = status ELSE erased[d] = status

Coalesced(log) == \A i \in 1 .. Len(log) - 1 : log[i].status # log[i + 1].status

\* A flush still has to insert what lastWritten does not say, or has just inserted it.
BatchAgrees(d) ==
    \A f \in running : batch[f][d] # NoStatus =>
        IF writing[f] = d THEN EndsIn(rows[d], batch[f][d], f) ELSE batch[f][d] # lastWritten[d]

\* What is remembered of a device that is not being written is the last row it got.
MemoryAgrees(d) ==
    lastWritten[d] # NoStatus /\ (\A f \in running : writing[f] # d) => Ended(d, lastWritten[d])

\* The last transition is in the buffer, in a flush or at the end of the log.
NetAgrees(d) ==
    recorded[d] # NoStatus =>
        \/ pending[d] = recorded[d]
        \/ pending[d] = NoStatus /\ \E f \in running : batch[f][d] = recorded[d]
        \/ /\ pending[d] = NoStatus /\ Ended(d, recorded[d])
           /\ \A f \in running : batch[f][d] = NoStatus

RowsAgree(d) ==
    d \notin forgotten =>
        /\ Coalesced(rows[d])
        /\ lastWritten[d] = NoStatus /\ Len(rows[d]) > 0 => \E f \in running : writing[f] = d

Agrees(d) == BatchAgrees(d) /\ MemoryAgrees(d) /\ NetAgrees(d) /\ RowsAgree(d)

Calm == ~disturbed => /\ \A f, g \in running : f = g
                      /\ \A d \in Devices : Agrees(d)

IInv == Typed /\ NoOrphanRows /\ Calm

-----------------------------------------------------------------------------
(* Logs.                                                                   *)

LEMMA LogFacts ==
    ASSUME NEW log \in Seq(Row)
    PROVE  /\ Len(log) \in Nat /\ DOMAIN log = 1 .. Len(log)
           /\ \A i \in 1 .. Len(log) : log[i] \in Row
           /\ (log = <<>>) <=> (Len(log) = 0)
BY LenProperties, ElementOfSeq, EmptySeq

\* A row is appended.
LEMMA AppendFacts ==
    ASSUME NEW log \in Seq(Row), NEW row \in Row
    PROVE  LET new == Append(log, row)
           IN  /\ new \in Seq(Row) /\ Len(new) = Len(log) + 1
               /\ \A i \in 1 .. Len(log) : new[i] = log[i]
               /\ new[Len(log) + 1] = row
BY AppendProperties

\* The prune takes rows from the front.
LEMMA PruneFacts ==
    ASSUME NEW log \in Seq(Row), NEW k \in PastRetention(log)
    PROVE  LET new == SubSeq(log, k + 1, Len(log))
           IN  /\ k \in Nat /\ k <= Len(log) /\ \A i \in 1 .. k : log[i].by = NoFlush
               /\ new \in Seq(Row) /\ Len(new) = Len(log) - k
               /\ \A i \in 1 .. Len(log) - k : new[i] = log[k + i]
<1> DEFINE new == SubSeq(log, k + 1, Len(log))
<1>1. Len(log) \in Nat /\ \A i \in 1 .. Len(log) : log[i] \in Row
  BY LogFacts
<1>2. k \in Nat /\ k <= Len(log) /\ \A i \in 1 .. k : log[i].by = NoFlush
  BY <1>1 DEF PastRetention
<1>3. \A i \in k + 1 .. Len(log) : log[i] \in Row
  BY <1>1, <1>2
<1>4. /\ new \in Seq(Row)
      /\ Len(new) = IF k + 1 <= Len(log) THEN Len(log) - (k + 1) + 1 ELSE 0
      /\ \A i \in 1 .. Len(log) - (k + 1) + 1 : new[i] = log[(k + 1) + i - 1]
  BY <1>1, <1>2, <1>3, SubSeqProperties
<1> HIDE DEF new
<1>5. Len(new) = Len(log) - k
  BY <1>1, <1>2, <1>4
<1>6. ASSUME NEW i \in 1 .. Len(log) - k PROVE new[i] = log[k + i]
  <2>1. i \in 1 .. Len(log) - (k + 1) + 1 /\ (k + 1) + i - 1 = k + i
    BY <1>1, <1>2
  <2> QED
    BY <1>4, <2>1
<1> QED
  BY <1>2, <1>4, <1>5, <1>6 DEF new

\* Among finitely many positions there is a k-th one.
LEMMA NthExists ==
    ASSUME NEW n \in Nat, NEW P \in SUBSET (1 .. n), NEW k \in 1 .. Cardinality(P)
    PROVE  Nth(P, k) \in P
<1> DEFINE Upto(i) == {j \in P : j <= i}
           rank == [i \in P |-> Cardinality(Upto(i))]
<1>1. IsFiniteSet(P) /\ Cardinality(P) \in Nat
  <2>1. IsFiniteSet(1 .. n)
    BY FS_Interval
  <2>2. IsFiniteSet(P)
    BY <2>1, FS_Subset
  <2> QED
    BY <2>2, FS_CardinalityType
<1>2. ASSUME NEW i \in P
      PROVE  IsFiniteSet(Upto(i)) /\ rank[i] = Cardinality(Upto(i)) /\ rank[i] \in 1 .. Cardinality(P)
  <2>1. Upto(i) \in SUBSET P /\ i \in Upto(i)
    OBVIOUS
  <2>2. IsFiniteSet(Upto(i)) /\ Cardinality(Upto(i)) <= Cardinality(P)
    BY <1>1, <2>1, FS_Subset
  <2>3. Cardinality(Upto(i)) \in Nat /\ Cardinality(Upto(i)) # 0
    BY <2>1, <2>2, FS_CardinalityType, FS_EmptySet
  <2> QED
    BY <1>1, <2>2, <2>3
<1>3. ASSUME NEW i \in P, NEW j \in P, i < j
      PROVE  rank[i] # rank[j]
  <2>0. \A l \in P : l \in Int
    OBVIOUS
  <2>1. Upto(i) \in SUBSET Upto(j) /\ j \in Upto(j) /\ j \notin Upto(i)
    <3>1. i \in Int /\ j \in Int /\ i <= j /\ ~(j <= i) /\ j <= j
      BY <1>3, <2>0
    <3>2. ASSUME NEW l \in P, l <= i PROVE l <= j
      BY <2>0, <3>1, <3>2
    <3> QED
      BY <3>1, <3>2
  <2>2. Cardinality(Upto(i)) # Cardinality(Upto(j))
    BY <1>2, <2>1, FS_Subset
  <2> QED
    BY <2>2
<1>4. \A i, j \in P : rank[i] = rank[j] => i = j
  BY <1>3
<1>5. rank \in Injection(P, 1 .. Cardinality(P))
  BY <1>2, <1>4 DEF Injection, IsInjective
<1>6. IsFiniteSet(1 .. Cardinality(P)) /\ Cardinality(1 .. Cardinality(P)) = Cardinality(P)
  BY <1>1, FS_Interval
<1>7. rank \in Surjection(P, 1 .. Cardinality(P))
  BY <1>5, <1>6, FS_Injection
<1>8. \E i \in P : Cardinality(Upto(i)) = k
  BY <1>7 DEF Surjection
<1> QED
  BY <1>8 DEF Nth

\* A rollback leaves rows of the others only, and no more than there were.
LEMMA UndoneFacts ==
    ASSUME NEW log \in Seq(Row), NEW F
    PROVE  LET new == Undone(log, F)
           IN  /\ new \in Seq(Row) /\ Len(new) <= Len(log)
               /\ \A i \in DOMAIN new : \E j \in DOMAIN log : new[i] = log[j] /\ log[j].by \notin F
<1> DEFINE P == KeptRows(log, F)
           new == [k \in 1 .. Cardinality(P) |-> log[Nth(P, k)]]
<1>1. Len(log) \in Nat /\ DOMAIN log = 1 .. Len(log) /\ \A i \in 1 .. Len(log) : log[i] \in Row
  BY LogFacts
<1>2. P \in SUBSET (1 .. Len(log)) /\ \A i \in P : log[i].by \notin F
  BY <1>1 DEF KeptRows
<1>3. IsFiniteSet(1 .. Len(log)) /\ Cardinality(1 .. Len(log)) = Len(log)
  <2>1. Cardinality(1 .. Len(log)) = IF 1 > Len(log) THEN 0 ELSE Len(log) - 1 + 1
    BY <1>1, FS_Interval
  <2> QED
    BY <1>1, <2>1, FS_Interval
<1>4. Cardinality(P) \in Nat /\ Cardinality(P) <= Len(log)
  BY <1>2, <1>3, FS_Subset, FS_CardinalityType
<1> HIDE DEF P
<1>5. \A k \in 1 .. Cardinality(P) : Nth(P, k) \in P
  BY <1>1, <1>2, NthExists
<1>6. new \in Seq(Row) /\ Len(new) = Cardinality(P) /\ DOMAIN new = 1 .. Cardinality(P)
  <2>1. \A k \in 1 .. Cardinality(P) : log[Nth(P, k)] \in Row
    BY <1>1, <1>2, <1>5
  <2>2. new \in [1 .. Cardinality(P) -> Row]
    BY <2>1
  <2>3. new \in Seq(Row)
    BY <1>4, <2>2, SeqDef
  <2> QED
    BY <1>4, <2>2, <2>3, LenProperties
<1>7. \A i \in DOMAIN new : \E j \in DOMAIN log : new[i] = log[j] /\ log[j].by \notin F
  BY <1>1, <1>2, <1>5
<1>8. new = Undone(log, F)
  BY DEF Undone, P
<1> HIDE DEF new
<1> QED
  BY <1>4, <1>6, <1>7, <1>8

\* A commit changes no status.
LEMMA CommitFacts ==
    ASSUME NEW log \in Seq(Row), NEW f \in Flushes,
           NEW new, new = [i \in DOMAIN log |-> IF log[i].by = f THEN [log[i] EXCEPT !.by = NoFlush] ELSE log[i]]
    PROVE  /\ new \in Seq(Row) /\ Len(new) = Len(log) /\ DOMAIN new = DOMAIN log
           /\ \A i \in 1 .. Len(log) : /\ new[i].status = log[i].status
                                      /\ new[i].by = IF log[i].by = f THEN NoFlush ELSE log[i].by
<1>1. Len(log) \in Nat /\ DOMAIN log = 1 .. Len(log) /\ \A i \in 1 .. Len(log) : log[i] \in Row
  BY LogFacts
<1>2. ASSUME NEW i \in 1 .. Len(log)
      PROVE  /\ new[i] \in Row /\ new[i].status = log[i].status
             /\ new[i].by = IF log[i].by = f THEN NoFlush ELSE log[i].by
  BY <1>1 DEF Row
<1>3. new \in [1 .. Len(log) -> Row]
  BY <1>1, <1>2
<1>4. new \in Seq(Row)
  BY <1>1, <1>3, SeqDef
<1>5. Len(new) = Len(log) /\ DOMAIN new = DOMAIN log
  BY <1>1, <1>3, <1>4, LenProperties
<1> QED
  BY <1>2, <1>4, <1>5

-----------------------------------------------------------------------------
(* Types and orphans.                                                      *)

NoOrphan(d) == \A i \in DOMAIN rows[d] : rows[d][i].by \in running \cup {NoFlush}

LEMMA NoneIsTyped == None \in [Devices -> Statuses \cup {NoStatus}]
BY DEF None

\* The rows after a rollback of the flushes in F.
LEMMA RollbackKeeps ==
    ASSUME Typed, NoOrphanRows, NEW F, rows' = RolledBack(F), running' = running \ F
    PROVE  /\ rows' \in [Devices -> Seq(Row)] /\ \A d \in Devices : Len(rows'[d]) <= MaxRows
           /\ NoOrphanRows'
<1>1. ASSUME NEW d \in Devices
      PROVE  rows'[d] = Undone(rows[d], F)
  BY DEF RolledBack
<1>2. ASSUME NEW d \in Devices
      PROVE  rows'[d] \in Seq(Row) /\ Len(rows'[d]) <= MaxRows
  <2>1. rows[d] \in Seq(Row) /\ Len(rows[d]) <= MaxRows
    BY DEF Typed
  <2>2. rows'[d] \in Seq(Row) /\ Len(rows'[d]) <= Len(rows[d])
    BY <1>1, <2>1, UndoneFacts
  <2> QED
    BY <2>1, <2>2, LenProperties, WriterAssumption
<1>3. ASSUME NEW d \in Devices, NEW i \in DOMAIN rows'[d]
      PROVE  rows'[d][i].by \in running' \cup {NoFlush}
  <2>1. PICK j \in DOMAIN rows[d] : rows'[d][i] = rows[d][j] /\ rows[d][j].by \notin F
    BY <1>1, UndoneFacts DEF Typed
  <2>2. rows[d][j].by \in running \cup {NoFlush}
    BY DEF NoOrphanRows
  <2> QED
    BY <2>1, <2>2
<1>4. rows' \in [Devices -> Seq(Row)]
  BY <1>2 DEF RolledBack
<1> QED
  BY <1>2, <1>3, <1>4 DEF NoOrphanRows

-----------------------------------------------------------------------------
(* Steps.                                                                  *)

\* A step that does not concern a device leaves it in agreement.
LEMMA SameAgrees ==
    ASSUME NEW d \in Devices, Agrees(d), running' = running, forgotten' = forgotten,
           pending'[d] = pending[d], lastWritten'[d] = lastWritten[d],
           rows'[d] = rows[d], recorded'[d] = recorded[d], erased'[d] = erased[d],
           \A f \in running : batch'[f][d] = batch[f][d] /\ (writing'[f] = d <=> writing[f] = d)
    PROVE  Agrees(d)'
<1>1. BatchAgrees(d)'
  BY DEF Agrees, BatchAgrees, EndsIn
<1>2. MemoryAgrees(d)'
  BY DEF Agrees, MemoryAgrees, Ended
<1>3. NetAgrees(d)'
  BY DEF Agrees, NetAgrees, Ended
<1>4. RowsAgree(d)'
  BY DEF Agrees, RowsAgree, Coalesced
<1> QED
  BY <1>1, <1>2, <1>3, <1>4 DEF Agrees

LEMMA RecordKeeps ==
    ASSUME IInv, NEW d \in Devices, NEW status \in Statuses, Record(d, status)
    PROVE  IInv'
<1>1. /\ pending' = [pending EXCEPT ![d] = status] /\ recorded' = [recorded EXCEPT ![d] = status]
      /\ UNCHANGED <<lastWritten, batch, writing, running, rows, forgotten, disturbed, erased>>
  BY DEF Record
<1>2. Typed'
  BY <1>1 DEF IInv, Typed
<1>3. NoOrphanRows'
  BY <1>1 DEF IInv, NoOrphanRows
<1>4. ASSUME ~disturbed, NEW e \in Devices
      PROVE  Agrees(e)'
  <2>1. Agrees(e)
    BY <1>4 DEF IInv, Calm
  <2>2. CASE e # d
    BY <1>1, <2>1, <2>2, SameAgrees DEF IInv, Typed
  <2>3. CASE e = d
    <3>1. pending'[d] = recorded'[d]
      BY <1>1 DEF IInv, Typed
    <3>2. NetAgrees(d)'
      BY <3>1 DEF NetAgrees
    <3> QED
      BY <1>1, <2>1, <2>3, <3>2 DEF Agrees, BatchAgrees, MemoryAgrees, RowsAgree, EndsIn, Ended, Coalesced
  <2> QED
    BY <2>2, <2>3
<1>5. Calm'
  BY <1>1, <1>4 DEF IInv, Calm
<1> QED
  BY <1>2, <1>3, <1>5 DEF IInv

\* The first flush since the writer was at rest takes what the log does not say.
LEMMA FlushKeeps ==
    ASSUME IInv, NEW f \in Flushes, Flush(f)
    PROVE  IInv'
<1>1. /\ f \notin running /\ batch' = [batch EXCEPT ![f] = NetChanges] /\ pending' = None
      /\ running' = (IF NetChanges = None THEN running ELSE running \cup {f})
      /\ disturbed' = (disturbed \/ running # {})
      /\ UNCHANGED <<lastWritten, writing, rows, recorded, forgotten, erased>>
  BY DEF Flush
<1>2. NetChanges \in [Devices -> Statuses \cup {NoStatus}]
  BY DEF IInv, Typed, NetChanges
<1>3. Typed'
  <2>1. \A g \in Flushes \ running' : batch'[g] = None /\ writing'[g] = NoDevice
    BY <1>1 DEF IInv, Typed
  <2>2. \A g \in Flushes : writing'[g] # NoDevice => batch'[g][writing'[g]] # NoStatus
    BY <1>1 DEF IInv, Typed
  <2> QED
    BY <1>1, <1>2, <2>1, <2>2, NoneIsTyped DEF IInv, Typed
<1>4. NoOrphanRows'
  BY <1>1 DEF IInv, NoOrphanRows
<1>5. ASSUME ~disturbed'
      PROVE  /\ \A g, h \in running' : g = h
             /\ \A d \in Devices : Agrees(d)'
  <2>1. running = {} /\ ~disturbed
    BY <1>1, <1>5 DEF IInv, Typed
  <2>2. running' \subseteq {f} /\ (running' = {} => NetChanges = None) /\ writing[f] = NoDevice
    BY <1>1, <2>1 DEF IInv, Typed
  <2>3. ASSUME NEW d \in Devices
        PROVE  Agrees(d)'
    <3>1. Agrees(d)
      BY <2>1 DEF IInv, Calm
    <3>2. batch'[f][d] = (IF pending[d] = lastWritten[d] THEN NoStatus ELSE pending[d]) /\ pending'[d] = NoStatus
      BY <1>1 DEF IInv, Typed, NetChanges, None
    <3>3. writing'[f] # d
      BY <1>1, <2>2, WriterAssumption
    <3>4. BatchAgrees(d)'
      BY <1>1, <2>2, <3>2, <3>3 DEF BatchAgrees
    <3>5. MemoryAgrees(d)'
      BY <1>1, <2>1, <3>1 DEF Agrees, MemoryAgrees, Ended
    <3>6. RowsAgree(d)'
      BY <1>1, <2>1, <3>1 DEF Agrees, RowsAgree, Coalesced
    <3>7. NetAgrees(d)'
      <4>1. CASE pending[d] # NoStatus /\ pending[d] # lastWritten[d]
        <5>1. f \in running'
          <6>1. NetChanges[d] # NoStatus
            BY <4>1 DEF NetChanges
          <6>2. NetChanges # None
            BY <6>1 DEF None
          <6> QED
            BY <1>1, <6>2
        <5>2. recorded[d] # NoStatus => pending[d] = recorded[d]
          BY <2>1, <3>1, <4>1 DEF Agrees, NetAgrees
        <5> QED
          BY <1>1, <3>2, <4>1, <5>1, <5>2 DEF NetAgrees
      <4>2. CASE pending[d] # NoStatus /\ pending[d] = lastWritten[d]
        <5>1. Ended(d, lastWritten[d])
          BY <2>1, <3>1, <4>2 DEF Agrees, MemoryAgrees
        <5>2. recorded[d] # NoStatus => pending[d] = recorded[d]
          BY <2>1, <3>1, <4>2 DEF Agrees, NetAgrees
        <5>3. \A g \in running' : batch'[g][d] = NoStatus
          BY <2>2, <3>2, <4>2
        <5> QED
          BY <1>1, <3>2, <4>2, <5>1, <5>2, <5>3 DEF NetAgrees, Ended
      <4>3. CASE pending[d] = NoStatus
        <5>1. recorded[d] # NoStatus => Ended(d, recorded[d])
          BY <2>1, <3>1, <4>3 DEF Agrees, NetAgrees
        <5>2. \A g \in running' : batch'[g][d] = NoStatus
          BY <2>2, <3>2, <4>3
        <5> QED
          BY <1>1, <3>2, <5>1, <5>2 DEF NetAgrees, Ended
      <4> QED
        BY <4>1, <4>2, <4>3
    <3> QED
      BY <3>4, <3>5, <3>6, <3>7 DEF Agrees
  <2> QED
    BY <2>2, <2>3
<1>6. Calm'
  BY <1>5 DEF Calm
<1> QED
  BY <1>3, <1>4, <1>6 DEF IInv

\* What a flush inserts differs from the newest row, unless lastWritten forgot the device.
LEMMA InsertLandsKeeps ==
    ASSUME IInv, NEW f \in Flushes, NEW d \in Devices, InsertLands(f, d)
    PROVE  IInv'
<1> DEFINE row == [status |-> batch[f][d], by |-> f]
<1>1. /\ f \in running /\ writing[f] = NoDevice /\ batch[f][d] # NoStatus /\ Len(rows[d]) < MaxRows
      /\ writing' = [writing EXCEPT ![f] = d] /\ rows' = [rows EXCEPT ![d] = Append(@, row)]
      /\ erased' = [erased EXCEPT ![d] = NoStatus]
      /\ UNCHANGED <<pending, lastWritten, batch, running, recorded, forgotten, disturbed>>
  BY DEF InsertLands, history
<1>2. row \in Row /\ row.by = f /\ row.status = batch[f][d]
  BY <1>1 DEF IInv, Typed, Row
<1> HIDE DEF row
<1>3. rows[d] \in Seq(Row) /\ Len(rows[d]) \in Nat /\ DOMAIN rows[d] = 1 .. Len(rows[d])
  BY LogFacts DEF IInv, Typed
<1>4. rows'[d] = Append(rows[d], row) /\ \A e \in Devices : e # d => rows'[e] = rows[e] /\ erased'[e] = erased[e]
  BY <1>1 DEF IInv, Typed
<1>5. /\ rows'[d] \in Seq(Row) /\ Len(rows'[d]) = Len(rows[d]) + 1
      /\ \A i \in 1 .. Len(rows[d]) : rows'[d][i] = rows[d][i]
      /\ rows'[d][Len(rows[d]) + 1] = row
  BY <1>2, <1>3, <1>4, AppendFacts
<1>6. DOMAIN rows'[d] = 1 .. Len(rows[d]) + 1
  BY <1>5, LogFacts
<1>7. Typed'
  <2>1. rows' \in [Devices -> Seq(Row)]
    BY <1>1, <1>4, <1>5 DEF IInv, Typed
  <2>2. \A e \in Devices : Len(rows'[e]) <= MaxRows
    BY <1>1, <1>3, <1>4, <1>5, WriterAssumption DEF IInv, Typed
  <2>3. \A g \in Flushes : writing'[g] # NoDevice => batch'[g][writing'[g]] # NoStatus
    BY <1>1 DEF IInv, Typed
  <2> QED
    BY <1>1, <2>1, <2>2, <2>3 DEF IInv, Typed
<1>8. NoOrphanRows'
  <2> SUFFICES ASSUME NEW e \in Devices, NEW i \in DOMAIN rows'[e]
               PROVE  rows'[e][i].by \in running' \cup {NoFlush}
    BY DEF NoOrphanRows
  <2>1. CASE e # d
    BY <1>1, <1>4, <2>1 DEF IInv, NoOrphanRows
  <2>2. CASE e = d /\ i = Len(rows[d]) + 1
    BY <1>1, <1>2, <1>5, <2>2
  <2>3. CASE e = d /\ i # Len(rows[d]) + 1
    <3>1. i \in 1 .. Len(rows[d])
      BY <1>3, <1>6, <2>3
    <3> QED
      BY <1>1, <1>3, <1>5, <2>3, <3>1 DEF IInv, NoOrphanRows
  <2> QED
    BY <2>1, <2>2, <2>3
<1>9. ASSUME ~disturbed, NEW e \in Devices
      PROVE  Agrees(e)'
  <2>1. Agrees(e) /\ \A g \in running : g = f
    BY <1>1, <1>9 DEF IInv, Calm
  <2>2. CASE e # d
    <3>1. \A g \in running : writing'[g] = e <=> writing[g] = e
      BY <1>1, <2>1, <2>2, WriterAssumption DEF IInv, Typed
    <3> QED
      BY <1>1, <1>4, <2>1, <2>2, <3>1, SameAgrees
  <2>3. CASE e = d
    <3>1. writing'[f] = d /\ f \in running' /\ \A g \in running : writing[g] # d
      BY <1>1, <2>1, WriterAssumption DEF IInv, Typed
    <3>2. EndsIn(rows'[d], batch[f][d], f)
      BY <1>2, <1>3, <1>5 DEF EndsIn
    <3>3. BatchAgrees(d)'
      BY <1>1, <2>1, <3>1, <3>2 DEF BatchAgrees
    <3>4. MemoryAgrees(d)'
      BY <3>1 DEF MemoryAgrees
    <3>5. NetAgrees(d)'
      BY <1>1, <2>1, <2>3 DEF Agrees, NetAgrees
    <3>6. RowsAgree(d)'
      <4>1. SUFFICES ASSUME d \notin forgotten
                     PROVE  Coalesced(rows'[d])
        BY <1>1, <3>1 DEF RowsAgree
      <4>2. Coalesced(rows[d]) /\ (Len(rows[d]) > 0 => lastWritten[d] # NoStatus)
        BY <2>1, <2>3, <3>1, <4>1 DEF Agrees, RowsAgree
      <4>3. Len(rows[d]) > 0 => rows[d][Len(rows[d])].status # batch[f][d]
        BY <1>1, <2>1, <2>3, <3>1, <4>2 DEF Agrees, MemoryAgrees, BatchAgrees, Ended
      <4>4. ASSUME NEW i \in 1 .. Len(rows'[d]) - 1
            PROVE  rows'[d][i].status # rows'[d][i + 1].status
        <5>1. i \in 1 .. Len(rows[d]) /\ rows'[d][i] = rows[d][i]
          BY <1>3, <1>5
        <5>2. CASE i = Len(rows[d])
          BY <1>2, <1>3, <1>5, <4>3, <5>1, <5>2
        <5>3. CASE i # Len(rows[d])
          <6>1. i \in 1 .. Len(rows[d]) - 1 /\ i + 1 \in 1 .. Len(rows[d])
            BY <1>3, <5>1, <5>3
          <6> QED
            BY <1>5, <4>2, <5>1, <6>1 DEF Coalesced
        <5> QED
          BY <5>2, <5>3
      <4> QED
        BY <4>4 DEF Coalesced
    <3> QED
      BY <2>3, <3>3, <3>4, <3>5, <3>6 DEF Agrees
  <2> QED
    BY <2>2, <2>3
<1>10. Calm'
  BY <1>1, <1>9 DEF IInv, Calm
<1> QED
  BY <1>7, <1>8, <1>10 DEF IInv

\* The prune leaves the newest row, which is the one that was inserted and not committed.
LEMMA InsertReturnsKeeps ==
    ASSUME IInv, NEW f \in Flushes, InsertReturns(f)
    PROVE  IInv'
<1>0. PICK d \in Devices : d = writing[f]
  BY DEF InsertReturns, IInv, Typed
<1>1. /\ f \in running /\ d # NoDevice
      /\ lastWritten' = [lastWritten EXCEPT ![d] = batch[f][d]]
      /\ batch' = [batch EXCEPT ![f][d] = NoStatus] /\ writing' = [writing EXCEPT ![f] = NoDevice]
      /\ UNCHANGED <<pending, running, recorded, forgotten, disturbed, erased>>
  BY <1>0, WriterAssumption DEF InsertReturns, history
<1>2. d \in Devices /\ batch[f][d] # NoStatus /\ batch[f][d] \in Statuses
  BY <1>0, <1>1 DEF IInv, Typed
<1>3. PICK k \in PastRetention(rows[d]) : rows' = [rows EXCEPT ![d] = SubSeq(@, k + 1, Len(@))]
  BY <1>0 DEF InsertReturns
<1>4. rows[d] \in Seq(Row) /\ Len(rows[d]) \in Nat /\ DOMAIN rows[d] = 1 .. Len(rows[d])
  BY <1>2, LogFacts DEF IInv, Typed
<1>5. rows'[d] = SubSeq(rows[d], k + 1, Len(rows[d])) /\ \A e \in Devices : e # d => rows'[e] = rows[e]
  BY <1>2, <1>3 DEF IInv, Typed
<1>6. /\ k \in Nat /\ k <= Len(rows[d]) /\ \A i \in 1 .. k : rows[d][i].by = NoFlush
      /\ rows'[d] \in Seq(Row) /\ Len(rows'[d]) = Len(rows[d]) - k
      /\ \A i \in 1 .. Len(rows[d]) - k : rows'[d][i] = rows[d][k + i]
  BY <1>4, <1>5, PruneFacts
<1>7. DOMAIN rows'[d] = 1 .. Len(rows[d]) - k
  BY <1>6, LogFacts
<1>8. /\ batch'[f][d] = NoStatus /\ \A e \in Devices : e # d => batch'[f][e] = batch[f][e]
      /\ \A g \in Flushes : g # f => batch'[g] = batch[g]
      /\ batch' \in [Flushes -> [Devices -> Statuses \cup {NoStatus}]]
  BY <1>1, <1>2 DEF IInv, Typed
<1>9. Typed'
  <2>1. rows' \in [Devices -> Seq(Row)]
    BY <1>3, <1>5, <1>6 DEF IInv, Typed
  <2>2. \A e \in Devices : Len(rows'[e]) <= MaxRows
    <3>1. Len(rows[d]) <= MaxRows
      BY <1>2 DEF IInv, Typed
    <3>2. Len(rows'[d]) <= MaxRows
      BY <1>4, <1>6, <3>1, WriterAssumption
    <3> QED
      BY <1>5, <3>2 DEF IInv, Typed
  <2>3. \A g \in Flushes : writing'[g] # NoDevice => batch'[g][writing'[g]] # NoStatus
    BY <1>1, <1>8 DEF IInv, Typed
  <2>4. \A g \in Flushes \ running' : batch'[g] = None /\ writing'[g] = NoDevice
    BY <1>1, <1>8 DEF IInv, Typed
  <2>5. lastWritten' \in [Devices -> Statuses \cup {NoStatus}]
    BY <1>1, <1>2 DEF IInv, Typed
  <2> QED
    BY <1>1, <1>8, <2>1, <2>2, <2>3, <2>4, <2>5 DEF IInv, Typed
<1>10. NoOrphanRows'
  <2> SUFFICES ASSUME NEW e \in Devices, NEW i \in DOMAIN rows'[e]
               PROVE  rows'[e][i].by \in running' \cup {NoFlush}
    BY DEF NoOrphanRows
  <2>1. CASE e # d
    BY <1>1, <1>5, <2>1 DEF IInv, NoOrphanRows
  <2>2. CASE e = d
    <3>0. i \in 1 .. Len(rows[d]) - k
      BY <1>7, <2>2
    <3>1. k + i \in 1 .. Len(rows[d]) /\ rows'[d][i] = rows[d][k + i]
      BY <1>4, <1>6, <3>0
    <3> QED
      BY <1>1, <1>2, <1>4, <2>2, <3>1 DEF IInv, NoOrphanRows
  <2> QED
    BY <2>1, <2>2
<1>11. ASSUME ~disturbed, NEW e \in Devices
       PROVE  Agrees(e)'
  <2>1. Agrees(e) /\ \A g \in running : g = f
    BY <1>1, <1>11 DEF IInv, Calm
  <2>2. CASE e # d
    <3>1. \A g \in running : batch'[g][e] = batch[g][e] /\ (writing'[g] = e <=> writing[g] = e)
      BY <1>0, <1>1, <1>8, <2>1, <2>2, WriterAssumption DEF IInv, Typed
    <3>2. lastWritten'[e] = lastWritten[e] /\ rows'[e] = rows[e]
      BY <1>1, <1>5, <2>2 DEF IInv, Typed
    <3> QED
      BY <1>1, <2>1, <3>1, <3>2, SameAgrees
  <2>3. CASE e = d
    <3>1. EndsIn(rows[d], batch[f][d], f) /\ f # NoFlush
      BY <1>0, <1>1, <1>2, <2>1, <2>3, WriterAssumption DEF Agrees, BatchAgrees
    <3>. PICK s \in Statuses : s = batch[f][d]
      BY <1>2
    <3>2. Len(rows'[d]) > 0 /\ Ended(d, s)' /\ lastWritten'[d] = s
      <4>1. Len(rows'[d]) > 0 /\ Len(rows'[d]) \in 1 .. Len(rows[d]) - k /\ k + Len(rows'[d]) = Len(rows[d])
        <5>1. k # Len(rows[d])
          BY <1>4, <1>6, <3>1 DEF EndsIn
        <5> QED
          BY <1>4, <1>6, <5>1
      <4>2. rows'[d][Len(rows'[d])] = rows[d][Len(rows[d])]
        BY <1>6, <4>1
      <4>3. lastWritten'[d] = batch[f][d]
        BY <1>1, <1>2 DEF IInv, Typed
      <4> QED
        BY <1>1, <3>1, <4>1, <4>2, <4>3 DEF EndsIn, Ended
    <3>3. \A g \in running' : batch'[g][d] = NoStatus
      BY <1>1, <1>8, <2>1
    <3>4. BatchAgrees(d)' /\ MemoryAgrees(d)'
      BY <3>2, <3>3 DEF BatchAgrees, MemoryAgrees
    <3>5. NetAgrees(d)'
      <4>1. CASE recorded[d] = NoStatus \/ pending[d] = recorded[d]
        BY <1>1, <4>1 DEF NetAgrees
      <4>2. CASE recorded[d] # NoStatus /\ pending[d] # recorded[d]
        <5>1. pending[d] = NoStatus /\ batch[f][d] = recorded[d]
          BY <1>1, <1>2, <2>1, <2>3, <4>2 DEF Agrees, NetAgrees
        <5> QED
          BY <1>1, <3>2, <3>3, <5>1 DEF NetAgrees, Ended
      <4> QED
        BY <4>1, <4>2
    <3>6. RowsAgree(d)'
      <4>1. SUFFICES ASSUME d \notin forgotten
                     PROVE  Coalesced(rows'[d])
        BY <1>1, <1>2, <3>2 DEF RowsAgree
      <4>2. Coalesced(rows[d])
        BY <2>1, <2>3, <4>1 DEF Agrees, RowsAgree
      <4>3. ASSUME NEW i \in 1 .. Len(rows'[d]) - 1
            PROVE  rows'[d][i].status # rows'[d][i + 1].status
        <5>1. /\ i \in 1 .. Len(rows[d]) - k /\ i + 1 \in 1 .. Len(rows[d]) - k
              /\ k + i \in 1 .. Len(rows[d]) - 1 /\ k + (i + 1) = (k + i) + 1
          BY <1>4, <1>6
        <5>2. rows'[d][i] = rows[d][k + i] /\ rows'[d][i + 1] = rows[d][(k + i) + 1]
          BY <1>6, <5>1
        <5> QED
          BY <4>2, <5>1, <5>2 DEF Coalesced
      <4> QED
        BY <4>3 DEF Coalesced
    <3> QED
      BY <2>3, <3>4, <3>5, <3>6 DEF Agrees
  <2> QED
    BY <2>2, <2>3
<1>12. Calm'
  BY <1>1, <1>11 DEF IInv, Calm
<1> QED
  BY <1>9, <1>10, <1>12 DEF IInv

\* What the prune takes of a log is committed; if it takes everything, the newest status
\* is remembered as erased.
LEMMA PruneKeeps ==
    ASSUME IInv, NEW d \in Devices, Prune(d)
    PROVE  IInv'
<1>1. PICK k \in PastRetention(rows[d]) \ {0} :
         /\ rows' = [rows EXCEPT ![d] = SubSeq(@, k + 1, Len(@))]
         /\ erased' = IF k = Len(rows[d]) THEN [erased EXCEPT ![d] = Last(rows[d]).status] ELSE erased
  BY DEF Prune
<1>2. UNCHANGED <<pending, lastWritten, batch, writing, running, recorded, forgotten, disturbed>>
  BY DEF Prune
<1>3. rows[d] \in Seq(Row) /\ Len(rows[d]) \in Nat /\ DOMAIN rows[d] = 1 .. Len(rows[d])
  BY LogFacts DEF IInv, Typed
<1>4. rows'[d] = SubSeq(rows[d], k + 1, Len(rows[d])) /\ \A e \in Devices : e # d => rows'[e] = rows[e]
  BY <1>1 DEF IInv, Typed
<1>5. /\ k \in Nat /\ k <= Len(rows[d]) /\ \A i \in 1 .. k : rows[d][i].by = NoFlush
      /\ rows'[d] \in Seq(Row) /\ Len(rows'[d]) = Len(rows[d]) - k
      /\ \A i \in 1 .. Len(rows[d]) - k : rows'[d][i] = rows[d][k + i]
  BY <1>1, <1>3, <1>4, PruneFacts
<1>6. DOMAIN rows'[d] = 1 .. Len(rows[d]) - k
  BY <1>5, LogFacts
<1>7. Len(rows[d]) > 0 /\ k # 0
  BY <1>1, <1>3, <1>5
<1>8. /\ \A e \in Devices : e # d => erased'[e] = erased[e]
      /\ k = Len(rows[d]) => erased'[d] = rows[d][Len(rows[d])].status
      /\ k # Len(rows[d]) => erased' = erased
      /\ erased' \in [Devices -> Statuses \cup {NoStatus}]
  <2>1. rows[d][Len(rows[d])].status \in Statuses
    <3>1. Len(rows[d]) \in 1 .. Len(rows[d])
      BY <1>3, <1>7
    <3> QED
      BY <1>3, <3>1, LogFacts DEF Row
  <2>2. Last(rows[d]).status = rows[d][Len(rows[d])].status
    BY DEF Last
  <2> QED
    BY <1>1, <2>1, <2>2 DEF IInv, Typed
<1>9. Typed'
  <2>1. rows' \in [Devices -> Seq(Row)]
    BY <1>1, <1>4, <1>5 DEF IInv, Typed
  <2>2. Len(rows[d]) <= MaxRows
    BY DEF IInv, Typed
  <2>3. \A e \in Devices : Len(rows'[e]) <= MaxRows
    <3>1. Len(rows'[d]) <= MaxRows
      BY <1>3, <1>5, <2>2, WriterAssumption
    <3> QED
      BY <1>4, <3>1 DEF IInv, Typed
  <2> QED
    BY <1>2, <1>8, <2>1, <2>3 DEF IInv, Typed
<1>10. NoOrphanRows'
  <2> SUFFICES ASSUME NEW e \in Devices, NEW i \in DOMAIN rows'[e]
               PROVE  rows'[e][i].by \in running' \cup {NoFlush}
    BY DEF NoOrphanRows
  <2>1. CASE e # d
    BY <1>2, <1>4, <2>1 DEF IInv, NoOrphanRows
  <2>2. CASE e = d
    <3>0. i \in 1 .. Len(rows[d]) - k
      BY <1>6, <2>2
    <3>1. k + i \in 1 .. Len(rows[d]) /\ rows'[d][i] = rows[d][k + i]
      BY <1>3, <1>5, <3>0
    <3> QED
      BY <1>2, <1>3, <2>2, <3>1 DEF IInv, NoOrphanRows
  <2> QED
    BY <2>1, <2>2
<1>11. ASSUME ~disturbed, NEW e \in Devices
       PROVE  Agrees(e)'
  <2>1. Agrees(e)
    BY <1>11 DEF IInv, Calm
  <2>2. CASE e # d
    BY <1>2, <1>4, <1>8, <2>1, <2>2, SameAgrees
  <2>3. CASE e = d
    <3>1. /\ k # Len(rows[d]) => Len(rows'[d]) > 0 /\ rows'[d][Len(rows'[d])] = rows[d][Len(rows[d])]
          /\ k = Len(rows[d]) => ~(Len(rows'[d]) > 0)
      <4>1. ASSUME k # Len(rows[d])
            PROVE  Len(rows'[d]) \in 1 .. Len(rows[d]) - k /\ k + Len(rows'[d]) = Len(rows[d])
        BY <1>3, <1>5, <4>1
      <4>2. k = Len(rows[d]) => Len(rows'[d]) = 0
        BY <1>5
      <4> QED
        BY <1>5, <4>1, <4>2
    <3>2. ASSUME NEW s, Ended(d, s)
          PROVE  Ended(d, s)'
      BY <1>7, <1>8, <3>1, <3>2 DEF Ended
    <3>3. BatchAgrees(d)'
      <4>1. SUFFICES ASSUME NEW f \in running, batch[f][d] # NoStatus, writing[f] = d
                     PROVE  EndsIn(rows'[d], batch[f][d], f)
        BY <1>2, <2>1, <2>3 DEF Agrees, BatchAgrees
      <4>2. EndsIn(rows[d], batch[f][d], f)
        BY <2>1, <2>3, <4>1 DEF Agrees, BatchAgrees
      <4>3. f # NoFlush
        BY WriterAssumption DEF IInv, Typed
      <4>4. k # Len(rows[d])
        BY <1>5, <1>7, <4>2, <4>3 DEF EndsIn
      <4> QED
        BY <3>1, <4>2, <4>4 DEF EndsIn
    <3>4. MemoryAgrees(d)'
      BY <1>2, <2>1, <2>3, <3>2 DEF Agrees, MemoryAgrees
    <3>5. NetAgrees(d)'
      BY <1>2, <2>1, <2>3, <3>2 DEF Agrees, NetAgrees
    <3>6. RowsAgree(d)'
      <4>1. SUFFICES ASSUME d \notin forgotten
                     PROVE  Coalesced(rows'[d]) /\ (lastWritten[d] = NoStatus => \E f \in running : writing[f] = d)
        BY <1>2 DEF RowsAgree
      <4>2. Coalesced(rows[d]) /\ (lastWritten[d] = NoStatus => \E f \in running : writing[f] = d)
        BY <1>7, <2>1, <2>3, <4>1 DEF Agrees, RowsAgree
      <4>3. ASSUME NEW i \in 1 .. Len(rows'[d]) - 1
            PROVE  rows'[d][i].status # rows'[d][i + 1].status
        <5>1. /\ i \in 1 .. Len(rows[d]) - k /\ i + 1 \in 1 .. Len(rows[d]) - k
              /\ k + i \in 1 .. Len(rows[d]) - 1 /\ k + (i + 1) = (k + i) + 1
          BY <1>3, <1>5
        <5>. DEFINE new == rows'[d]
        <5>2. \A j \in 1 .. Len(rows[d]) - k : new[j] = rows[d][k + j]
          BY <1>5
        <5>. HIDE DEF new
        <5>3. new[i] = rows[d][k + i] /\ new[i + 1] = rows[d][(k + i) + 1]
          BY <5>1, <5>2
        <5> QED
          BY <4>2, <5>1, <5>3 DEF Coalesced, new
      <4> QED
        BY <4>2, <4>3 DEF Coalesced
    <3> QED
      BY <2>3, <3>3, <3>4, <3>5, <3>6 DEF Agrees
  <2> QED
    BY <2>2, <2>3
<1>12. Calm'
  BY <1>2, <1>11 DEF IInv, Calm
<1> QED
  BY <1>9, <1>10, <1>12 DEF IInv

\* The cut of lastWritten forgets devices and changes nothing of the others.
LEMMA CommitKeeps ==
    ASSUME IInv, NEW f \in Flushes, Commit(f)
    PROVE  IInv'
<1>1. /\ f \in running /\ writing[f] = NoDevice /\ batch[f] = None /\ running' = running \ {f}
      /\ UNCHANGED <<pending, batch, writing, recorded, disturbed, erased>>
  BY DEF Commit
<1>2. \E kept \in SUBSET Remembered :
         /\ lastWritten' = [d \in Devices |-> IF d \in kept THEN lastWritten[d] ELSE NoStatus]
         /\ forgotten' = forgotten \cup (Remembered \ kept)
  BY DEF Commit
<1>3. /\ lastWritten' \in [Devices -> Statuses \cup {NoStatus}]
      /\ forgotten \subseteq forgotten' /\ forgotten' \subseteq Devices
      /\ \A d \in Devices : lastWritten'[d] \in {lastWritten[d], NoStatus}
      /\ \A d \in Devices \ forgotten' : lastWritten'[d] = lastWritten[d]
  BY <1>2 DEF IInv, Typed, Remembered
<1>4. ASSUME NEW d \in Devices
      PROVE  /\ rows'[d] \in Seq(Row) /\ Len(rows'[d]) = Len(rows[d]) /\ DOMAIN rows'[d] = DOMAIN rows[d]
             /\ Len(rows[d]) \in Nat /\ DOMAIN rows[d] = 1 .. Len(rows[d])
             /\ \A i \in 1 .. Len(rows[d]) :
                    /\ rows'[d][i].status = rows[d][i].status
                    /\ rows'[d][i].by = IF rows[d][i].by = f THEN NoFlush ELSE rows[d][i].by
  <2>1. rows[d] \in Seq(Row)
    BY DEF IInv, Typed
  <2>2. rows'[d] = [i \in DOMAIN rows[d] |->
                      IF rows[d][i].by = f THEN [rows[d][i] EXCEPT !.by = NoFlush] ELSE rows[d][i]]
    BY DEF Commit
  <2> QED
    BY <2>1, <2>2, CommitFacts, LogFacts
<1>5. Typed'
  <2>1. rows' \in [Devices -> Seq(Row)]
    BY <1>4 DEF Commit
  <2>2. \A d \in Devices : Len(rows'[d]) <= MaxRows
    BY <1>4 DEF IInv, Typed
  <2>3. \A g \in Flushes \ running' : batch'[g] = None /\ writing'[g] = NoDevice
    BY <1>1 DEF IInv, Typed
  <2> QED
    BY <1>1, <1>3, <2>1, <2>2, <2>3 DEF IInv, Typed
<1>6. NoOrphanRows'
  <2> SUFFICES ASSUME NEW d \in Devices, NEW i \in DOMAIN rows'[d]
               PROVE  rows'[d][i].by \in running' \cup {NoFlush}
    BY DEF NoOrphanRows
  <2>1. i \in DOMAIN rows[d] /\ rows'[d][i].by = IF rows[d][i].by = f THEN NoFlush ELSE rows[d][i].by
    BY <1>4
  <2>2. rows[d][i].by \in running \cup {NoFlush}
    BY <2>1 DEF IInv, NoOrphanRows
  <2> QED
    BY <1>1, <2>1, <2>2
<1>7. ASSUME ~disturbed
      PROVE  running' = {} /\ \A d \in Devices : Agrees(d)'
  <2>1. running' = {} /\ \A g \in running : g = f
    BY <1>1, <1>7 DEF IInv, Calm
  <2>2. ASSUME NEW d \in Devices
        PROVE  Agrees(d)'
    <3>1. Agrees(d)
      BY <1>7 DEF IInv, Calm
    <3>2. writing[f] # d /\ batch[f][d] = NoStatus
      BY <1>1, WriterAssumption DEF None
    <3>3. ASSUME NEW s
          PROVE  Ended(d, s)' <=> Ended(d, s)
      BY <1>1, <1>4 DEF Ended
    <3>4. BatchAgrees(d)'
      BY <2>1 DEF BatchAgrees
    <3>5. MemoryAgrees(d)'
      BY <1>3, <2>1, <3>1, <3>2, <3>3 DEF Agrees, MemoryAgrees
    <3>6. NetAgrees(d)'
      BY <1>1, <2>1, <3>1, <3>2, <3>3 DEF Agrees, NetAgrees
    <3>7. RowsAgree(d)'
      <4>1. SUFFICES ASSUME d \notin forgotten'
                     PROVE  Coalesced(rows'[d]) /\ (lastWritten'[d] = NoStatus => ~(Len(rows'[d]) > 0))
        BY DEF RowsAgree
      <4>2. Coalesced(rows[d]) /\ (lastWritten[d] = NoStatus => ~(Len(rows[d]) > 0))
        BY <1>3, <2>1, <3>1, <3>2, <4>1 DEF Agrees, RowsAgree
      <4>3. ASSUME NEW i \in 1 .. Len(rows[d]) - 1
            PROVE  rows'[d][i].status # rows'[d][i + 1].status
        <5>1. i \in 1 .. Len(rows[d]) /\ i + 1 \in 1 .. Len(rows[d])
          BY <1>4
        <5> QED
          BY <1>4, <4>2, <5>1 DEF Coalesced
      <4> QED
        BY <1>3, <1>4, <4>1, <4>2, <4>3 DEF Coalesced
    <3> QED
      BY <3>4, <3>5, <3>6, <3>7 DEF Agrees
  <2> QED
    BY <2>1, <2>2
<1>8. Calm'
  BY <1>1, <1>7 DEF IInv, Calm
<1> QED
  BY <1>5, <1>6, <1>8 DEF IInv

\* A failure is a disturbance; what it must not leave is a row.
LEMMA FailKeeps ==
    ASSUME IInv, NEW f \in Flushes, FlushFails(f)
    PROVE  IInv'
<1>1. /\ f \in running /\ running' = running \ {f} /\ batch' = [batch EXCEPT ![f] = None]
      /\ writing' = [writing EXCEPT ![f] = NoDevice] /\ rows' = RolledBack({f}) /\ disturbed' = TRUE
      /\ UNCHANGED <<pending, lastWritten, recorded, forgotten, erased>>
  BY DEF FlushFails, Fault
<1>2. /\ rows' \in [Devices -> Seq(Row)] /\ \A d \in Devices : Len(rows'[d]) <= MaxRows
      /\ NoOrphanRows'
  BY <1>1, RollbackKeeps DEF IInv
<1>3. Typed'
  <2>1. \A g \in Flushes \ running' : batch'[g] = None /\ writing'[g] = NoDevice
    BY <1>1 DEF IInv, Typed
  <2>2. \A g \in Flushes : writing'[g] # NoDevice => batch'[g][writing'[g]] # NoStatus
    BY <1>1 DEF IInv, Typed
  <2> QED
    BY <1>1, <1>2, <2>1, <2>2, NoneIsTyped DEF IInv, Typed
<1>4. Calm'
  BY <1>1 DEF Calm
<1> QED
  BY <1>2, <1>3, <1>4 DEF IInv

\* A restart forgets every device and every transition with it.
LEMMA RestartKeeps ==
    ASSUME IInv, Restart
    PROVE  IInv'
<1>1. /\ pending' = None /\ lastWritten' = None /\ recorded' = None
      /\ batch' = [f \in Flushes |-> None] /\ writing' = [f \in Flushes |-> NoDevice]
      /\ running' = {} /\ rows' = RolledBack(Flushes) /\ forgotten' = Devices /\ disturbed' = disturbed
      /\ erased' = erased
  BY DEF Restart
<1>2. running' = running \ Flushes
  BY <1>1 DEF IInv, Typed
<1>3. /\ rows' \in [Devices -> Seq(Row)] /\ \A d \in Devices : Len(rows'[d]) <= MaxRows
      /\ NoOrphanRows'
  BY <1>1, <1>2, RollbackKeeps DEF IInv
<1>4. Typed'
  BY <1>1, <1>3, NoneIsTyped DEF IInv, Typed
<1>5. ASSUME NEW d \in Devices
      PROVE  Agrees(d)'
  <2>1. lastWritten'[d] = NoStatus /\ recorded'[d] = NoStatus
    BY <1>1 DEF None
  <2> QED
    BY <1>1, <2>1 DEF Agrees, BatchAgrees, MemoryAgrees, NetAgrees, RowsAgree
<1>6. Calm'
  BY <1>1, <1>5 DEF Calm
<1> QED
  BY <1>3, <1>4, <1>6 DEF IInv

-----------------------------------------------------------------------------
(* The theorems.                                                           *)

LEMMA InitIInv == Init => IInv
<1> SUFFICES ASSUME Init PROVE IInv
  OBVIOUS
<1>1. <<>> \in Seq(Row) /\ Len(<<>>) = 0 /\ DOMAIN <<>> = 1 .. 0
  BY EmptySeq, LogFacts
<1>2. \A d \in Devices : rows[d] = <<>> /\ lastWritten[d] = NoStatus /\ recorded[d] = NoStatus
  BY DEF Init, None
<1>3. Typed
  <2>1. rows \in [Devices -> Seq(Row)] /\ \A d \in Devices : Len(rows[d]) <= MaxRows
    BY <1>1, <1>2, WriterAssumption DEF Init
  <2>2. /\ pending \in [Devices -> Statuses \cup {NoStatus}]
        /\ lastWritten \in [Devices -> Statuses \cup {NoStatus}]
        /\ recorded \in [Devices -> Statuses \cup {NoStatus}]
        /\ erased \in [Devices -> Statuses \cup {NoStatus}]
        /\ batch \in [Flushes -> [Devices -> Statuses \cup {NoStatus}]]
    BY NoneIsTyped DEF Init
  <2>3. /\ writing \in [Flushes -> Devices \cup {NoDevice}] /\ running \subseteq Flushes
        /\ \A f \in Flushes : batch[f] = None /\ writing[f] = NoDevice
        /\ forgotten \subseteq Devices /\ disturbed \in BOOLEAN
    BY DEF Init
  <2> QED
    BY <2>1, <2>2, <2>3 DEF Typed
<1>4. NoOrphanRows
  BY <1>1, <1>2 DEF NoOrphanRows
<1>5. ASSUME NEW d \in Devices
      PROVE  Agrees(d)
  <2>1. running = {} /\ Len(rows[d]) = 0
    BY <1>1, <1>2 DEF Init
  <2> QED
    BY <1>2, <2>1 DEF Agrees, BatchAgrees, MemoryAgrees, NetAgrees, RowsAgree, Coalesced
<1>6. Calm
  BY <1>5 DEF Calm, Init
<1> QED
  BY <1>3, <1>4, <1>6 DEF IInv

LEMMA NextKeeps == IInv /\ [Next]_vars => IInv'
<1> SUFFICES ASSUME IInv, [Next]_vars PROVE IInv'
  OBVIOUS
<1>1. CASE UNCHANGED vars
  BY <1>1 DEF vars, history, IInv, Typed, NoOrphanRows, Calm, Agrees, BatchAgrees, MemoryAgrees,
              NetAgrees, RowsAgree, EndsIn, Ended
<1>2. CASE Next
  BY <1>2, RecordKeeps, FlushKeeps, InsertLandsKeeps, InsertReturnsKeeps, CommitKeeps, FailKeeps,
     PruneKeeps, RestartKeeps DEF Next
<1> QED
  BY <1>1, <1>2

LEMMA Inductive == Spec => []IInv
BY InitIInv, NextKeeps, PTL DEF Spec

\* Every variable keeps its type, and a flush that is over holds nothing
\* (server/lib/status-log-writer.js).
THEOREM TypeCorrect == Spec => []TypeOK
<1>1. IInv => TypeOK
  BY DEF IInv, Typed, TypeOK
<1> QED
  BY Inductive, <1>1, PTL

\* A row of the log was committed or belongs to a transaction that is still open, whatever
\* failed, overlapped or was cut off by a restart (server/lib/status-log-writer.js,
\* server/db/database.js).
THEOREM NoRowIsOrphaned == Spec => []NoOrphanRows
<1>1. IInv => NoOrphanRows
  BY DEF IInv
<1> QED
  BY Inductive, <1>1, PTL

\* Until transactions overlap or one fails, a writer at rest has logged the last
\* transition of every device: the last row the device got says so, whether or not the prune
\* has taken that row since (server/lib/status-log-writer.js, server/db/database.js).
THEOREM LastTransitionIsLogged == Spec => []NetStateLogged
<1>1. IInv => NetStateLogged
  <2> SUFFICES ASSUME IInv, ~disturbed, pending = None, running = {},
                      NEW d \in Devices, recorded[d] # NoStatus
               PROVE  LastRow(d) = recorded[d]
    BY DEF NetStateLogged
  <2>1. pending[d] = NoStatus
    BY DEF None
  <2>2. Ended(d, recorded[d])
    BY <2>1 DEF IInv, Calm, Agrees, NetAgrees
  <2>3. rows[d] \in Seq(Row)
    BY DEF IInv, Typed
  <2>4. Len(rows[d]) \in Nat /\ (rows[d] = <<>> <=> Len(rows[d]) = 0)
    BY <2>3, LogFacts
  <2> QED
    BY <2>2, <2>4 DEF Ended, LastRow, Last
<1> QED
  BY Inductive, <1>1, PTL

\* Until then, the rows of a device that lastWritten never forgot change status from one to
\* the next (server/lib/status-log-writer.js).
THEOREM LogIsCoalesced == Spec => []NeighboursDiffer
<1>1. IInv => NeighboursDiffer
  BY DEF IInv, Calm, Agrees, RowsAgree, Coalesced, NeighboursDiffer
<1> QED
  BY Inductive, <1>1, PTL

=============================================================================
