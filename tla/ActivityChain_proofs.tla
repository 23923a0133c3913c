----------------------- MODULE ActivityChain_proofs -----------------------
(***************************************************************************)
(* Proof, for any number of transactions, rows and faults, that the        *)
(* committed audit log is always one chain that its head row and its       *)
(* checkpoint describe, and of what the verifier may report.               *)
(*                                                                         *)
(* ChainIntact is not inductive: it speaks of what is committed, and the   *)
(* next commit is prepared in work[w].  The invariant says the same of the *)
(* tables as the transaction that holds the chain row would leave them,    *)
(* and that only one transaction holds it.                                 *)
(***************************************************************************)
EXTENDS ActivityChain, FiniteSetTheorems, TLAPS

\* The rows R with the chain row c are a chain that appends can continue.
Sound(R, c) ==
    /\ \A i \in R : i < nextId
    /\ c.anchor < nextId
    /\ Linked(R, c.anchor)
    /\ HeadIsTail(R, c)
    /\ Counted(R, c)
    /\ Cardinality(R) + c.pruned < nextId

\* What is committed.  During a backfill the chained rows are a prefix.
Committed ==
    /\ \A i \in rows : chain.anchor < i /\ i < nextId
    /\ chain.anchor < nextId
    /\ Cardinality(rows) + chain.pruned < nextId
    /\ \A i \in rows \cap chained, j \in rows \ chained : i < j
    /\ Linked(rows \cap chained, chain.anchor)
    /\ CheckpointAgrees(rows, chain)

\* A transaction that has changed something would leave a sound chain.
Prepared(w) ==
    /\ work[w].gone \subseteq rows
    /\ work[w].gone \cap recent = {}
    /\ work[w].added \subseteq chained
    /\ Sound(After(w), work[w].chain)

TransactionOK(w) ==
    /\ pc[w] = "idle" => work[w] = NoWork
    /\ pc[w] # "idle" => work[w].job \in Jobs
    /\ pc[w] \in {"waiting", "locked"} => work[w].gone = {} /\ work[w].added = {}
    /\ pc[w] = "locked" => work[w].chain = chain
    /\ pc[w] = "deleted" =>
         /\ work[w].job = "prune" /\ work[w].added = {}
         /\ work[w].chain.pruned > 0
         /\ Prepared(w)
    /\ pc[w] = "appended" =>
         /\ Prepared(w)
         /\ CheckpointAgrees(After(w), work[w].chain)
         /\ work[w].job = "append" =>
              /\ work[w].gone = {}
              /\ work[w].chain.anchor = chain.anchor
              /\ work[w].chain.pruned = chain.pruned

\* The row lock: one transaction at a time is between its UPDATE and its end.
Exclusive == \A v, w \in Writers : Holding(v) /\ Holding(w) => v = w

\* Nothing runs beside the backfill.
BootsAlone == mode = "booting" => vpc = "idle" /\ \A w \in Writers : pc[w] = "idle"

Transactions == Exclusive /\ BootsAlone /\ \A w \in Writers : TransactionOK(w)

\* How far the verifier has come, as long as no prune and as long as nothing
\* has committed beside it.
Walk ==
    /\ vpc = "idle" => failures = {} /\ during = {}
    /\ vpc \in {"walk", "count", "cross"} /\ "prune" \notin during =>
         seen.anchor = chain.anchor /\ seen.pruned = chain.pruned
    /\ vpc = "walk" /\ "prune" \notin during =>
         \/ cursor = 0 /\ expected = chain.anchor
         \/ cursor \in rows /\ expected = cursor
    /\ vpc \in {"walk", "count", "cross"} /\ during = {} =>
         seen = chain /\ failures = {}

IInv ==
    /\ TypeOK
    /\ Committed
    /\ ChainIntact
    /\ Transactions
    /\ Walk
    /\ QuietVerifyPasses
    /\ AppendsBreakNoLink

---------------------------------------------------------------------------

LEMMA FiniteRows ==
    ASSUME NEW S \in SUBSET Ids
    PROVE  IsFiniteSet(S) /\ Cardinality(S) \in Nat
<1>1. IsFiniteSet(Ids)
  BY FS_Interval, ChainAssumption DEF Ids
<1> QED
  BY <1>1, FS_Subset, FS_CardinalityType

LEMMA InitIInv == Init => IInv
<1> SUFFICES ASSUME Init PROVE IInv
  OBVIOUS
<1> USE ChainAssumption
<1>1. PICK n \in 0 .. Legacy : rows = 1 .. n /\ nextId = n + 1
  BY DEF Init
<1>2. TypeOK
  BY <1>1 DEF Init, TypeOK, Ids, Note, NoNote, ChainRow, Genesis, NoWork, Jobs
<1>3. Committed
  <2>1. Cardinality(rows) = n
    BY <1>1, FS_Interval
  <2> QED
    BY <1>1, <2>1 DEF Init, Committed, Linked, CheckpointAgrees, Genesis, Ids
<1> QED
  BY <1>2, <1>3 DEF Init, IInv, ChainIntact, Transactions, Exclusive, BootsAlone,
                     TransactionOK, Holding, Walk, QuietVerifyPasses, AppendsBreakNoLink

---------------------------------------------------------------------------
(* The backfill.                                                           *)

LEMMA BackfillRowKeeps == IInv /\ BackfillRow => IInv'
<1> SUFFICES ASSUME IInv, BackfillRow PROVE IInv'
  OBVIOUS
<1> USE ChainAssumption
<1>1. PICK i \in rows \ chained, t \in 0 .. MaxId :
        /\ Tail(t)
        /\ \A j \in rows \ chained : i <= j
        /\ prev' = [prev EXCEPT ![i] = t]
        /\ chained' = chained \cup {i}
  BY DEF BackfillRow
<1>2. /\ mode = "booting" /\ vpc = "idle" /\ \A w \in Writers : pc[w] = "idle"
      /\ UNCHANGED <<rows, recent, note, chain, nextId, mode, txVars, verifier, faults>>
  BY DEF BackfillRow, IInv, Transactions, BootsAlone
<1>3. TypeOK'
  BY <1>1, <1>2 DEF IInv, TypeOK, txVars, verifier
<1>4. Committed'
  <2>1. rows \subseteq Ids /\ chained \subseteq Ids /\ prev \in [Ids -> 0 .. MaxId] /\ chain \in ChainRow
    BY DEF IInv, TypeOK
  <2>2. Committed
    BY DEF IInv
  <2>3. Linked(rows \cap chained, chain.anchor)'
    BY <1>1, <1>2, <2>1, <2>2 DEF Committed, Linked, Tail, Newest, ChainRow, Ids
  <2> QED
    BY <1>1, <1>2, <2>1, <2>2, <2>3 DEF Committed, CheckpointAgrees, Ids
<1>5. Transactions' /\ Walk'
  BY <1>1, <1>2 DEF IInv, Transactions, Exclusive, BootsAlone, TransactionOK, Holding, Walk, txVars, verifier
<1>6. ChainIntact' /\ QuietVerifyPasses' /\ AppendsBreakNoLink'
  BY <1>2 DEF IInv, ChainIntact, QuietVerifyPasses, AppendsBreakNoLink, verifier
<1> QED
  BY <1>3, <1>4, <1>5, <1>6 DEF IInv

LEMMA BackfillEndsKeeps == IInv /\ BackfillEnds => IInv'
<1> SUFFICES ASSUME IInv, BackfillEnds PROVE IInv'
  OBVIOUS
<1> USE ChainAssumption
<1>1. PICK t \in 0 .. MaxId :
        /\ Tail(t)
        /\ chain' = [chain EXCEPT !.last = t,
                                  !.count = Cardinality(rows) + chain.pruned]
  BY DEF BackfillEnds
<1>2. /\ vpc = "idle" /\ \A w \in Writers : pc[w] = "idle"
      /\ rows \subseteq chained
      /\ mode' = "serving"
      /\ UNCHANGED <<rows, prev, chained, recent, note, nextId, txVars, verifier, faults>>
  BY DEF BackfillEnds, IInv, Transactions, BootsAlone
<1>3. /\ rows \subseteq Ids /\ chain \in ChainRow /\ nextId \in 1 .. MaxId + 1
      /\ Committed /\ Cardinality(rows) \in Nat
  BY FiniteRows DEF IInv, TypeOK
<1>4. /\ chain'.anchor = chain.anchor /\ chain'.pruned = chain.pruned
      /\ chain'.last = t /\ chain'.count = Cardinality(rows) + chain.pruned
      /\ chain' \in ChainRow
  <2>1. chain \in ChainRow /\ Cardinality(rows) + chain.pruned < nextId
    BY <1>3 DEF Committed
  <2>2. Cardinality(rows) + chain.pruned \in 0 .. MaxId
    BY <1>3, <2>1 DEF ChainRow
  <2> QED
    BY <1>1, <2>1, <2>2 DEF ChainRow
<1>5. TypeOK'
  BY <1>2, <1>4 DEF IInv, TypeOK, txVars, verifier
<1>6. Committed'
  BY <1>2, <1>3, <1>4 DEF Committed, Linked, CheckpointAgrees
<1>7. ChainIntact'
  <2>1. rows \cap chained = rows
    BY <1>2
  <2> QED
    BY <1>1, <1>2, <1>3, <1>4, <2>1 DEF ChainIntact, Committed, Linked, HeadIsTail, Counted, Tail, Newest, Ids, ChainRow
<1>8. Transactions' /\ Walk'
  BY <1>2 DEF IInv, Transactions, Exclusive, BootsAlone, TransactionOK, Holding, Walk, txVars, verifier
<1>9. QuietVerifyPasses' /\ AppendsBreakNoLink'
  BY <1>2 DEF IInv, QuietVerifyPasses, AppendsBreakNoLink, verifier
<1> QED
  BY <1>5, <1>6, <1>7, <1>8, <1>9 DEF IInv

---------------------------------------------------------------------------
(* Transactions.  Those that leave the tables alone disturb only Exclusive *)
(* and TransactionOK.                                                      *)

LEMMA TablesKept ==
    ASSUME IInv, UNCHANGED <<tables, mode, verifier>>,
           TypeOK', Transactions'
    PROVE  IInv'
<1>1. Committed' /\ ChainIntact'
  BY DEF IInv, Committed, ChainIntact, Linked, HeadIsTail, Counted, CheckpointAgrees, tables
<1>2. Walk' /\ QuietVerifyPasses' /\ AppendsBreakNoLink'
  BY DEF IInv, Walk, QuietVerifyPasses, AppendsBreakNoLink, tables, verifier
<1> QED
  BY <1>1, <1>2 DEF IInv

\* What a step of w leaves alone is as good as it was for the others.
LEMMA OthersKept ==
    ASSUME IInv, NEW w \in Writers, NEW v \in Writers \ {w},
           UNCHANGED tables, pc'[v] = pc[v], work'[v] = work[v]
    PROVE  TransactionOK(v)'
BY DEF IInv, Transactions, TransactionOK, Prepared, Sound, After, Linked, HeadIsTail,
       Counted, CheckpointAgrees, tables

LEMMA BeginKeeps ==
    ASSUME IInv, NEW w \in Writers, Begin(w)
    PROVE  IInv'
<1>1. TypeOK'
  BY DEF Begin, IInv, TypeOK, tables, verifier
<1>2. TransactionOK(w)'
  BY DEF Begin, IInv, TypeOK, Transactions, TransactionOK, NoWork
<1> QED
  BY <1>1, <1>2, OthersKept, TablesKept DEF Begin, IInv, TypeOK, Transactions, Exclusive, Holding, BootsAlone

LEMMA LockChainRowKeeps ==
    ASSUME IInv, NEW w \in Writers, LockChainRow(w)
    PROVE  IInv'
<1>1. TypeOK'
  BY DEF LockChainRow, IInv, TypeOK, tables, verifier
<1>2. TransactionOK(w)'
  BY DEF LockChainRow, IInv, TypeOK, Transactions, TransactionOK, tables
<1> QED
  BY <1>1, <1>2, OthersKept, TablesKept DEF LockChainRow, IInv, TypeOK, Transactions, Exclusive, Holding, BootsAlone

\* A transaction that ends without a commit leaves nothing behind.
LEMMA FinishKeeps ==
    ASSUME IInv, NEW w \in Writers, Finish(w), UNCHANGED <<tables, mode, verifier>>,
           faults' \in 0 .. MaxFaults
    PROVE  IInv'
<1>1. TypeOK'
  BY ChainAssumption DEF Finish, NoWork, Genesis, ChainRow, IInv, TypeOK, tables, verifier
<1>2. TransactionOK(w)'
  BY DEF Finish, IInv, TypeOK, TransactionOK
<1>3. Exclusive' /\ BootsAlone'
  BY DEF Finish, IInv, TypeOK, Transactions, Exclusive, Holding, BootsAlone, verifier
<1>4. ASSUME NEW v \in Writers \ {w} PROVE TransactionOK(v)'
  BY OthersKept DEF Finish, IInv, TypeOK
<1> QED
  BY <1>1, <1>2, <1>3, <1>4, TablesKept DEF Transactions

LEMMA RollBackKeeps ==
    ASSUME IInv, NEW w \in Writers, PruneNothing(w) \/ RollBack(w)
    PROVE  IInv'
<1>1. faults \in 0 .. MaxFaults
  BY DEF IInv, TypeOK
<1>2. CASE PruneNothing(w)
  BY <1>1, <1>2, FinishKeeps DEF PruneNothing
<1>3. CASE RollBack(w)
  BY <1>1, <1>3, FinishKeeps, ChainAssumption DEF RollBack
<1> QED
  BY <1>2, <1>3

\* The block is a prefix of the rows, so the rest is a chain from its last row.
LEMMA PruneBlockKeeps ==
    ASSUME IInv, NEW w \in Writers, PruneBlock(w)
    PROVE  IInv'
<1> USE ChainAssumption
<1>1. PICK last \in rows :
        /\ Newest(Block, last)
        /\ work' = [work EXCEPT ![w].gone = Block,
                                ![w].chain = Checkpoint(@, last, Cardinality(Block))]
  BY DEF PruneBlock
<1>2. /\ pc[w] = "locked" /\ work[w].job = "prune"
      /\ pc' = [pc EXCEPT ![w] = "deleted"]
      /\ UNCHANGED <<tables, mode, verifier, faults>>
  BY DEF PruneBlock
<1>3. /\ rows \subseteq Ids /\ recent \subseteq Ids /\ chained \subseteq Ids
      /\ prev \in [Ids -> 0 .. MaxId] /\ nextId \in 1 .. MaxId + 1
      /\ chain \in ChainRow
      /\ pc \in [Writers -> {"idle", "waiting", "locked", "deleted", "appended"}]
      /\ work \in [Writers -> [job : Jobs \cup {"none"}, gone : SUBSET Ids,
                               added : SUBSET Ids, chain : ChainRow]]
  BY DEF IInv, TypeOK
<1>4. /\ work[w].gone = {} /\ work[w].added = {} /\ work[w].chain = chain
      /\ mode = "serving" /\ Committed
      /\ rows \subseteq chained /\ Linked(rows, chain.anchor)
      /\ HeadIsTail(rows, chain) /\ Counted(rows, chain)
  <2>1. mode = "serving"
    BY <1>2, <1>3 DEF IInv, Transactions, BootsAlone, TypeOK
  <2> QED
    BY <1>2, <2>1 DEF IInv, Transactions, TransactionOK, ChainIntact
<1>5. /\ Block \subseteq rows /\ last \in Block /\ Block \cap recent = {}
      /\ \A i \in rows : i \in Block <=> i <= last
  <2>1. Block \subseteq rows /\ last \in Block
    BY <1>1 DEF Block, Newest
  <2>2. ASSUME NEW i \in Block PROVE i \notin recent
    <3>1. i \in rows /\ i <= i
      BY <1>3, <2>1 DEF Ids
    <3> QED
      BY <3>1 DEF Block
  <2>3. ASSUME NEW i \in rows PROVE i \in Block <=> i <= last
    <3>1. i \in Block => i <= last
      BY <1>1 DEF Newest
    <3>2. ASSUME i <= last, NEW j \in rows, j <= i PROVE j \notin recent
      <4>1. j <= last
        BY <1>3, <2>1, <3>2 DEF Ids
      <4> QED
        BY <2>1, <4>1 DEF Block
    <3>3. i <= last => i \in Block
      BY <3>2 DEF Block
    <3> QED
      BY <3>1, <3>3
  <2> QED
    BY <2>1, <2>2, <2>3
<1>6. /\ Cardinality(rows \ Block) = Cardinality(rows) - Cardinality(Block)
      /\ Cardinality(Block) \in Nat \ {0} /\ Cardinality(rows) \in Nat
      /\ Cardinality(rows \ Block) \in Nat
  <2>1. IsFiniteSet(rows) /\ IsFiniteSet(Block) /\ rows \cap Block = Block
    BY <1>3, <1>5, FiniteRows
  <2>2. Cardinality(Block) # 0
    BY <1>5, <2>1, FS_EmptySet
  <2> QED
    BY <1>3, <1>5, <2>1, <2>2, FS_Difference, FiniteRows
<1>7. /\ Cardinality(rows) + chain.pruned < nextId
      /\ chain.pruned \in Nat
      /\ chain.pruned + Cardinality(Block) \in 1 .. MaxId
  BY <1>3, <1>4, <1>6 DEF Committed, ChainRow
<1>8. /\ work'[w] = [job |-> "prune", gone |-> Block, added |-> {},
                     chain |-> Checkpoint(chain, last, Cardinality(Block))]
      /\ After(w)' = rows \ Block
  <2>1. work'[w] = [job |-> "prune", gone |-> Block, added |-> {},
                    chain |-> Checkpoint(chain, last, Cardinality(Block))]
    BY <1>1, <1>2, <1>3, <1>4
  <2> QED
    BY <1>2, <2>1 DEF After, tables
<1>9. TypeOK'
  <2>1. work'[w] \in [job : Jobs \cup {"none"}, gone : SUBSET Ids,
                      added : SUBSET Ids, chain : ChainRow]
    BY <1>3, <1>5, <1>7, <1>8 DEF Checkpoint, ChainRow, Jobs, Ids
  <2>2. work' \in [Writers -> [job : Jobs \cup {"none"}, gone : SUBSET Ids,
                              added : SUBSET Ids, chain : ChainRow]]
    BY <1>1, <1>3, <2>1
  <2> QED
    BY <1>2, <1>3, <2>2 DEF IInv, TypeOK, tables, verifier
<1>10. Sound(After(w), work[w].chain)'
  <2> DEFINE R == rows \ Block
             c == Checkpoint(chain, last, Cardinality(Block))
  <2>1. Linked(R, last)
    BY <1>3, <1>4, <1>5 DEF Linked, Ids
  <2>2. HeadIsTail(R, c)
    BY <1>3, <1>4, <1>5 DEF Checkpoint, HeadIsTail, Committed, ChainRow, Ids
  <2>3. Counted(R, c) /\ Cardinality(R) + c.pruned < nextId
    BY <1>3, <1>4, <1>6, <1>7 DEF Checkpoint, Counted
  <2>4. Sound(R, c)
    BY <1>3, <1>4, <1>5, <2>1, <2>2, <2>3 DEF Checkpoint, Sound, Committed
  <2> QED
    BY <1>2, <1>8, <2>4 DEF Sound, Linked, HeadIsTail, Counted, tables
<1>11. TransactionOK(w)'
  BY <1>2, <1>3, <1>5, <1>7, <1>8, <1>10 DEF Checkpoint, TransactionOK, Prepared, Jobs, tables
<1>12. Transactions'
  BY <1>1, <1>2, <1>3, <1>4, <1>11, OthersKept DEF IInv, Transactions, Exclusive, Holding, BootsAlone
<1> QED
  BY <1>2, <1>9, <1>12, TablesKept

\* The inserted row names the head it read under the lock, which is the newest
\* row that the transaction leaves.
LEMMA AppendInTxKeeps ==
    ASSUME IInv, NEW w \in Writers, AppendInTx(w)
    PROVE  IInv'
<1> USE ChainAssumption
<1> DEFINE R == After(w)
           c == work[w].chain
<1>1. /\ nextId \in Ids /\ nextId' = nextId + 1
      /\ prev' = [prev EXCEPT ![nextId] = c.last]
      /\ chained' = chained \cup {nextId}
      /\ recent' = recent \cup {nextId}
      /\ note' = [note EXCEPT ![nextId] =
                    IF pc[w] = "deleted" THEN [anchor |-> c.anchor, total |-> c.pruned]
                    ELSE NoNote]
      /\ work' = [work EXCEPT ![w].added = {nextId}, ![w].chain = Advance(@)]
      /\ pc' = [pc EXCEPT ![w] = "appended"]
      /\ UNCHANGED <<rows, chain, mode, verifier, faults>>
  BY DEF AppendInTx
<1>2. /\ rows \subseteq Ids /\ recent \subseteq Ids /\ chained \subseteq Ids
      /\ prev \in [Ids -> 0 .. MaxId] /\ note \in [Ids -> Note]
      /\ chain \in ChainRow
      /\ pc \in [Writers -> {"idle", "waiting", "locked", "deleted", "appended"}]
      /\ work \in [Writers -> [job : Jobs \cup {"none"}, gone : SUBSET Ids,
                               added : SUBSET Ids, chain : ChainRow]]
  BY DEF IInv, TypeOK
<1>3. /\ mode = "serving" /\ Committed /\ rows \subseteq chained
      /\ Linked(rows, chain.anchor) /\ HeadIsTail(rows, chain) /\ Counted(rows, chain)
      /\ \A v \in Writers \ {w} : pc[v] \in {"idle", "waiting"}
  <2>1. Holding(w)
    BY DEF AppendInTx, Holding
  <2>2. mode = "serving"
    BY <2>1, <1>2 DEF IInv, Transactions, BootsAlone, TypeOK, Holding
  <2> QED
    BY <1>2, <2>1, <2>2 DEF IInv, ChainIntact, Transactions, Exclusive, Holding
<1>4. /\ work[w].gone \subseteq rows /\ work[w].gone \cap recent = {}
      /\ work[w].added = {} /\ R = rows \ work[w].gone
      /\ Sound(R, c) /\ work[w].job \in Jobs
      /\ pc[w] = "locked" => work[w].job = "append" /\ work[w].gone = {} /\ c = chain
      /\ pc[w] = "deleted" => work[w].job = "prune" /\ c.pruned > 0
  <2>1. CASE pc[w] = "locked"
    <3>1. work[w].gone = {} /\ work[w].added = {} /\ c = chain /\ work[w].job = "append"
      BY <2>1 DEF IInv, Transactions, TransactionOK, AppendInTx
    <3>2. R = rows
      BY <3>1 DEF After
    <3>3. Sound(rows, chain)
      BY <1>3 DEF Sound, Committed
    <3> QED
      BY <2>1, <3>1, <3>2, <3>3 DEF Jobs
  <2>2. CASE pc[w] = "deleted"
    BY <2>2 DEF IInv, Transactions, TransactionOK, Prepared, After, Jobs
  <2> QED
    BY <2>1, <2>2 DEF AppendInTx
<1>5. /\ nextId \notin rows /\ nextId \notin R /\ R \subseteq rows /\ c \in ChainRow
  BY <1>1, <1>2, <1>3, <1>4 DEF Committed, Ids
<1>6. /\ Cardinality(R \cup {nextId}) = Cardinality(R) + 1
      /\ Cardinality(R) \in Nat
      /\ Cardinality(R) + c.pruned = c.count /\ c.count < nextId
  <2>1. IsFiniteSet(R) /\ Cardinality(R) \in Nat
    BY <1>2, <1>5, FiniteRows
  <2> QED
    BY <1>4, <1>5, <2>1, FS_AddElement DEF Sound, Counted
<1>7. /\ work'[w] = [job |-> work[w].job, gone |-> work[w].gone, added |-> {nextId},
                     chain |-> Advance(c)]
      /\ After(w)' = R \cup {nextId}
      /\ Advance(c) \in ChainRow
  <2>1. work'[w] = [job |-> work[w].job, gone |-> work[w].gone, added |-> {nextId},
                    chain |-> Advance(c)]
    BY <1>1, <1>2
  <2>2. Advance(c) \in ChainRow
    BY <1>1, <1>5, <1>6 DEF Advance, ChainRow, Ids
  <2>3. After(w)' = (rows \ work[w].gone) \cup {nextId}
    BY <1>1, <2>1 DEF After
  <2> QED
    BY <1>4, <2>1, <2>2, <2>3
<1>8. TypeOK'
  <2>1. work'[w] \in [job : Jobs \cup {"none"}, gone : SUBSET Ids,
                      added : SUBSET Ids, chain : ChainRow]
    BY <1>1, <1>2, <1>7
  <2>2. work' \in [Writers -> [job : Jobs \cup {"none"}, gone : SUBSET Ids,
                              added : SUBSET Ids, chain : ChainRow]]
    BY <1>1, <1>2, <2>1
  <2>3. prev' \in [Ids -> 0 .. MaxId] /\ note' \in [Ids -> Note]
    BY <1>1, <1>2, <1>5 DEF ChainRow, Note, NoNote
  <2>4. nextId' \in 1 .. MaxId + 1
    BY <1>1 DEF Ids
  <2> QED
    BY <1>1, <1>2, <2>2, <2>3, <2>4 DEF IInv, TypeOK, verifier
<1>9. /\ \A i \in Ids \ {nextId} : prev'[i] = prev[i] /\ note'[i] = note[i]
      /\ prev'[nextId] = c.last
  BY <1>1, <1>2
<1>10. Committed' /\ ChainIntact'
  <2>1. rows \cap chained = rows /\ rows' \cap chained' = rows /\ rows' \ chained' = {}
    BY <1>1, <1>3
  <2>2. Linked(rows, chain.anchor)'
    BY <1>1, <1>2, <1>3, <1>5, <1>9 DEF Linked
  <2>3. CheckpointAgrees(rows, chain)'
    BY <1>1, <1>2, <1>3, <1>5, <1>9 DEF Committed, CheckpointAgrees
  <2>4. ChainIntact'
    BY <1>1, <1>3, <2>2 DEF ChainIntact, HeadIsTail, Counted
  <2>5. Linked(rows \cap chained, chain.anchor)'
    BY <2>1, <2>2, <1>1 DEF Linked
  <2>6. \A i \in rows : i < nextId' /\ chain.anchor < i
    BY <1>1, <1>2, <1>3 DEF Committed, Ids
  <2>7. chain.anchor < nextId' /\ Cardinality(rows) + chain.pruned < nextId'
    BY <1>1, <1>2, <1>3, FiniteRows DEF Committed, Ids, ChainRow
  <2> QED
    BY <1>1, <2>1, <2>3, <2>4, <2>5, <2>6, <2>7 DEF Committed
<1>11. Sound(After(w), work[w].chain)'
  <2> DEFINE d == Advance(c)
             S == R \cup {nextId}
  <2>1. d.anchor = c.anchor /\ d.pruned = c.pruned /\ d.last = nextId /\ d.count = c.count + 1
    BY DEF Advance
  <2>2. After(w)' = S /\ work'[w].chain = d
    BY <1>7
  <2>3. \A i \in S : /\ d.anchor < i /\ prev'[i] < i /\ prev'[i] \in S \cup {d.anchor}
                    /\ \A j \in S : j < i => j <= prev'[i]
    <3>1. ASSUME NEW i \in R
          PROVE  /\ d.anchor < i /\ prev'[i] < i /\ prev'[i] \in S \cup {d.anchor}
                 /\ \A j \in S : j < i => j <= prev'[i]
      BY <1>1, <1>2, <1>4, <1>5, <1>9, <2>1 DEF Sound, Linked, Ids
    <3>2. /\ d.anchor < nextId /\ prev'[nextId] < nextId /\ prev'[nextId] \in S \cup {d.anchor}
          /\ \A j \in S : j < nextId => j <= prev'[nextId]
      BY <1>1, <1>2, <1>4, <1>5, <1>9, <2>1 DEF Sound, HeadIsTail, Ids, ChainRow
    <3> QED
      BY <3>1, <3>2
  <2>4. Linked(After(w), work[w].chain.anchor)'
    BY <2>2, <2>3 DEF Linked
  <2>5. HeadIsTail(After(w), work[w].chain)'
    BY <1>1, <1>2, <1>4, <1>5, <2>1, <2>2 DEF HeadIsTail, Sound, Ids
  <2>6. /\ Counted(After(w), work[w].chain)'
        /\ (Cardinality(After(w)) + work[w].chain.pruned < nextId)'
    BY <1>1, <1>5, <1>6, <2>1, <2>2 DEF Counted, ChainRow, Ids
  <2>7. /\ (\A i \in After(w) : i < nextId)'
        /\ (work[w].chain.anchor < nextId)'
    BY <1>1, <1>2, <1>4, <1>5, <2>1, <2>2 DEF Sound, ChainRow, Ids
  <2> QED
    BY <2>4, <2>5, <2>6, <2>7 DEF Sound
<1>12. Prepared(w)'
  BY <1>1, <1>2, <1>4, <1>5, <1>7, <1>11 DEF Prepared
<1>13. CheckpointAgrees(After(w), work[w].chain)'
  <2>1. After(w)' = R \cup {nextId} /\ work'[w].chain = Advance(c)
    BY <1>7
  <2>2. CASE pc[w] = "locked"
    <3>1. /\ note'[nextId] = NoNote /\ \A i \in rows : note'[i] = note[i]
          /\ R = rows /\ CheckpointAgrees(rows, chain)
          /\ Advance(c).anchor = chain.anchor /\ Advance(c).pruned = chain.pruned
      BY <1>1, <1>2, <1>3, <1>4, <1>5, <1>9, <2>2 DEF Committed, Advance
    <3> QED
      BY <2>1, <3>1 DEF CheckpointAgrees
  <2>3. CASE pc[w] = "deleted"
    <3>1. note'[nextId] = [anchor |-> c.anchor, total |-> c.pruned]
      BY <1>1, <1>2, <2>3
    <3>2. note'[nextId] # NoNote
      BY <1>4, <3>1, <2>3 DEF NoNote
    <3>3. \A j \in R \cup {nextId} : j <= nextId
      BY <1>1, <1>2, <1>4, <1>5 DEF Sound, Ids
    <3> QED
      BY <2>1, <3>1, <3>2, <3>3 DEF CheckpointAgrees, Advance
  <2> QED
    BY <2>2, <2>3 DEF AppendInTx
<1>14. Transactions'
  <2>1. TransactionOK(w)'
    <3>1. pc'[w] = "appended" /\ work'[w].job \in Jobs
      BY <1>1, <1>2, <1>4, <1>7
    <3>2. work'[w].job = "append" =>
            /\ work'[w].gone = {}
            /\ work'[w].chain.anchor = chain'.anchor
            /\ work'[w].chain.pruned = chain'.pruned
      BY <1>1, <1>4, <1>7 DEF AppendInTx, Advance
    <3> QED
      BY <3>1, <3>2, <1>12, <1>13 DEF TransactionOK
  <2>2. ASSUME NEW v \in Writers \ {w} PROVE TransactionOK(v)'
    BY <1>1, <1>2, <1>3 DEF IInv, Transactions, TransactionOK
  <2>3. Exclusive' /\ BootsAlone'
    BY <1>1, <1>2, <1>3 DEF Exclusive, Holding, BootsAlone
  <2> QED
    BY <2>1, <2>2, <2>3 DEF Transactions
<1>15. Walk' /\ QuietVerifyPasses' /\ AppendsBreakNoLink'
  BY <1>1 DEF IInv, Walk, QuietVerifyPasses, AppendsBreakNoLink, verifier
<1> QED
  BY <1>8, <1>10, <1>14, <1>15 DEF IInv

LEMMA CommitKeeps ==
    ASSUME IInv, NEW w \in Writers, Commit(w)
    PROVE  IInv'
<1>1. /\ pc[w] = "appended" /\ rows' = After(w) /\ chain' = work[w].chain
      /\ during' = IF vpc \in {"idle", "done"} THEN during ELSE during \cup {work[w].job}
      /\ Finish(w)
      /\ UNCHANGED <<prev, chained, recent, note, nextId, mode>>
      /\ UNCHANGED <<vpc, seen, expected, cursor, failures, faults>>
  BY DEF Commit
<1>2. /\ rows \subseteq Ids /\ chained \subseteq Ids
      /\ chain \in ChainRow /\ during \subseteq Jobs
      /\ pc \in [Writers -> {"idle", "waiting", "locked", "deleted", "appended"}]
      /\ work \in [Writers -> [job : Jobs \cup {"none"}, gone : SUBSET Ids,
                               added : SUBSET Ids, chain : ChainRow]]
  BY DEF IInv, TypeOK
<1>3. /\ work[w].gone \subseteq rows /\ work[w].added \subseteq chained
      /\ Sound(After(w), work[w].chain)
      /\ CheckpointAgrees(After(w), work[w].chain)
      /\ work[w].job \in Jobs
      /\ work[w].job = "append" =>
           /\ work[w].gone = {}
           /\ work[w].chain.anchor = chain.anchor
           /\ work[w].chain.pruned = chain.pruned
  BY <1>1 DEF IInv, Transactions, TransactionOK, Prepared
<1>4. /\ mode = "serving" /\ rows \subseteq chained
      /\ \A v \in Writers \ {w} : pc[v] \in {"idle", "waiting"}
  <2>1. Holding(w) /\ mode = "serving"
    BY <1>1, <1>2 DEF IInv, Transactions, BootsAlone, TypeOK, Holding
  <2> QED
    BY <1>2, <2>1 DEF IInv, ChainIntact, Transactions, Exclusive, Holding
<1>5. TypeOK'
  <2>1. rows' \subseteq Ids /\ chain' \in ChainRow /\ during' \subseteq Jobs
    BY <1>1, <1>2, <1>3 DEF After
  <2>2. /\ pc' \in [Writers -> {"idle", "waiting", "locked", "deleted", "appended"}]
        /\ work' \in [Writers -> [job : Jobs \cup {"none"}, gone : SUBSET Ids,
                                 added : SUBSET Ids, chain : ChainRow]]
    BY <1>1, <1>2, ChainAssumption DEF Finish, NoWork, Genesis, ChainRow
  <2> QED
    BY <1>1, <2>1, <2>2 DEF IInv, TypeOK
<1>6. rows' \subseteq chained'
  BY <1>1, <1>3, <1>4 DEF After
<1>7. ChainIntact'
  BY <1>1, <1>3, <1>6 DEF ChainIntact, Sound, Linked, HeadIsTail, Counted
<1>8. Committed'
  <2>1. rows' \cap chained' = rows' /\ rows' \ chained' = {}
    BY <1>6
  <2>2. Linked(rows \cap chained, chain.anchor)'
    BY <1>1, <1>3, <2>1 DEF Sound, Linked
  <2>3. CheckpointAgrees(rows, chain)'
    BY <1>1, <1>3 DEF CheckpointAgrees
  <2> QED
    BY <1>1, <1>3, <2>1, <2>2, <2>3 DEF Committed, Sound, Linked
<1>9. Transactions'
  <2>1. TransactionOK(w)'
    BY <1>1, <1>2 DEF Finish, TransactionOK
  <2>2. ASSUME NEW v \in Writers \ {w} PROVE TransactionOK(v)'
    BY <1>1, <1>2, <1>4 DEF Finish, IInv, Transactions, TransactionOK
  <2>3. Exclusive' /\ BootsAlone'
    BY <1>1, <1>2, <1>4 DEF Finish, Exclusive, Holding, BootsAlone
  <2> QED
    BY <2>1, <2>2, <2>3 DEF Transactions
<1>10. Walk'
  <2>1. CASE vpc \in {"idle", "done"}
    BY <1>1, <2>1 DEF IInv, Walk
  <2>2. CASE vpc \notin {"idle", "done"} /\ work[w].job = "append"
    <3>1. during' # {} /\ (chain'.anchor = chain.anchor /\ chain'.pruned = chain.pruned)
      BY <1>1, <1>3, <2>2
    <3>2. rows \subseteq rows'
      BY <1>1, <1>3, <2>2 DEF After
    <3>3. "prune" \notin during' => "prune" \notin during
      BY <1>1
    <3> QED
      BY <1>1, <2>2, <3>1, <3>2, <3>3 DEF IInv, Walk
  <2>3. CASE vpc \notin {"idle", "done"} /\ work[w].job = "prune"
    BY <1>1, <2>3 DEF IInv, Walk
  <2> QED
    BY <1>3, <2>1, <2>2, <2>3 DEF Jobs
<1>11. QuietVerifyPasses' /\ AppendsBreakNoLink'
  BY <1>1 DEF IInv, QuietVerifyPasses, AppendsBreakNoLink
<1> QED
  BY <1>5, <1>7, <1>8, <1>9, <1>10, <1>11 DEF IInv

---------------------------------------------------------------------------
(* The verifier.  It changes nothing but its own state.                    *)

LEMMA VerifierAlone ==
    ASSUME IInv, UNCHANGED <<tables, mode, txVars, faults>>, mode = "serving",
           TypeOK', Walk', QuietVerifyPasses', AppendsBreakNoLink'
    PROVE  IInv'
<1>1. Committed' /\ ChainIntact'
  BY DEF IInv, Committed, ChainIntact, Linked, HeadIsTail, Counted, CheckpointAgrees, tables
<1>2. \A w \in Writers : TransactionOK(w)'
  BY DEF IInv, Transactions, TransactionOK, Prepared, Sound, After, Linked, HeadIsTail,
         Counted, CheckpointAgrees, tables, txVars
<1>3. Exclusive' /\ BootsAlone'
  BY DEF IInv, Transactions, Exclusive, BootsAlone, Holding, txVars
<1> QED
  BY <1>1, <1>2, <1>3 DEF IInv, Transactions

LEMMA VerifyStartKeeps == IInv /\ VerifyStart => IInv'
<1> SUFFICES ASSUME IInv, VerifyStart PROVE IInv'
  OBVIOUS
<1>1. TypeOK'
  BY ChainAssumption DEF VerifyStart, IInv, TypeOK, ChainRow, tables, txVars
<1>2. Walk' /\ QuietVerifyPasses' /\ AppendsBreakNoLink'
  BY DEF VerifyStart, Walk, QuietVerifyPasses, AppendsBreakNoLink, tables
<1> QED
  BY <1>1, <1>2, VerifierAlone DEF VerifyStart

LEMMA VerifyRowKeeps == IInv /\ VerifyRow => IInv'
<1> SUFFICES ASSUME IInv, VerifyRow PROVE IInv'
  OBVIOUS
<1> USE ChainAssumption
<1>1. PICK i \in rows :
        /\ i > cursor
        /\ \A j \in rows : j > cursor => i <= j
        /\ failures' = failures \cup RowFailures(i)
        /\ expected' = IF i \in chained THEN i ELSE expected
        /\ cursor' = i
  BY DEF VerifyRow
<1>2. /\ vpc = "walk"
      /\ UNCHANGED <<tables, mode, txVars, vpc, seen, during, faults>>
  BY DEF VerifyRow
<1>3. /\ rows \subseteq Ids /\ cursor \in 0 .. MaxId /\ expected \in 0 .. MaxId
      /\ chain \in ChainRow /\ seen \in ChainRow /\ failures \subseteq FailureTypes
      /\ prev \in [Ids -> 0 .. MaxId]
  BY DEF IInv, TypeOK
<1>4. /\ mode = "serving" /\ rows \subseteq chained /\ Linked(rows, chain.anchor)
  <2>1. mode = "serving"
    BY <1>2 DEF IInv, Transactions, BootsAlone, TypeOK
  <2> QED
    BY <2>1 DEF IInv, ChainIntact
<1>5. TypeOK'
  BY <1>1, <1>2, <1>3 DEF IInv, TypeOK, RowFailures, FailureTypes, tables, txVars, Ids
<1>6. "prune" \notin during => RowFailures(i) = {}
  <2> SUFFICES ASSUME "prune" \notin during PROVE RowFailures(i) = {}
    OBVIOUS
  <2>1. seen.anchor = chain.anchor /\ ((cursor = 0 /\ expected = chain.anchor) \/ (cursor \in rows /\ expected = cursor))
    BY <1>2 DEF IInv, Walk
  <2>2. chain.anchor < i /\ i \in chained
    BY <1>1, <1>4 DEF Linked
  <2>3. /\ prev[i] < i /\ prev[i] \in rows \cup {chain.anchor}
        /\ \A j \in rows : chain.anchor < j /\ (j < i => j <= prev[i])
    BY <1>1, <1>4 DEF Linked
  <2>4. prev[i] = expected
    BY <1>1, <1>3, <2>1, <2>3 DEF Ids, ChainRow
  <2>5. ~(i <= seen.anchor)
    BY <1>1, <1>3, <2>1, <2>2 DEF Ids, ChainRow
  <2> QED
    BY <2>2, <2>4, <2>5 DEF RowFailures
<1>7. Walk'
  BY <1>1, <1>2, <1>4, <1>6 DEF IInv, Walk, tables
<1>8. QuietVerifyPasses' /\ AppendsBreakNoLink'
  BY <1>1, <1>2, <1>6 DEF IInv, QuietVerifyPasses, AppendsBreakNoLink
<1> QED
  BY <1>2, <1>4, <1>5, <1>7, <1>8, VerifierAlone

\* The head and the count: only they may disagree with what was read first.
LEMMA VerifyHeadCountKeeps == IInv /\ (VerifyHead \/ VerifyCount) => IInv'
<1> SUFFICES ASSUME IInv, VerifyHead \/ VerifyCount PROVE IInv'
  OBVIOUS
<1>1. /\ vpc \in {"walk", "count"} /\ vpc' \in {"count", "cross"}
      /\ UNCHANGED <<tables, mode, txVars, seen, expected, cursor, during, faults>>
      /\ failures \subseteq failures'
      /\ failures' \subseteq failures \cup {"head_mismatch", "count_mismatch"}
  BY DEF VerifyHead, VerifyCount
<1>2. /\ rows \subseteq Ids /\ cursor \in 0 .. MaxId /\ chain \in ChainRow
      /\ Cardinality(rows) \in Nat
  BY FiniteRows DEF IInv, TypeOK
<1>3. /\ mode = "serving" /\ Linked(rows, chain.anchor)
      /\ HeadIsTail(rows, chain) /\ Counted(rows, chain)
  <2>1. mode = "serving"
    BY <1>1 DEF IInv, Transactions, BootsAlone, TypeOK
  <2> QED
    BY <2>1 DEF IInv, ChainIntact
<1>4. TypeOK'
  BY <1>1 DEF IInv, TypeOK, FailureTypes, tables, txVars
<1>5. during = {} => failures' = {}
  <2> SUFFICES ASSUME during = {} PROVE failures' = {}
    OBVIOUS
  <2>1. seen = chain /\ failures = {}
    BY <1>1 DEF IInv, Walk
  <2>2. CASE VerifyHead
    <3>1. (cursor = 0 /\ expected = chain.anchor) \/ (cursor \in rows /\ expected = cursor)
      BY <2>2 DEF IInv, Walk, VerifyHead
    <3>2. seen.last = expected
      BY <1>2, <1>3, <2>1, <2>2, <3>1, ChainAssumption DEF VerifyHead, HeadIsTail, Linked, Ids, ChainRow
    <3> QED
      BY <2>1, <2>2, <3>2 DEF VerifyHead
  <2>3. CASE VerifyCount
    BY <1>2, <1>3, <2>1, <2>3 DEF VerifyCount, Counted, ChainRow
  <2> QED
    BY <2>2, <2>3
<1>6. Walk' /\ QuietVerifyPasses' /\ AppendsBreakNoLink'
  BY <1>1, <1>5 DEF IInv, Walk, QuietVerifyPasses, AppendsBreakNoLink, tables
<1> QED
  BY <1>1, <1>3, <1>4, <1>6, VerifierAlone

LEMMA VerifyCheckpointKeeps == IInv /\ VerifyCheckpoint => IInv'
<1> SUFFICES ASSUME IInv, VerifyCheckpoint PROVE IInv'
  OBVIOUS
<1>1. /\ vpc = "cross" /\ vpc' = "done"
      /\ failures' = failures \cup
           (IF CheckpointAgrees(rows, seen) THEN {} ELSE {"checkpoint_mismatch"})
      /\ ForgetWalk
      /\ UNCHANGED <<tables, mode, txVars, during, faults>>
  BY DEF VerifyCheckpoint
<1>2. mode = "serving"
  BY <1>1 DEF IInv, Transactions, BootsAlone, TypeOK
<1>3. TypeOK'
  BY <1>1, ChainAssumption DEF IInv, TypeOK, FailureTypes, ForgetWalk, Genesis, ChainRow, tables, txVars
<1>4. "prune" \notin during => failures' = failures
  <2>1. CheckpointAgrees(rows, chain)
    BY DEF IInv, Committed
  <2>2. "prune" \notin during => CheckpointAgrees(rows, seen)
    BY <1>1, <2>1 DEF IInv, Walk, CheckpointAgrees
  <2> QED
    BY <1>1, <2>2
<1>5. Walk' /\ QuietVerifyPasses' /\ AppendsBreakNoLink'
  BY <1>1, <1>4 DEF IInv, Walk, QuietVerifyPasses, AppendsBreakNoLink
<1> QED
  BY <1>1, <1>2, <1>3, <1>5, VerifierAlone

---------------------------------------------------------------------------
(* Time and crashes.                                                       *)

LEMMA AgeKeeps ==
    ASSUME IInv, NEW i \in Ids, Age(i)
    PROVE  IInv'
<1>1. /\ recent' = recent \ {i}
      /\ UNCHANGED <<rows, prev, chained, note, chain, nextId, mode, txVars, verifier, faults>>
  BY DEF Age
<1>2. TypeOK'
  BY <1>1 DEF IInv, TypeOK, txVars, verifier
<1>3. Committed' /\ ChainIntact'
  BY <1>1 DEF IInv, Committed, ChainIntact, Linked, HeadIsTail, Counted, CheckpointAgrees
<1>4. \A w \in Writers : TransactionOK(w)'
  BY <1>1 DEF IInv, Transactions, TransactionOK, Prepared, Sound, After, Linked, HeadIsTail,
         Counted, CheckpointAgrees, txVars
<1>5. Exclusive' /\ BootsAlone'
  BY <1>1 DEF IInv, Transactions, Exclusive, BootsAlone, Holding, txVars, verifier
<1>6. Walk' /\ QuietVerifyPasses' /\ AppendsBreakNoLink'
  BY <1>1 DEF IInv, Walk, QuietVerifyPasses, AppendsBreakNoLink, verifier
<1> QED
  BY <1>2, <1>3, <1>4, <1>5, <1>6 DEF IInv, Transactions

LEMMA CrashKeeps == IInv /\ Crash => IInv'
<1> SUFFICES ASSUME IInv, Crash PROVE IInv'
  OBVIOUS
<1>1. TypeOK'
  BY ChainAssumption DEF Crash, ForgetWalk, IInv, TypeOK, NoWork, Genesis, ChainRow, tables
<1>2. Committed' /\ ChainIntact'
  BY DEF Crash, IInv, Committed, ChainIntact, Linked, CheckpointAgrees, tables
<1>3. Transactions'
  BY DEF Crash, Transactions, TransactionOK, Exclusive, Holding, BootsAlone
<1>4. Walk' /\ QuietVerifyPasses' /\ AppendsBreakNoLink'
  BY DEF Crash, Walk, QuietVerifyPasses, AppendsBreakNoLink
<1> QED
  BY <1>1, <1>2, <1>3, <1>4 DEF IInv

LEMMA NextKeeps == IInv /\ [Next]_vars => IInv'
<1> SUFFICES ASSUME IInv, [Next]_vars PROVE IInv'
  OBVIOUS
<1>1. CASE BackfillRow \/ BackfillEnds
  BY <1>1, BackfillRowKeeps, BackfillEndsKeeps
<1>2. CASE Transaction
  BY <1>2, BeginKeeps, LockChainRowKeeps, RollBackKeeps, PruneBlockKeeps,
     AppendInTxKeeps, CommitKeeps DEF Transaction
<1>3. CASE Verification
  BY <1>3, VerifyStartKeeps, VerifyRowKeeps, VerifyHeadCountKeeps, VerifyCheckpointKeeps
     DEF Verification
<1>4. CASE (\E i \in Ids : Age(i)) \/ Crash
  BY <1>4, AgeKeeps, CrashKeeps
<1>5. CASE UNCHANGED vars
  <2>1. TypeOK'
    BY <1>5 DEF IInv, TypeOK, vars, tables, txVars, verifier
  <2>2. ASSUME NEW w \in Writers PROVE TransactionOK(w)'
    BY <1>5 DEF IInv, Transactions, TransactionOK, Prepared, Sound, After, Linked,
       HeadIsTail, Counted, CheckpointAgrees, vars, tables, txVars
  <2>3. Exclusive' /\ BootsAlone'
    BY <1>5 DEF IInv, Transactions, Exclusive, Holding, BootsAlone, vars, txVars, verifier
  <2> QED
    BY <1>5, <2>1, <2>2, <2>3, TablesKept DEF vars, Transactions
<1> QED
  BY <1>1, <1>2, <1>3, <1>4, <1>5 DEF Next

LEMMA Invariant == Spec => []IInv
BY InitIInv, NextKeeps, PTL DEF Spec

---------------------------------------------------------------------------

\* Every variable keeps its type: in particular no count of the chain row
\* passes the number of ids that were handed out.
THEOREM TypeCorrect == Spec => []TypeOK
<1>1. IInv => TypeOK
  BY DEF IInv
<1> QED
  BY <1>1, Invariant, PTL

\* The log that is served is one chain from the anchor to the head, for any
\* number of concurrent appends and prunes (activity-chain.js:46-57).
THEOREM OneChain == Spec => []ChainIntact
<1>1. IInv => ChainIntact
  BY DEF IInv
<1> QED
  BY <1>1, Invariant, PTL

\* Checkpoint and newest audit:pruned entry agree (activity-chain.js:474-476).
THEOREM CheckpointIsTold == Spec => []CheckpointTold
<1>1. IInv => CheckpointTold
  BY DEF IInv, Committed, CheckpointTold
<1> QED
  BY <1>1, Invariant, PTL

\* No row inside the window is pruned (services/activity.js:224-227).
THEOREM PruneKeepsWindow == Spec => WindowKept
<1>1. IInv /\ [Next]_vars => [(rows \ rows') \cap recent = {}]_vars
  <2> SUFFICES ASSUME IInv, Next PROVE (rows \ rows') \cap recent = {}
    BY DEF vars
  <2>1. ASSUME NEW w \in Writers, Commit(w) PROVE (rows \ rows') \cap recent = {}
    BY <2>1 DEF Commit, After, IInv, Transactions, TransactionOK, Prepared
  <2>2. (\A w \in Writers : ~Commit(w)) => rows' = rows
    BY DEF Next, BackfillRow, BackfillEnds, Transaction, Begin, LockChainRow, PruneNothing,
       PruneBlock, AppendInTx, RollBack, Verification, VerifyStart, VerifyRow, VerifyHead,
       VerifyCount, VerifyCheckpoint, Age, Crash, tables
  <2> QED
    BY <2>1, <2>2
<1> QED
  BY <1>1, Invariant, PTL DEF Spec, WindowKept

\* A verification beside which nothing is committed reports nothing, whatever was appended,
\* pruned or rolled back before it began (lib/activity-chain.js: verifyChain).
THEOREM QuietVerifierIsRight == Spec => []QuietVerifyPasses
<1>1. IInv => QuietVerifyPasses
  BY DEF IInv
<1> QED
  BY <1>1, Invariant, PTL

\* Appends alone, however many and wherever the walk is, make a verification report neither
\* a broken link nor a checkpoint (lib/activity-chain.js: verifyChain).
THEOREM VerifierIsRight == Spec => []AppendsBreakNoLink
<1>1. IInv => AppendsBreakNoLink
  BY DEF IInv
<1> QED
  BY <1>1, Invariant, PTL

===========================================================================
