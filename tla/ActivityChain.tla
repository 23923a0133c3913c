-------------------------- MODULE ActivityChain --------------------------
(***************************************************************************)
(* The tamper-evident audit log (lib/activity-chain.js): concurrent        *)
(* appends, retention pruning, the backfill at boot and the verifier.      *)
(*                                                                         *)
(* A row of activity_log is its id.  Its entry_hash is modelled by the id  *)
(* as well: two rows have two hashes, and nothing edits a stored row.  So  *)
(* a prev_hash is the id of the row it names, and 0 is the genesis hash.   *)
(*                                                                         *)
(* Transactions run on connections of their own.  What a transaction has   *)
(* done is in work[w] and reaches the tables when it commits; the UPDATE   *)
(* of the chain row keeps it locked until then.                            *)
(***************************************************************************)
EXTENDS Naturals, FiniteSets

CONSTANTS
    Writers,    \* transactions that may be open at the same time
    Legacy,     \* rows that may predate the hash columns
    MaxId,      \* bound on row ids
    MaxFaults   \* bound on failed transactions and crashes

ASSUME ChainAssumption ==
    /\ Legacy \in Nat /\ MaxId \in Nat /\ MaxFaults \in Nat
    /\ Legacy <= MaxId

VARIABLES
    rows,       \* ids of the committed rows
    prev,       \* prev_hash of each row that was ever inserted
    chained,    \* rows whose hash columns are filled
    recent,     \* rows whose created_at is inside the retention window
    note,       \* what the details of an audit:pruned row say
    chain,      \* activity_log_chain row 1, as committed
    nextId,     \* AUTO_INCREMENT
    mode,       \* "booting" while backfillChain runs, then "serving"
    pc,         \* where each transaction is
    work,       \* what it is for, and its uncommitted effects
    vpc,        \* where the verification is
    seen,       \* the chain row it read
    expected,   \* the hash the next row has to name
    cursor,     \* the last row it walked over
    failures,   \* what it reports
    during,     \* history: jobs that committed while it ran
    faults

tables == <<rows, prev, chained, recent, note, chain, nextId>>
txVars == <<pc, work>>
verifier == <<vpc, seen, expected, cursor, failures, during>>
vars == <<tables, mode, txVars, verifier, faults>>

Ids == 1 .. MaxId
Jobs == {"append", "prune"}
FailureTypes == {"unchained", "broken_link", "head_mismatch",
                 "count_mismatch", "checkpoint_mismatch"}

\* The chain row and the checkpoint on it; anchor_id and anchor_hash name the
\* same row, and anchor 0 stands for the two NULLs of a log never pruned.
ChainRow == [last : 0 .. MaxId, count : 0 .. MaxId,
             anchor : 0 .. MaxId, pruned : 0 .. MaxId]
Genesis == [last |-> 0, count |-> 0, anchor |-> 0, pruned |-> 0]

\* Only an audit:pruned row has a note; a prune that happens removes something.
Note == [anchor : 0 .. MaxId, total : 0 .. MaxId]
NoNote == [anchor |-> 0, total |-> 0]

NoWork == [job |-> "none", gone |-> {}, added |-> {}, chain |-> Genesis]

Newest(S, i) == i \in S /\ \A j \in S : j <= i

Init ==
    /\ \E n \in 0 .. Legacy : rows = 1 .. n /\ nextId = n + 1
    /\ recent \in SUBSET rows
    /\ prev = [i \in Ids |-> 0]
    /\ chained = {}
    /\ note = [i \in Ids |-> NoNote]
    /\ chain = Genesis
    /\ mode = "booting"
    /\ pc = [w \in Writers |-> "idle"]
    /\ work = [w \in Writers |-> NoWork]
    /\ vpc = "idle" /\ seen = Genesis /\ expected = 0 /\ cursor = 0
    /\ failures = {} /\ during = {}
    /\ faults = 0

---------------------------------------------------------------------------
(* backfillChain: before the server serves, row by row, each UPDATE on its *)
(* own.  The running hash is that of the newest chained row.               *)

\* The hash the backfill and an empty log continue from.
Tail(i) ==
    \/ Newest(rows \cap chained, i)
    \/ rows \cap chained = {} /\ i = chain.anchor

BackfillRow ==
    /\ mode = "booting"
    /\ \E i \in rows \ chained, t \in 0 .. MaxId :
         /\ Tail(t)
         /\ \A j \in rows \ chained : i <= j
         /\ prev' = [prev EXCEPT ![i] = t]
         /\ chained' = chained \cup {i}
    /\ UNCHANGED <<rows, recent, note, chain, nextId, mode, txVars, verifier, faults>>

\* Mutant: the rows are added to the count that is already stored.
BackfillEndsAdding ==
    /\ mode = "booting"
    /\ rows \subseteq chained
    /\ \E t \in 0 .. MaxId :
         /\ Tail(t)
         /\ chain' = [chain EXCEPT !.last = t, !.count = @ + Cardinality(rows)]
    /\ mode' = "serving"
    /\ UNCHANGED <<rows, prev, chained, recent, note, nextId, txVars, verifier, faults>>

\* The head row is written again at every boot, also when nothing was filled.
BackfillEnds ==
    /\ mode = "booting"
    /\ rows \subseteq chained
    /\ \E t \in 0 .. MaxId :
         /\ Tail(t)
         /\ chain' = [chain EXCEPT !.last = t,
                                   !.count = Cardinality(rows) + chain.pruned]
    /\ mode' = "serving"
    /\ UNCHANGED <<rows, prev, chained, recent, note, nextId, txVars, verifier, faults>>

---------------------------------------------------------------------------
(* Transactions: appendEntry, auditInTx on a caller's transaction, prune.  *)

Holding(w) == pc[w] \in {"locked", "deleted", "appended"}

\* The transaction has committed or was rolled back.
Finish(w) ==
    /\ pc' = [pc EXCEPT ![w] = "idle"]
    /\ work' = [work EXCEPT ![w] = NoWork]

Begin(w) ==
    /\ mode = "serving"
    /\ pc[w] = "idle"
    /\ pc' = [pc EXCEPT ![w] = "waiting"]
    /\ \E j \in Jobs : work' = [work EXCEPT ![w].job = j]
    /\ UNCHANGED <<tables, mode, verifier, faults>>

\* Mutant: the head is read without a lock.
LockChainRowShared(w) ==
    /\ pc[w] = "waiting"
    /\ pc' = [pc EXCEPT ![w] = "locked"]
    /\ work' = [work EXCEPT ![w].chain = chain]
    /\ UNCHANGED <<tables, mode, verifier, faults>>

\* lockChainRow: the UPDATE returns when no other transaction holds the row.
\* Everything read from here on is the latest committed state.
LockChainRow(w) ==
    /\ pc[w] = "waiting"
    /\ \A v \in Writers : ~Holding(v)
    /\ pc' = [pc EXCEPT ![w] = "locked"]
    /\ work' = [work EXCEPT ![w].chain = chain]
    /\ UNCHANGED <<tables, mode, verifier, faults>>

\* Mutant: everything up to the newest row that is too old.
BlockToNewestOld == {i \in rows : \E j \in rows : i <= j /\ j \notin recent}

\* The rows below the first row, in id order, that is inside the window; every
\* row if there is none.
Block == {i \in rows : \A j \in rows : j <= i => j \notin recent}

\* Nothing is old enough: the prune returns and commits no change.
PruneNothing(w) ==
    /\ pc[w] = "locked" /\ work[w].job = "prune"
    /\ Block = {}
    /\ Finish(w)
    /\ UNCHANGED <<tables, mode, verifier, faults>>

\* The chain row with the checkpoint moved over n more rows up to last.
Checkpoint(c, last, n) ==
    [last |-> c.last, count |-> c.count, anchor |-> last, pruned |-> c.pruned + n]

\* The block is deleted and the checkpoint moves to its newest row.
PruneBlock(w) ==
    /\ pc[w] = "locked" /\ work[w].job = "prune"
    /\ \E last \in rows :
         /\ Newest(Block, last)
         /\ work' = [work EXCEPT
                       ![w].gone = Block,
                       ![w].chain = Checkpoint(@, last, Cardinality(Block))]
    /\ pc' = [pc EXCEPT ![w] = "deleted"]
    /\ UNCHANGED <<tables, mode, verifier, faults>>

\* The chain row advanced to the row that is inserted.
Advance(c) ==
    [last |-> nextId, count |-> c.count + 1, anchor |-> c.anchor, pruned |-> c.pruned]

\* Mutant: the entry of a prune tells the checkpoint of the one before.
AppendInTxEarly(w) ==
    /\ \/ pc[w] = "locked" /\ work[w].job = "append"
       \/ pc[w] = "deleted"
    /\ nextId \in Ids
    /\ nextId' = nextId + 1
    /\ prev' = [prev EXCEPT ![nextId] = work[w].chain.last]
    /\ chained' = chained \cup {nextId}
    /\ recent' = recent \cup {nextId}
    /\ note' = [note EXCEPT ![nextId] =
                  IF pc[w] = "deleted"
                  THEN [anchor |-> chain.anchor, total |-> chain.pruned]
                  ELSE NoNote]
    /\ work' = [work EXCEPT ![w].added = {nextId}, ![w].chain = Advance(@)]
    /\ pc' = [pc EXCEPT ![w] = "appended"]
    /\ UNCHANGED <<rows, chain, mode, verifier, faults>>

\* appendInTx with the lock held: read the head, insert, advance the head.  The
\* entry of a prune tells the checkpoint.
AppendInTx(w) ==
    /\ \/ pc[w] = "locked" /\ work[w].job = "append"
       \/ pc[w] = "deleted"
    /\ nextId \in Ids
    /\ nextId' = nextId + 1
    /\ prev' = [prev EXCEPT ![nextId] = work[w].chain.last]
    /\ chained' = chained \cup {nextId}
    /\ recent' = recent \cup {nextId}
    /\ note' = [note EXCEPT ![nextId] =
                  IF pc[w] = "deleted"
                  THEN [anchor |-> work[w].chain.anchor, total |-> work[w].chain.pruned]
                  ELSE NoNote]
    /\ work' = [work EXCEPT ![w].added = {nextId}, ![w].chain = Advance(@)]
    /\ pc' = [pc EXCEPT ![w] = "appended"]
    /\ UNCHANGED <<rows, chain, mode, verifier, faults>>

\* The rows as the transaction leaves them.
After(w) == (rows \ work[w].gone) \cup work[w].added

Commit(w) ==
    /\ pc[w] = "appended"
    /\ rows' = After(w)
    /\ chain' = work[w].chain
    /\ during' = IF vpc \in {"idle", "done"} THEN during ELSE during \cup {work[w].job}
    /\ Finish(w)
    /\ UNCHANGED <<prev, chained, recent, note, nextId, mode>>
    /\ UNCHANGED <<vpc, seen, expected, cursor, failures, faults>>

\* A statement fails, or a deadlock picks this transaction: it is rolled back.
\* retryOnDeadlock and a new request both begin again.
RollBack(w) ==
    /\ pc[w] # "idle"
    /\ faults < MaxFaults
    /\ faults' = faults + 1
    /\ Finish(w)
    /\ UNCHANGED <<tables, mode, verifier>>

---------------------------------------------------------------------------
(* verifyChain over the whole chain: statements of their own, no           *)
(* transaction around them.  A batch of the walk is one row.               *)

\* The locals of the verifier are gone when it returns.
ForgetWalk == seen' = Genesis /\ expected' = 0 /\ cursor' = 0

\* Mutant: the walk starts from the genesis hash although rows were pruned.
VerifyStartGenesis ==
    /\ mode = "serving"
    /\ vpc \in {"idle", "done"}
    /\ vpc' = "walk"
    /\ seen' = chain
    /\ expected' = 0
    /\ cursor' = 0
    /\ failures' = {}
    /\ during' = {}
    /\ UNCHANGED <<tables, mode, txVars, faults>>

VerifyStart ==
    /\ mode = "serving"
    /\ vpc \in {"idle", "done"}
    /\ vpc' = "walk"
    /\ seen' = chain
    /\ expected' = chain.anchor
    /\ cursor' = 0
    /\ failures' = {}
    /\ during' = {}
    /\ UNCHANGED <<tables, mode, txVars, faults>>

\* What one row adds to the report.
RowFailures(i) ==
    (IF cursor = 0 /\ i <= seen.anchor THEN {"checkpoint_mismatch"} ELSE {})
    \cup (IF i \notin chained THEN {"unchained"} ELSE {})
    \cup (IF i \in chained /\ prev[i] # expected THEN {"broken_link"} ELSE {})

VerifyRow ==
    /\ vpc = "walk"
    /\ \E i \in rows :
         /\ i > cursor
         /\ \A j \in rows : j > cursor => i <= j
         /\ failures' = failures \cup RowFailures(i)
         /\ expected' = IF i \in chained THEN i ELSE expected
         /\ cursor' = i
    /\ UNCHANGED <<tables, mode, txVars, vpc, seen, during, faults>>

VerifyHead ==
    /\ vpc = "walk"
    /\ \A i \in rows : i <= cursor
    /\ vpc' = "count"
    /\ failures' = failures \cup (IF seen.last # expected THEN {"head_mismatch"} ELSE {})
    /\ UNCHANGED <<tables, mode, txVars, seen, expected, cursor, during, faults>>

\* Mutant: the pruned rows are still expected.
VerifyCountAll ==
    /\ vpc = "count"
    /\ vpc' = "cross"
    /\ failures' = failures \cup
         (IF Cardinality(rows) # seen.count THEN {"count_mismatch"} ELSE {})
    /\ UNCHANGED <<tables, mode, txVars, seen, expected, cursor, during, faults>>

VerifyCount ==
    /\ vpc = "count"
    /\ vpc' = "cross"
    /\ failures' = failures \cup
         (IF Cardinality(rows) + seen.pruned # seen.count THEN {"count_mismatch"} ELSE {})
    /\ UNCHANGED <<tables, mode, txVars, seen, expected, cursor, during, faults>>

\* checkCheckpoint: the newest audit:pruned row of R and the chain row c agree.
CheckpointAgrees(R, c) ==
    \/ /\ \A i \in R : note[i] = NoNote
       /\ c.anchor = 0 /\ c.pruned = 0
    \/ \E i \in R :
         /\ note[i] # NoNote
         /\ note[i] = [anchor |-> c.anchor, total |-> c.pruned]
         /\ \A j \in R : note[j] # NoNote => j <= i

VerifyCheckpoint ==
    /\ vpc = "cross"
    /\ vpc' = "done"
    /\ failures' = failures \cup
         (IF CheckpointAgrees(rows, seen) THEN {} ELSE {"checkpoint_mismatch"})
    /\ ForgetWalk
    /\ UNCHANGED <<tables, mode, txVars, during, faults>>

---------------------------------------------------------------------------

\* A row leaves the retention window.  Clocks differ and a created_at is taken
\* before the lock, so rows need not age in the order of their ids.
Age(i) ==
    /\ i \in rows \cap recent
    /\ recent' = recent \ {i}
    /\ UNCHANGED <<rows, prev, chained, note, chain, nextId, mode, txVars, verifier, faults>>

\* The process ends anywhere, also inside the backfill.
Crash ==
    /\ faults < MaxFaults
    /\ faults' = faults + 1
    /\ mode' = "booting"
    /\ pc' = [w \in Writers |-> "idle"]
    /\ work' = [w \in Writers |-> NoWork]
    /\ vpc' = "idle" /\ ForgetWalk
    /\ failures' = {} /\ during' = {}
    /\ UNCHANGED tables

Transaction ==
    \E w \in Writers :
        \/ Begin(w) \/ LockChainRow(w) \/ PruneNothing(w) \/ PruneBlock(w)
        \/ AppendInTx(w) \/ Commit(w) \/ RollBack(w)

Verification ==
    VerifyStart \/ VerifyRow \/ VerifyHead \/ VerifyCount \/ VerifyCheckpoint

Next ==
    \/ BackfillRow \/ BackfillEnds
    \/ Transaction
    \/ Verification
    \/ \E i \in Ids : Age(i)
    \/ Crash

Spec == Init /\ [][Next]_vars

---------------------------------------------------------------------------
(* Properties                                                              *)

TypeOK ==
    /\ rows \subseteq Ids /\ chained \subseteq Ids /\ recent \subseteq Ids
    /\ prev \in [Ids -> 0 .. MaxId]
    /\ note \in [Ids -> Note]
    /\ chain \in ChainRow
    /\ nextId \in 1 .. MaxId + 1
    /\ mode \in {"booting", "serving"}
    /\ pc \in [Writers -> {"idle", "waiting", "locked", "deleted", "appended"}]
    /\ work \in [Writers ->
         [job : Jobs \cup {"none"}, gone : SUBSET Ids, added : SUBSET Ids, chain : ChainRow]]
    /\ vpc \in {"idle", "walk", "count", "cross", "done"}
    /\ seen \in ChainRow
    /\ expected \in 0 .. MaxId /\ cursor \in 0 .. MaxId
    /\ failures \subseteq FailureTypes /\ during \subseteq Jobs
    /\ faults \in 0 .. MaxFaults

\* Every row of R names the row before it, and the first one names the anchor.
Linked(R, anchor) ==
    \A i \in R :
        /\ anchor < i
        /\ prev[i] < i
        /\ prev[i] \in R \cup {anchor}
        /\ \A j \in R : j < i => j <= prev[i]

\* The chain row c names the newest row of R, or the anchor if there is none.
HeadIsTail(R, c) ==
    /\ c.last \in R \cup {c.anchor}
    /\ \A i \in R : i <= c.last

Counted(R, c) == Cardinality(R) + c.pruned = c.count

\* While the server serves, the committed rows are one chain: all rows are
\* hashed, each names its predecessor, the head row names the newest, and its
\* count is right, whatever appends, prunes, failures and crashes of an
\* earlier backfill went before (activity-chain.js:46-57, 222-230).
ChainIntact ==
    mode = "serving" =>
        /\ rows \subseteq chained
        /\ Linked(rows, chain.anchor)
        /\ HeadIsTail(rows, chain)
        /\ Counted(rows, chain)

\* The checkpoint and the newest audit:pruned entry that is left tell the same
\* story, although the next prune may remove the entry of the last one
\* (activity-chain.js:474-476).
CheckpointTold == CheckpointAgrees(rows, chain)

\* A prune never removes a row that is inside the window, however far the block
\* reaches and whatever was committed while it waited for the lock
\* (services/activity.js:224-227).
WindowKept == [][(rows \ rows') \cap recent = {}]_vars

\* A verification in whose time nothing was committed reports nothing.
QuietVerifyPasses ==
    vpc = "done" /\ during = {} => failures = {}

\* Appends that commit while the verifier walks can only make the head and the
\* count look wrong: it never reports a broken link or a checkpoint for them.
AppendsBreakNoLink ==
    "prune" \notin during => failures \subseteq {"head_mismatch", "count_mismatch"}

---------------------------------------------------------------------------
(* A statement the code does not keep: it is not an invariant.             *)

\* Nothing in the model tampers with the log, so a verification should report
\* nothing (activity-chain.js:58-61).  The verifier reads the chain row, the
\* rows and the count in statements of their own: an append or a prune in
\* between is reported as a truncation or a broken link.
AlarmMeansTampering == vpc = "done" => failures = {}

===========================================================================
