--------------------------- MODULE Outages_proofs ---------------------------
(***************************************************************************)
(* Proofs, for any retention, cap and threshold, any timing of the recorder *)
(* and any number of overlapping runs, that the outage history holds only   *)
(* outages there were and every one that a completed run found in reach,    *)
(* and that no outage is mailed about twice.                                *)
(*                                                                          *)
(* What the recorder sees is a tail of the rows, in the order of time       *)
(* (Ordered), and no row is gone that is neither old nor crowded out        *)
(* (PrunedRows).  So what it detects over is the tail of an outage there    *)
(* was, and an outage in reach is detected with its own start.  The mail is *)
(* sent once because of the claim before it: Claimed.                       *)
(***************************************************************************)
EXTENDS Outages, SequenceTheorems, WellFoundedInduction, TLAPS

Stages == {"idle", "open", "resolve", "claim", "send"}
Run == [stage : Stages, seen : SUBSET Times, todo : SUBSET Times]

Positions == 1 .. Len(rows)

\* The tables and the runs, without what the runs rely on.
Typed ==
    /\ now \in Times
    /\ rows \in Seq(Row) /\ Len(rows) <= MaxRows /\ pruned \in 0 .. Len(rows)
    /\ history \subseteq Outage
    /\ ticket \in [Times -> Statuses \cup {"none"}]
    /\ claims \subseteq Times
    /\ mails \in [Times -> Nat]
    /\ run \in [Runs -> Run]
    /\ upsets \in 0 .. MaxUpsets

Ordered ==
    /\ \A i, j \in Positions : i <= j => rows[i].ts <= rows[j].ts
    /\ \A i \in Positions : rows[i].ts <= now

\* A row that is gone was too old, or one too many.
PrunedRows ==
    \A m \in 1 .. pruned : rows[m].ts + Retention < now \/ Len(rows) - m >= Cap

OneRowEach == \A h, k \in history : h.start = k.start => h = k

RecordInv ==
    Ordered /\ PrunedRows /\ due \subseteq Over /\ HistorySound /\ OneRowEach /\ NothingSlips

\* What a run holds at each of its stages.
RunsInStep ==
    \A r \in Runs :
        /\ run[r].stage = "idle" => run[r] = Idle
        /\ run[r].stage = "resolve" => run[r].seen # {}
        /\ run[r].stage \in {"claim", "send"} => run[r].todo # {}

\* A run that is about to mail has claimed alone, and nothing was mailed under its claim.
Claimed ==
    /\ \A s \in Times : mails[s] > 0 => s \in claims
    /\ \A r \in Runs : run[r].stage = "send" =>
         Min(run[r].todo) \in claims /\ mails[Min(run[r].todo)] = 0
    /\ \A r, s \in Runs : run[r].stage = "send" /\ run[s].stage = "send" /\ r # s =>
         Min(run[r].todo) # Min(run[s].todo)

IInv == Typed /\ RecordInv /\ RunsInStep /\ Claimed /\ OneMail

-----------------------------------------------------------------------------
(* Minima.                                                                  *)

LEMMA LeastExists ==
    ASSUME NEW S \in SUBSET Nat, S # {}
    PROVE  \E x \in S : \A y \in S : x <= y
<1>1. PICK x \in S : \A y \in S : ~(<<y, x>> \in OpToRel(<, Nat))
  BY WFMin, NatLessThanWellFounded
<1>2. \A y \in S : <<y, x>> \in OpToRel(<, Nat) <=> y < x
  BY DEF OpToRel
<1>3. \A y \in S : ~(y < x)
  BY <1>1, <1>2, Zenon
<1> QED
  BY <1>3

LEMMA MinFacts ==
    ASSUME NEW S \in SUBSET Nat, S # {}
    PROVE  Min(S) \in S /\ \A y \in S : Min(S) <= y
BY LeastExists DEF Min

LEMMA TimesFacts ==
    /\ Times \subseteq Nat /\ MaxTime \in Nat /\ Ongoing \in Nat /\ Ongoing \notin Times
    /\ \A t \in Times : t < Ongoing
    /\ Cap \in Nat /\ Retention \in Nat /\ HistoryRetention \in Nat /\ MaxUpsets \in Nat
BY OutagesAssumption DEF Times, Ongoing

LEMMA PositionFacts ==
    ASSUME Typed
    PROVE  /\ Len(rows) \in Nat /\ DOMAIN rows = Positions /\ Positions \subseteq Nat
           /\ \A i \in Positions : rows[i] \in Row /\ rows[i].ts \in Nat /\ rows[i].ts \in Times
<1>1. Len(rows) \in Nat /\ DOMAIN rows = Positions
  BY LenProperties DEF Typed, Positions
<1>2. \A i \in Positions : rows[i] \in Row
  BY ElementOfSeq DEF Typed, Positions
<1>3. \A i \in Positions : rows[i].ts \in Times
  BY <1>2 DEF Row
<1>4. Positions \subseteq Nat
  BY DEF Positions
<1> QED
  BY <1>1, <1>2, <1>3, <1>4, TimesFacts

-----------------------------------------------------------------------------
(* The rows and the outages they tell of.                                   *)

\* The window is a tail of the rows.
LEMMA WindowFacts ==
    ASSUME Typed, Ordered
    PROVE  /\ Window \subseteq Positions
           /\ \A i \in Window, j \in Positions : i <= j => j \in Window
<1>1. Window \subseteq Positions
  BY PositionFacts DEF Window
<1>2. ASSUME NEW i \in Window, NEW j \in Positions, i <= j
      PROVE  j \in Window
  <2>1. i \in Positions /\ i > pruned /\ rows[i].ts + Retention >= now
    BY <1>1 DEF Window
  <2>2. rows[i].ts <= rows[j].ts
    BY <1>2, <2>1 DEF Ordered
  <2>3. rows[i].ts \in Nat /\ rows[j].ts \in Nat /\ i \in Nat /\ j \in Nat
    BY <2>1, PositionFacts
  <2>4. now \in Nat /\ pruned \in Nat /\ Retention \in Nat
    BY TimesFacts DEF Typed
  <2>5. j > pruned /\ rows[j].ts + Retention >= now
    BY <1>2, <2>1, <2>2, <2>3, <2>4
  <2> QED
    BY <2>5, PositionFacts DEF Window
<1> QED
  BY <1>1, <1>2

\* An offline row has a first one of its outage.
LEMMA FirstOfOutage ==
    ASSUME Typed, NEW i \in Positions, ~rows[i].on
    PROVE  \E a \in 1 .. i : /\ \A k \in a .. i : ~rows[k].on
                             /\ a = 1 \/ rows[a - 1].on
<1> DEFINE A == {a \in 1 .. i : \A k \in a .. i : ~rows[k].on}
<1>1. i \in Nat /\ i >= 1
  BY PositionFacts DEF Positions
<1>2. i \in A
  BY <1>1
<1>3. A \in SUBSET Nat /\ A # {}
  BY <1>1, <1>2
<1>4. PICK a \in A : \A b \in A : a <= b
  BY <1>3, LeastExists
<1>5. ASSUME a # 1, ~rows[a - 1].on
      PROVE  FALSE
  <2>1. a - 1 \in 1 .. i
    BY <1>1, <1>4, <1>5
  <2>2. ASSUME NEW k \in a - 1 .. i PROVE ~rows[k].on
    <3>1. k = a - 1 \/ k \in a .. i
      BY <1>1, <1>4
    <3> QED
      BY <1>4, <1>5, <3>1
  <2>3. a - 1 \in A
    BY <2>1, <2>2
  <2> QED
    BY <1>1, <1>4, <2>3
<1> QED
  BY <1>4, <1>5

\* The rows of a device between an offline row and a later online one include the first
\* online one.
LEMMA FirstBack ==
    ASSUME Typed, NEW i \in Positions, ~rows[i].on,
           NEW j \in Positions, i < j, rows[j].on
    PROVE  \E f \in Positions : /\ i < f /\ f <= j /\ rows[f].on
                                /\ \A k \in i .. f - 1 : ~rows[k].on
<1> DEFINE B == {k \in Positions : i < k /\ rows[k].on}
<1>1. B \in SUBSET Nat /\ B # {} /\ j \in B
  BY PositionFacts
<1>2. PICK f \in B : \A k \in B : f <= k
  BY <1>1, LeastExists
<1>3. f <= j
  BY <1>1, <1>2
<1>4. ASSUME NEW k \in i .. f - 1 PROVE ~rows[k].on
  <2>1. k \in Positions /\ k < f /\ (k = i \/ i < k)
    BY <1>2, PositionFacts DEF Positions
  <2>2. CASE k = i
    BY <2>2
  <2>3. CASE i < k
    BY <1>2, <2>1, <2>3, PositionFacts
  <2> QED
    BY <2>1, <2>2, <2>3
<1> QED
  BY <1>2, <1>3, <1>4

\* Where an outage that is seen to be over ends: the time of the first online row.
LEMMA EndFacts ==
    ASSUME Typed, Ordered, NEW i \in Window, ~rows[i].on
    PROVE  /\ OutageFrom(i, Window) \in Outage
           /\ OutageFrom(i, Window).start = rows[i].ts
           /\ OutageFrom(i, Window).end # Ongoing =>
                \E f \in Positions : /\ i < f /\ rows[f].on
                                     /\ \A k \in i .. f - 1 : ~rows[k].on
                                     /\ OutageFrom(i, Window).end = rows[f].ts
           /\ (\E j \in Window : j > i /\ rows[j].on) => OutageFrom(i, Window).end # Ongoing
<1> DEFINE back == {rows[j].ts : j \in {k \in Window : k > i /\ rows[k].on}}
           end == IF back = {} THEN Ongoing ELSE Min(back)
<1>1. OutageFrom(i, Window) = [start |-> rows[i].ts, end |-> end]
  BY DEF OutageFrom
<1>2. Window \subseteq Positions
  BY WindowFacts
<1>3. back \subseteq Times
  BY <1>2, PositionFacts
<1>4. back # {} => Min(back) \in back /\ \A t \in back : Min(back) <= t
  BY <1>3, TimesFacts, MinFacts
<1>5. rows[i].ts \in Times /\ end \in Times \cup {Ongoing}
  BY <1>2, <1>3, <1>4, PositionFacts
<1>6. OutageFrom(i, Window) \in Outage /\ OutageFrom(i, Window).start = rows[i].ts
      /\ OutageFrom(i, Window).end = end
  BY <1>1, <1>5 DEF Outage
<1>7. (\E j \in Window : j > i /\ rows[j].on) => end # Ongoing
  BY <1>3, <1>4, TimesFacts
<1>8. ASSUME end # Ongoing
      PROVE  \E f \in Positions : /\ i < f /\ rows[f].on
                                  /\ \A k \in i .. f - 1 : ~rows[k].on
                                  /\ end = rows[f].ts
  <2>1. end \in back /\ \A t \in back : end <= t
    BY <1>4, <1>8
  <2>2. PICK j \in Window : j > i /\ rows[j].on /\ rows[j].ts = end
    BY <2>1
  <2>3. i \in Positions /\ j \in Positions /\ i < j
    BY <1>2, <2>2, PositionFacts
  <2>4. PICK f \in Positions : i < f /\ f <= j /\ rows[f].on /\ \A k \in i .. f - 1 : ~rows[k].on
    BY <2>2, <2>3, FirstBack
  <2>5. f \in Window
    BY <2>3, <2>4, WindowFacts, PositionFacts
  <2>6. f > i
    BY <2>3, <2>4, PositionFacts
  <2>7. rows[f].ts \in back
    BY <2>4, <2>5, <2>6
  <2>8. end <= rows[f].ts
    BY <2>1, <2>7
  <2>9. rows[f].ts <= rows[j].ts
    BY <2>3, <2>4 DEF Ordered
  <2>10. rows[f].ts \in Nat /\ rows[j].ts \in Nat
    BY <2>3, <2>4, PositionFacts
  <2> HIDE DEF end, back
  <2>11. end = rows[f].ts
    BY <2>2, <2>8, <2>9, <2>10
  <2> QED
    BY <2>4, <2>11
<1> HIDE DEF end
<1> QED
  BY <1>6, <1>7, <1>8

\* What the detector finds to be over is the rest of an outage there was.
LEMMA DetectedIsReal ==
    ASSUME Typed, Ordered, NEW h \in Recovered(Detect)
    PROVE  /\ h \in Outage
           /\ \E o \in Over : h.end = rows[o[2]].ts /\ rows[o[1]].ts <= h.start /\ h.start <= h.end
<1>1. PICK i \in Window : ~rows[i].on /\ h = OutageFrom(i, Window)
  BY DEF Detect, Recovered
<1>2. h.end # Ongoing
  BY DEF Recovered
<1>3. h \in Outage /\ h.start = rows[i].ts
  BY <1>1, EndFacts
<1>4. PICK f \in Positions : i < f /\ rows[f].on /\ (\A k \in i .. f - 1 : ~rows[k].on)
                            /\ h.end = rows[f].ts
  BY <1>1, <1>2, EndFacts
<1>5. i \in Positions
  BY WindowFacts
<1>6. PICK a \in 1 .. i : (\A k \in a .. i : ~rows[k].on) /\ (a = 1 \/ rows[a - 1].on)
  BY <1>1, <1>5, FirstOfOutage
<1>7. a \in Positions /\ a <= i /\ a < f /\ i <= f
  BY <1>4, <1>5, <1>6, PositionFacts DEF Positions
<1>8. \A k \in a .. f - 1 : ~rows[k].on
  <2> SUFFICES ASSUME NEW k \in a .. f - 1 PROVE ~rows[k].on
    OBVIOUS
  <2>1. k \in a .. i \/ k \in i .. f - 1
    BY <1>4, <1>5, <1>6, PositionFacts
  <2> QED
    BY <1>4, <1>6, <2>1
<1> DEFINE o == <<a, f>>
<1>9. o \in Over
  BY <1>4, <1>6, <1>7, <1>8 DEF Over, Positions
<1>10. rows[a].ts <= rows[i].ts /\ rows[i].ts <= rows[f].ts
  BY <1>4, <1>5, <1>7 DEF Ordered
<1>11. h.end = rows[o[2]].ts /\ rows[o[1]].ts <= h.start /\ h.start <= h.end
  BY <1>3, <1>4, <1>10
<1> QED
  BY <1>3, <1>9, <1>11

\* An outage in reach is detected, with the time of its own first row.
LEMMA InReachIsDetected ==
    ASSUME Typed, Ordered, PrunedRows, NEW o \in Over, InReach(o)
    PROVE  \E h \in Recovered(Detect) : h.start = rows[o[1]].ts
<1> DEFINE i == o[1]
           j == o[2]
<1>1. /\ i \in Positions /\ j \in Positions /\ i < j /\ rows[j].on
      /\ \A k \in i .. j - 1 : ~rows[k].on
      /\ i = 1 \/ rows[i - 1].on
  BY DEF Over, Positions
<1>2. rows[i].ts + Retention >= now /\ Len(rows) - i < Cap
  BY DEF InReach
<1> HIDE DEF i, j
<1>3. ~rows[i].on
  BY <1>1, PositionFacts
<1>4. i > pruned
  <2> SUFFICES ASSUME ~(i > pruned) PROVE FALSE
    OBVIOUS
  <2>1. i \in 1 .. pruned
    BY <1>1, PositionFacts DEF Positions, Typed
  <2>2. rows[i].ts + Retention < now \/ Len(rows) - i >= Cap
    BY <2>1 DEF PrunedRows
  <2>3. rows[i].ts \in Nat /\ now \in Nat /\ Len(rows) \in Nat /\ i \in Nat
    BY <1>1, PositionFacts, TimesFacts DEF Typed
  <2> QED
    BY <1>2, <2>2, <2>3, TimesFacts
<1>5. i \in Window
  BY <1>1, <1>2, <1>4, PositionFacts DEF Window
<1>6. j \in Window /\ j > i
  BY <1>1, <1>5, WindowFacts, PositionFacts
<1>7. i - 1 \in Window => rows[i - 1].on
  <2>1. 0 \notin Positions
    BY PositionFacts DEF Positions
  <2>2. i - 1 \in Window => i # 1
    BY <2>1, WindowFacts
  <2> QED
    BY <1>1, <2>2
<1> DEFINE h == OutageFrom(i, Window)
<1>8. h \in Detect
  BY <1>3, <1>5, <1>7 DEF Detect
<1>9. h.end # Ongoing /\ h.start = rows[i].ts
  BY <1>1, <1>3, <1>5, <1>6, EndFacts
<1>10. h \in Recovered(Detect)
  BY <1>8, <1>9 DEF Recovered
<1> QED
  BY <1>9, <1>10 DEF i

-----------------------------------------------------------------------------
(* The log and the clock.                                                   *)

\* A row more leaves the outages that are over as they are.
LEMMA WriteKeeps ==
    ASSUME IInv, Write
    PROVE  IInv'
<1> USE DEF IInv
<1>1. PICK on \in BOOLEAN : rows' = Append(rows, [ts |-> now, on |-> on])
  BY DEF Write
<1> DEFINE x == [ts |-> now, on |-> on]
           n == Len(rows)
<1>2. x \in Row /\ x.ts = now
  BY DEF Typed, Row
<1>3. Len(rows) < MaxRows /\ UNCHANGED <<now, pruned, history, ticket, claims, mails, run, due, upsets>>
  BY DEF Write, tables
<1> HIDE DEF x
<1>4. /\ rows' \in Seq(Row) /\ Len(rows') = n + 1
      /\ \A i \in 1 .. n : rows'[i] = rows[i]
      /\ rows'[n + 1] = x
  BY <1>1, <1>2, AppendProperties DEF x, Typed
<1>5. n \in Nat /\ MaxRows \in Nat
  BY PositionFacts, OutagesAssumption
<1>6. Typed'
  BY <1>3, <1>4, <1>5 DEF Typed
<1>7. Positions = 1 .. n /\ Positions' = 1 .. n + 1
  BY <1>4 DEF Positions
<1> HIDE DEF n
<1>8. \A i \in Positions' : i \in Positions \/ i = n + 1
  BY <1>5, <1>7
<1>9. Ordered'
  <2>1. \A i \in Positions' : rows'[i].ts <= now
    <3> SUFFICES ASSUME NEW i \in Positions' PROVE rows'[i].ts <= now
      OBVIOUS
    <3>1. CASE i \in Positions
      BY <1>4, <1>7, <3>1 DEF RecordInv, Ordered
    <3>2. CASE i = n + 1
      BY <1>2, <1>4, <3>2, TimesFacts DEF Typed
    <3> QED
      BY <1>8, <3>1, <3>2
  <2>2. ASSUME NEW i \in Positions', NEW j \in Positions', i <= j
        PROVE  rows'[i].ts <= rows'[j].ts
    <3>1. CASE j = n + 1
      BY <1>2, <1>4, <2>1, <3>1
    <3>2. CASE j \in Positions
      <4>1. i \in Positions
        BY <1>5, <1>7, <2>2, <3>2
      <4> QED
        BY <1>4, <1>7, <2>2, <3>2, <4>1 DEF RecordInv, Ordered
    <3> QED
      BY <1>8, <3>1, <3>2
  <2> QED
    BY <1>3, <2>1, <2>2 DEF Ordered
<1>10. PrunedRows'
  <2> SUFFICES ASSUME NEW m \in 1 .. pruned
               PROVE  rows'[m].ts + Retention < now \/ Len(rows') - m >= Cap
    BY <1>3 DEF PrunedRows
  <2>1. m \in 1 .. n /\ m \in Nat
    BY <1>5 DEF n, Typed
  <2>2. rows'[m] = rows[m]
    BY <1>4, <2>1
  <2>3. rows[m].ts + Retention < now \/ n - m >= Cap
    BY DEF RecordInv, PrunedRows, n
  <2>4. n - m >= Cap => n + 1 - m >= Cap
    BY <1>5, <2>1, TimesFacts
  <2>5. Len(rows') = n + 1
    BY <1>4
  <2>6. n - m >= Cap => Len(rows') - m >= Cap
    BY <1>5, <2>1, <2>4, <2>5, TimesFacts
  <2> QED
    BY <2>2, <2>3, <2>6
<1>11. Over \subseteq Over'
  <2> SUFFICES ASSUME NEW o \in Over PROVE o \in Over'
    OBVIOUS
  <2> DEFINE a == o[1]
             b == o[2]
  <2>1. /\ o = <<a, b>> /\ a \in 1 .. n /\ b \in 1 .. n /\ a < b /\ rows[b].on
        /\ \A k \in a .. b - 1 : ~rows[k].on
        /\ a = 1 \/ rows[a - 1].on
    BY DEF Over, n
  <2> HIDE DEF a, b
  <2>2. a \in 1 .. n + 1 /\ b \in 1 .. n + 1 /\ rows'[b].on
    BY <1>4, <1>5, <2>1
  <2>3. \A k \in a .. b - 1 : ~rows'[k].on
    <3> SUFFICES ASSUME NEW k \in a .. b - 1 PROVE ~rows'[k].on
      OBVIOUS
    <3>1. k \in 1 .. n
      BY <1>5, <2>1
    <3> QED
      BY <1>4, <2>1, <3>1
  <2>4. a = 1 \/ rows'[a - 1].on
    <3>1. a # 1 => a - 1 \in 1 .. n
      BY <1>5, <2>1
    <3> QED
      BY <1>4, <2>1, <3>1
  <2>5. o \in (1 .. n + 1) \X (1 .. n + 1) /\ o[1] = a /\ o[2] = b
    BY <2>1, <2>2
  <2> QED
    BY <1>4, <2>1, <2>2, <2>3, <2>4, <2>5 DEF Over
<1>12. \A o \in Over : rows'[o[1]] = rows[o[1]] /\ rows'[o[2]] = rows[o[2]]
  BY <1>4 DEF Over, n
<1>13. HistorySound'
  BY <1>3, <1>11, <1>12 DEF RecordInv, HistorySound
<1>14. (due \subseteq Over)' /\ OneRowEach'
  BY <1>3, <1>11 DEF RecordInv, OneRowEach
<1>15. NothingSlips'
  <2>1. due \subseteq Over
    BY DEF RecordInv
  <2> QED
    BY <1>3, <1>12, <2>1 DEF RecordInv, NothingSlips
<1>16. RunsInStep' /\ Claimed' /\ OneMail'
  BY <1>3 DEF RunsInStep, Claimed, OneMail
<1> QED
  BY <1>6, <1>9, <1>10, <1>13, <1>14, <1>15, <1>16 DEF RecordInv

LEMMA PruneKeeps ==
    ASSUME IInv, PruneStatusLog
    PROVE  IInv'
<1> USE DEF IInv
<1>1. PICK k \in pruned + 1 .. Len(rows) :
        /\ \A m \in 1 .. k : rows[m].ts + Retention < now \/ Len(rows) - m >= Cap
        /\ pruned' = k
  BY DEF PruneStatusLog
<1>2. UNCHANGED <<now, rows, history, ticket, claims, mails, run, due, upsets>>
  BY DEF PruneStatusLog, tables
<1>3. pruned' \in 0 .. Len(rows)
  BY <1>1, PositionFacts DEF Typed
<1>4. Typed'
  BY <1>2, <1>3 DEF Typed
<1>5. PrunedRows'
  BY <1>1, <1>2 DEF PrunedRows
<1>6. RecordInv'
  BY <1>2, <1>5 DEF RecordInv, Ordered, Positions, Over, HistorySound, OneRowEach, NothingSlips
<1>7. RunsInStep' /\ Claimed' /\ OneMail'
  BY <1>2 DEF RunsInStep, Claimed, OneMail
<1> QED
  BY <1>4, <1>6, <1>7

LEMMA PassKeeps ==
    ASSUME IInv, Pass
    PROVE  IInv'
<1> USE DEF IInv
<1>1. now < MaxTime /\ now' = now + 1
      /\ UNCHANGED <<rows, pruned, history, ticket, claims, mails, run, due, upsets>>
  BY DEF Pass, tables, log
<1>2. now \in Nat /\ now' \in Nat /\ now' \in Times
  BY <1>1, TimesFacts DEF Typed, Times
<1>3. Typed'
  BY <1>1, <1>2 DEF Typed
<1>4. Ordered'
  <2>1. \A i \in Positions : rows[i].ts <= now + 1
    BY <1>2, PositionFacts DEF RecordInv, Ordered
  <2> QED
    BY <1>1, <2>1 DEF RecordInv, Ordered, Positions
<1>5. PrunedRows'
  <2> SUFFICES ASSUME NEW m \in 1 .. pruned
               PROVE  rows[m].ts + Retention < now + 1 \/ Len(rows) - m >= Cap
    BY <1>1 DEF PrunedRows
  <2>1. m \in Positions
    BY PositionFacts DEF Positions, Typed
  <2>2. rows[m].ts \in Nat
    BY <2>1, PositionFacts
  <2>3. rows[m].ts + Retention < now \/ Len(rows) - m >= Cap
    BY DEF RecordInv, PrunedRows
  <2> QED
    BY <1>2, <2>2, <2>3, TimesFacts
<1>6. (due \subseteq Over)' /\ HistorySound' /\ OneRowEach'
  BY <1>1 DEF RecordInv, Over, HistorySound, OneRowEach
<1>7. NothingSlips'
  <2> SUFFICES ASSUME NEW o \in due, rows[o[1]].ts + HistoryRetention >= now + 1
               PROVE  \E h \in history : h.start = rows[o[1]].ts
    BY <1>1 DEF NothingSlips
  <2>1. o[1] \in Positions
    BY DEF RecordInv, Over, Positions
  <2>2. rows[o[1]].ts + HistoryRetention >= now
    BY <1>2, <2>1, PositionFacts, TimesFacts
  <2> QED
    BY <2>2 DEF RecordInv, NothingSlips
<1>8. RunsInStep' /\ Claimed' /\ OneMail'
  BY <1>1 DEF RunsInStep, Claimed, OneMail
<1> QED
  BY <1>3, <1>4, <1>5, <1>6, <1>7, <1>8 DEF RecordInv

-----------------------------------------------------------------------------
(* The recorder.                                                            *)

LEMMA RecorderKeeps ==
    ASSUME IInv, Record \/ RecordFails
    PROVE  IInv'
<1> USE DEF IInv
<1>1. PICK new \in Inserts :
        /\ history' \subseteq history \cup new
        /\ \/ /\ history' = (history \cup new) \ Expired(history \cup new)
              /\ due' = due \cup {o \in Over : InReach(o)}
           \/ history \ Expired(history) \subseteq history' /\ due' = due
  <2>1. CASE Record
    BY <2>1 DEF Record
  <2>2. CASE RecordFails
    <3>1. PICK new \in Inserts :
            \/ \E t \in Times : history' = history \cup {o \in new : o.start < t}
            \/ \E gone \in SUBSET Expired(history \cup new) : history' = (history \cup new) \ gone
      BY <2>2 DEF RecordFails
    <3>2. history' \subseteq history \cup new
      BY <3>1
    <3>3. history \ Expired(history) \subseteq history'
      BY <3>1 DEF Expired
    <3> QED
      BY <2>2, <3>2, <3>3 DEF RecordFails
  <2> QED
    BY <2>1, <2>2
<1>2. UNCHANGED <<now, rows, pruned, ticket, claims, mails, run>> /\ upsets' \in 0 .. MaxUpsets
  BY TimesFacts DEF Record, RecordFails, Upset, Typed, log
<1>3. new \subseteq Missing /\ (\A o, p \in new : o.start = p.start => o = p)
      /\ \A o \in Missing : \E p \in new : p.start = o.start
  BY DEF Inserts
<1>4. \A h \in Missing : h \in Recovered(Detect) /\ h \in Outage /\ ~\E k \in history : k.start = h.start
  BY DetectedIsReal DEF Missing, RecordInv
<1>5. Typed'
  BY <1>1, <1>2, <1>3, <1>4 DEF Typed
<1>6. Ordered' /\ PrunedRows' /\ Over' = Over
  BY <1>2 DEF RecordInv, Ordered, Positions, PrunedRows, Over
<1>7. (due \subseteq Over)'
  BY <1>1, <1>6 DEF RecordInv
<1>8. HistorySound'
  <2> SUFFICES ASSUME NEW h \in history'
               PROVE  \E o \in Over :
                        h.end = rows[o[2]].ts /\ rows[o[1]].ts <= h.start /\ h.start <= h.end
    BY <1>2, <1>6 DEF HistorySound
  <2>1. CASE h \in history
    BY <2>1 DEF RecordInv, HistorySound
  <2>2. CASE h \in new
    BY <1>3, <1>4, <2>2, DetectedIsReal DEF RecordInv
  <2> QED
    BY <1>1, <2>1, <2>2
<1>9. OneRowEach'
  <2> SUFFICES ASSUME NEW h \in history', NEW k \in history', h.start = k.start PROVE h = k
    BY DEF OneRowEach
  <2>1. CASE h \in history /\ k \in history
    BY <2>1 DEF RecordInv, OneRowEach
  <2>2. CASE h \in new /\ k \in new
    BY <1>3, <2>2
  <2> QED
    BY <1>1, <1>3, <1>4, <2>1, <2>2
<1>10. NothingSlips'
  <2> SUFFICES ASSUME NEW o \in due', rows[o[1]].ts + HistoryRetention >= now
               PROVE  \E h \in history' : h.start = rows[o[1]].ts
    BY <1>2 DEF NothingSlips
  <2>1. o[1] \in Positions /\ rows[o[1]].ts \in Nat /\ now \in Nat
    BY <1>6, <1>7, PositionFacts, TimesFacts DEF Over, Positions, Typed
  <2>2. \A h : h.start = rows[o[1]].ts => h \notin Expired(history) /\ h \notin Expired(history \cup new)
    BY <2>1, TimesFacts DEF Expired
  <2>3. CASE o \in due
    <3>1. PICK h \in history : h.start = rows[o[1]].ts
      BY <2>3 DEF RecordInv, NothingSlips
    <3> QED
      BY <1>1, <2>2, <3>1
  <2>4. CASE o \notin due
    <3>1. o \in Over /\ InReach(o) /\ history' = (history \cup new) \ Expired(history \cup new)
      BY <1>1, <2>4
    <3>2. PICK h \in Recovered(Detect) : h.start = rows[o[1]].ts
      BY <3>1, InReachIsDetected DEF RecordInv
    <3>3. \E k \in history \cup new : k.start = rows[o[1]].ts
      BY <1>3, <3>2 DEF Missing
    <3> QED
      BY <2>2, <3>1, <3>3
  <2> QED
    BY <2>3, <2>4
<1>11. RunsInStep' /\ Claimed' /\ OneMail'
  BY <1>2 DEF RunsInStep, Claimed, OneMail
<1> QED
  BY <1>5, <1>6, <1>7, <1>8, <1>9, <1>10, <1>11 DEF RecordInv

-----------------------------------------------------------------------------
(* The escalation job.                                                      *)

RecordUnchanged == UNCHANGED <<now, rows, pruned, due, history>>

LEMMA RecordUnchangedKeeps ==
    ASSUME RecordInv, RecordUnchanged
    PROVE  RecordInv'
BY DEF RecordInv, RecordUnchanged, Ordered, Positions, PrunedRows, Over, HistorySound,
       OneRowEach, NothingSlips

\* Where a run goes on, and with what.
LEMMA AfterFacts ==
    ASSUME NEW q \in Run
    PROVE  /\ After(q) \in Run /\ After(q).stage \in {"idle", "resolve", "claim"}
           /\ After(q).stage = "idle" => After(q) = Idle
           /\ After(q).stage = "resolve" => After(q).seen # {}
           /\ After(q).stage = "claim" => After(q).todo # {}
<1>1. Idle \in Run /\ Idle.stage = "idle"
  BY DEF Idle, Run, Stages
<1>2. CASE q.seen # {}
  <2>1. After(q) = [q EXCEPT !.stage = "resolve"]
    BY <1>2 DEF After
  <2> QED
    BY <1>2, <2>1 DEF Run, Stages
<1>3. CASE q.seen = {} /\ q.todo # {}
  <2>1. After(q) = [q EXCEPT !.stage = "claim"]
    BY <1>3 DEF After
  <2> QED
    BY <1>3, <2>1 DEF Run, Stages
<1>4. CASE q.seen = {} /\ q.todo = {}
  BY <1>1, <1>4 DEF After
<1> QED
  BY <1>2, <1>3, <1>4

\* A run that does not go on to the mail keeps to its stages.
LEMMA RunChangeKeeps ==
    ASSUME IInv, NEW r \in Runs, NEW q \in Run, run' = [run EXCEPT ![r] = q],
           q.stage # "send",
           q.stage = "idle" => q = Idle,
           q.stage = "resolve" => q.seen # {},
           q.stage = "claim" => q.todo # {},
           UNCHANGED <<now, rows, pruned, due, history, claims>>,
           ticket' \in [Times -> Statuses \cup {"none"}], mails' \in [Times -> Nat],
           upsets' \in 0 .. MaxUpsets,
           \A s \in Times : mails'[s] > 0 => s \in claims,
           \A s \in Runs \ {r} : run[s].stage = "send" => mails'[Min(run[s].todo)] = mails[Min(run[s].todo)],
           \A s \in Times : mails'[s] <= 1
    PROVE  IInv'
<1> USE DEF IInv
<1>1. RecordInv'
  BY RecordUnchangedKeeps DEF RecordUnchanged
<1>2. Typed'
  BY DEF Typed
<1>3. OneMail'
  BY <1>1 DEF OneMail
<1>4. \A s \in Runs : run'[s] = IF s = r THEN q ELSE run[s]
  BY DEF Typed
<1>5. RunsInStep'
  BY <1>4 DEF RunsInStep
<1>6. Claimed'
  BY <1>4 DEF Claimed
<1> QED
  BY <1>1, <1>2, <1>3, <1>5, <1>6

LEMMA StartKeeps ==
    ASSUME IInv, NEW r \in Runs, StartOutage(r)
    PROVE  IInv'
<1> USE DEF IInv
<1> DEFINE q == Work
<1>1. run' = [run EXCEPT ![r] = q] /\ UNCHANGED <<now, rows, pruned, tables, due, upsets>>
  BY DEF StartOutage, Begin, log
<1>2. \A h \in Detect : h.start \in Times
  <2> SUFFICES ASSUME NEW h \in Detect PROVE h.start \in Times
    OBVIOUS
  <2>1. PICK i \in Window : ~rows[i].on /\ h = OutageFrom(i, Window)
    BY DEF Detect
  <2> QED
    BY <2>1, EndFacts DEF RecordInv, Outage
<1>3. q \in Run /\ q.stage = "open"
  BY <1>2 DEF Work, Recovered, Breaching, Run, Stages
<1> HIDE DEF q
<1> QED
  BY <1>1, <1>3, RunChangeKeeps DEF tables, Typed, Claimed, OneMail

LEMMA TodoKey ==
    ASSUME Typed, RunsInStep, NEW r \in Runs, run[r].stage \in {"claim", "send"}
    PROVE  Min(run[r].todo) \in Times
<1>1. run[r].todo \subseteq Times /\ run[r].todo # {}
  BY DEF Typed, RunsInStep, Run
<1> QED
  BY <1>1, TimesFacts, MinFacts

\* The tickets: whatever they become, claims and mails stay.
LEMMA TicketStepKeeps ==
    ASSUME IInv, NEW r \in Runs, OpenTicket(r) \/ ResolveTicket(r)
    PROVE  IInv'
<1> USE DEF IInv
<1>1. CASE OpenTicket(r)
  <2>1. run' = [run EXCEPT ![r] = After(run[r])] /\ UNCHANGED <<now, rows, pruned, due, upsets>>
        /\ UNCHANGED <<history, claims, mails>>
    BY <1>1 DEF OpenTicket, GoOn, log
  <2>2. run[r] \in Run
    BY DEF Typed
  <2>3. ticket' \in [Times -> Statuses \cup {"none"}]
    BY <1>1 DEF OpenTicket, Typed, Statuses
  <2> QED
    BY <2>1, <2>2, <2>3, AfterFacts, RunChangeKeeps DEF Typed, Claimed, OneMail
<1>2. CASE ResolveTicket(r)
  <2> DEFINE q == [run[r] EXCEPT !.seen = @ \ {Min(run[r].seen)}]
  <2>1. run' = [run EXCEPT ![r] = After(q)] /\ UNCHANGED <<now, rows, pruned, due, upsets>>
        /\ UNCHANGED <<history, claims, mails>>
    BY <1>2 DEF ResolveTicket, GoOn, log
  <2>2. q \in Run
    BY DEF Typed, Run
  <2>3. ticket' \in [Times -> Statuses \cup {"none"}]
    BY <1>2 DEF ResolveTicket, Typed, Statuses
  <2> HIDE DEF q
  <2> QED
    BY <2>1, <2>2, <2>3, AfterFacts, RunChangeKeeps DEF Typed, Claimed, OneMail
<1> QED
  BY <1>1, <1>2

\* A key is claimed by the run that inserts it; a run that meets it there goes on without.
LEMMA ClaimKeeps ==
    ASSUME IInv, NEW r \in Runs, Claim(r)
    PROVE  IInv'
<1> USE DEF IInv
<1> DEFINE key == Min(run[r].todo)
<1>1. run[r].stage = "claim" /\ UNCHANGED <<history, ticket, mails>> /\ run[r] \in Run
  BY DEF Claim, Typed
<1>2. key \in Times
  BY <1>1, TodoKey
<1>3. CASE key \notin claims /\ claims' = claims \cup {key}
           /\ run' = [run EXCEPT ![r].stage = "send"]
           /\ UNCHANGED <<now, rows, pruned, due, upsets>>
  <2> DEFINE q == [run[r] EXCEPT !.stage = "send"]
  <2>1. q \in Run /\ q.stage = "send" /\ q.todo = run[r].todo
    BY <1>1 DEF Run, Stages
  <2>2. run' = [run EXCEPT ![r] = q]
    BY <1>1, <1>3 DEF Typed, Run
  <2> HIDE DEF q
  <2>3. \A s \in Runs : run'[s] = IF s = r THEN q ELSE run[s]
    BY <2>2 DEF Typed
  <2>4. Typed'
    BY <1>1, <1>2, <1>3, <2>1, <2>2 DEF Typed
  <2>5. RecordInv'
    BY <1>1, <1>3, RecordUnchangedKeeps DEF RecordUnchanged
  <2>6. OneMail'
    BY <1>1, <2>5 DEF OneMail
  <2>7. RunsInStep'
    BY <1>1, <2>1, <2>3 DEF RunsInStep
  <2>8. mails[key] = 0
    BY <1>2, <1>3 DEF Claimed, Typed
  <2>9. Min(q.todo) = key
    BY <2>1
  <2>c. key \notin claims /\ claims' = claims \cup {key}
    BY <1>3
  <2> HIDE DEF key
  <2>10. \A s \in Times : mails'[s] > 0 => s \in claims'
    BY <1>1, <2>c DEF Claimed
  <2>11. \A s \in Runs : run'[s].stage = "send" =>
           Min(run'[s].todo) \in claims' /\ mails'[Min(run'[s].todo)] = 0
    BY <1>1, <2>c, <2>3, <2>8, <2>9 DEF Claimed
  <2>12. \A s \in Runs \ {r} : run[s].stage = "send" => Min(run[s].todo) # key
    BY <2>c DEF Claimed
  <2>13. \A s, t \in Runs : run'[s].stage = "send" /\ run'[t].stage = "send" /\ s # t =>
           Min(run'[s].todo) # Min(run'[t].todo)
    BY <2>3, <2>9, <2>12 DEF Claimed
  <2>14. Claimed'
    BY <2>10, <2>11, <2>13 DEF Claimed
  <2> QED
    BY <2>4, <2>5, <2>6, <2>7, <2>14
<1>4. CASE UNCHANGED claims /\ GoOn(r, [run[r] EXCEPT !.todo = @ \ {Min(run[r].todo)}])
  <2> DEFINE q == [run[r] EXCEPT !.todo = @ \ {Min(run[r].todo)}]
  <2>1. run' = [run EXCEPT ![r] = After(q)] /\ UNCHANGED <<now, rows, pruned, due, upsets>>
    BY <1>4 DEF GoOn, log
  <2>2. q \in Run
    BY <1>1 DEF Run
  <2> HIDE DEF q
  <2> QED
    BY <1>1, <1>4, <2>1, <2>2, AfterFacts, RunChangeKeeps DEF Typed, Claimed, OneMail
<1> QED
  BY <1>3, <1>4 DEF Claim, log

\* The mail goes out under a claim that no other run holds.
LEMMA SendKeeps ==
    ASSUME IInv, NEW r \in Runs, Send(r)
    PROVE  IInv'
<1> USE DEF IInv
<1> DEFINE key == Min(run[r].todo)
           q == [run[r] EXCEPT !.todo = @ \ {Min(run[r].todo)}]
<1>1. /\ run[r].stage = "send" /\ UNCHANGED <<history, ticket, claims>>
      /\ mails' = [mails EXCEPT ![key] = @ + 1]
      /\ run' = [run EXCEPT ![r] = After(q)] /\ UNCHANGED <<now, rows, pruned, due, upsets>>
  BY DEF Send, GoOn, log
<1>2. key \in Times /\ key \in claims /\ mails[key] = 0
  BY <1>1, TodoKey DEF Claimed
<1>3. q \in Run
  BY DEF Typed, Run
<1>4. \A s \in Runs \ {r} : run[s].stage = "send" => Min(run[s].todo) # key
  BY <1>1 DEF Claimed
<1> HIDE DEF key, q
<1>5. mails' \in [Times -> Nat] /\ \A s \in Times : mails'[s] = IF s = key THEN 1 ELSE mails[s]
  BY <1>1, <1>2 DEF Typed
<1>6. \A s \in Times : (mails'[s] > 0 => s \in claims) /\ mails'[s] <= 1
  BY <1>2, <1>5 DEF Claimed, OneMail
<1>7. \A s \in Runs \ {r} : run[s].stage = "send" => mails'[Min(run[s].todo)] = mails[Min(run[s].todo)]
  BY <1>1, <1>4
<1>8. /\ After(q) \in Run /\ After(q).stage \in {"idle", "resolve", "claim"}
      /\ After(q).stage = "idle" => After(q) = Idle
      /\ After(q).stage = "resolve" => After(q).seen # {}
      /\ After(q).stage = "claim" => After(q).todo # {}
  BY <1>3, AfterFacts
<1> QED
  BY <1>1, <1>5, <1>6, <1>7, <1>8, RunChangeKeeps DEF Typed

LEMMA FaultKeeps ==
    ASSUME IInv, Restart \/ \E r \in Runs : RunFails(r)
    PROVE  IInv'
<1> USE DEF IInv
<1>1. ASSUME Upset PROVE upsets' \in 0 .. MaxUpsets
  BY <1>1, OutagesAssumption DEF Upset, Typed
<1>2. Idle \in Run /\ Idle.stage = "idle"
  BY DEF Idle, Run, Stages
<1>3. CASE Restart
  <2>1. run' = [r \in Runs |-> Idle] /\ UNCHANGED <<now, rows, pruned, tables, due>>
    BY <1>3 DEF Restart, log
  <2>2. RecordInv'
    BY <2>1, RecordUnchangedKeeps DEF RecordUnchanged, tables
  <2>3. Typed'
    BY <1>1, <1>2, <1>3, <2>1 DEF Restart, Typed, tables
  <2>4. OneMail' /\ RunsInStep' /\ Claimed'
    BY <1>2, <2>1, <2>2 DEF OneMail, RunsInStep, Claimed, tables
  <2> QED
    BY <2>2, <2>3, <2>4
<1>4. ASSUME NEW r \in Runs, RunFails(r)
      PROVE  IInv'
  <2> DEFINE p == [run[r] EXCEPT !.seen = {}]
             q == IF run[r].stage \in {"open", "resolve"} THEN After(p) ELSE Idle
  <2>1. run' = [run EXCEPT ![r] = q] /\ UNCHANGED <<now, rows, pruned, tables, due>>
    BY <1>4 DEF RunFails, log
  <2>2. p \in Run
    BY DEF Typed, Run
  <2> HIDE DEF p
  <2>3. /\ q \in Run /\ q.stage \in {"idle", "resolve", "claim"}
        /\ q.stage = "idle" => q = Idle
        /\ q.stage = "resolve" => q.seen # {}
        /\ q.stage = "claim" => q.todo # {}
    BY <1>2, <2>2, AfterFacts
  <2> HIDE DEF q
  <2>4. upsets' \in 0 .. MaxUpsets
    BY <1>1, <1>4 DEF RunFails, log
  <2> QED
    BY <2>1, <2>3, <2>4, RunChangeKeeps DEF tables, Typed, Claimed, OneMail
<1> QED
  BY <1>3, <1>4

-----------------------------------------------------------------------------
(* The specification.                                                       *)

LEMMA PatchKeeps ==
    ASSUME IInv, NEW s \in Times, NEW status \in Statuses, Patch(s, status)
    PROVE  IInv'
<1> USE DEF IInv
<1>1. /\ ticket' = [ticket EXCEPT ![s] = status] /\ Upset
      /\ UNCHANGED <<now, log, history, claims, mails, run, due>>
  BY DEF Patch
<1>2. RecordInv'
  BY <1>1, RecordUnchangedKeeps DEF RecordUnchanged, log
<1>3. upsets' \in 0 .. MaxUpsets
  BY <1>1, TimesFacts DEF Upset, Typed
<1>4. Typed'
  BY <1>1, <1>3 DEF Typed, log
<1>5. OneMail' /\ RunsInStep' /\ Claimed'
  BY <1>1 DEF OneMail, RunsInStep, Claimed
<1> QED
  BY <1>2, <1>4, <1>5

LEMMA InitIInv == Init => IInv
<1> SUFFICES ASSUME Init PROVE IInv
  OBVIOUS
<1> USE DEF Init
<1>1. rows \in Seq(Row) /\ Len(rows) = 0 /\ Positions = {}
  BY DEF Positions
<1>2. Idle \in Run /\ Idle.stage = "idle"
  BY DEF Idle, Run, Stages
<1>3. 0 \in Times /\ 0 \in 0 .. MaxUpsets /\ 0 <= MaxRows
  BY OutagesAssumption DEF Times
<1>4. Typed
  BY <1>1, <1>2, <1>3 DEF Typed
<1>5. RecordInv
  BY <1>1 DEF RecordInv, Ordered, PrunedRows, HistorySound, OneRowEach, NothingSlips
<1>6. RunsInStep /\ Claimed /\ OneMail
  BY <1>2 DEF RunsInStep, Claimed, OneMail
<1> QED
  BY <1>4, <1>5, <1>6 DEF IInv

LEMMA NextKeeps ==
    ASSUME IInv, [Next]_vars
    PROVE  IInv'
<1>1. CASE Write \/ PruneStatusLog \/ Pass
  BY <1>1, WriteKeeps, PruneKeeps, PassKeeps
<1>2. CASE Record \/ RecordFails
  BY <1>2, RecorderKeeps
<1>3. CASE Restart
  BY <1>3, FaultKeeps
<1>4. ASSUME NEW r \in Runs, StartOutage(r) \/ Steps(r) \/ RunFails(r)
      PROVE  IInv'
  <2>1. CASE StartOutage(r)
    BY <2>1, StartKeeps
  <2>2. CASE OpenTicket(r) \/ ResolveTicket(r)
    BY <2>2, TicketStepKeeps
  <2>3. CASE Claim(r)
    BY <2>3, ClaimKeeps
  <2>4. CASE Send(r)
    BY <2>4, SendKeeps
  <2>5. CASE RunFails(r)
    BY <2>5, FaultKeeps
  <2> QED
    BY <1>4, <2>1, <2>2, <2>3, <2>4, <2>5 DEF Steps
<1>5. ASSUME NEW s \in Times, NEW status \in Statuses, Patch(s, status)
      PROVE  IInv'
  BY <1>5, PatchKeeps
<1>6. CASE UNCHANGED vars
  <2>1. UNCHANGED <<now, rows, pruned, history, ticket, claims, mails, run, due, upsets>>
    BY <1>6 DEF vars
  <2>2. RecordInv'
    BY <2>1, RecordUnchangedKeeps DEF IInv, RecordUnchanged
  <2> QED
    BY <2>1, <2>2 DEF IInv, Typed, OneMail, RunsInStep, Claimed
<1> QED
  BY <1>1, <1>2, <1>3, <1>4, <1>5, <1>6 DEF Next

LEMMA Inductive == Spec => []IInv
<1>1. Init => IInv
  BY InitIInv
<1>2. IInv /\ [Next]_vars => IInv'
  BY NextKeeps
<1> QED
  BY <1>1, <1>2, PTL DEF Spec

\* The log, the tables and the runs have their types; the log is in the order of time, an
\* outage has one row in the history, and a run about to mail has its claim
\* (db/database.js, services/outage-history.js, services/outage-escalation.js).
THEOREM TypeIsOK == Spec => []TypeOK
<1>1. IInv => TypeOK
  <2> SUFFICES ASSUME IInv PROVE TypeOK
    OBVIOUS
  <2>1. \A i \in 2 .. Len(rows) : rows[i - 1].ts <= rows[i].ts
    <3> SUFFICES ASSUME NEW i \in 2 .. Len(rows) PROVE rows[i - 1].ts <= rows[i].ts
      OBVIOUS
    <3>1. i \in Positions /\ i - 1 \in Positions /\ i - 1 <= i
      BY PositionFacts DEF Positions, IInv
    <3> QED
      BY <3>1 DEF IInv, RecordInv, Ordered
  <2>2. \A r \in Runs : run[r].stage = "send" => Min(run[r].todo) \in claims
    BY DEF IInv, Claimed
  <2>3. run \in [Runs -> [stage : {"idle", "open", "resolve", "claim", "send"},
                         seen : SUBSET Times, todo : SUBSET Times]]
    BY DEF IInv, Typed, Run, Stages
  <2>4. due \subseteq (1 .. Len(rows)) \X (1 .. Len(rows))
    BY DEF IInv, RecordInv, Over
  <2> QED
    BY <2>1, <2>2, <2>3, <2>4 DEF TypeOK, IInv, Typed, RecordInv, OneRowEach, RunsInStep, Claimed
<1> QED
  BY <1>1, Inductive, PTL

\* No row of outage_history tells of an outage there was not or runs two together,
\* whatever the pruning took from the log the recorder reads
\* (lib/outage-detection.js, services/outage-history.js).
THEOREM HistoryIsSound == Spec => []HistorySound
<1>1. IInv => HistorySound
  BY DEF IInv, RecordInv
<1> QED
  BY <1>1, Inductive, PTL

\* However the runs of the escalation job overlap, fail and start again, no outage is
\* mailed about twice (services/outage-escalation.js).
THEOREM MailedOnce == Spec => []OneMail
<1>1. IInv => OneMail
  BY DEF IInv
<1> QED
  BY <1>1, Inductive, PTL

\* Every outage that a completed run of the recorder finds over, its first row in the window
\* and among the newest, is in the history until that is pruned: whatever the retentions and
\* the cap, however late the run, and whatever failed before or is deleted after
\* (services/outage-history.js, db/database.js: pruneStatusLog).
THEOREM NoOutageSlips == Spec => []NothingSlips
<1>1. IInv => NothingSlips
  BY DEF IInv, RecordInv
<1> QED
  BY <1>1, Inductive, PTL
=============================================================================
