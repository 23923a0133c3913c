-------------------------- MODULE PlayEvents_proofs --------------------------
(***************************************************************************)
(* Proofs, for any number of sessions, overlapping handler runs, failures   *)
(* and restarts, that what leaves the player's queue is in play_logs (but   *)
(* for live starts) and that a row never loses its end.                     *)
(*                                                                          *)
(* A reply removes an event long after the statement it speaks of.          *)
(* AnswersAreTrue says that the run still knows: what it saved is saved,    *)
(* because no statement ever takes from a row what it holds.                *)
(***************************************************************************)
EXTENDS PlayEvents, SequenceTheorems, TLAPS

\* The part of TypeOK that is not about the queue's order.
Typed ==
    /\ phase \in [Sessions -> {"new", "playing", "over"}]
    /\ queue \in Seq(Event)
    /\ linked \in BOOLEAN
    /\ run \in [Runs -> {"idle", "insert", "live", "retry", "yes", "no"}]
    /\ event \in [Runs -> Event \cup {NoEvent}]
    /\ \A r \in Runs : run[r] = "idle" <=> event[r] = NoEvent
    /\ ours \subseteq Runs
    /\ old \subseteq Sessions /\ content \subseteq Sessions
    /\ gap \in Sessions \cup {NoSession}
    /\ row \in [Sessions -> {"none", "open", "closed"}]
    /\ stored \subseteq Event /\ wasLive \subseteq Sessions
    /\ faults \in 0 .. MaxFaults /\ restarts \in 0 .. MaxRestarts

Queued == {queue[i] : i \in 1 .. Len(queue)}
Distinct == \A i, j \in 1 .. Len(queue) : queue[i] = queue[j] => i = j

\* What is queued was stored, and what was stored has happened, so that no event is new twice.
StoredOnce ==
    /\ Distinct /\ Queued \subseteq stored
    /\ \A e \in stored : phase[e[1]] # "new" /\ (e[2] = "end" => phase[e[1]] = "over")

Done(e) == Saved(e, row) \/ (e[2] = "start" /\ e[1] \in wasLive)

AnswersAreTrue ==
    \A r \in Runs : /\ run[r] = "yes" => Done(event[r])
                    /\ run[r] = "live" => event[r][2] = "start" /\ event[r][1] \in wasLive

Dropped == \A e \in stored \ Queued : Done(e)

IInv == Typed /\ StoredOnce /\ AnswersAreTrue /\ Dropped

-----------------------------------------------------------------------------
(* The queue.                                                              *)

LEMMA ToSetIsQueued == queue \in Seq(Event) => ToSet(queue) = Queued
BY LenProperties DEF ToSet, Queued

\* An event that is appended was not queued before.
LEMMA AppendFacts ==
    ASSUME queue \in Seq(Event), Distinct, NEW e \in Event, e \notin Queued,
           queue' = Append(queue, e)
    PROVE  queue' \in Seq(Event) /\ Distinct' /\ Queued' = Queued \cup {e}
<1>1. /\ queue' \in Seq(Event) /\ Len(queue') = Len(queue) + 1 /\ Len(queue) \in Nat
      /\ \A i \in 1 .. Len(queue) : queue'[i] = queue[i]
      /\ queue'[Len(queue) + 1] = e
  BY AppendProperties, LenProperties
<1>2. \A i \in 1 .. Len(queue') : i \in 1 .. Len(queue) \/ i = Len(queue) + 1
  BY <1>1
<1>3. 1 .. Len(queue) \subseteq 1 .. Len(queue') /\ Len(queue) + 1 \in 1 .. Len(queue')
  BY <1>1
<1>4. Distinct'
  BY <1>1, <1>2 DEF Distinct, Queued
<1>5. Queued' \subseteq Queued \cup {e}
  BY <1>1, <1>2 DEF Queued
<1>6. Queued \subseteq Queued' /\ e \in Queued'
  BY <1>1, <1>3 DEF Queued
<1> QED
  BY <1>1, <1>4, <1>5, <1>6

\* Of an event that is deleted, nothing else goes.
LEMMA WithoutFacts ==
    ASSUME queue \in Seq(Event), Distinct, NEW e, queue' \in Without(e)
    PROVE  queue' \in Seq(Event) /\ Distinct' /\ Queued \ {e} \subseteq Queued' /\ Queued' \subseteq Queued
<1>1. CASE queue' = queue
  BY <1>1 DEF Distinct, Queued
<1>2. CASE \E i \in DOMAIN queue : queue[i] = e /\ queue' = RemoveAt(queue, i)
  <2>1. Len(queue) \in Nat /\ DOMAIN queue = 1 .. Len(queue) /\ \A k \in 1 .. Len(queue) : queue[k] \in Event
    BY LenProperties, ElementOfSeq
  <2>2. PICK i \in 1 .. Len(queue) : queue[i] = e /\ queue' = RemoveAt(queue, i)
    BY <1>2, <2>1
  <2> DEFINE before == SubSeq(queue, 1, i - 1)
             after == SubSeq(queue, i + 1, Len(queue))
  <2>3. before \in Seq(Event) /\ Len(before) = i - 1 /\ \A k \in 1 .. i - 1 : before[k] = queue[k]
    BY <2>1, SubSeqProperties
  <2>4. /\ after \in Seq(Event) /\ Len(after) = Len(queue) - i
        /\ \A k \in 1 .. Len(queue) - i : after[k] = queue[i + k]
    <3>1. \A k \in i + 1 .. Len(queue) : queue[k] \in Event
      BY <2>1
    <3>2. /\ after \in Seq(Event)
          /\ Len(after) = IF i + 1 <= Len(queue) THEN Len(queue) - (i + 1) + 1 ELSE 0
          /\ \A k \in 1 .. Len(queue) - (i + 1) + 1 : after[k] = queue[(i + 1) + k - 1]
      BY <2>1, <3>1, SubSeqProperties
    <3> HIDE DEF after
    <3>3. Len(after) = Len(queue) - i
      <4>1. CASE i + 1 <= Len(queue)
        BY <2>1, <3>2, <4>1
      <4>2. CASE ~(i + 1 <= Len(queue))
        <5>0. i \in Nat /\ Len(queue) \in Nat /\ i <= Len(queue)
          BY <2>1
        <5>1. i = Len(queue)
          BY <5>0, <4>2
        <5> QED
          BY <2>1, <3>2, <4>2, <5>1
      <4> QED
        BY <4>1, <4>2
    <3>4. ASSUME NEW k \in 1 .. Len(queue) - i PROVE after[k] = queue[i + k]
      <4>1. k \in 1 .. Len(queue) - (i + 1) + 1 /\ (i + 1) + k - 1 = i + k
        BY <2>1
      <4> QED
        BY <3>2, <4>1
    <3> QED
      BY <3>2, <3>3, <3>4
  <2>5. queue' = before \o after
    BY <2>2 DEF RemoveAt
  <2> HIDE DEF before, after
  <2>6. /\ queue' \in Seq(Event) /\ Len(queue') = Len(queue) - 1
        /\ \A k \in 1 .. Len(queue) - 1 : queue'[k] = IF k < i THEN queue[k] ELSE queue[k + 1]
    <3>1. /\ queue' \in Seq(Event) /\ Len(queue') = Len(before) + Len(after)
          /\ \A k \in 1 .. Len(before) + Len(after) :
               queue'[k] = IF k <= Len(before) THEN before[k] ELSE after[k - Len(before)]
      BY <2>3, <2>4, <2>5, ConcatProperties
    <3>2. ASSUME NEW k \in 1 .. Len(queue) - 1
          PROVE  queue'[k] = IF k < i THEN queue[k] ELSE queue[k + 1]
      <4>1. CASE k < i
        <5>1. k \in 1 .. Len(before) + Len(after) /\ k <= Len(before) /\ k \in 1 .. i - 1
          BY <2>1, <2>3, <2>4, <4>1
        <5> QED
          BY <2>3, <3>1, <4>1, <5>1
      <4>2. CASE ~(k < i)
        <5>1. k - (i - 1) \in 1 .. Len(queue) - i /\ i + (k - (i - 1)) = k + 1
          BY <2>1, <4>2
        <5>2. queue'[k] = after[k - (i - 1)]
          <6>1. k \in 1 .. Len(before) + Len(after) /\ ~(k <= Len(before)) /\ k - Len(before) = k - (i - 1)
            BY <2>1, <2>3, <2>4, <4>2
          <6> QED
            BY <3>1, <6>1
        <5> QED
          BY <2>4, <4>2, <5>1, <5>2
      <4> QED
        BY <4>1, <4>2
    <3> QED
      BY <2>1, <2>3, <2>4, <3>1, <3>2
  <2>7. Distinct'
    BY <2>1, <2>6 DEF Distinct
  <2>8. Queued' \subseteq Queued
    BY <2>1, <2>6 DEF Queued
  <2>9. ASSUME NEW k \in 1 .. Len(queue), queue[k] # e
        PROVE  queue[k] \in Queued'
    <3>1. CASE k < i
      <4>1. k \in 1 .. Len(queue') /\ queue'[k] = queue[k]
        BY <2>1, <2>6, <3>1
      <4> QED
        BY <4>1 DEF Queued
    <3>2. CASE k > i
      <4>1. k - 1 \in 1 .. Len(queue') /\ queue'[k - 1] = queue[k]
        BY <2>1, <2>6, <3>2
      <4> QED
        BY <4>1 DEF Queued
    <3> QED
      BY <2>1, <2>2, <2>9, <3>1, <3>2
  <2>10. Queued \ {e} \subseteq Queued'
    BY <2>9 DEF Queued
  <2> QED
    BY <2>6, <2>7, <2>8, <2>10
<1> QED
  BY <1>1, <1>2 DEF Without

-----------------------------------------------------------------------------
(* Statements and answers.                                                 *)

\* The upsert keeps what a row holds and adds what the event says.
LEMMA UpsertFacts ==
    ASSUME Typed, NEW e \in Event, row' = Upserted(e)
    PROVE  /\ row' \in [Sessions -> {"none", "open", "closed"}]
           /\ Saved(e, row')
           /\ \A f \in Event : Saved(f, row) => Saved(f, row')
<1>1. e[1] \in Sessions /\ e[2] \in {"start", "end"}
  BY DEF Event
<1>2. /\ row' \in [Sessions -> {"none", "open", "closed"}]
      /\ \A s \in Sessions : row'[s] = IF s # e[1] THEN row[s]
                                       ELSE IF e[2] = "end" \/ row[s] = "closed" THEN "closed" ELSE "open"
  BY <1>1 DEF Typed, Upserted
<1>3. \A f \in Event : f[1] \in Sessions
  BY DEF Event
<1> QED
  BY <1>1, <1>2, <1>3 DEF Saved

\* A step that keeps the queue, the table and the runs.
LEMMA OthersKeep ==
    ASSUME IInv, Typed', UNCHANGED <<queue, stored, row, wasLive>>,
           \A s \in Sessions : phase[s] # "new" => phase'[s] # "new",
           \A s \in Sessions : phase[s] = "over" => phase'[s] = "over",
           \A r \in Runs : (run'[r] = run[r] /\ event'[r] = event[r]) \/ run'[r] \in {"idle", "no"}
    PROVE  IInv'
<1>1. Queued' = Queued /\ (Distinct => Distinct')
  BY DEF Queued, Distinct
<1>2. \A e \in stored : e[1] \in Sessions
  BY DEF IInv, Typed, Event
<1>3. StoredOnce'
  BY <1>1, <1>2 DEF IInv, StoredOnce
<1>4. \A e : Done(e)' <=> Done(e)
  BY DEF Done, Saved
<1>5. AnswersAreTrue'
  BY <1>4 DEF IInv, AnswersAreTrue
<1>6. Dropped'
  BY <1>1, <1>4 DEF IInv, Dropped
<1> QED
  BY <1>3, <1>5, <1>6 DEF IInv

\* A session goes on to its next phase and its event is queued, unless the local write fails.
LEMMA EnqueueKeeps ==
    ASSUME IInv, NEW e \in Event, Enqueue(e), e \notin stored,
           phase' \in [Sessions -> {"new", "playing", "over"}],
           \A s \in Sessions : phase[s] # "new" => phase'[s] # "new",
           \A s \in Sessions : phase[s] = "over" => phase'[s] = "over",
           phase'[e[1]] # "new", e[2] = "end" => phase'[e[1]] = "over",
           UNCHANGED <<linked, runs, clocks, content, row, wasLive>>
    PROVE  IInv'
<1>1. CASE queue' = Append(queue, e) /\ stored' = stored \cup {e} /\ UNCHANGED bounds
  <2>1. e \notin Queued
    BY DEF IInv, StoredOnce
  <2>2. queue' \in Seq(Event) /\ Distinct' /\ Queued' = Queued \cup {e}
    BY <1>1, <2>1, AppendFacts DEF IInv, Typed, StoredOnce
  <2>3. Typed'
    BY <1>1, <2>2 DEF IInv, Typed, runs, clocks, bounds
  <2>4. \A f \in stored : f[1] \in Sessions
    BY DEF IInv, Typed, Event
  <2>5. StoredOnce'
    BY <1>1, <2>2, <2>4 DEF IInv, StoredOnce
  <2>6. \A f : Done(f)' <=> Done(f)
    BY DEF Done, Saved
  <2>7. AnswersAreTrue' /\ Dropped'
    BY <1>1, <2>2, <2>6 DEF IInv, AnswersAreTrue, Dropped, runs
  <2> QED
    BY <2>3, <2>5, <2>7 DEF IInv
<1>2. CASE Fault /\ UNCHANGED <<queue, stored>>
  <2>1. faults' \in 0 .. MaxFaults /\ restarts' = restarts
    BY <1>2, PlayAssumption DEF IInv, Typed, Fault
  <2>2. Typed'
    BY <1>2, <2>1 DEF IInv, Typed, runs, clocks
  <2> QED
    BY <1>2, <2>2, OthersKeep DEF runs
<1> QED
  BY <1>1, <1>2 DEF Enqueue

LEMMA PlayerKeeps ==
    ASSUME IInv, NEW s \in Sessions, PlayStart(s) \/ PlayEnd(s)
    PROVE  IInv'
<1>1. CASE PlayStart(s)
  <2> DEFINE e == <<s, "start">>
  <2>1. e \in Event /\ e[1] = s /\ e[2] = "start"
    BY DEF Event
  <2>2. phase[s] = "new" /\ phase' \in [Sessions -> {"new", "playing", "over"}] /\ phase'[s] = "playing"
        /\ (\A t \in Sessions : phase[t] # "new" => phase'[t] # "new")
        /\ (\A t \in Sessions : phase[t] = "over" => phase'[t] = "over")
    BY <1>1 DEF PlayStart, IInv, Typed
  <2>3. Enqueue(e) /\ UNCHANGED <<linked, runs, clocks, content, row, wasLive>>
    BY <1>1 DEF PlayStart
  <2> HIDE DEF e
  <2>4. e \notin stored
    BY <2>1, <2>2 DEF IInv, StoredOnce
  <2> QED
    BY <2>1, <2>2, <2>3, <2>4, EnqueueKeeps
<1>2. CASE PlayEnd(s)
  <2> DEFINE e == <<s, "end">>
  <2>1. e \in Event /\ e[1] = s /\ e[2] = "end"
    BY DEF Event
  <2>2. phase[s] = "playing" /\ phase' = [phase EXCEPT ![s] = "over"]
    BY <1>2 DEF PlayEnd
  <2>3. phase' \in [Sessions -> {"new", "playing", "over"}] /\ phase'[s] = "over"
        /\ (\A t \in Sessions : t # s => phase'[t] = phase[t])
    BY <2>2 DEF IInv, Typed
  <2>4. Enqueue(e) /\ UNCHANGED <<linked, runs, clocks, content, row, wasLive>>
    BY <1>2 DEF PlayEnd
  <2> HIDE DEF e
  <2>5. e \notin stored
    BY <2>1, <2>2 DEF IInv, StoredOnce
  <2> QED
    BY <2>1, <2>2, <2>3, <2>4, <2>5, EnqueueKeeps
<1> QED
  BY <1>1, <1>2

\* A reply takes an event out of the queue only after its answer was ok.
LEMMA ReplyKeeps ==
    ASSUME IInv, NEW r \in Runs, Reply(r)
    PROVE  IInv'
<1>1. /\ run' = [run EXCEPT ![r] = "idle"] /\ event' = [event EXCEPT ![r] = NoEvent]
      /\ ours' = ours \ {r} /\ UNCHANGED <<phase, linked, stored, clocks, content, row, wasLive>>
  BY DEF Reply, Idle
<1>2. \A t \in Runs : (run'[t] = run[t] /\ event'[t] = event[t]) \/ (run'[t] = "idle" /\ event'[t] = NoEvent)
  <2>1. \A t \in Runs : run'[t] = IF t = r THEN "idle" ELSE run[t]
    BY <1>1 DEF IInv, Typed
  <2>2. \A t \in Runs : event'[t] = IF t = r THEN NoEvent ELSE event[t]
    BY <1>1 DEF IInv, Typed
  <2> SUFFICES ASSUME NEW t \in Runs
               PROVE  (run'[t] = run[t] /\ event'[t] = event[t]) \/ (run'[t] = "idle" /\ event'[t] = NoEvent)
    OBVIOUS
  <2>3. CASE t = r
    BY <2>1, <2>2, <2>3
  <2>4. CASE t # r
    BY <2>1, <2>2, <2>4
  <2> QED
    BY <2>3, <2>4
<1>3. run' \in [Runs -> {"idle", "insert", "live", "retry", "yes", "no"}]
      /\ event' \in [Runs -> Event \cup {NoEvent}]
  BY <1>1 DEF IInv, Typed
<1>4. faults' \in 0 .. MaxFaults /\ restarts' = restarts
  BY PlayAssumption DEF IInv, Typed, Reply, Fault, bounds
<1>5. CASE run[r] = "yes" /\ queue' \in Without(event[r])
  <2>1. queue' \in Seq(Event) /\ Distinct' /\ Queued \ {event[r]} \subseteq Queued' /\ Queued' \subseteq Queued
    BY <1>5, WithoutFacts DEF IInv, Typed, StoredOnce
  <2>2. Typed'
    BY <1>1, <1>2, <1>3, <1>4, <2>1 DEF IInv, Typed, clocks
  <2>3. \A e : Done(e)' <=> Done(e)
    BY <1>1 DEF Done, Saved
  <2>4. StoredOnce'
    BY <1>1, <2>1 DEF IInv, StoredOnce
  <2>5. Done(event[r])
    BY <1>5 DEF IInv, AnswersAreTrue
  <2>6. Dropped'
    BY <1>1, <2>1, <2>3, <2>5 DEF IInv, Dropped
  <2>7. AnswersAreTrue'
    BY <1>1, <1>2, <2>3 DEF IInv, AnswersAreTrue
  <2> QED
    BY <2>2, <2>4, <2>6, <2>7 DEF IInv
<1>6. CASE queue' = queue
  <2>1. Typed'
    BY <1>1, <1>2, <1>3, <1>4, <1>6 DEF IInv, Typed, clocks
  <2> QED
    BY <1>1, <1>2, <1>6, <2>1, OthersKeep
<1> QED
  BY <1>5, <1>6 DEF Reply

\* A run that answers at once answers for a live start.
LEMMA ReceiveKeeps ==
    ASSUME IInv, NEW r \in Runs, NEW e \in Event, Receive(r, e)
    PROVE  IInv'
<1> DEFINE next == IF Throttled(e) THEN "yes" ELSE IF LiveStart(e) THEN "live" ELSE "insert"
<1>1. /\ run' = [run EXCEPT ![r] = next] /\ event' = [event EXCEPT ![r] = e]
      /\ ours' = ours \cup {r}
      /\ gap' = IF LiveStart(e) /\ ~Throttled(e) THEN e[1] ELSE gap
      /\ wasLive' = IF LiveStart(e) THEN wasLive \cup {e[1]} ELSE wasLive
      /\ UNCHANGED <<player, linked, old, content, row, bounds>>
  BY DEF Receive
<1>2. next \in {"yes", "live", "insert"} /\ (next \in {"yes", "live"} => LiveStart(e))
  BY DEF Throttled
<1>3. e[1] \in Sessions /\ e # NoEvent
  BY PlayAssumption DEF Event
<1> HIDE DEF next
<1>4. \A t \in Runs : IF t = r THEN run'[t] = next /\ event'[t] = e
                      ELSE run'[t] = run[t] /\ event'[t] = event[t]
  BY <1>1 DEF IInv, Typed
<1>5. run' \in [Runs -> {"idle", "insert", "live", "retry", "yes", "no"}]
      /\ event' \in [Runs -> Event \cup {NoEvent}]
  BY <1>1, <1>2 DEF IInv, Typed
<1>6. /\ gap' \in Sessions \cup {NoSession} /\ wasLive' \subseteq Sessions
      /\ ours' \subseteq Runs
      /\ \A t \in Runs : run'[t] = "idle" <=> event'[t] = NoEvent
  BY <1>1, <1>2, <1>3, <1>4 DEF IInv, Typed
<1>7. Typed'
  BY <1>1, <1>5, <1>6 DEF IInv, Typed, player, bounds
<1>8. Queued' = Queued /\ (Distinct => Distinct')
  BY <1>1 DEF Queued, Distinct, player
<1>9. StoredOnce'
  BY <1>1, <1>8 DEF IInv, StoredOnce, player
<1>10. \A f : Done(f) => Done(f)'
  BY <1>1 DEF Done, Saved
<1>11. LiveStart(e) => e[2] = "start" /\ e[1] \in wasLive'
  BY <1>1 DEF LiveStart
<1>12. AnswersAreTrue'
  <2> SUFFICES ASSUME NEW t \in Runs
               PROVE  /\ run'[t] = "yes" => Done(event[t])'
                      /\ run'[t] = "live" => event'[t][2] = "start" /\ event'[t][1] \in wasLive'
    BY DEF AnswersAreTrue
  <2>1. CASE t = r
    BY <1>2, <1>4, <1>11, <2>1 DEF Done
  <2>2. CASE t # r
    <3>1. run'[t] = run[t] /\ event'[t] = event[t]
      BY <1>4, <2>2
    <3>2. wasLive \subseteq wasLive'
      BY <1>1
    <3> QED
      BY <1>10, <3>1, <3>2 DEF IInv, AnswersAreTrue
  <2> QED
    BY <2>1, <2>2
<1>13. Dropped'
  BY <1>1, <1>8, <1>10 DEF IInv, Dropped, player
<1> QED
  BY <1>7, <1>9, <1>12, <1>13 DEF IInv

LEMMA StatementKeeps ==
    ASSUME IInv, NEW r \in Runs, InsertLands(r) \/ InsertRefused(r) \/ InsertFails(r)
    PROVE  IInv'
<1>1. CASE InsertLands(r)
  <2>1. /\ row' = Upserted(event[r]) /\ run' = [run EXCEPT ![r] = "yes"]
        /\ UNCHANGED <<player, linked, event, ours, clocks, content, wasLive, bounds>>
        /\ run[r] # "idle"
    BY <1>1 DEF InsertLands
  <2>2. event[r] \in Event
    BY <2>1 DEF IInv, Typed
  <2>3. /\ row' \in [Sessions -> {"none", "open", "closed"}] /\ Saved(event[r], row')
        /\ \A f \in Event : Saved(f, row) => Saved(f, row')
    BY <2>1, <2>2, UpsertFacts DEF IInv
  <2>4. \A t \in Runs : run'[t] = IF t = r THEN "yes" ELSE run[t]
    BY <2>1 DEF IInv, Typed
  <2>5. Typed'
    BY <2>1, <2>3, <2>4 DEF IInv, Typed, player, clocks, bounds
  <2>6. Queued' = Queued /\ (Distinct => Distinct')
    BY <2>1 DEF Queued, Distinct, player
  <2>7. StoredOnce'
    BY <2>1, <2>6 DEF IInv, StoredOnce, player
  <2>8. \A f \in Event : Done(f) => Done(f)'
    BY <2>1, <2>3 DEF Done
  <2>9. AnswersAreTrue'
    <3> SUFFICES ASSUME NEW t \in Runs
                 PROVE  /\ run'[t] = "yes" => Done(event[t])'
                        /\ run'[t] = "live" => event'[t][2] = "start" /\ event'[t][1] \in wasLive'
      BY DEF AnswersAreTrue
    <3>1. CASE t = r
      BY <2>1, <2>3, <2>4, <3>1 DEF Done
    <3>2. CASE t # r
      <4>1. run'[t] = run[t] /\ event'[t] = event[t] /\ wasLive' = wasLive
        BY <2>1, <2>4, <3>2
      <4>2. run[t] = "yes" => event[t] \in Event
        BY DEF IInv, Typed
      <4> QED
        BY <2>8, <4>1, <4>2 DEF IInv, AnswersAreTrue
    <3> QED
      BY <3>1, <3>2
  <2>10. Dropped'
    BY <2>1, <2>6, <2>8 DEF IInv, Typed, Dropped, player
  <2> QED
    BY <2>5, <2>7, <2>9, <2>10 DEF IInv
<1>2. CASE InsertRefused(r)
  <2>1. /\ run' = [run EXCEPT ![r] = IF @ = "live" THEN "yes" ELSE "retry"] /\ run[r] \in {"insert", "live"}
        /\ UNCHANGED <<player, linked, event, ours, clocks, content, row, wasLive, bounds>>
    BY <1>2 DEF InsertRefused
  <2>2. \A t \in Runs : run'[t] = IF t # r THEN run[t] ELSE IF run[r] = "live" THEN "yes" ELSE "retry"
    BY <2>1 DEF IInv, Typed
  <2>3. Typed'
    BY <2>1, <2>2 DEF IInv, Typed, player, clocks, bounds
  <2>4. Queued' = Queued /\ (Distinct => Distinct')
    BY <2>1 DEF Queued, Distinct, player
  <2>5. StoredOnce'
    BY <2>1, <2>4 DEF IInv, StoredOnce, player
  <2>6. \A f : Done(f)' <=> Done(f)
    BY <2>1 DEF Done, Saved
  <2>7. \A t \in Runs : run[t] = "live" => Done(event[t])
    BY DEF IInv, AnswersAreTrue, Done
  <2>8. AnswersAreTrue'
    BY <2>1, <2>2, <2>6, <2>7 DEF IInv, AnswersAreTrue
  <2>9. Dropped'
    BY <2>1, <2>4, <2>6 DEF IInv, Dropped, player
  <2> QED
    BY <2>3, <2>5, <2>8, <2>9 DEF IInv
<1>3. CASE InsertFails(r)
  <2>1. /\ run' = [run EXCEPT ![r] = "no"] /\ run[r] \in {"insert", "live", "retry"}
        /\ UNCHANGED <<player, linked, event, ours, clocks, content, row, wasLive>>
    BY <1>3 DEF InsertFails
  <2>2. faults' \in 0 .. MaxFaults /\ restarts' = restarts
    BY <1>3, PlayAssumption DEF IInv, Typed, InsertFails, Fault
  <2>3. \A t \in Runs : run'[t] = IF t = r THEN "no" ELSE run[t]
    BY <2>1 DEF IInv, Typed
  <2>4. Typed'
    BY <2>1, <2>2, <2>3 DEF IInv, Typed, player, clocks
  <2> QED
    BY <2>1, <2>3, <2>4, OthersKeep DEF player
<1> QED
  BY <1>1, <1>2, <1>3

-----------------------------------------------------------------------------
(* The rest of the steps.                                                  *)

LEMMA ConnectionKeeps ==
    ASSUME IInv, Connect \/ Drop \/ PlayerRestart \/ ServerRestart \/ GapPasses
    PROVE  IInv'
<1> USE DEF player, runs, clocks, bounds
<1>1. CASE Connect
  <2>1. Typed'
    BY <1>1 DEF IInv, Typed, Connect
  <2> QED
    BY <1>1, <2>1, OthersKeep DEF Connect
<1>2. CASE Drop
  <2>1. Typed'
    BY <1>2 DEF IInv, Typed, Drop
  <2> QED
    BY <1>2, <2>1, OthersKeep DEF Drop
<1>3. CASE PlayerRestart
  <2>1. restarts' \in 0 .. MaxRestarts
    BY <1>3, PlayAssumption DEF IInv, Typed, PlayerRestart
  <2>2. phase' \in [Sessions -> {"new", "playing", "over"}]
        /\ (\A s \in Sessions : phase[s] # "new" => phase'[s] # "new")
        /\ (\A s \in Sessions : phase[s] = "over" => phase'[s] = "over")
    BY <1>3 DEF IInv, Typed, PlayerRestart
  <2>3. Typed'
    BY <1>3, <2>1, <2>2 DEF IInv, Typed, PlayerRestart
  <2> QED
    BY <1>3, <2>2, <2>3, OthersKeep DEF PlayerRestart
<1>4. CASE ServerRestart
  <2>1. restarts' \in 0 .. MaxRestarts
    BY <1>4, PlayAssumption DEF IInv, Typed, ServerRestart
  <2>2. Typed'
    BY <1>4, <2>1 DEF IInv, Typed, ServerRestart
  <2> QED
    BY <1>4, <2>2, OthersKeep DEF ServerRestart
<1>5. CASE GapPasses
  <2>1. Typed'
    BY <1>5 DEF IInv, Typed, GapPasses
  <2> QED
    BY <1>5, <2>1, OthersKeep DEF GapPasses
<1> QED
  BY <1>1, <1>2, <1>3, <1>4, <1>5

LEMMA TimeKeeps ==
    ASSUME IInv, NEW s \in Sessions, GetsOld(s) \/ DeleteContent(s)
    PROVE  IInv'
<1> USE DEF player, runs, clocks, bounds
<1>1. Typed'
  BY DEF IInv, Typed, GetsOld, DeleteContent
<1> QED
  BY <1>1, OthersKeep DEF GetsOld, DeleteContent

LEMMA InitIInv == Init => IInv
<1> SUFFICES ASSUME Init PROVE IInv
  OBVIOUS
<1>1. queue \in Seq(Event) /\ 1 .. Len(queue) = {}
  BY EmptySeq DEF Init
<1>2. linked \in BOOLEAN
  BY DEF Init
<1>3. Typed
  <2>1. /\ phase = [s \in Sessions |-> "new"] /\ run = [r \in Runs |-> "idle"]
        /\ event = [r \in Runs |-> NoEvent] /\ ours = {} /\ old = {} /\ gap = NoSession
        /\ content = Sessions /\ row = [s \in Sessions |-> "none"] /\ stored = {} /\ wasLive = {}
        /\ faults = 0 /\ restarts = 0
    BY DEF Init
  <2> QED
    BY <1>1, <1>2, <2>1, PlayAssumption DEF Typed
<1>4. StoredOnce /\ AnswersAreTrue /\ Dropped
  BY <1>1 DEF Init, StoredOnce, Distinct, Queued, AnswersAreTrue, Dropped
<1> QED
  BY <1>3, <1>4 DEF IInv

LEMMA NextKeeps ==
    ASSUME IInv, [Next]_vars
    PROVE  IInv'
<1>1. CASE UNCHANGED vars
  <2>1. Typed'
    BY <1>1 DEF IInv, Typed, vars, player, runs, clocks, bounds
  <2> QED
    BY <1>1, <2>1, OthersKeep DEF vars, player, runs, clocks, bounds
<1> QED
  BY <1>1, ConnectionKeeps, PlayerKeeps, TimeKeeps, ReplyKeeps, ReceiveKeeps, StatementKeeps DEF Next

LEMMA Inductive == Spec => []IInv
BY InitIInv, NextKeeps, PTL DEF Spec

\* Every variable keeps its type, and no event is queued twice (PlayEventQueue.kt).
THEOREM TypeCorrect == Spec => []TypeOK
<1>1. IInv => TypeOK
  <2> SUFFICES ASSUME IInv PROVE TypeOK
    OBVIOUS
  <2>1. DOMAIN queue = 1 .. Len(queue)
    BY LenProperties DEF IInv, Typed
  <2>2. IsInjective(queue)
    BY <2>1 DEF IInv, StoredOnce, Distinct, IsInjective
  <2> QED
    BY <2>2 DEF IInv, Typed, TypeOK
<1> QED
  BY Inductive, <1>1, PTL

\* Whatever was repeated, lost, reordered or cut off, an event that has left the player's
\* queue is in play_logs or was a start that arrived live (PlayEventQueue.kt,
\* ws/deviceSocket.js).
THEOREM NothingIsDropped == Spec => []NothingDropped
<1>1. IInv => NothingDropped
  BY ToSetIsQueued DEF IInv, Typed, Dropped, Done, NothingDropped
<1> QED
  BY Inductive, <1>1, PTL

\* No statement, however late, takes from a row of play_logs what it holds
\* (ws/deviceSocket.js).
THEOREM RowsGrow == Spec => RowsOnlyGrow
<1>1. ASSUME IInv, [Next]_vars, NEW e \in Event
      PROVE  Saved(e, row) => Saved(e, row')
  <2>1. CASE row' = row
    BY <2>1
  <2>2. ASSUME NEW r \in Runs, InsertLands(r)
        PROVE  Saved(e, row) => Saved(e, row')
    <3>1. row' = Upserted(event[r]) /\ run[r] # "idle"
      BY <2>2 DEF InsertLands
    <3>2. event[r] \in Event
      BY <1>1, <3>1 DEF IInv, Typed
    <3>3. \A f \in Event : Saved(f, row) => Saved(f, row')
      BY <1>1, <3>1, <3>2, UpsertFacts DEF IInv
    <3> QED
      BY <3>3
  <2>3. row' = row \/ \E r \in Runs : InsertLands(r)
    BY <1>1 DEF Next, vars, Connect, Drop, PlayerRestart, ServerRestart, GapPasses, PlayStart, PlayEnd,
                GetsOld, DeleteContent, Reply, InsertRefused, InsertFails, Receive
  <2> QED
    BY <2>1, <2>2, <2>3
<1>2. IInv /\ [Next]_vars => [\A e \in Event : Saved(e, row) => Saved(e, row')]_vars
  BY <1>1
<1> QED
  BY Inductive, <1>2, PTL DEF Spec, RowsOnlyGrow
=============================================================================
