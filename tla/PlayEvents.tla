----------------------------- MODULE PlayEvents -----------------------------
(***************************************************************************)
(* Proof of play: the player's durable queue of play_start and play_end    *)
(* events (PlayEventQueue.kt), its flush and the acks                      *)
(* (WebSocketService.kt), and the 'device:play-event' handler that writes  *)
(* play_logs (server/ws/deviceSocket.js).  One device; a session is one    *)
(* play of one item.                                                       *)
(*                                                                         *)
(* An event that is lost on its way to the handler leaves no trace, so     *)
(* sending and receiving are one action.  The statements of the handler's  *)
(* runs land in any order (pooled connections), and a reply reaches the    *)
(* player only on the connection the event came on.                        *)
(***************************************************************************)
EXTENDS Naturals, Sequences, SequencesExt

CONSTANTS
    Sessions,
    Runs,        \* runs of the handler that may overlap
    Window,      \* events one flush sends (200 in the code)
    NoEvent, NoSession,
    MaxFaults,   \* bound: statements and local writes that fail
    MaxRestarts  \* bound: restarts of the player or of the server

Event == Sessions \X {"start", "end"}

ASSUME PlayAssumption ==
    /\ NoEvent \notin Event /\ NoSession \notin Sessions
    /\ Window \in Nat \ {0} /\ MaxFaults \in Nat /\ MaxRestarts \in Nat

VARIABLES
    phase,    \* each session: "new", "playing", "over"
    queue,    \* the player's queued events, oldest first
    linked,   \* the player has an authenticated connection
    run,      \* handler runs: "idle", "insert", "live" (the same, for a live start),
              \* "retry", and the answers "yes" and "no"
    event,    \* the event of each run
    ours,     \* runs whose connection is still open
    old,      \* sessions that started longer ago than the live window
    gap,      \* the session whose live start opened the gap that is not over yet
    content,  \* sessions whose content has not been deleted
    row,      \* play_logs: "none", "open" (no end), "closed"
    stored,   \* history: events that were put in the queue
    wasLive,  \* history: sessions whose start arrived live
    faults, restarts

player  == <<phase, queue, stored>>
runs    == <<run, event, ours>>
clocks  == <<old, gap>>
bounds  == <<faults, restarts>>
vars    == <<player, linked, runs, clocks, content, row, wasLive, bounds>>

TypeOK ==
    /\ phase \in [Sessions -> {"new", "playing", "over"}]
    /\ queue \in Seq(Event) /\ IsInjective(queue)
    /\ linked \in BOOLEAN
    /\ run \in [Runs -> {"idle", "insert", "live", "retry", "yes", "no"}]
    /\ event \in [Runs -> Event \cup {NoEvent}]
    /\ \A r \in Runs : run[r] = "idle" <=> event[r] = NoEvent
    /\ ours \subseteq Runs
    /\ old \subseteq Sessions /\ content \subseteq Sessions
    /\ gap \in Sessions \cup {NoSession}
    /\ row \in [Sessions -> {"none", "open", "closed"}]
    /\ stored \subseteq Event /\ wasLive \subseteq Sessions
    /\ faults \in 0 .. MaxFaults /\ restarts \in 0 .. MaxRestarts

Init ==
    /\ phase = [s \in Sessions |-> "new"]
    /\ queue = <<>> /\ linked = FALSE
    /\ run = [r \in Runs |-> "idle"] /\ event = [r \in Runs |-> NoEvent]
    /\ ours = {}
    /\ old = {} /\ gap = NoSession /\ content = Sessions
    /\ row = [s \in Sessions |-> "none"]
    /\ stored = {} /\ wasLive = {}
    /\ faults = 0 /\ restarts = 0

Fault == faults < MaxFaults /\ faults' = faults + 1 /\ UNCHANGED restarts

\* What the table holds of the session is all that e says.
Saved(e, table) == table[e[1]] = "closed" \/ (e[2] = "start" /\ table[e[1]] = "open")

-----------------------------------------------------------------------------
(* The player.                                                             *)

\* The event goes to the queue first; a failing local write is only logged.
Enqueue(e) ==
    \/ /\ queue' = Append(queue, e)
       /\ stored' = stored \cup {e}
       /\ UNCHANGED bounds
    \/ Fault /\ UNCHANGED <<queue, stored>>

\* A session starts; one that was still playing is left without an end.
PlayStart(s) ==
    /\ phase[s] = "new"
    /\ phase' = [t \in Sessions |-> IF t = s THEN "playing"
                                    ELSE IF phase[t] = "playing" THEN "over" ELSE phase[t]]
    /\ Enqueue(<<s, "start">>)
    /\ UNCHANGED <<linked, runs, clocks, content, row, wasLive>>

PlayEnd(s) ==
    /\ phase[s] = "playing"
    /\ phase' = [phase EXCEPT ![s] = "over"]
    /\ Enqueue(<<s, "end">>)
    /\ UNCHANGED <<linked, runs, clocks, content, row, wasLive>>

Connect ==
    /\ ~linked /\ linked' = TRUE
    /\ UNCHANGED <<player, runs, clocks, content, row, wasLive, bounds>>

\* The connection goes away; the runs it started go on, their replies are lost.
Drop ==
    /\ linked /\ linked' = FALSE
    /\ ours' = {}
    /\ UNCHANGED <<player, run, event, clocks, content, row, wasLive, bounds>>

\* The player's process restarts: the queue survives, the current play does not.
PlayerRestart ==
    /\ restarts < MaxRestarts /\ restarts' = restarts + 1 /\ UNCHANGED faults
    /\ phase' = [s \in Sessions |-> IF phase[s] = "playing" THEN "over" ELSE phase[s]]
    /\ linked' = FALSE /\ ours' = {}
    /\ UNCHANGED <<queue, stored, run, event, clocks, content, row, wasLive>>

\* A faulty Idle that forgets to let go of the event.
IdleHolding(r) ==
    /\ run' = [run EXCEPT ![r] = "idle"]
    /\ ours' = ours \ {r}
    /\ UNCHANGED event

\* The run ends.
Idle(r) ==
    /\ run' = [run EXCEPT ![r] = "idle"]
    /\ event' = [event EXCEPT ![r] = NoEvent]
    /\ ours' = ours \ {r}

\* What is left of the queue when the row of e is deleted.
Without(e) ==
    IF e \in ToSet(queue) THEN {RemoveAt(queue, i) : i \in {j \in DOMAIN queue : queue[j] = e}}
    ELSE {queue}

\* The run answers: ok removes the event from the queue, if the delete works.
Reply(r) ==
    /\ run[r] \in {"yes", "no"}
    /\ IF run[r] = "yes" /\ r \in ours
       THEN \/ queue' \in Without(event[r]) /\ UNCHANGED bounds
            \/ Fault /\ UNCHANGED queue
       ELSE UNCHANGED <<queue, bounds>>
    /\ Idle(r)
    /\ UNCHANGED <<phase, linked, stored, clocks, content, row, wasLive>>

-----------------------------------------------------------------------------
(* The handler.                                                            *)

\* The events a flush of the queue sends.
Oldest == {queue[i] : i \in DOMAIN queue \cap 1 .. Window}

IsLive(e) == e[1] \notin old

LiveStart(e) == e[2] = "start" /\ IsLive(e)

\* A faulty Throttled that also holds back what an offline queue replays.
ThrottledReplay(e) == e[2] = "start" /\ gap # NoSession

\* A live start within the gap is answered ok and not written.
Throttled(e) == LiveStart(e) /\ gap # NoSession

\* A flush sends the oldest events; the handler throttles a live start that comes
\* within the gap, or sends its statement, and then a live start opens a new gap.
Receive(r, e) ==
    /\ linked /\ run[r] = "idle"
    /\ e \in Oldest
    /\ run' = [run EXCEPT ![r] = IF Throttled(e) THEN "yes"
                                 ELSE IF LiveStart(e) THEN "live" ELSE "insert"]
    /\ event' = [event EXCEPT ![r] = e]
    /\ ours' = ours \cup {r}
    /\ gap' = IF LiveStart(e) /\ ~Throttled(e) THEN e[1] ELSE gap
    /\ wasLive' = IF LiveStart(e) THEN wasLive \cup {e[1]} ELSE wasLive
    /\ UNCHANGED <<player, linked, old, content, row, bounds>>

\* INSERT ... ON DUPLICATE KEY UPDATE: a late start leaves the end alone.
Upserted(e) ==
    [row EXCEPT ![e[1]] = IF e[2] = "end" \/ @ = "closed" THEN "closed" ELSE "open"]

InsertLands(r) ==
    /\ \/ run[r] \in {"insert", "live"} /\ event[r][1] \in content
       \/ run[r] = "retry"
    /\ row' = Upserted(event[r])
    /\ run' = [run EXCEPT ![r] = "yes"]
    /\ UNCHANGED <<player, linked, event, ours, clocks, content, wasLive, bounds>>

\* A faulty InsertRefused that does not try again without the content.
InsertRefusedForGood(r) ==
    /\ run[r] \in {"insert", "live"} /\ event[r][1] \notin content
    /\ run' = [run EXCEPT ![r] = "no"]
    /\ UNCHANGED <<player, linked, event, ours, clocks, content, row, wasLive, bounds>>

\* The content is gone: the upsert starts again without it.  A live start meets
\* the gap it opened itself and returns before its statement.
InsertRefused(r) ==
    /\ run[r] \in {"insert", "live"} /\ event[r][1] \notin content
    /\ run' = [run EXCEPT ![r] = IF @ = "live" THEN "yes" ELSE "retry"]
    /\ UNCHANGED <<player, linked, event, ours, clocks, content, row, wasLive, bounds>>

\* The statement fails otherwise: the answer is not ok.
InsertFails(r) ==
    /\ run[r] \in {"insert", "live", "retry"}
    /\ Fault
    /\ run' = [run EXCEPT ![r] = "no"]
    /\ UNCHANGED <<player, linked, event, ours, clocks, content, row, wasLive>>

\* The server restarts: the runs and the throttle are gone.
ServerRestart ==
    /\ restarts < MaxRestarts /\ restarts' = restarts + 1 /\ UNCHANGED faults
    /\ run' = [r \in Runs |-> "idle"] /\ event' = [r \in Runs |-> NoEvent]
    /\ ours' = {}
    /\ linked' = FALSE /\ gap' = NoSession
    /\ UNCHANGED <<player, old, content, row, wasLive>>

-----------------------------------------------------------------------------
(* Time passes, and a user deletes content.                                *)

GetsOld(s) ==
    /\ phase[s] # "new" /\ s \notin old
    /\ old' = old \cup {s}
    /\ UNCHANGED <<player, linked, runs, gap, content, row, wasLive, bounds>>

GapPasses ==
    /\ gap # NoSession /\ gap' = NoSession
    /\ UNCHANGED <<player, linked, runs, old, content, row, wasLive, bounds>>

DeleteContent(s) ==
    /\ s \in content
    /\ content' = content \ {s}
    /\ UNCHANGED <<player, linked, runs, clocks, row, wasLive, bounds>>

Next ==
    \/ Connect \/ Drop \/ PlayerRestart \/ ServerRestart \/ GapPasses
    \/ \E s \in Sessions : PlayStart(s) \/ PlayEnd(s) \/ GetsOld(s) \/ DeleteContent(s)
    \/ \E r \in Runs : \/ Reply(r) \/ InsertLands(r) \/ InsertRefused(r) \/ InsertFails(r)
                       \/ \E e \in Event : Receive(r, e)

\* The handler's statements finish and its replies are sent; the player flushes
\* its queue on register and with every fourth heartbeat, and reconnects.
Fairness ==
    /\ WF_vars(Connect)
    /\ \A r \in Runs : WF_vars(Reply(r)) /\ WF_vars(InsertLands(r) \/ InsertRefused(r))
    /\ \A e \in Event : SF_vars(\E r \in Runs : Receive(r, e))

Spec == Init /\ [][Next]_vars

FairSpec == Spec /\ Fairness

-----------------------------------------------------------------------------

\* "In any order, converge to one correct row": whatever was repeated, lost or
\* reordered, an event that left the player's queue is in the table, unless it
\* is a start that was still live when it arrived.
NothingDropped ==
    \A e \in stored \ ToSet(queue) :
        Saved(e, row) \/ (e[2] = "start" /\ e[1] \in wasLive)

\* A row never loses what it holds: an end stays, however late its start lands.
RowsOnlyGrow ==
    [][\A e \in Event : Saved(e, row) => Saved(e, row')]_vars

\* An end the player queued is in the table in the end, if the connection stays.
EndEventuallySaved ==
    <>[]linked => \A s \in Sessions : <<s, "end">> \in ToSet(queue) ~> row[s] = "closed"

\* PlayEventQueue.kt: an event is "only removed once the server acks that it
\* saved it to MySQL".
RemovedWhenSaved == \A e \in stored \ ToSet(queue) : Saved(e, row)

\* A statement refused for its content is retried "rather than losing the whole
\* event": the run answers ok only when the event is in the table.
RefusalLosesNothing ==
    [][\A r \in Runs :
          run[r] \in {"insert", "live"} /\ run'[r] = "yes" => Saved(event[r], row')]_vars

\* "Cap proof-of-play inserts to at most one per device per PLAY_LOG_MIN_GAP_MS"
\* for live events: while the gap of one session runs, no live event of another
\* sets out to insert a row.
InsertsCapped ==
    [][\A r \in Runs :
          LET s == event'[r][1]
          IN  run[r] = "idle" /\ run'[r] \in {"insert", "live"} /\ s \notin old /\ row[s] = "none"
                => gap \in {s, NoSession}]_vars

=============================================================================
