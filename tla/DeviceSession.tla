--------------------------- MODULE DeviceSession ---------------------------
(***************************************************************************)
(* The life cycle of a display's connection to the server: the             *)
(* 'device:register', 'device:heartbeat' and 'disconnect' handlers of      *)
(* server/ws/deviceSocket.js, the connection map and offline sweep of      *)
(* server/services/heartbeat.js and the settle window of                   *)
(* server/lib/session-settle.js.                                           *)
(*                                                                         *)
(* The server is one event loop over a pooled asynchronous database, so an *)
(* action is the code between two awaits.  A statement that was sent and   *)
(* has not run yet is a control state of its handler: other handlers, and  *)
(* other statements, run in between in any order.  Time is abstracted to   *)
(* two flags per device, "the settle window is open" and "the last beat is *)
(* older than the timeout", that change at any moment.                     *)
(***************************************************************************)
EXTENDS Naturals

CONSTANTS
    Devices,      \* rows of the devices table, already paired
    Sockets,      \* connections to the /device namespace, never reused
    Ticks,        \* heartbeat ticks that may overlap (the callback is async)
    Owner,        \* the device each connection registers for
    Reinstalled,  \* connections of a reinstalled player, which lost id and token
    NoSocket, NoDevice,
    MaxDbFaults,  \* bound: database statements that fail
    MaxRestarts   \* bound: restarts of the server process

ASSUME SessionAssumption ==
    /\ Owner \in [Sockets -> Devices]
    /\ Reinstalled \subseteq Sockets
    /\ NoSocket \notin Sockets
    /\ NoDevice \notin Devices
    /\ MaxDbFaults \in Nat /\ MaxRestarts \in Nat

VARIABLES
    sock,        \* the transport: "new", "open" (in the namespace), "closed"
    authed,      \* sockets whose handler closure has currentDeviceId set
    conn,        \* deviceConnections: the incumbent socket of each device
    settling,    \* devices accepted within the settle window
    overdue,     \* devices whose last beat is older than the timeout
    pending,     \* pendingOfflines: the closing socket of each armed timer
    evicted,     \* evictedSockets
    reg,         \* the device:register handler running for each socket
    beat,        \* sockets whose heartbeat UPDATE is in flight
    off,         \* the offlineTransition started for each closed socket
    tick,        \* the control state of each heartbeat tick
    todo,        \* rows of the tick's SELECT it has not visited
    judged,      \* the device a tick found timed out
    superseded,  \* ticks whose judged device got a new map entry since
    status,      \* devices.status
    logged,      \* the last status handed to the status-log writer
    dbFaults, restarts

memory   == <<sock, authed, conn, settling, pending, evicted>>
handlers == <<reg, beat, off>>
sweep    == <<tick, todo, judged, superseded>>
table    == <<status, logged>>
bounds   == <<dbFaults, restarts>>
vars     == <<memory, overdue, handlers, sweep, table, bounds>>

RegisterStates   == {"idle", "auth", "online", "onlined",
                     "lookup", "token", "reonline", "reonlined"}
TransitionStates == {"idle", "offline", "offlined", "restore"}
TickStates       == {"idle", "scan", "offline", "offlined", "restore", "announce"}

TypeOK ==
    /\ sock \in [Sockets -> {"new", "open", "closed"}]
    /\ authed \subseteq Sockets
    /\ conn \in [Devices -> Sockets \cup {NoSocket}]
    /\ settling \subseteq Devices
    /\ overdue \subseteq Devices
    /\ pending \in [Devices -> Sockets \cup {NoSocket}]
    /\ evicted \subseteq Sockets
    /\ reg \in [Sockets -> RegisterStates]
    /\ beat \subseteq Sockets
    /\ off \in [Sockets -> TransitionStates]
    /\ tick \in [Ticks -> TickStates]
    /\ todo \in [Ticks -> SUBSET Devices]
    /\ judged \in [Ticks -> Devices \cup {NoDevice}]
    /\ superseded \subseteq Ticks
    /\ status \in [Devices -> {"online", "offline"}]
    /\ logged \in [Devices -> {"none", "online", "offline", "offline_timeout"}]
    /\ dbFaults \in Nat /\ restarts \in Nat

\* The server starts; the table is as an earlier process left it.
Init ==
    /\ sock = [s \in Sockets |-> "new"]
    /\ authed = {} /\ evicted = {} /\ beat = {} /\ settling = {}
    /\ conn = [d \in Devices |-> NoSocket]
    /\ pending = [d \in Devices |-> NoSocket]
    /\ overdue \in SUBSET Devices
    /\ reg = [s \in Sockets |-> "idle"]
    /\ off = [s \in Sockets |-> "idle"]
    /\ tick = [k \in Ticks |-> "idle"]
    /\ todo = [k \in Ticks |-> {}]
    /\ judged = [k \in Ticks |-> NoDevice]
    /\ superseded = {}
    /\ status \in [Devices -> {"online", "offline"}]
    /\ logged = [d \in Devices |-> "none"]
    /\ dbFaults = 0 /\ restarts = 0

\* The socket is in the /device namespace (false for NoSocket).
InNamespace(s) == s \in Sockets /\ sock[s] = "open"

\* A live session of d: an open socket that authenticated as d.
Live(s, d) == s \in authed /\ Owner[s] = d /\ sock[s] = "open"

Gone(d) == \A s \in Sockets : ~Live(s, d)

-----------------------------------------------------------------------------
(* Closing a socket runs its 'disconnect' handler at once.                 *)

\* The timers after the disconnect handler of s: none is armed for a flagged
\* socket, one that never authenticated, or one a newer socket replaced.
AfterDisconnect(s, flagged, timers) ==
    IF s \in flagged \/ s \notin authed \/ conn[Owner[s]] \notin {s, NoSocket}
    THEN timers
    ELSE [timers EXCEPT ![Owner[s]] = s]

\* socket.disconnect(true) and a transport that goes away; nothing happens
\* when the socket has left the namespace already.
Close(s) ==
    IF sock[s] = "open"
    THEN /\ sock' = [sock EXCEPT ![s] = "closed"]
         /\ pending' = AfterDisconnect(s, evicted, pending)
         /\ evicted' = evicted \ {s}
    ELSE UNCHANGED <<sock, pending, evicted>>

DbFault == dbFaults < MaxDbFaults /\ dbFaults' = dbFaults + 1 /\ UNCHANGED restarts

-----------------------------------------------------------------------------
(* The client: connects, drops, sends register and heartbeat events.       *)

Connect(s) ==
    /\ sock[s] = "new"
    /\ sock' = [sock EXCEPT ![s] = "open"]
    /\ UNCHANGED <<authed, conn, settling, pending, evicted, overdue, handlers,
                   sweep, table, bounds>>

Drop(s) ==
    /\ sock[s] = "open"
    /\ Close(s)
    /\ UNCHANGED <<authed, conn, settling, overdue, handlers, sweep, table, bounds>>

\* A register event with device_id and token: a reconnect on a new socket, a
\* playlist refresh on one that is authenticated.  The handler awaits the
\* identity, the block flag and the token before it decides.
SendRegister(s) ==
    /\ sock[s] = "open" /\ reg[s] = "idle"
    /\ s \notin Reinstalled \/ s \in authed
    /\ reg' = [reg EXCEPT ![s] = "auth"]
    /\ UNCHANGED <<memory, overdue, beat, off, sweep, table, bounds>>

\* A register event of a reinstalled player: pairing code and fingerprint, no id.
SendReclaim(s) ==
    /\ sock[s] = "open" /\ reg[s] = "idle" /\ s \in Reinstalled
    /\ reg' = [reg EXCEPT ![s] = "lookup"]
    /\ UNCHANGED <<memory, overdue, beat, off, sweep, table, bounds>>

-----------------------------------------------------------------------------
(* device:register.                                                        *)

\* auth-error: the event is refused and the socket left as it is.
Refuse(s) ==
    /\ reg[s] \in {"auth", "lookup"}
    /\ reg' = [reg EXCEPT ![s] = "idle"]
    /\ UNCHANGED <<memory, overdue, beat, off, sweep, table, bounds>>

\* Blocked, throttled, or a statement that failed: refused and disconnected.
RefuseAndClose(s) ==
    /\ reg[s] \in {"auth", "lookup"}
    /\ reg' = [reg EXCEPT ![s] = "idle"]
    /\ Close(s)
    /\ UNCHANGED <<authed, conn, settling, overdue, beat, off, sweep, table, bounds>>

\* sessionSettle.shouldHold: a live incumbent accepted a moment ago stays.
ShouldHold(s) ==
    LET d == Owner[s]
    IN  conn[d] # s /\ InNamespace(conn[d]) /\ d \in settling

\* The duplicate is flagged, then disconnected; an open socket's disconnect
\* handler takes the flag off again.
HoldDuplicate(s) ==
    /\ reg[s] = "auth" /\ ShouldHold(s)
    /\ reg' = [reg EXCEPT ![s] = "idle"]
    /\ IF sock[s] = "open"
       THEN sock' = [sock EXCEPT ![s] = "closed"] /\ evicted' = evicted \ {s}
       ELSE evicted' = evicted \cup {s} /\ UNCHANGED sock
    /\ UNCHANGED <<authed, conn, settling, pending, overdue, beat, off, sweep,
                   table, bounds>>

\* A faulty TakeOver that does not flag the socket it evicts.
TakeOverWithoutFlag(s) ==
    LET d == Owner[s]
        prior == conn[d]
        cancelled == [pending EXCEPT ![d] = NoSocket]
    IN  /\ authed' = authed \cup {s}
        /\ IF prior # s /\ InNamespace(prior)
           THEN /\ sock' = [sock EXCEPT ![prior] = "closed"]
                /\ pending' = AfterDisconnect(prior, evicted, cancelled)
           ELSE pending' = cancelled /\ UNCHANGED sock
        /\ conn' = [conn EXCEPT ![d] = s]
        /\ overdue' = overdue \ {d}
        /\ superseded' = superseded \cup {k \in Ticks : judged[k] = d}
        /\ UNCHANGED evicted

\* The synchronous core of an accepted registration: cancel the armed timer,
\* evict the prior socket (flagged, so its disconnect handler arms nothing),
\* then put this socket in the map.
TakeOver(s) ==
    LET d == Owner[s]
        prior == conn[d]
        cancelled == [pending EXCEPT ![d] = NoSocket]
    IN  /\ authed' = authed \cup {s}
        /\ IF prior # s /\ InNamespace(prior)
           THEN /\ sock' = [sock EXCEPT ![prior] = "closed"]
                /\ pending' = AfterDisconnect(prior, evicted \cup {prior}, cancelled)
                /\ evicted' = evicted \ {prior}
           ELSE pending' = cancelled /\ UNCHANGED <<sock, evicted>>
        /\ conn' = [conn EXCEPT ![d] = s]
        /\ overdue' = overdue \ {d}
        /\ superseded' = superseded \cup {k \in Ticks : judged[k] = d}

AcceptRegister(s) ==
    /\ reg[s] = "auth" /\ ~ShouldHold(s)
    /\ TakeOver(s)
    /\ settling' = settling \cup {Owner[s]}
    /\ reg' = [reg EXCEPT ![s] = "online"]
    /\ UNCHANGED <<beat, off, tick, todo, judged, table, bounds>>

\* The reclaim gate: no map entry and no recent beat.  The new token is then
\* written, and only after that await does the socket take over.
PassReclaimGate(s) ==
    /\ reg[s] = "lookup"
    /\ conn[Owner[s]] = NoSocket /\ Owner[s] \in overdue
    /\ reg' = [reg EXCEPT ![s] = "token"]
    /\ UNCHANGED <<memory, overdue, beat, off, sweep, table, bounds>>

AcceptReclaim(s) ==
    /\ reg[s] = "token"
    /\ TakeOver(s)
    /\ reg' = [reg EXCEPT ![s] = "reonline"]
    /\ UNCHANGED <<settling, beat, off, tick, todo, judged, table, bounds>>

\* UPDATE devices SET status = 'online' runs.
RegisterOnlineLands(s) ==
    /\ \/ reg[s] = "online" /\ reg' = [reg EXCEPT ![s] = "onlined"]
       \/ reg[s] = "reonline" /\ reg' = [reg EXCEPT ![s] = "reonlined"]
    /\ status' = [status EXCEPT ![Owner[s]] = "online"]
    /\ overdue' = overdue \ {Owner[s]}
    /\ UNCHANGED <<memory, beat, off, sweep, logged, bounds>>

\* The handler resumes, joins the room, answers and logs 'online'.
FinishRegister(s) ==
    /\ reg[s] \in {"onlined", "reonlined"}
    /\ reg' = [reg EXCEPT ![s] = "idle"]
    /\ logged' = [logged EXCEPT ![Owner[s]] = "online"]
    /\ UNCHANGED <<memory, overdue, beat, off, sweep, status, bounds>>

\* A statement after the take-over fails: protectSocket disconnects the socket.
RegisterFails(s) ==
    /\ reg[s] \in {"online", "onlined", "reonlined"}
    /\ DbFault
    /\ reg' = [reg EXCEPT ![s] = "idle"]
    /\ Close(s)
    /\ UNCHANGED <<authed, conn, settling, overdue, beat, off, sweep, table>>

\* A faulty ReclaimFails that drops the map entry whoever it names.
ReclaimFailsDroppingAny(s) ==
    /\ reg[s] \in {"token", "reonline"}
    /\ DbFault
    /\ reg' = [reg EXCEPT ![s] = "idle"]
    /\ conn' = [conn EXCEPT ![Owner[s]] = NoSocket]
    /\ authed' = authed \ {s}
    /\ sock' = [sock EXCEPT ![s] = "closed"]
    /\ evicted' = evicted \ {s}
    /\ UNCHANGED <<settling, pending, overdue, beat, off, sweep, table>>

\* A reclaim that fails before its row is online undoes its incumbency, if it
\* is still this socket's, and disconnects.
ReclaimFails(s) ==
    LET d == Owner[s]
    IN  /\ reg[s] \in {"token", "reonline"}
        /\ DbFault
        /\ reg' = [reg EXCEPT ![s] = "idle"]
        /\ conn' = IF conn[d] = s THEN [conn EXCEPT ![d] = NoSocket] ELSE conn
        /\ authed' = authed \ {s}
        /\ sock' = [sock EXCEPT ![s] = "closed"]
        /\ evicted' = IF sock[s] = "open" THEN evicted \ {s} ELSE evicted
        /\ UNCHANGED <<settling, pending, overdue, beat, off, sweep, table>>

-----------------------------------------------------------------------------
(* device:heartbeat.                                                       *)

Heartbeat(s) ==
    /\ sock[s] = "open" /\ s \in authed /\ s \notin beat
    /\ overdue' = IF conn[Owner[s]] # NoSocket THEN overdue \ {Owner[s]} ELSE overdue
    /\ beat' = beat \cup {s}
    /\ UNCHANGED <<memory, reg, off, sweep, table, bounds>>

\* A faulty heartbeat that refreshes last_heartbeat and not the status.
HeartbeatLandsBeatOnly(s) ==
    /\ s \in beat
    /\ beat' = beat \ {s}
    /\ overdue' = overdue \ {Owner[s]}
    /\ UNCHANGED <<memory, reg, off, sweep, table, bounds>>

HeartbeatLands(s) ==
    /\ s \in beat
    /\ beat' = beat \ {s}
    /\ status' = [status EXCEPT ![Owner[s]] = "online"]
    /\ overdue' = overdue \ {Owner[s]}
    /\ UNCHANGED <<memory, reg, off, sweep, logged, bounds>>

HeartbeatFails(s) ==
    /\ s \in beat
    /\ DbFault
    /\ beat' = beat \ {s}
    /\ Close(s)
    /\ UNCHANGED <<authed, conn, settling, overdue, reg, off, sweep, table>>

-----------------------------------------------------------------------------
(* disconnect: the deferred offline transition of the closed socket s.     *)

\* Another socket holds the device: the closed socket has no say any more.
Replaced(s) == conn[Owner[s]] \notin {s, NoSocket}

OfflineTimerFires(s) ==
    /\ pending[Owner[s]] = s
    /\ pending' = [pending EXCEPT ![Owner[s]] = NoSocket]
    /\ off' = IF Replaced(s) THEN off ELSE [off EXCEPT ![s] = "offline"]
    /\ UNCHANGED <<sock, authed, conn, settling, evicted, overdue, reg, beat,
                   sweep, table, bounds>>

OfflineLands(s) ==
    /\ off[s] = "offline"
    /\ off' = [off EXCEPT ![s] = "offlined"]
    /\ status' = [status EXCEPT ![Owner[s]] = "offline"]
    /\ UNCHANGED <<memory, overdue, reg, beat, sweep, logged, bounds>>

\* The device came back during the await: write 'online' again and stop.
OfflineRaceDetected(s) ==
    /\ off[s] = "offlined" /\ Replaced(s)
    /\ off' = [off EXCEPT ![s] = "restore"]
    /\ UNCHANGED <<memory, overdue, reg, beat, sweep, table, bounds>>

OfflineCompletes(s) ==
    /\ off[s] = "offlined" /\ ~Replaced(s)
    /\ off' = [off EXCEPT ![s] = "idle"]
    /\ conn' = [conn EXCEPT ![Owner[s]] = NoSocket]
    /\ logged' = [logged EXCEPT ![Owner[s]] = "offline"]
    /\ UNCHANGED <<sock, authed, settling, pending, evicted, overdue, reg, beat,
                   sweep, status, bounds>>

OfflineRestoreLands(s) ==
    /\ off[s] = "restore"
    /\ off' = [off EXCEPT ![s] = "idle"]
    /\ status' = [status EXCEPT ![Owner[s]] = "online"]
    /\ UNCHANGED <<memory, overdue, reg, beat, sweep, logged, bounds>>

\* A faulty OfflineFails that leaves the transition in no known state.
OfflineFailsStuck(s) ==
    /\ off[s] \in {"offline", "restore"}
    /\ DbFault
    /\ off' = [off EXCEPT ![s] = "failed"]
    /\ UNCHANGED <<memory, overdue, reg, beat, sweep, table>>

\* The rejection is caught and logged; the map entry stays.
OfflineFails(s) ==
    /\ off[s] \in {"offline", "restore"}
    /\ DbFault
    /\ off' = [off EXCEPT ![s] = "idle"]
    /\ UNCHANGED <<memory, overdue, reg, beat, sweep, table>>

-----------------------------------------------------------------------------
(* The heartbeat tick: SELECT the online rows, visit them one by one.      *)

TickStart(k) ==
    /\ tick[k] = "idle"
    /\ tick' = [tick EXCEPT ![k] = "scan"]
    /\ todo' = [todo EXCEPT ![k] = {d \in Devices : status[d] = "online"}]
    /\ UNCHANGED <<memory, overdue, handlers, judged, superseded, table, bounds>>

\* A faulty TimedOut that trusts a map entry although its socket is gone.
TimedOutUnmapped(d) == conn[d] = NoSocket /\ d \in overdue

TimedOut(d) == ~InNamespace(conn[d]) /\ d \in overdue

\* A device with a live socket, or a recent beat, is left alone.
TickSkips(k, d) ==
    /\ tick[k] = "scan" /\ d \in todo[k]
    /\ ~TimedOut(d)
    /\ todo' = [todo EXCEPT ![k] = @ \ {d}]
    /\ UNCHANGED <<memory, overdue, handlers, tick, judged, superseded, table, bounds>>

TickJudges(k, d) ==
    /\ tick[k] = "scan" /\ d \in todo[k]
    /\ TimedOut(d)
    /\ tick' = [tick EXCEPT ![k] = "offline"]
    /\ todo' = [todo EXCEPT ![k] = @ \ {d}]
    /\ judged' = [judged EXCEPT ![k] = d]
    /\ superseded' = superseded \ {k}
    /\ UNCHANGED <<memory, overdue, handlers, table, bounds>>

TickOfflineLands(k) ==
    /\ tick[k] = "offline"
    /\ tick' = [tick EXCEPT ![k] = "offlined"]
    /\ status' = [status EXCEPT ![judged[k]] = "offline"]
    /\ UNCHANGED <<memory, overdue, handlers, todo, judged, superseded, logged, bounds>>

\* cur && cur !== conn: the map holds an entry that was made after the visit.
CameBack(k) == conn[judged[k]] # NoSocket /\ k \in superseded

\* A faulty tick that notices the race and does not write 'online' again.
TickRaceUncorrected(k) ==
    /\ tick[k] = "offlined" /\ CameBack(k)
    /\ tick' = [tick EXCEPT ![k] = "scan"]
    /\ judged' = [judged EXCEPT ![k] = NoDevice]
    /\ superseded' = superseded \ {k}
    /\ UNCHANGED <<memory, overdue, handlers, todo, table, bounds>>

TickRaceDetected(k) ==
    /\ tick[k] = "offlined" /\ CameBack(k)
    /\ tick' = [tick EXCEPT ![k] = "restore"]
    /\ UNCHANGED <<memory, overdue, handlers, todo, judged, superseded, table, bounds>>

TickRestoreLands(k) ==
    /\ tick[k] = "restore"
    /\ tick' = [tick EXCEPT ![k] = "scan"]
    /\ status' = [status EXCEPT ![judged[k]] = "online"]
    /\ judged' = [judged EXCEPT ![k] = NoDevice]
    /\ superseded' = superseded \ {k}
    /\ UNCHANGED <<memory, overdue, handlers, todo, logged, bounds>>

\* A faulty tick that drops whatever entry it finds after the await.
TickDropsAnyEntry(k) ==
    /\ tick[k] = "offlined"
    /\ tick' = [tick EXCEPT ![k] = "announce"]
    /\ conn' = [conn EXCEPT ![judged[k]] = NoSocket]
    /\ UNCHANGED <<sock, authed, settling, pending, evicted, overdue, handlers,
                   todo, judged, superseded, table, bounds>>

\* The entry judged above is dropped; then the tick awaits the device's room.
TickDropsEntry(k) ==
    /\ tick[k] = "offlined" /\ ~CameBack(k)
    /\ tick' = [tick EXCEPT ![k] = "announce"]
    /\ conn' = [conn EXCEPT ![judged[k]] = NoSocket]
    /\ UNCHANGED <<sock, authed, settling, pending, evicted, overdue, handlers,
                   todo, judged, superseded, table, bounds>>

TickRecords(k) ==
    /\ tick[k] = "announce"
    /\ tick' = [tick EXCEPT ![k] = "scan"]
    /\ logged' = [logged EXCEPT ![judged[k]] = "offline_timeout"]
    /\ judged' = [judged EXCEPT ![k] = NoDevice]
    /\ superseded' = superseded \ {k}
    /\ UNCHANGED <<memory, overdue, handlers, todo, status, bounds>>

TickEnds(k) ==
    /\ tick[k] = "scan" /\ todo[k] = {}
    /\ tick' = [tick EXCEPT ![k] = "idle"]
    /\ UNCHANGED <<memory, overdue, handlers, todo, judged, superseded, table, bounds>>

\* Any statement of the tick fails: the catch ends the whole tick.
TickFails(k) ==
    /\ tick[k] \in {"scan", "offline", "restore", "announce"}
    /\ DbFault
    /\ tick' = [tick EXCEPT ![k] = "idle"]
    /\ todo' = [todo EXCEPT ![k] = {}]
    /\ judged' = [judged EXCEPT ![k] = NoDevice]
    /\ superseded' = superseded \ {k}
    /\ UNCHANGED <<memory, overdue, handlers, table>>

-----------------------------------------------------------------------------
(* Time and the process.                                                   *)

SettleWindowEnds(d) ==
    /\ d \in settling
    /\ settling' = settling \ {d}
    /\ UNCHANGED <<sock, authed, conn, pending, evicted, overdue, handlers, sweep,
                   table, bounds>>

BeatAges(d) ==
    /\ d \notin overdue
    /\ overdue' = overdue \cup {d}
    /\ UNCHANGED <<memory, handlers, sweep, table, bounds>>

\* The process is restarted: every Map, Set, timer and closure is gone.
Restart ==
    /\ restarts < MaxRestarts
    /\ restarts' = restarts + 1
    /\ sock' = [s \in Sockets |-> IF sock[s] = "open" THEN "closed" ELSE sock[s]]
    /\ authed' = {} /\ settling' = {} /\ evicted' = {} /\ beat' = {}
    /\ conn' = [d \in Devices |-> NoSocket]
    /\ pending' = [d \in Devices |-> NoSocket]
    /\ reg' = [s \in Sockets |-> "idle"]
    /\ off' = [s \in Sockets |-> "idle"]
    /\ tick' = [k \in Ticks |-> "idle"]
    /\ todo' = [k \in Ticks |-> {}]
    /\ judged' = [k \in Ticks |-> NoDevice]
    /\ superseded' = {}
    /\ UNCHANGED <<overdue, table, dbFaults>>

-----------------------------------------------------------------------------

ClientStep(s) == Connect(s) \/ Drop(s) \/ SendRegister(s) \/ SendReclaim(s)

RegisterStep(s) ==
    \/ Refuse(s) \/ RefuseAndClose(s) \/ HoldDuplicate(s) \/ AcceptRegister(s)
    \/ PassReclaimGate(s) \/ AcceptReclaim(s)
    \/ RegisterOnlineLands(s) \/ FinishRegister(s)

TransitionStep(s) ==
    \/ OfflineTimerFires(s) \/ OfflineLands(s) \/ OfflineRaceDetected(s)
    \/ OfflineCompletes(s) \/ OfflineRestoreLands(s)

TickStep(k) ==
    \/ TickStart(k)
    \/ \E d \in Devices : TickSkips(k, d) \/ TickJudges(k, d)
    \/ TickOfflineLands(k) \/ TickRaceDetected(k) \/ TickRestoreLands(k)
    \/ TickDropsEntry(k) \/ TickRecords(k) \/ TickEnds(k)

FaultStep ==
    \/ \E s \in Sockets : RegisterFails(s) \/ ReclaimFails(s) \/ HeartbeatFails(s)
                          \/ OfflineFails(s)
    \/ \E k \in Ticks : TickFails(k)
    \/ Restart

Next ==
    \/ \E s \in Sockets : ClientStep(s) \/ RegisterStep(s) \/ TransitionStep(s)
                          \/ Heartbeat(s) \/ HeartbeatLands(s)
    \/ \E k \in Ticks : TickStep(k)
    \/ \E d \in Devices : SettleWindowEnds(d) \/ BeatAges(d)
    \/ FaultStep

\* The event loop keeps running: handlers resume, statements finish, timers
\* fire, ticks go on, time passes.  An open, authenticated player keeps sending
\* heartbeats.  Nothing makes a client connect, register or drop.
Fairness ==
    /\ \A s \in Sockets :
        /\ WF_vars(RegisterStep(s))
        /\ WF_vars(TransitionStep(s))
        /\ WF_vars(Heartbeat(s))
        /\ WF_vars(HeartbeatLands(s))
    /\ \A k \in Ticks : WF_vars(TickStep(k))
    /\ \A d \in Devices : WF_vars(BeatAges(d))

Spec     == Init /\ [][Next]_vars
FairSpec == Spec /\ Fairness

-----------------------------------------------------------------------------
(* Safety.                                                                 *)

\* A device has one live session at most, and the connection map names it: no
\* interleaving of registrations, reclaims, evictions, failures, deferred
\* offline transitions and sweeps leaves a live session the map has lost.
UniqueIncumbent ==
    \A s \in Sockets, d \in Devices : Live(s, d) => conn[d] = s

\* An armed offline timer means that the device has no live session: a
\* registration cancels the timer, and evicting the prior socket arms no new one.
NoTimerWhileLive ==
    \A d \in Devices : pending[d] # NoSocket => Gone(d)

\* Somebody will still write 'online' for d: the registration itself, or an
\* offline writer that notices it has been overtaken.
Correcting(d) ==
    \/ \E s \in Sockets : Owner[s] = d /\ reg[s] \in {"online", "reonline"}
    \/ \E s \in Sockets : Owner[s] = d /\ off[s] \in {"offlined", "restore"}
    \/ \E k \in Ticks : judged[k] = d /\ tick[k] \in {"offlined", "restore"}

\* Two pooled connections may apply 'online' and 'offline' in either order, but
\* a live device is shown offline only while a writer is still to correct it
\* (a correction whose statement fails waits for the next heartbeat).
NoFalseOffline ==
    \A d \in Devices :
        ~Gone(d) /\ status[d] = "offline" /\ dbFaults = 0 => Correcting(d)

\* The deferred transition never records 'offline' for a device that has a live
\* session, although it decides before an await and records after it.
OfflineLoggedOnlyWhenGone ==
    [][\A d \in Devices : logged[d] # "offline" /\ logged'[d] = "offline" => Gone(d)]_vars

-----------------------------------------------------------------------------
(* What the server promises (DevicePresence), implemented by its handlers. *)

Presence == INSTANCE DevicePresence WITH
    sessions  <- [d \in Devices |-> {s \in Sockets : Live(s, d)}],
    convicted <- {<<k, judged[k]>> : k \in {j \in Ticks : tick[j] = "announce"}},
    record    <- logged

\* Every step of the handlers is a step of DevicePresence or changes nothing it
\* can see: one live session per device through takeovers and faults, 'offline'
\* only without a session, a timeout only for a device convicted without one.
ImplementsPresence == Presence!Spec

-----------------------------------------------------------------------------
(* Liveness, under FairSpec.                                               *)

NoClient(d) == \A s \in Sockets : Owner[s] = d => sock[s] # "open"

\* A device nobody is connected for ends up offline, whatever statement landed
\* last and even when the process restarted before its timer fired.
EventuallyOffline ==
    \A d \in Devices : <>[]NoClient(d) => <>[](status[d] = "offline")

\* A device whose session stays up ends up online, even when the statement that
\* should have restored 'online' failed.
EventuallyOnline ==
    \A d \in Devices : <>[](\E s \in Sockets : Live(s, d)) => <>[](status[d] = "online")

-----------------------------------------------------------------------------
(* Statements of the code's comments that the code does not keep.          *)

\* "Drained on consumption": a socket that is closed and has no handler left
\* is no longer flagged as evicted.
EvictedDrained ==
    \A s \in evicted : sock[s] = "closed" => reg[s] # "idle"

\* "A leaked/duplicated fingerprint shouldn't be enough to take over a LIVE
\* device": a reclaim never closes another live session of its device.
ReclaimSparesLive ==
    [][\A s \in Sockets : reg[s] = "token" /\ reg'[s] = "reonline"
            => \A x \in Sockets \ {s} : ~Live(x, Owner[s])]_vars

\* "Skip the offline event / 'offline_timeout' log entry" when the device came
\* back during the tick: a timeout is never recorded for a live device.
TimeoutLoggedOnlyWhenGone ==
    [][\A d \in Devices : logged[d] # "offline_timeout" /\ logged'[d] = "offline_timeout"
            => Gone(d)]_vars

\* "The set with a live socket THIS INSTANT": every entry of the connection map
\* is an open socket.
MapIsLive ==
    \A d \in Devices : conn[d] # NoSocket => InNamespace(conn[d])

\* "Because a NEWER socket took over the device": a registration that evicts a
\* live session leaves a live session.
EvictionKeepsDeviceLive ==
    [][\A s \in Sockets :
          reg[s] = "auth" /\ reg'[s] = "online" /\ ~Gone(Owner[s]) => ~Gone(Owner[s])']_vars

=============================================================================
