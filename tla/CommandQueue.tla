---------------------------- MODULE CommandQueue ----------------------------
(***************************************************************************)
(* The short-lived queue of commands and playlist pushes for a device that *)
(* is away (server/lib/command-queue.js), the dashboard handler that sends *)
(* or queues a command (server/ws/dashboardSocket.js) and the register     *)
(* handler that joins the device's room and flushes the queue              *)
(* (server/ws/deviceSocket.js).  One device; a command is the number of    *)
(* its sending, per type, so a larger number is the later intention.       *)
(***************************************************************************)
EXTENDS Naturals, Sequences, SequencesExt

CONSTANTS
    Types,      \* command types
    Handlers,   \* register handlers of the device that may overlap
    MaxSends,   \* bound: commands sent per type
    MaxPushes,  \* bound: playlist updates
    MaxFaults   \* bound: payload builds that fail

ASSUME QueueAssumption ==
    IsFiniteSet(Types) /\ MaxSends \in Nat /\ MaxPushes \in Nat /\ MaxFaults \in Nat

VARIABLES
    link,      \* the player's connection: "down", "up", "joined" (in its room)
    handler,   \* "idle", "auth" (before the join), "joined" (before the flush),
               \* "building" (the flush awaits its payload)
    own,       \* handlers that run for the socket that is still connected
    marker,    \* pendingPlaylistUpdate has the device
    queue,     \* pendingCommands: the queued command of each type, 0 if none
    channel,   \* commands on the wire, in order
    sent,      \* the last command sent of each type
    executed,  \* the last command the player executed of each type
    passed,    \* history: types of which a live command passed a queued one
    pushes, faults

vars == <<link, handler, own, marker, queue, channel, sent, executed, passed, pushes, faults>>

Command == [type : Types, no : 1 .. MaxSends]

TypeOK ==
    /\ link \in {"down", "up", "joined"}
    /\ handler \in [Handlers -> {"idle", "auth", "joined", "building"}]
    /\ own \subseteq Handlers
    /\ marker \in BOOLEAN
    /\ queue \in [Types -> 0 .. MaxSends]
    /\ channel \in Seq(Command)
    /\ sent \in [Types -> 0 .. MaxSends] /\ executed \in [Types -> 0 .. MaxSends]
    /\ passed \subseteq Types
    /\ pushes \in 0 .. MaxPushes /\ faults \in 0 .. MaxFaults

Init ==
    /\ link = "down"
    /\ handler = [h \in Handlers |-> "idle"] /\ own = {}
    /\ marker = FALSE
    /\ queue = [t \in Types |-> 0] /\ channel = <<>>
    /\ sent = [t \in Types |-> 0] /\ executed = [t \in Types |-> 0]
    /\ passed = {} /\ pushes = 0 /\ faults = 0

-----------------------------------------------------------------------------
(* The player.                                                             *)

Connect ==
    /\ link = "down" /\ link' = "up"
    /\ UNCHANGED <<handler, own, marker, queue, channel, sent, executed, passed, pushes, faults>>

\* The transport goes away with what is on the wire; handlers keep running.
Cut == link' = "down" /\ channel' = <<>> /\ own' = {}

Drop ==
    /\ link # "down"
    /\ Cut
    /\ UNCHANGED <<handler, marker, queue, sent, executed, passed, pushes, faults>>

\* A register event: a reconnect, or a refresh on a socket that has joined.
SendRegister(h) ==
    /\ link # "down" /\ handler[h] = "idle"
    /\ handler' = [handler EXCEPT ![h] = "auth"]
    /\ own' = own \cup {h}
    /\ UNCHANGED <<link, marker, queue, channel, sent, executed, passed, pushes, faults>>

Execute ==
    /\ channel # <<>>
    /\ executed' = [executed EXCEPT ![Head(channel).type] = Head(channel).no]
    /\ channel' = Tail(channel)
    /\ UNCHANGED <<link, handler, own, marker, queue, sent, passed, pushes, faults>>

-----------------------------------------------------------------------------
(* The dashboard.                                                          *)

\* A command goes to the room when somebody is in it, else to the queue, where
\* it replaces the one of its type.
SendCommand(t) ==
    /\ sent[t] < MaxSends
    /\ sent' = [sent EXCEPT ![t] = @ + 1]
    /\ IF link = "joined"
       THEN /\ channel' = Append(channel, [type |-> t, no |-> sent'[t]])
            /\ passed' = IF queue[t] # 0 THEN passed \cup {t} ELSE passed
            /\ UNCHANGED queue
       ELSE /\ queue' = [queue EXCEPT ![t] = sent'[t]]
            /\ UNCHANGED <<channel, passed>>
    /\ UNCHANGED <<link, handler, own, marker, executed, pushes, faults>>

\* A playlist update: pushed to the room, or remembered for the next register.
PushPlaylist ==
    /\ pushes < MaxPushes /\ pushes' = pushes + 1
    /\ marker' = (marker \/ link # "joined")
    /\ UNCHANGED <<link, handler, own, queue, channel, sent, executed, passed, faults>>

\* Entries outlive their TTL; a flush prunes them, and so does the sweep.
Expire(t) ==
    /\ queue[t] # 0
    /\ queue' = [queue EXCEPT ![t] = 0]
    /\ UNCHANGED <<link, handler, own, marker, channel, sent, executed, passed, pushes, faults>>

ExpireMarker ==
    /\ marker /\ marker' = FALSE
    /\ UNCHANGED <<link, handler, own, queue, channel, sent, executed, passed, pushes, faults>>

-----------------------------------------------------------------------------
(* The register handler.                                                   *)

Refuse(h) ==
    /\ handler[h] = "auth"
    /\ handler' = [handler EXCEPT ![h] = "idle"]
    /\ own' = own \ {h}
    /\ UNCHANGED <<link, marker, queue, channel, sent, executed, passed, pushes, faults>>

\* A faulty Drain that emits the commands and keeps them queued.
DrainKeeping(room) ==
    /\ UNCHANGED queue
    /\ IF room = "joined"
       THEN \E order \in SetToSeqs({t \in Types : queue[t] # 0}) :
              channel' = channel \o [i \in DOMAIN order |->
                                        [type |-> order[i], no |-> queue[order[i]]]]
       ELSE UNCHANGED channel

\* The queued commands leave the queue and are emitted to the room (the order of
\* different types does not matter here); an empty room loses them.
Drain(room) ==
    /\ queue' = [t \in Types |-> 0]
    /\ IF room = "joined"
       THEN \E order \in SetToSeqs({t \in Types : queue[t] # 0}) :
              channel' = channel \o [i \in DOMAIN order |->
                                        [type |-> order[i], no |-> queue[order[i]]]]
       ELSE UNCHANGED channel

\* The flush: a pending playlist update is taken and its payload awaited before
\* the commands are looked at.
FlushQueue(h, room) ==
    /\ marker' = FALSE
    /\ IF marker
       THEN /\ handler' = [handler EXCEPT ![h] = "building"]
            /\ UNCHANGED <<queue, channel, own>>
       ELSE /\ handler' = [handler EXCEPT ![h] = "idle"]
            /\ own' = own \ {h}
            /\ Drain(room)

\* The handler is accepted: it joins the room (a closed socket joins nothing).
Join(h) ==
    /\ handler[h] = "auth"
    /\ link' = IF h \in own THEN "joined" ELSE link

\* A reconnect joins and starts its flush at once.
Register(h) ==
    /\ Join(h)
    /\ FlushQueue(h, link')
    /\ UNCHANGED <<sent, executed, passed, pushes, faults>>

\* A reclaim by fingerprint tells the dashboard, a query, before it flushes.
Reclaim(h) ==
    /\ Join(h)
    /\ handler' = [handler EXCEPT ![h] = "joined"]
    /\ UNCHANGED <<own, marker, queue, channel, sent, executed, passed, pushes, faults>>

FlushReclaimed(h) ==
    /\ handler[h] = "joined"
    /\ FlushQueue(h, link)
    /\ UNCHANGED <<link, sent, executed, passed, pushes, faults>>

\* The payload is built: the playlist and the queued commands are emitted.
Flush(h) ==
    /\ handler[h] = "building"
    /\ handler' = [handler EXCEPT ![h] = "idle"]
    /\ own' = own \ {h}
    /\ Drain(link)
    /\ UNCHANGED <<link, marker, sent, executed, passed, pushes, faults>>

\* A faulty BuildFails that leaves the socket connected.
BuildFailsQuietly(h) ==
    /\ handler[h] \in {"joined", "building"}
    /\ faults < MaxFaults /\ faults' = faults + 1
    /\ handler' = [handler EXCEPT ![h] = "idle"]
    /\ own' = own \ {h}
    /\ UNCHANGED <<link, marker, queue, channel, sent, executed, passed, pushes>>

\* A faulty BuildFails that leaves the handler in no known state.
BuildFailsStuck(h) ==
    /\ handler[h] \in {"joined", "building"}
    /\ faults < MaxFaults /\ faults' = faults + 1
    /\ handler' = [handler EXCEPT ![h] = "failed"]
    /\ IF h \in own THEN Cut ELSE UNCHANGED <<link, channel, own>>
    /\ UNCHANGED <<marker, queue, sent, executed, passed, pushes>>

\* The payload cannot be built, or the reclaim's query fails: protectSocket
\* disconnects the handler's socket.
BuildFails(h) ==
    /\ handler[h] \in {"joined", "building"}
    /\ faults < MaxFaults /\ faults' = faults + 1
    /\ handler' = [handler EXCEPT ![h] = "idle"]
    /\ IF h \in own THEN Cut ELSE UNCHANGED <<link, channel, own>>
    /\ UNCHANGED <<marker, queue, sent, executed, passed, pushes>>

Next ==
    \/ Connect \/ Drop \/ Execute \/ PushPlaylist \/ ExpireMarker
    \/ \E t \in Types : SendCommand(t) \/ Expire(t)
    \/ \E h \in Handlers : \/ SendRegister(h) \/ Refuse(h) \/ Register(h)
                           \/ Reclaim(h) \/ FlushReclaimed(h) \/ Flush(h) \/ BuildFails(h)

Spec == Init /\ [][Next]_vars

-----------------------------------------------------------------------------

\* No command and no playlist update waits for a device that is already in its
\* room, unless a handler is between its join and the end of its flush: a playlist
\* update only until the flush starts, a command until its payload is built.
NothingStranded ==
    link = "joined" =>
        /\ marker => \E h \in Handlers : handler[h] = "joined"
        /\ (\E t \in Types : queue[t] # 0) =>
               \E h \in Handlers : handler[h] \in {"joined", "building"}

\* What is on the wire is younger than what the player has executed, and in the
\* order of sending: no command of a type is executed after a later one, and none
\* twice, whatever is queued, flushed, lost or cut off.  The only way out of order
\* is a live command that passes a queued one between a handler's join and the end
\* of its flush.
InOrder ==
    \A i \in DOMAIN channel :
        LET c == channel[i]
        IN  c.type \notin passed =>
                /\ c.no > executed[c.type]
                /\ \A j \in 1 .. i - 1 : channel[j].type = c.type => channel[j].no < c.no

-----------------------------------------------------------------------------
(* Statements of the code's comments that the code does not keep.          *)

\* "Last-of-type wins": of two commands of a type the later one is executed last.
LastOfTypeWins ==
    [][\A t \in Types : executed'[t] # executed[t] => executed'[t] > executed[t]]_vars

\* "Without this queue, any device:command emitted during the disconnect window
\* goes nowhere": a flush puts every command it takes from the queue on the wire.
FlushDelivers ==
    [][\A h \in Handlers, t \in Types :
          handler[h] # "idle" /\ handler'[h] = "idle" /\ queue[t] # 0 /\ queue'[t] = 0
            => \E i \in DOMAIN channel' : channel'[i] = [type |-> t, no |-> queue[t]]]_vars

=============================================================================
