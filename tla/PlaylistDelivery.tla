-------------------------- MODULE PlaylistDelivery --------------------------
(***************************************************************************)
(* How a published playlist reaches a player: pushes to the device's room  *)
(* or a marker for its next register (server/lib/command-queue.js,         *)
(* server/routes/playlists.js), the payloads of the register handler       *)
(* (server/ws/deviceSocket.js), and the player's refresh requests with     *)
(* their generation guard (WebSocketService.kt).                           *)
(*                                                                         *)
(* A payload is built by awaited queries, so what is emitted is what the   *)
(* table held at some earlier moment: the version read.  A generation is   *)
(* only compared, so it is kept as its distance above the last one         *)
(* applied; 0 stands for every generation below that.                      *)
(***************************************************************************)
EXTENDS Naturals, Sequences, SequencesExt, FiniteSetsExt

CONSTANTS
    Handlers,    \* register handlers of the device that may overlap
    Pushers,     \* pushes that may overlap
    NoGen,       \* a payload that answers no refresh request
    MaxVersion,  \* bound: playlist changes
    MaxWire,     \* bound: payloads on the wire before the player may ask again
    MaxTimeouts, \* bound: refresh requests that time out
    MaxFaults    \* bound: payload builds that fail

ASSUME DeliveryAssumption ==
    /\ NoGen \notin Nat /\ Handlers \cap Pushers = {}
    /\ MaxVersion \in Nat /\ MaxWire \in Nat \ {0}
    /\ MaxTimeouts \in Nat /\ MaxFaults \in Nat

Version == 0 .. MaxVersion

VARIABLES
    version,   \* the playlist as the database has it
    marker,    \* pendingPlaylistUpdate has the device
    link,      \* the player's connection: "down", "up", "joined" (in its room)
    wire,      \* payloads on the way to the player, in order
    handler,   \* "idle", "auth", "joined", "flush", "flushed", "build", "built"
    gen,       \* the generation each handler echoes
    own,       \* handlers of the socket that is still connected
    push,      \* "idle", "check", "build", "built"
    got,       \* the version a handler or push has read
    applied,   \* the version the player plays
    refreshed, \* history: the version of the last refresh answer applied
    inFlight,  \* refreshInFlight
    timeouts, faults

server == <<marker, handler, gen, own, push, got>>
client == <<applied, refreshed, inFlight>>
vars   == <<version, link, wire, server, client, timeouts, faults>>

Gen     == Nat \cup {NoGen}
Payload == [gen : Gen, version : Version]

TypeOK ==
    /\ version \in Version /\ marker \in BOOLEAN
    /\ link \in {"down", "up", "joined"}
    /\ wire \in Seq(Payload)
    /\ handler \in [Handlers -> {"idle", "auth", "joined", "flush", "flushed", "build", "built"}]
    /\ gen \in [Handlers -> Gen]
    /\ own \subseteq {h \in Handlers : handler[h] # "idle"}
    /\ push \in [Pushers -> {"idle", "check", "build", "built"}]
    /\ got \in [Handlers \cup Pushers -> Version]
    /\ applied \in Version /\ refreshed \in Version /\ inFlight \in BOOLEAN
    /\ link = "down" => own = {} /\ wire = <<>> /\ ~inFlight

Init ==
    /\ version = 0 /\ marker = FALSE /\ link = "down" /\ wire = <<>>
    /\ handler = [h \in Handlers |-> "idle"] /\ gen = [h \in Handlers |-> NoGen]
    /\ own = {}
    /\ push = [p \in Pushers |-> "idle"]
    /\ got = [x \in Handlers \cup Pushers |-> 0]
    /\ applied = 0 /\ refreshed = 0 /\ inFlight = FALSE
    /\ timeouts = 0 /\ faults = 0

-----------------------------------------------------------------------------
(* The player.                                                             *)

\* The handler of a register event starts.
StartHandler(h, g) ==
    /\ handler[h] = "idle"
    /\ handler' = [handler EXCEPT ![h] = "auth"]
    /\ gen' = [gen EXCEPT ![h] = g]
    /\ own' = own \cup {h}

\* The socket connects and registers.
Connect(h) ==
    /\ link = "down" /\ link' = "up"
    /\ StartHandler(h, NoGen)
    /\ UNCHANGED <<version, wire, marker, push, got, client, timeouts, faults>>

\* A faulty Cut that keeps waiting for the refresh in flight.
CutWaiting == link' = "down" /\ wire' = <<>> /\ own' = {} /\ UNCHANGED inFlight

\* The socket is gone, with what is on the wire; its handlers go on.
Cut == link' = "down" /\ wire' = <<>> /\ own' = {} /\ inFlight' = FALSE

Drop ==
    /\ link # "down"
    /\ Cut
    /\ UNCHANGED <<version, marker, handler, gen, push, got, applied, refreshed, timeouts, faults>>

\* The generations of the answers that may still arrive.
Expected == {gen[h] : h \in own} \cup {wire[i].gen : i \in DOMAIN wire}

NextGen == 1 + Max((Expected \ {NoGen}) \cup {0})

\* A fourth heartbeat, or the end of an item, asks for the playlist.
RequestRefresh(h) ==
    /\ link # "down" /\ ~inFlight /\ Len(wire) < MaxWire
    /\ inFlight' = TRUE
    /\ StartHandler(h, NextGen)
    /\ UNCHANGED <<version, link, wire, marker, push, got, applied, refreshed, timeouts, faults>>

RefreshTimesOut ==
    /\ inFlight /\ timeouts < MaxTimeouts /\ timeouts' = timeouts + 1
    /\ inFlight' = FALSE
    /\ UNCHANGED <<version, link, wire, server, applied, refreshed, faults>>

\* A generation as it compares with the newly applied g.
Since(g, x) == IF x = NoGen THEN NoGen ELSE IF x > g THEN x - g ELSE 0

\* A faulty Stale that compares the wrong way round.
StaleWhenNewer(payload) == payload.gen # NoGen /\ payload.gen > 0

Stale(payload) == payload.gen = 0

\* A payload arrives.  Any payload ends the refresh in flight; a stale answer is
\* dropped, every other payload is applied.
Receive ==
    LET payload == Head(wire)
        answer  == payload.gen # NoGen
        Renumber(x) == IF answer THEN Since(payload.gen, x) ELSE x
    IN  /\ wire # <<>>
        /\ inFlight' = FALSE
        /\ IF Stale(payload)
           THEN wire' = Tail(wire) /\ UNCHANGED <<gen, applied, refreshed>>
           ELSE /\ applied' = payload.version
                /\ refreshed' = IF answer THEN payload.version ELSE refreshed
                /\ gen' = [h \in Handlers |-> Renumber(gen[h])]
                /\ wire' = [i \in 1 .. Len(wire) - 1 |->
                               [wire[i + 1] EXCEPT !.gen = Renumber(@)]]
        /\ UNCHANGED <<version, link, marker, handler, own, push, got, timeouts, faults>>

-----------------------------------------------------------------------------
(* Pushes.                                                                 *)

\* The playlist is published; its devices are then pushed to.
Publish(p) ==
    /\ push[p] = "idle" /\ version < MaxVersion
    /\ version' = version + 1
    /\ push' = [push EXCEPT ![p] = "check"]
    /\ UNCHANGED <<link, wire, marker, handler, gen, own, got, client, timeouts, faults>>

\* A faulty Check that leaves the update to a register handler that is at work.
CheckLeaving(p) ==
    /\ push[p] = "check"
    /\ push' = [push EXCEPT ![p] = IF link = "joined" /\ own = {} THEN "build" ELSE "idle"]
    /\ marker' = (marker \/ link # "joined")
    /\ UNCHANGED <<version, link, wire, handler, gen, own, got, client, timeouts, faults>>

\* Somebody is in the room, or the device is marked for its next register.
Check(p) ==
    /\ push[p] = "check"
    /\ push' = [push EXCEPT ![p] = IF link = "joined" THEN "build" ELSE "idle"]
    /\ marker' = (marker \/ link # "joined")
    /\ UNCHANGED <<version, link, wire, handler, gen, own, got, client, timeouts, faults>>

BuildPush(p) ==
    /\ push[p] = "build"
    /\ push' = [push EXCEPT ![p] = "built"]
    /\ got' = [got EXCEPT ![p] = version]
    /\ UNCHANGED <<version, link, wire, marker, handler, gen, own, client, timeouts, faults>>

\* What an emit to the room adds to the wire: nothing when the room is empty.
EmitToRoom(v) ==
    wire' = IF link = "joined" THEN Append(wire, [gen |-> NoGen, version |-> v]) ELSE wire

EmitPush(p) ==
    /\ push[p] = "built"
    /\ push' = [push EXCEPT ![p] = "idle"]
    /\ got' = [got EXCEPT ![p] = 0]
    /\ EmitToRoom(got[p])
    /\ UNCHANGED <<version, link, marker, handler, gen, own, client, timeouts, faults>>

\* Nobody awaits the push: a failing build is an unhandled rejection, and the
\* process ends and starts again.
PushFails(p) ==
    /\ push[p] = "build"
    /\ faults < MaxFaults /\ faults' = faults + 1
    /\ Cut
    /\ marker' = FALSE
    /\ handler' = [h \in Handlers |-> "idle"] /\ gen' = [h \in Handlers |-> NoGen]
    /\ push' = [q \in Pushers |-> "idle"]
    /\ got' = [x \in DOMAIN got |-> 0]
    /\ UNCHANGED <<version, applied, refreshed, timeouts>>

-----------------------------------------------------------------------------
(* The register handler.                                                   *)

MarkerExpires ==
    /\ marker /\ marker' = FALSE
    /\ UNCHANGED <<version, link, wire, handler, gen, own, push, got, client, timeouts, faults>>

\* The flush starts: the marker is taken, if there is one.
TakeMarker(h) ==
    /\ handler' = [handler EXCEPT ![h] = IF marker THEN "flush" ELSE "build"]
    /\ marker' = FALSE

\* The handler of a reconnect or a refresh joins the room and flushes at once.
Accept(h) ==
    /\ handler[h] = "auth"
    /\ link' = IF h \in own THEN "joined" ELSE link
    /\ TakeMarker(h)
    /\ UNCHANGED <<version, wire, gen, own, push, got, client, timeouts, faults>>

\* The handler of a reclaim by fingerprint, which is never a refresh, tells the
\* dashboard, a query, between the two.
Reclaim(h) ==
    /\ handler[h] = "auth" /\ gen[h] = NoGen
    /\ link' = IF h \in own THEN "joined" ELSE link
    /\ handler' = [handler EXCEPT ![h] = "joined"]
    /\ UNCHANGED <<version, wire, marker, gen, own, push, got, client, timeouts, faults>>

FlushReclaimed(h) ==
    /\ handler[h] = "joined"
    /\ TakeMarker(h)
    /\ UNCHANGED <<version, link, wire, gen, own, push, got, client, timeouts, faults>>

\* The payload's queries run, for the flush and then for the answer.
Build(h) ==
    /\ handler[h] \in {"flush", "build"}
    /\ handler' = [handler EXCEPT ![h] = IF @ = "flush" THEN "flushed" ELSE "built"]
    /\ got' = [got EXCEPT ![h] = version]
    /\ UNCHANGED <<version, link, wire, marker, gen, own, push, client, timeouts, faults>>

EmitFlush(h) ==
    /\ handler[h] = "flushed"
    /\ handler' = [handler EXCEPT ![h] = "build"]
    /\ EmitToRoom(got[h])
    /\ UNCHANGED <<version, link, marker, gen, own, push, got, client, timeouts, faults>>

Done(h) ==
    /\ handler' = [handler EXCEPT ![h] = "idle"]
    /\ gen' = [gen EXCEPT ![h] = NoGen]
    /\ got' = [got EXCEPT ![h] = 0]

\* The answer, with the request's generation, goes to the handler's socket.
EmitAnswer(h) ==
    /\ handler[h] = "built"
    /\ Done(h)
    /\ own' = own \ {h}
    /\ wire' = IF h \in own THEN Append(wire, [gen |-> gen[h], version |-> got[h]]) ELSE wire
    /\ UNCHANGED <<version, link, marker, push, client, timeouts, faults>>

\* A faulty BuildFails that leaves the socket connected.
BuildFailsQuietly(h) ==
    /\ handler[h] \in {"joined", "flush", "build"}
    /\ faults < MaxFaults /\ faults' = faults + 1
    /\ Done(h)
    /\ own' = own \ {h} /\ UNCHANGED <<link, wire, inFlight>>
    /\ UNCHANGED <<version, marker, push, applied, refreshed, timeouts>>

\* A query fails: protectSocket disconnects the handler's socket.
BuildFails(h) ==
    /\ handler[h] \in {"joined", "flush", "build"}
    /\ faults < MaxFaults /\ faults' = faults + 1
    /\ Done(h)
    /\ IF h \in own THEN Cut ELSE UNCHANGED <<link, wire, own, inFlight>>
    /\ UNCHANGED <<version, marker, push, applied, refreshed, timeouts>>

Next ==
    \/ Drop \/ RefreshTimesOut \/ Receive \/ MarkerExpires
    \/ \E p \in Pushers : \/ Publish(p) \/ Check(p) \/ BuildPush(p)
                          \/ EmitPush(p) \/ PushFails(p)
    \/ \E h \in Handlers : \/ Connect(h) \/ RequestRefresh(h) \/ Accept(h) \/ Reclaim(h)
                           \/ FlushReclaimed(h) \/ Build(h) \/ EmitFlush(h) \/ EmitAnswer(h) \/ BuildFails(h)

\* Handlers and pushes finish, payloads arrive, the player reconnects, and it
\* asks again with every fourth heartbeat.
Fairness ==
    /\ WF_vars(Receive)
    /\ WF_vars(\E h \in Handlers : Connect(h))
    /\ WF_vars(\E h \in Handlers : RequestRefresh(h))
    /\ \A h \in Handlers : WF_vars(\/ Accept(h) \/ Reclaim(h) \/ FlushReclaimed(h) \/ Build(h)
                                    \/ EmitFlush(h) \/ EmitAnswer(h))
    /\ \A p \in Pushers : WF_vars(Check(p) \/ BuildPush(p) \/ EmitPush(p))

Spec == Init /\ [][Next]_vars

FairSpec == Spec /\ Fairness

-----------------------------------------------------------------------------

\* Whatever was lost, overtaken or dropped as stale, a player that stays
\* connected plays the last published version in the end, and keeps playing it.
EventuallyCurrent == <>[](link # "down") => <>[](applied = version)

\* "Drop anything older than the newest one we've already applied instead of
\* regressing playback state": the answers to refresh requests never take the
\* player back to an older version than an earlier answer brought.
RefreshNeverRegresses == [][refreshed' >= refreshed]_vars

\* "At most one refresh in flight at a time": no answer is on its way when the
\* next request goes out.
OneRefreshInFlight ==
    [][~inFlight /\ inFlight' => Expected \subseteq {NoGen}]_vars

=============================================================================
