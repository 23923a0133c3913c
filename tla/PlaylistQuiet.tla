--------------------------- MODULE PlaylistQuiet ---------------------------
(***************************************************************************)
(* What the pushes and the register's answers of PlaylistDelivery achieve  *)
(* without any refresh: a published playlist is forgotten nowhere between  *)
(* the room, the marker, the handlers and the wire.  Only one payload that  *)
(* overtakes another can leave the player behind, and a history variable   *)
(* says that it happened.                                                  *)
(***************************************************************************)
EXTENDS PlaylistDelivery

VARIABLE overtaken  \* history, per connection: a payload went out behind a later version

qvars == <<vars, overtaken>>

\* A payload goes out that is older than what the player has or will have by then.
Overtakes ==
    /\ Len(wire') > Len(wire)
    /\ LET v == wire'[Len(wire')].version
       IN  v < applied \/ \E i \in DOMAIN wire : v < wire[i].version

QuietInit == Init /\ overtaken = FALSE
QuietNext == Next /\ overtaken' = (link' # "down" /\ (overtaken \/ Overtakes))

QuietSpec == QuietInit /\ [][QuietNext]_qvars

QuietFairSpec == QuietSpec /\ Fairness

-----------------------------------------------------------------------------

\* Nobody is building, checking or sending anything, and the player is in its room.
AtRest == link = "joined" /\ own = {} /\ wire = <<>> /\ \A p \in Pushers : push[p] = "idle"

\* A player in its room that nothing is under way to plays the published playlist, unless
\* payloads overtook each other: a push that finds the room empty, a marker that expires, a
\* socket that is cut and a build that fails are all made up for by the register that follows
\* (queueOrEmitPlaylistUpdate, flushQueue, and the answer of 'device:register').
QuietMeansCurrent == AtRest /\ ~overtaken => applied = version

\* As long as the player waits for a refresh, an answer that it will not drop as stale is on
\* its way, whatever was answered, timed out, failed or was cut off before
\* (requestPlaylistRefresh, and the generation guard of WebSocketService.kt).
RefreshAnswered == inFlight => \E g \in Expected \ {NoGen} : g > 0
=============================================================================
