--------------------------- MODULE DevicePresence ---------------------------
(***************************************************************************)
(* What the server promises about the presence of its devices, without     *)
(* handlers, timers, database statements or their order.                   *)
(*                                                                         *)
(* A device has at most one live session.  'offline' is recorded only for  *)
(* a device without one.  'offline_timeout' is recorded by a heartbeat     *)
(* tick for a device that had no session when that tick convicted it.      *)
(***************************************************************************)
CONSTANTS Devices, Sockets, Ticks

VARIABLES
    sessions,   \* the live sessions of each device
    convicted,  \* <<k, d>>: tick k is about to record a timeout of d
    record      \* the last status recorded for each device

presence == <<sessions, convicted, record>>

Init ==
    /\ sessions = [d \in Devices |-> {}]
    /\ convicted = {}
    /\ record = [d \in Devices |-> "none"]

\* A registration is accepted; the session it replaces, if any, is closed.
Admit(d, s) ==
    /\ sessions' = [sessions EXCEPT ![d] = {s}]
    /\ UNCHANGED <<convicted, record>>

Release(d) ==
    /\ sessions' = [sessions EXCEPT ![d] = {}]
    /\ UNCHANGED <<convicted, record>>

RecordOnline(d) ==
    /\ record' = [record EXCEPT ![d] = "online"]
    /\ UNCHANGED <<sessions, convicted>>

RecordOffline(d) ==
    /\ sessions[d] = {}
    /\ record' = [record EXCEPT ![d] = "offline"]
    /\ UNCHANGED <<sessions, convicted>>

Convict(k, d) ==
    /\ sessions[d] = {}
    /\ convicted' = convicted \cup {<<k, d>>}
    /\ UNCHANGED <<sessions, record>>

Acquit(k, d) ==
    /\ convicted' = convicted \ {<<k, d>>}
    /\ UNCHANGED <<sessions, record>>

RecordTimeout(k, d) ==
    /\ <<k, d>> \in convicted
    /\ convicted' = convicted \ {<<k, d>>}
    /\ record' = [record EXCEPT ![d] = "offline_timeout"]
    /\ UNCHANGED sessions

\* The server restarts: no session and no verdict survives.
Reset ==
    /\ sessions' = [d \in Devices |-> {}]
    /\ convicted' = {}
    /\ UNCHANGED record

Next ==
    \/ \E d \in Devices : \/ \E s \in Sockets : Admit(d, s)
                          \/ Release(d) \/ RecordOnline(d) \/ RecordOffline(d)
    \/ \E d \in Devices, k \in Ticks : Convict(k, d) \/ Acquit(k, d) \/ RecordTimeout(k, d)
    \/ Reset

Spec == Init /\ [][Next]_presence

=============================================================================
