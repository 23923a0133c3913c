----------------------- MODULE DeviceSession_proofs -----------------------
(***************************************************************************)
(* Proofs, for any set of devices, sockets and overlapping ticks and any   *)
(* number of faults, that the safety properties of DeviceSession hold and  *)
(* that it implements DevicePresence.                                      *)
(*                                                                         *)
(* UniqueIncumbent is not inductive by itself: a tick or a deferred        *)
(* transition drops a map entry on the strength of what it saw before an   *)
(* await.  JudgedGone and ClosedOwners say that what it saw is still true, *)
(* or that the entry was made since and the code will notice.              *)
(***************************************************************************)
EXTENDS DeviceSession, TLAPS

\* Only a connected socket has a handler, a session or a map entry, and a map
\* entry names a socket that authenticated as the device.
Origin ==
    /\ \A s \in Sockets : reg[s] # "idle" \/ s \in authed \/ s \in beat => sock[s] # "new"
    /\ \A d \in Devices : conn[d] # NoSocket => conn[d] \in authed /\ Owner[conn[d]] = d

\* Timers and offline transitions belong to closed sockets of their device.
ClosedOwners ==
    /\ \A s \in Sockets : off[s] # "idle" => sock[s] = "closed"
    /\ \A d \in Devices : pending[d] # NoSocket =>
            Owner[pending[d]] = d /\ sock[pending[d]] = "closed"

\* A tick that is writing 'offline' for a device has seen it without a live
\* socket, or an entry was made since and the tick will notice.
JudgedGone ==
    \A k \in Ticks :
        /\ tick[k] \notin {"idle", "scan"} => judged[k] \in Devices
        /\ tick[k] \in {"offline", "offlined"} /\ k \notin superseded
             => ~InNamespace(conn[judged[k]])

IInv == /\ TypeOK /\ UniqueIncumbent /\ NoTimerWhileLive /\ NoFalseOffline
        /\ Origin /\ ClosedOwners /\ JudgedGone

USE SessionAssumption
USE DEF RegisterStates, TransitionStates, TickStates,
        memory, handlers, sweep, table, bounds

-----------------------------------------------------------------------------
(* The two pieces of code that several handlers share.                     *)

\* Closing a socket keeps the map, and arms a timer for that socket at most,
\* and only when no other socket holds its device.
LEMMA CloseFacts ==
    ASSUME TypeOK, NEW s \in Sockets, Close(s), sock[s] # "new"
    PROVE  /\ sock' = [sock EXCEPT ![s] = "closed"]
           /\ evicted' \subseteq Sockets
           /\ pending' \in [Devices -> Sockets \cup {NoSocket}]
           /\ \A d \in Devices : pending'[d] # pending[d]
                => pending'[d] = s /\ d = Owner[s] /\ conn[d] \in {s, NoSocket}
BY DEF TypeOK, Close, AfterDisconnect

\* A take-over closes the prior incumbent and nothing else, leaves no timer
\* armed for the device and puts the socket in the map.
LEMMA TakeOverFacts ==
    ASSUME IInv, NEW s \in Sockets, TakeOver(s), reg[s] # "idle"
    PROVE  /\ sock' \in [Sockets -> {"new", "open", "closed"}]
           /\ \A x \in Sockets :
                \/ sock'[x] = sock[x]
                \/ sock'[x] = "closed" /\ sock[x] = "open" /\ x = conn[Owner[s]]
           /\ \A x \in Sockets \ {s} : conn[Owner[s]] = x => sock'[x] # "open"
           /\ authed' = authed \cup {s}
           /\ evicted' \subseteq Sockets
           /\ conn' = [conn EXCEPT ![Owner[s]] = s]
           /\ pending' = [pending EXCEPT ![Owner[s]] = NoSocket]
           /\ overdue' \subseteq Devices
           /\ superseded' = superseded \cup {k \in Ticks : judged[k] = Owner[s]}
BY DEF TakeOver, AfterDisconnect, IInv, TypeOK, Origin, InNamespace

-----------------------------------------------------------------------------
(* The inductive invariant.                                                *)

LEMMA InitIInv == Init => IInv
<1> SUFFICES ASSUME Init PROVE IInv
  OBVIOUS
<1>1. TypeOK
  BY DEF Init, TypeOK
<1>2. UniqueIncumbent /\ NoTimerWhileLive /\ NoFalseOffline
  BY DEF Init, UniqueIncumbent, NoTimerWhileLive, NoFalseOffline, Live, Gone
<1>3. Origin /\ ClosedOwners /\ JudgedGone
  BY DEF Init, Origin, ClosedOwners, JudgedGone
<1> QED
  BY <1>1, <1>2, <1>3 DEF IInv

\* The client connects, drops, or sends a register event.
LEMMA ClientKeeps ==
    ASSUME IInv, NEW s \in Sockets, ClientStep(s)
    PROVE  IInv'
<1> USE DEF IInv, TypeOK, UniqueIncumbent, NoTimerWhileLive, NoFalseOffline,
         Correcting, Gone, Origin, ClosedOwners, JudgedGone, Live, InNamespace
<1>1. CASE Connect(s)
  BY <1>1 DEF Connect
<1>2. CASE Drop(s)
  <2>1. sock[s] # "new" /\ Close(s) /\ TypeOK
    BY <1>2 DEF Drop, IInv, TypeOK, Origin
  <2> QED
    BY <1>2, <2>1, CloseFacts DEF Drop
<1>3. CASE SendRegister(s)
  BY <1>3 DEF SendRegister
<1>4. CASE SendReclaim(s)
  BY <1>4 DEF SendReclaim
<1> QED
  BY <1>1, <1>2, <1>3, <1>4 DEF ClientStep

\* The device:heartbeat handler.
LEMMA HeartbeatKeeps ==
    ASSUME IInv, NEW s \in Sockets, Heartbeat(s) \/ HeartbeatLands(s)
    PROVE  IInv'
<1> USE DEF IInv, TypeOK, UniqueIncumbent, NoTimerWhileLive, NoFalseOffline,
         Correcting, Gone, Origin, ClosedOwners, JudgedGone, Live, InNamespace
<1>1. CASE Heartbeat(s)
  BY <1>1 DEF Heartbeat
<1>2. CASE HeartbeatLands(s)
  BY <1>2 DEF HeartbeatLands
<1> QED
  BY <1>1, <1>2

\* A registration that is accepted, by reconnect or by reclaim.
LEMMA AcceptKeeps ==
    ASSUME IInv, NEW s \in Sockets, AcceptRegister(s) \/ AcceptReclaim(s)
    PROVE  IInv'
<1>1. TakeOver(s) /\ reg[s] # "idle"
  BY DEF AcceptRegister, AcceptReclaim
<1>2. TypeOK'
  BY <1>1, TakeOverFacts
  DEF AcceptRegister, AcceptReclaim, IInv, TypeOK
<1>3. UniqueIncumbent'
  BY <1>1, TakeOverFacts
  DEF AcceptRegister, AcceptReclaim, IInv, TypeOK, UniqueIncumbent, Live, Origin
<1>4. NoTimerWhileLive'
  BY <1>1, TakeOverFacts
  DEF AcceptRegister, AcceptReclaim, IInv, TypeOK, NoTimerWhileLive, UniqueIncumbent, Gone, Live, Origin
<1>5. NoFalseOffline'
  BY <1>1, TakeOverFacts
  DEF AcceptRegister, AcceptReclaim, IInv, TypeOK, NoFalseOffline, Correcting, Gone, UniqueIncumbent, Live, Origin
<1>6. Origin'
  BY <1>1, TakeOverFacts
  DEF AcceptRegister, AcceptReclaim, IInv, TypeOK, Origin
<1>7. ClosedOwners'
  BY <1>1, TakeOverFacts
  DEF AcceptRegister, AcceptReclaim, IInv, TypeOK, ClosedOwners
<1>8. JudgedGone'
  BY <1>1, TakeOverFacts
  DEF AcceptRegister, AcceptReclaim, IInv, TypeOK, JudgedGone, InNamespace, Origin
<1> QED
  BY <1>2, <1>3, <1>4, <1>5, <1>6, <1>7, <1>8 DEF IInv

\* The device:register handler.
LEMMA RegisterKeeps ==
    ASSUME IInv, NEW s \in Sockets, RegisterStep(s)
    PROVE  IInv'
<1> USE DEF IInv, TypeOK, UniqueIncumbent, NoTimerWhileLive, NoFalseOffline,
         Correcting, Gone, Origin, ClosedOwners, JudgedGone, Live, InNamespace
<1>1. CASE Refuse(s)
  BY <1>1 DEF Refuse
<1>2. CASE RefuseAndClose(s)
  <2>1. sock[s] # "new" /\ Close(s) /\ TypeOK
    BY <1>2 DEF RefuseAndClose, IInv, TypeOK, Origin
  <2> QED
    BY <1>2, <2>1, CloseFacts DEF RefuseAndClose
<1>3. CASE HoldDuplicate(s)
  BY <1>3 DEF HoldDuplicate
<1>4. CASE PassReclaimGate(s)
  BY <1>4 DEF PassReclaimGate
<1>5. CASE RegisterOnlineLands(s)
  BY <1>5 DEF RegisterOnlineLands
<1>6. CASE FinishRegister(s)
  BY <1>6 DEF FinishRegister
<1> QED
  BY <1>1, <1>2, <1>3, <1>4, <1>5, <1>6, AcceptKeeps DEF RegisterStep

\* The deferred offline transition.
LEMMA TransitionKeeps ==
    ASSUME IInv, NEW s \in Sockets, TransitionStep(s)
    PROVE  IInv'
<1> USE DEF IInv, TypeOK, UniqueIncumbent, NoTimerWhileLive, NoFalseOffline,
         Correcting, Gone, Origin, ClosedOwners, JudgedGone, Live, InNamespace
<1>1. CASE OfflineTimerFires(s)
  BY <1>1 DEF OfflineTimerFires, Replaced
<1>2. CASE OfflineLands(s)
  BY <1>2 DEF OfflineLands
<1>3. CASE OfflineRaceDetected(s)
  BY <1>3 DEF OfflineRaceDetected, Replaced
<1>4. CASE OfflineCompletes(s)
  BY <1>4 DEF OfflineCompletes, Replaced
<1>5. CASE OfflineRestoreLands(s)
  BY <1>5 DEF OfflineRestoreLands
<1> QED
  BY <1>1, <1>2, <1>3, <1>4, <1>5 DEF TransitionStep

\* The heartbeat tick.
LEMMA TickKeeps ==
    ASSUME IInv, NEW k \in Ticks, TickStep(k)
    PROVE  IInv'
<1> USE DEF IInv, TypeOK, UniqueIncumbent, NoTimerWhileLive, NoFalseOffline,
         Correcting, Gone, Origin, ClosedOwners, JudgedGone, Live, InNamespace
<1>1. CASE TickStart(k)
  BY <1>1 DEF TickStart
<1>2. CASE TickOfflineLands(k)
  BY <1>2 DEF TickOfflineLands
<1>3. CASE TickRaceDetected(k)
  BY <1>3 DEF TickRaceDetected
<1>4. CASE TickRestoreLands(k)
  BY <1>4 DEF TickRestoreLands
<1>5. CASE TickDropsEntry(k)
  BY <1>5 DEF TickDropsEntry, CameBack
<1>6. CASE TickRecords(k)
  BY <1>6 DEF TickRecords
<1>7. CASE TickEnds(k)
  BY <1>7 DEF TickEnds
<1>8. ASSUME NEW d \in Devices, TickSkips(k, d) PROVE IInv'
  BY <1>8 DEF TickSkips, TimedOut
<1>9. ASSUME NEW d \in Devices, TickJudges(k, d) PROVE IInv'
  BY <1>9 DEF TickJudges, TimedOut
<1> QED
  BY <1>1, <1>2, <1>3, <1>4, <1>5, <1>6, <1>7, <1>8, <1>9 DEF TickStep

\* Statements that fail, and the restart of the process.
LEMMA FaultKeeps == ASSUME IInv, FaultStep PROVE IInv'
<1> USE DEF IInv, TypeOK, UniqueIncumbent, NoTimerWhileLive, NoFalseOffline,
         Correcting, Gone, Origin, ClosedOwners, JudgedGone, Live, InNamespace
<1>1. ASSUME NEW s \in Sockets, RegisterFails(s) PROVE IInv'
  <2>1. sock[s] # "new" /\ Close(s) /\ TypeOK
    BY <1>1 DEF RegisterFails, IInv, TypeOK, Origin
  <2> QED
    BY <1>1, <2>1, CloseFacts DEF RegisterFails, DbFault
<1>2. ASSUME NEW s \in Sockets, ReclaimFails(s) PROVE IInv'
  BY <1>2 DEF ReclaimFails, DbFault
<1>3. ASSUME NEW s \in Sockets, HeartbeatFails(s) PROVE IInv'
  <2>1. sock[s] # "new" /\ Close(s) /\ TypeOK
    BY <1>3 DEF HeartbeatFails, IInv, TypeOK, Origin
  <2> QED
    BY <1>3, <2>1, CloseFacts DEF HeartbeatFails, DbFault
<1>4. ASSUME NEW s \in Sockets, OfflineFails(s) PROVE IInv'
  BY <1>4 DEF OfflineFails, DbFault
<1>5. ASSUME NEW k \in Ticks, TickFails(k) PROVE IInv'
  BY <1>5 DEF TickFails, DbFault
<1>6. CASE Restart
  BY <1>6 DEF Restart
<1> QED
  BY <1>1, <1>2, <1>3, <1>4, <1>5, <1>6 DEF FaultStep

LEMMA StepIInv == IInv /\ [Next]_vars => IInv'
<1> SUFFICES ASSUME IInv, [Next]_vars PROVE IInv'
  OBVIOUS
<1> USE DEF IInv, TypeOK, UniqueIncumbent, NoTimerWhileLive, NoFalseOffline,
         Correcting, Gone, Origin, ClosedOwners, JudgedGone, Live, InNamespace
<1>1. ASSUME NEW d \in Devices, SettleWindowEnds(d) \/ BeatAges(d) PROVE IInv'
  BY <1>1 DEF SettleWindowEnds, BeatAges
<1>2. CASE UNCHANGED vars
  BY <1>2 DEF vars
<1> QED
  BY <1>1, <1>2, ClientKeeps, HeartbeatKeeps, RegisterKeeps, TransitionKeeps,
     TickKeeps, FaultKeeps DEF Next

\* The inductive invariant holds in every reachable state.
THEOREM Invariance == Spec => []IInv
BY InitIInv, StepIInv, PTL DEF Spec

-----------------------------------------------------------------------------
(* The safety properties.                                                  *)

\* Every variable keeps its type.
THEOREM TypeCorrect == Spec => []TypeOK
<1>1. IInv => TypeOK
  BY DEF IInv
<1> QED
  BY <1>1, Invariance, PTL

\* A device never has two live sessions, and the map never loses the one it has:
\* the eviction, the deferred transition and the overlapping ticks included.
THEOREM IncumbentIsUnique == Spec => []UniqueIncumbent
<1>1. IInv => UniqueIncumbent
  BY DEF IInv
<1> QED
  BY <1>1, Invariance, PTL

\* An offline timer is armed only for a device without a live session.
THEOREM TimerOnlyWhenGone == Spec => []NoTimerWhileLive
<1>1. IInv => NoTimerWhileLive
  BY DEF IInv
<1> QED
  BY <1>1, Invariance, PTL

\* A live device that reads 'offline' has a writer that will correct it.
THEOREM FalseOfflineIsCorrected == Spec => []NoFalseOffline
<1>1. IInv => NoFalseOffline
  BY DEF IInv
<1> QED
  BY <1>1, Invariance, PTL

\* The deferred transition records 'offline' only for a device without a live
\* session: its socket is closed, nobody else is in the map, and by
\* UniqueIncumbent a live session would be.
THEOREM OfflineRecordIsTrue == Spec => OfflineLoggedOnlyWhenGone
<1>1. IInv /\ [Next]_vars =>
        \A d \in Devices : logged[d] # "offline" /\ logged'[d] = "offline" => Gone(d)
  <2> SUFFICES ASSUME IInv, [Next]_vars, NEW d \in Devices,
                      logged[d] # "offline", logged'[d] = "offline"
               PROVE  Gone(d)
    OBVIOUS
  <2>1. PICK s \in Sockets : OfflineCompletes(s) /\ Owner[s] = d
    <3>1. ASSUME NEW s \in Sockets, OfflineCompletes(s)
          PROVE  Owner[s] = d
      BY <3>1 DEF OfflineCompletes, IInv, TypeOK
    <3>2. ASSUME NEW s \in Sockets, FinishRegister(s) PROVE FALSE
      BY <3>2 DEF FinishRegister, IInv, TypeOK
    <3>3. ASSUME NEW k \in Ticks, TickRecords(k) PROVE FALSE
      BY <3>3 DEF TickRecords, IInv, TypeOK
    <3>4. ASSUME logged' = logged PROVE FALSE
      BY <3>4
    <3> QED
      BY <3>1, <3>2, <3>3, <3>4
      DEF Next, vars, ClientStep, RegisterStep, TransitionStep, TickStep, FaultStep,
          Connect, Drop, SendRegister, SendReclaim, Heartbeat, HeartbeatLands,
          Refuse, RefuseAndClose, HoldDuplicate, AcceptRegister, PassReclaimGate,
          AcceptReclaim, RegisterOnlineLands, OfflineTimerFires, OfflineLands,
          OfflineRaceDetected, OfflineRestoreLands, TickStart, TickSkips, TickJudges,
          TickOfflineLands, TickRaceDetected, TickRestoreLands, TickDropsEntry,
          TickEnds, SettleWindowEnds, BeatAges, RegisterFails, ReclaimFails,
          HeartbeatFails, OfflineFails, TickFails, Restart
  <2> QED
    BY <2>1 DEF OfflineCompletes, Replaced, IInv, UniqueIncumbent, ClosedOwners, Gone, Live
<1> QED
  BY <1>1, Invariance, PTL DEF Spec, OfflineLoggedOnlyWhenGone

-----------------------------------------------------------------------------
(* The refinement: every step of the handlers is a step of DevicePresence. *)

Convicted == {<<k, judged[k]>> : k \in {j \in Ticks : tick[j] = "announce"}}

\* What DevicePresence can see of a step that keeps the live sessions.
LEMMA SessionsKept ==
    ASSUME \A s \in Sockets, d \in Devices : Live(s, d)' <=> Live(s, d)
    PROVE  [d \in Devices |-> {s \in Sockets : Live(s, d)}]'
              = [d \in Devices |-> {s \in Sockets : Live(s, d)}]
OBVIOUS

\* ... and of one that leaves a device without one.
LEMMA SessionReleased ==
    ASSUME NEW c \in Devices,
           \A s \in Sockets : ~Live(s, c)',
           \A s \in Sockets, d \in Devices \ {c} : Live(s, d)' <=> Live(s, d)
    PROVE  [d \in Devices |-> {s \in Sockets : Live(s, d)}]'
              = [[d \in Devices |-> {s \in Sockets : Live(s, d)}] EXCEPT ![c] = {}]
OBVIOUS

LEMMA VerdictsKept ==
    ASSUME \A k \in Ticks : tick'[k] = "announce" <=> tick[k] = "announce",
           \A k \in Ticks : tick[k] = "announce" => judged'[k] = judged[k]
    PROVE  Convicted' = Convicted
BY DEF Convicted

LEMMA CloseRefines ==
    ASSUME IInv, NEW s \in Sockets, Close(s), sock[s] # "new",
           UNCHANGED <<authed, conn, tick, judged, logged>>
    PROVE  Presence!Next \/ UNCHANGED Presence!presence
<1>1. sock' = [sock EXCEPT ![s] = "closed"]
  BY CloseFacts DEF IInv
<1>2. Owner[s] \in Devices
  BY SessionAssumption
<1>0. Convicted' = Convicted
  BY VerdictsKept
<1>3. CASE Live(s, Owner[s])
  <2>1. \A x \in Sockets : ~Live(x, Owner[s])'
    BY <1>1, <1>2, <1>3 DEF IInv, TypeOK, UniqueIncumbent, Live
  <2>2. \A x \in Sockets, d \in Devices \ {Owner[s]} : Live(x, d)' <=> Live(x, d)
    BY <1>1 DEF IInv, TypeOK, Live
  <2>3. Presence!Release(Owner[s])
    BY <1>0, <1>2, <2>1, <2>2, SessionReleased DEF Presence!Release, Convicted
  <2> QED
    BY <2>3, <1>2 DEF Presence!Next
<1>4. CASE ~Live(s, Owner[s])
  <2>1. \A x \in Sockets, d \in Devices : Live(x, d)' <=> Live(x, d)
    BY <1>1, <1>4 DEF IInv, TypeOK, Live
  <2> QED
    BY <1>0, <2>1, SessionsKept DEF Presence!presence, Convicted
<1> QED
  BY <1>3, <1>4

\* A step that leaves sockets, sessions, verdicts and records alone.
LEMMA QuietRefines ==
    ASSUME UNCHANGED <<sock, authed, logged>>,
           \A k \in Ticks : tick'[k] = "announce" <=> tick[k] = "announce",
           \A k \in Ticks : tick[k] = "announce" => judged'[k] = judged[k]
    PROVE  UNCHANGED Presence!presence
<1>1. \A s \in Sockets, d \in Devices : Live(s, d)' <=> Live(s, d)
  BY DEF Live
<1> QED
  BY <1>1, SessionsKept, VerdictsKept DEF Presence!presence, Convicted

\* An accepted registration admits its socket, or, when that socket closed in
\* the meantime, only ends the session it replaces.
LEMMA AcceptRefines ==
    ASSUME IInv, IInv', NEW s \in Sockets, AcceptRegister(s) \/ AcceptReclaim(s)
    PROVE  Presence!Next \/ UNCHANGED Presence!presence
<1> DEFINE c == Owner[s]
<1>1. TakeOver(s) /\ reg[s] # "idle" /\ UNCHANGED <<tick, judged, logged>>
  BY DEF AcceptRegister, AcceptReclaim
<1>2. c \in Devices /\ conn'[c] = s /\ s \in authed'
  BY <1>1, TakeOverFacts, SessionAssumption DEF IInv, TypeOK
<1>3. \A x \in Sockets, d \in Devices \ {c} : Live(x, d)' <=> Live(x, d)
  BY <1>1, TakeOverFacts DEF Live, IInv, Origin
<1>4. Convicted' = Convicted
  BY <1>1, VerdictsKept
<1>5. CASE sock'[s] = "open"
  <2>1. \A x \in Sockets : Live(x, c)' <=> x = s
    BY <1>2, <1>5 DEF IInv, UniqueIncumbent, Live
  <2>2. [d \in Devices |-> {x \in Sockets : Live(x, d)}]'
          = [[d \in Devices |-> {x \in Sockets : Live(x, d)}] EXCEPT ![c] = {s}]
    BY <2>1, <1>3
  <2>3. Presence!Admit(c, s)
    BY <1>1, <1>2, <1>4, <2>2 DEF Presence!Admit, Convicted
  <2> QED
    BY <1>2, <2>3 DEF Presence!Next
<1>6. CASE sock'[s] # "open"
  <2>1. \A x \in Sockets : ~Live(x, c)'
    BY <1>2, <1>6 DEF IInv, UniqueIncumbent, Live
  <2>2. Presence!Release(c)
    BY <1>1, <1>2, <1>3, <1>4, <2>1, SessionReleased DEF Presence!Release, Convicted
  <2> QED
    BY <1>2, <2>2 DEF Presence!Next
<1> QED
  BY <1>5, <1>6

LEMMA ReclaimFailsRefines ==
    ASSUME IInv, IInv', NEW s \in Sockets, ReclaimFails(s)
    PROVE  Presence!Next \/ UNCHANGED Presence!presence
<1> DEFINE c == Owner[s]
<1>1. /\ c \in Devices /\ UNCHANGED <<tick, judged, logged>>
      /\ authed' = authed \ {s} /\ sock' = [sock EXCEPT ![s] = "closed"]
  BY SessionAssumption DEF ReclaimFails
<1>2. Convicted' = Convicted
  BY <1>1, VerdictsKept
<1>3. \A x \in Sockets, d \in Devices \ {c} : Live(x, d)' <=> Live(x, d)
  BY <1>1 DEF IInv, TypeOK, Live
<1>4. CASE Live(s, c)
  <2>1. \A x \in Sockets : ~Live(x, c)'
    BY <1>1, <1>4 DEF IInv, TypeOK, UniqueIncumbent, Live
  <2>2. Presence!Release(c)
    BY <1>1, <1>2, <1>3, <2>1, SessionReleased DEF Presence!Release, Convicted
  <2> QED
    BY <1>1, <2>2 DEF Presence!Next
<1>5. CASE ~Live(s, c)
  <2>1. \A x \in Sockets, d \in Devices : Live(x, d)' <=> Live(x, d)
    BY <1>1, <1>5 DEF IInv, TypeOK, Live
  <2> QED
    BY <1>1, <1>2, <2>1, SessionsKept DEF Presence!presence, Convicted
<1> QED
  BY <1>4, <1>5

\* A finished registration and a finished transition record a status; the
\* transition only without a live session.
LEMMA RecordRefines ==
    ASSUME IInv, NEW s \in Sockets, FinishRegister(s) \/ OfflineCompletes(s)
    PROVE  Presence!Next
<1> DEFINE c == Owner[s]
<1>1. c \in Devices /\ UNCHANGED <<sock, authed, tick, judged>>
  BY SessionAssumption DEF FinishRegister, OfflineCompletes, memory, sweep
<1>2. \A x \in Sockets, d \in Devices : Live(x, d)' <=> Live(x, d)
  BY <1>1 DEF Live
<1>3. Convicted' = Convicted
  BY <1>1, VerdictsKept
<1>4. CASE FinishRegister(s)
  <2>1. Presence!RecordOnline(c)
    BY <1>2, <1>3, <1>4, SessionsKept DEF Presence!RecordOnline, FinishRegister, Convicted
  <2> QED
    BY <1>1, <2>1 DEF Presence!Next
<1>5. CASE OfflineCompletes(s)
  <2>1. {x \in Sockets : Live(x, c)} = {}
    BY <1>5 DEF OfflineCompletes, Replaced, IInv, UniqueIncumbent, ClosedOwners, Live
  <2>2. Presence!RecordOffline(c)
    BY <1>1, <1>2, <1>3, <1>5, <2>1, SessionsKept
    DEF Presence!RecordOffline, OfflineCompletes, Convicted
  <2> QED
    BY <1>1, <2>2 DEF Presence!Next
<1> QED
  BY <1>4, <1>5

\* A tick convicts a device that has no live session, and records its verdict.
LEMMA VerdictRefines ==
    ASSUME IInv, NEW k \in Ticks, TickDropsEntry(k) \/ TickRecords(k) \/ TickFails(k)
    PROVE  Presence!Next \/ UNCHANGED Presence!presence
<1>1. UNCHANGED <<sock, authed>>
  BY DEF TickDropsEntry, TickRecords, TickFails, memory
<1>2. \A x \in Sockets, d \in Devices : Live(x, d)' <=> Live(x, d)
  BY <1>1 DEF Live
<1>3. CASE TickDropsEntry(k)
  <2>1. PICK c \in Devices : c = judged[k]
    BY <1>3 DEF TickDropsEntry, IInv, JudgedGone
  <2>2. {x \in Sockets : Live(x, c)} = {}
    BY <1>3, <2>1, SessionAssumption
    DEF TickDropsEntry, CameBack, IInv, UniqueIncumbent, JudgedGone, Live, InNamespace
  <2>3. Convicted' = Convicted \cup {<<k, c>>}
    BY <1>3, <2>1 DEF TickDropsEntry, Convicted, IInv, TypeOK
  <2>4. Presence!Convict(k, c)
    BY <1>2, <1>3, <2>1, <2>2, <2>3, SessionsKept
    DEF Presence!Convict, TickDropsEntry, table, Convicted
  <2> QED
    BY <2>1, <2>4 DEF Presence!Next
<1>4. CASE TickRecords(k)
  <2>1. PICK c \in Devices : c = judged[k]
    BY <1>4 DEF TickRecords, IInv, JudgedGone
  <2>2. Convicted' = Convicted \ {<<k, c>>} /\ <<k, c>> \in Convicted
    BY <1>4, <2>1 DEF TickRecords, Convicted, IInv, TypeOK
  <2>3. Presence!RecordTimeout(k, c)
    BY <1>2, <1>4, <2>1, <2>2, SessionsKept DEF Presence!RecordTimeout, TickRecords, Convicted
  <2> QED
    BY <2>1, <2>3 DEF Presence!Next
<1>5. CASE TickFails(k)
  <2>1. CASE tick[k] = "announce"
    <3>1. PICK c \in Devices : c = judged[k]
      BY <2>1 DEF IInv, JudgedGone
    <3>2. Convicted' = Convicted \ {<<k, c>>}
      BY <1>5, <2>1, <3>1 DEF TickFails, Convicted, IInv, TypeOK
    <3>3. Presence!Acquit(k, c)
      BY <1>2, <1>5, <3>2, SessionsKept DEF Presence!Acquit, TickFails, table, Convicted
    <3> QED
      BY <3>1, <3>3 DEF Presence!Next
  <2>2. CASE tick[k] # "announce"
    BY <1>1, <1>5, <2>2, QuietRefines DEF TickFails, table, IInv, TypeOK
  <2> QED
    BY <2>1, <2>2
<1> QED
  BY <1>3, <1>4, <1>5

LEMMA RestartRefines == IInv /\ Restart => Presence!Next
<1> SUFFICES ASSUME IInv, Restart PROVE Presence!Reset
  BY DEF Presence!Next
<1>1. \A x \in Sockets, d \in Devices : ~Live(x, d)'
  BY DEF Restart, Live
<1>2. Convicted' = {}
  BY DEF Restart, Convicted
<1> QED
  BY <1>1, <1>2 DEF Restart, table, Presence!Reset, Convicted

LEMMA StepRefines ==
    ASSUME IInv, IInv', [Next]_vars
    PROVE  [Presence!Next]_(Presence!presence)
<1> USE DEF IInv, TypeOK, Origin, memory, sweep, table, TickStates
<1>1. ASSUME NEW s \in Sockets, Connect(s) PROVE UNCHANGED Presence!presence
  <2>1. \A x \in Sockets, d \in Devices : Live(x, d)' <=> Live(x, d)
    BY <1>1 DEF Connect, Live
  <2>2. UNCHANGED <<tick, judged, logged>>
    BY <1>1 DEF Connect
  <2> QED
    BY <2>1, <2>2, SessionsKept, VerdictsKept DEF Presence!presence, Convicted
<1>2. ASSUME NEW s \in Sockets,
             Drop(s) \/ RefuseAndClose(s) \/ RegisterFails(s) \/ HeartbeatFails(s)
      PROVE  Presence!Next \/ UNCHANGED Presence!presence
  BY <1>2, CloseRefines DEF Drop, RefuseAndClose, RegisterFails, HeartbeatFails
<1>3. ASSUME NEW s \in Sockets, HoldDuplicate(s) PROVE UNCHANGED Presence!presence
  <2>1. \A x \in Sockets, d \in Devices : Live(x, d)' <=> Live(x, d)
    BY <1>3 DEF HoldDuplicate, ShouldHold, Live, UniqueIncumbent
  <2>2. UNCHANGED <<tick, judged, logged>>
    BY <1>3 DEF HoldDuplicate
  <2> QED
    BY <2>1, <2>2, SessionsKept, VerdictsKept DEF Presence!presence, Convicted
<1>4. ASSUME NEW s \in Sockets,
             \/ SendRegister(s) \/ SendReclaim(s) \/ Heartbeat(s) \/ HeartbeatLands(s)
             \/ Refuse(s) \/ PassReclaimGate(s) \/ RegisterOnlineLands(s)
             \/ OfflineTimerFires(s) \/ OfflineLands(s) \/ OfflineRaceDetected(s)
             \/ OfflineRestoreLands(s) \/ OfflineFails(s)
      PROVE  UNCHANGED Presence!presence
  BY <1>4, QuietRefines
  DEF SendRegister, SendReclaim, Heartbeat, HeartbeatLands, Refuse, PassReclaimGate,
      RegisterOnlineLands, OfflineTimerFires, OfflineLands, OfflineRaceDetected,
      OfflineRestoreLands, OfflineFails
<1>5. ASSUME NEW k \in Ticks,
             \/ TickStart(k) \/ TickOfflineLands(k) \/ TickRaceDetected(k)
             \/ TickRestoreLands(k) \/ TickEnds(k)
      PROVE  UNCHANGED Presence!presence
  BY <1>5, QuietRefines
  DEF TickStart, TickOfflineLands, TickRaceDetected, TickRestoreLands, TickEnds
<1>6. ASSUME NEW k \in Ticks, NEW d \in Devices, TickSkips(k, d) \/ TickJudges(k, d)
      PROVE  UNCHANGED Presence!presence
  BY <1>6, QuietRefines DEF TickSkips, TickJudges
<1>7. ASSUME NEW d \in Devices, SettleWindowEnds(d) \/ BeatAges(d)
      PROVE  UNCHANGED Presence!presence
  BY <1>7, QuietRefines DEF SettleWindowEnds, BeatAges
<1>8. CASE UNCHANGED vars
  BY <1>8, QuietRefines DEF vars
<1>9. CASE Next
  <2> HIDE DEF IInv
  <2> QED
    BY <1>1, <1>2, <1>3, <1>4, <1>5, <1>6, <1>7, <1>9, AcceptRefines, ReclaimFailsRefines,
       RecordRefines, VerdictRefines, RestartRefines
    DEF Next, ClientStep, RegisterStep, TransitionStep, TickStep, FaultStep
<1> QED
  BY <1>8, <1>9

LEMMA InitRefines == Init => Presence!Init
BY DEF Init, Presence!Init, Live

\* The handlers implement DevicePresence: one live session per device through
\* every takeover, race, fault and restart, and truthful records.
THEOREM Implementation == Spec => ImplementsPresence
<1>1. Spec => Presence!Spec
  BY InitRefines, StepRefines, Invariance, PTL DEF Spec, Presence!Spec
<1> QED
  BY <1>1 DEF ImplementsPresence

=============================================================================
