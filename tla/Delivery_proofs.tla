-------------------------- MODULE Delivery_proofs --------------------------
(***************************************************************************)
(* Proofs about what reaches a device that was away                        *)
(* (server/lib/command-queue.js): the commands of CommandQueue, and the    *)
(* playlists of PlaylistQuiet, for any number of command types, of         *)
(* register handlers and of pushes that overlap.                           *)
(*                                                                         *)
(* NothingStranded is not inductive: the handler that has to flush could   *)
(* fail and leave the queue as it is.  Flushing says that it runs for the  *)
(* connected socket, so that its failure takes the device out of its room. *)
(*                                                                         *)
(* QuietMeansCurrent says nothing of the steps before the rest.  Covered   *)
(* names the place where a playlist that the player does not play is:      *)
(* on the wire, with a push, or with a handler of the connection.  Growing *)
(* is why the payload that brings it is not followed by an older one, and  *)
(* Joining why a device that enters its room has such a handler.           *)
(***************************************************************************)
EXTENDS CommandQueue, SequenceTheorems, FiniteSetTheorems, WellFoundedInduction, TLAPS

\* The part of TypeOK the argument needs: what is on the wire plays no role.
QueueTypeOK ==
    /\ link \in {"down", "up", "joined"}
    /\ handler \in [Handlers -> {"idle", "auth", "joined", "building"}]
    /\ own \subseteq Handlers
    /\ queue \in [Types -> 0 .. MaxSends]
    /\ sent \in [Types -> 0 .. MaxSends]

\* What is queued waits for a device in its room only while a handler of the
\* socket that is connected has still to flush it.
Flushing ==
    link = "joined" =>
        /\ marker => \E h \in own : handler[h] = "joined"
        /\ (\E t \in Types : queue[t] # 0) => \E h \in own : handler[h] \in {"joined", "building"}

IInv == QueueTypeOK /\ Flushing

LEMMA InitIInv == Init => IInv
BY QueueAssumption DEF Init, IInv, QueueTypeOK, Flushing

\* The player connects, loses its connection, registers or executes a command.
LEMMA PlayerKeeps ==
    ASSUME IInv, Connect \/ Drop \/ Execute \/ \E h \in Handlers : SendRegister(h)
    PROVE  IInv'
<1> USE DEF IInv, QueueTypeOK, Flushing
<1>1. CASE Connect
  BY <1>1 DEF Connect
<1>2. CASE Drop
  BY <1>2 DEF Drop, Cut
<1>3. CASE Execute
  BY <1>3 DEF Execute
<1>4. ASSUME NEW h \in Handlers, SendRegister(h)
      PROVE  IInv'
  BY <1>4 DEF SendRegister
<1> QED
  BY <1>1, <1>2, <1>3, <1>4

\* The dashboard sends, and entries expire.
LEMMA DashboardKeeps ==
    ASSUME IInv,
           \/ PushPlaylist \/ ExpireMarker
           \/ \E t \in Types : SendCommand(t) \/ Expire(t)
    PROVE  IInv'
<1> USE DEF IInv, QueueTypeOK, Flushing
<1>1. CASE PushPlaylist
  BY <1>1 DEF PushPlaylist
<1>2. CASE ExpireMarker
  BY <1>2 DEF ExpireMarker
<1>3. ASSUME NEW t \in Types, SendCommand(t)
      PROVE  IInv'
  <2>1. sent[t] + 1 \in 0 .. MaxSends
    BY <1>3, QueueAssumption DEF SendCommand
  <2> QED
    BY <1>3, <2>1 DEF SendCommand
<1>4. ASSUME NEW t \in Types, Expire(t)
      PROVE  IInv'
  <2>1. queue' \in [Types -> 0 .. MaxSends] /\ \A u \in Types : queue'[u] # 0 => queue[u] # 0
    BY <1>4, QueueAssumption DEF Expire
  <2> QED
    BY <1>4, <2>1 DEF Expire
<1> QED
  BY <1>1, <1>2, <1>3, <1>4

\* A drain leaves no command queued.
LEMMA DrainEmpties ==
    ASSUME NEW room, Drain(room)
    PROVE  queue' = [t \in Types |-> 0]
BY DEF Drain

\* A flush takes the marker and goes on to build, or empties the queue.
LEMMA FlushFacts ==
    ASSUME IInv, NEW h \in Handlers, NEW room, FlushQueue(h, room)
    PROVE  /\ marker' = FALSE /\ queue' \in [Types -> 0 .. MaxSends]
           /\ \/ /\ queue' = queue /\ own' = own /\ handler' = [handler EXCEPT ![h] = "building"] /\ marker
              \/ /\ queue' = [t \in Types |-> 0] /\ own' = own \ {h} /\ handler' = [handler EXCEPT ![h] = "idle"]
<1>1. CASE marker
  BY <1>1 DEF FlushQueue, IInv, QueueTypeOK
<1>2. CASE ~marker
  BY <1>2, DrainEmpties, QueueAssumption DEF FlushQueue
<1> QED
  BY <1>1, <1>2

\* A register handler is refused, joins, flushes, or fails.
LEMMA HandlerKeeps ==
    ASSUME IInv, NEW h \in Handlers,
           Refuse(h) \/ Register(h) \/ Reclaim(h) \/ FlushReclaimed(h) \/ Flush(h) \/ BuildFails(h)
    PROVE  IInv'
<1> USE DEF IInv, QueueTypeOK, Flushing
<1>1. CASE Refuse(h)
  BY <1>1 DEF Refuse
<1>2. CASE Register(h)
  <2>1. /\ link' = (IF h \in own THEN "joined" ELSE link) /\ sent' = sent
        /\ FlushQueue(h, link')
    BY <1>2 DEF Register, Join
  <2> QED
    BY <2>1, FlushFacts
<1>3. CASE Reclaim(h)
  BY <1>3 DEF Reclaim, Join
<1>4. CASE FlushReclaimed(h)
  <2>1. link' = link /\ sent' = sent /\ FlushQueue(h, link)
    BY <1>4 DEF FlushReclaimed
  <2> QED
    BY <2>1, FlushFacts
<1>5. CASE Flush(h)
  <2>1. queue' = [t \in Types |-> 0]
    BY <1>5, DrainEmpties DEF Flush
  <2> QED
    BY <1>5, <2>1, QueueAssumption DEF Flush
<1>6. CASE BuildFails(h)
  BY <1>6 DEF BuildFails, Cut
<1> QED
  BY <1>1, <1>2, <1>3, <1>4, <1>5, <1>6

LEMMA StepIInv == IInv /\ [Next]_vars => IInv'
<1> SUFFICES ASSUME IInv, [Next]_vars PROVE IInv'
  OBVIOUS
<1>1. CASE UNCHANGED vars
  BY <1>1 DEF vars, IInv, QueueTypeOK, Flushing
<1> QED
  BY <1>1, PlayerKeeps, DashboardKeeps, HandlerKeeps DEF Next

\* A command or a playlist update never waits for a device that has joined its
\* room, unless a handler is between its join and the end of its flush: for any
\* number of command types and of register handlers, reconnecting or reclaiming by
\* fingerprint, that overlap, fail or outlive their socket.
THEOREM NothingIsStranded == Spec => []NothingStranded
<1>1. IInv => NothingStranded
  BY DEF IInv, QueueTypeOK, Flushing, NothingStranded
<1> QED
  BY InitIInv, StepIInv, <1>1, PTL DEF Spec

-----------------------------------------------------------------------------
(* The order of the commands.                                              *)

Typed ==
    /\ QueueTypeOK
    /\ marker \in BOOLEAN
    /\ channel \in Seq(Command)
    /\ executed \in [Types -> 0 .. MaxSends]
    /\ passed \subseteq Types
    /\ pushes \in 0 .. MaxPushes /\ faults \in 0 .. MaxFaults

Places == 1 .. Len(channel)

\* What is executed, on the wire and in the queue, in this order, was sent in this order.
Increasing ==
    \A t \in Types \ passed :
        /\ executed[t] <= sent[t]
        /\ queue[t] # 0 => executed[t] < queue[t] /\ queue[t] <= sent[t]
        /\ \A i \in Places : channel[i].type = t =>
             /\ executed[t] < channel[i].no /\ channel[i].no <= sent[t]
             /\ queue[t] # 0 => channel[i].no < queue[t]
        /\ \A i, j \in Places : channel[i].type = t /\ channel[j].type = t /\ i < j =>
             channel[i].no < channel[j].no

OInv == Typed /\ Increasing

\* Nothing new is queued or put on the wire, and what leaves the wire leaves it all.
LEMMA NothingNewKeeps ==
    ASSUME OInv, Typed', UNCHANGED <<sent, executed, passed>>,
           channel' = channel \/ channel' = <<>>,
           \A t \in Types : queue'[t] \in {0, queue[t]}
    PROVE  OInv'
<1>1. CASE channel' = channel
  BY <1>1 DEF OInv, Increasing, Places
<1>2. CASE channel' = <<>>
  BY <1>2 DEF OInv, Increasing, Places
<1> QED
  BY <1>1, <1>2

\* What a drain emits: the queued commands, each type once.
LEMMA DrainFacts ==
    ASSUME OInv, NEW room, Drain(room)
    PROVE  \E new \in Seq(Command) :
             /\ channel' = channel \o new
             /\ \A i \in 1 .. Len(new) : new[i].no = queue[new[i].type] /\ new[i].no # 0
             /\ \A i, j \in 1 .. Len(new) : i # j => new[i].type # new[j].type
<1> DEFINE S == {t \in Types : queue[t] # 0}
<1>1. CASE room = "joined"
  <2>1. PICK order \in SetToSeqs(S) :
          channel' = channel \o [i \in DOMAIN order |-> [type |-> order[i], no |-> queue[order[i]]]]
    BY <1>1 DEF Drain
  <2>2. Cardinality(S) \in Nat
    BY QueueAssumption, FS_Subset, FS_CardinalityType
  <2>3. /\ order \in [1 .. Cardinality(S) -> S]
        /\ \A i, j \in 1 .. Cardinality(S) : i # j => order[i] # order[j]
    BY DEF SetToSeqs
  <2> DEFINE new == [i \in DOMAIN order |-> [type |-> order[i], no |-> queue[order[i]]]]
             n == Cardinality(S)
  <2>4. new \in [1 .. n -> Command]
    BY <2>3, QueueAssumption DEF OInv, Typed, QueueTypeOK, Command
  <2>5. \A i \in 1 .. n : new[i].type = order[i] /\ new[i].no = queue[order[i]] /\ order[i] \in S
    BY <2>3
  <2> HIDE DEF n, new
  <2>6. n \in Nat
    BY <2>2 DEF n
  <2>7. new \in Seq(Command) /\ Len(new) = n
    BY <2>4, <2>6, IsASeq
  <2>8. channel' = channel \o new
    BY <2>1 DEF new
  <2>9. \A i, j \in 1 .. n : i # j => order[i] # order[j]
    BY <2>3 DEF n
  <2> HIDE DEF S
  <2>10. \A i \in 1 .. Len(new) : new[i].no = queue[new[i].type] /\ new[i].no # 0
    BY <2>5, <2>7 DEF S
  <2>11. \A i, j \in 1 .. Len(new) : i # j => new[i].type # new[j].type
    BY <2>5, <2>7, <2>9
  <2> QED
    BY <2>7, <2>8, <2>10, <2>11
<1>2. CASE room # "joined"
  <2>1. channel' = channel /\ channel \in Seq(Command)
    BY <1>2 DEF Drain, OInv, Typed
  <2> DEFINE new == <<>>
  <2>2. new \in Seq(Command) /\ Len(new) = 0 /\ channel' = channel \o new
    BY <2>1, EmptySeq, ConcatEmptySeq
  <2> HIDE DEF new
  <2>3. 1 .. Len(new) = {}
    BY <2>2
  <2> QED
    BY <2>2, <2>3
<1> QED
  BY <1>1, <1>2

LEMMA DrainKeeps ==
    ASSUME OInv, NEW room, Drain(room),
           link' \in {"down", "up", "joined"}, handler' \in [Handlers -> {"idle", "auth", "joined", "building"}],
           own' \subseteq Handlers, marker' \in BOOLEAN,
           UNCHANGED <<sent, executed, passed, pushes, faults>>
    PROVE  OInv'
<1>1. PICK new \in Seq(Command) :
        /\ channel' = channel \o new
        /\ \A i \in 1 .. Len(new) : new[i].no = queue[new[i].type] /\ new[i].no # 0
        /\ \A i, j \in 1 .. Len(new) : i # j => new[i].type # new[j].type
  BY DrainFacts
<1>2. queue' = [t \in Types |-> 0]
  BY DrainEmpties
<1>3. /\ channel' \in Seq(Command) /\ Len(channel') = Len(channel) + Len(new)
      /\ \A i \in 1 .. Len(channel) + Len(new) :
           channel'[i] = IF i <= Len(channel) THEN channel[i] ELSE new[i - Len(channel)]
  BY <1>1, ConcatProperties DEF OInv, Typed
<1>4. Typed'
  BY <1>2, <1>3, QueueAssumption DEF OInv, Typed, QueueTypeOK
<1>5. Len(channel) \in Nat /\ Len(new) \in Nat
  BY LenProperties DEF OInv, Typed
<1>6. \A i \in Places' : \/ i \in Places /\ channel'[i] = channel[i]
                         \/ i - Len(channel) \in 1 .. Len(new) /\ channel'[i] = new[i - Len(channel)]
  BY <1>3, <1>5 DEF Places
<1>7. \A i \in Places : i <= Len(channel)
  BY <1>5 DEF Places
<1>8. \A i \in 1 .. Len(new) : new[i].type \in Types
  <2>1. \A i \in 1 .. Len(new) : new[i] \in Command
    BY ElementOfSeq
  <2> QED
    BY <2>1 DEF Command
<1>9. \A t \in Types \ passed : executed[t] \in Nat /\ sent[t] \in Nat /\ queue[t] \in Nat
  BY QueueAssumption DEF OInv, Typed, QueueTypeOK
<1>10. Increasing'
  <2> SUFFICES ASSUME NEW t \in Types \ passed
               PROVE  /\ \A i \in Places' : channel'[i].type = t =>
                           executed[t] < channel'[i].no /\ channel'[i].no <= sent[t]
                      /\ \A i, j \in Places' : channel'[i].type = t /\ channel'[j].type = t /\ i < j =>
                           channel'[i].no < channel'[j].no
    BY <1>2 DEF OInv, Increasing
  <2>1. ASSUME NEW i \in Places', channel'[i].type = t
        PROVE  executed[t] < channel'[i].no /\ channel'[i].no <= sent[t]
    <3>1. CASE i \in Places /\ channel'[i] = channel[i]
      BY <2>1, <3>1 DEF OInv, Increasing
    <3>2. CASE i - Len(channel) \in 1 .. Len(new) /\ channel'[i] = new[i - Len(channel)]
      BY <1>1, <2>1, <3>2 DEF OInv, Increasing
    <3> QED
      BY <1>6, <3>1, <3>2
  <2>2. ASSUME NEW i \in Places', NEW j \in Places', channel'[i].type = t, channel'[j].type = t, i < j
        PROVE  channel'[i].no < channel'[j].no
    <3>1. CASE i \in Places /\ channel'[i] = channel[i] /\ j \in Places /\ channel'[j] = channel[j]
      BY <2>2, <3>1 DEF OInv, Increasing
    <3>2. CASE i \in Places /\ channel'[i] = channel[i]
               /\ j - Len(channel) \in 1 .. Len(new) /\ channel'[j] = new[j - Len(channel)]
      <4>1. queue[t] # 0 /\ channel'[j].no = queue[t]
        BY <1>1, <2>2, <3>2
      <4>2. channel'[i].no < queue[t]
        BY <2>2, <3>2, <4>1 DEF OInv, Increasing
      <4> QED
        BY <4>1, <4>2
    <3>3. CASE i - Len(channel) \in 1 .. Len(new) /\ channel'[i] = new[i - Len(channel)] /\ j \in Places
      BY <1>5, <1>7, <2>2, <3>3 DEF Places
    <3>4. CASE i - Len(channel) \in 1 .. Len(new) /\ channel'[i] = new[i - Len(channel)]
               /\ j - Len(channel) \in 1 .. Len(new) /\ channel'[j] = new[j - Len(channel)]
      <4>1. i \in Nat /\ j \in Nat /\ i - Len(channel) # j - Len(channel)
        BY <1>3, <1>5, <2>2 DEF Places
      <4> QED
        BY <1>1, <2>2, <3>4, <4>1
    <3> QED
      BY <1>6, <3>1, <3>2, <3>3, <3>4
  <2> QED
    BY <2>1, <2>2
<1> QED
  BY <1>4, <1>10 DEF OInv

LEMMA ExecuteKeeps ==
    ASSUME OInv, Execute
    PROVE  OInv'
<1>1. channel \in Seq(Command) /\ channel # <<>> /\ channel' = Tail(channel)
      /\ executed' = [executed EXCEPT ![Head(channel).type] = Head(channel).no]
      /\ UNCHANGED <<link, handler, own, marker, queue, sent, passed, pushes, faults>>
  BY DEF OInv, Typed, Execute
<1>2. /\ Head(channel) \in Command /\ channel' \in Seq(Command)
      /\ Len(channel) \in Nat /\ Len(channel) > 0 /\ Len(channel') = Len(channel) - 1
      /\ \A i \in 1 .. Len(channel') : channel'[i] = channel[i + 1]
      /\ Head(channel) = channel[1]
  BY <1>1, HeadTailProperties, LenProperties
<1>3. executed' \in [Types -> 0 .. MaxSends]
  BY <1>1, <1>2, QueueAssumption DEF OInv, Typed, Command
<1>4. Typed'
  BY <1>1, <1>2, <1>3 DEF OInv, Typed, QueueTypeOK
<1>5. 1 \in Places /\ \A i \in Places' : i + 1 \in Places /\ channel'[i] = channel[i + 1]
  BY <1>2 DEF Places
<1>6. \A t \in Types : executed'[t] = IF channel[1].type = t THEN channel[1].no ELSE executed[t]
  BY <1>1, <1>2 DEF OInv, Typed
<1>7. Increasing'
  <2> SUFFICES ASSUME NEW t \in Types \ passed
               PROVE  /\ executed'[t] <= sent[t]
                      /\ queue[t] # 0 => executed'[t] < queue[t] /\ queue[t] <= sent[t]
                      /\ \A i \in Places' : channel'[i].type = t =>
                           /\ executed'[t] < channel'[i].no /\ channel'[i].no <= sent[t]
                           /\ queue[t] # 0 => channel'[i].no < queue[t]
                      /\ \A i, j \in Places' : channel'[i].type = t /\ channel'[j].type = t /\ i < j =>
                           channel'[i].no < channel'[j].no
    BY <1>1 DEF Increasing
  <2>1. executed'[t] <= sent[t] /\ (queue[t] # 0 => executed'[t] < queue[t] /\ queue[t] <= sent[t])
    BY <1>5, <1>6 DEF OInv, Increasing
  <2>2. \A i \in Places' : channel'[i].type = t =>
          /\ executed'[t] < channel'[i].no /\ channel'[i].no <= sent[t]
          /\ queue[t] # 0 => channel'[i].no < queue[t]
    <3> SUFFICES ASSUME NEW i \in Places', channel'[i].type = t
                 PROVE  /\ executed'[t] < channel'[i].no /\ channel'[i].no <= sent[t]
                        /\ queue[t] # 0 => channel'[i].no < queue[t]
      OBVIOUS
    <3>1. i + 1 \in Places /\ channel[i + 1].type = t /\ channel'[i] = channel[i + 1] /\ 1 < i + 1
      BY <1>5 DEF Places
    <3> QED
      BY <1>5, <1>6, <3>1 DEF OInv, Increasing
  <2>3. \A i, j \in Places' : channel'[i].type = t /\ channel'[j].type = t /\ i < j =>
          channel'[i].no < channel'[j].no
    <3> SUFFICES ASSUME NEW i \in Places', NEW j \in Places', channel'[i].type = t,
                        channel'[j].type = t, i < j
                 PROVE  channel'[i].no < channel'[j].no
      OBVIOUS
    <3>1. i + 1 < j + 1
      BY DEF Places
    <3> QED
      BY <1>5, <3>1 DEF OInv, Increasing
  <2> QED
    BY <2>1, <2>2, <2>3
<1> QED
  BY <1>4, <1>7 DEF OInv

LEMMA SendKeeps ==
    ASSUME OInv, NEW u \in Types, SendCommand(u)
    PROVE  OInv'
<1> DEFINE no == sent[u] + 1
           x == [type |-> u, no |-> no]
<1>1. /\ sent' = [sent EXCEPT ![u] = @ + 1] /\ sent[u] < MaxSends
      /\ UNCHANGED <<link, handler, own, marker, executed, pushes, faults>>
  BY DEF SendCommand
<1>2. no \in 1 .. MaxSends /\ sent[u] \in Nat /\ x \in Command
  BY <1>1, QueueAssumption DEF OInv, Typed, QueueTypeOK, Command
<1>3. sent' \in [Types -> 0 .. MaxSends] /\ \A t \in Types : sent'[t] = IF t = u THEN no ELSE sent[t]
  BY <1>1, <1>2 DEF OInv, Typed, QueueTypeOK
<1>4. \A t \in Types : executed[t] \in Nat /\ sent[t] \in Nat /\ queue[t] \in Nat
  BY QueueAssumption DEF OInv, Typed, QueueTypeOK
<1>5. channel \in Seq(Command) /\ Len(channel) \in Nat
  BY LenProperties DEF OInv, Typed
<1>6. \A i \in Places : channel[i].no \in Nat
  <2>1. \A i \in Places : channel[i] \in Command
    BY <1>5, ElementOfSeq DEF Places
  <2> QED
    BY <2>1, QueueAssumption DEF Command
<1>7. CASE link = "joined"
  <2>1. channel' = Append(channel, x) /\ queue' = queue
        /\ passed' = IF queue[u] # 0 THEN passed \cup {u} ELSE passed
    BY <1>3, <1>7 DEF SendCommand
  <2> HIDE DEF x
  <2>2. /\ channel' \in Seq(Command) /\ Len(channel') = Len(channel) + 1
        /\ \A i \in 1 .. Len(channel) : channel'[i] = channel[i]
        /\ channel'[Len(channel) + 1] = x
    BY <1>2, <1>5, <2>1, AppendProperties
  <2>3. Typed'
    BY <1>1, <1>3, <2>1, <2>2 DEF OInv, Typed, QueueTypeOK
  <2>4. \A i \in Places' : (i \in Places /\ channel'[i] = channel[i])
                           \/ (i = Len(channel) + 1 /\ channel'[i] = x)
    BY <1>5, <2>2 DEF Places
  <2>5. \A i \in Places : i < Len(channel) + 1
    BY <1>5 DEF Places
  <2>6. x.type = u /\ x.no = no
    BY DEF x
  <2>7. Increasing'
    <3> SUFFICES ASSUME NEW t \in Types \ passed, t = u => queue[u] = 0
                 PROVE  /\ executed[t] <= sent'[t]
                        /\ queue[t] # 0 => executed[t] < queue[t] /\ queue[t] <= sent'[t]
                        /\ \A i \in Places' : channel'[i].type = t =>
                             /\ executed[t] < channel'[i].no /\ channel'[i].no <= sent'[t]
                             /\ queue[t] # 0 => channel'[i].no < queue[t]
                        /\ \A i, j \in Places' : channel'[i].type = t /\ channel'[j].type = t /\ i < j =>
                             channel'[i].no < channel'[j].no
      BY <1>1, <2>1 DEF Increasing
    <3>1. executed[t] <= sent'[t] /\ sent[t] <= sent'[t] /\ sent'[t] \in Nat
      BY <1>2, <1>3, <1>4 DEF OInv, Increasing
    <3>2. queue[t] # 0 => executed[t] < queue[t] /\ queue[t] <= sent'[t]
      BY <1>4, <3>1 DEF OInv, Increasing
    <3>3. ASSUME NEW i \in Places', channel'[i].type = t
          PROVE  /\ executed[t] < channel'[i].no /\ channel'[i].no <= sent'[t]
                 /\ queue[t] # 0 => channel'[i].no < queue[t]
      <4>1. CASE i \in Places /\ channel'[i] = channel[i]
        BY <1>4, <1>6, <3>1, <3>3, <4>1 DEF OInv, Increasing
      <4>2. CASE channel'[i] = x
        BY <1>2, <1>3, <1>4, <2>6, <3>1, <3>3, <4>2 DEF OInv, Increasing
      <4> QED
        BY <2>4, <4>1, <4>2
    <3>4. ASSUME NEW i \in Places', NEW j \in Places', channel'[i].type = t, channel'[j].type = t, i < j
          PROVE  channel'[i].no < channel'[j].no
      <4>1. CASE i \in Places /\ channel'[i] = channel[i] /\ j \in Places /\ channel'[j] = channel[j]
        BY <3>4, <4>1 DEF OInv, Increasing
      <4>2. CASE i \in Places /\ channel'[i] = channel[i] /\ channel'[j] = x
        BY <1>2, <1>6, <2>6, <3>4, <4>2 DEF OInv, Increasing
      <4>3. i # Len(channel) + 1
        BY <1>5, <2>2, <3>4 DEF Places
      <4> QED
        BY <2>4, <4>1, <4>2, <4>3
    <3> QED
      BY <3>1, <3>2, <3>3, <3>4
  <2> QED
    BY <2>3, <2>7 DEF OInv
<1>8. CASE link # "joined"
  <2>1. queue' = [queue EXCEPT ![u] = no] /\ UNCHANGED <<channel, passed>>
    BY <1>3, <1>8 DEF SendCommand
  <2>2. \A t \in Types : queue'[t] = IF t = u THEN no ELSE queue[t]
    BY <2>1 DEF OInv, Typed, QueueTypeOK
  <2>3. Typed'
    BY <1>1, <1>2, <1>3, <2>1 DEF OInv, Typed, QueueTypeOK
  <2>4. Increasing'
    BY <1>1, <1>2, <1>3, <1>4, <1>6, <2>1, <2>2 DEF OInv, Increasing, Places
  <2> QED
    BY <2>3, <2>4 DEF OInv
<1> QED
  BY <1>7, <1>8

LEMMA InitOInv == Init => OInv
<1> SUFFICES ASSUME Init PROVE OInv
  OBVIOUS
<1>1. channel \in Seq(Command) /\ Places = {}
  BY EmptySeq DEF Init, Places
<1>2. Typed
  <2>1. QueueTypeOK
    BY InitIInv DEF IInv
  <2>2. marker \in BOOLEAN
    BY DEF Init
  <2>3. executed = [t \in Types |-> 0] /\ passed = {} /\ pushes = 0 /\ faults = 0
    BY DEF Init
  <2>4. /\ executed \in [Types -> 0 .. MaxSends] /\ passed \subseteq Types
        /\ pushes \in 0 .. MaxPushes /\ faults \in 0 .. MaxFaults
    BY <2>3, QueueAssumption
  <2> QED
    BY <1>1, <2>1, <2>2, <2>4 DEF Typed
<1> QED
  BY <1>1, <1>2 DEF Init, OInv, Increasing

\* The player, the dashboard's pushes and what expires.
LEMMA OthersKeepOrder ==
    ASSUME OInv, \/ Connect \/ Drop \/ PushPlaylist \/ ExpireMarker
                 \/ \E h \in Handlers : SendRegister(h)
                 \/ \E t \in Types : Expire(t)
    PROVE  OInv'
<1> USE DEF OInv, Typed, QueueTypeOK
<1>1. CASE Connect
  BY <1>1, NothingNewKeeps DEF Connect
<1>2. CASE Drop
  BY <1>2, EmptySeq, NothingNewKeeps DEF Drop, Cut
<1>3. CASE PushPlaylist
  <2>1. pushes' \in 0 .. MaxPushes
    BY <1>3, QueueAssumption DEF PushPlaylist
  <2> QED
    BY <1>3, <2>1, NothingNewKeeps DEF PushPlaylist
<1>4. CASE ExpireMarker
  BY <1>4, NothingNewKeeps DEF ExpireMarker
<1>5. ASSUME NEW h \in Handlers, SendRegister(h)
      PROVE  OInv'
  BY <1>5, NothingNewKeeps DEF SendRegister
<1>6. ASSUME NEW t \in Types, Expire(t)
      PROVE  OInv'
  <2>1. queue' \in [Types -> 0 .. MaxSends] /\ \A u \in Types : queue'[u] \in {0, queue[u]}
    BY <1>6, QueueAssumption DEF Expire
  <2> QED
    BY <1>6, <2>1, NothingNewKeeps DEF Expire
<1> QED
  BY <1>1, <1>2, <1>3, <1>4, <1>5, <1>6

\* A flush takes the marker, or drains the queue.
LEMMA FlushKeepsOrder ==
    ASSUME OInv, NEW h \in Handlers, NEW room, FlushQueue(h, room),
           link' \in {"down", "up", "joined"}, UNCHANGED <<sent, executed, passed, pushes, faults>>
    PROVE  OInv'
<1> USE DEF OInv, Typed, QueueTypeOK
<1>1. CASE marker
  BY <1>1, NothingNewKeeps DEF FlushQueue
<1>2. CASE ~marker
  BY <1>2, DrainKeeps DEF FlushQueue
<1> QED
  BY <1>1, <1>2

LEMMA HandlerKeepsOrder ==
    ASSUME OInv, NEW h \in Handlers,
           Refuse(h) \/ Register(h) \/ Reclaim(h) \/ FlushReclaimed(h) \/ Flush(h) \/ BuildFails(h)
    PROVE  OInv'
<1> USE DEF OInv, Typed, QueueTypeOK
<1>1. CASE Refuse(h)
  BY <1>1, NothingNewKeeps DEF Refuse
<1>2. CASE Register(h)
  <2>1. link' \in {"down", "up", "joined"} /\ FlushQueue(h, link')
        /\ UNCHANGED <<sent, executed, passed, pushes, faults>>
    BY <1>2 DEF Register, Join
  <2> QED
    BY <2>1, FlushKeepsOrder
<1>3. CASE Reclaim(h)
  BY <1>3, NothingNewKeeps DEF Reclaim, Join
<1>4. CASE FlushReclaimed(h)
  BY <1>4, FlushKeepsOrder DEF FlushReclaimed
<1>5. CASE Flush(h)
  BY <1>5, DrainKeeps DEF Flush
<1>6. CASE BuildFails(h)
  <2>1. faults' \in 0 .. MaxFaults
    BY <1>6, QueueAssumption DEF BuildFails
  <2> QED
    BY <1>6, <2>1, EmptySeq, NothingNewKeeps DEF BuildFails, Cut
<1> QED
  BY <1>1, <1>2, <1>3, <1>4, <1>5, <1>6

LEMMA OrderIsKept == Spec => []OInv
<1>1. ASSUME OInv, [Next]_vars PROVE OInv'
  <2>1. CASE UNCHANGED vars
    BY <1>1, <2>1, NothingNewKeeps DEF vars, OInv, Typed, QueueTypeOK
  <2> QED
    BY <1>1, <2>1, OthersKeepOrder, ExecuteKeeps, SendKeeps, HandlerKeepsOrder DEF Next
<1> QED
  BY InitOInv, <1>1, PTL DEF Spec

\* Every variable keeps its type; no command has a number that was not sent
\* (server/lib/command-queue.js).
THEOREM TypeCorrect == Spec => []TypeOK
<1>1. OInv => TypeOK
  BY DEF OInv, Typed, QueueTypeOK, TypeOK
<1> QED
  BY OrderIsKept, <1>1, PTL

\* The commands of a type are on the wire in the order of sending and younger than what
\* was executed, for any number of handlers that drain the queue, unless a live
\* command passed a queued one during a flush (server/lib/command-queue.js,
\* server/ws/dashboardSocket.js).
THEOREM CommandsInOrder == Spec => []InOrder
<1>1. OInv => InOrder
  <2> SUFFICES ASSUME OInv, NEW i \in Places, channel[i].type \notin passed
               PROVE  /\ channel[i].no > executed[channel[i].type]
                      /\ \A j \in 1 .. i - 1 : channel[j].type = channel[i].type => channel[j].no < channel[i].no
    BY LenProperties DEF InOrder, Places, OInv, Typed
  <2>1. Len(channel) \in Nat /\ channel[i] \in Command
    BY LenProperties, ElementOfSeq DEF OInv, Typed, Places
  <2>2. channel[i].type \in Types \ passed
    BY <2>1 DEF Command
  <2>3. \A j \in 1 .. i - 1 : j \in Places /\ j < i
    BY <2>1 DEF Places
  <2>4. executed[channel[i].type] < channel[i].no
    BY <2>2 DEF OInv, Increasing
  <2>5. \A j \in 1 .. i - 1 : channel[j].type = channel[i].type => channel[j].no < channel[i].no
    BY <2>2, <2>3 DEF OInv, Increasing
  <2>6. executed[channel[i].type] \in Nat /\ channel[i].no \in Nat
    BY <2>1, QueueAssumption DEF OInv, Typed, Command
  <2> QED
    BY <2>4, <2>5, <2>6
<1> QED
  BY OrderIsKept, <1>1, PTL

-----------------------------------------------------------------------------
(* The playlists.  PlaylistQuiet has the register handlers of CommandQueue *)
(* and a state of its own.                                                 *)

CONSTANTS Pushers, NoGen, MaxVersion, MaxWire, MaxTimeouts

VARIABLES version, pMarker, pLink, wire, pHandler, gen, pOwn, push, got, applied, refreshed,
          inFlight, timeouts, pFaults, overtaken

P == INSTANCE PlaylistQuiet
       WITH marker <- pMarker, link <- pLink, handler <- pHandler, own <- pOwn, faults <- pFaults

\* An instance's assumption is not one of this module's: the theorems state it.
Delivery == P!DeliveryAssumption

\* Everything but the wire.
DTyped ==
  /\ version \in P!Version /\ pMarker \in BOOLEAN
  /\ pLink \in {"down", "up", "joined"}
  /\ pHandler \in [Handlers -> {"idle", "auth", "joined", "flush", "flushed", "build", "built"}]
  /\ gen \in [Handlers -> P!Gen]
  /\ pOwn \subseteq {h \in Handlers : pHandler[h] # "idle"}
  /\ push \in [Pushers -> {"idle", "check", "build", "built"}]
  /\ got \in [Handlers \cup Pushers -> P!Version]
  /\ applied \in P!Version /\ refreshed \in P!Version /\ inFlight \in BOOLEAN
  /\ pLink = "down" => pOwn = {} /\ wire = <<>> /\ ~inFlight

\* The generations that may still arrive are numbers below some bound.
Bounded == \E b \in Nat : \A g \in P!Expected \ {NoGen} : g <= b

LEMMA TypeIs == P!TypeOK <=> DTyped /\ wire \in Seq(P!Payload)
BY DEF P!TypeOK, DTyped

LEMMA GenFacts ==
  ASSUME P!TypeOK
  PROVE  /\ P!Expected \subseteq P!Gen
         /\ DOMAIN wire = 1 .. Len(wire) /\ Len(wire) \in Nat
         /\ \A i \in 1 .. Len(wire) : /\ wire[i] \in P!Payload /\ wire[i].gen \in P!Gen
                                      /\ wire[i].version \in P!Version
         /\ \A h \in Handlers : gen[h] \in P!Gen
<1>1. wire \in Seq(P!Payload)
  BY DEF P!TypeOK
<1>2. DOMAIN wire = 1 .. Len(wire) /\ Len(wire) \in Nat /\ \A i \in 1 .. Len(wire) : wire[i] \in P!Payload
  BY <1>1, LenProperties, ElementOfSeq
<1>3. \A i \in 1 .. Len(wire) : wire[i].gen \in P!Gen /\ wire[i].version \in P!Version
  BY <1>2 DEF P!Payload
<1>4. \A h \in Handlers : gen[h] \in P!Gen
  BY DEF P!TypeOK
<1>. QED
  BY <1>2, <1>3, <1>4 DEF P!Expected, P!TypeOK

\* A set of numbers has a least one, and below a bound a greatest.
LEMMA LeastExists ==
  ASSUME NEW S \in SUBSET Nat, S # {}
  PROVE  \E x \in S : \A y \in S : x <= y
<1>1. PICK x \in S : \A y \in S : ~(<<y, x>> \in OpToRel(<, Nat))
  BY WFMin, NatLessThanWellFounded
<1>2. \A y \in S : <<y, x>> \in OpToRel(<, Nat) <=> y < x
  BY DEF OpToRel
<1>3. \A y \in S : ~(y < x)
  BY <1>1, <1>2, Zenon
<1>. QED
  BY <1>3

LEMMA MaxFacts ==
  ASSUME NEW S \in SUBSET Nat, S # {}, NEW b \in Nat, \A s \in S : s <= b
  PROVE  P!Max(S) \in S /\ \A s \in S : s <= P!Max(S)
<1>. DEFINE U == {u \in Nat : \A s \in S : s <= u}
<1>1. U \in SUBSET Nat /\ U # {}
  OBVIOUS
<1>2. PICK u \in U : \A y \in U : u <= y
  <2>. HIDE DEF U
  <2>. QED
    BY <1>1, LeastExists
<1>3. u \in S
  <2>. SUFFICES ASSUME u \notin S PROVE FALSE
    OBVIOUS
  <2>1. \A s \in S : s \in Nat /\ s < u
    BY <1>2
  <2>2. u - 1 \in U
    <3>0. PICK s \in S : TRUE
      OBVIOUS
    <3>1. u \in Nat /\ s \in Nat /\ s < u
      BY <1>2, <2>1
    <3>. QED
      BY <2>1, <3>1
  <2>. QED
    BY <1>2, <2>2
<1>4. \E x \in S : \A y \in S : x >= y
  BY <1>2, <1>3
<1>5. P!Max(S) \in S /\ \A y \in S : P!Max(S) >= y
  BY <1>4 DEF P!Max
<1>. QED
  BY <1>5

LEMMA NextGenFacts ==
  ASSUME P!TypeOK, Delivery, NEW b \in Nat, \A g \in P!Expected \ {NoGen} : g <= b
  PROVE  /\ P!NextGen \in Nat /\ P!NextGen > 0 /\ P!NextGen # NoGen
         /\ \A g \in P!Expected \ {NoGen} : g < P!NextGen
<1>. DEFINE S == (P!Expected \ {NoGen}) \cup {0}
<1>1. S \in SUBSET Nat /\ S # {} /\ \A s \in S : s <= b
  BY GenFacts DEF P!Gen
<1>2. P!Max(S) \in S /\ \A s \in S : s <= P!Max(S)
  <2>. HIDE DEF S
  <2>. QED
    BY <1>1, MaxFacts
<1>3. P!NextGen = 1 + P!Max(S)
  BY DEF P!NextGen
<1>. QED
  BY <1>1, <1>2, <1>3 DEF Delivery, P!DeliveryAssumption

\* What a payload that arrives does to the generations that are still to come.
LEMMA SinceFacts ==
  ASSUME NEW g \in P!Gen, NEW x \in P!Gen, Delivery
  PROVE  LET y == IF g # NoGen THEN P!Since(g, x) ELSE x
         IN  /\ y \in P!Gen /\ (y = NoGen <=> x = NoGen)
             /\ x # NoGen => y <= x
BY DEF P!Gen, P!Since, Delivery, P!DeliveryAssumption

\* The wire after the head has been taken from it: the same payloads, in the same order, and
\* what is left of their generations.
LEMMA ReceiveFacts ==
  ASSUME P!TypeOK, Delivery, P!Receive
  PROVE  LET head == wire[1] IN
         /\ Len(wire) > 0 /\ head \in P!Payload
         /\ wire' \in Seq(P!Payload) /\ Len(wire') = Len(wire) - 1
         /\ \A i \in 1 .. Len(wire') :
              /\ wire'[i].version = wire[i + 1].version
              /\ wire'[i].gen = NoGen <=> wire[i + 1].gen = NoGen
              /\ wire'[i].gen # NoGen => wire'[i].gen <= wire[i + 1].gen
         /\ gen' \in [Handlers -> P!Gen]
         /\ \A h \in Handlers : /\ gen'[h] = NoGen <=> gen[h] = NoGen
                                /\ gen'[h] # NoGen => gen'[h] <= gen[h]
         /\ \/ head.gen = 0 /\ applied' = applied
            \/ head.gen # 0 /\ applied' = head.version
<1>. DEFINE head == wire[1]
            answer == head.gen # NoGen
            Renumber(x) == IF answer THEN P!Since(head.gen, x) ELSE x
<1>1. wire # <<>> /\ wire \in Seq(P!Payload) /\ Len(wire) \in Nat /\ gen \in [Handlers -> P!Gen]
  BY GenFacts DEF P!Receive, P!TypeOK
<1>2. Len(wire) > 0 /\ head = Head(wire) /\ head \in P!Payload /\ head.gen \in P!Gen
  BY <1>1, GenFacts, EmptySeq
<1>3. \A x \in P!Gen : /\ Renumber(x) \in P!Gen /\ (Renumber(x) = NoGen <=> x = NoGen)
                       /\ x # NoGen => Renumber(x) <= x
  BY <1>2, SinceFacts
<1>4. CASE P!Stale(head)
  <2>1. wire' = Tail(wire) /\ gen' = gen /\ applied' = applied /\ head.gen = 0
    BY <1>2, <1>4 DEF P!Receive, P!Stale
  <2>2. wire' \in Seq(P!Payload) /\ Len(wire') = Len(wire) - 1
        /\ \A i \in 1 .. Len(wire') : wire'[i] = wire[i + 1]
    BY <1>1, <2>1, HeadTailProperties
  <2>3. \A g \in P!Gen : g # NoGen => g <= g
    BY DEF P!Gen
  <2>4. \A i \in 1 .. Len(wire') : wire[i + 1].gen \in P!Gen
    BY <1>1, <2>2, GenFacts
  <2>. QED
    BY <1>1, <1>2, <2>1, <2>2, <2>3, <2>4
<1>5. CASE ~P!Stale(head)
  <2>1. /\ applied' = head.version /\ head.gen # 0
        /\ gen' = [h \in Handlers |-> Renumber(gen[h])]
        /\ wire' = [i \in 1 .. Len(wire) - 1 |-> [wire[i + 1] EXCEPT !.gen = Renumber(@)]]
    BY <1>2, <1>5 DEF P!Receive, P!Stale
  <2>. HIDE DEF Renumber
  <2>2. ASSUME NEW i \in 1 .. Len(wire) - 1
        PROVE  /\ wire'[i] \in P!Payload /\ wire'[i].version = wire[i + 1].version
               /\ wire'[i].gen = Renumber(wire[i + 1].gen) /\ wire[i + 1].gen \in P!Gen
    <3>1. i + 1 \in 1 .. Len(wire)
      BY <1>1
    <3>2. wire[i + 1] \in P!Payload /\ wire[i + 1].gen \in P!Gen
      BY <3>1, GenFacts
    <3>3. wire'[i] = [wire[i + 1] EXCEPT !.gen = Renumber(@)]
      BY <2>1
    <3>. QED
      BY <1>3, <3>2, <3>3 DEF P!Payload
  <2>3. Len(wire') = Len(wire) - 1 /\ wire' \in Seq(P!Payload)
    <3>1. Len(wire) - 1 \in Nat
      BY <1>1, <1>2
    <3>2. wire' \in [1 .. Len(wire) - 1 -> P!Payload]
      BY <2>1, <2>2
    <3>3. wire' \in Seq(P!Payload)
      BY <3>1, <3>2, SeqDef
    <3>4. Len(wire') \in Nat /\ 1 .. Len(wire') = 1 .. Len(wire) - 1
      BY <3>2, <3>3, LenProperties
    <3>. QED
      BY <3>1, <3>3, <3>4
  <2>4. ASSUME NEW h \in Handlers
        PROVE  gen'[h] = Renumber(gen[h]) /\ gen[h] \in P!Gen
    BY <1>1, <2>1
  <2>5. gen' \in [Handlers -> P!Gen]
    BY <1>3, <2>1, <2>4
  <2>6. \A h \in Handlers : /\ gen'[h] = NoGen <=> gen[h] = NoGen
                            /\ gen'[h] # NoGen => gen'[h] <= gen[h]
    BY <1>3, <2>4
  <2>7. \A i \in 1 .. Len(wire') :
              /\ wire'[i].version = wire[i + 1].version
              /\ wire'[i].gen = NoGen <=> wire[i + 1].gen = NoGen
              /\ wire'[i].gen # NoGen => wire'[i].gen <= wire[i + 1].gen
    BY <1>3, <2>2, <2>3
  <2>. QED
    BY <1>2, <2>1, <2>3, <2>5, <2>6, <2>7
<1>. QED
  BY <1>4, <1>5

-----------------------------------------------------------------------------
(* The refreshes: RefreshAnswered with a bound on the generations to come, *)
(* which makes the next request's generation greater than all of them.     *)

DInv == P!TypeOK /\ Bounded /\ P!RefreshAnswered

LEMMA InitDInv == Delivery /\ P!Init => DInv
<1>. SUFFICES ASSUME Delivery, P!Init PROVE DInv
  OBVIOUS
<1>1. P!TypeOK
  <2>1. wire \in Seq(P!Payload)
    BY EmptySeq DEF P!Init
  <2>2. 0 \in P!Version /\ NoGen \in P!Gen
    BY DEF Delivery, P!DeliveryAssumption, P!Version, P!Gen
  <2>. QED
    BY <2>1, <2>2 DEF P!Init, P!TypeOK
<1>2. P!Expected = {}
  BY <1>1, EmptySeq, GenFacts DEF P!Init, P!Expected
<1>3. Bounded
  BY <1>2 DEF Bounded
<1>. QED
  BY <1>1, <1>3 DEF DInv, P!RefreshAnswered, P!Init

\* The steps that end the connection.
LEMMA CutKeeps ==
  ASSUME P!Cut
  PROVE  Bounded' /\ P!RefreshAnswered'
<1>1. P!Expected' = {}
  BY DEF P!Cut, P!Expected
<1>. QED
  BY <1>1 DEF Bounded, P!RefreshAnswered, P!Cut

\* A step that leaves the generations to come as they are, and does not ask for more.
LEMMA SameGens ==
  ASSUME DInv, P!Expected' \ {NoGen} = P!Expected \ {NoGen}, inFlight' => inFlight
  PROVE  Bounded' /\ P!RefreshAnswered'
BY DEF DInv, Bounded, P!RefreshAnswered

\* A payload is added to the wire.
LEMMA AppendFacts ==
  ASSUME P!TypeOK, NEW e \in P!Payload, wire' = Append(wire, e)
  PROVE  /\ wire' \in Seq(P!Payload) /\ Len(wire') = Len(wire) + 1 /\ DOMAIN wire' = 1 .. Len(wire')
         /\ \A i \in 1 .. Len(wire) : wire'[i] = wire[i]
         /\ wire'[Len(wire')] = e
<1>1. wire \in Seq(P!Payload)
  BY DEF P!TypeOK
<1>2. /\ wire' \in Seq(P!Payload) /\ Len(wire') = Len(wire) + 1
      /\ \A i \in 1 .. Len(wire) : wire'[i] = wire[i]
      /\ wire'[Len(wire) + 1] = e
  BY <1>1, AppendProperties
<1>. QED
  BY <1>2, LenProperties

LEMMA AppendGens ==
  ASSUME P!TypeOK, NEW e \in P!Payload, wire' = Append(wire, e)
  PROVE  {wire'[i].gen : i \in DOMAIN wire'} = {wire[i].gen : i \in DOMAIN wire} \cup {e.gen}
<1>1. /\ Len(wire) \in Nat /\ DOMAIN wire = 1 .. Len(wire) /\ Len(wire') = Len(wire) + 1
      /\ DOMAIN wire' = 1 .. Len(wire')
      /\ \A i \in 1 .. Len(wire) : wire'[i] = wire[i]
      /\ wire'[Len(wire')] = e
  BY AppendFacts, GenFacts
<1>2. \A i \in 1 .. Len(wire') : i \in 1 .. Len(wire) \/ i = Len(wire')
  BY <1>1
<1>3. 1 .. Len(wire) \subseteq 1 .. Len(wire') /\ Len(wire') \in 1 .. Len(wire')
  BY <1>1
<1>. DEFINE old == {wire[i].gen : i \in DOMAIN wire}
            new == {wire'[i].gen : i \in DOMAIN wire'}
<1>4. ASSUME NEW i \in DOMAIN wire PROVE wire[i].gen \in new
  <2>1. i \in DOMAIN wire' /\ wire'[i] = wire[i]
    BY <1>1, <1>3
  <2>. QED
    BY <2>1
<1>5. ASSUME NEW i \in DOMAIN wire' PROVE wire'[i].gen \in old \cup {e.gen}
  BY <1>1, <1>2
<1>6. e.gen \in new
  BY <1>1, <1>3
<1>. QED
  BY <1>4, <1>5, <1>6

\* The types, one action after the other.
LEMMA PlayerKeepsTypes ==
  ASSUME DInv, Delivery,
         \/ P!Drop \/ P!RefreshTimesOut \/ P!Receive
         \/ \E h \in Handlers : P!Connect(h) \/ P!RequestRefresh(h)
  PROVE  P!TypeOK'
<1>. SUFFICES DTyped' /\ (wire \in Seq(P!Payload))'
  BY DEF P!TypeOK, DTyped
<1>0. DTyped /\ wire \in Seq(P!Payload) /\ <<>> \in Seq(P!Payload) /\ NoGen \in P!Gen
  BY TypeIs, EmptySeq DEF DInv, P!Gen
<1>1. CASE P!Drop
  BY <1>0, <1>1 DEF P!Drop, P!Cut, DTyped
<1>2. CASE P!RefreshTimesOut
  BY <1>0, <1>2 DEF P!RefreshTimesOut, P!server, DTyped
<1>3. CASE P!Receive
  <2>1. wire' \in Seq(P!Payload) /\ gen' \in [Handlers -> P!Gen]
    BY <1>3, ReceiveFacts DEF DInv
  <2>2. applied' \in P!Version /\ refreshed' \in P!Version /\ inFlight' = FALSE
    <3>1. Head(wire) \in P!Payload
      BY <1>0, <1>3, HeadTailProperties DEF P!Receive
    <3>2. Head(wire).version \in P!Version
      BY <3>1 DEF P!Payload
    <3>. QED
      BY <1>0, <1>3, <3>2 DEF P!Receive, DTyped
  <2>3. pLink # "down"
    BY <1>0, <1>3 DEF P!Receive, DTyped
  <2>. QED
    BY <1>0, <1>3, <2>1, <2>2, <2>3 DEF P!Receive, DTyped
<1>4. ASSUME NEW h \in Handlers, P!Connect(h)
      PROVE  DTyped' /\ (wire \in Seq(P!Payload))'
  BY <1>0, <1>4 DEF P!Connect, P!StartHandler, P!client, DTyped
<1>5. ASSUME NEW h \in Handlers, P!RequestRefresh(h)
      PROVE  DTyped' /\ (wire \in Seq(P!Payload))'
  <2>1. P!NextGen \in P!Gen
    BY NextGenFacts DEF DInv, Bounded, P!Gen
  <2>. QED
    BY <1>0, <1>5, <2>1 DEF P!RequestRefresh, P!StartHandler, DTyped
<1>. QED
  BY <1>1, <1>2, <1>3, <1>4, <1>5

LEMMA RoomTypes ==
  ASSUME DTyped, wire \in Seq(P!Payload), NEW v \in P!Version, P!EmitToRoom(v)
  PROVE  wire' \in Seq(P!Payload) /\ (pLink = "down" => wire' = <<>>)
<1>1. [gen |-> NoGen, version |-> v] \in P!Payload
  BY DEF P!Payload, P!Gen
<1>. QED
  BY <1>1, AppendProperties DEF P!EmitToRoom, DTyped

LEMMA PushKeepsTypes ==
  ASSUME P!TypeOK, Delivery, NEW p \in Pushers,
         P!Publish(p) \/ P!Check(p) \/ P!BuildPush(p) \/ P!EmitPush(p) \/ P!PushFails(p)
  PROVE  P!TypeOK'
<1>. SUFFICES DTyped' /\ (wire \in Seq(P!Payload))'
  BY DEF P!TypeOK, DTyped
<1>0. /\ DTyped /\ wire \in Seq(P!Payload) /\ <<>> \in Seq(P!Payload)
      /\ NoGen \in P!Gen /\ 0 \in P!Version
  BY TypeIs, EmptySeq DEF P!Gen, P!Version, Delivery, P!DeliveryAssumption
<1>1. CASE P!Publish(p)
  <2>1. version' \in P!Version
    BY <1>0, <1>1 DEF P!Publish, DTyped, P!Version, Delivery, P!DeliveryAssumption
  <2>. QED
    BY <1>0, <1>1, <2>1 DEF P!Publish, P!client, DTyped
<1>2. CASE P!Check(p)
  BY <1>0, <1>2 DEF P!Check, P!client, DTyped
<1>3. CASE P!BuildPush(p)
  BY <1>0, <1>3 DEF P!BuildPush, P!client, DTyped
<1>4. CASE P!EmitPush(p)
  <2>1. got[p] \in P!Version /\ got' \in [Handlers \cup Pushers -> P!Version]
    BY <1>0, <1>4 DEF P!EmitPush, DTyped
  <2>2. wire' \in Seq(P!Payload) /\ (pLink = "down" => wire' = <<>>)
    BY <1>0, <1>4, <2>1, RoomTypes DEF P!EmitPush
  <2>. QED
    BY <1>0, <1>4, <2>1, <2>2 DEF P!EmitPush, P!client, DTyped
<1>5. CASE P!PushFails(p)
  BY <1>0, <1>5 DEF P!PushFails, P!Cut, DTyped
<1>. QED
  BY <1>1, <1>2, <1>3, <1>4, <1>5

\* A handler joins the room, starts its flush, or both.
Enters(h) == P!Accept(h) \/ P!Reclaim(h) \/ P!FlushReclaimed(h)

LEMMA HandlerKeepsTypes ==
  ASSUME P!TypeOK, Delivery, NEW h \in Handlers,
         Enters(h) \/ P!Build(h) \/ P!EmitFlush(h) \/ P!EmitAnswer(h) \/ P!BuildFails(h)
  PROVE  P!TypeOK'
<1>. SUFFICES DTyped' /\ (wire \in Seq(P!Payload))'
  BY DEF P!TypeOK, DTyped
<1>0. /\ DTyped /\ wire \in Seq(P!Payload) /\ <<>> \in Seq(P!Payload)
      /\ NoGen \in P!Gen /\ 0 \in P!Version /\ got[h] \in P!Version /\ gen[h] \in P!Gen
  BY TypeIs, EmptySeq DEF P!Gen, P!Version, Delivery, P!DeliveryAssumption, DTyped
<1>1. CASE Enters(h)
  <2>1. CASE P!Accept(h)
    BY <1>0, <2>1 DEF P!Accept, P!TakeMarker, P!client, DTyped
  <2>2. CASE P!Reclaim(h)
    BY <1>0, <2>2 DEF P!Reclaim, P!client, DTyped
  <2>3. CASE P!FlushReclaimed(h)
    BY <1>0, <2>3 DEF P!FlushReclaimed, P!TakeMarker, P!client, DTyped
  <2>. QED
    BY <1>1, <2>1, <2>2, <2>3 DEF Enters
<1>2. CASE P!Build(h)
  BY <1>0, <1>2 DEF P!Build, P!client, DTyped
<1>3. CASE P!EmitFlush(h)
  <2>1. wire' \in Seq(P!Payload) /\ (pLink = "down" => wire' = <<>>)
    BY <1>0, <1>3, RoomTypes DEF P!EmitFlush
  <2>. QED
    BY <1>0, <1>3, <2>1 DEF P!EmitFlush, P!client, DTyped
<1>4. CASE P!EmitAnswer(h)
  <2>1. [gen |-> gen[h], version |-> got[h]] \in P!Payload
    BY <1>0 DEF P!Payload
  <2>2. wire' \in Seq(P!Payload) /\ (pLink = "down" => wire' = <<>>)
    BY <1>0, <1>4, <2>1, AppendProperties DEF P!EmitAnswer, DTyped
  <2>. QED
    BY <1>0, <1>4, <2>2 DEF P!EmitAnswer, P!Done, P!client, DTyped
<1>5. CASE P!BuildFails(h)
  <2>1. CASE h \in pOwn
    BY <1>0, <1>5, <2>1 DEF P!BuildFails, P!Done, P!Cut, DTyped
  <2>2. CASE h \notin pOwn
    BY <1>0, <1>5, <2>2 DEF P!BuildFails, P!Done, DTyped
  <2>. QED
    BY <2>1, <2>2
<1>. QED
  BY <1>1, <1>2, <1>3, <1>4, <1>5

\* Bounds and answers, action by action.
LEMMA PlayerKeepsAnswers ==
  ASSUME DInv, Delivery,
         \/ P!Drop \/ P!RefreshTimesOut \/ P!Receive
         \/ \E h \in Handlers : P!Connect(h) \/ P!RequestRefresh(h)
  PROVE  Bounded' /\ P!RefreshAnswered'
<1>0. P!TypeOK /\ DTyped
  BY TypeIs DEF DInv
<1>1. CASE P!Drop
  BY <1>1, CutKeeps DEF P!Drop
<1>2. CASE P!RefreshTimesOut
  <2>1. P!Expected' = P!Expected /\ ~inFlight'
    BY <1>2 DEF P!RefreshTimesOut, P!server, P!Expected
  <2>. QED
    BY <2>1, SameGens
<1>3. CASE P!Receive
  <2>0. PICK b \in Nat : \A g \in P!Expected \ {NoGen} : g <= b
    BY DEF DInv, Bounded
  <2>1. ~inFlight' /\ pOwn' = pOwn
    BY <1>3 DEF P!Receive
  <2>2. ASSUME NEW g \in P!Expected' \ {NoGen} PROVE g <= b
    <3>1. CASE \E h \in pOwn : g = gen'[h]
      <4>1. PICK h \in pOwn : g = gen'[h]
        BY <3>1
      <4>2. h \in Handlers /\ gen[h] \in P!Expected
        BY <1>0, <4>1 DEF DTyped, P!Expected
      <4>3. gen[h] # NoGen /\ g <= gen[h] /\ g \in P!Gen /\ gen[h] \in P!Gen
        BY <1>0, <1>3, <2>2, <4>1, <4>2, ReceiveFacts, GenFacts
      <4>4. gen[h] <= b
        BY <2>0, <4>2, <4>3
      <4>. QED
        BY <2>2, <4>3, <4>4 DEF P!Gen
    <3>2. CASE \E i \in DOMAIN wire' : g = wire'[i].gen
      <4>0. /\ wire' \in Seq(P!Payload) /\ Len(wire') = Len(wire) - 1 /\ Len(wire) \in Nat
            /\ DOMAIN wire' = 1 .. Len(wire') /\ DOMAIN wire = 1 .. Len(wire)
        BY <1>0, <1>3, ReceiveFacts, GenFacts, LenProperties
      <4>1. PICK i \in 1 .. Len(wire') : g = wire'[i].gen
        BY <3>2, <4>0
      <4>2. i + 1 \in DOMAIN wire /\ wire'[i] \in P!Payload
        BY <4>0, <4>1, ElementOfSeq
      <4>3. wire[i + 1].gen \in P!Expected /\ wire[i + 1].gen \in P!Gen /\ g \in P!Gen
        BY <1>0, <4>0, <4>1, <4>2, GenFacts DEF P!Expected, P!Payload
      <4>4. wire[i + 1].gen # NoGen /\ g <= wire[i + 1].gen
        BY <1>0, <1>3, <2>2, <4>1, ReceiveFacts
      <4>5. wire[i + 1].gen <= b
        BY <2>0, <4>3, <4>4
      <4>. QED
        BY <2>2, <4>3, <4>4, <4>5 DEF P!Gen
    <3>. QED
      BY <2>1, <2>2, <3>1, <3>2 DEF P!Expected
  <2>. QED
    BY <2>1, <2>2 DEF Bounded, P!RefreshAnswered
<1>4. ASSUME NEW h \in Handlers, P!Connect(h)
      PROVE  Bounded' /\ P!RefreshAnswered'
  <2>1. pOwn' = {h} /\ gen'[h] = NoGen /\ wire' = <<>> /\ ~inFlight'
    BY <1>0, <1>4 DEF P!Connect, P!StartHandler, P!client, DTyped
  <2>2. P!Expected' = {NoGen}
    BY <2>1 DEF P!Expected
  <2>. QED
    BY <2>1, <2>2 DEF Bounded, P!RefreshAnswered
<1>5. ASSUME NEW h \in Handlers, P!RequestRefresh(h)
      PROVE  Bounded' /\ P!RefreshAnswered'
  <2>0. PICK b \in Nat : \A g \in P!Expected \ {NoGen} : g <= b
    BY DEF DInv, Bounded
  <2>. DEFINE n == P!NextGen
  <2>1. n \in Nat /\ n > 0 /\ n # NoGen /\ \A g \in P!Expected \ {NoGen} : g < n
    BY <1>0, <2>0, NextGenFacts
  <2>2. /\ h \notin pOwn /\ pOwn' = pOwn \cup {h} /\ wire' = wire
        /\ gen' = [gen EXCEPT ![h] = n] /\ gen \in [Handlers -> P!Gen] /\ pOwn \subseteq Handlers
    BY <1>0, <1>5 DEF P!RequestRefresh, P!StartHandler, DTyped
  <2>. HIDE DEF n
  <2>3. P!Expected' = P!Expected \cup {n}
    BY <2>2 DEF P!Expected
  <2>4. \A g \in P!Expected' \ {NoGen} : g <= n
    <3>1. P!Expected \subseteq P!Gen
      BY <1>0, GenFacts
    <3>. QED
      BY <2>1, <2>3, <3>1 DEF P!Gen
  <2>. QED
    BY <2>1, <2>3, <2>4 DEF Bounded, P!RefreshAnswered
<1>. QED
  BY <1>1, <1>2, <1>3, <1>4, <1>5

LEMMA RoomGens ==
  ASSUME P!TypeOK, NEW v \in P!Version, P!EmitToRoom(v), UNCHANGED <<gen, pOwn, inFlight>>, DInv
  PROVE  Bounded' /\ P!RefreshAnswered'
<1>1. [gen |-> NoGen, version |-> v] \in P!Payload
  BY DEF P!Payload, P!Gen
<1>2. CASE pLink = "joined"
  <2>1. {wire'[i].gen : i \in DOMAIN wire'} = {wire[i].gen : i \in DOMAIN wire} \cup {NoGen}
    BY <1>1, <1>2, AppendGens DEF P!EmitToRoom
  <2>2. P!Expected' = P!Expected \cup {NoGen}
    BY <2>1 DEF P!Expected
  <2>. QED
    BY <2>2, SameGens
<1>3. CASE pLink # "joined"
  <2>1. P!Expected' = P!Expected
    BY <1>3 DEF P!EmitToRoom, P!Expected
  <2>. QED
    BY <2>1, SameGens
<1>. QED
  BY <1>2, <1>3

LEMMA ServerKeepsAnswers ==
  ASSUME DInv, Delivery,
         \/ P!MarkerExpires
         \/ \E p \in Pushers : P!Publish(p) \/ P!Check(p) \/ P!BuildPush(p) \/ P!EmitPush(p) \/ P!PushFails(p)
         \/ \E h \in Handlers : Enters(h) \/ P!Build(h) \/ P!EmitFlush(h) \/ P!EmitAnswer(h) \/ P!BuildFails(h)
         \/ UNCHANGED P!vars
  PROVE  Bounded' /\ P!RefreshAnswered'
<1>0. P!TypeOK /\ DTyped
  BY TypeIs DEF DInv
<1>1. ASSUME UNCHANGED <<gen, pOwn, wire, inFlight>>
      PROVE  Bounded' /\ P!RefreshAnswered'
  <2>1. P!Expected' = P!Expected /\ (inFlight' => inFlight)
    BY <1>1 DEF P!Expected
  <2>. QED
    BY <2>1, SameGens
<1>2. CASE P!MarkerExpires \/ UNCHANGED P!vars
  BY <1>1, <1>2 DEF P!MarkerExpires, P!client, P!vars, P!server
<1>3. ASSUME NEW p \in Pushers, P!Publish(p) \/ P!Check(p) \/ P!BuildPush(p)
      PROVE  Bounded' /\ P!RefreshAnswered'
  BY <1>1, <1>3 DEF P!Publish, P!Check, P!BuildPush, P!client
<1>4. ASSUME NEW p \in Pushers, P!EmitPush(p)
      PROVE  Bounded' /\ P!RefreshAnswered'
  <2>1. got[p] \in P!Version /\ P!EmitToRoom(got[p]) /\ UNCHANGED <<gen, pOwn, inFlight>>
    BY <1>0, <1>4 DEF P!EmitPush, P!client, DTyped
  <2>. QED
    BY <1>0, <2>1, RoomGens
<1>5. ASSUME NEW p \in Pushers, P!PushFails(p)
      PROVE  Bounded' /\ P!RefreshAnswered'
  BY <1>5, CutKeeps DEF P!PushFails
<1>6. ASSUME NEW h \in Handlers, Enters(h) \/ P!Build(h)
      PROVE  Bounded' /\ P!RefreshAnswered'
  BY <1>1, <1>6 DEF Enters, P!Accept, P!Reclaim, P!FlushReclaimed, P!TakeMarker, P!Build, P!client
<1>7. ASSUME NEW h \in Handlers, P!EmitFlush(h)
      PROVE  Bounded' /\ P!RefreshAnswered'
  <2>1. got[h] \in P!Version /\ P!EmitToRoom(got[h]) /\ UNCHANGED <<gen, pOwn, inFlight>>
    BY <1>0, <1>7 DEF P!EmitFlush, P!client, DTyped
  <2>. QED
    BY <1>0, <2>1, RoomGens
<1>8. ASSUME NEW h \in Handlers, P!EmitAnswer(h)
      PROVE  Bounded' /\ P!RefreshAnswered'
  <2>1. /\ gen' = [gen EXCEPT ![h] = NoGen] /\ pOwn' = pOwn \ {h} /\ inFlight' = inFlight
        /\ wire' = IF h \in pOwn THEN Append(wire, [gen |-> gen[h], version |-> got[h]]) ELSE wire
        /\ gen \in [Handlers -> P!Gen] /\ pOwn \subseteq Handlers
        /\ [gen |-> gen[h], version |-> got[h]] \in P!Payload
    BY <1>0, <1>8 DEF P!EmitAnswer, P!Done, P!client, DTyped, P!Payload
  <2>2. {gen'[k] : k \in pOwn'} = {gen[k] : k \in pOwn \ {h}}
    BY <2>1
  <2>3. CASE h \in pOwn
    <3>1. {wire'[i].gen : i \in DOMAIN wire'} = {wire[i].gen : i \in DOMAIN wire} \cup {gen[h]}
      BY <1>0, <2>1, <2>3, AppendGens
    <3>2. {gen[k] : k \in pOwn} = {gen[k] : k \in pOwn \ {h}} \cup {gen[h]}
      BY <2>3
    <3>3. P!Expected' = P!Expected
      BY <2>2, <3>1, <3>2 DEF P!Expected
    <3>. QED
      BY <2>1, <3>3, SameGens
  <2>4. CASE h \notin pOwn
    <3>1. P!Expected' = P!Expected
      BY <2>1, <2>2, <2>4 DEF P!Expected
    <3>. QED
      BY <2>1, <3>1, SameGens
  <2>. QED
    BY <2>3, <2>4
<1>9. ASSUME NEW h \in Handlers, P!BuildFails(h)
      PROVE  Bounded' /\ P!RefreshAnswered'
  <2>1. CASE h \in pOwn
    BY <1>9, <2>1, CutKeeps DEF P!BuildFails
  <2>2. CASE h \notin pOwn
    <3>1. /\ gen' = [gen EXCEPT ![h] = NoGen] /\ pOwn' = pOwn /\ inFlight' = inFlight
          /\ wire' = wire /\ gen \in [Handlers -> P!Gen] /\ pOwn \subseteq Handlers
      BY <1>0, <1>9, <2>2 DEF P!BuildFails, P!Done, DTyped
    <3>2. P!Expected' = P!Expected
      BY <2>2, <3>1 DEF P!Expected
    <3>. QED
      BY <3>1, <3>2, SameGens
  <2>. QED
    BY <2>1, <2>2
<1>. QED
  BY <1>2, <1>3, <1>4, <1>5, <1>6, <1>7, <1>8, <1>9

LEMMA ExpiryKeepsTypes ==
  ASSUME P!TypeOK, P!MarkerExpires \/ UNCHANGED P!vars
  PROVE  P!TypeOK'
<1>. SUFFICES DTyped' /\ (wire \in Seq(P!Payload))'
  BY DEF P!TypeOK, DTyped
<1>0. DTyped /\ wire \in Seq(P!Payload)
  BY TypeIs
<1>1. CASE P!MarkerExpires
  BY <1>0, <1>1 DEF P!MarkerExpires, P!client, DTyped
<1>2. CASE UNCHANGED P!vars
  BY <1>0, <1>2 DEF P!vars, P!server, P!client, DTyped
<1>. QED
  BY <1>1, <1>2

LEMMA StepDInv == Delivery /\ DInv /\ [P!Next]_(P!vars) => DInv'
<1>. SUFFICES ASSUME Delivery, DInv, [P!Next]_(P!vars) PROVE DInv'
  OBVIOUS
<1>0. P!TypeOK
  BY DEF DInv
<1>1. CASE \/ P!Drop \/ P!RefreshTimesOut \/ P!Receive
           \/ \E h \in Handlers : P!Connect(h) \/ P!RequestRefresh(h)
  BY <1>1, PlayerKeepsTypes, PlayerKeepsAnswers DEF DInv
<1>2. CASE P!MarkerExpires
  <2>1. P!TypeOK'
    BY <1>2, ExpiryKeepsTypes DEF DInv
  <2>. QED
    BY <1>2, <2>1, ServerKeepsAnswers DEF DInv
<1>5. CASE UNCHANGED P!vars
  <2>1. P!TypeOK'
    BY <1>5, ExpiryKeepsTypes DEF DInv
  <2>. QED
    BY <1>5, <2>1, ServerKeepsAnswers DEF DInv
<1>3. CASE \E p \in Pushers : P!Publish(p) \/ P!Check(p) \/ P!BuildPush(p) \/ P!EmitPush(p) \/ P!PushFails(p)
  BY <1>0, <1>3, PushKeepsTypes, ServerKeepsAnswers DEF DInv
<1>4. CASE \E h \in Handlers : Enters(h) \/ P!Build(h) \/ P!EmitFlush(h) \/ P!EmitAnswer(h) \/ P!BuildFails(h)
  BY <1>0, <1>4, HandlerKeepsTypes, ServerKeepsAnswers DEF DInv
<1>. QED
  BY <1>1, <1>2, <1>3, <1>4, <1>5 DEF P!Next, Enters

-----------------------------------------------------------------------------
(* The pushes and the register's answers: where the playlist is while the  *)
(* player does not play it yet.                                            *)

\* Nothing that was read, sent or applied is newer than the playlist.
Known ==
  /\ applied <= version
  /\ \A i \in 1 .. Len(wire) : wire[i].version <= version
  /\ \A x \in Handlers \cup Pushers : got[x] <= version

\* Unless a payload went out behind a later version, what the player plays and what is on its way
\* to it grows from one payload to the next.
Growing == ~overtaken =>
  /\ \A i \in 1 .. Len(wire) : applied <= wire[i].version
  /\ \A i, j \in 1 .. Len(wire) : i <= j => wire[i].version <= wire[j].version

\* The handler of the register that opened the connection will let it into its room.
Joining == pLink = "up" => \E h \in pOwn : pHandler[h] = "auth" /\ gen[h] = NoGen

\* Where a playlist that the player does not play may still be.
OnWire == \E i \in 1 .. Len(wire) : wire[i].gen = NoGen /\ wire[i].version = version
Pushing(p) == push[p] \in {"check", "build"} \/ (push[p] = "built" /\ got[p] = version)
Answers(h) ==
  /\ gen[h] = NoGen
  /\ pHandler[h] \in {"auth", "joined", "flush", "flushed", "build"} \/ (pHandler[h] = "built" /\ got[h] = version)

Somewhere == \/ applied = version
             \/ OnWire
             \/ \E p \in Pushers : Pushing(p)
             \/ \E h \in pOwn : Answers(h)

Covered == pLink = "joined" /\ ~overtaken => Somewhere

QInv == Known /\ Growing /\ Joining /\ Covered

LEMMA InitQInv == Delivery /\ P!QuietInit => QInv
<1>. SUFFICES ASSUME Delivery, P!QuietInit PROVE QInv
  OBVIOUS
<1>1. Len(wire) = 0 /\ 1 .. Len(wire) = {}
  BY EmptySeq DEF P!QuietInit, P!Init
<1>. QED
  BY <1>1 DEF P!QuietInit, P!Init, QInv, Known, Growing, Joining, Covered

\* What a step does to the wire, and what it reads.
Kept == wire' = wire /\ applied' = applied
Lost == wire' = <<>> /\ pLink' = "down" /\ applied' = applied
Sent == \E x \in Handlers \cup Pushers, g \in P!Gen :
           /\ wire' = Append(wire, [gen |-> g, version |-> got[x]])
           /\ applied' = applied /\ version' = version

Moves == Kept \/ Lost \/ Sent \/ P!Receive

LEMMA RoomMoves ==
  ASSUME NEW x \in Handlers \cup Pushers, P!EmitToRoom(got[x]), applied' = applied, version' = version
  PROVE  Moves
BY DEF P!EmitToRoom, Moves, Kept, Sent, P!Gen

LEMMA StepMoves ==
  ASSUME P!TypeOK, Delivery, [P!Next]_(P!vars)
  PROVE  /\ Moves
         /\ version' >= version
         /\ \A x \in Handlers \cup Pushers : got'[x] \in {got[x], 0, version}
<1>. DEFINE Reads == \A x \in Handlers \cup Pushers : got'[x] \in {got[x], 0, version}
            Goal  == Moves /\ version' >= version /\ Reads
<1>0. DTyped /\ version \in Nat
  BY TypeIs DEF DTyped, P!Version
<1>1. CASE UNCHANGED P!vars
  BY <1>0, <1>1 DEF P!vars, P!server, P!client, Moves, Kept
<1>2. CASE P!Drop
  BY <1>0, <1>2 DEF P!Drop, P!Cut, Moves, Lost
<1>3. CASE P!RefreshTimesOut
  BY <1>0, <1>3 DEF P!RefreshTimesOut, P!server, Moves, Kept
<1>4. CASE P!Receive
  BY <1>0, <1>4 DEF P!Receive, Moves
<1>5. CASE P!MarkerExpires
  BY <1>0, <1>5 DEF P!MarkerExpires, P!client, Moves, Kept
<1>6. ASSUME NEW p \in Pushers, P!Publish(p) \/ P!Check(p) PROVE Goal
  BY <1>0, <1>6 DEF P!Publish, P!Check, P!client, Moves, Kept
<1>7. ASSUME NEW p \in Pushers, P!BuildPush(p) PROVE Goal
  <2>1. Reads
    BY <1>0, <1>7 DEF P!BuildPush, DTyped
  <2>. QED
    BY <1>0, <1>7, <2>1 DEF P!BuildPush, P!client, Moves, Kept
<1>8. ASSUME NEW p \in Pushers, P!EmitPush(p) PROVE Goal
  <2>1. Reads
    BY <1>0, <1>8 DEF P!EmitPush, DTyped
  <2>2. Moves
    BY <1>8, RoomMoves DEF P!EmitPush, P!client
  <2>. QED
    BY <1>0, <1>8, <2>1, <2>2 DEF P!EmitPush
<1>9. ASSUME NEW p \in Pushers, P!PushFails(p) PROVE Goal
  <2>1. Reads
    BY <1>0, <1>9 DEF P!PushFails, DTyped
  <2>. QED
    BY <1>0, <1>9, <2>1 DEF P!PushFails, P!Cut, Moves, Lost
<1>10. ASSUME NEW h \in Handlers, P!Connect(h) \/ P!RequestRefresh(h) \/ Enters(h) PROVE Goal
  BY <1>0, <1>10 DEF P!Connect, P!RequestRefresh, Enters, P!Accept, P!Reclaim, P!FlushReclaimed, P!TakeMarker, P!client, Moves, Kept
<1>11. ASSUME NEW h \in Handlers, P!Build(h) PROVE Goal
  <2>1. Reads
    BY <1>0, <1>11 DEF P!Build, DTyped
  <2>. QED
    BY <1>0, <1>11, <2>1 DEF P!Build, P!client, Moves, Kept
<1>12. ASSUME NEW h \in Handlers, P!EmitFlush(h) PROVE Goal
  <2>1. Moves
    BY <1>12, RoomMoves DEF P!EmitFlush, P!client
  <2>. QED
    BY <1>0, <1>12, <2>1 DEF P!EmitFlush
<1>13. ASSUME NEW h \in Handlers, P!EmitAnswer(h) PROVE Goal
  <2>1. Reads
    BY <1>0, <1>13 DEF P!EmitAnswer, P!Done, DTyped
  <2>2. gen[h] \in P!Gen
    BY <1>0 DEF DTyped
  <2>3. Moves
    BY <1>13, <2>2 DEF P!EmitAnswer, P!client, Moves, Kept, Sent
  <2>. QED
    BY <1>0, <1>13, <2>1, <2>3 DEF P!EmitAnswer
<1>14. ASSUME NEW h \in Handlers, P!BuildFails(h) PROVE Goal
  <2>1. Reads
    BY <1>0, <1>14 DEF P!BuildFails, P!Done, DTyped
  <2>2. Moves
    BY <1>14 DEF P!BuildFails, P!Cut, Moves, Kept, Lost
  <2>. QED
    BY <1>0, <1>14, <2>1, <2>2 DEF P!BuildFails
<1>. HIDE DEF Goal
<1>15. Goal
  BY <1>1, <1>2, <1>3, <1>4, <1>5, <1>6, <1>7, <1>8, <1>9, <1>10, <1>11, <1>12, <1>13, <1>14
  DEF P!Next, Enters, Goal
<1>. QED
  BY <1>15 DEF Goal

\* What the history variable tells of a step.
LEMMA QuietStep ==
  ASSUME P!TypeOK, [P!QuietNext]_(P!qvars)
  PROVE  /\ [P!Next]_(P!vars)
         /\ ~overtaken' /\ pLink' # "down" => ~overtaken /\ ~P!Overtakes
<1>1. CASE P!QuietNext
  BY <1>1 DEF P!QuietNext
<1>2. CASE UNCHANGED P!qvars
  <2>1. UNCHANGED P!vars /\ overtaken' = overtaken
    BY <1>2 DEF P!qvars
  <2>2. wire' = wire /\ Len(wire) \in Nat
    BY <2>1, GenFacts DEF P!vars
  <2>3. ~P!Overtakes
    BY <2>2 DEF P!Overtakes
  <2>. QED
    BY <2>1, <2>3
<1>. QED
  BY <1>1, <1>2

\* The versions are numbers.
LEMMA VersionFacts ==
  ASSUME P!TypeOK
  PROVE  /\ version \in Nat /\ applied \in Nat /\ Len(wire) \in Nat
         /\ \A i \in 1 .. Len(wire) : wire[i].version \in Nat
         /\ \A x \in Handlers \cup Pushers : got[x] \in Nat
<1>1. P!Version \subseteq Nat
  BY DEF P!Version
<1>2. Len(wire) \in Nat /\ \A i \in 1 .. Len(wire) : wire[i].version \in P!Version
  BY GenFacts
<1>3. version \in P!Version /\ applied \in P!Version /\ got \in [Handlers \cup Pushers -> P!Version]
  BY DEF P!TypeOK
<1>4. \A x \in Handlers \cup Pushers : got[x] \in P!Version
  BY <1>3
<1>. QED
  BY <1>1, <1>2, <1>3, <1>4

\* The payload that is sent, as the last of the wire.
LEMMA SentFacts ==
  ASSUME P!TypeOK, Sent
  PROVE  \E x \in Handlers \cup Pushers :
           /\ got[x] \in P!Version /\ applied' = applied /\ version' = version
           /\ Len(wire) \in Nat /\ Len(wire') = Len(wire) + 1
           /\ \A i \in 1 .. Len(wire) : wire'[i] = wire[i]
           /\ wire'[Len(wire')].version = got[x]
<1>1. PICK x \in Handlers \cup Pushers, g \in P!Gen :
        /\ wire' = Append(wire, [gen |-> g, version |-> got[x]])
        /\ applied' = applied /\ version' = version
  BY DEF Sent
<1>2. got[x] \in P!Version /\ [gen |-> g, version |-> got[x]] \in P!Payload
  BY DEF P!TypeOK, P!Payload
<1>3. /\ Len(wire') = Len(wire) + 1 /\ \A i \in 1 .. Len(wire) : wire'[i] = wire[i]
      /\ wire'[Len(wire')] = [gen |-> g, version |-> got[x]]
  BY <1>1, <1>2, AppendFacts
<1>. QED
  BY <1>1, <1>2, <1>3, GenFacts

LEMMA KnownKept ==
  ASSUME P!TypeOK, P!TypeOK', Delivery, [P!Next]_(P!vars), Known
  PROVE  Known'
<1>1. /\ Moves /\ version' >= version
      /\ \A x \in Handlers \cup Pushers : got'[x] \in {got[x], 0, version}
  BY StepMoves
<1>0. version' \in Nat /\ Len(wire') \in Nat
  <2>1. wire' \in Seq(P!Payload) /\ version' \in P!Version
    BY DEF P!TypeOK
  <2>. QED
    BY <2>1, LenProperties DEF P!Version
<1>2. /\ version \in Nat /\ version' \in Nat /\ applied \in Nat
      /\ \A x \in Handlers \cup Pushers : got[x] \in Nat
      /\ Len(wire) \in Nat /\ Len(wire') \in Nat
      /\ \A i \in 1 .. Len(wire) : wire[i].version \in Nat
  BY <1>0, VersionFacts
<1>3. \A x \in Handlers \cup Pushers : got'[x] <= version'
  BY <1>1, <1>2 DEF Known
<1>4. CASE Kept
  BY <1>1, <1>2, <1>3, <1>4 DEF Kept, Known
<1>5. CASE Lost
  <2>1. Len(wire') = 0
    BY <1>5, EmptySeq DEF Lost
  <2>. QED
    BY <1>1, <1>2, <1>3, <1>5, <2>1 DEF Lost, Known
<1>6. CASE Sent
  <2>1. PICK x \in Handlers \cup Pushers :
           /\ applied' = applied /\ version' = version
           /\ Len(wire') = Len(wire) + 1
           /\ \A i \in 1 .. Len(wire) : wire'[i] = wire[i]
           /\ wire'[Len(wire')].version = got[x]
    BY <1>6, SentFacts
  <2>2. \A i \in 1 .. Len(wire') : i \in 1 .. Len(wire) \/ i = Len(wire')
    BY <1>2, <2>1
  <2>. QED
    BY <1>3, <2>1, <2>2 DEF Known
<1>7. CASE P!Receive
  <2>1. /\ Len(wire) > 0 /\ Len(wire') = Len(wire) - 1
        /\ \A i \in 1 .. Len(wire') : wire'[i].version = wire[i + 1].version
        /\ applied' = applied \/ applied' = wire[1].version
    BY <1>7, ReceiveFacts
  <2>2. 1 \in 1 .. Len(wire) /\ \A i \in 1 .. Len(wire') : i + 1 \in 1 .. Len(wire)
    BY <1>2, <2>1
  <2>3. version' = version
    BY <1>7 DEF P!Receive
  <2>. QED
    BY <1>3, <2>1, <2>2, <2>3 DEF Known
<1>. QED
  BY <1>1, <1>4, <1>5, <1>6, <1>7 DEF Moves

LEMMA GrowingKept ==
  ASSUME P!TypeOK, P!TypeOK', Delivery, [P!QuietNext]_(P!qvars), Growing
  PROVE  Growing'
<1>. SUFFICES ASSUME ~overtaken'
              PROVE  /\ \A i \in 1 .. Len(wire') : applied' <= wire'[i].version
                     /\ \A i, j \in 1 .. Len(wire') : i <= j => wire'[i].version <= wire'[j].version
  BY DEF Growing
<1>0. Len(wire) \in Nat /\ Len(wire') \in Nat /\ DOMAIN wire = 1 .. Len(wire)
  BY GenFacts
<1>1. CASE pLink' = "down"
  <2>1. Len(wire') = 0
    BY <1>1, EmptySeq DEF P!TypeOK
  <2>. QED
    BY <2>1
<1>2. CASE pLink' # "down"
  <2>0. Moves /\ ~overtaken /\ ~P!Overtakes
    BY <1>2, QuietStep, StepMoves
  <2>1. /\ \A i \in 1 .. Len(wire) : applied <= wire[i].version
        /\ \A i, j \in 1 .. Len(wire) : i <= j => wire[i].version <= wire[j].version
    BY <2>0 DEF Growing
  <2>2. /\ applied \in Nat /\ \A i \in 1 .. Len(wire) : wire[i].version \in Nat
    BY VersionFacts
  <2>3. CASE Kept
    BY <2>1, <2>3 DEF Kept
  <2>4. CASE Sent
    <3>1. PICK x \in Handlers \cup Pushers :
             /\ got[x] \in P!Version /\ applied' = applied
             /\ Len(wire') = Len(wire) + 1
             /\ \A i \in 1 .. Len(wire) : wire'[i] = wire[i]
             /\ wire'[Len(wire')].version = got[x]
      BY <2>4, SentFacts
    <3>2. ~(got[x] < applied) /\ \A i \in 1 .. Len(wire) : ~(got[x] < wire[i].version)
      BY <1>0, <2>0, <3>1 DEF P!Overtakes
    <3>3. got[x] \in Nat
      BY <3>1 DEF P!Version
    <3>4. applied <= got[x] /\ \A i \in 1 .. Len(wire) : wire[i].version <= got[x]
      BY <2>2, <3>2, <3>3
    <3>5. \A i \in 1 .. Len(wire') : i \in 1 .. Len(wire) \/ i = Len(wire')
      BY <1>0, <3>1
    <3>6. \A i \in 1 .. Len(wire) : ~(Len(wire') <= i)
      BY <1>0, <3>1
    <3>7. \A i \in 1 .. Len(wire') : applied' <= wire'[i].version
      BY <2>1, <3>1, <3>4, <3>5
    <3>8. ASSUME NEW i \in 1 .. Len(wire'), NEW j \in 1 .. Len(wire'), i <= j
          PROVE  wire'[i].version <= wire'[j].version
      <4>1. CASE j = Len(wire') /\ i = Len(wire')
        BY <3>1, <3>3, <4>1
      <4>2. CASE j = Len(wire') /\ i \in 1 .. Len(wire)
        BY <3>1, <3>4, <4>2
      <4>3. CASE j \in 1 .. Len(wire)
        <5>1. i \in 1 .. Len(wire)
          BY <3>5, <3>6, <3>8, <4>3
        <5>. QED
          BY <2>1, <3>1, <3>8, <4>3, <5>1
      <4>. QED
        BY <3>5, <4>1, <4>2, <4>3
    <3>. QED
      BY <3>7, <3>8
  <2>5. CASE P!Receive
    <3>1. /\ Len(wire) > 0 /\ Len(wire') = Len(wire) - 1
          /\ \A i \in 1 .. Len(wire') : wire'[i].version = wire[i + 1].version
          /\ applied' = applied \/ applied' = wire[1].version
      BY <2>5, ReceiveFacts
    <3>2. /\ 1 \in 1 .. Len(wire)
          /\ \A i \in 1 .. Len(wire') : i + 1 \in 1 .. Len(wire) /\ 1 <= i + 1
          /\ \A i, j \in 1 .. Len(wire') : i <= j => i + 1 <= j + 1
      BY <1>0, <3>1
    <3>. QED
      BY <2>1, <3>1, <3>2
  <2>. QED
    BY <1>2, <2>0, <2>3, <2>4, <2>5 DEF Moves, Lost
<1>. QED
  BY <1>1, <1>2

LEMMA JoiningKept ==
  ASSUME P!TypeOK, Delivery, [P!Next]_(P!vars), Joining
  PROVE  Joining'
<1>. SUFFICES ASSUME pLink' = "up"
              PROVE  \E h \in pOwn' : pHandler'[h] = "auth" /\ gen'[h] = NoGen
  BY DEF Joining
<1>. DEFINE Goal == \E h \in pOwn' : pHandler'[h] = "auth" /\ gen'[h] = NoGen
<1>0. DTyped
  BY TypeIs
<1>1. ASSUME NEW h \in Handlers, P!Connect(h) PROVE Goal
  BY <1>0, <1>1 DEF P!Connect, P!StartHandler, DTyped
<1>2. ASSUME pLink = "up",
             \A h \in pOwn : (pHandler[h] = "auth" /\ gen[h] = NoGen)
                                => h \in pOwn' /\ pHandler'[h] = "auth" /\ gen'[h] = NoGen
      PROVE  Goal
  BY <1>2 DEF Joining
<1>3. CASE UNCHANGED P!vars
  BY <1>2, <1>3 DEF P!vars, P!server
<1>4. CASE P!Drop
  BY <1>4 DEF P!Drop, P!Cut
<1>5. CASE P!RefreshTimesOut \/ P!MarkerExpires
  BY <1>2, <1>5 DEF P!RefreshTimesOut, P!server, P!MarkerExpires
<1>6. CASE P!Receive
  <2>1. pLink = "up" /\ UNCHANGED <<pHandler, pOwn>>
    BY <1>6 DEF P!Receive
  <2>2. \A h \in pOwn : gen'[h] = NoGen <=> gen[h] = NoGen
    BY <1>0, <1>6, ReceiveFacts DEF DTyped
  <2>. QED
    BY <1>2, <2>1, <2>2
<1>7. ASSUME NEW p \in Pushers, P!Publish(p) \/ P!Check(p) \/ P!BuildPush(p) \/ P!EmitPush(p) PROVE Goal
  BY <1>2, <1>7 DEF P!Publish, P!Check, P!BuildPush, P!EmitPush
<1>8. ASSUME NEW p \in Pushers, P!PushFails(p) PROVE Goal
  BY <1>8 DEF P!PushFails, P!Cut
<1>9. ASSUME NEW h \in Handlers, P!RequestRefresh(h) PROVE Goal
  BY <1>0, <1>2, <1>9 DEF P!RequestRefresh, P!StartHandler, DTyped
<1>10. ASSUME NEW h \in Handlers, Enters(h) PROVE Goal
  <2>1. (h \notin pOwn \/ pHandler[h] = "joined") /\ pLink = "up"
    BY <1>10 DEF Enters, P!Accept, P!Reclaim, P!FlushReclaimed, P!TakeMarker
  <2>. QED
    BY <1>0, <1>2, <1>10, <2>1 DEF Enters, P!Accept, P!Reclaim, P!FlushReclaimed, P!TakeMarker, DTyped
<1>11. ASSUME NEW h \in Handlers, P!Build(h) \/ P!EmitFlush(h) \/ P!EmitAnswer(h) PROVE Goal
  BY <1>0, <1>2, <1>11 DEF P!Build, P!EmitFlush, P!EmitAnswer, P!Done, DTyped
<1>12. ASSUME NEW h \in Handlers, P!BuildFails(h) PROVE Goal
  <2>1. h \notin pOwn
    BY <1>12 DEF P!BuildFails, P!Cut
  <2>. QED
    BY <1>0, <1>2, <1>12, <2>1 DEF P!BuildFails, P!Done, DTyped
<1>. QED
  BY <1>1, <1>3, <1>4, <1>5, <1>6, <1>7, <1>8, <1>9, <1>10, <1>11, <1>12 DEF P!Next, Enters

\* A step that leaves the player and the wire alone, and every push and handler that will still
\* bring the playlist in that place.
LEMMA StaysSomewhere ==
  ASSUME Somewhere, Kept, version' = version,
         \A p \in Pushers : Pushing(p) => Pushing(p)',
         \A h \in pOwn : Answers(h) => h \in pOwn' /\ Answers(h)'
  PROVE  Somewhere'
<1>1. CASE applied = version
  BY <1>1 DEF Kept, Somewhere
<1>2. CASE OnWire
  BY <1>2 DEF Kept, Somewhere, OnWire
<1>3. CASE \E p \in Pushers : Pushing(p)
  BY <1>3 DEF Somewhere
<1>4. CASE \E h \in pOwn : Answers(h)
  BY <1>4 DEF Somewhere
<1>. QED
  BY <1>1, <1>2, <1>3, <1>4 DEF Somewhere

\* A payload that answers no refresh is sent: the playlist is on the wire if it was read, and
\* whatever was on the wire still is.
LEMMA SendsSomewhere ==
  ASSUME P!TypeOK, Somewhere, NEW g \in P!Gen, NEW v \in P!Version,
         wire' = Append(wire, [gen |-> g, version |-> v]), applied' = applied, version' = version,
         \A p \in Pushers : Pushing(p) => Pushing(p)' \/ (g = NoGen /\ v = version),
         \A h \in pOwn : Answers(h) => (h \in pOwn' /\ Answers(h)') \/ (g = NoGen /\ v = version)
  PROVE  Somewhere'
<1>. DEFINE e == [gen |-> g, version |-> v]
<1>0. e \in P!Payload /\ Len(wire) \in Nat
  BY GenFacts DEF P!Payload
<1>1. /\ Len(wire') = Len(wire) + 1
      /\ \A i \in 1 .. Len(wire) : wire'[i] = wire[i]
      /\ wire'[Len(wire')] = e
  BY <1>0, AppendFacts
<1>2. 1 .. Len(wire) \subseteq 1 .. Len(wire') /\ Len(wire') \in 1 .. Len(wire')
  BY <1>0, <1>1
<1>3. g = NoGen /\ v = version => OnWire'
  BY <1>1, <1>2 DEF OnWire
<1>4. OnWire => OnWire'
  <2>. SUFFICES ASSUME NEW i \in 1 .. Len(wire), wire[i].gen = NoGen, wire[i].version = version
                PROVE  OnWire'
    BY DEF OnWire
  <2>1. i \in 1 .. Len(wire') /\ wire'[i] = wire[i]
    BY <1>1, <1>2
  <2>. QED
    BY <2>1 DEF OnWire
<1>5. CASE applied = version
  BY <1>5 DEF Somewhere
<1>6. CASE OnWire
  BY <1>4, <1>6 DEF Somewhere
<1>7. CASE \E p \in Pushers : Pushing(p)
  BY <1>3, <1>7 DEF Somewhere
<1>8. CASE \E h \in pOwn : Answers(h)
  BY <1>3, <1>8 DEF Somewhere
<1>. QED
  BY <1>5, <1>6, <1>7, <1>8 DEF Somewhere

\* The emit to the room of the player.
LEMMA RoomSendsSomewhere ==
  ASSUME P!TypeOK, Somewhere, pLink = "joined", NEW v \in P!Version, P!EmitToRoom(v),
         applied' = applied, version' = version,
         \A p \in Pushers : Pushing(p) => Pushing(p)' \/ v = version,
         \A h \in pOwn : Answers(h) => h \in pOwn' /\ Answers(h)'
  PROVE  Somewhere'
<1>1. NoGen \in P!Gen /\ wire' = Append(wire, [gen |-> NoGen, version |-> v])
  BY DEF P!Gen, P!EmitToRoom
<1>. QED
  BY <1>1, SendsSomewhere

\* The player takes a payload: in order, it takes the playlist or leaves it where it was.
LEMMA ReceiveSomewhere ==
  ASSUME P!TypeOK, P!TypeOK', Delivery, P!Receive, Known, Growing, ~overtaken, Somewhere
  PROVE  Somewhere'
<1>0. /\ version \in Nat /\ applied \in Nat /\ Len(wire) \in Nat
      /\ \A i \in 1 .. Len(wire) : wire[i].version \in Nat
  BY VersionFacts
<1>1. /\ Len(wire) > 0 /\ Len(wire') = Len(wire) - 1
      /\ \A i \in 1 .. Len(wire') : /\ wire'[i].version = wire[i + 1].version
                                    /\ wire'[i].gen = NoGen <=> wire[i + 1].gen = NoGen
      /\ \A h \in Handlers : gen'[h] = NoGen <=> gen[h] = NoGen
      /\ \/ wire[1].gen = 0 /\ applied' = applied
         \/ wire[1].gen # 0 /\ applied' = wire[1].version
  BY ReceiveFacts
<1>2. UNCHANGED <<version, push, pHandler, pOwn, got>> /\ pOwn \subseteq Handlers
  BY DEF P!Receive, P!TypeOK
<1>3. 1 \in 1 .. Len(wire)
  BY <1>0, <1>1
<1>4. applied <= wire[1].version /\ wire[1].version <= version
  BY <1>3 DEF Known, Growing
<1>5. CASE applied = version
  BY <1>0, <1>1, <1>2, <1>3, <1>4, <1>5 DEF Somewhere
<1>6. CASE OnWire
  <2>1. PICK i \in 1 .. Len(wire) : wire[i].gen = NoGen /\ wire[i].version = version
    BY <1>6 DEF OnWire
  <2>2. CASE i = 1
    <3>1. NoGen # 0
      BY DEF Delivery, P!DeliveryAssumption
    <3>. QED
      BY <1>1, <1>2, <2>1, <2>2, <3>1 DEF Somewhere
  <2>3. CASE i # 1
    <3>1. i - 1 \in 1 .. Len(wire') /\ (i - 1) + 1 = i
      BY <1>0, <1>1, <2>3
    <3>2. wire'[i - 1].gen = NoGen /\ wire'[i - 1].version = version'
      BY <1>1, <1>2, <2>1, <3>1
    <3>. QED
      BY <3>1, <3>2 DEF Somewhere, OnWire
  <2>. QED
    BY <2>2, <2>3
<1>7. CASE \E p \in Pushers : Pushing(p)
  BY <1>2, <1>7 DEF Somewhere, Pushing
<1>8. CASE \E h \in pOwn : Answers(h)
  BY <1>1, <1>2, <1>8 DEF Somewhere, Answers
<1>. QED
  BY <1>5, <1>6, <1>7, <1>8 DEF Somewhere

\* The steps of the pushes, while the player is in its room.
LEMMA PushCovers ==
  ASSUME P!TypeOK, Delivery, Somewhere, pLink = "joined", NEW p \in Pushers,
         P!Publish(p) \/ P!Check(p) \/ P!BuildPush(p) \/ P!EmitPush(p)
  PROVE  Somewhere'
<1>0. DTyped /\ p \notin Handlers /\ got[p] \in P!Version
  BY TypeIs DEF DTyped, Delivery, P!DeliveryAssumption
<1>1. CASE P!Publish(p)
  BY <1>0, <1>1 DEF P!Publish, DTyped, Somewhere, Pushing
<1>2. CASE P!Check(p)
  <2>1. \A q \in Pushers : Pushing(q) => Pushing(q)'
    BY <1>0, <1>2 DEF P!Check, DTyped, Pushing
  <2>. QED
    BY <1>2, <2>1, StaysSomewhere DEF P!Check, P!client, Kept, Answers
<1>3. CASE P!BuildPush(p)
  BY <1>0, <1>3 DEF P!BuildPush, DTyped, Somewhere, Pushing
<1>4. CASE P!EmitPush(p)
  <2>1. \A q \in Pushers : Pushing(q) => Pushing(q)' \/ got[p] = version
    BY <1>0, <1>4 DEF P!EmitPush, DTyped, Pushing
  <2>2. \A h \in pOwn : Answers(h) => h \in pOwn' /\ Answers(h)'
    BY <1>0, <1>4 DEF P!EmitPush, DTyped, Answers
  <2>3. P!EmitToRoom(got[p]) /\ applied' = applied /\ version' = version
    BY <1>4 DEF P!EmitPush, P!client
  <2>. QED
    BY <1>0, <2>1, <2>2, <2>3, RoomSendsSomewhere
<1>. QED
  BY <1>1, <1>2, <1>3, <1>4

\* The steps of the register handlers that leave the player in its room.
LEMMA HandlerCovers ==
  ASSUME P!TypeOK, Delivery, pLink = "joined" => Somewhere, Joining, pLink' = "joined", NEW h \in Handlers,
         \/ P!Connect(h) \/ P!RequestRefresh(h) \/ Enters(h)
         \/ P!Build(h) \/ P!EmitFlush(h) \/ P!EmitAnswer(h) \/ P!BuildFails(h)
  PROVE  Somewhere'
<1>0. DTyped /\ h \notin Pushers /\ got[h] \in P!Version /\ gen[h] \in P!Gen
  BY TypeIs DEF DTyped, Delivery, P!DeliveryAssumption
<1>1. CASE P!Connect(h)
  BY <1>1 DEF P!Connect
<1>2. CASE P!RequestRefresh(h)
  <2>1. \A k \in pOwn : Answers(k) => k \in pOwn' /\ Answers(k)'
    BY <1>0, <1>2 DEF P!RequestRefresh, P!StartHandler, DTyped, Answers
  <2>. QED
    BY <1>2, <2>1, StaysSomewhere DEF P!RequestRefresh, Kept, Pushing
<1>3. CASE Enters(h)
  <2>1. \A k \in pOwn : pHandler[k] = "auth" /\ gen[k] = NoGen => k \in pOwn' /\ Answers(k)'
    BY <1>0, <1>3 DEF Enters, P!Accept, P!Reclaim, P!FlushReclaimed, P!TakeMarker, DTyped, Answers
  <2>2. \A k \in pOwn : Answers(k) => k \in pOwn' /\ Answers(k)'
    BY <1>0, <1>3 DEF Enters, P!Accept, P!Reclaim, P!FlushReclaimed, P!TakeMarker, DTyped, Answers
  <2>3. CASE pLink = "joined"
    BY <1>3, <2>2, <2>3, StaysSomewhere DEF Enters, P!Accept, P!Reclaim, P!FlushReclaimed, P!TakeMarker, P!client, Kept, Pushing
  <2>4. CASE pLink = "up"
    BY <2>1, <2>4 DEF Joining, Somewhere
  <2>5. pLink # "down"
    BY <1>0, <1>3 DEF Enters, P!Accept, P!Reclaim, P!FlushReclaimed, P!TakeMarker, DTyped
  <2>. QED
    BY <1>0, <2>3, <2>4, <2>5 DEF DTyped
<1>4. CASE P!Build(h)
  <2>1. \A k \in pOwn : Answers(k) => k \in pOwn' /\ Answers(k)'
    BY <1>0, <1>4 DEF P!Build, DTyped, Answers
  <2>2. \A p \in Pushers : Pushing(p) => Pushing(p)'
    BY <1>0, <1>4 DEF P!Build, DTyped, Pushing
  <2>. QED
    BY <1>4, <2>1, <2>2, StaysSomewhere DEF P!Build, P!client, Kept
<1>5. CASE P!EmitFlush(h)
  <2>1. \A k \in pOwn : Answers(k) => k \in pOwn' /\ Answers(k)'
    BY <1>0, <1>5 DEF P!EmitFlush, DTyped, Answers
  <2>2. P!EmitToRoom(got[h]) /\ UNCHANGED <<applied, version, push, got, pLink>>
    BY <1>5 DEF P!EmitFlush, P!client
  <2>. QED
    BY <1>0, <2>1, <2>2, RoomSendsSomewhere DEF Pushing
<1>6. CASE P!EmitAnswer(h)
  <2>1. \A p \in Pushers : Pushing(p) => Pushing(p)'
    BY <1>0, <1>6 DEF P!EmitAnswer, P!Done, DTyped, Pushing
  <2>2. \A k \in pOwn : k # h => (Answers(k) => k \in pOwn' /\ Answers(k)')
    BY <1>0, <1>6 DEF P!EmitAnswer, P!Done, DTyped, Answers
  <2>3. Answers(h) => gen[h] = NoGen /\ got[h] = version
    BY <1>6 DEF P!EmitAnswer, Answers
  <2>4. Somewhere /\ applied' = applied /\ version' = version
    BY <1>6 DEF P!EmitAnswer, P!client
  <2>5. CASE h \in pOwn
    <3>1. wire' = Append(wire, [gen |-> gen[h], version |-> got[h]])
      BY <1>6, <2>5 DEF P!EmitAnswer
    <3>2. \A k \in pOwn : Answers(k) => (k \in pOwn' /\ Answers(k)') \/ (gen[h] = NoGen /\ got[h] = version)
      BY <2>2, <2>3
    <3>. QED
      BY <1>0, <2>1, <2>4, <3>1, <3>2, SendsSomewhere
  <2>6. CASE h \notin pOwn
    <3>1. Kept
      BY <1>6, <2>6 DEF P!EmitAnswer, P!client, Kept
    <3>. QED
      BY <2>1, <2>2, <2>4, <2>6, <3>1, StaysSomewhere
  <2>. QED
    BY <2>5, <2>6
<1>7. CASE P!BuildFails(h)
  <2>1. h \notin pOwn
    BY <1>7 DEF P!BuildFails, P!Cut
  <2>2. pOwn' = pOwn /\ pLink = "joined" /\ Kept /\ version' = version /\ push' = push
    BY <1>7, <2>1 DEF P!BuildFails, Kept
  <2>3. \A p \in Pushers : Pushing(p) => Pushing(p)'
    BY <1>0, <1>7 DEF P!BuildFails, P!Done, DTyped, Pushing
  <2>4. \A k \in pOwn : Answers(k) => k \in pOwn' /\ Answers(k)'
    BY <1>0, <1>7, <2>1, <2>2 DEF P!BuildFails, P!Done, DTyped, Answers
  <2>. QED
    BY <2>2, <2>3, <2>4, StaysSomewhere
<1>. QED
  BY <1>1, <1>2, <1>3, <1>4, <1>5, <1>6, <1>7

LEMMA CoveredKept ==
  ASSUME P!TypeOK, P!TypeOK', Delivery, [P!QuietNext]_(P!qvars), QInv
  PROVE  Covered'
<1>. SUFFICES ASSUME pLink' = "joined", ~overtaken'
              PROVE  Somewhere'
  BY DEF Covered
<1>0. [P!Next]_(P!vars) /\ ~overtaken
  BY QuietStep
<1>1. pLink = "joined" => Somewhere
  BY <1>0 DEF QInv, Covered
<1>2. CASE UNCHANGED P!vars
  BY <1>1, <1>2, StaysSomewhere DEF P!vars, P!server, P!client, Kept, Pushing, Answers
<1>3. CASE P!Drop
  BY <1>3 DEF P!Drop, P!Cut
<1>4. CASE P!RefreshTimesOut
  BY <1>1, <1>4, StaysSomewhere DEF P!RefreshTimesOut, P!server, Kept, Pushing, Answers
<1>5. CASE P!MarkerExpires
  BY <1>1, <1>5, StaysSomewhere DEF P!MarkerExpires, P!client, Kept, Pushing, Answers
<1>6. CASE P!Receive
  <2>1. pLink = "joined"
    BY <1>6 DEF P!Receive
  <2>. QED
    BY <1>0, <1>1, <1>6, <2>1, ReceiveSomewhere DEF QInv
<1>7. ASSUME NEW p \in Pushers, P!Publish(p) \/ P!Check(p) \/ P!BuildPush(p) \/ P!EmitPush(p)
      PROVE  Somewhere'
  <2>1. pLink = "joined"
    BY <1>7 DEF P!Publish, P!Check, P!BuildPush, P!EmitPush
  <2>. QED
    BY <1>1, <1>7, <2>1, PushCovers
<1>8. ASSUME NEW p \in Pushers, P!PushFails(p)
      PROVE  Somewhere'
  BY <1>8 DEF P!PushFails, P!Cut
<1>9. ASSUME NEW h \in Handlers,
             \/ P!Connect(h) \/ P!RequestRefresh(h) \/ Enters(h)
             \/ P!Build(h) \/ P!EmitFlush(h) \/ P!EmitAnswer(h) \/ P!BuildFails(h)
      PROVE  Somewhere'
  BY <1>1, <1>9, HandlerCovers DEF QInv
<1>. QED
  BY <1>0, <1>2, <1>3, <1>4, <1>5, <1>6, <1>7, <1>8, <1>9 DEF P!Next, Enters

LEMMA StepQInv ==
  ASSUME Delivery, DInv, QInv, [P!QuietNext]_(P!qvars)
  PROVE  DInv' /\ QInv'
<1>1. [P!Next]_(P!vars) /\ P!TypeOK
  BY QuietStep DEF DInv
<1>2. DInv' /\ P!TypeOK'
  BY <1>1, StepDInv DEF DInv
<1>3. Known' /\ Growing' /\ Joining' /\ Covered'
  BY <1>1, <1>2, KnownKept, GrowingKept, JoiningKept, CoveredKept DEF QInv
<1>. QED
  BY <1>2, <1>3 DEF QInv

\* At rest nothing is on the wire, nobody pushes and no handler of the connection is at work, so
\* that the playlist can only be with the player.
LEMMA RestMeansCurrent == P!TypeOK /\ QInv => P!QuietMeansCurrent
<1>. SUFFICES ASSUME P!TypeOK, QInv, P!AtRest, ~overtaken PROVE applied = version
  BY DEF P!QuietMeansCurrent
<1>1. Somewhere
  BY DEF QInv, Covered, P!AtRest
<1>2. Len(wire) = 0
  BY EmptySeq DEF P!AtRest
<1>3. ~OnWire
  BY <1>2 DEF OnWire
<1>. QED
  BY <1>1, <1>3 DEF Somewhere, P!AtRest, Pushing

\* Every variable keeps its type, and without a connection nothing is on the wire, no handler
\* is the connection's and no refresh is awaited: for any number of handlers and pushes
\* (server/lib/command-queue.js, server/ws/deviceSocket.js, WebSocketService.kt).
THEOREM DeliveryTypes == Delivery => (P!Spec => []P!TypeOK)
<1>. SUFFICES ASSUME Delivery PROVE P!Spec => []P!TypeOK
  OBVIOUS
<1>1. P!Init => DInv
  BY InitDInv
<1>2. DInv /\ [P!Next]_(P!vars) => DInv'
  BY StepDInv
<1>3. DInv => P!TypeOK
  BY DEF DInv
<1>. QED
  BY <1>1, <1>2, <1>3, PTL DEF P!Spec

\* While the player waits for a refresh, an answer that it will not drop as stale is on its way,
\* for any number of requests that timed out, failed or overlap
\* (requestPlaylistRefresh and the generation guard of WebSocketService.kt).
THEOREM RefreshIsAnswered == Delivery => (P!QuietSpec => []P!RefreshAnswered)
<1>. SUFFICES ASSUME Delivery PROVE P!QuietSpec => []P!RefreshAnswered
  OBVIOUS
<1>1. P!QuietInit => DInv
  BY InitDInv DEF P!QuietInit
<1>2. DInv /\ [P!QuietNext]_(P!qvars) => DInv'
  BY QuietStep, StepDInv DEF DInv
<1>3. DInv => P!RefreshAnswered
  BY DEF DInv
<1>. QED
  BY <1>1, <1>2, <1>3, PTL DEF P!QuietSpec

\* A player in its room that nothing is under way to plays the published playlist, unless a
\* payload went out behind a later version: for any number of pushes and register handlers
\* that overlap, fail, or outlive their socket (queueOrEmitPlaylistUpdate, flushQueue and
\* 'device:register').
THEOREM QuietIsCurrent == Delivery => (P!QuietSpec => []P!QuietMeansCurrent)
<1>. SUFFICES ASSUME Delivery PROVE P!QuietSpec => []P!QuietMeansCurrent
  OBVIOUS
<1>1. P!QuietInit => DInv /\ QInv
  BY InitDInv, InitQInv DEF P!QuietInit
<1>2. DInv /\ QInv /\ [P!QuietNext]_(P!qvars) => (DInv /\ QInv)'
  BY StepQInv
<1>3. DInv /\ QInv => P!QuietMeansCurrent
  BY RestMeansCurrent DEF DInv
<1>. QED
  BY <1>1, <1>2, <1>3, PTL DEF P!QuietSpec

=============================================================================
