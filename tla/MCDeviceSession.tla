-------------------------- MODULE MCDeviceSession --------------------------
(* Instances of DeviceSession for TLC. *)
EXTENDS DeviceSession, TLC

\* Every socket belongs to the one device.
OneDevice == [s \in Sockets |-> CHOOSE d \in Devices : TRUE]

\* Sockets of one device and of the same kind are interchangeable.
SocketSymmetry ==
    {p \in Permutations(Sockets) :
        \A s \in Sockets : Owner[p[s]] = Owner[s] /\ (p[s] \in Reinstalled <=> s \in Reinstalled)}
=============================================================================
