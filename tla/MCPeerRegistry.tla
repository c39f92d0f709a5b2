--------------------------- MODULE MCPeerRegistry ----------------------------
(* PeerRegistry on small instances: two machines that claim the same id, one *)
(* of which changes its key, and its key and its address at once.            *)
EXTENDS PeerRegistry, TLC

CONSTANTS t1, t2, m1, Ann, Bob,
          Parts  \* which of "any" and "udp" the run covers

Frame(uuid, pk, ip) == [uuid |-> uuid, pk |-> pk, ip |-> ip]

OneMachine == {Frame(Ann, "a", 1)}
TwoMachines == {Frame(Ann, "a", 1), Frame(Bob, "b", 1)}
NewKeys == {Frame(Ann, "a", 1), Frame(Ann, "c", 1), Frame(Ann, "d", 2), Frame(Bob, "b", 1)}
AnyTask == Permutations(Tasks)

VARIABLE part
registryVars == <<vars, part>>

\* Registrations that arrive over UDP, of machines that change their keys; nothing fails but
\* the server.
Udp == INSTANCE PeerRegistry WITH Requests <- NewKeys, Faults <- {"restart"}

\* A behaviour is one of Spec, or one of UdpSpec.
RegistryInit == Init /\ part \in Parts

RegistryNext ==
  \/ part = "any" /\ Next /\ UNCHANGED part
  \/ part = "udp" /\ Udp!Next /\ Udp!OneWriter' /\ UNCHANGED part

RegistrySpec == RegistryInit /\ [][RegistryNext]_registryVars

\* IInv and AckedIsListed are promised of registrations over UDP (register_pk_core, awaited
\* by io_loop).
UdpInv == part = "udp" => Udp!IInv
UdpAckedIsListed == part = "udp" => Udp!AckedIsListed
=============================================================================
