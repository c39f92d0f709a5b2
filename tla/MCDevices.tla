------------------------------ MODULE MCDevices ------------------------------
(* What a device gets from hbbs, on small instances: its key and the id the  *)
(* key is bound to, the policy it polls and the gates it passes, the         *)
(* channel it is reached on, and the limits on its address.  Each behaviour  *)
(* moves one of the four, `part'; the others stay in one initial state.      *)
EXTENDS DeviceKeys, Policy, Channels, Limits, TLC

CONSTANTS k1, k2, p1, p2, bad, r1,
          mine, other, pol1, key, key2,
          c1, c2, i1, i2,
          a1, id1, id2, id3, pair1, pair2

VARIABLE part
deviceVars == <<keysVars, policyVars, channelVars, limitVars, part>>

\* One of the two machines does not hold the second key.
MCHolds == (Keys \X Peers) \ {<<k2, p2>>}
NoOptions == [override |-> FALSE, outbound |-> Unset, targets |-> {}, secret |-> FALSE]
SomeOptions == [override |-> TRUE, outbound |-> "Y", targets |-> {{}}, secret |-> TRUE]
MCPolicies == {NoOptions, SomeOptions}
Account(e, a, n, o) == [enabled |-> e, admin |-> a, name |-> n, own |-> o, targets |-> {other}]
MCAccounts == {Account(TRUE, FALSE, pol1, NoOptions), Account(TRUE, FALSE, NoPolicy, SomeOptions),
               Account(TRUE, TRUE, NoPolicy, NoOptions), Account(FALSE, FALSE, pol1, NoOptions)}
Alike == Permutations(Conns) \cup Permutations(Ids)

DevicesInit ==
  /\ part \in {"keys", "policy", "channels", "limits"}
  /\ KeysInit /\ (part # "keys" => claiming)
  /\ PolicyInit
  /\ part # "policy" =>
       /\ global = NoOptions /\ inline = NoOptions /\ blocked = {} /\ assigned = NoPolicy
       /\ named = [n \in PolicyNames |-> NoPolicy]
       /\ account = Account(FALSE, FALSE, pol1, NoOptions) /\ endpoints = {} /\ strip
  /\ ChannelInit
  /\ part # "channels" => mode = "require" /\ require /\ pinned = {}
  /\ LimitsInit

DevicesNext ==
  \/ part = "keys" /\ KeysNext /\ UNCHANGED <<policyVars, channelVars, limitVars, part>>
  \/ part = "policy" /\ PolicyNext /\ UNCHANGED <<keysVars, channelVars, limitVars, part>>
  \/ part = "channels" /\ ChannelNext /\ UNCHANGED <<keysVars, policyVars, limitVars, part>>
  \/ part = "limits" /\ LimitsNext /\ UNCHANGED <<keysVars, policyVars, channelVars, part>>

DevicesSpec == DevicesInit /\ [][DevicesNext]_deviceVars
=============================================================================
