------------------------------ MODULE MCServices -----------------------------
(* What the servers keep running behind the sessions, on small instances:    *)
(* revocations, relay usage, the signing key, the configuration file and the *)
(* list of relay servers; and a whole session over the key that signs it.    *)
(* Each behaviour moves one of them, `part'; the others stay in one initial  *)
(* state.                                                                    *)
EXTENDS Revocation, RelayUsage, RelayedSession, ConfigFile, RelayServers

CONSTANTS con1, con2, tgt1, rev1, rev2,
          ses1, ses2, mac1, mac2,
          kp1, kp2, kp3, hbbs1, hbbs2, hbbr1, rot1, rot2,
          cfgA, cfgB,
          s1, s2, k1, k2,
          sock1, sock2

VARIABLE part
serviceVars == <<revocationVars, usageVars, sessionVars, configFileVars, relayServerVars, part>>

MCBroker == [v \in Viewers |-> hbbs1]
MCRelay == [c \in Sockets |-> hbbr1]

\* Keys are alike: each behaviour generates kp1 first and kp3 last.
KeysInOrder == (kp2 \in minted' => kp1 \in minted') /\ (kp3 \in minted' => kp2 \in minted')

\* So are the ends of relayed sessions, and the sessions: ses1 is relayed first, and mac1 is
\* the first target.
SessionsInOrder ==
  /\ relay'[ses2] # "none" => relay'[ses1] # "none"
  /\ (\E s \in Sessions, e \in Ends : ends'[s][e] = mac2) => \E s \in Sessions : ends'[s]["target"] = mac1

\* The session has one process of each kind and one rotation of its key.
SessionBound == proc'[hbbs2] = Down /\ rotation'[rot2] = NoRotation /\ kp3 \notin minted'
                /\ second' = second

ServicesInit ==
  /\ part \in {"revocation", "usage", "key", "session", "config", "servers"}
  /\ RevocationInit /\ RelayUsageInit
  /\ SessionInit /\ (part # "key" => second = 1)
  /\ sk = NoFile \/ (part \in {"key", "session"} /\ sk = kp1)
  /\ ConfigInit /\ (part # "config" => file = Absent)
  /\ RelayServersInit /\ (part # "servers" => configured = {} /\ up = {})

ServicesNext ==
  \/ /\ part = "revocation" /\ RevocationNext
     /\ UNCHANGED <<usageVars, sessionVars, configFileVars, relayServerVars, part>>
  \/ /\ part = "usage" /\ RelayUsageNext /\ SessionsInOrder
     /\ UNCHANGED <<revocationVars, sessionVars, configFileVars, relayServerVars, part>>
  \/ /\ part = "key" /\ KeyNext /\ KeysInOrder
     /\ UNCHANGED <<revocationVars, usageVars, time, brokerVars, relayVars>>
     /\ UNCHANGED <<configFileVars, relayServerVars, part>>
  \/ /\ part = "session" /\ SessionNext /\ SessionBound /\ KeysInOrder
     /\ UNCHANGED <<revocationVars, usageVars, configFileVars, relayServerVars, part>>
  \/ /\ part = "config" /\ ConfigNext
     /\ UNCHANGED <<revocationVars, usageVars, sessionVars, relayServerVars, part>>
  \/ /\ part = "servers" /\ RelayServersNext
     /\ UNCHANGED <<revocationVars, usageVars, sessionVars, configFileVars, part>>

ServicesSpec == ServicesInit /\ [][ServicesNext]_serviceVars /\ RelayServersFairness
=============================================================================
