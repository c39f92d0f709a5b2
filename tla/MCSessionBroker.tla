--------------------------- MODULE MCSessionBroker ---------------------------
(* SessionBroker on small instances: one controller and two targets, with    *)
(* one of which it shares an intranet; or two controllers that ask for the   *)
(* same registered target until the first entries expire.                    *)
EXTENDS SessionBroker

CONSTANTS c1, c2, t1, t2

VARIABLE part

MCSameIntranet == {<<c1, t2>>}

MCInit ==
  /\ part \in {"alone", "both"}
  /\ Init /\ task[c1].target = t1
  /\ part = "both" => peer = [t \in Targets |-> "stored"]

\* What may move: all but the second controller; or all but the second target, the policy and,
\* once it has registered, the target that both ask for, one of them with a RequestRelay.
Moves ==
  /\ part' = part
  /\ part = "alone" => UNCHANGED <<task[c2], sink[c2]>>
  /\ part = "both" =>
       /\ task'[c1].target = t1 /\ task'[c2].target = t1
       /\ task'[c2].kind = "relay" \/ task'[c2].at \in {"ready", "closed"}
       /\ blocked' = {} /\ peer' = [peer EXCEPT ![t1] = "online"] /\ forward'[t2] = {}

MCNext == Next /\ Moves

MCFairness ==
  /\ \A c \in Controllers : WF_vars(ControllerStep(c) /\ Moves) /\ WF_vars(Close(c) /\ Moves)
  /\ \A t \in Targets : WF_vars(ForwardResponse(t) /\ Moves)

MCSpec == MCInit /\ [][MCNext]_<<vars, part>> /\ MCFairness
=============================================================================
