-------------------------------- MODULE Policy --------------------------------
(***************************************************************************)
(* What hbbs tells a machine it may do, and what it lets it do: the        *)
(* settings poll (client_policy) and the gates of a connection, with the   *)
(* policies the operator edits meanwhile (nemo_management.rs,              *)
(* nemo_integration.rs).  One machine polls and connects.                  *)
(*                                                                         *)
(* A poll and a gate read the registry, the sessions, the configuration    *)
(* and the endpoints under a lock each, so the operator's edits fall in    *)
(* between.                                                                *)
(***************************************************************************)
EXTENDS Naturals

CONSTANTS Self,       \* the machine
          OtherPeers,
          PolicyNames,
          Policies,   \* bound: option sets an operator writes, see Options
          Empty,      \* the one that sets nothing
          NoPolicy,
          Accounts,   \* bound: allowlist entries an operator writes, see AccountEntries
          DevKey, OtherKey, NoProof,
          MaxEdits    \* bound: edits during one poll or gate

Machines == {Self} \cup OtherPeers
Unset == "unset"

\* The options the properties depend on; targets has the set of targets if there is one.
Options == [override : BOOLEAN, outbound : {Unset, "Y", "N"},
            targets : {{}} \cup {{t} : t \in SUBSET Machines}, secret : BOOLEAN]

\* name: the policy it names; own: the one it carries; targets: allowed_targets.
AccountEntries == [enabled : BOOLEAN, admin : BOOLEAN, name : PolicyNames \cup {NoPolicy},
                   own : Policies, targets : SUBSET Machines]

ASSUME PolicyAssumption ==
  /\ MaxEdits \in Nat /\ Empty \in Policies /\ NoPolicy \notin Policies
  /\ Policies \subseteq Options /\ Accounts \subseteq AccountEntries

VARIABLES
  global,    \* GLOBAL_POLICY
  inline,    \* the machine's row: management_policy
  blocked,   \* peers whose row has status 0
  named,     \* policies
  assigned,  \* device_policies, of this machine
  account,   \* the allowlist entry of the user whose session the machine holds
  endpoints, \* PEER_ENDPOINTS: the peers that have one
  strip,     \* strip_unsealed_secrets
  poll,      \* the poll, and what its answer has collected
  gate,      \* the gates of a connection
  edits      \* bound: edits since the poll or the gate began

policyVars == <<global, inline, blocked, named, assigned, account, endpoints, strip, poll, gate, edits>>
policyConfig == <<global, inline, blocked, named, assigned, account, endpoints, strip>>

\* proof: the device key the poll has proved; bound: the one the session is bound to;
\* row: status of the row it has read.
NoPoll == [at |-> "idle", proof |-> NoProof, bound |-> NoProof, row |-> FALSE, user |-> FALSE,
           opts |-> Empty, known |-> {}, seals |-> FALSE, strips |-> FALSE, sent |-> "nothing"]
NoGate == [at |-> "idle", proved |-> NoPolicy, claimed |-> NoPolicy, target |-> Self]

PolicyInit ==
  /\ global \in Policies /\ inline \in Policies
  /\ blocked \in SUBSET Machines
  /\ named \in [PolicyNames -> Policies \cup {NoPolicy}]
  /\ assigned \in {NoPolicy} \cup {n \in PolicyNames : named[n] # NoPolicy}
  /\ account \in Accounts
  /\ endpoints \in SUBSET OtherPeers
  /\ strip \in BOOLEAN
  /\ poll = NoPoll /\ gate = NoGate /\ edits = 0

\* options.extend: what q sets wins.
Extend(p, q) ==
  [override |-> p.override \/ q.override,
   outbound |-> IF q.outbound = Unset THEN p.outbound ELSE q.outbound,
   targets |-> IF q.targets = {} THEN p.targets ELSE q.targets,
   secret |-> p.secret \/ q.secret]

-----------------------------------------------------------------------------
(* client_policy                                                           *)

PollStep(rec) == poll' = rec /\ UNCHANGED <<policyConfig, gate, edits>>

\* The row of the machine, whose uuid the request has, and the proof of its device key.
PollBegins(proof, bound) ==
  /\ poll.at = "idle" /\ gate.at = "idle"
  /\ poll' = [NoPoll EXCEPT !.at = "row", !.proof = proof, !.bound = bound,
                            !.row = Self \in blocked, !.opts = inline]
  /\ UNCHANGED <<policyConfig, gate, edits>>

\* Is there a user, enabled, whose session this machine may spend?
PollUser ==
  /\ poll.at = "row"
  /\ \E session \in BOOLEAN :
       PollStep([poll EXCEPT !.at = "user",
         !.user = session /\ account.enabled /\ poll.bound \in {NoProof, poll.proof}])

\* user_policy: that of the administrators; the named policy of the account, or its own; or
\* the default one, which takes the place of a policy without options.  The first and the
\* last are whichever an operator has set.
UserPolicies ==
  IF account.admin THEN {[p EXCEPT !.override = TRUE] : p \in Policies}
  ELSE IF account.name # NoPolicy /\ named[account.name] # NoPolicy THEN {named[account.name]}
  ELSE {account.own} \cup
       {p \in {named[n] : n \in PolicyNames} \ {NoPolicy} :
          account.own \in {[Empty EXCEPT !.override = b] : b \in BOOLEAN}}

\* device_policy.
DevicePolicy == IF assigned = NoPolicy THEN Empty ELSE named[assigned]

\* The user's policy replaces the device's; both come over the global one.
PollPolicy ==
  /\ poll.at = "user"
  /\ \/ /\ poll.user
        /\ \E policy \in UserPolicies :
             PollStep([poll EXCEPT !.at = "policy", !.opts = Extend(global, policy)])
     \/ /\ ~poll.user
        /\ PollStep([poll EXCEPT !.at = "policy",
                     !.opts = Extend(Extend(global, poll.opts), DevicePolicy)])

\* Mutant: a block gives way to the policies.
PollEndpoints_RowFirst(fails) ==
  /\ poll.at = "policy"
  /\ PollStep([poll EXCEPT !.at = "ready",
       !.opts.outbound = IF poll.row /\ @ = Unset THEN "N" ELSE @])

\* list_blocked_ids, empty if the database fails; then direct_endpoint_map.
PollEndpoints(fails) ==
  LET withheld == IF fails THEN {} ELSE blocked
      may(p) == \A t \in poll.opts.targets : p \in t
  IN /\ poll.at = "policy"
     /\ PollStep([poll EXCEPT !.at = "ready",
          !.known = {p \in endpoints : p \notin withheld /\ may(p)},
          !.opts = [poll.opts EXCEPT
            !.outbound = IF poll.row THEN "N" ELSE @,
            !.override = @ /\ ~poll.row]])

\* Sealed if the machine has proved its key and can unseal.
PollSeal(canUnseal) ==
  LET seals == poll.proof # NoProof /\ canUnseal IN
  /\ poll.at = "ready"
  /\ PollStep([poll EXCEPT !.at = "built", !.seals = seals, !.strips = ~seals /\ strip,
                           !.opts.secret = @ /\ ~(~seals /\ strip)])

\* The answer; one that cannot be sealed is not sent.
PollAnswers(sealed) ==
  /\ poll.at = "built"
  /\ PollStep([poll EXCEPT !.at = "answered",
       !.sent = IF ~poll.seals THEN "clear" ELSE IF sealed THEN "sealed" ELSE "nothing"])

PollOver ==
  /\ poll.at = "answered"
  /\ poll' = NoPoll /\ edits' = 0
  /\ UNCHANGED <<policyConfig, gate>>

-----------------------------------------------------------------------------
(* The gates of a connection.                                              *)

GateStep(rec) == gate' = rec /\ UNCHANGED <<policyConfig, poll, edits>>

\* What the connection has proved at its handshake, and what its frame claims; NoPolicy
\* stands for no identity.
GateBegins(proved, claimed, target) ==
  /\ gate.at = "idle" /\ poll.at = "idle"
  /\ gate' = [at |-> "named", proved |-> proved, claimed |-> claimed, target |-> target]
  /\ UNCHANGED <<policyConfig, poll, edits>>

RefuseRequest == GateStep([gate EXCEPT !.at = "refused"])

\* resolve_controller_identity.
Named == IF gate.proved # NoPolicy THEN gate.proved ELSE gate.claimed
IdentityRefused ==
  \/ Named = NoPolicy
  \/ gate.proved # NoPolicy /\ gate.claimed # NoPolicy /\ gate.claimed # gate.proved
GateIdentity ==
  /\ gate.at = "named"
  /\ IF IdentityRefused THEN RefuseRequest ELSE GateStep([gate EXCEPT !.at = "identified"])

\* controller_policy_rejection: the row of the controller, if the database has it and
\* its uuid is the one that came with the claim.
RowRefuses(found, sameUuid) ==
  \/ ~found
  \/ gate.claimed # NoPolicy /\ ~sameUuid
  \/ Named \in blocked
  \/ Named = Self /\ inline.outbound = "N"
  \/ Named = Self /\ \E t \in inline.targets : gate.target \notin t
GateRow(found, sameUuid) ==
  /\ gate.at = "identified"
  /\ IF RowRefuses(found, sameUuid) THEN RefuseRequest ELSE GateStep([gate EXCEPT !.at = "user"])

\* nemo_user_connection_rejection for a token of the account, or none.
UserRefuses(token, bound, required) ==
  IF token /\ account.enabled
    THEN bound \notin {NoProof, DevKey} \/ ~(account.admin \/ gate.target \in account.targets)
    ELSE required
GateUser(token, bound, required) ==
  /\ gate.at = "user"
  /\ IF UserRefuses(token, bound, required) THEN RefuseRequest ELSE GateStep([gate EXCEPT !.at = "passed"])

GateOver ==
  /\ gate.at \in {"passed", "refused"}
  /\ gate' = NoGate /\ edits' = 0
  /\ UNCHANGED <<policyConfig, poll>>

-----------------------------------------------------------------------------
(* The operator.                                                           *)

\* Bound: while nothing is under way nothing is edited; every configuration is initial.
Edit ==
  /\ poll.at # "idle" \/ gate.at # "idle"
  /\ edits < MaxEdits /\ edits' = edits + 1
  /\ UNCHANGED <<poll, gate>>

\* put_global_policy; update_peer_management_policy.
SetGlobal(p) ==
  /\ Edit /\ global' = p
  /\ UNCHANGED <<inline, blocked, named, assigned, account, endpoints, strip>>
SetInline(p) ==
  /\ Edit /\ inline' = p
  /\ UNCHANGED <<global, blocked, named, assigned, account, endpoints, strip>>

\* set_peer_status.
SetBlocked(p, on) ==
  /\ Edit /\ blocked' = IF on THEN blocked \cup {p} ELSE blocked \ {p}
  /\ UNCHANGED <<global, inline, named, assigned, account, endpoints, strip>>

\* set_policies, which clears the assignment of a policy that is gone.
SetPolicies(n, p) ==
  /\ Edit /\ named' = [named EXCEPT ![n] = p]
  /\ assigned' = IF assigned # NoPolicy /\ named'[assigned] = NoPolicy THEN NoPolicy ELSE assigned
  /\ UNCHANGED <<global, inline, blocked, account, endpoints, strip>>

\* set_device_policy: a name that does not exist clears it.
SetDevicePolicy(n) ==
  /\ Edit
  /\ assigned' = IF n # NoPolicy /\ named[n] # NoPolicy THEN n ELSE NoPolicy
  /\ UNCHANGED <<global, inline, blocked, named, account, endpoints, strip>>

\* The allowlist, as far as policies and gates read it (see Logins).
SetAccount(a) ==
  /\ Edit /\ account' = a
  /\ UNCHANGED <<global, inline, blocked, named, assigned, endpoints, strip>>

\* set_peer_endpoint.
SetEndpoint(p, on) ==
  /\ Edit /\ endpoints' = IF on THEN endpoints \cup {p} ELSE endpoints \ {p}
  /\ UNCHANGED <<global, inline, blocked, named, assigned, account, strip>>

SetStrip(on) ==
  /\ Edit /\ strip' = on
  /\ UNCHANGED <<global, inline, blocked, named, assigned, account, endpoints>>

OperatorEdits ==
  \/ \E p \in Policies : SetGlobal(p) \/ SetInline(p)
  \/ \E p \in Machines, on \in BOOLEAN : SetBlocked(p, on) \/ SetEndpoint(p, on)
  \/ \E n \in PolicyNames, p \in Policies \cup {NoPolicy} : SetPolicies(n, p)
  \/ \E n \in PolicyNames \cup {NoPolicy} : SetDevicePolicy(n)
  \/ \E a \in Accounts : SetAccount(a)
  \/ \E on \in BOOLEAN : SetStrip(on)

Poll ==
  \/ \E proof, bound \in {DevKey, NoProof} : PollBegins(proof, bound)
  \/ PollUser \/ PollPolicy \/ PollOver
  \/ \E b \in BOOLEAN : PollEndpoints(b) \/ PollSeal(b) \/ PollAnswers(b)

Gate ==
  \/ \E proved, claimed \in {Self, NoPolicy} \cup OtherPeers, target \in OtherPeers :
       GateBegins(proved, claimed, target)
  \/ GateIdentity
  \/ \E found, sameUuid \in BOOLEAN : GateRow(found, sameUuid)
  \/ \E token, required \in BOOLEAN, bound \in {NoProof, DevKey, OtherKey} :
       GateUser(token, bound, required)
  \/ GateOver

PolicyNext == OperatorEdits \/ Poll \/ Gate

PolicySpec == PolicyInit /\ [][PolicyNext]_policyVars

-----------------------------------------------------------------------------
(* Properties.                                                             *)

\* Every variable holds what its code counterpart can hold; an assigned policy exists
\* (set_policies prunes, set_device_policy checks).
PolicyTypeOK ==
  /\ global \in Policies /\ inline \in Policies
  /\ blocked \subseteq Machines /\ endpoints \subseteq Machines
  /\ named \in [PolicyNames -> Policies \cup {NoPolicy}]
  /\ assigned \in PolicyNames \cup {NoPolicy}
  /\ assigned # NoPolicy => named[assigned] # NoPolicy
  /\ account \in Accounts /\ strip \in BOOLEAN
  /\ poll.at \in {"idle", "row", "user", "policy", "ready", "built", "answered"}
  /\ gate.at \in {"idle", "named", "identified", "user", "passed", "refused"}
  /\ edits \in 0..MaxEdits

\* "a response that will NOT be sealed must not carry secrets once the operator turns
\* stripping on" (client_policy): also where it was to be sealed and could not be.
SecretsAreSealed ==
  poll.sent = "clear" /\ poll.opts.secret => ~poll.strips /\ ~poll.seals

\* "Blocked peers also receive nemo-outbound-enabled=N as an authoritative management
\* option" (docs/nemo-management-api.md): whatever policies lie over each other, the
\* machine may neither connect nor override it.
BlockedIsLockedOut ==
  poll.sent # "nothing" /\ poll.row => poll.opts.outbound = "N" /\ ~poll.opts.override

\* A connection passes under the identity it has proved, or else claimed, and never under
\* two (SEC-11); and not against the row of the controller, but for a row that was changed
\* after it was read (controller_policy_rejection).
PassedIsAllowed ==
  gate.at = "passed" =>
    /\ Named # NoPolicy /\ gate.claimed \in {NoPolicy, Named}
    /\ edits = 0 => /\ Named \notin blocked
                    /\ Named = Self => /\ inline.outbound # "N"
                                       /\ \A t \in inline.targets : gate.target \in t

\* Types, what is sent and what passes together (client_policy).
PolicyInv == PolicyTypeOK /\ SecretsAreSealed /\ BlockedIsLockedOut /\ PassedIsAllowed
=============================================================================
