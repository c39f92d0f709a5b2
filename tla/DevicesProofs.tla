---------------------------- MODULE DevicesProofs -----------------------------
(***************************************************************************)
(* Proofs about what hbbs decides for a device: the policy it is given and *)
(* the gates it passes (Policy), what a push to its connection reaches     *)
(* (Channels), and how often its address may register (Limits), for any    *)
(* number of machines, connections and addresses, and any limits.          *)
(***************************************************************************)
EXTENDS Policy, Channels, Limits, SequenceTheorems, FiniteSetTheorems, TLAPS

-----------------------------------------------------------------------------
(* The policy of a machine.                                                *)

Answers == [at : {"idle", "row", "user", "policy", "ready", "built", "answered"},
            proof : {DevKey, NoProof}, bound : {DevKey, NoProof}, row : BOOLEAN, user : BOOLEAN,
            opts : Options, known : SUBSET Machines, seals : BOOLEAN, strips : BOOLEAN,
            sent : {"nothing", "clear", "sealed"}]
Gates == [at : {"idle", "named", "identified", "user", "passed", "refused"},
          proved : Machines \cup {NoPolicy}, claimed : Machines \cup {NoPolicy}, target : Machines]

\* What the poll and the gate under way have collected has its type.
UnderWay == poll \in Answers /\ gate \in Gates

\* The configuration has its types.
ConfigurationOK ==
  /\ global \in Policies /\ inline \in Policies
  /\ blocked \subseteq Machines /\ endpoints \subseteq Machines
  /\ named \in [PolicyNames -> Policies \cup {NoPolicy}]
  /\ assigned \in PolicyNames \cup {NoPolicy}
  /\ assigned # NoPolicy => assigned \in PolicyNames /\ named[assigned] # NoPolicy
  /\ account \in Accounts /\ strip \in BOOLEAN
  /\ edits \in 0..MaxEdits

\* From the step that lays the block over the policies on, the answer of a blocked machine
\* carries it.
BlockIsLaid ==
  poll.at \in {"ready", "built", "answered"} /\ poll.row =>
    poll.opts.outbound = "N" /\ ~poll.opts.override

\* From the step that decides on sealing on, an answer that is stripped has no secret, and
\* one that goes out in the clear was not to be sealed.
StripIsDone ==
  /\ poll.at \in {"built", "answered"} => (poll.strips => ~poll.opts.secret /\ ~poll.seals)
  /\ poll.sent # "nothing" => poll.at = "answered"
  /\ poll.sent = "clear" => ~poll.seals

\* The gates a connection has passed so far have found what PassedIsAllowed says.
GatesSoFar ==
  /\ gate.at \in {"identified", "user", "passed"} => Named # NoPolicy /\ gate.claimed \in {NoPolicy, Named}
  /\ gate.at \in {"user", "passed"} /\ edits = 0 =>
       /\ Named \notin blocked
       /\ Named = Self => /\ inline.outbound # "N"
                          /\ \A t \in inline.targets : gate.target \in t

\* No edits are forgotten while a connection is at its gates.
OneAtATime == poll.at = "idle" \/ gate.at = "idle"

\* The inductive invariant.
PolicyIInv == ConfigurationOK /\ UnderWay /\ BlockIsLaid /\ StripIsDone /\ GatesSoFar /\ OneAtATime

\* options.extend: laying one set of options over another gives a set of options.
LEMMA ExtendType ==
  ASSUME NEW p \in Options, NEW q \in Options
  PROVE  Extend(p, q) \in Options
  BY DEF Extend, Options

LEMMA PolicyImplied == PolicyIInv => PolicyInv
  <1> SUFFICES ASSUME PolicyIInv PROVE PolicyInv
    OBVIOUS
  <1>1. PolicyTypeOK
    BY DEF PolicyTypeOK, PolicyIInv, ConfigurationOK, UnderWay, Answers, Gates
  <1>2. SecretsAreSealed
    BY DEF SecretsAreSealed, PolicyIInv, StripIsDone
  <1>3. BlockedIsLockedOut
    BY DEF BlockedIsLockedOut, PolicyIInv, StripIsDone, BlockIsLaid
  <1>4. PassedIsAllowed
    BY DEF PassedIsAllowed, PolicyIInv, GatesSoFar
  <1>5. QED
    BY <1>1, <1>2, <1>3, <1>4 DEF PolicyInv

LEMMA PolicyInitInv == PolicyInit => PolicyIInv
  <1> SUFFICES ASSUME PolicyInit PROVE PolicyIInv
    OBVIOUS
  <1> USE PolicyAssumption DEF PolicyInit, NoPoll, NoGate
  <1>1. ConfigurationOK
    BY DEF ConfigurationOK, Machines
  <1>2. UnderWay
    BY DEF UnderWay, Answers, Gates, Machines
  <1>3. BlockIsLaid /\ StripIsDone /\ GatesSoFar /\ OneAtATime
    BY DEF BlockIsLaid, StripIsDone, GatesSoFar, OneAtATime
  <1>4. QED
    BY <1>1, <1>2, <1>3 DEF PolicyIInv

\* What user_policy may answer, and what device_policy does, are sets of options.
LEMMA LaidOverType ==
  ASSUME PolicyIInv
  PROVE  UserPolicies \subseteq Options /\ DevicePolicy \in Options
  <1>1. account \in AccountEntries /\ Empty \in Options
    BY PolicyAssumption DEF PolicyIInv, ConfigurationOK
  <1>2. account.own \in Options
    BY <1>1, PolicyAssumption DEF AccountEntries
  <1>3. account.name \in PolicyNames \cup {NoPolicy}
    BY <1>1 DEF AccountEntries
  <1>4. \A n \in PolicyNames : named[n] # NoPolicy => named[n] \in Options
    BY PolicyAssumption DEF PolicyIInv, ConfigurationOK
  <1>5. \A p \in Policies : [p EXCEPT !.override = TRUE] \in Options
    BY PolicyAssumption DEF Options
  <1>6. UserPolicies \subseteq Options
    BY <1>2, <1>3, <1>4, <1>5 DEF UserPolicies
  <1>7. DevicePolicy \in Options
    BY <1>1, <1>4 DEF DevicePolicy, PolicyIInv, ConfigurationOK
  <1>8. QED
    BY <1>6, <1>7

\* client_policy: no step of a poll breaks the invariant.
LEMMA PollKeeps == PolicyIInv /\ Poll => PolicyIInv'
  <1> SUFFICES ASSUME PolicyIInv, Poll PROVE PolicyIInv'
    OBVIOUS
  <1> DEFINE rest == ConfigurationOK' /\ GatesSoFar' /\ gate' \in Gates
  <1> USE PolicyAssumption DEF PolicyIInv
  <1>1. ASSUME UNCHANGED <<policyConfig, gate>>, edits' = edits \/ (edits' = 0 /\ gate.at = "idle")
        PROVE  rest
    BY <1>1 DEF policyConfig, ConfigurationOK, GatesSoFar, Named, UnderWay
  <1>2. ASSUME NEW proof \in {DevKey, NoProof}, NEW bound \in {DevKey, NoProof}, PollBegins(proof, bound)
        PROVE  PolicyIInv'
    <2>1. inline \in Options /\ NoPoll \in Answers
      BY DEF ConfigurationOK, NoPoll, Answers
    <2> DEFINE row == Self \in blocked
    <2>2. row \in BOOLEAN
      OBVIOUS
    <2>3. /\ poll' = [NoPoll EXCEPT !.at = "row", !.proof = proof, !.bound = bound, !.row = row, !.opts = inline]
          /\ gate.at = "idle" /\ UNCHANGED <<policyConfig, gate, edits>>
      BY <1>2 DEF PollBegins
    <2> HIDE DEF row
    <2>4. poll' \in Answers /\ poll'.at = "row" /\ poll'.sent = "nothing"
      BY <2>1, <2>2, <2>3 DEF Answers, NoPoll
    <2>5. BlockIsLaid' /\ StripIsDone' /\ OneAtATime'
      BY <2>3, <2>4 DEF BlockIsLaid, StripIsDone, OneAtATime
    <2>6. QED
      BY <1>1, <2>3, <2>4, <2>5 DEF UnderWay
  <1>3. CASE PollUser
    <2>1. account.enabled \in BOOLEAN
      BY DEF ConfigurationOK, AccountEntries
    <2>2. PICK user \in BOOLEAN : poll.at = "row" /\ PollStep([poll EXCEPT !.at = "user", !.user = user])
      BY <1>3, <2>1, Zenon DEF PollUser
    <2> USE <2>2 DEF PollStep
    <2>3. poll' \in Answers
      BY DEF Answers, UnderWay
    <2>4. BlockIsLaid' /\ StripIsDone' /\ OneAtATime'
      BY DEF BlockIsLaid, StripIsDone, OneAtATime, UnderWay, Answers
    <2>5. QED
      BY <1>1, <2>3, <2>4 DEF UnderWay
  <1>4. CASE PollPolicy
    <2>1. global \in Options /\ poll.opts \in Options
      BY DEF ConfigurationOK, UnderWay, Answers
    <2>2. /\ \A policy \in UserPolicies : Extend(global, policy) \in Options
          /\ Extend(Extend(global, poll.opts), DevicePolicy) \in Options
      BY <2>1, ExtendType, LaidOverType
    <2>3. PICK opts \in Options :
            poll.at = "user" /\ PollStep([poll EXCEPT !.at = "policy", !.opts = opts])
      BY <1>4, <2>2 DEF PollPolicy
    <2> USE <2>3 DEF PollStep
    <2>4. poll' \in Answers
      BY DEF Answers, UnderWay
    <2>5. BlockIsLaid' /\ StripIsDone' /\ OneAtATime'
      BY DEF BlockIsLaid, StripIsDone, OneAtATime, UnderWay, Answers
    <2>6. QED
      BY <1>1, <2>4, <2>5 DEF UnderWay
  <1>5. ASSUME NEW fails \in BOOLEAN, PollEndpoints(fails) PROVE PolicyIInv'
    <2> DEFINE opts == [poll.opts EXCEPT !.outbound = IF poll.row THEN "N" ELSE @,
                                         !.override = @ /\ ~poll.row]
               withheld == IF fails THEN {} ELSE blocked
               may(p) == \A t \in poll.opts.targets : p \in t
               known == {p \in endpoints : p \notin withheld /\ may(p)}
    <2>1. /\ poll.at = "policy" /\ known \subseteq Machines
          /\ PollStep([poll EXCEPT !.at = "ready", !.known = known, !.opts = opts])
      <3>1. known \subseteq Machines
        BY DEF ConfigurationOK
      <3>2. QED
        BY <1>5, <3>1 DEF PollEndpoints
    <2> HIDE DEF known
    <2>2. poll.opts \in Options /\ poll.row \in BOOLEAN
      BY DEF UnderWay, Answers
    <2>3. PICK override \in BOOLEAN :
            /\ opts = [poll.opts EXCEPT !.outbound = IF poll.row THEN "N" ELSE @, !.override = override]
            /\ poll.row => ~override
      BY Zenon
    <2> HIDE DEF opts
    <2>4. opts \in Options /\ (poll.row => opts.outbound = "N" /\ ~opts.override)
      BY <2>2, <2>3 DEF Options
    <2> USE <2>1, <2>4 DEF PollStep
    <2>5. poll' \in Answers
      BY DEF Answers, UnderWay
    <2>6. BlockIsLaid' /\ StripIsDone' /\ OneAtATime'
      BY <2>4 DEF BlockIsLaid, StripIsDone, OneAtATime, UnderWay, Answers
    <2>7. QED
      BY <1>1, <2>5, <2>6 DEF UnderWay
  <1>6. ASSUME NEW canUnseal \in BOOLEAN, PollSeal(canUnseal) PROVE PolicyIInv'
    <2> DEFINE seals == poll.proof # NoProof /\ canUnseal
               strips == ~seals /\ strip
               opts == [poll.opts EXCEPT !.secret = @ /\ ~(~seals /\ strip)]
    <2>1. poll.at = "ready" /\ PollStep([poll EXCEPT !.at = "built", !.seals = seals, !.strips = strips,
                                                     !.opts = opts])
      BY <1>6 DEF PollSeal, UnderWay, Answers, PollStep
    <2>2. poll.opts \in Options /\ strip \in BOOLEAN
      BY DEF UnderWay, Answers, ConfigurationOK
    <2>3. /\ opts \in Options /\ seals \in BOOLEAN /\ strips \in BOOLEAN
          /\ strips => ~opts.secret /\ ~seals
          /\ opts.outbound = poll.opts.outbound /\ opts.override = poll.opts.override
      <3>1. seals \in BOOLEAN /\ strips \in BOOLEAN /\ (strips => ~seals)
        BY <2>2, Zenon
      <3>2. (poll.opts.secret /\ ~strips) \in BOOLEAN
        BY Zenon
      <3>3. opts = [poll.opts EXCEPT !.secret = poll.opts.secret /\ ~strips]
        OBVIOUS
      <3> HIDE DEF opts, strips, seals
      <3>4. opts \in Options
        BY <2>2, <3>2, <3>3 DEF Options
      <3>5. opts.secret = (poll.opts.secret /\ ~strips)
        BY <2>2, <3>3 DEF Options
      <3>6. opts.outbound = poll.opts.outbound /\ opts.override = poll.opts.override
        BY <2>2, <3>3 DEF Options
      <3>7. QED
        BY <3>1, <3>4, <3>5, <3>6
    <2> HIDE DEF opts, seals, strips
    <2> USE <2>1, <2>3 DEF PollStep
    <2>4. poll' \in Answers
      BY DEF Answers, UnderWay
    <2>5. BlockIsLaid' /\ StripIsDone' /\ OneAtATime'
      BY DEF BlockIsLaid, StripIsDone, OneAtATime, UnderWay, Answers
    <2>6. QED
      BY <1>1, <2>4, <2>5 DEF UnderWay
  <1>7. ASSUME NEW sealed \in BOOLEAN, PollAnswers(sealed) PROVE PolicyIInv'
    <2> USE <1>7 DEF PollAnswers, PollStep
    <2>1. poll' \in Answers
      BY DEF Answers, UnderWay
    <2>2. BlockIsLaid' /\ StripIsDone' /\ OneAtATime'
      BY DEF BlockIsLaid, StripIsDone, OneAtATime, UnderWay, Answers
    <2>3. QED
      BY <1>1, <2>1, <2>2 DEF UnderWay
  <1>8. CASE PollOver
    <2> USE <1>8 DEF PollOver, NoPoll
    <2>1. gate.at = "idle" /\ poll' \in Answers
      BY DEF OneAtATime, Answers
    <2>2. BlockIsLaid' /\ StripIsDone' /\ OneAtATime'
      BY DEF BlockIsLaid, StripIsDone, OneAtATime
    <2>3. QED
      BY <1>1, <2>1, <2>2 DEF UnderWay
  <1>9. QED
    BY <1>2, <1>3, <1>4, <1>5, <1>6, <1>7, <1>8 DEF Poll

\* resolve_controller_identity, controller_policy_rejection, nemo_user_connection_rejection:
\* no gate breaks it.
LEMMA GateKeeps == PolicyIInv /\ Gate => PolicyIInv'
  <1> SUFFICES ASSUME PolicyIInv, Gate PROVE PolicyIInv'
    OBVIOUS
  <1> USE PolicyAssumption DEF PolicyIInv
  <1>1. ASSUME UNCHANGED <<policyConfig, poll>>, edits' \in {edits, 0}
        PROVE  ConfigurationOK' /\ poll' \in Answers /\ BlockIsLaid' /\ StripIsDone'
    BY <1>1 DEF policyConfig, ConfigurationOK, BlockIsLaid, StripIsDone, UnderWay
  <1>2. ASSUME NEW proved \in {Self, NoPolicy} \cup OtherPeers, NEW claimed \in {Self, NoPolicy} \cup OtherPeers,
               NEW target \in OtherPeers, GateBegins(proved, claimed, target)
        PROVE  PolicyIInv'
    <2> USE <1>2 DEF GateBegins
    <2>1. gate' \in Gates
      BY DEF Gates, Machines
    <2>2. GatesSoFar' /\ OneAtATime'
      BY DEF GatesSoFar, OneAtATime
    <2>3. QED
      BY <1>1, <2>1, <2>2 DEF UnderWay
  <1>3. ASSUME NEW at \in {"identified", "user", "passed", "refused"}, gate' = [gate EXCEPT !.at = at],
               UNCHANGED <<policyConfig, poll, edits>>, gate.at # "idle", GatesSoFar'
        PROVE  PolicyIInv'
    <2>1. gate' \in Gates
      BY <1>3 DEF Gates, UnderWay
    <2>2. OneAtATime'
      BY <1>3 DEF OneAtATime
    <2>3. QED
      BY <1>1, <1>3, <2>1, <2>2 DEF UnderWay
  <1>4. ASSUME gate.at # "idle", RefuseRequest PROVE PolicyIInv'
    <2>1. GatesSoFar'
      BY <1>4 DEF RefuseRequest, GateStep, GatesSoFar, UnderWay, Gates
    <2>2. QED
      BY <1>3, <1>4, <2>1 DEF RefuseRequest, GateStep
  <1>5. CASE GateIdentity
    <2>1. CASE ~IdentityRefused
      <3> USE <1>5, <2>1 DEF GateIdentity, GateStep
      <3>1. gate' = [gate EXCEPT !.at = "identified"] /\ Named' = Named
        BY DEF Named, UnderWay, Gates
      <3>2. GatesSoFar'
        BY <3>1 DEF GatesSoFar, IdentityRefused, Named, UnderWay, Gates
      <3>3. QED
        BY <1>3, <3>1, <3>2
    <2>2. QED
      BY <1>4, <1>5, <2>1 DEF GateIdentity
  <1>6. ASSUME NEW found \in BOOLEAN, NEW sameUuid \in BOOLEAN, GateRow(found, sameUuid) PROVE PolicyIInv'
    <2>1. CASE ~RowRefuses(found, sameUuid)
      <3> USE <1>6, <2>1 DEF GateRow, GateStep
      <3>1. gate' = [gate EXCEPT !.at = "user"] /\ Named' = Named
        BY DEF Named, UnderWay, Gates
      <3>2. gate'.at = "user" /\ gate'.claimed = gate.claimed /\ gate'.target = gate.target
        BY <3>1 DEF UnderWay, Gates
      <3>3. UNCHANGED <<blocked, inline, edits>>
        BY DEF policyConfig
      <3>4. GatesSoFar'
        BY <3>1, <3>2, <3>3 DEF GatesSoFar, RowRefuses
      <3>5. QED
        BY <1>3, <3>1, <3>4
    <2>2. QED
      BY <1>4, <1>6, <2>1 DEF GateRow
  <1>7. ASSUME NEW token \in BOOLEAN, NEW required \in BOOLEAN, NEW bound \in {NoProof, DevKey, OtherKey},
               GateUser(token, bound, required)
        PROVE  PolicyIInv'
    <2>1. CASE ~UserRefuses(token, bound, required)
      <3> USE <1>7, <2>1 DEF GateUser, GateStep
      <3>1. gate' = [gate EXCEPT !.at = "passed"] /\ Named' = Named
        BY DEF Named, UnderWay, Gates
      <3>2. gate'.at = "passed" /\ gate'.claimed = gate.claimed /\ gate'.target = gate.target
        BY <3>1 DEF UnderWay, Gates
      <3>3. UNCHANGED <<blocked, inline, edits>>
        BY DEF policyConfig
      <3>4. GatesSoFar'
        BY <3>1, <3>2, <3>3 DEF GatesSoFar
      <3>5. QED
        BY <1>3, <3>1, <3>4
    <2>2. QED
      BY <1>4, <1>7, <2>1 DEF GateUser
  <1>8. CASE GateOver
    <2> USE <1>8 DEF GateOver, NoGate
    <2>1. gate' \in Gates
      BY DEF Gates, Machines
    <2>2. GatesSoFar' /\ OneAtATime'
      BY DEF GatesSoFar, OneAtATime
    <2>3. QED
      BY <1>1, <2>1, <2>2 DEF UnderWay
  <1>9. QED
    BY <1>2, <1>5, <1>6, <1>7, <1>8 DEF Gate

\* No edit breaks it, set_policies and set_device_policy with the assignments they clear.
LEMMA EditKeeps == PolicyIInv /\ OperatorEdits => PolicyIInv'
  <1> SUFFICES ASSUME PolicyIInv, OperatorEdits PROVE PolicyIInv'
    OBVIOUS
  <1> USE PolicyAssumption DEF PolicyIInv
  <1>1. ASSUME Edit, ConfigurationOK' PROVE PolicyIInv'
    <2>1. edits' # 0 /\ UNCHANGED <<poll, gate>>
      BY <1>1 DEF Edit, ConfigurationOK
    <2>2. UnderWay' /\ BlockIsLaid' /\ StripIsDone' /\ OneAtATime'
      BY <2>1 DEF UnderWay, BlockIsLaid, StripIsDone, OneAtATime
    <2>3. GatesSoFar'
      BY <2>1 DEF GatesSoFar, Named
    <2>4. QED
      BY <1>1, <2>2, <2>3
  <1> USE DEF ConfigurationOK, Edit
  <1>2. ASSUME NEW p \in Policies, SetGlobal(p) \/ SetInline(p) PROVE PolicyIInv'
    BY <1>1, <1>2 DEF SetGlobal, SetInline
  <1>3. ASSUME NEW p \in Machines, NEW on \in BOOLEAN, SetBlocked(p, on) \/ SetEndpoint(p, on)
        PROVE  PolicyIInv'
    BY <1>1, <1>3 DEF SetBlocked, SetEndpoint
  <1>4. ASSUME NEW n \in PolicyNames, NEW p \in Policies \cup {NoPolicy}, SetPolicies(n, p) PROVE PolicyIInv'
    BY <1>1, <1>4 DEF SetPolicies
  <1>5. ASSUME NEW n \in PolicyNames \cup {NoPolicy}, SetDevicePolicy(n) PROVE PolicyIInv'
    BY <1>1, <1>5 DEF SetDevicePolicy
  <1>6. ASSUME NEW a \in Accounts, SetAccount(a) PROVE PolicyIInv'
    BY <1>1, <1>6 DEF SetAccount
  <1>7. ASSUME NEW on \in BOOLEAN, SetStrip(on) PROVE PolicyIInv'
    BY <1>1, <1>7 DEF SetStrip
  <1>8. QED
    BY <1>2, <1>3, <1>4, <1>5, <1>6, <1>7 DEF OperatorEdits

LEMMA PolicyNextInv == PolicyIInv /\ [PolicyNext]_policyVars => PolicyIInv'
  <1>1. PolicyIInv /\ UNCHANGED policyVars => PolicyIInv'
    BY DEF policyVars, PolicyIInv, ConfigurationOK, UnderWay, BlockIsLaid, StripIsDone, GatesSoFar, Named,
           OneAtATime
  <1>2. QED
    BY <1>1, PollKeeps, GateKeeps, EditKeeps DEF PolicyNext

\* Whatever an operator edits in between, for any policies: no secret leaves unsealed once
\* stripping is on, a blocked machine is told so above every policy, and no connection passes
\* under two identities or against the row that was read (client_policy,
\* controller_policy_rejection).
THEOREM PolicyInvariant == PolicySpec => []PolicyInv
  <1>1. QED
    BY PolicyImplied, PolicyInitInv, PolicyNextInv, PTL DEF PolicySpec

-----------------------------------------------------------------------------
(* The connections of hbbs.                                                *)

\* A connection that has not been let in has proved nothing and is in no table.
NotYetIn ==
  \A c \in Conns : conn[c].at \in {"none", "offered"} =>
    /\ conn[c].proved = NoId /\ ~conn[c].secured
    /\ \A i \in Ids : peers[i] # c /\ latest[i] # c

\* The gate of --key-exchange=require has been passed by all that are in.
InIsSecured ==
  \A c \in Conns : conn[c].at \in {"loop", "frame"} => (mode = "require" => conn[c].secured)

\* A frame that was sent after the revocation is still to meet the check.
RevokedIsWaiting ==
  \A c \in Conns : \A k \in 1..Len(wire[c]) :
    wire[c][k].revoked => conn[c].proved # NoId /\ conn[c].proved \notin pinned

\* The inductive invariant.
ChannelIInv ==
  ChannelInv /\ LatestIsReached /\ NotYetIn /\ InIsSecured /\ RevokedIsWaiting

TaskRecord == [at : {"none", "offered", "loop", "frame", "closed"}, proved : Ids \cup {NoId},
               secured : BOOLEAN, frame : ChannelFrames \cup {NoFrame}]

LEMMA InitialTask ==
  /\ NoFrame \in ChannelFrames /\ ~NoFrame.revoked
  /\ Task0 \in TaskRecord /\ Task0.at = "none" /\ Task0.proved = NoId /\ ~Task0.secured /\ Task0.frame = NoFrame
  /\ Closed \in TaskRecord /\ Closed.at = "closed" /\ Closed.frame = NoFrame
  BY DEF NoFrame, ChannelFrames, Task0, Closed, TaskRecord, Replies, RequestFrames

LEMMA ChannelInitInv == ChannelInit => ChannelIInv
  <1> SUFFICES ASSUME ChannelInit PROVE ChannelIInv
    OBVIOUS
  <1>1. ChannelTypeOK
    BY ChannelAssumption, InitialTask DEF ChannelInit, ChannelTypeOK, TaskRecord
  <1>2. RevokedIsRefused /\ ChannelIsProven
    BY InitialTask DEF ChannelInit, RevokedIsRefused, ChannelIsProven
  <1>3. LatestIsReached /\ NotYetIn /\ InIsSecured
    BY InitialTask, ChannelAssumption
    DEF ChannelInit, LatestIsReached, NotYetIn, InIsSecured, Modes
  <1>4. RevokedIsWaiting
    BY DEF ChannelInit, RevokedIsWaiting
  <1>5. QED
    BY <1>1, <1>2, <1>3, <1>4 DEF ChannelIInv, ChannelInv

-----------------------------------------------------------------------------
(* What a step of a connection leaves of the other connections.            *)

\* A connection that leaves the tables alone, ends up closed or goes on in the loop.
LEMMA TaskKeeps ==
  ASSUME ChannelIInv, NEW c \in Conns, NEW rec \in TaskRecord, Task(c, rec),
         UNCHANGED <<mode, peers, latest>>, pinned' \subseteq pinned,
         conn[c].at # "closed",
         rec.at = "none" => conn[c].at = "none",
         rec.at \in {"none", "offered"} =>
           rec.proved = NoId /\ ~rec.secured /\ conn[c].at \in {"none", "offered"},
         rec.at \in {"loop", "frame"} => (mode = "require" => rec.secured),
         conn[c].at \in {"loop", "frame"} /\ rec.at # "closed" =>
           rec.proved = conn[c].proved /\ rec.secured = conn[c].secured,
         ~rec.frame.revoked
  PROVE  LatestIsReached' /\ NotYetIn' /\ InIsSecured' /\ RevokedIsRefused' /\ ChannelIsProven'
  <1>0. ChannelTypeOK /\ RevokedIsRefused /\ ChannelIsProven
    BY DEF ChannelIInv, ChannelInv
  <1>1. conn' = [conn EXCEPT ![c] = rec] /\ conn'[c] = rec
        /\ \A d \in Conns \ {c} : conn'[d] = conn[d]
    BY <1>0 DEF Task, ChannelTypeOK
  <1>2. LatestIsReached'
    BY <1>0, <1>1 DEF ChannelIInv, LatestIsReached, NotYetIn, Open, ChannelTypeOK, TaskRecord
  <1>3. NotYetIn'
    BY <1>0, <1>1 DEF ChannelIInv, NotYetIn, ChannelTypeOK
  <1>4. InIsSecured'
    BY <1>0, <1>1 DEF ChannelIInv, InIsSecured, ChannelTypeOK
  <1>5. RevokedIsRefused'
    BY <1>0, <1>1 DEF RevokedIsRefused
  <1>6. ChannelIsProven'
    BY <1>0, <1>1 DEF ChannelIInv, ChannelIsProven, NotYetIn, Open, ChannelTypeOK, TaskRecord
  <1>7. QED
    BY <1>2, <1>3, <1>4, <1>5, <1>6

LEMMA CloseKeeps ==
  ASSUME ChannelIInv, NEW c \in Conns, Close(c), conn[c].at # "closed"
  PROVE  ChannelIInv'
  <1>0. ChannelTypeOK
    BY DEF ChannelIInv, ChannelInv
  <1>1. ChannelTypeOK'
    <2>1. conn' \in [Conns -> TaskRecord] /\ client' \in [Conns -> BOOLEAN]
      BY <1>0, InitialTask DEF Close, ChannelTypeOK, TaskRecord
    <2>2. wire' \in [Conns -> Seq(ChannelFrames)]
      BY <1>0 DEF Close, ChannelTypeOK
    <2>3. queue' \in [Conns -> 0..MaxQueue]
      BY <1>0, ChannelAssumption DEF Close, ChannelTypeOK
    <2>4. QED
      BY <1>0, <2>1, <2>2, <2>3 DEF Close, ChannelTypeOK, TaskRecord
  <1>2. Task(c, Closed) /\ UNCHANGED <<mode, pinned, peers, latest>>
    BY DEF Close, Task
  <1>3. LatestIsReached' /\ NotYetIn' /\ InIsSecured' /\ RevokedIsRefused' /\ ChannelIsProven'
    BY <1>2, InitialTask, TaskKeeps
  <1>4. RevokedIsWaiting'
    <2>1. wire'[c] = <<>> /\ \A d \in Conns \ {c} : wire'[d] = wire[d] /\ conn'[d] = conn[d]
      BY <1>0 DEF Close, ChannelTypeOK
    <2>2. QED
      BY <1>2, <2>1 DEF ChannelIInv, RevokedIsWaiting
  <1>5. QED
    BY <1>1, <1>3, <1>4 DEF ChannelIInv, ChannelInv

\* The gates in front of the loop.
LEMMA EnterKeeps ==
  ASSUME ChannelIInv, NEW c \in Conns, NEW rec \in TaskRecord, Enter(c, rec),
         conn[c].at = "offered", rec.frame = conn[c].frame, rec.secured => wire[c] # <<>>
  PROVE  ChannelIInv'
  <1>0. ChannelTypeOK /\ RevokedIsRefused /\ NotYetIn
    BY DEF ChannelIInv, ChannelInv
  <1>1. CASE (rec.proved = NoId /\ require) \/ (~rec.secured /\ mode = "require")
    BY <1>1, CloseKeeps DEF Enter
  <1>2. CASE ~((rec.proved = NoId /\ require) \/ (~rec.secured /\ mode = "require"))
    <2> DEFINE in == [rec EXCEPT !.at = "loop"]
    <2>1. /\ in \in TaskRecord /\ in.at = "loop" /\ in.frame = conn[c].frame
          /\ in.secured = rec.secured
      BY DEF TaskRecord
    <2>2. /\ Task(c, in) /\ UNCHANGED <<mode, require, pinned, client, queue, peers, latest>>
          /\ wire' = [wire EXCEPT ![c] = IF rec.secured THEN Tail(@) ELSE @]
      BY <1>2 DEF Enter
    <2>3. ~in.frame.revoked
      BY <1>0, <2>1 DEF RevokedIsRefused
    <2> HIDE DEF in
    <2>4. LatestIsReached' /\ NotYetIn' /\ InIsSecured' /\ RevokedIsRefused' /\ ChannelIsProven'
      BY <1>2, <2>1, <2>2, <2>3, TaskKeeps
    <2>5. conn'[c] = in /\ \A d \in Conns \ {c} : conn'[d] = conn[d]
      BY <1>0, <2>2 DEF Task, ChannelTypeOK
    <2>6. /\ wire'[c] = IF rec.secured THEN Tail(wire[c]) ELSE wire[c]
          /\ \A d \in Conns \ {c} : wire'[d] = wire[d]
      BY <1>0, <2>2 DEF ChannelTypeOK
    <2>7. wire[c] \in Seq(ChannelFrames)
      BY <1>0 DEF ChannelTypeOK
    <2>8. wire'[c] \in Seq(ChannelFrames)
      BY <1>2, <2>6, <2>7, HeadTailProperties
    <2>9. ChannelTypeOK'
      <3>1. conn' \in [Conns -> TaskRecord]
        BY <1>0, <2>1, <2>2 DEF Task, ChannelTypeOK, TaskRecord
      <3>2. wire' \in [Conns -> Seq(ChannelFrames)]
        BY <1>0, <2>2, <2>6, <2>8 DEF ChannelTypeOK
      <3>3. QED
        BY <1>0, <2>2, <3>1, <3>2 DEF ChannelTypeOK, TaskRecord
    <2>10. RevokedIsWaiting'
      <3>1. \A k \in 1..Len(wire[c]) : ~wire[c][k].revoked
        BY <1>0 DEF ChannelIInv, RevokedIsWaiting, NotYetIn
      <3>2. \A k \in 1..Len(wire'[c]) : ~wire'[c][k].revoked
        BY <2>6, <2>7, <3>1
      <3>3. QED
        BY <2>2, <2>5, <2>6, <3>2 DEF ChannelIInv, RevokedIsWaiting
    <2>11. QED
      BY <2>4, <2>9, <2>10 DEF ChannelIInv, ChannelInv
  <1>3. QED
    BY <1>1, <1>2

\* The answer to the offer, and the silence instead of one.
LEMMA HandshakeKeeps ==
  ASSUME ChannelIInv, NEW c \in Conns, Reply(c) \/ ReplyTimesOut(c)
  PROVE  ChannelIInv'
  <1> DEFINE f == Head(wire[c])
  <1>1. /\ conn[c] \in TaskRecord /\ conn[c].at = "offered"
        /\ wire[c] # <<>> => f \in ChannelFrames
    BY HeadTailProperties DEF ChannelIInv, ChannelInv, ChannelTypeOK, TaskRecord, Reply, ReplyTimesOut
  <1>2. ASSUME NEW id \in Ids \cup {NoId}, NEW on \in BOOLEAN
        PROVE  /\ [conn[c] EXCEPT !.secured = on, !.proved = id] \in TaskRecord
               /\ [conn[c] EXCEPT !.secured = on, !.proved = id].frame = conn[c].frame
    BY <1>1 DEF TaskRecord
  <1>3. /\ [conn[c] EXCEPT !.secured = TRUE] \in TaskRecord
        /\ [conn[c] EXCEPT !.secured = TRUE].frame = conn[c].frame
    BY <1>1 DEF TaskRecord
  <1>4. ASSUME wire[c] # <<>>, Enter(c, [conn[c] EXCEPT !.secured = TRUE])
        PROVE  ChannelIInv'
    BY <1>1, <1>3, <1>4, EnterKeeps
  <1>5. ASSUME wire[c] # <<>>, Enter(c, [conn[c] EXCEPT !.secured = TRUE, !.proved = f.id])
        PROVE  ChannelIInv'
    <2>1. f.id \in Ids \cup {NoId}
      BY <1>1, <1>5 DEF ChannelFrames
    <2>2. QED
      BY <1>1, <1>2, <1>5, <2>1, EnterKeeps
  <1>6. ASSUME Close(c) PROVE ChannelIInv'
    BY <1>1, <1>6, CloseKeeps
  <1>7. ASSUME Enter(c, conn[c]) PROVE ChannelIInv'
    <2>1. ~conn[c].secured
      BY <1>1 DEF ChannelIInv, NotYetIn
    <2>2. QED
      BY <1>1, <1>7, <2>1, EnterKeeps
  <1>8. QED
    BY <1>4, <1>5, <1>6, <1>7 DEF Reply, ReplyTimesOut

-----------------------------------------------------------------------------
(* The loop, the client, and the others.                                   *)

LEMMA AcceptedKeeps ==
  ASSUME ChannelIInv, NEW c \in Conns, Accepted(c) PROVE ChannelIInv'
  <1> DEFINE rec == [conn[c] EXCEPT !.at = IF mode = "off" THEN "loop" ELSE "offered"]
  <1>1. /\ rec \in TaskRecord /\ rec.at = IF mode = "off" THEN "loop" ELSE "offered"
        /\ rec.proved = conn[c].proved /\ rec.secured = conn[c].secured
        /\ rec.frame = conn[c].frame
    BY DEF ChannelIInv, ChannelInv, ChannelTypeOK, TaskRecord
  <1>2. /\ Task(c, rec) /\ conn[c].at = "none"
        /\ UNCHANGED <<mode, require, pinned, client, wire, queue, peers, latest>>
    BY DEF Accepted
  <1>3. ~conn[c].frame.revoked /\ conn[c].proved = NoId /\ ~conn[c].secured
    BY <1>2 DEF ChannelIInv, ChannelInv, RevokedIsRefused, NotYetIn
  <1> HIDE DEF rec
  <1>4. LatestIsReached' /\ NotYetIn' /\ InIsSecured' /\ RevokedIsRefused' /\ ChannelIsProven'
    BY <1>1, <1>2, <1>3, TaskKeeps
  <1>5. conn'[c] = rec /\ \A d \in Conns \ {c} : conn'[d] = conn[d]
    BY <1>2 DEF Task, ChannelIInv, ChannelInv, ChannelTypeOK
  <1>6. ChannelTypeOK'
    <2>1. conn' \in [Conns -> TaskRecord]
      BY <1>1, <1>2 DEF Task, ChannelIInv, ChannelInv, ChannelTypeOK, TaskRecord
    <2>2. QED
      BY <1>2, <2>1 DEF ChannelIInv, ChannelInv, ChannelTypeOK, TaskRecord
  <1>7. RevokedIsWaiting'
    BY <1>1, <1>2, <1>5 DEF ChannelIInv, RevokedIsWaiting
  <1>8. QED
    BY <1>4, <1>6, <1>7 DEF ChannelIInv, ChannelInv

\* A frame is read only past the check of the key, so it is no frame of a removed one.
LEMMA ReadFrameKeeps ==
  ASSUME ChannelIInv, NEW c \in Conns, ReadFrame(c) PROVE ChannelIInv'
  <1> DEFINE f == Head(wire[c])
             rec == [conn[c] EXCEPT !.at = "frame", !.frame = f]
             stop == f.sealed # conn[c].secured \/ (conn[c].proved # NoId /\ conn[c].proved \notin pinned)
  <1>1. /\ conn[c] \in TaskRecord /\ conn[c].at = "loop" /\ wire[c] # <<>>
        /\ wire[c] \in Seq(ChannelFrames)
    BY DEF ChannelIInv, ChannelInv, ChannelTypeOK, TaskRecord, ReadFrame
  <1>2. f \in ChannelFrames /\ Tail(wire[c]) \in Seq(ChannelFrames)
    BY <1>1, HeadTailProperties
  <1>3. CASE stop
    BY <1>1, <1>3, CloseKeeps DEF ReadFrame
  <1>4. CASE ~stop
    <2>1. /\ Task(c, rec) /\ wire' = [wire EXCEPT ![c] = Tail(@)]
          /\ UNCHANGED <<mode, require, pinned, client, queue, peers, latest>>
      BY <1>4 DEF ReadFrame
    <2>2. /\ rec \in TaskRecord /\ rec.at = "frame" /\ rec.frame = f
          /\ rec.proved = conn[c].proved /\ rec.secured = conn[c].secured
      BY <1>1, <1>2 DEF TaskRecord
    <2>3. f = wire[c][1] /\ 1 \in 1..Len(wire[c])
      BY <1>1
    <2>4. ~f.revoked
      BY <1>4, <2>3 DEF ChannelIInv, RevokedIsWaiting
    <2>5. mode = "require" => rec.secured
      BY <1>1, <2>2 DEF ChannelIInv, InIsSecured
    <2> HIDE DEF rec, f
    <2>6. LatestIsReached' /\ NotYetIn' /\ InIsSecured' /\ RevokedIsRefused' /\ ChannelIsProven'
      BY <1>1, <2>1, <2>2, <2>4, <2>5, TaskKeeps
    <2>7. /\ conn'[c] = rec /\ \A d \in Conns \ {c} : conn'[d] = conn[d]
          /\ wire'[c] = Tail(wire[c]) /\ \A d \in Conns \ {c} : wire'[d] = wire[d]
      BY <2>1 DEF Task, ChannelIInv, ChannelInv, ChannelTypeOK
    <2>8. ChannelTypeOK'
      <3>1. conn' \in [Conns -> TaskRecord]
        BY <2>1, <2>2 DEF Task, ChannelIInv, ChannelInv, ChannelTypeOK, TaskRecord
      <3>2. wire' \in [Conns -> Seq(ChannelFrames)]
        BY <1>2, <2>1 DEF ChannelIInv, ChannelInv, ChannelTypeOK
      <3>3. QED
        BY <2>1, <3>1, <3>2 DEF ChannelIInv, ChannelInv, ChannelTypeOK, TaskRecord
    <2>9. RevokedIsWaiting'
      <3>1. \A k \in 1..Len(wire'[c]) : k + 1 \in 1..Len(wire[c]) /\ wire'[c][k] = wire[c][k + 1]
        BY <1>1, <2>7
      <3>2. \A k \in 1..Len(wire'[c]) : wire'[c][k].revoked =>
              conn'[c].proved # NoId /\ conn'[c].proved \notin pinned'
        BY <2>1, <2>2, <2>7, <3>1 DEF ChannelIInv, RevokedIsWaiting
      <3>3. QED
        BY <2>1, <2>7, <3>2 DEF ChannelIInv, RevokedIsWaiting
    <2>10. QED
      BY <2>6, <2>8, <2>9 DEF ChannelIInv, ChannelInv
  <1>5. QED
    BY <1>3, <1>4

\* A frame has been handled: back to the loop.
LEMMA BackToLoop ==
  ASSUME ChannelIInv, NEW c \in Conns, conn[c].at = "frame",
         Task(c, [conn[c] EXCEPT !.at = "loop", !.frame = NoFrame]),
         UNCHANGED <<mode, require, pinned, client, wire, queue>>,
         peers' \in [Ids -> Conns \cup {NoConn}], latest' \in [Ids -> Conns \cup {NoConn}]
  PROVE  /\ ChannelTypeOK' /\ RevokedIsRefused' /\ RevokedIsWaiting' /\ InIsSecured'
         /\ conn'[c].at = "loop" /\ conn'[c].proved = conn[c].proved
         /\ conn'[c].secured = conn[c].secured
         /\ \A d \in Conns \ {c} : conn'[d] = conn[d]
  <1> DEFINE rec == [conn[c] EXCEPT !.at = "loop", !.frame = NoFrame]
  <1>1. /\ rec \in TaskRecord /\ rec.at = "loop" /\ rec.frame = NoFrame
        /\ rec.proved = conn[c].proved /\ rec.secured = conn[c].secured
    BY InitialTask DEF ChannelIInv, ChannelInv, ChannelTypeOK, TaskRecord
  <1>2. conn' = [conn EXCEPT ![c] = rec]
    BY DEF Task
  <1> HIDE DEF rec
  <1>3. conn'[c] = rec /\ \A d \in Conns \ {c} : conn'[d] = conn[d]
    BY <1>2 DEF ChannelIInv, ChannelInv, ChannelTypeOK
  <1>4. ChannelTypeOK'
    <2>1. conn' \in [Conns -> TaskRecord]
      BY <1>1, <1>2 DEF ChannelIInv, ChannelInv, ChannelTypeOK, TaskRecord
    <2>2. QED
      BY <2>1 DEF ChannelIInv, ChannelInv, ChannelTypeOK, TaskRecord
  <1>5. RevokedIsRefused'
    BY <1>1, <1>3, InitialTask DEF ChannelIInv, ChannelInv, RevokedIsRefused
  <1>6. RevokedIsWaiting'
    BY <1>1, <1>3 DEF ChannelIInv, RevokedIsWaiting
  <1>7. InIsSecured'
    BY <1>1, <1>3 DEF ChannelIInv, InIsSecured
  <1>8. QED
    BY <1>1, <1>3, <1>4, <1>5, <1>6, <1>7

LEMMA HandleKeeps ==
  ASSUME ChannelIInv, NEW c \in Conns, HandleRegister(c) \/ HandleAsk(c) \/ HandleOther(c)
  PROVE  ChannelIInv'
  <1>0. ChannelTypeOK /\ conn[c].at = "frame"
    BY DEF ChannelIInv, ChannelInv, HandleRegister, HandleAsk, HandleOther
  <1>1. ASSUME Close(c) PROVE ChannelIInv'
    BY <1>0, <1>1, CloseKeeps
  <1>2. ASSUME HandleAsk(c) PROVE ChannelIInv'
    <2>1. /\ Task(c, [conn[c] EXCEPT !.at = "loop", !.frame = NoFrame])
          /\ UNCHANGED <<mode, require, pinned, client, wire, queue, peers, latest>>
      BY <1>2 DEF HandleAsk
    <2>2. /\ ChannelTypeOK' /\ RevokedIsRefused' /\ RevokedIsWaiting' /\ InIsSecured'
          /\ conn'[c].at = "loop" /\ conn'[c].proved = conn[c].proved
          /\ conn'[c].secured = conn[c].secured
          /\ \A d \in Conns \ {c} : conn'[d] = conn[d]
      BY <1>0, <2>1, BackToLoop DEF ChannelTypeOK
    <2>3. LatestIsReached'
      BY <1>0, <2>1, <2>2 DEF ChannelIInv, LatestIsReached, Open, ChannelTypeOK
    <2>4. NotYetIn'
      BY <1>0, <2>1, <2>2 DEF ChannelIInv, NotYetIn
    <2>5. ChannelIsProven'
      BY <1>0, <2>1, <2>2 DEF ChannelIInv, ChannelInv, ChannelIsProven, Open, ChannelTypeOK
    <2>6. QED
      BY <2>2, <2>3, <2>4, <2>5 DEF ChannelIInv, ChannelInv
  <1>3. ASSUME NEW i \in Ids \cup {NoId}, conn[c].proved \in {NoId, i}, RegisterPush(c, i),
               Task(c, [conn[c] EXCEPT !.at = "loop", !.frame = NoFrame]),
               UNCHANGED <<mode, require, pinned, client, wire, queue>>
        PROVE  ChannelIInv'
    <2>1. peers' \in [Ids -> Conns \cup {NoConn}] /\ latest' \in [Ids -> Conns \cup {NoConn}]
      BY <1>0, <1>3 DEF RegisterPush, ChannelTypeOK
    <2>2. /\ ChannelTypeOK' /\ RevokedIsRefused' /\ RevokedIsWaiting' /\ InIsSecured'
          /\ conn'[c].at = "loop" /\ conn'[c].proved = conn[c].proved
          /\ conn'[c].secured = conn[c].secured
          /\ \A d \in Conns \ {c} : conn'[d] = conn[d]
      BY <1>0, <1>3, <2>1, BackToLoop
    <2>3. /\ i \in Ids => peers'[i] = c /\ latest'[i] = c
          /\ \A j \in Ids \ {i} : /\ latest'[j] = latest[j]
                                  /\ peers'[j] \in {peers[j], NoConn}
                                  /\ peers[j] # NoConn /\ Open(peers[j]) => peers'[j] = peers[j]
      BY <1>0, <1>3 DEF RegisterPush, ChannelTypeOK
    <2>4. LatestIsReached'
      <3>1. ASSUME NEW j \in Ids \ {i}, latest'[j] # NoConn, Open(latest[j])'
            PROVE  peers'[j] = latest'[j]
        <4>1. latest'[j] = latest[j] /\ latest[j] \in Conns
          BY <1>0, <2>3, <3>1 DEF ChannelTypeOK
        <4>2. Open(latest[j])
          BY <1>0, <2>2, <3>1, <4>1 DEF Open
        <4>3. peers[j] = latest[j]
          BY <3>1, <4>1, <4>2 DEF ChannelIInv, LatestIsReached
        <4>4. QED
          BY <2>3, <3>1, <4>1, <4>2, <4>3
      <3>2. QED
        BY <2>3, <3>1 DEF LatestIsReached
    <2>5. NotYetIn'
      BY <1>0, <1>3, <2>2, <2>3, ChannelAssumption DEF ChannelIInv, NotYetIn
    <2>6. ChannelIsProven'
      <3>1. mode' = "require" => conn'[c].secured
        BY <1>0, <1>3, <2>2 DEF ChannelIInv, InIsSecured
      <3>2. i \in Ids => conn'[peers'[i]].proved \in {NoId, i}
        BY <1>3, <2>2, <2>3
      <3>3. ASSUME NEW j \in Ids \ {i}, peers'[j] # NoConn, Open(peers[j])'
            PROVE  /\ conn'[peers'[j]].proved \in {NoId, j}
                   /\ mode' = "require" => conn'[peers'[j]].secured
        <4>1. peers'[j] = peers[j] /\ peers[j] \in Conns
          BY <1>0, <2>3, <3>3 DEF ChannelTypeOK
        <4>2. Open(peers[j])
          BY <1>0, <2>2, <3>3, <4>1 DEF Open
        <4>3. QED
          BY <1>0, <1>3, <2>2, <3>3, <4>1, <4>2
          DEF ChannelIInv, ChannelInv, ChannelIsProven
      <3>4. QED
        BY <2>3, <3>1, <3>2, <3>3 DEF ChannelIsProven
    <2>7. QED
      BY <2>2, <2>4, <2>5, <2>6 DEF ChannelIInv, ChannelInv
  <1>4. ASSUME HandleRegister(c) PROVE ChannelIInv'
    <2>1. conn[c].frame.id \in Ids \cup {NoId}
      BY <1>0, InitialTask DEF ChannelTypeOK, ChannelFrames
    <2>2. QED
      BY <1>1, <1>3, <1>4, <2>1 DEF HandleRegister
  <1>5. QED
    BY <1>1, <1>2, <1>4 DEF HandleOther

\* The client sends.
LEMMA SendsKeeps ==
  ASSUME ChannelIInv, NEW c \in Conns, NEW kind \in Replies \cup RequestFrames,
         NEW id \in Ids \cup {NoId}, Sends(c, kind, id), client' \in [Conns -> BOOLEAN],
         UNCHANGED <<mode, require, pinned, conn, queue, peers, latest>>
  PROVE  ChannelIInv'
  <1> DEFINE f == [kind |-> kind, id |-> id, sealed |-> client[c],
                   revoked |-> conn[c].proved # NoId /\ conn[c].proved \notin pinned]
  <1>1. f \in ChannelFrames
    BY DEF ChannelFrames, ChannelIInv, ChannelInv, ChannelTypeOK
  <1>2. f.revoked => conn[c].proved # NoId /\ conn[c].proved \notin pinned
    OBVIOUS
  <1>3. wire' = [wire EXCEPT ![c] = Append(@, f)] /\ wire[c] \in Seq(ChannelFrames)
    BY DEF Sends, ChannelIInv, ChannelInv, ChannelTypeOK
  <1> HIDE DEF f
  <1>4. wire'[c] = Append(wire[c], f) /\ \A d \in Conns \ {c} : wire'[d] = wire[d]
    BY <1>3 DEF ChannelIInv, ChannelInv, ChannelTypeOK
  <1>5. ChannelTypeOK'
    <2>1. wire' \in [Conns -> Seq(ChannelFrames)]
      BY <1>1, <1>3 DEF ChannelIInv, ChannelInv, ChannelTypeOK
    <2>2. QED
      BY <2>1 DEF ChannelIInv, ChannelInv, ChannelTypeOK
  <1>6. RevokedIsWaiting'
    <2>1. \A k \in 1..Len(wire'[c]) : wire'[c][k].revoked =>
            conn[c].proved # NoId /\ conn[c].proved \notin pinned
      <3>1. ASSUME NEW k \in 1..Len(wire'[c]) PROVE wire'[c][k].revoked =>
                     conn[c].proved # NoId /\ conn[c].proved \notin pinned
        <4>1. CASE k = Len(wire[c]) + 1
          BY <1>2, <1>3, <1>4, <4>1
        <4>2. CASE k # Len(wire[c]) + 1
          <5>1. k \in 1..Len(wire[c]) /\ wire'[c][k] = wire[c][k]
            BY <1>1, <1>3, <1>4, <4>2
          <5>2. QED
            BY <5>1 DEF ChannelIInv, RevokedIsWaiting
        <4>3. QED
          BY <4>1, <4>2
      <3>2. QED
        BY <3>1
    <2>2. QED
      BY <1>4, <2>1 DEF ChannelIInv, RevokedIsWaiting
  <1>7. RevokedIsRefused' /\ ChannelIsProven'
    BY DEF ChannelIInv, ChannelInv, RevokedIsRefused, ChannelIsProven, Open
  <1>8. LatestIsReached' /\ NotYetIn' /\ InIsSecured'
    BY DEF ChannelIInv, LatestIsReached, NotYetIn, InIsSecured, Open
  <1>9. QED
    BY <1>5, <1>6, <1>7, <1>8 DEF ChannelIInv, ChannelInv

\* A push, and the removal of a key.
LEMMA OthersKeep ==
  ASSUME ChannelIInv, NEW i \in Ids, PushTo(i) \/ Unpin(i)
  PROVE  ChannelIInv'
  <1>0. ChannelTypeOK
    BY DEF ChannelIInv, ChannelInv
  <1>1. UNCHANGED <<mode, require, conn, client, wire, latest>> /\ pinned' \subseteq pinned
    BY <1>0 DEF PushTo, Unpin, ChannelTypeOK
  <1>2. /\ queue' \in [Conns -> 0..MaxQueue] /\ peers' \in [Ids -> Conns \cup {NoConn}]
        /\ \A j \in Ids : /\ peers'[j] \in {peers[j], NoConn}
                          /\ peers[j] # NoConn /\ Open(peers[j]) => peers'[j] = peers[j]
    <2>1. CASE PushTo(i) /\ peers[i] # NoConn /\ Open(peers[i])
      <3>1. peers[i] \in Conns /\ queue[peers[i]] + 1 \in 0..MaxQueue
        BY <1>0, <2>1, ChannelAssumption DEF PushTo, ChannelTypeOK
      <3>2. QED
        BY <1>0, <2>1, <3>1 DEF PushTo, ChannelTypeOK
    <2>2. CASE PushTo(i) /\ ~(peers[i] # NoConn /\ Open(peers[i]))
      BY <1>0, <2>2 DEF PushTo, ChannelTypeOK
    <2>3. CASE Unpin(i)
      BY <1>0, <2>3 DEF Unpin, ChannelTypeOK
    <2>4. QED
      BY <2>1, <2>2, <2>3
  <1>3. ChannelTypeOK'
    BY <1>0, <1>1, <1>2 DEF ChannelTypeOK
  <1>4. RevokedIsRefused' /\ InIsSecured' /\ RevokedIsWaiting'
    BY <1>1 DEF ChannelIInv, ChannelInv, RevokedIsRefused, InIsSecured, RevokedIsWaiting
  <1>5. NotYetIn'
    BY <1>0, <1>1, <1>2, ChannelAssumption DEF ChannelIInv, NotYetIn
  <1>6. LatestIsReached'
    BY <1>0, <1>1, <1>2 DEF ChannelIInv, LatestIsReached, Open
  <1>7. ChannelIsProven'
    BY <1>0, <1>1, <1>2 DEF ChannelIInv, ChannelInv, ChannelIsProven, Open
  <1>8. QED
    BY <1>3, <1>4, <1>5, <1>6, <1>7 DEF ChannelIInv, ChannelInv

-----------------------------------------------------------------------------
LEMMA ChannelNextInv == ChannelIInv /\ [ChannelNext]_channelVars => ChannelIInv'
  <1> SUFFICES ASSUME ChannelIInv, [ChannelNext]_channelVars PROVE ChannelIInv'
    OBVIOUS
  <1>0. ChannelTypeOK
    BY DEF ChannelIInv, ChannelInv
  <1>1. ASSUME NEW c \in Conns, NEW kind \in Replies, NEW id \in Ids \cup {NoId},
               ClientReplies(c, kind, id)
        PROVE  ChannelIInv'
    <2>1. client' \in [Conns -> BOOLEAN]
      BY <1>0, <1>1 DEF ClientReplies, ChannelTypeOK
    <2>2. QED
      BY <1>1, <2>1, SendsKeeps DEF ClientReplies
  <1>2. ASSUME NEW c \in Conns, NEW kind \in RequestFrames, NEW id \in Ids \cup {NoId},
               ClientAsks(c, kind, id)
        PROVE  ChannelIInv'
    <2>1. client' \in [Conns -> BOOLEAN]
      BY <1>0, <1>2 DEF ClientAsks, ChannelTypeOK
    <2>2. QED
      BY <1>2, <2>1, SendsKeeps DEF ClientAsks
  <1>3. ASSUME NEW c \in Conns, WritePush(c) PROVE ChannelIInv'
    <2>1. queue' \in [Conns -> 0..MaxQueue]
      BY <1>0, <1>3, ChannelAssumption DEF WritePush, ChannelTypeOK
    <2>2. ChannelTypeOK'
      BY <1>0, <1>3, <2>1 DEF WritePush, ChannelTypeOK
    <2>3. RevokedIsRefused' /\ ChannelIsProven'
      BY <1>3 DEF WritePush, ChannelIInv, ChannelInv, RevokedIsRefused, ChannelIsProven, Open
    <2>4. LatestIsReached' /\ NotYetIn' /\ InIsSecured' /\ RevokedIsWaiting'
      BY <1>3
      DEF WritePush, ChannelIInv, LatestIsReached, NotYetIn, InIsSecured, RevokedIsWaiting, Open
    <2>5. QED
      BY <2>2, <2>3, <2>4 DEF ChannelIInv, ChannelInv
  <1>4. ASSUME NEW c \in Conns, LoopEnds(c) PROVE ChannelIInv'
    BY <1>4, CloseKeeps DEF LoopEnds
  <1>5. CASE UNCHANGED channelVars
    BY <1>5 DEF channelVars, ChannelIInv, ChannelInv, ChannelTypeOK, RevokedIsRefused,
                ChannelIsProven, LatestIsReached, NotYetIn, InIsSecured, RevokedIsWaiting, Open
  <1>6. CASE \E i \in Ids : PushTo(i) \/ Unpin(i)
    BY <1>6, OthersKeep
  <1>7. ASSUME NEW on \in BOOLEAN, SetRequire(on) PROVE ChannelIInv'
    <2>1. UNCHANGED <<mode, pinned, conn, client, wire, queue, peers, latest>>
      BY <1>7 DEF SetRequire
    <2>2. ChannelTypeOK'
      BY <1>0, <1>7 DEF SetRequire, ChannelTypeOK
    <2>3. RevokedIsRefused' /\ ChannelIsProven'
      BY <2>1 DEF ChannelIInv, ChannelInv, RevokedIsRefused, ChannelIsProven, Open
    <2>4. LatestIsReached' /\ NotYetIn' /\ InIsSecured' /\ RevokedIsWaiting'
      BY <2>1
      DEF ChannelIInv, LatestIsReached, NotYetIn, InIsSecured, RevokedIsWaiting, Open
    <2>5. QED
      BY <2>2, <2>3, <2>4 DEF ChannelIInv, ChannelInv
  <1>8. ASSUME NEW c \in Conns, Accepted(c) PROVE ChannelIInv'
    BY <1>8, AcceptedKeeps
  <1>9. ASSUME NEW c \in Conns, Reply(c) \/ ReplyTimesOut(c) PROVE ChannelIInv'
    BY <1>9, HandshakeKeeps
  <1>10. ASSUME NEW c \in Conns, ReadFrame(c) PROVE ChannelIInv'
    BY <1>10, ReadFrameKeeps
  <1>11. ASSUME NEW c \in Conns, HandleRegister(c) \/ HandleAsk(c) \/ HandleOther(c)
         PROVE  ChannelIInv'
    BY <1>11, HandleKeeps
  <1>12. QED
    BY <1>1, <1>2, <1>3, <1>4, <1>5, <1>6, <1>7, <1>8, <1>9, <1>10, <1>11
    DEF ChannelNext, Replies, RequestFrames

\* Types, refusal of removed keys and proven channels, whatever the connections, clients and
\* the operator do (handle_listener_inner, handle_tcp).
THEOREM ChannelInvariant == ChannelSpec => []ChannelInv
  <1>1. ChannelIInv => ChannelInv
    BY DEF ChannelIInv
  <1>2. QED
    BY <1>1, ChannelInitInv, ChannelNextInv, PTL DEF ChannelSpec

\* A push reaches the connection an id registered on last, while it is open
\* (register_peer_push, push_to_peer).
THEOREM LatestIsAlwaysReached == ChannelSpec => []LatestIsReached
  <1>1. ChannelIInv => LatestIsReached
    BY DEF ChannelIInv
  <1>2. QED
    BY <1>1, ChannelInitInv, ChannelNextInv, PTL DEF ChannelSpec

-----------------------------------------------------------------------------
(* The limits on an address.                                               *)

Punches == [pair : Pairs, age : 0..OldestPunch]

\* How long an address has been refused bounds the ages of its counters from below: the ids
\* have not been counted since it was first refused, and the attempts not since the ids
\* went out of their window.
RefusalsAgeTheCounters ==
  \A a \in Addresses : refused[a] # 0 /\ blocker[a] # Unseen =>
    /\ blocker[a].idsAge = OldestIds \/ refused[a] <= blocker[a].idsAge + 1
    /\ blocker[a].age = OldestAttempt \/ refused[a] <= blocker[a].age + IdsFor + 2

\* PUNCH_REQS is in the order the requests came in.
OldestFirst ==
  \A i, j \in 1..Len(punches) : i < j => punches[i].age >= punches[j].age

\* The inductive invariant.
LimitsIInv == LimitsTypeOK /\ RefusalsAgeTheCounters /\ NotedOnce /\ OldestFirst

LEMMA LimitsAreNaturals ==
  /\ AttemptLimit \in Nat /\ IdLimit \in Nat /\ BlockFor \in Nat /\ IdsFor \in Nat
  /\ DedupeFor \in Nat /\ LookBack \in Nat /\ MAX_PUNCH_REQS \in Nat
  BY LimitsAssumption

\* Some number of a bounded set of numbers is the greatest.
LEMMA GreatestOfInterval ==
  ASSUME NEW n \in Nat, NEW T \in SUBSET (1..n), T # {}
  PROVE  \E m \in T : \A k \in T : k <= m
  <1> DEFINE above == {k..n : k \in T}
  <1>1. above \subseteq FiniteSubsetsOf(Nat) /\ above # {}
    <2>1. \A k \in T : IsFiniteSet(k..n) /\ k..n \subseteq Nat
      BY FS_Interval
    <2>2. \A k \in T : k..n \in FiniteSubsetsOf(Nat)
      BY <2>1 DEF FiniteSubsetsOf
    <2>3. QED
      BY <2>2
  <1>2. PICK b \in above : \A c \in above : ~ (<<c, b>> \in StrictSubsetOrdering(Nat))
    BY <1>1, WFMin, FS_StrictSubsetOrderingWellFounded
  <1>3. PICK m \in T : b = m..n
    OBVIOUS
  <1>4. ASSUME NEW k \in T, m < k PROVE FALSE
    <2>1. k..n \in above /\ k..n \subseteq m..n /\ m \in m..n /\ m \notin k..n
      BY <1>4
    <2>2. <<k..n, m..n>> \in StrictSubsetOrdering(Nat)
      BY <2>1 DEF StrictSubsetOrdering
    <2>3. QED
      BY <1>2, <1>3, <2>1, <2>2
  <1>5. QED
    BY <1>4

\* When the oldest are dropped, the others keep their order and their distances.
LEMMA BoundedKeeps ==
  ASSUME NEW s \in Seq(Punches), punches' = Bounded(s)
  PROVE  /\ punches' \in Seq(Punches) /\ Len(punches') <= MAX_PUNCH_REQS
         /\ \E d \in Nat : \A i \in 1..Len(punches') : i + d \in 1..Len(s) /\ punches'[i] = s[i + d]
  <1> USE LimitsAreNaturals
  <1>1. CASE Len(s) <= MAX_PUNCH_REQS
    BY <1>1 DEF Bounded
  <1>2. CASE Len(s) > MAX_PUNCH_REQS
    <2> DEFINE d == Len(s) - MAX_PUNCH_REQS
    <2>1. d \in Nat /\ punches' = SubSeq(s, d + 1, Len(s)) /\ MAX_PUNCH_REQS \in Nat
      BY <1>2 DEF Bounded
    <2>2. \A i \in (d + 1)..Len(s) : s[i] \in Punches
      BY <2>1
    <2>3. punches' \in Seq(Punches) /\ Len(punches') = Len(s) - d /\ \A i \in 1..Len(punches') : punches'[i] = s[d + i]
      BY <2>1, <2>2, SubSeqProperties
    <2> HIDE DEF d
    <2>4. Len(punches') <= MAX_PUNCH_REQS
      BY <2>3 DEF d
    <2>5. \A i \in 1..Len(punches') : i + d \in 1..Len(s) /\ punches'[i] = s[i + d]
      <3> SUFFICES ASSUME NEW i \in 1..Len(punches') PROVE i + d \in 1..Len(s) /\ punches'[i] = s[i + d]
        OBVIOUS
      <3>1. i + d = d + i /\ i + d \in 1..Len(s)
        BY <2>1, <2>3
      <3>2. QED
        BY <2>3, <3>1
    <2>6. QED
      BY <2>1, <2>3, <2>4, <2>5
  <1>3. QED
    BY <1>1, <1>2

\* handle_punch_hole_request: where no request of the pair is recent, another is noted far
\* enough from the last.
LEMMA PunchKeeps ==
  ASSUME LimitsIInv, NEW p \in Pairs, ~Recent(p), NEW s, s = Append(punches, [pair |-> p, age |-> 0])
  PROVE  /\ s \in Seq(Punches)
         /\ \A i, j \in 1..Len(s) : i < j => s[i].age >= s[j].age
         /\ \A i, j \in 1..Len(s) : i < j /\ s[i].pair = s[j].pair /\ s[i].age < DedupeFor => j - i > LookBack
  <1> USE LimitsAreNaturals
  <1> DEFINE new == [pair |-> p, age |-> 0]
             n == Len(punches)
  <1>1. punches \in Seq(Punches) /\ n \in Nat /\ DOMAIN punches = 1..n
    BY DEF LimitsIInv, LimitsTypeOK, Punches
  <1>2. new \in Punches
    BY DEF Punches, OldestPunch
  <1>3. /\ s \in Seq(Punches) /\ Len(s) = n + 1
        /\ \A i \in 1..n : s[i] = punches[i]
        /\ s[n + 1] = new
    BY <1>1, <1>2
  <1>4. ASSUME NEW i \in 1..n PROVE punches[i].age \in Nat /\ punches[i].age <= DedupeFor
    <2>1. punches[i] \in Punches
      BY <1>1
    <2>2. QED
      BY <2>1 DEF Punches, OldestPunch
  <1> HIDE DEF n
  <1>5. ASSUME NEW i \in 1..(n + 1), NEW j \in 1..(n + 1), i < j
        PROVE  s[i].age >= s[j].age
    BY <1>1, <1>3, <1>4, <1>5 DEF LimitsIInv, OldestFirst, n
  <1>6. ASSUME NEW i \in 1..n, punches[i].pair = p, punches[i].age < DedupeFor
        PROVE  n + 1 - i > LookBack
    <2> DEFINE last == {k \in 1..n : k > n - LookBack /\ punches[k].pair = p}
    <2>1. SUFFICES ASSUME i > n - LookBack PROVE FALSE
      BY <1>1
    <2>2. last \in SUBSET (1..n) /\ i \in last
      BY <1>6, <2>1
    <2>3. PICK m \in last : \A k \in last : k <= m
      BY <1>1, <2>2, GreatestOfInterval
    <2>4. ~(punches[m].age < DedupeFor)
      BY <1>1, <2>3 DEF Recent, n
    <2>5. i = m \/ punches[i].age >= punches[m].age
      BY <1>1, <2>2, <2>3 DEF LimitsIInv, OldestFirst, n
    <2>6. QED
      BY <1>4, <1>6, <2>2, <2>4, <2>5
  <1>7. ASSUME NEW i \in 1..(n + 1), NEW j \in 1..(n + 1), i < j, s[i].pair = s[j].pair, s[i].age < DedupeFor
        PROVE  j - i > LookBack
    <2>1. CASE j = n + 1
      <3>1. i \in 1..n /\ s[j].pair = p
        BY <1>1, <1>3, <1>7, <2>1
      <3>2. punches[i].pair = p /\ punches[i].age < DedupeFor
        BY <1>3, <1>7, <3>1
      <3>3. QED
        BY <1>1, <1>6, <2>1, <3>1, <3>2
    <2>2. CASE j # n + 1
      <3>1. i \in 1..n /\ j \in 1..n
        BY <1>1, <1>7, <2>2
      <3>2. punches[i].pair = punches[j].pair /\ punches[i].age < DedupeFor
        BY <1>3, <1>7, <3>1
      <3>3. QED
        BY <1>1, <1>7, <3>1, <3>2 DEF LimitsIInv, NotedOnce
    <2>3. QED
      BY <2>1, <2>2
  <1>8. QED
    BY <1>3, <1>5, <1>7

\* What is left of the notes keeps both properties.
LEMMA SuffixKeeps ==
  ASSUME NEW s \in Seq(Punches), punches' \in Seq(Punches), NEW d \in Nat,
         \A i \in 1..Len(punches') : i + d \in 1..Len(s) /\ punches'[i] = s[i + d],
         \A i, j \in 1..Len(s) : i < j => s[i].age >= s[j].age,
         \A i, j \in 1..Len(s) : i < j /\ s[i].pair = s[j].pair /\ s[i].age < DedupeFor => j - i > LookBack
  PROVE  NotedOnce' /\ OldestFirst'
  <1>1. OldestFirst'
    <2> SUFFICES ASSUME NEW i \in 1..Len(punches'), NEW j \in 1..Len(punches'), i < j
                 PROVE  punches'[i].age >= punches'[j].age
      BY DEF OldestFirst
    <2>1. i + d < j + d
      OBVIOUS
    <2>2. QED
      BY <2>1
  <1>2. NotedOnce'
    <2> SUFFICES ASSUME NEW i \in 1..Len(punches'), NEW j \in 1..Len(punches'), i < j,
                        punches'[i].pair = punches'[j].pair, punches'[i].age < DedupeFor
                 PROVE  j - i > LookBack
      <3>1. DOMAIN punches' = 1..Len(punches')
        OBVIOUS
      <3>2. QED
        BY <3>1 DEF NotedOnce
    <2>1. i + d < j + d /\ (j + d) - (i + d) = j - i
      OBVIOUS
    <2>2. QED
      BY <2>1
  <1>3. QED
    BY <1>1, <1>2

LEMMA LimitsImplied == LimitsIInv => LimitsInv
  <1> SUFFICES ASSUME LimitsIInv PROVE LockoutEnds
    BY DEF LimitsIInv, LimitsInv
  <1> SUFFICES ASSUME NEW a \in Addresses, NEW id \in RegIds, refused[a] = LongRefused, blocker[a] # Unseen
               PROVE  AttemptPasses(blocker[a]) /\ ~Crowded(blocker[a])
    BY DEF LockoutEnds
  <1>1. blocker[a].age \in 0..OldestAttempt /\ blocker[a].idsAge \in 0..OldestIds
    BY DEF LimitsIInv, LimitsTypeOK, Counters
  <1>2. blocker[a].idsAge = OldestIds /\ blocker[a].age = OldestAttempt
    BY <1>1, LimitsAreNaturals
       DEF LimitsIInv, RefusalsAgeTheCounters, LongRefused, OldestIds, OldestAttempt
  <1>3. QED
    BY <1>2, LimitsAreNaturals DEF AttemptPasses, Crowded, OldestIds, OldestAttempt

LEMMA LimitsInitInv == LimitsInit => LimitsIInv
  BY LimitsAreNaturals
     DEF LimitsInit, LimitsIInv, LimitsTypeOK, RefusalsAgeTheCounters, NotedOnce, OldestFirst, LongRefused

\* check_ip_blocker: another attempt of an address that has an entry.
LEMMA AttemptKeeps ==
  ASSUME LimitsIInv, NEW a \in Addresses, NEW id \in RegIds, Attempt(a, id)
  PROVE  LimitsIInv'
  <1> DEFINE b == blocker[a]
  <1> USE LimitsAreNaturals DEF LimitsIInv
  <1>1. b # Unseen /\ b \in Counters /\ UNCHANGED punches
    BY DEF Attempt, LimitsTypeOK
  <1>2. b.attempts \in Nat /\ b.age \in 0..OldestAttempt /\ b.ids \subseteq RegIds /\ b.idsAge \in 0..OldestIds
    BY <1>1 DEF Counters
  <1>3. NotedOnce' /\ OldestFirst'
    BY <1>1 DEF NotedOnce, OldestFirst
  <1>4. CASE ~AttemptPasses(b)
    <2>1. UNCHANGED blocker /\ refused' = [refused EXCEPT ![a] = IF @ = 0 THEN 1 ELSE @]
      BY <1>4 DEF Attempt, Refuse
    <2>2. LimitsTypeOK'
      BY <1>1, <2>1 DEF LimitsTypeOK, LongRefused
    <2>3. RefusalsAgeTheCounters'
      BY <1>2, <2>1 DEF RefusalsAgeTheCounters, LimitsTypeOK
    <2>4. QED
      BY <1>3, <2>2, <2>3
  <1>5. CASE AttemptPasses(b)
    <2> DEFINE c == AttemptCounted(b)
               new == IdCounted(c, id)
    <2>1. blocker' = [blocker EXCEPT ![a] = IdCounted(AttemptCounted(b), id)]
      BY <1>1, <1>5 DEF Attempt
    <2>2. /\ c \in Counters /\ c.age = 0 /\ c.ids = b.ids /\ c.idsAge = b.idsAge
      <3> DEFINE m == IF b.age > BlockFor THEN 1 ELSE b.attempts + 1
      <3>1. m \in Nat /\ 0 \in 0..OldestAttempt
        BY <1>2 DEF OldestAttempt
      <3>2. c = [b EXCEPT !.attempts = m, !.age = 0]
        BY DEF AttemptCounted
      <3> HIDE DEF m, c
      <3>3. QED
        BY <1>1, <3>1, <3>2 DEF Counters
    <2>3. Crowded(c) <=> Crowded(b)
      BY <2>2 DEF Crowded
    <2> HIDE DEF c
    <2>4. new \in Counters /\ new.age = 0 /\ (Crowded(b) => new.idsAge = b.idsAge)
      <3>1. CASE Crowded(c)
        BY <2>2, <2>3, <3>1 DEF IdCounted
      <3>2. CASE ~Crowded(c)
        <4> DEFINE ids == IF c.idsAge > IdsFor /\ id \in c.ids THEN {}
                          ELSE (IF c.idsAge > IdsFor THEN {} ELSE c.ids) \cup {id}
        <4>1. new = [c EXCEPT !.ids = ids, !.idsAge = 0]
          BY <3>2 DEF IdCounted
        <4>2. ids \subseteq RegIds
          BY <1>2, <2>2
        <4> HIDE DEF ids, new
        <4>3. 0 \in 0..OldestIds
          BY DEF OldestIds
        <4>4. QED
          BY <2>2, <2>3, <3>2, <4>1, <4>2, <4>3 DEF Counters
      <3>3. QED
        BY <3>1, <3>2
    <2> HIDE DEF new
    <2>5. blocker' = [blocker EXCEPT ![a] = new]
      BY <2>1 DEF new, c
    <2>6. CASE Crowded(b) /\ id \notin b.ids
      <3>1. refused' = [refused EXCEPT ![a] = IF @ = 0 THEN 1 ELSE @]
        BY <1>1, <1>5, <2>6 DEF Attempt, Refuse
      <3>2. LimitsTypeOK'
        BY <1>1, <2>4, <2>5, <3>1 DEF LimitsTypeOK, LongRefused
      <3>3. b.idsAge <= IdsFor
        BY <2>6 DEF Crowded
      <3>4. refused[a] \in Nat /\ (refused[a] # 0 => refused[a] <= b.idsAge + 1)
        BY <1>1, <1>2, <3>3 DEF RefusalsAgeTheCounters, LimitsTypeOK, OldestIds
      <3>5. new.age = 0 /\ new.idsAge = b.idsAge
        BY <2>4, <2>6
      <3>6. RefusalsAgeTheCounters'
        <4> SUFFICES ASSUME NEW x \in Addresses, refused'[x] # 0, blocker'[x] # Unseen
                     PROVE  /\ blocker'[x].idsAge = OldestIds \/ refused'[x] <= blocker'[x].idsAge + 1
                            /\ blocker'[x].age = OldestAttempt \/ refused'[x] <= blocker'[x].age + IdsFor + 2
          BY DEF RefusalsAgeTheCounters
        <4>1. CASE x = a
          <5>1. blocker'[x] = new /\ refused'[x] = IF refused[a] = 0 THEN 1 ELSE refused[a]
            BY <2>5, <3>1, <4>1 DEF LimitsTypeOK
          <5>2. QED
            BY <5>1, <1>2, <3>3, <3>4, <3>5
        <4>2. CASE x # a
          BY <4>2, <2>5, <3>1 DEF RefusalsAgeTheCounters, LimitsTypeOK
        <4>3. QED
          BY <4>1, <4>2
      <3>7. QED
        BY <1>3, <3>2, <3>6
    <2>7. CASE ~(Crowded(b) /\ id \notin b.ids)
      <3>1. refused' = [refused EXCEPT ![a] = 0]
        BY <1>1, <1>5, <2>7 DEF Attempt, Admit
      <3>2. LimitsTypeOK'
        BY <1>1, <2>4, <2>5, <3>1 DEF LimitsTypeOK, LongRefused
      <3>3. RefusalsAgeTheCounters'
        BY <2>5, <3>1 DEF RefusalsAgeTheCounters, LimitsTypeOK
      <3>4. QED
        BY <1>3, <3>2, <3>3
    <2>8. QED
      BY <2>6, <2>7
  <1>6. QED
    BY <1>4, <1>5

\* Time passes for every counter and every note.
LEMMA LimitsTickKeeps == LimitsIInv /\ LimitsTick => LimitsIInv'
  <1> SUFFICES ASSUME LimitsIInv, LimitsTick PROVE LimitsIInv'
    OBVIOUS
  <1> USE LimitsAreNaturals DEF LimitsIInv
  <1>1. \A max \in Nat : \A age \in 0..max : Older(age, max) \in 0..max /\ (age >= 1 => Older(age, max) >= 1)
    BY DEF Older
  <1>2. OldestAttempt \in Nat /\ OldestIds \in Nat /\ LongRefused \in Nat /\ OldestPunch \in Nat
    BY DEF OldestAttempt, OldestIds, LongRefused, OldestPunch
  <1>3. ASSUME NEW a \in Addresses
        PROVE  /\ blocker'[a] \in Counters \cup {Unseen} /\ refused'[a] \in 0..LongRefused
               /\ refused'[a] # 0 /\ blocker'[a] # Unseen =>
                    /\ blocker'[a].idsAge = OldestIds \/ refused'[a] <= blocker'[a].idsAge + 1
                    /\ blocker'[a].age = OldestAttempt \/ refused'[a] <= blocker'[a].age + IdsFor + 2
    <2> DEFINE b == blocker[a]
               n == refused[a]
    <2>1. b \in Counters \cup {Unseen} /\ n \in 0..LongRefused
      BY DEF LimitsTypeOK
    <2>2. refused'[a] = IF n = 0 THEN 0 ELSE Older(n, LongRefused)
      BY DEF LimitsTick
    <2>3. refused'[a] \in 0..LongRefused /\ (refused'[a] # 0 => n # 0 /\ refused'[a] <= n + 1)
      BY <1>2, <2>1, <2>2 DEF Older
    <2>4. CASE b = Unseen
      BY <2>3, <2>4 DEF LimitsTick
    <2>5. CASE b # Unseen
      <3>1. blocker'[a] = [b EXCEPT !.age = Older(b.age, OldestAttempt), !.idsAge = Older(b.idsAge, OldestIds)]
        BY <2>5 DEF LimitsTick
      <3>2. b.age \in 0..OldestAttempt /\ b.idsAge \in 0..OldestIds /\ b \in Counters
        BY <2>1, <2>5 DEF Counters
      <3>3. /\ Older(b.age, OldestAttempt) \in 0..OldestAttempt
            /\ Older(b.age, OldestAttempt) = OldestAttempt \/ Older(b.age, OldestAttempt) = b.age + 1
            /\ Older(b.idsAge, OldestIds) \in 0..OldestIds
            /\ Older(b.idsAge, OldestIds) = OldestIds \/ Older(b.idsAge, OldestIds) = b.idsAge + 1
        BY <1>2, <3>2 DEF Older
      <3>4. /\ blocker'[a] \in Counters
            /\ blocker'[a].age = Older(b.age, OldestAttempt) /\ blocker'[a].idsAge = Older(b.idsAge, OldestIds)
        BY <3>1, <3>2, <3>3 DEF Counters
      <3>5. n # 0 => /\ b.idsAge = OldestIds \/ n <= b.idsAge + 1
                     /\ b.age = OldestAttempt \/ n <= b.age + IdsFor + 2
        BY <2>5 DEF RefusalsAgeTheCounters
      <3>6. /\ b.age = OldestAttempt => Older(b.age, OldestAttempt) = OldestAttempt
            /\ b.idsAge = OldestIds => Older(b.idsAge, OldestIds) = OldestIds
        BY <1>2 DEF Older
      <3>7. IdsFor \in Nat
        OBVIOUS
      <3>8. QED
        BY <1>2, <2>1, <2>3, <3>2, <3>3, <3>4, <3>5, <3>6, <3>7
    <2>6. QED
      BY <2>4, <2>5
  <1>4. /\ punches' \in Seq(Punches) /\ Len(punches') = Len(punches)
        /\ \A i \in 1..Len(punches) : /\ punches'[i].pair = punches[i].pair
                                      /\ punches'[i].age = Older(punches[i].age, OldestPunch)
                                      /\ punches[i].age \in 0..OldestPunch
    <2>1. punches \in Seq(Punches) /\ DOMAIN punches = 1..Len(punches) /\ Len(punches) \in Nat
      BY DEF LimitsTypeOK, Punches
    <2>2. punches' = [i \in 1..Len(punches) |-> [punches[i] EXCEPT !.age = Older(punches[i].age, OldestPunch)]]
      BY <2>1 DEF LimitsTick
    <2>3. ASSUME NEW i \in 1..Len(punches)
          PROVE  /\ punches'[i] \in Punches /\ punches'[i].pair = punches[i].pair
                 /\ punches'[i].age = Older(punches[i].age, OldestPunch) /\ punches[i].age \in 0..OldestPunch
      <3>1. punches[i] \in Punches
        BY <2>1
      <3>2. QED
        BY <1>1, <1>2, <2>2, <3>1 DEF Punches
    <2>4. punches' \in Seq(Punches) /\ Len(punches') = Len(punches)
      <3>1. punches' \in [1..Len(punches) -> Punches]
        BY <2>2, <2>3
      <3>2. QED
        BY <2>1, <3>1, SeqDef
    <2>5. QED
      BY <2>3, <2>4
  <1>5. LimitsTypeOK'
    <2>1. blocker' \in [Addresses -> Counters \cup {Unseen}] /\ refused' \in [Addresses -> 0..LongRefused]
      <3>1. /\ blocker' = [a \in Addresses |-> blocker'[a]] /\ refused' = [a \in Addresses |-> refused'[a]]
        BY DEF LimitsTick
      <3>2. QED
        BY <1>3, <3>1
    <2>2. QED
      BY <1>4, <2>1 DEF LimitsTypeOK, Punches
  <1>6. RefusalsAgeTheCounters'
    BY <1>3 DEF RefusalsAgeTheCounters
  <1>7. OldestFirst'
    <2> SUFFICES ASSUME NEW i \in 1..Len(punches), NEW j \in 1..Len(punches), i < j
                 PROVE  punches'[i].age >= punches'[j].age
      BY <1>4 DEF OldestFirst
    <2>1. punches[i].age >= punches[j].age
      BY DEF OldestFirst
    <2>2. QED
      BY <1>2, <1>4, <2>1 DEF Older
  <1>8. NotedOnce'
    <2> SUFFICES ASSUME NEW i \in 1..Len(punches), NEW j \in 1..Len(punches), i < j,
                        punches'[i].pair = punches'[j].pair, punches'[i].age < DedupeFor
                 PROVE  j - i > LookBack
      BY <1>4 DEF NotedOnce
    <2>1. punches[i].pair = punches[j].pair /\ punches[i].age < DedupeFor
      BY <1>4 DEF Older, OldestPunch
    <2>2. DOMAIN punches = 1..Len(punches)
      BY DEF LimitsTypeOK
    <2>3. QED
      BY <2>1, <2>2 DEF NotedOnce
  <1>9. QED
    BY <1>5, <1>6, <1>7, <1>8

LEMMA LimitsNextInv == LimitsIInv /\ [LimitsNext]_limitVars => LimitsIInv'
  <1> SUFFICES ASSUME LimitsIInv, [LimitsNext]_limitVars PROVE LimitsIInv'
    OBVIOUS
  <1> USE LimitsAreNaturals
  <1>1. ASSUME NEW a \in Addresses, FirstAttempt(a) PROVE LimitsIInv'
    BY <1>1 DEF FirstAttempt, Admit, LimitsIInv, LimitsTypeOK, Counters, RefusalsAgeTheCounters, NotedOnce,
                OldestFirst, OldestAttempt, OldestIds, LongRefused
  <1>2. ASSUME NEW cleared \in SUBSET Addresses, CommandIpBlocker(cleared) PROVE LimitsIInv'
    <2>1. LimitsTypeOK'
      BY <1>2 DEF CommandIpBlocker, LimitsIInv, LimitsTypeOK, LongRefused
    <2>2. RefusalsAgeTheCounters'
      BY <1>2 DEF CommandIpBlocker, LimitsIInv, LimitsTypeOK, RefusalsAgeTheCounters
    <2>3. NotedOnce' /\ OldestFirst'
      BY <1>2 DEF CommandIpBlocker, LimitsIInv, NotedOnce, OldestFirst
    <2>4. QED
      BY <2>1, <2>2, <2>3 DEF LimitsIInv
  <1>3. ASSUME NEW p \in Pairs, Punch(p) PROVE LimitsIInv'
    <2>1. UNCHANGED <<blocker, refused>>
      BY <1>3 DEF Punch
    <2>2. CASE Recent(p)
      BY <1>3, <2>1, <2>2 DEF Punch, LimitsIInv, LimitsTypeOK, RefusalsAgeTheCounters, NotedOnce, OldestFirst
    <2>3. CASE ~Recent(p)
      <3> DEFINE s == Append(punches, [pair |-> p, age |-> 0])
      <3>1. punches' = Bounded(s)
        BY <1>3, <2>3 DEF Punch
      <3>2. /\ s \in Seq(Punches)
            /\ \A i, j \in 1..Len(s) : i < j => s[i].age >= s[j].age
            /\ \A i, j \in 1..Len(s) :
                 i < j /\ s[i].pair = s[j].pair /\ s[i].age < DedupeFor => j - i > LookBack
        BY <2>3, PunchKeeps
      <3> HIDE DEF s
      <3>3. /\ punches' \in Seq(Punches) /\ Len(punches') <= MAX_PUNCH_REQS
            /\ \E d \in Nat : \A i \in 1..Len(punches') : i + d \in 1..Len(s) /\ punches'[i] = s[i + d]
        <4>1. s \in Seq(Punches)
          BY <3>2
        <4>2. QED
          BY <3>1, <4>1, BoundedKeeps
      <3>4. NotedOnce' /\ OldestFirst'
        BY <3>2, <3>3, SuffixKeeps
      <3>5. LimitsTypeOK' /\ RefusalsAgeTheCounters'
        BY <2>1, <3>3 DEF LimitsIInv, LimitsTypeOK, Punches, RefusalsAgeTheCounters
      <3>6. QED
        BY <3>4, <3>5 DEF LimitsIInv
    <2>4. QED
      BY <2>2, <2>3
  <1>4. CASE CommandClearPunches
    BY <1>4 DEF CommandClearPunches, LimitsIInv, LimitsTypeOK, RefusalsAgeTheCounters, NotedOnce, OldestFirst
  <1>5. CASE UNCHANGED limitVars
    BY <1>5 DEF limitVars, LimitsIInv, LimitsTypeOK, RefusalsAgeTheCounters, NotedOnce, OldestFirst
  <1>6. QED
    BY <1>1, <1>2, <1>3, <1>4, <1>5, AttemptKeeps, LimitsTickKeeps DEF LimitsNext

\* For any limits, windows and clients: nobody is shut out for longer than both windows last,
\* however often it tries, and a pair is noted once a window as far as the look back reaches
\* (check_ip_blocker, handle_punch_hole_request).
THEOREM LimitsInvariant == LimitsSpec => []LimitsInv
  <1>1. QED
    BY LimitsImplied, LimitsInitInv, LimitsNextInv, PTL DEF LimitsSpec
=============================================================================
