----------------------------- MODULE RelayPairing ----------------------------
(***************************************************************************)
(* How hbbr joins the two sides of a session (relay_server.rs).            *)
(*                                                                         *)
(* Every accepted connection has a task.  After the key exchange it reads  *)
(* one RequestRelay, whose uuid must be a grant hbbs signed and that has   *)
(* not expired.  The task then looks its grant up in PEERS: it takes the   *)
(* stream parked there and relays, or parks its own stream and sleeps.     *)
(*                                                                         *)
(* The look-up and the insertion are two lock acquisitions, the park timer *)
(* removes by grant and not by stream, and USAGE and SESSION_LABELS are    *)
(* written under locks of their own: each is an action here.               *)
(***************************************************************************)
EXTENDS Naturals, FiniteSets

CONSTANTS Conns,      \* connections
          Ips,        \* addresses as BLOCKLIST may hold them, as text
          RawIp,      \* addr.ip() of each connection; of an IPv4 peer of the dual-stack
                      \* listener it is the mapped form ::ffff:a.b.c.d
          V4Ip,       \* try_into_v4(addr).ip(), the form a.b.c.d
          Grants,     \* grants signed with the server key
          Expiry,     \* the tick at which a grant stops verifying
          ParkTime,   \* how long a task sleeps after parking its stream (30 s)
          MaxNow,     \* bound: the clock stops here, once nobody sleeps
          NoGrant,    \* no grant shown yet
          NoConn      \* nothing parked under a grant

ASSUME PairingAssumption ==
  /\ RawIp \in [Conns -> Ips] /\ V4Ip \in [Conns -> Ips]
  /\ Expiry \in [Grants -> Nat]
  /\ ParkTime \in Nat
  /\ MaxNow \in Nat
  /\ NoGrant \notin Grants
  /\ NoConn \notin Conns

VARIABLES
  now,       \* the clock
  pc,        \* where the task of each connection is
  grant,     \* the verified uuid of each connection
  deadline,  \* when the sleep of a parked connection ends
  slot,      \* PEERS: the connection whose stream is parked under each grant
  joined,    \* history: pairs <<joiner, parked>> made by a PEERS removal
  closed,    \* connections whose stream has been dropped
  usage,     \* USAGE, by joiner: no row, a row without bytes, a row with bytes
  labels,    \* SESSION_LABELS: the joiners that have one
  blocked    \* BLOCKLIST

vars == <<now, pc, grant, deadline, slot, joined, closed, usage, labels, blocked>>

Relaying == {"relaying", "stalled"}
Stages == {"new", "secured", "admitted", "vacant", "parked", "paired", "counted",
           "ended", "unlisted", "done"} \cup Relaying

TypeOK ==
  /\ now \in Nat
  /\ pc \in [Conns -> Stages]
  /\ grant \in [Conns -> Grants \cup {NoGrant}]
  /\ deadline \in [Conns -> Nat]
  /\ slot \in [Grants -> Conns \cup {NoConn}]
  /\ joined \subseteq Conns \X Conns
  /\ closed \subseteq Conns
  /\ usage \in [Conns -> {"none", "empty", "counted"}]
  /\ labels \subseteq Conns
  /\ blocked \subseteq Ips

Init ==
  /\ now = 0
  /\ pc = [c \in Conns |-> "new"]
  /\ grant = [c \in Conns |-> NoGrant]
  /\ deadline = [c \in Conns |-> 0]
  /\ slot = [g \in Grants |-> NoConn]
  /\ joined = {}
  /\ closed = {}
  /\ usage = [c \in Conns |-> "none"]
  /\ labels = {}
  /\ blocked \in SUBSET Ips

Step(c, from, to) == pc[c] \in from /\ pc' = [pc EXCEPT ![c] = to]

-----------------------------------------------------------------------------
(* Admission.                                                              *)

\* handle_connection: a blocked address, in its plain form, is dropped before it gets a task.
Accept(c) ==
  /\ IF V4Ip[c] \in blocked
       THEN Step(c, {"new"}, "done") /\ closed' = closed \cup {c}
       ELSE Step(c, {"new"}, "secured") /\ UNCHANGED closed
  /\ UNCHANGED <<now, grant, deadline, slot, joined, usage, labels, blocked>>

\* The key exchange or the first frame fails: a timeout, a frame of another kind, a
\* wrong licence key, a uuid that is empty or whose signature does not verify.
Refuse(c) ==
  /\ Step(c, {"secured"}, "done")
  /\ closed' = closed \cup {c}
  /\ UNCHANGED <<now, grant, deadline, slot, joined, usage, labels, blocked>>

\* Mutant: the expiry of the grant is not checked.
RequestRelay_Unexpiring(c, g) ==
  /\ Step(c, {"secured"}, "admitted")
  /\ grant' = [grant EXCEPT ![c] = g]
  /\ UNCHANGED <<now, deadline, slot, joined, closed, usage, labels, blocked>>

\* relay_grant_verify on a signed grant: only the expiry can still refuse it.
RequestRelay(c, g) ==
  /\ IF now < Expiry[g]
       THEN /\ Step(c, {"secured"}, "admitted")
            /\ grant' = [grant EXCEPT ![c] = g]
            /\ UNCHANGED closed
       ELSE /\ Step(c, {"secured"}, "done")
            /\ closed' = closed \cup {c}
            /\ UNCHANGED grant
  /\ UNCHANGED <<now, deadline, slot, joined, usage, labels, blocked>>

-----------------------------------------------------------------------------
(* Pairing.                                                                *)

\* PEERS.lock().await.remove(&rf.uuid): whoever removes the stream owns it.
TakeParked(c) ==
  LET g == grant[c]
  IN /\ Step(c, {"admitted"}, "paired")
     /\ slot[g] # NoConn
     /\ joined' = joined \cup {<<c, slot[g]>>}
     /\ slot' = [slot EXCEPT ![g] = NoConn]
     /\ UNCHANGED <<now, grant, deadline, closed, usage, labels, blocked>>

\* Nobody waits; another task can still park under the same grant before this one does.
FindNobody(c) ==
  /\ Step(c, {"admitted"}, "vacant")
  /\ slot[grant[c]] = NoConn
  /\ UNCHANGED <<now, grant, deadline, slot, joined, closed, usage, labels, blocked>>

\* PEERS.lock().await.insert(..): a stream parked in the meantime is dropped.
Park(c) ==
  LET g == grant[c]
  IN /\ Step(c, {"vacant"}, "parked")
     /\ slot' = [slot EXCEPT ![g] = c]
     /\ closed' = closed \cup ({slot[g]} \ {NoConn})
     /\ deadline' = [deadline EXCEPT ![c] = now + ParkTime]
     /\ UNCHANGED <<now, grant, joined, usage, labels, blocked>>

\* Mutants: the task drops its own stream, whoever holds it by now; the sleep is cut
\* short; the stream is left in PEERS.
Expire(c, gone, slots) ==
  /\ Step(c, {"parked"}, "done")
  /\ slot' = slots
  /\ closed' = closed \cup gone
  /\ UNCHANGED <<now, grant, deadline, joined, usage, labels, blocked>>
ParkExpires_Own(c) ==
  deadline[c] <= now /\ Expire(c, {c}, [slot EXCEPT ![grant[c]] = NoConn])
ParkExpires_Early(c) ==
  Expire(c, {slot[grant[c]]} \ {NoConn}, [slot EXCEPT ![grant[c]] = NoConn])
ParkExpires_Leaves(c) == deadline[c] <= now /\ Expire(c, {}, slot)

\* sleep(30.) is over, then PEERS.lock().await.remove(&rf.uuid): the stream that is
\* parked under the grant by now need not be the one this task parked.
ParkExpires(c) ==
  LET g == grant[c]
  IN /\ Step(c, {"parked"}, "done")
     /\ deadline[c] <= now
     /\ slot' = [slot EXCEPT ![g] = NoConn]
     /\ closed' = closed \cup ({slot[g]} \ {NoConn})
     /\ UNCHANGED <<now, grant, deadline, joined, usage, labels, blocked>>

-----------------------------------------------------------------------------
(* The relay and its accounting.                                           *)

\* Mutant: the label is never written.
InsertUsage_Unlabelled(c) ==
  /\ Step(c, {"paired"}, "relaying")
  /\ usage' = [usage EXCEPT ![c] = "empty"]
  /\ UNCHANGED <<now, grant, deadline, slot, joined, closed, labels, blocked>>

InsertUsage(c) ==
  /\ Step(c, {"paired"}, "counted")
  /\ usage' = [usage EXCEPT ![c] = "empty"]
  /\ UNCHANGED <<now, grant, deadline, slot, joined, closed, labels, blocked>>

InsertLabel(c) ==
  /\ Step(c, {"counted"}, "relaying")
  /\ labels' = labels \cup {c}
  /\ UNCHANGED <<now, grant, deadline, slot, joined, closed, usage, blocked>>

\* Mutant: the block list is not looked at once the relay runs.
Sample_Blind(c) ==
  /\ pc[c] = "relaying"
  /\ usage' = [usage EXCEPT ![c] = "counted"]
  /\ UNCHANGED <<now, pc, grant, deadline, slot, joined, closed, labels, blocked>>

\* Once a second the loop of `relay' looks at BLOCKLIST, for the joiner's address
\* only and as the socket has it, and rewrites the row.
Sample(c) ==
  /\ pc[c] = "relaying"
  /\ IF RawIp[c] \in blocked
       THEN Step(c, {"relaying"}, "ended") /\ UNCHANGED usage
       ELSE usage' = [usage EXCEPT ![c] = "counted"] /\ UNCHANGED pc
  /\ UNCHANGED <<now, grant, deadline, slot, joined, closed, labels, blocked>>

\* send_raw waits for a side that does not read; the loop, with its block list and
\* its idle timeout, stands still meanwhile.
Stall(c) ==
  /\ Step(c, {"relaying"}, "stalled")
  /\ UNCHANGED <<now, grant, deadline, slot, joined, closed, usage, labels, blocked>>

Resume(c) ==
  /\ Step(c, {"stalled"}, "relaying")
  /\ UNCHANGED <<now, grant, deadline, slot, joined, closed, usage, labels, blocked>>

\* Either side closes, an error in send_raw, or nothing received for 30 s.
EndRelay(c) ==
  /\ Step(c, Relaying, "ended")
  /\ UNCHANGED <<now, grant, deadline, slot, joined, closed, usage, labels, blocked>>

RemoveUsage(c) ==
  /\ Step(c, {"ended"}, "unlisted")
  /\ usage' = [usage EXCEPT ![c] = "none"]
  /\ UNCHANGED <<now, grant, deadline, slot, joined, closed, labels, blocked>>

\* The last thing the task does: both streams go with it.
RemoveLabel(c) ==
  /\ Step(c, {"unlisted"}, "done")
  /\ labels' = labels \ {c}
  /\ closed' = closed \cup {c} \cup {d \in Conns : <<c, d>> \in joined}
  /\ UNCHANGED <<now, grant, deadline, slot, joined, usage, blocked>>

-----------------------------------------------------------------------------
(* The command channel and the clock.                                      *)

\* blocklist-add and blocklist-remove, of one address or of all.
EditBlocklist(ip) ==
  /\ blocked' \in {blocked \cup {ip}, blocked \ {ip}, {}}
  /\ UNCHANGED <<now, pc, grant, deadline, slot, joined, closed, usage, labels>>

Tick ==
  /\ now < MaxNow \/ \E c \in Conns : pc[c] = "parked" /\ now < deadline[c]
  /\ now' = now + 1
  /\ UNCHANGED <<pc, grant, deadline, slot, joined, closed, usage, labels, blocked>>

-----------------------------------------------------------------------------

\* What the task does next without waiting for a peer or a timer.
TaskStep(c) ==
  \/ Accept(c) \/ TakeParked(c) \/ FindNobody(c) \/ Park(c)
  \/ InsertUsage(c) \/ InsertLabel(c) \/ RemoveUsage(c) \/ RemoveLabel(c)

PeerStep(c) ==
  \/ Refuse(c) \/ Sample(c) \/ Stall(c) \/ Resume(c) \/ EndRelay(c)
  \/ \E g \in Grants : RequestRelay(c, g)

Next ==
  \/ \E c \in Conns : TaskStep(c) \/ PeerStep(c) \/ ParkExpires(c)
  \/ \E ip \in Ips : EditBlocklist(ip)
  \/ Tick

\* Tasks are scheduled, time passes, the sleep ends, and the 3 s interval of `relay'
\* turns its loop whenever it does not wait in send_raw.
Fairness ==
  /\ WF_vars(Tick)
  /\ \A c \in Conns : WF_vars(TaskStep(c)) /\ WF_vars(ParkExpires(c)) /\ SF_vars(Sample(c))

Spec == Init /\ [][Next]_vars
FairSpec == Spec /\ Fairness

-----------------------------------------------------------------------------
(* Safety.                                                                 *)

\* No stream is handed out twice: a connection takes part in one relay at most,
\* and what is parked takes part in none and is still open.
StreamsHaveOneOwner ==
  /\ \A p, q \in joined : {p[1], p[2]} \cap {q[1], q[2]} # {} => p = q
  /\ \A p \in joined : p[1] # p[2]
  /\ \A g \in Grants, p \in joined : slot[g] \notin {p[1], p[2]}
  /\ \A g \in Grants : slot[g] \notin closed
  /\ \A g, h \in Grants : slot[g] = slot[h] /\ slot[g] # NoConn => g = h

\* Two connections are only ever joined on a grant both of them showed.
PairSharesGrant ==
  \A p \in joined : grant[p[1]] = grant[p[2]] /\ grant[p[1]] # NoGrant

\* A relay task never works on a stream that was dropped under it.
RelayOwnsBothStreams ==
  \A p \in joined : pc[p[1]] # "done" => p[1] \notin closed /\ p[2] \notin closed

\* Whenever usage-json could report bytes for a joiner, the joiner has a label, so
\* hbbs can tell whose bytes they are; neither outlives the task.
CountedRowIsLabelled ==
  \A c \in Conns : /\ usage[c] = "counted" => c \in labels
                   /\ pc[c] = "done" => usage[c] = "none" /\ c \notin labels

\* A parked stream is given up for no other reason than a joiner, a second
\* connection that found nobody under the same grant, or the timer of a task that
\* parked under the same grant.
ParkEndsForAReason ==
  [][\A g \in Grants, c \in Conns :
       (slot[g] = c /\ slot'[g] # c) =>
          \/ \E d \in Conns : pc[d] = "admitted" /\ <<d, c>> \in joined'
          \/ \E d \in Conns \ {c} : pc[d] = "vacant" /\ slot'[g] = d
          \/ \E d \in Conns : pc[d] = "parked" /\ grant[d] = g /\ deadline[d] <= now]_vars

\* RelayPairing implements RelayMatch.
Match == INSTANCE RelayMatch WITH clock <- now, admits <- grant
MatchSpec == Match!MatchSpec

-----------------------------------------------------------------------------
(* The inductive invariant behind the safety properties and the refinement. *)

InRelay(c) == \E p \in joined : c = p[1] \/ c = p[2]

Joiner == {"paired", "counted", "ended", "unlisted", "done"} \cup Relaying

\* What is parked waits for its grant, open and unpaired, while its task sleeps.
SlotsAreParked ==
  \A g \in Grants : slot[g] # NoConn =>
    /\ pc[slot[g]] = "parked" /\ grant[slot[g]] = g
    /\ slot[g] \notin closed /\ ~InRelay(slot[g])

\* A task that has not touched PEERS yet owns its stream.
EarlyTasksOwnTheirs ==
  \A c \in Conns :
    /\ pc[c] \in {"new", "secured"} => grant[c] = NoGrant
    /\ pc[c] \in {"admitted", "vacant", "parked"} => grant[c] # NoGrant
    /\ pc[c] \in {"new", "secured", "admitted", "vacant"} => c \notin closed /\ ~InRelay(c)

PairsAreFormed ==
  \A p \in joined : /\ pc[p[1]] \in Joiner
                    /\ pc[p[2]] \in {"parked", "done"}

AccountingFollowsTask ==
  \A c \in Conns :
    /\ usage[c] # "none" => pc[c] \in {"counted", "ended"} \cup Relaying
    /\ usage[c] = "counted" => pc[c] \in {"ended"} \cup Relaying
    /\ c \in labels <=> pc[c] \in {"ended", "unlisted"} \cup Relaying

IInv ==
  /\ TypeOK
  /\ SlotsAreParked /\ EarlyTasksOwnTheirs /\ PairsAreFormed /\ AccountingFollowsTask
  /\ StreamsHaveOneOwner /\ PairSharesGrant /\ RelayOwnsBothStreams

-----------------------------------------------------------------------------
(* Liveness.                                                               *)

\* No stream stays parked for ever: somebody joins it or a timer drops it.
ParkEnds == \A g \in Grants, c \in Conns : slot[g] = c ~> slot[g] # c

\* A joiner whose address stays on the block list as its socket has it loses its relay,
\* unless the side it sends to has stopped reading for good.  Of its plain form, by which
\* `handle_connection' turns it away, this is not true: `relay' does not look for that one.
BlockedRelayEnds ==
  \A c \in Conns : (/\ <>[](RawIp[c] \in blocked)
                    /\ []<>(pc[c] # "stalled")) => (pc[c] = "relaying" ~> pc[c] = "done")
=============================================================================
