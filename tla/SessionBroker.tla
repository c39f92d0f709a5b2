---------------------------- MODULE SessionBroker ----------------------------
(***************************************************************************)
(* How hbbs brokers one remote-control session (rendezvous_server.rs).     *)
(*                                                                         *)
(* A controller asks for a target over its own rendezvous connection, with *)
(* a PunchHoleRequest or a RequestRelay.  The connection's task parks the  *)
(* connection's write half in `tcp_punch', runs the policy gates, pushes   *)
(* the request into the target's connection and records a `pending_relay'  *)
(* entry under the controller's address.  The target answers on another    *)
(* connection; the first RelayResponse for that address consumes the entry *)
(* and is given a relay grant, which hbbr will accept (RelayPairing).      *)
(*                                                                         *)
(* Every action ends where the handler next awaits a lock, a socket or a   *)
(* channel that another task can reach, so tasks interleave here as they   *)
(* do on the multi-threaded runtime.                                       *)
(***************************************************************************)
EXTENDS Naturals, Sequences, FiniteSets

CONSTANTS Controllers,   \* controller connections, each under its own address
          Targets,       \* ids of the machines that can be controlled
          Provisioned,   \* targets that answer over a device-authenticated connection
          SameIntranet,  \* pairs <<c, t>> for which the punch path fetches local addresses
          TTL,           \* RELAY_GRANT_TTL_SECS = PENDING_RELAY_TTL, in ticks
          MaxRequests,   \* bound: requests hbbs accepts
          MaxNow,        \* bound: clock
          NoEntry        \* "no pending_relay entry under this address"

ASSUME BrokerAssumption ==
  /\ Provisioned \subseteq Targets
  /\ SameIntranet \subseteq Controllers \X Targets
  /\ TTL \in Nat \ {0}
  /\ MaxRequests \in Nat
  /\ MaxNow \in Nat
  /\ NoEntry \notin [target : Targets, expires : Nat, req : Nat]

VARIABLES
  now,       \* the clock
  peer,      \* PeerMap, as the two lookups see a target
  blocked,   \* targets is_peer_allowed refuses
  task,      \* the connection task of each controller: what it does, and for which target
  sink,      \* where the write half of each connection is, or what it has answered
  pending,   \* pending_relay, keyed by controller address
  asked,     \* pushes on their way to a target, or not answered by it yet
  forward,   \* per target: the controllers its granted answers still have to be forwarded to
  requests,  \* history: the requests that passed every gate and found their target
  grants     \* the relay grants minted so far

vars == <<now, peer, blocked, task, sink, pending, asked, forward,
          requests, grants>>

Kinds == {"relay", "punch"}
Steps == {"ready", "target_gate", "source_gate", "lookup", "record", "push", "closed"}
Sinks == {"task", "punch", "told", "granted", "gone"}
Entry == [target : Targets, expires : Nat, req : Nat]
Grant == [ctrl : Controllers, target : Targets, by : Targets, req : Nat,
          late : BOOLEAN]

TypeOK ==
  /\ now \in 0..MaxNow
  /\ peer \in [Targets -> {"unknown", "stored", "stale", "online"}]
  /\ blocked \subseteq Targets
  /\ task \in [Controllers -> [at : Steps, kind : Kinds, target : Targets, req : Nat]]
  /\ sink \in [Controllers -> Sinks]
  /\ pending \in [Controllers -> Entry \cup {NoEntry}]
  /\ asked \subseteq Controllers \X Targets
  /\ forward \in [Targets -> SUBSET Controllers]
  /\ requests \in Seq([ctrl : Controllers, target : Targets])
  /\ grants \subseteq Grant

Init ==
  /\ now = 0
  /\ peer \in [Targets -> {"unknown", "stored"}]
  /\ blocked = {}
  /\ \E t \in Targets :
       task = [c \in Controllers |-> [at |-> "ready", kind |-> "punch", target |-> t, req |-> 0]]
  /\ sink = [c \in Controllers |-> "task"]
  /\ pending = [c \in Controllers |-> NoEntry]
  /\ asked = {}
  /\ forward = [t \in Targets |-> {}]
  /\ requests = <<>>
  /\ grants = {}

-----------------------------------------------------------------------------
(* The controller's connection task.                                       *)

At(c, step) == task[c].at = step
Goto(c, step) == task' = [task EXCEPT ![c].at = step]

\* send_to_tcp_sync / send_to_tcp: whoever takes the write half out of tcp_punch
\* answers the controller, and drops the write half with it.
Answer(c, what) == sink' = [sink EXCEPT ![c] = IF @ = "punch" THEN what ELSE @]

\* Mutant: the write half is not put into tcp_punch.
Park_Never(c) == UNCHANGED sink

\* `sink.take()' and the insert into tcp_punch; on a later attempt the sink is none.
Park(c) == sink' = [sink EXCEPT ![c] = IF @ = "task" THEN "punch" ELSE @]

\* A RequestRelay or PunchHoleRequest frame arrives for target t.
RequestArrives(c, kind, t) ==
  /\ At(c, "ready")
  /\ Len(requests) < MaxRequests
  /\ Park(c)
  /\ task' = [task EXCEPT ![c] = [at |-> "target_gate", kind |-> kind, target |-> t, req |-> @.req]]
  /\ UNCHANGED <<now, peer, blocked, pending, asked, forward, requests, grants>>

\* The punch path compares licence_key with the server key before anything else.
LicenceMismatch(c) ==
  /\ At(c, "target_gate") /\ task[c].kind = "punch"
  /\ Goto(c, "ready")
  /\ Answer(c, "told")
  /\ UNCHANGED <<now, peer, blocked, pending, asked, forward, requests, grants>>

\* is_peer_allowed on the target.
TargetGate(c) ==
  /\ At(c, "target_gate")
  /\ IF task[c].target \in blocked
       THEN Goto(c, "ready") /\ Answer(c, "told")
       ELSE Goto(c, "source_gate") /\ UNCHANGED sink
  /\ UNCHANGED <<now, peer, blocked, pending, asked, forward, requests, grants>>

\* controller_policy_rejection_from_field and nemo_user_rejection_from_field: what
\* they read (policies, sessions, device keys) is not part of this module, so either
\* verdict is possible.
SourceGate(c) ==
  /\ At(c, "source_gate")
  /\ \/ Goto(c, "ready") /\ Answer(c, "told")
     \/ Goto(c, "lookup") /\ UNCHANGED sink
  /\ UNCHANGED <<now, peer, blocked, pending, asked, forward, requests, grants>>

\* The request is accepted: its target was found, `step' comes next.
Accept(c, step) ==
  /\ requests' = Append(requests, [ctrl |-> c, target |-> task[c].target])
  /\ task' = [task EXCEPT ![c] = [at |-> step, kind |-> @.kind, target |-> @.target,
                                   req |-> Len(requests) + 1]]

\* RequestRelay: get_in_memory.  A target that is not in memory is neither
\* asked nor reported to the controller, and a stale one is asked all the same.
RelayLookup(c) ==
  /\ At(c, "lookup") /\ task[c].kind = "relay"
  /\ IF peer[task[c].target] \in {"stale", "online"}
       THEN Accept(c, "push")
       ELSE Goto(c, "ready") /\ UNCHANGED requests
  /\ UNCHANGED <<now, peer, blocked, sink, pending, asked, forward, grants>>

\* Mutant: no entry is recorded for the relay the target will answer with.
PunchLookup_Unrecorded(c) ==
  LET t == task[c].target
  IN /\ At(c, "lookup") /\ task[c].kind = "punch"
     /\ peer' = [peer EXCEPT ![t] = IF @ = "stored" THEN "stale" ELSE @]
     /\ IF peer[t] = "online"
          THEN Accept(c, "push") /\ UNCHANGED sink
          ELSE Goto(c, "ready") /\ Answer(c, "told") /\ UNCHANGED requests
     /\ UNCHANGED <<now, blocked, pending, asked, forward, grants>>

\* PunchHoleRequest: pm.get loads a stored row into memory with an expired
\* registration time; only a recently registered target is asked.
PunchLookup(c) ==
  LET t == task[c].target
  IN /\ At(c, "lookup") /\ task[c].kind = "punch"
     /\ peer' = [peer EXCEPT ![t] = IF @ = "stored" THEN "stale" ELSE @]
     /\ IF peer[t] = "online"
          THEN /\ Accept(c, IF <<c, t>> \in SameIntranet THEN "push" ELSE "record")
               /\ UNCHANGED sink
          ELSE /\ Goto(c, "ready")
               /\ Answer(c, "told")
               /\ UNCHANGED requests
     /\ UNCHANGED <<now, blocked, pending, asked, forward, grants>>

\* push_to_peer.  The relay path records its entry only after the push.
Push(c) ==
  /\ At(c, "push")
  /\ asked' = asked \cup {<<c, task[c].target>>}
  /\ Goto(c, IF task[c].kind = "relay" THEN "record" ELSE "ready")
  /\ UNCHANGED <<now, peer, blocked, sink, pending, forward, requests, grants>>

\* What is inserted under a controller's address, and what `retain' keeps under another.
NewEntry(c) == [target |-> task[c].target, expires |-> now + TTL, req |-> task[c].req]

\* Mutant: `retain' keeps what it should drop.
Kept_Inverted(d) == IF pending[d] # NoEntry /\ pending[d].expires <= now THEN pending[d] ELSE NoEntry
Kept(d) == IF pending[d] # NoEntry /\ pending[d].expires > now THEN pending[d] ELSE NoEntry

AfterRecord(c, entries) ==
  /\ At(c, "record")
  /\ pending' = entries
  /\ Goto(c, IF task[c].kind = "relay" THEN "ready" ELSE "push")
  /\ UNCHANGED <<now, peer, blocked, sink, asked, forward, requests, grants>>

\* `pending.retain(..)' then `pending.insert(..)', under one lock.
Record(c) ==
  AfterRecord(c, [d \in Controllers |-> IF d = c THEN NewEntry(c) ELSE Kept(d)])

\* Mutant: the write half in tcp_punch outlives the connection.
Close_Leaks(c) ==
  /\ At(c, "ready")
  /\ Goto(c, "closed")
  /\ sink' = [sink EXCEPT ![c] = IF @ = "task" THEN "gone" ELSE @]
  /\ UNCHANGED <<now, peer, blocked, pending, asked, forward, requests, grants>>

\* The read loop ends (30 s without a frame, or the socket closed); a write
\* half that went to tcp_punch is removed from there.
Close(c) ==
  /\ At(c, "ready")
  /\ Goto(c, "closed")
  /\ sink' = [sink EXCEPT ![c] = IF @ \in {"task", "punch"} THEN "gone" ELSE @]
  /\ UNCHANGED <<now, peer, blocked, pending, asked, forward, requests, grants>>

-----------------------------------------------------------------------------
(* The target's answers.                                                   *)

\* relay_grant_mint: the grant the responder and the controller will show to hbbr.
Mint(t, c, entry) ==
  /\ grants' = grants \cup {[ctrl |-> c, target |-> entry.target, by |-> t, req |-> entry.req,
                             late |-> entry.expires <= now]}
  /\ forward' = [forward EXCEPT ![t] = @ \cup {c}]

\* Mutant: the entry is looked up and left.
RelayResponse_Reusable(t, c) ==
  /\ pending[c] # NoEntry /\ (t \in Provisioned => pending[c].target = t)
  /\ asked' = asked \ {<<c, t>>}
  /\ Mint(t, c, pending[c])
  /\ UNCHANGED <<now, peer, blocked, task, sink, pending, requests>>

\* A RelayResponse echoing controller address c: the entry is removed, then
\* checked.  Without an entry the answer is dropped as unsolicited; so is the
\* answer of a device-authenticated peer the entry does not name.
RelayResponse(t, c) ==
  LET entry == pending[c]
      refused == entry = NoEntry \/ (t \in Provisioned /\ entry.target # t)
  IN /\ pending' = [pending EXCEPT ![c] = NoEntry]
     /\ asked' = asked \ {<<c, t>>}
     /\ IF refused THEN UNCHANGED <<grants, forward>> ELSE Mint(t, c, entry)
     /\ UNCHANGED <<now, peer, blocked, task, sink, requests>>

\* Mutant: the answer is not passed on.
ForwardResponse_Lost(t) ==
  \E c \in forward[t] :
    /\ forward' = [forward EXCEPT ![t] = @ \ {c}]
    /\ UNCHANGED <<now, peer, blocked, task, sink, pending, asked, requests, grants>>

\* The grant went back to the responder; the RelayResponse goes on to the controller.
ForwardResponse(t) ==
  \E c \in forward[t] :
    /\ Answer(c, "granted")
    /\ forward' = [forward EXCEPT ![t] = @ \ {c}]
    /\ UNCHANGED <<now, peer, blocked, task, pending, asked, requests, grants>>

\* PunchHoleSent and LocalAddr are passed on to whoever waits under c's
\* address; the pending entry stays.
PunchAnswer(t, c) ==
  /\ sink[c] = "punch"
  /\ Answer(c, "told")
  /\ UNCHANGED <<now, peer, blocked, task, pending, asked, forward, requests, grants>>

-----------------------------------------------------------------------------
(* The registry, the administrator and the clock.                          *)

PeerChange(t, s) ==
  /\ <<peer[t], s>> \in ({"unknown", "stored", "stale"} \X {"online"})
                        \cup {<<"online", "stale">>, <<"stale", "unknown">>}
  /\ peer' = [peer EXCEPT ![t] = s]
  /\ UNCHANGED <<now, blocked, task, sink, pending, asked, forward, requests, grants>>

PolicyChange ==
  /\ \E t \in Targets : blocked' \in {blocked \cup {t}, blocked \ {t}}
  /\ UNCHANGED <<now, peer, task, sink, pending, asked, forward, requests, grants>>

Tick ==
  /\ now < MaxNow
  /\ now' = now + 1
  /\ UNCHANGED <<peer, blocked, task, sink, pending, asked, forward, requests, grants>>

-----------------------------------------------------------------------------

ControllerStep(c) ==
  \/ LicenceMismatch(c) \/ TargetGate(c) \/ SourceGate(c)
  \/ RelayLookup(c) \/ PunchLookup(c) \/ Push(c) \/ Record(c)

Next ==
  \/ \E c \in Controllers, kind \in Kinds, t \in Targets : RequestArrives(c, kind, t)
  \/ \E c \in Controllers : ControllerStep(c) \/ Close(c)
  \/ \E t \in Targets, c \in Controllers : RelayResponse(t, c) \/ PunchAnswer(t, c)
  \/ \E t \in Targets : ForwardResponse(t)
  \/ \E t \in Targets, s \in {"unknown", "stale", "online"} : PeerChange(t, s)
  \/ PolicyChange
  \/ Tick

\* Spawned tasks keep being scheduled, and the read loop's 30 s timeout ends a
\* connection that sends nothing more.
Fairness ==
  /\ \A c \in Controllers : WF_vars(ControllerStep(c)) /\ WF_vars(Close(c))
  /\ \A t \in Targets : WF_vars(ForwardResponse(t))

Spec == Init /\ [][Next]_vars
FairSpec == Spec /\ Fairness

-----------------------------------------------------------------------------
(* Safety.                                                                 *)

\* Every grant was minted for a request hbbs accepted and brokered: the same
\* controller, the same target (the comment on PendingRelay, "could mint
\* unlimited grants", is about a server without this).
GrantIsBrokered ==
  \A g \in grants : /\ g.req \in 1..Len(requests)
                    /\ requests[g.req] = [ctrl |-> g.ctrl, target |-> g.target]

\* One accepted request yields at most one grant, however often and from
\* however many targets its RelayResponse arrives (pending_relay is single-use).
GrantIsSingleUse == \A g, h \in grants : g.req = h.req => g = h

\* An answer from a connection that proved a device key is granted only when
\* the key belongs to the machine hbbs asked.
ProvenResponder == \A g \in grants : g.by \in Provisioned => g.by = g.target

\* An entry always stands for the newest request its controller recorded, so a
\* late answer can never revive a superseded one: only the request the task is
\* still pushing or recording may be newer.
EntryIsNewest ==
  \A c \in Controllers : pending[c] # NoEntry =>
    \A i \in 1..Len(requests) :
      (requests[i].ctrl = c /\ i > pending[c].req) =>
         \/ <<c, requests[i].target>> \in SameIntranet
         \/ At(c, "push") /\ task[c].req = i
         \/ At(c, "record") /\ task[c].req = i

\* The retain that clears expired entries, and another controller's insert, never
\* take an entry that is still good: only an answer for its own address does.
LiveEntryIsKept ==
  [][\A c \in Controllers :
       (pending[c] # NoEntry /\ pending[c].expires > now /\ pending'[c] = NoEntry)
         => \E t \in Targets : RelayResponse(t, c)]_vars

\* A granted answer is not lost in between: its controller has heard of it, or the responder's
\* task has still to forward it, unless the write half went to another answer (a refusal,
\* PunchHoleSent, LocalAddr) or with the connection.  And a controller hears of a grant only
\* if there is one (RelayResponse, send_to_tcp).
GrantIsAnswered ==
  /\ \A g \in grants : g.ctrl \in forward[g.by] \/ sink[g.ctrl] \in {"granted", "told", "gone"}
  /\ \A c \in Controllers : sink[c] = "granted" => \E g \in grants : g.ctrl = c

\* The comment at rendezvous_server.rs:173-176 on what a grant is minted for:
\* "a pending, unexpired, single-use entry".  The RelayResponse arm removes the
\* entry without looking at `expires'.
GrantIsUnexpired == \A g \in grants : ~g.late

\* The comment at rendezvous_server.rs:844: the entry is recorded "so the
\* target's eventual RelayResponse can be told apart from an unsolicited one".
\* No answer to a pushed request is dropped just because the entry is not there yet.
PushedAnswerIsMatched ==
  [][\A c \in Controllers, t \in Targets :
       (<<c, t>> \in asked \ asked' /\ pending[c] = NoEntry) => ~At(c, "record")]_vars

-----------------------------------------------------------------------------
(* The inductive invariant behind the four safety properties.              *)

IsRequest(i, c, t) == i \in 1..Len(requests) /\ requests[i] = [ctrl |-> c, target |-> t]

\* The task is between accepting a request and recording the entry for it.
Unrecorded(c) == At(c, "record") \/ (At(c, "push") /\ task[c].kind = "relay")

\* What a task pushes or records is the newest accepted request of its controller.
TaskIsBrokered ==
  \A c \in Controllers : (At(c, "push") \/ At(c, "record")) =>
    /\ IsRequest(task[c].req, c, task[c].target)
    /\ \A i \in 1..Len(requests) : i > task[c].req => requests[i].ctrl # c

EntryIsBrokered ==
  \A c \in Controllers : pending[c] # NoEntry => IsRequest(pending[c].req, c, pending[c].target)

\* No request is both still to be answered and already granted.
OpenIsUngranted ==
  \A c \in Controllers :
    /\ pending[c] # NoEntry => \A g \in grants : g.req # pending[c].req
    /\ Unrecorded(c) => /\ \A g \in grants : g.req # task[c].req
                        /\ pending[c] # NoEntry => pending[c].req # task[c].req

\* The punch path records before it pushes, so its entry, if any is left, is its own.
PunchIsRecorded ==
  \A c \in Controllers :
    /\ At(c, "push") /\ task[c].kind = "punch" /\ <<c, task[c].target>> \notin SameIntranet
    /\ pending[c] # NoEntry
    => pending[c].req = task[c].req

\* Together with the properties it proves, this is preserved by every step.
IInv ==
  /\ TypeOK
  /\ TaskIsBrokered /\ EntryIsBrokered /\ OpenIsUngranted /\ PunchIsRecorded
  /\ GrantIsBrokered /\ GrantIsSingleUse /\ ProvenResponder /\ EntryIsNewest

-----------------------------------------------------------------------------
(* SessionBroker implements BrokerBook.                                    *)

\* What an answer may still be granted: the entry, and the request that is to become one.
Open(c) == {r \in 1..Len(requests) : \/ pending[c] # NoEntry /\ r = pending[c].req
                                     \/ Unrecorded(c) /\ r = task[c].req}

Book == INSTANCE BrokerBook WITH
  book <- requests,
  open <- [c \in Controllers |-> Open(c)],
  issued <- {[ctrl |-> g.ctrl, target |-> g.target, by |-> g.by, req |-> g.req] : g \in grants}

\* Whatever is asked, answered, superseded or swept (PunchHoleRequest, RequestRelay and
\* RelayResponse with pending_relay), hbbs grants what BrokerBook says: accepted requests,
\* once, in the order they were made.
BookSpec == Book!BookSpec

-----------------------------------------------------------------------------
(* Liveness.                                                               *)

\* While nobody else answers a controller and its connection lasts, every grant of its
\* reaches it: the responder's task takes the write half from tcp_punch and sends it.
GrantReachesController ==
  \A c \in Controllers :
    [](sink[c] \notin {"told", "gone"}) => ((\E t \in Targets : c \in forward[t]) ~> sink[c] = "granted")

\* No write half stays in tcp_punch for ever once its controller sends no more:
\* somebody answers, or the end of the connection removes it.
WriteHalfIsReleased ==
  \A c \in Controllers :
    <>[](task[c].at \in {"ready", "closed"}) => (sink[c] = "punch" ~> sink[c] # "punch")
=============================================================================
