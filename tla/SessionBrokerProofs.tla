------------------------- MODULE SessionBrokerProofs -------------------------
(***************************************************************************)
(* The safety of SessionBroker for every number of controllers, targets,   *)
(* requests and ticks, from the inductive invariant IInv.                  *)
(***************************************************************************)
EXTENDS SessionBroker, TLAPS

Request == [ctrl : Controllers, target : Targets]

-----------------------------------------------------------------------------
(* Type correctness.                                                       *)

\* What accepting a request does to the request history and to the task.
LEMMA AcceptType ==
  ASSUME TypeOK, NEW c \in Controllers, NEW step \in Steps, Accept(c, step)
  PROVE  /\ requests' \in Seq(Request)
         /\ Len(requests') = Len(requests) + 1
         /\ \A i \in 1..Len(requests) : requests'[i] = requests[i]
         /\ requests'[Len(requests) + 1] = [ctrl |-> c, target |-> task[c].target]
         /\ task' \in [Controllers -> [at : Steps, kind : Kinds, target : Targets, req : Nat]]
  <1>1. [ctrl |-> c, target |-> task[c].target] \in Request
    BY DEF TypeOK, Request
  <1>2. requests \in Seq(Request) /\ Len(requests) \in Nat
    BY DEF TypeOK, Request
  <1>3. requests' = Append(requests, [ctrl |-> c, target |-> task[c].target])
    BY DEF Accept
  <1>4. /\ requests' \in Seq(Request)
        /\ Len(requests') = Len(requests) + 1
        /\ \A i \in 1..Len(requests) : requests'[i] = requests[i]
        /\ requests'[Len(requests) + 1] = [ctrl |-> c, target |-> task[c].target]
    BY <1>1, <1>2, <1>3
  <1>5. task' \in [Controllers -> [at : Steps, kind : Kinds, target : Targets, req : Nat]]
    BY <1>2 DEF TypeOK, Accept
  <1>6. QED
    BY <1>4, <1>5

\* A task only ever moves between the steps of its handler.
LEMMA GotoType ==
  ASSUME TypeOK, NEW c \in Controllers, NEW step \in Steps, Goto(c, step)
  PROVE  task' \in [Controllers -> [at : Steps, kind : Kinds, target : Targets, req : Nat]]
  BY DEF TypeOK, Goto

LEMMA SinkType ==
  ASSUME TypeOK, NEW c \in Controllers, Answer(c, "told") \/ Answer(c, "granted") \/ Park(c)
  PROVE  sink' \in [Controllers -> Sinks]
  BY DEF TypeOK, Answer, Park, Sinks

\* The variables keep their types at every step: the type part of every other proof.
LEMMA TypeStep == TypeOK /\ [Next]_vars => TypeOK'
  <1> SUFFICES ASSUME TypeOK, [Next]_vars PROVE TypeOK'
    OBVIOUS
  <1> USE BrokerAssumption
  <1>1. ASSUME NEW c \in Controllers, NEW kind \in Kinds, NEW t \in Targets,
               RequestArrives(c, kind, t)
        PROVE  TypeOK'
    <2>1. Park(c) BY <1>1 DEF RequestArrives
    <2>2. sink' \in [Controllers -> Sinks] BY <2>1, SinkType
    <2>3. QED BY <1>1, <2>2 DEF TypeOK, RequestArrives, Kinds, Steps
  <1>2. ASSUME NEW c \in Controllers, LicenceMismatch(c) PROVE TypeOK'
    <2>1. Goto(c, "ready") /\ Answer(c, "told") BY <1>2 DEF LicenceMismatch
    <2>2. QED BY <1>2, <2>1, GotoType, SinkType DEF TypeOK, LicenceMismatch, Steps
  <1>3. ASSUME NEW c \in Controllers, TargetGate(c) PROVE TypeOK'
    <2>1. \/ Goto(c, "ready") /\ Answer(c, "told")
          \/ Goto(c, "source_gate") /\ UNCHANGED sink
      BY <1>3 DEF TargetGate
    <2>2. QED BY <1>3, <2>1, GotoType, SinkType DEF TypeOK, TargetGate, Steps
  <1>4. ASSUME NEW c \in Controllers, SourceGate(c) PROVE TypeOK'
    <2>1. \/ Goto(c, "ready") /\ Answer(c, "told")
          \/ Goto(c, "lookup") /\ UNCHANGED sink
      BY <1>4 DEF SourceGate
    <2>2. QED BY <1>4, <2>1, GotoType, SinkType DEF TypeOK, SourceGate, Steps
  <1>5. ASSUME NEW c \in Controllers, RelayLookup(c) PROVE TypeOK'
    <2>1. Accept(c, "push") \/ (Goto(c, "ready") /\ UNCHANGED requests)
      BY <1>5 DEF RelayLookup
    <2>2. CASE Accept(c, "push")
      BY <1>5, <2>2, AcceptType DEF TypeOK, RelayLookup, Steps, Request
    <2>3. CASE Goto(c, "ready") /\ UNCHANGED requests
      BY <1>5, <2>3, GotoType DEF TypeOK, RelayLookup, Steps
    <2>4. QED BY <2>1, <2>2, <2>3
  <1>6. ASSUME NEW c \in Controllers, PunchLookup(c) PROVE TypeOK'
    <2>1. peer' \in [Targets -> {"unknown", "stored", "stale", "online"}]
      BY <1>6 DEF TypeOK, PunchLookup
    <2>2. \/ \E step \in Steps : Accept(c, step) /\ UNCHANGED sink
          \/ Goto(c, "ready") /\ Answer(c, "told") /\ UNCHANGED requests
      BY <1>6 DEF PunchLookup, Steps
    <2>3. CASE \E step \in Steps : Accept(c, step) /\ UNCHANGED sink
      BY <1>6, <2>1, <2>3, AcceptType DEF TypeOK, PunchLookup, Request
    <2>4. CASE Goto(c, "ready") /\ Answer(c, "told") /\ UNCHANGED requests
      BY <1>6, <2>1, <2>4, GotoType, SinkType DEF TypeOK, PunchLookup, Steps
    <2>5. QED BY <2>2, <2>3, <2>4
  <1>7. ASSUME NEW c \in Controllers, Push(c) PROVE TypeOK'
    <2>1. \E step \in Steps : Goto(c, step) BY <1>7 DEF Push, Steps
    <2>2. <<c, task[c].target>> \in Controllers \X Targets BY DEF TypeOK
    <2>3. QED BY <1>7, <2>1, <2>2, GotoType DEF TypeOK, Push
  <1>8. ASSUME NEW c \in Controllers, Record(c) PROVE TypeOK'
    <2>1. \E step \in Steps : Goto(c, step) BY <1>8 DEF Record, AfterRecord, Steps
    <2>2. [target |-> task[c].target, expires |-> now + TTL, req |-> task[c].req] \in Entry
      BY DEF TypeOK, Entry
    <2>3. pending' \in [Controllers -> Entry \cup {NoEntry}]
      BY <1>8, <2>2 DEF TypeOK, Record, AfterRecord, NewEntry, Kept
    <2>4. QED BY <1>8, <2>1, <2>3, GotoType DEF TypeOK, Record, AfterRecord, NewEntry, Kept
  <1>9. ASSUME NEW c \in Controllers, Close(c) PROVE TypeOK'
    BY <1>9, GotoType DEF TypeOK, Close, Steps, Sinks
  <1>10. ASSUME NEW t \in Targets, NEW c \in Controllers, RelayResponse(t, c) PROVE TypeOK'
    <2>1. pending' \in [Controllers -> Entry \cup {NoEntry}]
          /\ asked' \subseteq Controllers \X Targets
      BY <1>10 DEF TypeOK, RelayResponse
    <2>2. grants' \subseteq Grant /\ forward' \in [Targets -> SUBSET Controllers]
      <3>1. CASE UNCHANGED <<grants, forward>>
        BY <3>1 DEF TypeOK
      <3>2. CASE pending[c] # NoEntry /\ ~UNCHANGED <<grants, forward>>
        <4>1. pending[c] \in Entry BY <3>2 DEF TypeOK
        <4>2. [ctrl |-> c, target |-> pending[c].target, by |-> t, req |-> pending[c].req,
               late |-> pending[c].expires <= now] \in Grant
          BY <4>1 DEF TypeOK, Entry, Grant
        <4>3. /\ grants' = grants \cup
                   {[ctrl |-> c, target |-> pending[c].target, by |-> t, req |-> pending[c].req,
                     late |-> pending[c].expires <= now]}
              /\ forward' = [forward EXCEPT ![t] = @ \cup {c}]
          BY <1>10, <3>2, Zenon DEF RelayResponse, Mint
        <4>4. QED BY <4>2, <4>3 DEF TypeOK
      <3>3. QED BY <1>10, <3>1, <3>2 DEF RelayResponse, Mint
    <2>3. QED BY <1>10, <2>1, <2>2 DEF TypeOK, RelayResponse
  <1>11. ASSUME NEW t \in Targets, NEW c \in Controllers, PunchAnswer(t, c) PROVE TypeOK'
    BY <1>11, SinkType DEF TypeOK, PunchAnswer
  <1>12. ASSUME NEW t \in Targets, ForwardResponse(t) PROVE TypeOK'
    <2>1. PICK c \in Controllers :
            /\ c \in forward[t]
            /\ Answer(c, "granted")
            /\ forward' = [forward EXCEPT ![t] = @ \ {c}]
            /\ UNCHANGED <<now, peer, blocked, task, pending, asked, requests, grants>>
      BY <1>12 DEF ForwardResponse, TypeOK
    <2>2. QED BY <2>1, SinkType DEF TypeOK
  <1>13. ASSUME NEW t \in Targets, NEW s \in {"unknown", "stale", "online"}, PeerChange(t, s)
         PROVE  TypeOK'
    BY <1>13 DEF TypeOK, PeerChange
  <1>14. CASE PolicyChange
    BY <1>14 DEF TypeOK, PolicyChange
  <1>15. CASE Tick
    BY <1>15 DEF TypeOK, Tick
  <1>16. CASE UNCHANGED vars
    BY <1>16 DEF TypeOK, vars
  <1>17. QED
    BY <1>1, <1>2, <1>3, <1>4, <1>5, <1>6, <1>7, <1>8, <1>9, <1>10, <1>11, <1>12, <1>13,
       <1>14, <1>15, <1>16 DEF Next, ControllerStep

LEMMA TypeInit == Init => TypeOK
  <1> SUFFICES ASSUME Init PROVE TypeOK
    OBVIOUS
  <1>1. requests \in Seq(Request) BY DEF Init
  <1>2. QED BY <1>1, BrokerAssumption DEF Init, TypeOK, Steps, Sinks, Kinds, Request

\* TypeOK for every instance: the state of the broker never leaves its domain.
THEOREM TypeCorrect == Spec => []TypeOK
  BY TypeInit, TypeStep, PTL DEF Spec

-----------------------------------------------------------------------------
(* The inductive invariant.  One lemma for each way a step can touch what  *)
(* IInv speaks of: the tasks, the entries, the requests and the grants.    *)

\* Steps of the clock, of the registry, of the policy and of write halves.
LEMMA FrameStep ==
  ASSUME IInv, TypeOK', UNCHANGED <<task, pending, requests, grants>>
  PROVE  IInv'
  BY DEF IInv, TaskIsBrokered, EntryIsBrokered, OpenIsUngranted, PunchIsRecorded, GrantIsBrokered,
         GrantIsSingleUse, ProvenResponder, EntryIsNewest, IsRequest, Unrecorded, At

\* A task moves among the steps before a request is accepted, or goes back to reading.
LEMMA GateStep ==
  ASSUME IInv, TypeOK', UNCHANGED <<pending, requests, grants>>,
         NEW c \in Controllers,
         \A d \in Controllers \ {c} : task'[d] = task[d],
         ~At(c, "push"), ~At(c, "record"),
         task'[c].at \notin {"push", "record"}
  PROVE  IInv'
  <1>1. TaskIsBrokered' /\ OpenIsUngranted' /\ PunchIsRecorded'
    BY DEF IInv, TaskIsBrokered, OpenIsUngranted, PunchIsRecorded, IsRequest, Unrecorded, At
  <1>2. EntryIsNewest'
    BY DEF IInv, EntryIsNewest, At
  <1>3. QED
    BY <1>1, <1>2 DEF IInv, EntryIsBrokered, GrantIsBrokered, GrantIsSingleUse, ProvenResponder,
                      IsRequest

\* A request is accepted: it is newer than everything recorded or granted.
LEMMA AcceptStep ==
  ASSUME IInv, TypeOK', UNCHANGED <<pending, grants>>,
         NEW c \in Controllers, NEW step \in {"push", "record"},
         At(c, "lookup"), Accept(c, step),
         step = "push" => \/ task[c].kind = "relay"
                          \/ <<c, task[c].target>> \in SameIntranet
  PROVE  IInv'
  <1> DEFINE n == Len(requests) + 1
  <1>1. /\ Len(requests) \in Nat /\ Len(requests') = n
        /\ \A i \in 1..Len(requests) : requests'[i] = requests[i]
        /\ requests'[n] = [ctrl |-> c, target |-> task[c].target]
    <2>1. TypeOK /\ step \in Steps /\ Len(requests) \in Nat
      BY DEF IInv, TypeOK, Steps
    <2>2. QED BY <2>1, AcceptType
  <1>2. /\ task'[c] = [at |-> step, kind |-> task[c].kind, target |-> task[c].target, req |-> n]
        /\ \A d \in Controllers \ {c} : task'[d] = task[d]
    BY DEF IInv, TypeOK, Accept
  <1>3. \A i \in 1..Len(requests') : i \in 1..Len(requests) \/ i = n
    BY <1>1
  <1>4. \A i, d, t : IsRequest(i, d, t) => IsRequest(i, d, t)'
    BY <1>1 DEF IsRequest
  <1>5. TaskIsBrokered'
    BY <1>1, <1>2, <1>3, <1>4 DEF IInv, TaskIsBrokered, IsRequest, At
  <1>6. EntryIsBrokered'
    BY <1>4 DEF IInv, EntryIsBrokered
  <1>7. OpenIsUngranted'
    <2>1. pending' = pending /\ grants' = grants
      OBVIOUS
    <2>2. \A g \in grants : g.req # n
      <3>1. \A g \in grants : g.req \in 1..Len(requests)
        BY DEF IInv, GrantIsBrokered
      <3>2. QED BY <1>1, <3>1
    <2>3. \A d \in Controllers : pending[d] # NoEntry => pending[d].req # n
      <3>1. \A d \in Controllers : pending[d] # NoEntry => pending[d].req \in 1..Len(requests)
        BY DEF IInv, EntryIsBrokered, IsRequest
      <3>2. QED BY <1>1, <3>1
    <2>4. task'[c].req = n
      BY <1>2
    <2>5. \A d \in Controllers \ {c} : Unrecorded(d)' = Unrecorded(d)
      BY <1>2 DEF Unrecorded, At
    <2>6. QED
      BY <1>2, <2>1, <2>2, <2>3, <2>4, <2>5 DEF IInv, OpenIsUngranted
  <1>8. UNCHANGED <<pending, grants>>
    OBVIOUS
  <1>9. PunchIsRecorded'
    BY <1>2 DEF IInv, PunchIsRecorded, At
  <1>10. GrantIsBrokered'
    <2>1. ASSUME NEW g \in grants
          PROVE  g.req \in 1..Len(requests') /\ requests'[g.req] = requests[g.req]
      <3>1. g.req \in 1..Len(requests)
        BY DEF IInv, GrantIsBrokered
      <3>2. QED BY <1>1, <3>1
    <2>2. QED BY <1>8, <2>1 DEF IInv, GrantIsBrokered
  <1>11. EntryIsNewest'
    <2> SUFFICES ASSUME NEW d \in Controllers, pending[d] # NoEntry,
                        NEW i \in 1..Len(requests'), requests'[i].ctrl = d, i > pending[d].req
                 PROVE  \/ <<d, requests'[i].target>> \in SameIntranet
                        \/ At(d, "push")' /\ task'[d].req = i
                        \/ At(d, "record")' /\ task'[d].req = i
      BY DEF EntryIsNewest
    <2>1. CASE i = n
      BY <1>1, <1>2, <2>1 DEF At
    <2>2. CASE i \in 1..Len(requests)
      BY <1>1, <1>2, <2>2 DEF IInv, EntryIsNewest, At
    <2>3. QED BY <1>3, <2>1, <2>2
  <1>12. QED
    BY <1>5, <1>6, <1>7, <1>8, <1>9, <1>10, <1>11 DEF IInv, GrantIsSingleUse, ProvenResponder

\* The request goes to its target.
LEMMA PushStep ==
  ASSUME IInv, TypeOK', NEW c \in Controllers, Push(c)
  PROVE  IInv'
  <1>1. /\ \A d \in Controllers \ {c} : task'[d] = task[d]
        /\ task'[c] = [task[c] EXCEPT
                         !.at = IF task[c].kind = "relay" THEN "record" ELSE "ready"]
        /\ UNCHANGED <<pending, requests, grants>>
        /\ task[c].at = "push" /\ task[c].kind \in {"relay", "punch"}
    BY DEF IInv, TypeOK, Push, Goto, At, Kinds
  <1>2. /\ task'[c].at = IF task[c].kind = "relay" THEN "record" ELSE "ready"
        /\ task'[c].kind = task[c].kind
        /\ task'[c].target = task[c].target
        /\ task'[c].req = task[c].req
    BY <1>1 DEF IInv, TypeOK
  <1> DEFINE Busy(d) == At(d, "push") \/ At(d, "record")
  <1>3. \A d \in Controllers : /\ Busy(d)' => Busy(d)
                               /\ Unrecorded(d)' => Unrecorded(d)
                               /\ task'[d].req = task[d].req
                               /\ task'[d].kind = task[d].kind
                               /\ task'[d].target = task[d].target
                               /\ d # c => task'[d].at = task[d].at
    BY <1>1, <1>2 DEF Unrecorded, At
  <1>4. UNCHANGED <<pending, requests, grants>>
    BY <1>1
  <1>5. TaskIsBrokered'
    BY <1>3, <1>4 DEF IInv, TaskIsBrokered, IsRequest
  <1>6. OpenIsUngranted'
    BY <1>3, <1>4 DEF IInv, OpenIsUngranted
  <1>7. PunchIsRecorded'
    BY <1>2, <1>3, <1>4 DEF IInv, PunchIsRecorded, At
  <1>8. EntryIsNewest'
    <2> SUFFICES ASSUME NEW d \in Controllers, pending[d] # NoEntry,
                        NEW i \in 1..Len(requests), requests[i].ctrl = d, i > pending[d].req,
                        <<d, requests[i].target>> \notin SameIntranet
                 PROVE  Busy(d)' /\ task'[d].req = i
      BY <1>4 DEF EntryIsNewest
    <2>1. Busy(d) /\ task[d].req = i
      BY DEF IInv, EntryIsNewest
    <2>2. requests[i].target = task[d].target
      <3>1. IsRequest(task[d].req, d, task[d].target)
        BY <2>1 DEF IInv, TaskIsBrokered
      <3>2. QED BY <2>1, <3>1 DEF IsRequest
    <2>3. ~(d = c /\ task[c].kind = "punch")
      BY <1>1, <2>1, <2>2 DEF IInv, PunchIsRecorded, TypeOK, Entry, At
    <2>4. Busy(d)'
      BY <1>1, <1>2, <1>3, <2>1, <2>3 DEF At
    <2>5. QED BY <1>3, <2>1, <2>4
  <1>9. QED
    BY <1>4, <1>5, <1>6, <1>7, <1>8 DEF IInv, EntryIsBrokered, GrantIsBrokered, GrantIsSingleUse,
                                        ProvenResponder, IsRequest
\* The entry of the newest request replaces whatever stood under c's address.
LEMMA RecordStep ==
  ASSUME IInv, TypeOK', NEW c \in Controllers, Record(c)
  PROVE  IInv'
  <1> DEFINE entry == [target |-> task[c].target, expires |-> now + TTL, req |-> task[c].req]
  <1>1. /\ UNCHANGED <<requests, grants>>
        /\ task[c].at = "record" /\ task[c].kind \in {"relay", "punch"}
        /\ pending'[c] = entry
        /\ \A d \in Controllers \ {c} : pending'[d] \in {pending[d], NoEntry}
    BY DEF IInv, TypeOK, Record, AfterRecord, NewEntry, Kept, At, Kinds
  <1>2. /\ \A d \in Controllers \ {c} : task'[d] = task[d]
        /\ task'[c].at = IF task[c].kind = "relay" THEN "ready" ELSE "push"
        /\ task'[c].kind = task[c].kind
        /\ task'[c].target = task[c].target
        /\ task'[c].req = task[c].req
    BY DEF IInv, TypeOK, Record, AfterRecord, Goto
  <1> DEFINE Busy(d) == At(d, "push") \/ At(d, "record")
  <1>3. Busy(c) /\ Unrecorded(c) /\ ~Unrecorded(c)'
    BY <1>1, <1>2 DEF Unrecorded, At
  <1>4. \A d \in Controllers \ {c} : Busy(d)' = Busy(d) /\ Unrecorded(d)' = Unrecorded(d)
    BY <1>2 DEF Unrecorded, At
  <1>5. /\ IsRequest(task[c].req, c, task[c].target)
        /\ \A i \in 1..Len(requests) : i > task[c].req => requests[i].ctrl # c
        /\ \A g \in grants : g.req # task[c].req
    BY <1>3 DEF IInv, TaskIsBrokered, OpenIsUngranted
  <1>6. TaskIsBrokered'
    BY <1>1, <1>2, <1>4, <1>5 DEF IInv, TaskIsBrokered, IsRequest
  <1>7. EntryIsBrokered'
    BY <1>1, <1>5 DEF IInv, EntryIsBrokered, IsRequest
  <1>8. OpenIsUngranted'
    BY <1>1, <1>2, <1>3, <1>4, <1>5 DEF IInv, OpenIsUngranted
  <1>9. PunchIsRecorded'
    BY <1>1, <1>2 DEF IInv, PunchIsRecorded, At
  <1>10. EntryIsNewest'
    <2> SUFFICES ASSUME NEW d \in Controllers, pending'[d] # NoEntry,
                        NEW i \in 1..Len(requests), requests[i].ctrl = d, i > pending'[d].req,
                        <<d, requests[i].target>> \notin SameIntranet
                 PROVE  Busy(d)' /\ task'[d].req = i
      BY <1>1 DEF EntryIsNewest
    <2>1. d # c
      BY <1>1, <1>5
    <2>2. pending'[d] = pending[d]
      BY <1>1, <2>1
    <2>3. Busy(d) /\ task[d].req = i
      BY <2>2 DEF IInv, EntryIsNewest
    <2>4. QED BY <1>2, <1>4, <2>1, <2>3
  <1>11. QED
    BY <1>1, <1>6, <1>7, <1>8, <1>9, <1>10 DEF IInv, GrantIsBrokered, GrantIsSingleUse,
                                               ProvenResponder

\* The entry is gone, whatever comes of the answer; a grant names its request.
LEMMA AnswerStep ==
  ASSUME IInv, TypeOK', NEW t \in Targets, NEW c \in Controllers, RelayResponse(t, c)
  PROVE  IInv'
  <1> DEFINE grant == [ctrl |-> c, target |-> pending[c].target, by |-> t, req |-> pending[c].req,
                       late |-> pending[c].expires <= now]
  <1>1. /\ UNCHANGED <<task, requests>>
        /\ pending'[c] = NoEntry
        /\ \A d \in Controllers \ {c} : pending'[d] = pending[d]
    BY DEF IInv, TypeOK, RelayResponse, Mint
  <1>2. TaskIsBrokered' /\ EntryIsBrokered' /\ PunchIsRecorded' /\ EntryIsNewest'
    BY <1>1 DEF IInv, TaskIsBrokered, EntryIsBrokered, PunchIsRecorded, EntryIsNewest, IsRequest,
                At
  <1>3. CASE grants' = grants
    <2>1. OpenIsUngranted'
      BY <1>1, <1>3 DEF IInv, OpenIsUngranted, Unrecorded, At
    <2>2. QED
      BY <1>1, <1>2, <1>3, <2>1 DEF IInv, GrantIsBrokered, GrantIsSingleUse, ProvenResponder
  <1>4. CASE grants' # grants
    <2>1. /\ pending[c] # NoEntry /\ (t \in Provisioned => pending[c].target = t)
          /\ grants' = grants \cup {grant}
      BY <1>4, Zenon DEF RelayResponse, Mint
    <2>2. /\ grant.ctrl = c /\ grant.target = pending[c].target
          /\ grant.by = t /\ grant.req = pending[c].req
      OBVIOUS
    <2>3. /\ IsRequest(grant.req, c, grant.target)
          /\ \A g \in grants : g.req # grant.req
      BY <2>1 DEF IInv, EntryIsBrokered, OpenIsUngranted
    <2>4. GrantIsBrokered'
      BY <1>1, <2>1, <2>2, <2>3 DEF IInv, GrantIsBrokered, IsRequest
    <2>5. GrantIsSingleUse'
      BY <2>1, <2>3 DEF IInv, GrantIsSingleUse
    <2>6. ProvenResponder'
      BY <2>1, <2>2 DEF IInv, ProvenResponder
    <2>7. OpenIsUngranted'
      <3>1. ASSUME NEW d \in Controllers, pending'[d] # NoEntry
            PROVE  \A g \in grants' : g.req # pending'[d].req
        <4>1. d # c /\ pending'[d] = pending[d]
          BY <1>1, <3>1
        <4>2. IsRequest(pending[d].req, d, pending[d].target)
          BY <3>1, <4>1 DEF IInv, EntryIsBrokered
        <4>3. pending[d].req # grant.req
          BY <2>3, <4>1, <4>2 DEF IsRequest
        <4>4. \A g \in grants : g.req # pending[d].req
          BY <3>1, <4>1 DEF IInv, OpenIsUngranted
        <4>5. QED BY <2>1, <4>1, <4>3, <4>4
      <3>2. ASSUME NEW d \in Controllers, Unrecorded(d)
            PROVE  \A g \in grants' : g.req # task[d].req
        <4>1. task[d].req # grant.req
          <5>1. CASE d = c
            BY <2>1, <2>2, <3>2, <5>1 DEF IInv, OpenIsUngranted
          <5>2. CASE d # c
            <6>1. IsRequest(task[d].req, d, task[d].target)
              BY <3>2 DEF IInv, TaskIsBrokered, Unrecorded
            <6>2. QED BY <2>3, <5>2, <6>1 DEF IsRequest
          <5>3. QED BY <5>1, <5>2
        <4>2. \A g \in grants : g.req # task[d].req
          BY <3>2 DEF IInv, OpenIsUngranted
        <4>3. QED BY <2>1, <4>1, <4>2
      <3>3. \A d \in Controllers : Unrecorded(d)' = Unrecorded(d)
        BY <1>1 DEF Unrecorded, At
      <3>4. ASSUME NEW d \in Controllers, Unrecorded(d), pending'[d] # NoEntry
            PROVE  pending'[d].req # task[d].req
        BY <1>1, <3>4 DEF IInv, OpenIsUngranted
      <3>5. QED BY <1>1, <3>1, <3>2, <3>3, <3>4 DEF OpenIsUngranted
    <2>8. QED
      BY <1>2, <2>4, <2>5, <2>6, <2>7 DEF IInv
  <1>5. QED
    BY <1>3, <1>4

\* Every step of the broker preserves IInv.
LEMMA InvStep == IInv /\ [Next]_vars => IInv'
  <1> SUFFICES ASSUME IInv, [Next]_vars PROVE IInv'
    OBVIOUS
  <1>1. TypeOK' BY TypeStep DEF IInv
  <1>2. TypeOK BY DEF IInv
  <1>3. ASSUME NEW c \in Controllers, NEW kind \in Kinds, NEW t \in Targets,
               RequestArrives(c, kind, t)
        PROVE  IInv'
    <2>1. /\ \A d \in Controllers \ {c} : task'[d] = task[d]
          /\ task'[c].at = "target_gate" /\ task[c].at = "ready"
          /\ UNCHANGED <<pending, requests, grants>>
      BY <1>2, <1>3 DEF TypeOK, RequestArrives, At
    <2>2. QED BY <1>1, <2>1, GateStep DEF At
  <1>4. ASSUME NEW c \in Controllers, NEW step \in Steps \ {"push", "record"}, Goto(c, step),
               ~At(c, "push"), ~At(c, "record"), UNCHANGED <<pending, requests, grants>>
        PROVE  IInv'
    <2>1. task'[c].at = step /\ \A d \in Controllers \ {c} : task'[d] = task[d]
      BY <1>2, <1>4 DEF TypeOK, Goto
    <2>2. QED BY <1>1, <1>4, <2>1, GateStep
  <1>5. ASSUME NEW c \in Controllers,
               LicenceMismatch(c) \/ TargetGate(c) \/ SourceGate(c) \/ Close(c)
        PROVE  IInv'
    <2>1. /\ \E step \in Steps \ {"push", "record"} : Goto(c, step)
          /\ ~At(c, "push") /\ ~At(c, "record")
          /\ UNCHANGED <<pending, requests, grants>>
      BY <1>5 DEF LicenceMismatch, TargetGate, SourceGate, Close, At, Steps
    <2>2. QED BY <1>4, <2>1
  <1>6. ASSUME NEW c \in Controllers, RelayLookup(c) PROVE IInv'
    <2>1. /\ At(c, "lookup") /\ task[c].kind = "relay" /\ UNCHANGED <<pending, grants>>
          /\ ~At(c, "push") /\ ~At(c, "record")
          /\ Accept(c, "push") \/ (Goto(c, "ready") /\ UNCHANGED requests)
      BY <1>6 DEF RelayLookup, At
    <2>2. CASE Accept(c, "push")
      BY <1>1, <2>1, <2>2, AcceptStep
    <2>3. CASE Goto(c, "ready") /\ UNCHANGED requests
      BY <1>4, <2>1, <2>3 DEF Steps
    <2>4. QED BY <2>1, <2>2, <2>3
  <1>7. ASSUME NEW c \in Controllers, PunchLookup(c) PROVE IInv'
    <2>1. /\ At(c, "lookup") /\ UNCHANGED <<pending, grants>>
          /\ ~At(c, "push") /\ ~At(c, "record")
          /\ \/ Accept(c, "push") /\ <<c, task[c].target>> \in SameIntranet
             \/ Accept(c, "record")
             \/ Goto(c, "ready") /\ UNCHANGED requests
      BY <1>7 DEF PunchLookup, At
    <2>2. CASE Accept(c, "push") /\ <<c, task[c].target>> \in SameIntranet
      BY <1>1, <2>1, <2>2, AcceptStep
    <2>3. CASE Accept(c, "record")
      BY <1>1, <2>1, <2>3, AcceptStep
    <2>4. CASE Goto(c, "ready") /\ UNCHANGED requests
      BY <1>4, <2>1, <2>4 DEF Steps
    <2>5. QED BY <2>1, <2>2, <2>3, <2>4
  <1>8. ASSUME NEW c \in Controllers, Push(c) \/ Record(c) PROVE IInv'
    BY <1>1, <1>8, PushStep, RecordStep
  <1>9. ASSUME NEW t \in Targets, NEW c \in Controllers, RelayResponse(t, c) PROVE IInv'
    BY <1>1, <1>9, AnswerStep
  <1>10. ASSUME UNCHANGED <<task, pending, requests, grants>> PROVE IInv'
    BY <1>1, <1>10, FrameStep
  <1>11. ASSUME NEW t \in Targets, NEW c \in Controllers, PunchAnswer(t, c) PROVE IInv'
    BY <1>10, <1>11 DEF PunchAnswer
  <1>12. ASSUME NEW t \in Targets, ForwardResponse(t) PROVE IInv'
    BY <1>10, <1>12 DEF ForwardResponse
  <1>13. ASSUME NEW t \in Targets, NEW s \in {"unknown", "stale", "online"}, PeerChange(t, s)
         PROVE  IInv'
    BY <1>10, <1>13 DEF PeerChange
  <1>14. CASE PolicyChange \/ Tick \/ UNCHANGED vars
    BY <1>10, <1>14 DEF PolicyChange, Tick, vars
  <1>15. QED
    BY <1>3, <1>5, <1>6, <1>7, <1>8, <1>9, <1>11, <1>12, <1>13, <1>14 DEF Next, ControllerStep

LEMMA InvInit == Init => IInv
  BY TypeInit, BrokerAssumption
  DEF Init, IInv, TaskIsBrokered, EntryIsBrokered, OpenIsUngranted, PunchIsRecorded,
      GrantIsBrokered, GrantIsSingleUse, ProvenResponder, EntryIsNewest, Unrecorded, At

\* The inductive invariant holds in every reachable state of every instance.
THEOREM Invariant == Spec => []IInv
  BY InvInit, InvStep, PTL DEF Spec

-----------------------------------------------------------------------------
(* What the invariant gives.                                               *)

\* Every relay grant stands for a request hbbs accepted, of the same controller
\* for the same target.
THEOREM GrantsAreBrokered == Spec => []GrantIsBrokered
  <1>1. IInv => GrantIsBrokered BY DEF IInv
  <1>2. QED BY <1>1, Invariant, PTL

\* One accepted request is never turned into two relay grants.
THEOREM GrantsAreSingleUse == Spec => []GrantIsSingleUse
  <1>1. IInv => GrantIsSingleUse BY DEF IInv
  <1>2. QED BY <1>1, Invariant, PTL

\* A device-authenticated responder is granted only its own sessions.
THEOREM RespondersAreProven == Spec => []ProvenResponder
  <1>1. IInv => ProvenResponder BY DEF IInv
  <1>2. QED BY <1>1, Invariant, PTL

\* A pending entry never stands for a request its controller has superseded.
THEOREM EntriesAreNewest == Spec => []EntryIsNewest
  <1>1. IInv => EntryIsNewest BY DEF IInv
  <1>2. QED BY <1>1, Invariant, PTL

\* A live entry is removed by an answer for its own address and by nothing else: not
\* by the sweep for expired entries, which every insert performs under its lock.
THEOREM LiveEntriesAreKept == Spec => LiveEntryIsKept
  <1> DEFINE Kept1 == \A c \in Controllers :
               (pending[c] # NoEntry /\ pending[c].expires > now /\ pending'[c] = NoEntry)
                 => \E t \in Targets : RelayResponse(t, c)
  <1>1. ASSUME TypeOK, [Next]_vars PROVE Kept1
    <2>1. CASE pending' = pending
      BY <2>1
    <2>2. ASSUME NEW d \in Controllers, Record(d) PROVE Kept1
      <3>1. pending' = [c \in Controllers |-> IF c = d THEN NewEntry(d) ELSE Kept(c)]
        BY <2>2 DEF Record, AfterRecord
      <3>2. NewEntry(d) \in Entry
        BY <1>1, BrokerAssumption DEF TypeOK, NewEntry, Entry
      <3>3. NewEntry(d) # NoEntry
        BY <3>2, BrokerAssumption, Zenon DEF Entry
      <3>4. QED BY <3>1, <3>3 DEF Kept
    <2>3. ASSUME NEW t \in Targets, NEW d \in Controllers, RelayResponse(t, d) PROVE Kept1
      <3>1. \A c \in Controllers \ {d} : pending'[c] = pending[c]
        BY <1>1, <2>3 DEF TypeOK, RelayResponse
      <3>2. QED BY <2>3, <3>1
    <2>4. QED
      BY <1>1, <2>1, <2>2, <2>3
      DEF Next, ControllerStep, RequestArrives, LicenceMismatch, TargetGate, SourceGate,
          RelayLookup, PunchLookup, Push, Close, PunchAnswer, ForwardResponse, PeerChange,
          PolicyChange, Tick, vars
  <1>2. QED BY <1>1, TypeCorrect, PTL DEF Spec, LiveEntryIsKept

-----------------------------------------------------------------------------
(* Every grant is answered.                                                *)

\* A write half its task still has belongs to a connection that has asked for nothing yet.
SinkIsUnasked ==
  \A c \in Controllers : sink[c] = "task" =>
    /\ At(c, "ready") /\ pending[c] = NoEntry
    /\ \A t \in Targets : c \notin forward[t]
    /\ \A g \in grants : g.ctrl # c

ForwardIsGranted == \A t \in Targets : \A c \in forward[t] : \E g \in grants : g.ctrl = c

AnswerIInv == TypeOK /\ SinkIsUnasked /\ ForwardIsGranted /\ GrantIsAnswered

\* Steps that neither mint nor forward: a write half may be parked, spent on another answer,
\* or end with its connection.
LEMMA AnswersKept ==
  ASSUME AnswerIInv, TypeOK', UNCHANGED <<forward, grants>>,
         \A c \in Controllers : \/ sink'[c] = sink[c]
                                \/ sink'[c] \in {"told", "gone"}
                                \/ sink[c] = "task" /\ sink'[c] = "punch",
         \A c \in Controllers : sink'[c] = "task" => At(c, "ready")' /\ pending'[c] = NoEntry
  PROVE  AnswerIInv'
  <1>1. SinkIsUnasked' /\ ForwardIsGranted'
    BY DEF AnswerIInv, SinkIsUnasked, ForwardIsGranted
  <1>2. GrantIsAnswered'
    <2>1. ASSUME NEW g \in grants
          PROVE  g.ctrl \in forward[g.by] \/ sink'[g.ctrl] \in {"granted", "told", "gone"}
      <3>1. g.ctrl \in Controllers
        BY DEF AnswerIInv, TypeOK, Grant
      <3>2. sink[g.ctrl] # "task"
        BY <3>1 DEF AnswerIInv, SinkIsUnasked
      <3>3. g.ctrl \in forward[g.by] \/ sink[g.ctrl] \in {"granted", "told", "gone"}
        BY DEF AnswerIInv, GrantIsAnswered
      <3>4. QED BY <3>1, <3>2, <3>3
    <2>2. \A c \in Controllers : sink'[c] = "granted" => sink[c] = "granted"
      OBVIOUS
    <2>3. QED BY <2>1, <2>2 DEF AnswerIInv, GrantIsAnswered
  <1>3. QED BY <1>1, <1>2 DEF AnswerIInv

\* A granted answer is on its way from the step that minted it.
LEMMA MintKeeps ==
  ASSUME AnswerIInv, TypeOK', NEW t \in Targets, NEW c \in Controllers, RelayResponse(t, c)
  PROVE  AnswerIInv'
  <1>1. /\ UNCHANGED <<task, sink>>
        /\ \A d \in Controllers : pending'[d] \in {pending[d], NoEntry}
    BY DEF AnswerIInv, TypeOK, RelayResponse
  <1>2. CASE UNCHANGED <<grants, forward>>
    BY <1>1, <1>2, AnswersKept DEF AnswerIInv, SinkIsUnasked, At
  <1>3. CASE pending[c] # NoEntry /\ Mint(t, c, pending[c])
    <2>1. sink[c] # "task"
      BY <1>3 DEF AnswerIInv, SinkIsUnasked
    <2>2. PICK new : /\ new.ctrl = c /\ new.by = t
                     /\ grants' = grants \cup {new}
      BY <1>3 DEF Mint
    <2>3. forward' = [forward EXCEPT ![t] = @ \cup {c}]
      BY <1>3 DEF Mint
    <2>4. \A s \in Targets : forward'[s] = IF s = t THEN forward[t] \cup {c} ELSE forward[s]
      BY <2>3 DEF AnswerIInv, TypeOK
    <2>5. SinkIsUnasked'
      BY <1>1, <2>1, <2>2, <2>4 DEF AnswerIInv, SinkIsUnasked, At
    <2>6. ForwardIsGranted'
      BY <2>2, <2>4 DEF AnswerIInv, ForwardIsGranted
    <2>7. GrantIsAnswered'
      <3>1. ASSUME NEW g \in grants'
            PROVE  g.ctrl \in forward'[g.by] \/ sink'[g.ctrl] \in {"granted", "told", "gone"}
        <4>1. CASE g = new
          BY <2>2, <2>4, <4>1
        <4>2. CASE g \in grants
          <5>1. g.by \in Targets
            BY <4>2 DEF AnswerIInv, TypeOK, Grant
          <5>2. g.ctrl \in forward[g.by] \/ sink[g.ctrl] \in {"granted", "told", "gone"}
            BY <4>2 DEF AnswerIInv, GrantIsAnswered
          <5>3. QED BY <1>1, <2>4, <5>1, <5>2
        <4>3. QED BY <2>2, <4>1, <4>2
      <3>2. \A d \in Controllers : sink'[d] = "granted" => \E g \in grants' : g.ctrl = d
        BY <1>1, <2>2 DEF AnswerIInv, GrantIsAnswered
      <3>3. QED BY <3>1, <3>2 DEF GrantIsAnswered
    <2>8. QED BY <2>5, <2>6, <2>7 DEF AnswerIInv
  <1>4. QED BY <1>2, <1>3 DEF RelayResponse

\* The responder's task sends it, to the one who waits or to nobody.
LEMMA ForwardKeeps ==
  ASSUME AnswerIInv, TypeOK', NEW t \in Targets, ForwardResponse(t)
  PROVE  AnswerIInv'
  <1>1. PICK c \in Controllers :
          /\ c \in forward[t] /\ Answer(c, "granted")
          /\ forward' = [forward EXCEPT ![t] = @ \ {c}]
          /\ UNCHANGED <<task, pending, grants>>
    BY DEF ForwardResponse, AnswerIInv, TypeOK
  <1>2. /\ \A s \in Targets : forward'[s] = IF s = t THEN forward[t] \ {c} ELSE forward[s]
        /\ \A d \in Controllers :
             sink'[d] = IF d = c /\ sink[c] = "punch" THEN "granted" ELSE sink[d]
    BY <1>1 DEF AnswerIInv, TypeOK, Answer
  <1>3. /\ sink[c] \in Sinks /\ sink[c] # "task"
        /\ \E g \in grants : g.ctrl = c
    BY <1>1 DEF AnswerIInv, TypeOK, SinkIsUnasked, ForwardIsGranted
  <1>4. sink'[c] \in {"granted", "told", "gone"}
    BY <1>2, <1>3 DEF Sinks
  <1>5. SinkIsUnasked' /\ ForwardIsGranted'
    BY <1>1, <1>2, <1>3 DEF AnswerIInv, SinkIsUnasked, ForwardIsGranted, At
  <1>6. GrantIsAnswered'
    <2>1. ASSUME NEW g \in grants
          PROVE  g.ctrl \in forward'[g.by] \/ sink'[g.ctrl] \in {"granted", "told", "gone"}
      <3>1. g.by \in Targets /\ g.ctrl \in Controllers
        BY DEF AnswerIInv, TypeOK, Grant
      <3>2. g.ctrl \in forward[g.by] \/ sink[g.ctrl] \in {"granted", "told", "gone"}
        BY DEF AnswerIInv, GrantIsAnswered
      <3>3. CASE g.ctrl = c
        BY <1>4, <3>3
      <3>4. CASE g.ctrl # c
        BY <1>2, <3>1, <3>2, <3>4
      <3>5. QED BY <3>3, <3>4
    <2>2. \A d \in Controllers : sink'[d] = "granted" => \E g \in grants : g.ctrl = d
      BY <1>2, <1>3 DEF AnswerIInv, GrantIsAnswered
    <2>3. QED BY <1>1, <2>1, <2>2 DEF GrantIsAnswered
  <1>7. QED BY <1>5, <1>6 DEF AnswerIInv

LEMMA AnsweredStep == AnswerIInv /\ [Next]_vars => AnswerIInv'
  <1> SUFFICES ASSUME AnswerIInv, [Next]_vars PROVE AnswerIInv'
    OBVIOUS
  <1>1. TypeOK /\ TypeOK'
    BY TypeStep DEF AnswerIInv
  <1>2. \A c \in Controllers : sink[c] = "task" => At(c, "ready") /\ pending[c] = NoEntry
    BY DEF AnswerIInv, SinkIsUnasked
  <1>3. ASSUME NEW c \in Controllers, NEW kind \in Kinds, NEW t \in Targets, RequestArrives(c, kind, t)
        PROVE  AnswerIInv'
    <2>1. /\ \A d \in Controllers : sink'[d] = IF d = c /\ sink[c] = "task" THEN "punch" ELSE sink[d]
          /\ \A d \in Controllers \ {c} : task'[d] = task[d]
          /\ UNCHANGED <<pending, forward, grants>>
      BY <1>1, <1>3 DEF TypeOK, RequestArrives, Park
    <2>2. QED BY <1>1, <1>2, <2>1, AnswersKept DEF At
  <1>4. ASSUME NEW c \in Controllers, ControllerStep(c)
        PROVE  AnswerIInv'
    <2>1. ~At(c, "ready") /\ UNCHANGED <<forward, grants>>
      BY <1>4 DEF ControllerStep, LicenceMismatch, TargetGate, SourceGate, RelayLookup, PunchLookup,
                  Push, Record, AfterRecord, At
    <2>2. Answer(c, "told") \/ UNCHANGED sink
      BY <1>4 DEF ControllerStep, LicenceMismatch, TargetGate, SourceGate, RelayLookup, PunchLookup,
                  Push, Record, AfterRecord
    <2>3. \A d \in Controllers : sink'[d] = sink[d] \/ sink'[d] = "told"
      BY <1>1, <2>2 DEF TypeOK, Answer
    <2>4. \A d \in Controllers \ {c} : task'[d] = task[d]
      BY <1>1, <1>4 DEF TypeOK, ControllerStep, LicenceMismatch, TargetGate, SourceGate, RelayLookup,
                        PunchLookup, Push, Record, AfterRecord, Goto, Accept
    <2>5. \A d \in Controllers \ {c} : pending'[d] \in {pending[d], NoEntry}
      BY <1>1, <1>4 DEF TypeOK, ControllerStep, LicenceMismatch, TargetGate, SourceGate, RelayLookup,
                        PunchLookup, Push, Record, AfterRecord, Kept
    <2>6. sink'[c] # "task"
      BY <1>2, <2>1, <2>3
    <2>7. QED BY <1>1, <1>2, <2>1, <2>3, <2>4, <2>5, <2>6, AnswersKept DEF At
  <1>5. ASSUME NEW c \in Controllers, Close(c)
        PROVE  AnswerIInv'
    <2>1. /\ \A d \in Controllers :
               sink'[d] = IF d = c /\ sink[c] \in {"task", "punch"} THEN "gone" ELSE sink[d]
          /\ \A d \in Controllers \ {c} : task'[d] = task[d]
          /\ UNCHANGED <<pending, forward, grants>>
      BY <1>1, <1>5 DEF TypeOK, Close, Goto
    <2>2. QED BY <1>1, <1>2, <2>1, AnswersKept DEF At
  <1>6. ASSUME NEW t \in Targets, NEW c \in Controllers, PunchAnswer(t, c)
        PROVE  AnswerIInv'
    <2>1. /\ \A d \in Controllers : sink'[d] = sink[d] \/ sink'[d] = "told"
          /\ UNCHANGED <<task, pending, forward, grants>>
      BY <1>1, <1>6 DEF TypeOK, PunchAnswer, Answer
    <2>2. QED BY <1>1, <1>2, <2>1, AnswersKept DEF At
  <1>7. CASE \/ \E t \in Targets, s \in {"unknown", "stale", "online"} : PeerChange(t, s)
             \/ PolicyChange \/ Tick \/ UNCHANGED vars
    <2>1. UNCHANGED <<task, sink, pending, forward, grants>>
      BY <1>7 DEF PeerChange, PolicyChange, Tick, vars
    <2>2. QED BY <1>1, <1>2, <2>1, AnswersKept DEF At
  <1>8. QED
    BY <1>1, <1>3, <1>4, <1>5, <1>6, <1>7, MintKeeps, ForwardKeeps DEF Next

LEMMA AnsweredInit == Init => AnswerIInv
  BY TypeInit DEF Init, AnswerIInv, SinkIsUnasked, ForwardIsGranted, GrantIsAnswered, At

\* Whatever answers, refusals and closed connections get in between, for any number of them: a
\* granted answer is on its way, has reached its controller, or finds the write half taken by
\* another answer or by the end of the connection (RelayResponse, send_to_tcp).
THEOREM GrantsAreAnswered == Spec => []GrantIsAnswered
  <1>1. AnswerIInv => GrantIsAnswered
    BY DEF AnswerIInv
  <1>2. QED
    BY <1>1, AnsweredInit, AnsweredStep, PTL DEF Spec

-----------------------------------------------------------------------------
(* The broker implements BrokerBook.                                       *)

\* A step that leaves the history, the grants and what is open alone is none of the book's.
LEMMA BookStutters ==
  ASSUME UNCHANGED <<requests, grants>>, \A c \in Controllers : Open(c)' = Open(c)
  PROVE  UNCHANGED Book!bookVars
  BY DEF Book!bookVars

\* What a sweep, a refusal or a newer request takes away lapses in the book.
LEMMA BookLapses ==
  ASSUME UNCHANGED <<requests, grants>>, \A c \in Controllers : Open(c)' \subseteq Open(c)
  PROVE  Book!BookNext
  <1> DEFINE lapsed == {p \in Controllers \X (1..Len(requests)) : p[2] \notin Open(p[1])'}
  <1>1. lapsed \in SUBSET (Controllers \X (1..Len(requests)))
    OBVIOUS
  <1>2. ASSUME NEW c \in Controllers
        PROVE  Open(c)' = {r \in Open(c) : <<c, r>> \notin lapsed}
    <2>1. Open(c) \subseteq 1..Len(requests)
      BY DEF Open
    <2>2. \A r \in Open(c) : <<c, r>> \in lapsed <=> r \notin Open(c)'
      BY <2>1
    <2>3. QED BY <2>2
  <1>3. Book!Lapse(lapsed)
    <2> HIDE DEF lapsed
    <2>1. [c \in Controllers |-> Open(c)'] =
            [c \in Controllers |-> {r \in [d \in Controllers |-> Open(d)][c] : <<c, r>> \notin lapsed}]
      BY <1>2
    <2>2. QED BY <2>1 DEF Book!Lapse
  <1>4. QED BY <1>1, <1>3 DEF Book!BookNext

\* An accepted request goes to the end of the book, open unless only addresses are asked for.
LEMMA BookEnters ==
  ASSUME IInv, UNCHANGED <<pending, grants>>,
         NEW c \in Controllers, NEW step \in {"push", "record"}, At(c, "lookup"), Accept(c, step)
  PROVE  Book!BookNext
  <1> DEFINE n == Len(requests) + 1
             t == task[c].target
             opened == step = "record" \/ task[c].kind = "relay"
  <1>1. TypeOK /\ step \in Steps /\ Len(requests) \in Nat
    BY DEF IInv, TypeOK, Steps
  <1>2. Len(requests') = n
    BY <1>1, AcceptType
  <1>3. /\ task'[c] = [at |-> step, kind |-> task[c].kind, target |-> t, req |-> n]
        /\ \A d \in Controllers \ {c} : task'[d] = task[d]
    BY DEF IInv, TypeOK, Accept
  <1>4. /\ ~Unrecorded(c) /\ (Unrecorded(c)' <=> opened)
        /\ \A d \in Controllers \ {c} : Unrecorded(d)' = Unrecorded(d)
    BY <1>3 DEF Unrecorded, At
  <1>5. ASSUME NEW d \in Controllers
        PROVE  /\ pending[d] # NoEntry => pending[d].req \in 1..Len(requests)
               /\ Unrecorded(d) => task[d].req \in 1..Len(requests)
    BY DEF IInv, EntryIsBrokered, TaskIsBrokered, IsRequest, Unrecorded
  <1>6. ASSUME NEW d \in Controllers \ {c} PROVE Open(d)' = Open(d)
    BY <1>1, <1>2, <1>3, <1>4, <1>5 DEF Open
  <1>7. Open(c)' = IF opened THEN Open(c) \cup {n} ELSE Open(c)
    BY <1>1, <1>2, <1>3, <1>4, <1>5 DEF Open
  <1>8. [d \in Controllers |-> Open(d)'] \in
          {[d \in Controllers |-> Open(d)],
           [[d \in Controllers |-> Open(d)] EXCEPT ![c] = @ \cup {n}]}
    <2>1. CASE opened
      BY <1>6, <1>7, <2>1
    <2>2. CASE ~opened
      BY <1>6, <1>7, <2>2
    <2>3. QED BY <2>1, <2>2
  <1>9. t \in Targets
    BY <1>1 DEF TypeOK
  <1>10. Book!Enter(c, t)
    BY <1>8 DEF Book!Enter, Accept
  <1>11. QED BY <1>9, <1>10 DEF Book!BookNext

\* A granted answer takes its entry out of the book: only what is being recorded is newer.
LEMMA BookIssues ==
  ASSUME IInv, NEW t \in Targets, NEW c \in Controllers, RelayResponse(t, c), grants' # grants
  PROVE  Book!BookNext
  <1>0. PICK r : r = pending[c].req
    OBVIOUS
  <1> DEFINE grant == [ctrl |-> c, target |-> pending[c].target, by |-> t, req |-> r,
                      late |-> pending[c].expires <= now]
  <1>1. /\ pending[c] # NoEntry /\ (t \in Provisioned => pending[c].target = t)
        /\ grants' = grants \cup {grant}
    BY <1>0, Zenon DEF RelayResponse, Mint
  <1>2. /\ UNCHANGED <<task, requests>>
        /\ pending'[c] = NoEntry
        /\ \A d \in Controllers \ {c} : pending'[d] = pending[d]
    BY DEF IInv, TypeOK, RelayResponse, Mint
  <1>3. /\ r \in 1..Len(requests) /\ requests[r] = [ctrl |-> c, target |-> pending[c].target]
        /\ Len(requests) \in Nat
    BY <1>0, <1>1 DEF IInv, EntryIsBrokered, IsRequest, TypeOK
  <1>4. Unrecorded(c) => task[c].req \in 1..Len(requests) /\ task[c].req > r
    <2> SUFFICES ASSUME Unrecorded(c)
                 PROVE  task[c].req \in 1..Len(requests) /\ task[c].req > r
      OBVIOUS
    <2>1. /\ task[c].req \in 1..Len(requests)
          /\ \A i \in 1..Len(requests) : i > task[c].req => requests[i].ctrl # c
      BY DEF IInv, TaskIsBrokered, IsRequest, Unrecorded
    <2>2. r # task[c].req
      BY <1>0, <1>1 DEF IInv, OpenIsUngranted
    <2>3. ~(r > task[c].req)
      BY <1>3, <2>1
    <2>4. QED BY <1>3, <2>1, <2>2, <2>3
  <1>5. Open(c)' = {i \in Open(c) : i > r}
    BY <1>0, <1>1, <1>2, <1>3, <1>4 DEF Open, Unrecorded, At
  <1>6. \A d \in Controllers \ {c} : Open(d)' = Open(d)
    BY <1>2 DEF Open, Unrecorded, At
  <1>7. r \in Open(c)
    BY <1>0, <1>1, <1>3 DEF Open
  <1>8. [d \in Controllers |-> Open(d)'] =
          [[d \in Controllers |-> Open(d)] EXCEPT ![c] = {i \in @ : i > r}]
    BY <1>5, <1>6
  <1>9. {[ctrl |-> g.ctrl, target |-> g.target, by |-> g.by, req |-> g.req] : g \in grants'} =
          {[ctrl |-> g.ctrl, target |-> g.target, by |-> g.by, req |-> g.req] : g \in grants}
             \cup {[ctrl |-> c, target |-> requests[r].target, by |-> t, req |-> r]}
    BY <1>0, <1>1, <1>3
  <1>10. Book!Issue(c, t, r)
    BY <1>1, <1>2, <1>3, <1>7, <1>8, <1>9 DEF Book!Issue
  <1>11. r \in [d \in Controllers |-> Open(d)][c]
    BY <1>7
  <1>12. QED BY <1>10, <1>11 DEF Book!BookNext

LEMMA BookInitially == Init => Book!BookInit
  <1> SUFFICES ASSUME Init PROVE Book!BookInit
    OBVIOUS
  <1>1. \A c \in Controllers : Open(c) = {}
    BY DEF Init, Open, Unrecorded, At
  <1>2. QED BY <1>1 DEF Init, Book!BookInit

\* Every step of the broker is a step of the book, or none of its business.
LEMMA BookStep == IInv /\ [Next]_vars => [Book!BookNext]_(Book!bookVars)
  <1> SUFFICES ASSUME IInv, [Next]_vars PROVE [Book!BookNext]_(Book!bookVars)
    OBVIOUS
  <1>1. ASSUME UNCHANGED <<pending, requests, grants>>,
               \A c \in Controllers : /\ Unrecorded(c)' = Unrecorded(c)
                                      /\ Unrecorded(c) => task'[c].req = task[c].req
        PROVE  [Book!BookNext]_(Book!bookVars)
    <2>1. \A c \in Controllers : Open(c)' = Open(c)
      BY <1>1 DEF Open
    <2>2. QED BY <1>1, <2>1, BookStutters
  <1>2. ASSUME NEW c \in Controllers, UNCHANGED <<pending, requests, grants>>,
               \A d \in Controllers \ {c} : task'[d] = task[d],
               ~Unrecorded(c), ~Unrecorded(c)'
        PROVE  [Book!BookNext]_(Book!bookVars)
    BY <1>1, <1>2 DEF Unrecorded, At
  <1>3. ASSUME NEW c \in Controllers,
               \E kind \in Kinds, t \in Targets : RequestArrives(c, kind, t)
        PROVE  [Book!BookNext]_(Book!bookVars)
    <2>1. /\ \A d \in Controllers \ {c} : task'[d] = task[d]
          /\ task'[c].at = "target_gate" /\ task[c].at = "ready"
          /\ UNCHANGED <<pending, requests, grants>>
      BY <1>3 DEF IInv, TypeOK, RequestArrives, At
    <2>2. QED BY <1>2, <2>1 DEF Unrecorded, At
  <1>4. ASSUME NEW c \in Controllers, NEW step \in Steps \ {"push", "record"}, Goto(c, step),
               ~Unrecorded(c), UNCHANGED <<pending, requests, grants>>
        PROVE  [Book!BookNext]_(Book!bookVars)
    <2>1. task'[c].at = step /\ \A d \in Controllers \ {c} : task'[d] = task[d]
      BY <1>4 DEF IInv, TypeOK, Goto
    <2>2. ~Unrecorded(c)'
      BY <2>1 DEF Unrecorded, At
    <2>3. QED BY <1>2, <1>4, <2>1, <2>2
  <1>5. ASSUME NEW c \in Controllers,
               LicenceMismatch(c) \/ TargetGate(c) \/ SourceGate(c) \/ Close(c)
        PROVE  [Book!BookNext]_(Book!bookVars)
    <2>1. /\ \E step \in Steps \ {"push", "record"} : Goto(c, step)
          /\ ~Unrecorded(c)
          /\ UNCHANGED <<pending, requests, grants>>
      BY <1>5 DEF LicenceMismatch, TargetGate, SourceGate, Close, Unrecorded, At, Steps
    <2>2. QED BY <1>4, <2>1
  <1>6. ASSUME NEW c \in Controllers, RelayLookup(c) \/ PunchLookup(c)
        PROVE  [Book!BookNext]_(Book!bookVars)
    <2>1. /\ At(c, "lookup") /\ ~Unrecorded(c) /\ UNCHANGED <<pending, grants>>
          /\ \/ \E step \in {"push", "record"} : Accept(c, step)
             \/ Goto(c, "ready") /\ UNCHANGED requests
      BY <1>6 DEF RelayLookup, PunchLookup, Unrecorded, At
    <2>2. CASE \E step \in {"push", "record"} : Accept(c, step)
      BY <2>1, <2>2, BookEnters
    <2>3. CASE Goto(c, "ready") /\ UNCHANGED requests
      BY <1>4, <2>1, <2>3 DEF Steps
    <2>4. QED BY <2>1, <2>2, <2>3
  <1>7. ASSUME NEW c \in Controllers, Push(c)
        PROVE  [Book!BookNext]_(Book!bookVars)
    <2>1. /\ UNCHANGED <<pending, requests, grants>>
          /\ \A d \in Controllers \ {c} : task'[d] = task[d]
          /\ task[c].at = "push" /\ task[c].kind \in {"relay", "punch"}
          /\ task'[c].at = IF task[c].kind = "relay" THEN "record" ELSE "ready"
          /\ task'[c].kind = task[c].kind /\ task'[c].req = task[c].req
      BY <1>7 DEF IInv, TypeOK, Push, Goto, At, Kinds
    <2>2. QED BY <1>1, <2>1 DEF Unrecorded, At
  <1>8. ASSUME NEW c \in Controllers, Record(c)
        PROVE  [Book!BookNext]_(Book!bookVars)
    <2>1. /\ UNCHANGED <<requests, grants>>
          /\ Unrecorded(c)
          /\ pending'[c] # NoEntry => pending'[c].req = task[c].req
          /\ \A d \in Controllers \ {c} : pending'[d] \in {pending[d], NoEntry}
      BY <1>8 DEF IInv, TypeOK, Record, AfterRecord, NewEntry, Kept, Unrecorded
    <2>2. /\ ~Unrecorded(c)'
          /\ \A d \in Controllers \ {c} : task'[d] = task[d]
      BY <1>8 DEF IInv, TypeOK, Record, AfterRecord, Goto, Unrecorded, At, Kinds
    <2>3. \A d \in Controllers : Open(d)' \subseteq Open(d)
      BY <2>1, <2>2 DEF Open, Unrecorded, At
    <2>4. QED BY <2>1, <2>3, BookLapses
  <1>9. ASSUME NEW t \in Targets, NEW c \in Controllers, RelayResponse(t, c)
        PROVE  [Book!BookNext]_(Book!bookVars)
    <2>1. CASE grants' # grants
      BY <1>9, <2>1, BookIssues
    <2>2. CASE grants' = grants
      <3>1. /\ UNCHANGED <<task, requests>>
            /\ \A d \in Controllers : pending'[d] \in {pending[d], NoEntry}
        BY <1>9 DEF IInv, TypeOK, RelayResponse
      <3>2. \A d \in Controllers : Open(d)' \subseteq Open(d)
        BY <3>1 DEF Open, Unrecorded, At
      <3>3. QED BY <2>2, <3>1, <3>2, BookLapses
    <2>3. QED BY <2>1, <2>2
  <1>10. ASSUME UNCHANGED <<task, pending, requests, grants>>
         PROVE  [Book!BookNext]_(Book!bookVars)
    BY <1>1, <1>10 DEF Unrecorded, At
  <1>11. ASSUME NEW t \in Targets,
                \/ \E c \in Controllers : PunchAnswer(t, c)
                \/ ForwardResponse(t)
                \/ \E s \in {"unknown", "stale", "online"} : PeerChange(t, s)
         PROVE  [Book!BookNext]_(Book!bookVars)
    BY <1>10, <1>11 DEF PunchAnswer, ForwardResponse, PeerChange
  <1>12. CASE PolicyChange \/ Tick \/ UNCHANGED vars
    BY <1>10, <1>12 DEF PolicyChange, Tick, vars
  <1>13. QED
    BY <1>3, <1>5, <1>6, <1>7, <1>8, <1>9, <1>11, <1>12 DEF Next, ControllerStep

\* For any number of controllers and targets, hbbs grants what BrokerBook lets it grant:
\* what RelayResponse takes out of pending_relay was accepted, is the answer's own, and
\* nothing the same controller asked later was granted before it.
THEOREM BookRefinement == Spec => BookSpec
  BY BookInitially, InvInit, InvStep, BookStep, PTL DEF Spec, BookSpec, Book!BookSpec

-----------------------------------------------------------------------------
(* What follows from the book.                                             *)

\* The book's invariant is preserved by every step of the book: a new request comes after
\* all that was granted, and a grant closes what is not newer.
LEMMA BookInvStep ==
  TypeOK /\ Book!OpenIsLater /\ [Book!BookNext]_(Book!bookVars) => Book!OpenIsLater'
  <1> SUFFICES ASSUME TypeOK, Book!OpenIsLater, [Book!BookNext]_(Book!bookVars)
               PROVE  Book!OpenIsLater'
    OBVIOUS
  <1> DEFINE Issued == {[ctrl |-> g.ctrl, target |-> g.target, by |-> g.by, req |-> g.req] :
                          g \in grants}
             n == Len(requests) + 1
             Later(d, r) == r \in 1..Len(requests) /\ requests[r].ctrl = d
                            /\ \A g \in Issued : g.ctrl = d => g.req < r
  <1>1. requests \in Seq(Request) /\ Len(requests) \in Nat
    BY DEF TypeOK, Request
  <1>2. /\ \A g \in Issued : g.req \in 1..Len(requests)
        /\ \A d \in Controllers : \A r \in Open(d) : Later(d, r)
    BY DEF Book!OpenIsLater
  <1>3. ASSUME \A g \in Issued' : g.req \in 1..Len(requests'),
               \A d \in Controllers : \A r \in Open(d)' : Later(d, r)'
        PROVE  Book!OpenIsLater'
    BY <1>3 DEF Book!OpenIsLater
  <1>4. ASSUME NEW c \in Controllers, NEW t \in Targets, Book!Enter(c, t)
        PROVE  Book!OpenIsLater'
    <2>1. /\ requests' = Append(requests, [ctrl |-> c, target |-> t])
          /\ Issued' = Issued
          /\ [d \in Controllers |-> Open(d)'] \in
               {[d \in Controllers |-> Open(d)],
                [[d \in Controllers |-> Open(d)] EXCEPT ![c] = @ \cup {n}]}
      BY <1>4 DEF Book!Enter
    <2>2. \A d \in Controllers : Open(d)' = Open(d) \/ (d = c /\ Open(d)' = Open(d) \cup {n})
      BY <2>1
    <2>3. /\ Len(requests') = n /\ requests'[n].ctrl = c
          /\ \A i \in 1..Len(requests) : requests'[i] = requests[i]
      <3>1. [ctrl |-> c, target |-> t] \in Request BY DEF Request
      <3>2. QED BY <1>1, <2>1, <3>1
    <2> HIDE DEF Issued
    <2>4. \A g \in Issued' : g.req \in 1..Len(requests')
      BY <1>1, <1>2, <2>1, <2>3
    <2>5. ASSUME NEW d \in Controllers, NEW r \in Open(d)' PROVE Later(d, r)'
      <3>1. CASE r \in Open(d)
        BY <1>1, <1>2, <2>1, <2>3, <3>1
      <3>2. CASE d = c /\ r = n
        BY <1>1, <1>2, <2>1, <2>3, <3>2
      <3>3. QED BY <2>2, <2>5, <3>1, <3>2
    <2>6. QED BY <1>3, <2>4, <2>5
  <1>5. ASSUME NEW c \in Controllers, NEW t \in Targets, NEW r \in Open(c), Book!Issue(c, t, r)
        PROVE  Book!OpenIsLater'
    <2>1. /\ requests' = requests
          /\ Issued' = Issued \cup {[ctrl |-> c, target |-> requests[r].target, by |-> t, req |-> r]}
          /\ [d \in Controllers |-> Open(d)'] =
               [[d \in Controllers |-> Open(d)] EXCEPT ![c] = {i \in @ : i > r}]
      BY <1>5 DEF Book!Issue
    <2>2. \A d \in Controllers : /\ Open(d)' \subseteq Open(d)
                                 /\ d = c => \A i \in Open(d)' : i > r
      BY <2>1
    <2>3. r \in 1..Len(requests)
      BY <1>2
    <2> HIDE DEF Issued
    <2>4. \A g \in Issued' : g.req \in 1..Len(requests')
      BY <1>2, <2>1, <2>3
    <2>5. ASSUME NEW d \in Controllers, NEW i \in Open(d)' PROVE Later(d, i)'
      <3>1. i \in Open(d) /\ (d = c => i > r)
        BY <2>2, <2>5
      <3>2. Later(d, i)
        BY <1>2, <3>1
      <3>3. QED BY <1>1, <2>1, <2>3, <3>1, <3>2
    <2>6. QED BY <1>3, <2>4, <2>5
  <1>6. ASSUME NEW lapsed, Book!Lapse(lapsed)
        PROVE  Book!OpenIsLater'
    <2>1. /\ requests' = requests /\ Issued' = Issued
          /\ [d \in Controllers |-> Open(d)'] =
               [d \in Controllers |-> {r \in [e \in Controllers |-> Open(e)][d] : <<d, r>> \notin lapsed}]
      BY <1>6 DEF Book!Lapse
    <2>2. \A d \in Controllers : Open(d)' \subseteq Open(d)
      BY <2>1
    <2> HIDE DEF Issued
    <2>3. QED BY <1>2, <1>3, <2>1, <2>2
  <1>7. CASE UNCHANGED Book!bookVars
    <2>1. /\ requests' = requests /\ Issued' = Issued
          /\ [d \in Controllers |-> Open(d)'] = [d \in Controllers |-> Open(d)]
      BY <1>7 DEF Book!bookVars
    <2>2. \A d \in Controllers : Open(d)' = Open(d)
      BY <2>1
    <2> HIDE DEF Issued
    <2>3. QED BY <1>2, <1>3, <2>1, <2>2
  <1>8. QED
    BY <1>4, <1>5, <1>6, <1>7 DEF Book!BookNext

LEMMA BookInvInit == Book!BookInit => Book!OpenIsLater
  <1> SUFFICES ASSUME Book!BookInit PROVE Book!OpenIsLater
    OBVIOUS
  <1>1. \A c \in Controllers : [d \in Controllers |-> Open(d)][c] = {}
    BY DEF Book!BookInit
  <1>2. QED BY <1>1 DEF Book!BookInit, Book!OpenIsLater

\* A step of the book grants what is still open, so nothing older than a grant of the
\* same controller.
LEMMA BookOrderStep == Book!OpenIsLater /\ [Book!BookNext]_(Book!bookVars) => Book!InOrder
  <1> SUFFICES ASSUME Book!OpenIsLater, [Book!BookNext]_(Book!bookVars) PROVE Book!InOrder
    OBVIOUS
  <1> DEFINE Issued == {[ctrl |-> g.ctrl, target |-> g.target, by |-> g.by, req |-> g.req] :
                          g \in grants}
  <1>1. ASSUME Issued' = Issued PROVE Book!InOrder
    BY <1>1 DEF Book!InOrder
  <1>2. ASSUME NEW c \in Controllers, NEW t \in Targets, NEW r \in Open(c), Book!Issue(c, t, r)
        PROVE  Book!InOrder
    <2>1. Issued' = Issued \cup {[ctrl |-> c, target |-> requests[r].target, by |-> t, req |-> r]}
      BY <1>2 DEF Book!Issue
    <2>2. \A h \in Issued : h.ctrl = c => h.req < r
      BY <1>2 DEF Book!OpenIsLater
    <2>3. \A g \in Issued' \ Issued : g.ctrl = c /\ g.req = r
      BY <2>1
    <2>4. QED BY <2>2, <2>3 DEF Book!InOrder
  <1>3. QED
    BY <1>1, <1>2 DEF Book!BookNext, Book!Enter, Book!Lapse, Book!bookVars

\* hbbs grants the requests of a controller in the order it accepted them, each once, for
\* every number of controllers, targets and requests: an answer to an older request is
\* dropped once a newer one was granted (RelayResponse, pending_relay.remove).
THEOREM GrantsAreInOrder == Spec => Book!IssuedInOrder
  <1>1. BookSpec => [][Book!BookNext]_(Book!bookVars) /\ Book!BookInit
    BY DEF BookSpec, Book!BookSpec
  <1>2. Spec => [](TypeOK /\ Book!OpenIsLater)
    BY <1>1, TypeCorrect, BookRefinement, BookInvInit, BookInvStep, PTL
  <1>3. QED
    BY <1>1, <1>2, BookRefinement, BookOrderStep, PTL DEF Book!IssuedInOrder
=============================================================================
