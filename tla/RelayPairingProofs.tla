------------------------- MODULE RelayPairingProofs --------------------------
(***************************************************************************)
(* The safety of RelayPairing for every number of connections and grants,  *)
(* and that it implements RelayMatch.                                      *)
(***************************************************************************)
EXTENDS RelayPairing, TLAPS

-----------------------------------------------------------------------------
(* Type correctness.                                                       *)

LEMMA StepType ==
  ASSUME TypeOK, NEW c \in Conns, NEW from, NEW to \in Stages, Step(c, from, to)
  PROVE  /\ pc' \in [Conns -> Stages]
         /\ pc[c] \in from /\ pc'[c] = to
         /\ \A d \in Conns \ {c} : pc'[d] = pc[d]
  BY DEF TypeOK, Step

\* Once a task has passed the verification it keeps its grant.
LEMMA GrantShown ==
  ASSUME TypeOK, EarlyTasksOwnTheirs, NEW c \in Conns, pc[c] \in {"admitted", "vacant", "parked"}
  PROVE  grant[c] \in Grants
  BY PairingAssumption DEF TypeOK, EarlyTasksOwnTheirs

\* The variables keep their types at every step; that a task uses PEERS only with a
\* grant in hand is needed for it.
LEMMA TypeStep == TypeOK /\ EarlyTasksOwnTheirs /\ [Next]_vars => TypeOK'
  <1> SUFFICES ASSUME TypeOK, EarlyTasksOwnTheirs, [Next]_vars PROVE TypeOK'
    OBVIOUS
  <1> USE PairingAssumption
  <1>1. ASSUME NEW c \in Conns, Accept(c) PROVE TypeOK'
    <2>1. PICK to \in Stages : Step(c, {"new"}, to)
      BY <1>1 DEF Accept, Stages
    <2>2. pc' \in [Conns -> Stages] BY <2>1, StepType
    <2>3. QED BY <1>1, <2>2 DEF TypeOK, Accept
  <1>2. ASSUME NEW c \in Conns, Refuse(c) PROVE TypeOK'
    <2>1. pc' \in [Conns -> Stages] BY <1>2, StepType DEF Refuse, Stages
    <2>2. QED BY <1>2, <2>1 DEF TypeOK, Refuse
  <1>3. ASSUME NEW c \in Conns, NEW g \in Grants, RequestRelay(c, g) PROVE TypeOK'
    <2>1. PICK to \in Stages : Step(c, {"secured"}, to)
      BY <1>3 DEF RequestRelay, Stages
    <2>2. pc' \in [Conns -> Stages] BY <2>1, StepType
    <2>3. QED BY <1>3, <2>2 DEF TypeOK, RequestRelay
  <1>4. ASSUME NEW c \in Conns, TakeParked(c) PROVE TypeOK'
    <2>1. pc' \in [Conns -> Stages] BY <1>4, StepType DEF TakeParked, Stages
    <2>2. grant[c] \in Grants /\ slot[grant[c]] # NoConn
      BY <1>4, GrantShown DEF TakeParked, Step
    <2>3. slot[grant[c]] \in Conns
      BY <2>2 DEF TypeOK
    <2>4. joined' \subseteq Conns \X Conns /\ slot' \in [Grants -> Conns \cup {NoConn}]
      BY <1>4, <2>2, <2>3 DEF TypeOK, TakeParked
    <2>5. QED BY <1>4, <2>1, <2>4 DEF TypeOK, TakeParked
  <1>5. ASSUME NEW c \in Conns, FindNobody(c) PROVE TypeOK'
    <2>1. pc' \in [Conns -> Stages] BY <1>5, StepType DEF FindNobody, Stages
    <2>2. QED BY <1>5, <2>1 DEF TypeOK, FindNobody
  <1>6. ASSUME NEW c \in Conns, Park(c) PROVE TypeOK'
    <2>1. pc' \in [Conns -> Stages] BY <1>6, StepType DEF Park, Stages
    <2>2. grant[c] \in Grants
      BY <1>6, GrantShown DEF Park, Step
    <2>3. /\ slot' \in [Grants -> Conns \cup {NoConn}]
          /\ closed' \subseteq Conns
          /\ deadline' \in [Conns -> Nat]
      BY <1>6, <2>2 DEF TypeOK, Park
    <2>4. QED BY <1>6, <2>1, <2>3 DEF TypeOK, Park
  <1>7. ASSUME NEW c \in Conns, ParkExpires(c) PROVE TypeOK'
    <2>1. pc' \in [Conns -> Stages] BY <1>7, StepType DEF ParkExpires, Stages
    <2>2. grant[c] \in Grants
      BY <1>7, GrantShown DEF ParkExpires, Step
    <2>3. slot' \in [Grants -> Conns \cup {NoConn}] /\ closed' \subseteq Conns
      BY <1>7, <2>2 DEF TypeOK, ParkExpires
    <2>4. QED BY <1>7, <2>1, <2>3 DEF TypeOK, ParkExpires
  <1>8. ASSUME NEW c \in Conns, InsertUsage(c) PROVE TypeOK'
    <2>1. pc' \in [Conns -> Stages] BY <1>8, StepType DEF InsertUsage, Stages
    <2>2. QED BY <1>8, <2>1 DEF TypeOK, InsertUsage
  <1>9. ASSUME NEW c \in Conns, InsertLabel(c) PROVE TypeOK'
    <2>1. pc' \in [Conns -> Stages] BY <1>9, StepType DEF InsertLabel, Stages, Relaying
    <2>2. QED BY <1>9, <2>1 DEF TypeOK, InsertLabel
  <1>10. ASSUME NEW c \in Conns, Sample(c) PROVE TypeOK'
    <2>1. pc' \in [Conns -> Stages] BY <1>10, StepType DEF Sample, Stages, TypeOK
    <2>2. QED BY <1>10, <2>1 DEF TypeOK, Sample
  <1>11. ASSUME NEW c \in Conns, Stall(c) \/ Resume(c) PROVE TypeOK'
    <2>1. pc' \in [Conns -> Stages] BY <1>11, StepType DEF Stall, Resume, Stages, Relaying
    <2>2. QED BY <1>11, <2>1 DEF TypeOK, Stall, Resume
  <1>12. ASSUME NEW c \in Conns, EndRelay(c) PROVE TypeOK'
    <2>1. pc' \in [Conns -> Stages] BY <1>12, StepType DEF EndRelay, Stages
    <2>2. QED BY <1>12, <2>1 DEF TypeOK, EndRelay
  <1>13. ASSUME NEW c \in Conns, RemoveUsage(c) PROVE TypeOK'
    <2>1. pc' \in [Conns -> Stages] BY <1>13, StepType DEF RemoveUsage, Stages
    <2>2. QED BY <1>13, <2>1 DEF TypeOK, RemoveUsage
  <1>14. ASSUME NEW c \in Conns, RemoveLabel(c) PROVE TypeOK'
    <2>1. pc' \in [Conns -> Stages] BY <1>14, StepType DEF RemoveLabel, Stages
    <2>2. QED BY <1>14, <2>1 DEF TypeOK, RemoveLabel
  <1>15. ASSUME NEW ip \in Ips, EditBlocklist(ip) PROVE TypeOK'
    BY <1>15 DEF TypeOK, EditBlocklist
  <1>16. CASE Tick
    BY <1>16 DEF TypeOK, Tick
  <1>17. CASE UNCHANGED vars
    BY <1>17 DEF TypeOK, vars
  <1>18. QED
    BY <1>1, <1>2, <1>3, <1>4, <1>5, <1>6, <1>7, <1>8, <1>9, <1>10, <1>11, <1>12, <1>13, <1>14,
       <1>15, <1>16, <1>17 DEF Next, TaskStep, PeerStep

-----------------------------------------------------------------------------
(* The inductive invariant.                                                *)

Core == /\ SlotsAreParked /\ EarlyTasksOwnTheirs /\ PairsAreFormed
        /\ StreamsHaveOneOwner /\ PairSharesGrant /\ RelayOwnsBothStreams

\* A joiner goes about its relay: no stream changes hands.
LEMMA CoreRelay ==
  ASSUME IInv, UNCHANGED <<grant, slot, joined, closed>>,
         NEW c \in Conns, \A d \in Conns \ {c} : pc'[d] = pc[d],
         pc[c] \in Joiner \ {"done"}, pc'[c] \in Joiner \ {"done"}
  PROVE  Core'
  <1>1. SlotsAreParked'
    BY DEF IInv, TypeOK, SlotsAreParked, InRelay, Joiner, Relaying
  <1>2. EarlyTasksOwnTheirs'
    BY DEF IInv, EarlyTasksOwnTheirs, InRelay, Joiner, Relaying
  <1>3. PairsAreFormed'
    BY DEF IInv, TypeOK, PairsAreFormed, Joiner, Relaying
  <1>4. StreamsHaveOneOwner' /\ PairSharesGrant'
    BY DEF IInv, StreamsHaveOneOwner, PairSharesGrant
  <1>5. RelayOwnsBothStreams'
    BY DEF IInv, TypeOK, RelayOwnsBothStreams
  <1>6. QED
    BY <1>1, <1>2, <1>3, <1>4, <1>5 DEF Core

\* A task before PEERS moves on, or ends and drops its own stream.
LEMMA CoreAdmission ==
  ASSUME IInv, UNCHANGED <<slot, joined>>,
         NEW c \in Conns, \A d \in Conns \ {c} : pc'[d] = pc[d] /\ grant'[d] = grant[d],
         pc[c] \in {"new", "secured", "admitted"},
         \/ pc'[c] = "secured" /\ grant'[c] = NoGrant /\ closed' = closed
         \/ pc'[c] \in {"admitted", "vacant"} /\ grant'[c] # NoGrant /\ closed' = closed
         \/ pc'[c] = "done" /\ closed' = closed \cup {c}
  PROVE  Core'
  <1>1. c \notin closed /\ ~InRelay(c) /\ \A g \in Grants : slot[g] # c
    BY PairingAssumption DEF IInv, EarlyTasksOwnTheirs, SlotsAreParked
  <1>2. \A g \in Grants : slot[g] # NoConn => slot[g] \in Conns \ {c}
    BY <1>1 DEF IInv, TypeOK
  <1>3. \A p \in joined : p[1] \in Conns \ {c} /\ p[2] \in Conns \ {c}
    BY <1>1 DEF IInv, TypeOK, InRelay
  <1>4. \A d \in Conns \ {c} : d \in closed' <=> d \in closed
    OBVIOUS
  <1>5. SlotsAreParked'
    BY <1>2, <1>4 DEF IInv, SlotsAreParked, InRelay
  <1>6. EarlyTasksOwnTheirs'
    BY <1>1, <1>4 DEF IInv, EarlyTasksOwnTheirs, InRelay
  <1>7. PairsAreFormed' /\ PairSharesGrant'
    BY <1>3 DEF IInv, PairsAreFormed, PairSharesGrant
  <1>8. StreamsHaveOneOwner'
    <2>1. \A g \in Grants : slot[g] \notin closed'
      BY <1>1 DEF IInv, StreamsHaveOneOwner
    <2>2. QED BY <2>1 DEF IInv, StreamsHaveOneOwner
  <1>9. RelayOwnsBothStreams'
    BY <1>3, <1>4 DEF IInv, RelayOwnsBothStreams
  <1>10. QED
    BY <1>5, <1>6, <1>7, <1>8, <1>9 DEF Core

\* The joiner becomes the only owner of the stream it removes from PEERS.
LEMMA CoreTakeParked ==
  ASSUME IInv, TypeOK', NEW c \in Conns, TakeParked(c)
  PROVE  Core'
  <1> DEFINE d == slot[grant[c]]
  <1>1. /\ pc[c] = "admitted" /\ pc'[c] = "paired"
        /\ \A e \in Conns \ {c} : pc'[e] = pc[e]
        /\ UNCHANGED <<grant, closed>>
    BY DEF IInv, TypeOK, TakeParked, Step
  <1>2. grant[c] \in Grants /\ grant[c] # NoGrant /\ c \notin closed /\ ~InRelay(c)
    BY <1>1, GrantShown, PairingAssumption DEF IInv, EarlyTasksOwnTheirs
  <1>3. d \in Conns /\ d # NoConn
    BY <1>2 DEF IInv, TypeOK, TakeParked
  <1>4. /\ joined' = joined \cup {<<c, d>>}
        /\ slot'[grant[c]] = NoConn
        /\ \A g \in Grants : g # grant[c] => slot'[g] = slot[g]
    BY <1>2 DEF IInv, TypeOK, TakeParked
  <1>5. /\ pc[d] = "parked" /\ grant[d] = grant[c] /\ d \notin closed /\ ~InRelay(d)
        /\ d # c /\ pc'[d] = "parked"
    BY <1>1, <1>2, <1>3 DEF IInv, SlotsAreParked
  <1>6. \A g \in Grants : slot'[g] # NoConn =>
          /\ slot'[g] = slot[g] /\ slot[g] # d /\ slot[g] # c /\ slot[g] \in Conns
          /\ pc'[slot[g]] = "parked"
    BY <1>1, <1>2, <1>3, <1>4 DEF IInv, TypeOK, StreamsHaveOneOwner, SlotsAreParked
  <1>7. \A e : InRelay(e)' => InRelay(e) \/ e = c \/ e = d
    BY <1>4 DEF InRelay
  <1>8. SlotsAreParked'
    BY <1>1, <1>6, <1>7 DEF IInv, SlotsAreParked
  <1>9. EarlyTasksOwnTheirs'
    BY <1>1, <1>5, <1>7 DEF IInv, EarlyTasksOwnTheirs
  <1>10. \A p \in joined : /\ p[1] \in Conns \ {c, d} /\ p[2] \in Conns \ {c, d}
    BY <1>2, <1>5 DEF IInv, TypeOK, InRelay
  <1>11. <<c, d>>[1] = c /\ <<c, d>>[2] = d
    OBVIOUS
  <1>12. PairsAreFormed'
    <2>1. \A p \in joined : pc'[p[1]] \in Joiner /\ pc'[p[2]] \in {"parked", "done"}
      BY <1>1, <1>10 DEF IInv, PairsAreFormed
    <2>2. pc'[c] \in Joiner /\ pc'[d] \in {"parked", "done"}
      BY <1>1, <1>5 DEF Joiner
    <2>3. QED BY <1>4, <1>11, <2>1, <2>2 DEF PairsAreFormed
  <1>13. PairSharesGrant'
    BY <1>1, <1>2, <1>4, <1>5, <1>11 DEF IInv, PairSharesGrant
  <1>14. RelayOwnsBothStreams'
    <2>1. \A p \in joined : pc'[p[1]] # "done" => p[1] \notin closed /\ p[2] \notin closed
      BY <1>1, <1>10 DEF IInv, RelayOwnsBothStreams
    <2>2. QED BY <1>1, <1>2, <1>4, <1>5, <1>11, <2>1 DEF RelayOwnsBothStreams
  <1>15. StreamsHaveOneOwner'
    <2>1. \A p, q \in joined' : {p[1], p[2]} \cap {q[1], q[2]} # {} => p = q
      <3> SUFFICES ASSUME NEW p \in joined', NEW q \in joined',
                          {p[1], p[2]} \cap {q[1], q[2]} # {}
                   PROVE  p = q
        OBVIOUS
      <3>1. CASE p \in joined /\ q \in joined
        BY <3>1 DEF IInv, StreamsHaveOneOwner
      <3>2. CASE p \in joined /\ q = <<c, d>>
        BY <1>10, <1>11, <3>2
      <3>3. CASE p = <<c, d>> /\ q \in joined
        BY <1>10, <1>11, <3>3
      <3>4. QED BY <1>4, <3>1, <3>2, <3>3
    <2>2. \A p \in joined' : p[1] # p[2]
      BY <1>4, <1>5, <1>11 DEF IInv, StreamsHaveOneOwner
    <2>3. ASSUME NEW g \in Grants, NEW p \in joined'
          PROVE  slot'[g] \notin {p[1], p[2]}
      <3>1. CASE slot'[g] = NoConn
        BY <1>3, <1>4, <1>10, <1>11, <3>1, PairingAssumption
      <3>2. CASE slot'[g] # NoConn /\ p \in joined
        BY <1>6, <3>2 DEF IInv, StreamsHaveOneOwner
      <3>3. CASE slot'[g] # NoConn /\ p = <<c, d>>
        BY <1>6, <1>11, <3>3
      <3>4. QED BY <1>4, <3>1, <3>2, <3>3
    <2>4. \A g \in Grants : slot'[g] \notin closed
      BY <1>4, PairingAssumption DEF IInv, TypeOK, StreamsHaveOneOwner
    <2>5. \A g, h \in Grants : slot'[g] = slot'[h] /\ slot'[g] # NoConn => g = h
      BY <1>4 DEF IInv, StreamsHaveOneOwner
    <2>6. QED BY <1>1, <2>1, <2>2, <2>3, <2>4, <2>5 DEF StreamsHaveOneOwner
  <1>16. QED
    BY <1>8, <1>9, <1>12, <1>13, <1>14, <1>15 DEF Core

\* What was parked under the grant, if anything, is dropped for the newcomer.
LEMMA CorePark ==
  ASSUME IInv, TypeOK', NEW c \in Conns, Park(c)
  PROVE  Core'
  <1>1. /\ pc[c] = "vacant" /\ pc'[c] = "parked"
        /\ \A e \in Conns \ {c} : pc'[e] = pc[e]
        /\ UNCHANGED <<grant, joined>>
    BY DEF IInv, TypeOK, Park, Step
  <1>2. grant[c] \in Grants /\ grant[c] # NoGrant /\ c \notin closed /\ ~InRelay(c)
    BY <1>1, GrantShown, PairingAssumption DEF IInv, EarlyTasksOwnTheirs
  <1>3. /\ slot'[grant[c]] = c
        /\ \A g \in Grants : g # grant[c] => slot'[g] = slot[g]
        /\ closed' = closed \cup ({slot[grant[c]]} \ {NoConn})
    BY <1>2 DEF IInv, TypeOK, Park
  <1>4. \A g \in Grants : slot[g] # c
    BY <1>1, PairingAssumption DEF IInv, SlotsAreParked
  <1>5. \A e \in closed' \ closed : e = slot[grant[c]] /\ e \in Conns /\ e # c /\ ~InRelay(e)
                                    /\ pc[e] = "parked"
    BY <1>2, <1>3, <1>4 DEF IInv, TypeOK, SlotsAreParked
  <1>6. \A g \in Grants : slot'[g] # NoConn =>
          /\ slot'[g] \in Conns /\ slot'[g] \notin closed' /\ ~InRelay(slot'[g])
          /\ pc'[slot'[g]] = "parked" /\ grant[slot'[g]] = g
    <2> SUFFICES ASSUME NEW g \in Grants, slot'[g] # NoConn
                 PROVE  /\ slot'[g] \in Conns /\ slot'[g] \notin closed' /\ ~InRelay(slot'[g])
                        /\ pc'[slot'[g]] = "parked" /\ grant[slot'[g]] = g
      OBVIOUS
    <2>1. CASE g = grant[c]
      BY <1>1, <1>2, <1>3, <1>4, <2>1
    <2>2. CASE g # grant[c]
      <3>1. slot'[g] = slot[g] /\ slot[g] # c /\ slot[g] \in Conns
        BY <1>3, <1>4, <2>2 DEF IInv, TypeOK
      <3>2. pc[slot[g]] = "parked" /\ grant[slot[g]] = g /\ slot[g] \notin closed
            /\ ~InRelay(slot[g])
        BY <3>1 DEF IInv, SlotsAreParked
      <3>3. slot[g] # slot[grant[c]]
        BY <1>2, <2>2, <3>1 DEF IInv, StreamsHaveOneOwner
      <3>4. QED BY <1>1, <1>3, <3>1, <3>2, <3>3
    <2>3. QED BY <2>1, <2>2
  <1>7. \A e : InRelay(e)' <=> InRelay(e)
    BY <1>1 DEF InRelay
  <1>8. SlotsAreParked'
    BY <1>1, <1>6, <1>7 DEF SlotsAreParked
  <1>9. EarlyTasksOwnTheirs'
    BY <1>1, <1>2, <1>5, <1>7 DEF IInv, EarlyTasksOwnTheirs
  <1>10. \A p \in joined : p[1] \in Conns \ {c} /\ p[2] \in Conns \ {c}
                           /\ InRelay(p[1]) /\ InRelay(p[2])
    BY <1>2 DEF IInv, TypeOK, InRelay
  <1>11. PairsAreFormed' /\ PairSharesGrant'
    BY <1>1, <1>10 DEF IInv, PairsAreFormed, PairSharesGrant
  <1>12. RelayOwnsBothStreams'
    BY <1>1, <1>5, <1>10 DEF IInv, RelayOwnsBothStreams
  <1>13. StreamsHaveOneOwner'
    <2>1. ASSUME NEW g \in Grants, NEW p \in joined PROVE slot'[g] \notin {p[1], p[2]}
      BY <1>6, <1>10, PairingAssumption
    <2>2. \A g \in Grants : slot'[g] \notin closed'
      <3>1. NoConn \notin closed'
        BY PairingAssumption DEF TypeOK
      <3>2. QED BY <1>6, <3>1
    <2>3. \A g, h \in Grants : slot'[g] = slot'[h] /\ slot'[g] # NoConn => g = h
      BY <1>6
    <2>4. QED BY <1>1, <2>1, <2>2, <2>3 DEF IInv, StreamsHaveOneOwner
  <1>14. QED
    BY <1>8, <1>9, <1>11, <1>12, <1>13 DEF Core

\* The timer drops what is parked under its grant, whoever parked it.
LEMMA CoreParkExpires ==
  ASSUME IInv, TypeOK', NEW c \in Conns, ParkExpires(c)
  PROVE  Core'
  <1>1. /\ pc[c] = "parked" /\ pc'[c] = "done"
        /\ \A e \in Conns \ {c} : pc'[e] = pc[e]
        /\ UNCHANGED <<grant, joined>>
    BY DEF IInv, TypeOK, ParkExpires, Step
  <1>2. grant[c] \in Grants
    BY <1>1, GrantShown DEF IInv
  <1>3. /\ slot'[grant[c]] = NoConn
        /\ \A g \in Grants : g # grant[c] => slot'[g] = slot[g]
        /\ closed' = closed \cup ({slot[grant[c]]} \ {NoConn})
    BY <1>2 DEF IInv, TypeOK, ParkExpires
  <1>4. \A e \in closed' \ closed : e = slot[grant[c]] /\ e \in Conns /\ ~InRelay(e)
                                    /\ pc[e] = "parked"
    BY <1>2, <1>3 DEF IInv, TypeOK, SlotsAreParked
  <1>5. \A g \in Grants : slot[g] = c => g = grant[c]
    BY PairingAssumption DEF IInv, SlotsAreParked
  <1>6. \A g \in Grants : slot'[g] # NoConn =>
          /\ slot'[g] = slot[g] /\ g # grant[c] /\ slot[g] \in Conns \ {c}
          /\ slot[g] # slot[grant[c]]
    BY <1>2, <1>3, <1>5 DEF IInv, TypeOK, StreamsHaveOneOwner
  <1>7. \A e : InRelay(e)' <=> InRelay(e)
    BY <1>1 DEF InRelay
  <1>8. SlotsAreParked'
    BY <1>1, <1>3, <1>6, <1>7 DEF IInv, SlotsAreParked
  <1>9. EarlyTasksOwnTheirs'
    BY <1>1, <1>4, <1>7 DEF IInv, EarlyTasksOwnTheirs
  <1>10. \A p \in joined : p[1] \in Conns /\ p[2] \in Conns /\ InRelay(p[1]) /\ InRelay(p[2])
    BY DEF IInv, TypeOK, InRelay
  <1>11. PairsAreFormed' /\ PairSharesGrant'
    BY <1>1, <1>10 DEF IInv, PairsAreFormed, PairSharesGrant, Joiner, Relaying
  <1>12. RelayOwnsBothStreams'
    BY <1>1, <1>4, <1>10 DEF IInv, RelayOwnsBothStreams
  <1>13. StreamsHaveOneOwner'
    <2>1. ASSUME NEW g \in Grants, NEW p \in joined PROVE slot'[g] \notin {p[1], p[2]}
      BY <1>6, <1>10, PairingAssumption DEF IInv, StreamsHaveOneOwner
    <2>2. \A g \in Grants : slot'[g] \notin closed'
      <3>1. NoConn \notin closed'
        BY PairingAssumption DEF TypeOK
      <3>2. \A g \in Grants : slot[g] \notin closed
        BY DEF IInv, StreamsHaveOneOwner
      <3>3. QED BY <1>3, <1>6, <3>1, <3>2
    <2>3. \A g, h \in Grants : slot'[g] = slot'[h] /\ slot'[g] # NoConn => g = h
      BY <1>6 DEF IInv, StreamsHaveOneOwner
    <2>4. QED BY <1>1, <2>1, <2>2, <2>3 DEF IInv, StreamsHaveOneOwner
  <1>14. QED
    BY <1>8, <1>9, <1>11, <1>12, <1>13 DEF Core

\* The joiner ends and drops both streams of its relay.
LEMMA CoreRemoveLabel ==
  ASSUME IInv, TypeOK', NEW c \in Conns, RemoveLabel(c)
  PROVE  Core'
  <1> DEFINE mates == {d \in Conns : <<c, d>> \in joined}
  <1>1. /\ pc[c] = "unlisted" /\ pc'[c] = "done"
        /\ \A e \in Conns \ {c} : pc'[e] = pc[e]
        /\ UNCHANGED <<grant, slot, joined>>
        /\ closed' = closed \cup {c} \cup mates
    BY DEF IInv, TypeOK, RemoveLabel, Step
  <1>2. \A d \in mates : InRelay(d) /\ pc[d] \in {"parked", "done"}
    <2>1. ASSUME NEW d \in mates PROVE InRelay(d) /\ pc[d] \in {"parked", "done"}
      <3>1. <<c, d>> \in joined /\ <<c, d>>[2] = d
        OBVIOUS
      <3>2. QED BY <3>1 DEF IInv, InRelay, PairsAreFormed
    <2>2. QED BY <2>1
  <1>3. \A g \in Grants : slot[g] # NoConn =>
          slot[g] \in Conns /\ slot[g] # c /\ slot[g] \notin closed'
    BY <1>1, <1>2 DEF IInv, TypeOK, SlotsAreParked
  <1>4. SlotsAreParked'
    BY <1>1, <1>3 DEF IInv, SlotsAreParked, InRelay
  <1>5. EarlyTasksOwnTheirs'
    BY <1>1, <1>2 DEF IInv, EarlyTasksOwnTheirs, InRelay
  <1>6. \A p \in joined : p[1] \in Conns /\ p[2] \in Conns
    BY DEF IInv, TypeOK
  <1>7. PairsAreFormed' /\ PairSharesGrant'
    BY <1>1, <1>6 DEF IInv, PairsAreFormed, PairSharesGrant, Joiner, Relaying
  <1>8. StreamsHaveOneOwner'
    <2>1. \A g \in Grants : slot[g] \notin closed'
      BY <1>3, PairingAssumption DEF TypeOK
    <2>2. QED BY <1>1, <2>1 DEF IInv, StreamsHaveOneOwner
  <1>9. RelayOwnsBothStreams'
    <2> SUFFICES ASSUME NEW p \in joined, pc'[p[1]] # "done"
                 PROVE  p[1] \notin closed' /\ p[2] \notin closed'
      BY <1>1 DEF RelayOwnsBothStreams
    <2>1. p[1] # c /\ pc[p[1]] # "done"
      BY <1>1, <1>6
    <2>2. p[1] \notin closed /\ p[2] \notin closed
      BY <2>1 DEF IInv, RelayOwnsBothStreams
    <2>3. p[1] \notin mates
      <3>1. pc[p[1]] \in Joiner BY DEF IInv, PairsAreFormed
      <3>2. QED BY <1>2, <2>1, <3>1 DEF Joiner, Relaying
    <2>4. p[2] # c
      BY <1>1 DEF IInv, PairsAreFormed
    <2>5. p[2] \notin mates
      <3>1. SUFFICES ASSUME <<c, p[2]>> \in joined PROVE FALSE
        OBVIOUS
      <3> DEFINE q == <<c, p[2]>>
      <3>2. q[1] = c /\ q[2] = p[2]
        OBVIOUS
      <3>3. p[2] \in {p[1], p[2]} \cap {q[1], q[2]}
        BY <3>2
      <3>4. p = q
        BY <3>1, <3>3 DEF IInv, StreamsHaveOneOwner
      <3>5. QED BY <2>1, <3>2, <3>4
    <2>6. QED BY <1>1, <2>1, <2>2, <2>3, <2>4, <2>5
  <1>10. QED
    BY <1>4, <1>5, <1>7, <1>8, <1>9 DEF Core

LEMMA CoreFrame ==
  ASSUME IInv, UNCHANGED <<pc, grant, slot, joined, closed>>
  PROVE  Core'
  BY DEF IInv, Core, SlotsAreParked, EarlyTasksOwnTheirs, PairsAreFormed, StreamsHaveOneOwner,
         PairSharesGrant, RelayOwnsBothStreams, InRelay

\* Rows and labels come and go with the stages of the joiner's task.
LEMMA AccountingStep == IInv /\ [Next]_vars => AccountingFollowsTask'
  <1> SUFFICES ASSUME IInv, [Next]_vars PROVE AccountingFollowsTask'
    OBVIOUS
  <1> USE DEF IInv, TypeOK, AccountingFollowsTask, Relaying
  <1>1. ASSUME UNCHANGED <<pc, usage, labels>> PROVE AccountingFollowsTask'
    BY <1>1
  <1>2. ASSUME NEW c \in Conns, UNCHANGED <<usage, labels>>,
               \A d \in Conns \ {c} : pc'[d] = pc[d],
               pc[c] \in {"new", "secured", "admitted", "vacant", "parked"},
               pc'[c] \in {"secured", "admitted", "vacant", "parked", "paired", "done"}
        PROVE  AccountingFollowsTask'
    BY <1>2
  <1>3. ASSUME NEW c \in Conns, Accept(c) PROVE AccountingFollowsTask'
    BY <1>2, <1>3 DEF Accept, Step
  <1>4. ASSUME NEW c \in Conns, Refuse(c) PROVE AccountingFollowsTask'
    BY <1>2, <1>4 DEF Refuse, Step
  <1>5. ASSUME NEW c \in Conns, NEW g \in Grants, RequestRelay(c, g) PROVE AccountingFollowsTask'
    BY <1>2, <1>5 DEF RequestRelay, Step
  <1>6. ASSUME NEW c \in Conns, TakeParked(c) PROVE AccountingFollowsTask'
    BY <1>2, <1>6 DEF TakeParked, Step
  <1>7. ASSUME NEW c \in Conns, FindNobody(c) PROVE AccountingFollowsTask'
    BY <1>2, <1>7 DEF FindNobody, Step
  <1>8. ASSUME NEW c \in Conns, Park(c) PROVE AccountingFollowsTask'
    BY <1>2, <1>8 DEF Park, Step
  <1>9. ASSUME NEW c \in Conns, ParkExpires(c) PROVE AccountingFollowsTask'
    BY <1>2, <1>9 DEF ParkExpires, Step
  <1>10. ASSUME NEW c \in Conns, InsertUsage(c) PROVE AccountingFollowsTask'
    BY <1>10 DEF InsertUsage, Step
  <1>11. ASSUME NEW c \in Conns, InsertLabel(c) PROVE AccountingFollowsTask'
    BY <1>11 DEF InsertLabel, Step
  <1>12. ASSUME NEW c \in Conns, Sample(c) PROVE AccountingFollowsTask'
    BY <1>12 DEF Sample, Step
  <1>13. ASSUME NEW c \in Conns, Stall(c) PROVE AccountingFollowsTask'
    BY <1>13 DEF Stall, Step
  <1>14. ASSUME NEW c \in Conns, Resume(c) PROVE AccountingFollowsTask'
    BY <1>14 DEF Resume, Step
  <1>15. ASSUME NEW c \in Conns, EndRelay(c) PROVE AccountingFollowsTask'
    BY <1>15 DEF EndRelay, Step
  <1>16. ASSUME NEW c \in Conns, RemoveUsage(c) PROVE AccountingFollowsTask'
    BY <1>16 DEF RemoveUsage, Step
  <1>17. ASSUME NEW c \in Conns, RemoveLabel(c) PROVE AccountingFollowsTask'
    BY <1>17 DEF RemoveLabel, Step
  <1>18. ASSUME NEW ip \in Ips, EditBlocklist(ip) PROVE AccountingFollowsTask'
    BY <1>1, <1>18 DEF EditBlocklist
  <1>19. CASE Tick \/ UNCHANGED vars
    BY <1>1, <1>19 DEF Tick, vars
  <1>20. QED
    BY <1>3, <1>4, <1>5, <1>6, <1>7, <1>8, <1>9, <1>10, <1>11, <1>12, <1>13, <1>14, <1>15,
       <1>16, <1>17, <1>18, <1>19 DEF Next, TaskStep, PeerStep

\* Every step of hbbr's relay preserves IInv.
LEMMA InvStep == IInv /\ [Next]_vars => IInv'
  <1> SUFFICES ASSUME IInv, [Next]_vars PROVE IInv'
    OBVIOUS
  <1>1. TypeOK /\ TypeOK' BY TypeStep DEF IInv
  <1>2. AccountingFollowsTask' BY AccountingStep
  <1>3. SUFFICES Core'
    BY <1>1, <1>2 DEF IInv, Core
  <1>4. ASSUME NEW c \in Conns, Accept(c) \/ Refuse(c) \/ FindNobody(c) PROVE Core'
    <2>1. /\ UNCHANGED <<slot, joined, grant>>
          /\ \A d \in Conns \ {c} : pc'[d] = pc[d]
          /\ pc[c] \in {"new", "secured", "admitted"}
          /\ \/ pc[c] = "new" /\ pc'[c] = "secured" /\ closed' = closed
             \/ pc[c] = "admitted" /\ pc'[c] = "vacant" /\ closed' = closed
             \/ pc'[c] = "done" /\ closed' = closed \cup {c}
      BY <1>1, <1>4 DEF TypeOK, Accept, Refuse, FindNobody, Step
    <2>2. /\ pc[c] = "new" => grant[c] = NoGrant
          /\ pc[c] = "admitted" => grant[c] # NoGrant
      BY DEF IInv, EarlyTasksOwnTheirs
    <2>3. QED BY <2>1, <2>2, CoreAdmission
  <1>5. ASSUME NEW c \in Conns, NEW g \in Grants, RequestRelay(c, g) PROVE Core'
    <2>1. /\ UNCHANGED <<slot, joined>>
          /\ \A d \in Conns \ {c} : pc'[d] = pc[d] /\ grant'[d] = grant[d]
          /\ pc[c] = "secured"
          /\ \/ pc'[c] = "admitted" /\ grant'[c] = g /\ closed' = closed
             \/ pc'[c] = "done" /\ closed' = closed \cup {c}
      BY <1>1, <1>5 DEF TypeOK, RequestRelay, Step
    <2>2. g # NoGrant
      BY PairingAssumption
    <2>3. QED BY <2>1, <2>2, CoreAdmission
  <1>6. ASSUME NEW c \in Conns,
               \/ InsertUsage(c) \/ InsertLabel(c) \/ Sample(c) \/ Stall(c) \/ Resume(c)
               \/ EndRelay(c) \/ RemoveUsage(c)
        PROVE  Core'
    <2>1. /\ UNCHANGED <<grant, slot, joined, closed>>
          /\ \A d \in Conns \ {c} : pc'[d] = pc[d]
          /\ pc[c] \in Joiner \ {"done"} /\ pc'[c] \in Joiner \ {"done"}
      BY <1>1, <1>6 DEF TypeOK, InsertUsage, InsertLabel, Sample, Stall, Resume, EndRelay,
                        RemoveUsage, Step, Joiner, Relaying
    <2>2. QED BY <2>1, CoreRelay
  <1>7. ASSUME NEW c \in Conns, TakeParked(c) PROVE Core'
    BY <1>1, <1>7, CoreTakeParked
  <1>8. ASSUME NEW c \in Conns, Park(c) PROVE Core'
    BY <1>1, <1>8, CorePark
  <1>9. ASSUME NEW c \in Conns, ParkExpires(c) PROVE Core'
    BY <1>1, <1>9, CoreParkExpires
  <1>10. ASSUME NEW c \in Conns, RemoveLabel(c) PROVE Core'
    BY <1>1, <1>10, CoreRemoveLabel
  <1>11. ASSUME UNCHANGED <<pc, grant, slot, joined, closed>> PROVE Core'
    BY <1>11, CoreFrame
  <1>12. ASSUME NEW ip \in Ips, EditBlocklist(ip) PROVE Core'
    BY <1>11, <1>12 DEF EditBlocklist
  <1>13. CASE Tick \/ UNCHANGED vars
    BY <1>11, <1>13 DEF Tick, vars
  <1>14. QED
    BY <1>4, <1>5, <1>6, <1>7, <1>8, <1>9, <1>10, <1>12, <1>13 DEF Next, TaskStep, PeerStep

LEMMA InvInit == Init => IInv
  <1> SUFFICES ASSUME Init PROVE IInv
    OBVIOUS
  <1>1. TypeOK
    BY PairingAssumption DEF Init, TypeOK, Stages
  <1>2. SlotsAreParked /\ EarlyTasksOwnTheirs /\ PairsAreFormed /\ AccountingFollowsTask
    BY DEF Init, SlotsAreParked, EarlyTasksOwnTheirs, PairsAreFormed, AccountingFollowsTask,
           InRelay, Relaying
  <1>3. StreamsHaveOneOwner /\ PairSharesGrant /\ RelayOwnsBothStreams
    BY DEF Init, StreamsHaveOneOwner, PairSharesGrant, RelayOwnsBothStreams
  <1>4. QED BY <1>1, <1>2, <1>3 DEF IInv

\* The inductive invariant holds in every reachable state of every instance.
THEOREM Invariant == Spec => []IInv
  BY InvInit, InvStep, PTL DEF Spec

-----------------------------------------------------------------------------
(* What the invariant gives.                                               *)

\* TypeOK for every instance.
THEOREM TypeCorrect == Spec => []TypeOK
  <1>1. IInv => TypeOK BY DEF IInv
  <1>2. QED BY <1>1, Invariant, PTL

\* hbbr never hands one stream to two relays, nor a dropped one to any.
THEOREM OneOwner == Spec => []StreamsHaveOneOwner
  <1>1. IInv => StreamsHaveOneOwner BY DEF IInv
  <1>2. QED BY <1>1, Invariant, PTL

\* The two sides of a relay showed the same grant.
THEOREM PairsShareGrants == Spec => []PairSharesGrant
  <1>1. IInv => PairSharesGrant BY DEF IInv
  <1>2. QED BY <1>1, Invariant, PTL

\* Neither the timers nor another task's park close a stream that is being relayed.
THEOREM RelaysOwnTheirStreams == Spec => []RelayOwnsBothStreams
  <1>1. IInv => RelayOwnsBothStreams BY DEF IInv
  <1>2. QED BY <1>1, Invariant, PTL

\* usage-json never has bytes of a joiner without a label, nor rows of ended tasks.
THEOREM RowsAreLabelled == Spec => []CountedRowIsLabelled
  <1>1. IInv => CountedRowIsLabelled
    BY DEF IInv, AccountingFollowsTask, CountedRowIsLabelled, Relaying
  <1>2. QED BY <1>1, Invariant, PTL

\* What is parked leaves PEERS by a joiner, by a second park of its grant, or by a
\* timer of its grant that is due; no other step of any task removes it.
THEOREM ParksEndForAReason == Spec => ParkEndsForAReason
  <1> DEFINE Reason(g, c) ==
        \/ \E d \in Conns : pc[d] = "admitted" /\ <<d, c>> \in joined'
        \/ \E d \in Conns \ {c} : pc[d] = "vacant" /\ slot'[g] = d
        \/ \E d \in Conns : pc[d] = "parked" /\ grant[d] = g /\ deadline[d] <= now
  <1> DEFINE Ends == \A g \in Grants, c \in Conns :
                       (slot[g] = c /\ slot'[g] # c) => Reason(g, c)
  <1>1. ASSUME IInv, [Next]_vars PROVE Ends
    <2>1. CASE slot' = slot
      BY <2>1
    <2>2. ASSUME NEW d \in Conns, TakeParked(d) PROVE Ends
      <3>1. /\ pc[d] = "admitted" /\ joined' = joined \cup {<<d, slot[grant[d]]>>}
            /\ \A g \in Grants : slot'[g] # slot[g] => g = grant[d]
        BY <1>1, <2>2 DEF IInv, TypeOK, TakeParked, Step
      <3>2. QED BY <3>1
    <2>3. ASSUME NEW d \in Conns, Park(d) PROVE Ends
      <3>1. /\ pc[d] = "vacant"
            /\ \A g \in Grants : slot'[g] # slot[g] => g = grant[d] /\ slot'[g] = d
        BY <1>1, <2>3 DEF IInv, TypeOK, Park, Step
      <3>2. QED BY <3>1
    <2>4. ASSUME NEW d \in Conns, ParkExpires(d) PROVE Ends
      <3>1. /\ pc[d] = "parked" /\ deadline[d] <= now
            /\ \A g \in Grants : slot'[g] # slot[g] => g = grant[d]
        BY <1>1, <2>4 DEF IInv, TypeOK, ParkExpires, Step
      <3>2. QED BY <3>1
    <2>5. QED
      BY <1>1, <2>1, <2>2, <2>3, <2>4
      DEF Next, TaskStep, PeerStep, Accept, Refuse, RequestRelay, FindNobody, InsertUsage,
          InsertLabel, Sample, Stall, Resume, EndRelay, RemoveUsage, RemoveLabel,
          EditBlocklist, Tick, vars
  <1>2. QED BY <1>1, Invariant, PTL DEF Spec, ParkEndsForAReason

-----------------------------------------------------------------------------
(* RelayPairing implements RelayMatch.                                     *)

LEMMA MatchInitially == Init => Match!MatchInit
  BY DEF Init, Match!MatchInit

\* Every step of hbbr is an admission, a join, a drop or a tick of RelayMatch, or
\* changes nothing RelayMatch knows of.
LEMMA MatchStep == IInv /\ [Next]_vars => [Match!MatchNext]_(Match!matchVars)
  <1> SUFFICES ASSUME IInv, [Next]_vars PROVE [Match!MatchNext]_(Match!matchVars)
    OBVIOUS
  <1>1. ASSUME UNCHANGED <<now, grant, joined>>, closed' = closed
        PROVE  [Match!MatchNext]_(Match!matchVars)
    BY <1>1 DEF Match!matchVars
  <1>2. ASSUME NEW S \in SUBSET Conns, UNCHANGED <<now, grant, joined>>, closed' = closed \cup S
        PROVE  [Match!MatchNext]_(Match!matchVars)
    BY <1>2 DEF Match!MatchNext, Match!Drop
  <1>3. ASSUME NEW c \in Conns, Accept(c) \/ Refuse(c)
        PROVE  [Match!MatchNext]_(Match!matchVars)
    <2>1. {c} \in SUBSET Conns
      OBVIOUS
    <2>2. UNCHANGED <<now, grant, joined>> /\ (closed' = closed \/ closed' = closed \cup {c})
      BY <1>3 DEF Accept, Refuse
    <2>3. QED BY <1>1, <1>2, <2>1, <2>2
  <1>4. ASSUME NEW c \in Conns, NEW g \in Grants, RequestRelay(c, g)
        PROVE  [Match!MatchNext]_(Match!matchVars)
    <2>1. CASE now < Expiry[g]
      <3>1. grant[c] = NoGrant /\ c \notin closed
        BY <1>4 DEF IInv, EarlyTasksOwnTheirs, RequestRelay, Step
      <3>2. Match!Admit(c, g)
        BY <1>4, <2>1, <3>1 DEF RequestRelay, Match!Admit
      <3>3. QED BY <3>2 DEF Match!MatchNext
    <2>2. CASE ~(now < Expiry[g])
      <3>1. {c} \in SUBSET Conns
        OBVIOUS
      <3>2. UNCHANGED <<now, grant, joined>> /\ closed' = closed \cup {c}
        BY <1>4, <2>2 DEF RequestRelay
      <3>3. QED BY <1>2, <3>1, <3>2
    <2>3. QED BY <2>1, <2>2
  <1>5. ASSUME NEW c \in Conns, TakeParked(c)
        PROVE  [Match!MatchNext]_(Match!matchVars)
    <2> DEFINE d == slot[grant[c]]
    <2>1. pc[c] = "admitted" /\ d # NoConn
      BY <1>5 DEF TakeParked, Step
    <2>2. grant[c] \in Grants /\ grant[c] # NoGrant /\ c \notin closed /\ ~InRelay(c)
      BY <2>1, GrantShown, PairingAssumption DEF IInv, EarlyTasksOwnTheirs
    <2>3. /\ d \in Conns /\ pc[d] = "parked" /\ grant[d] = grant[c]
          /\ d \notin closed /\ ~InRelay(d)
      BY <2>1, <2>2 DEF IInv, TypeOK, SlotsAreParked
    <2>4. Match!Waits(c) /\ Match!Waits(d)
      BY <2>2, <2>3 DEF Match!Waits, InRelay
    <2>5. Match!Join(c, d)
      BY <1>5, <2>1, <2>3, <2>4 DEF TakeParked, Match!Join
    <2>6. QED BY <2>3, <2>5 DEF Match!MatchNext
  <1>6. ASSUME NEW c \in Conns, Park(c) \/ ParkExpires(c)
        PROVE  [Match!MatchNext]_(Match!matchVars)
    <2>1. grant[c] \in Grants
      BY <1>6, GrantShown DEF IInv, Park, ParkExpires, Step
    <2>2. {slot[grant[c]]} \ {NoConn} \in SUBSET Conns
      BY <2>1 DEF IInv, TypeOK
    <2>3. UNCHANGED <<now, grant, joined>> /\ closed' = closed \cup ({slot[grant[c]]} \ {NoConn})
      BY <1>6 DEF Park, ParkExpires
    <2>4. QED BY <1>2, <2>2, <2>3
  <1>7. ASSUME NEW c \in Conns, RemoveLabel(c)
        PROVE  [Match!MatchNext]_(Match!matchVars)
    <2> DEFINE S == {c} \cup {d \in Conns : <<c, d>> \in joined}
    <2>1. S \in SUBSET Conns
      OBVIOUS
    <2>2. UNCHANGED <<now, grant, joined>> /\ closed' = closed \cup S
      BY <1>7 DEF RemoveLabel
    <2>3. QED BY <1>2, <2>1, <2>2
  <1>8. ASSUME NEW c \in Conns,
               \/ FindNobody(c) \/ InsertUsage(c) \/ InsertLabel(c) \/ Sample(c) \/ Stall(c)
               \/ Resume(c) \/ EndRelay(c) \/ RemoveUsage(c)
        PROVE  [Match!MatchNext]_(Match!matchVars)
    BY <1>1, <1>8 DEF FindNobody, InsertUsage, InsertLabel, Sample, Stall, Resume, EndRelay,
                      RemoveUsage
  <1>9. ASSUME NEW ip \in Ips, EditBlocklist(ip) PROVE [Match!MatchNext]_(Match!matchVars)
    BY <1>1, <1>9 DEF EditBlocklist
  <1>10. CASE Tick
    BY <1>10 DEF Tick, Match!MatchNext, Match!Pass
  <1>11. CASE UNCHANGED vars
    BY <1>1, <1>11 DEF vars
  <1>12. QED
    BY <1>3, <1>4, <1>5, <1>6, <1>7, <1>8, <1>9, <1>10, <1>11 DEF Next, TaskStep, PeerStep

\* hbbr joins connections two by two, on an unexpired grant both showed, and never
\* one that is closed or already joined.
THEOREM Refinement == Spec => MatchSpec
  BY MatchInitially, InvInit, InvStep, MatchStep, PTL DEF Spec, MatchSpec, Match!MatchSpec
=============================================================================
