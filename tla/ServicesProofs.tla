---------------------------- MODULE ServicesProofs ----------------------------
(***************************************************************************)
(* Proofs about what the servers keep running behind the sessions: the     *)
(* revocations a connection is told of (Revocation), the signing key and   *)
(* its rotation (SigningKey), a session over that key (RelayedSession),    *)
(* the configuration file (ConfigFile), the list of relay servers          *)
(* (RelayServers) and the bytes a machine is charged (RelayUsage), for any *)
(* number of connections, keys, processes, relay servers, sessions and     *)
(* machines, and any configurations.                                       *)
(***************************************************************************)
EXTENDS Revocation, RelayedSession, ConfigFile, RelayServers, RelayUsage,
        SequenceTheorems, FiniteSetTheorems, WellFoundedInduction, TLAPS

-----------------------------------------------------------------------------
(* Revocations.                                                            *)

Revocations == [at : {"idle", "stamping", "writing", "stamped"}, from : SUBSET Controllers,
                todo : SUBSET Targets, hit : SUBSET Targets, image : Stamps]

\* The stamps have their types, the rows aside.
OrdersOK ==
  /\ clock \in 1..MaxClock
  /\ stamp \in Stamps /\ stampFile \in Stamps /\ obeyed \in Stamps
  /\ statsLock \in RevokeTasks \cup {NoRevoker}
  /\ revoker \in [RevokeTasks -> Revocations]
  /\ agreed \subseteq Connection /\ running \subseteq RunningSession

\* The rows are as many as the limit lets them be.
RowsOK ==
  /\ rows \in [Connection -> 0..HistoryLimit]
  /\ IsFiniteSet(Rows) /\ Cardinality(Rows) <= HistoryLimit

\* Whoever a task has stamped so far has obeyed it, is going to, or has joined since.
HitIsOrdered ==
  \A r \in RevokeTasks, s \in running :
    s.conn.target \in revoker[r].hit => s.excused \/ s.order # "none"

\* A task that stops controllers holds STATS, so that every row of theirs is on a target that
\* it has stamped or is still to stamp, and after the last stamp on one it has stamped.
RowsAreAimedAt ==
  \A r \in RevokeTasks : revoker[r].from # {} =>
    /\ statsLock = r /\ revoker[r].at # "idle"
    /\ \A c \in Rows : c.source \in revoker[r].from => c.target \in revoker[r].todo \cup revoker[r].hit
    /\ revoker[r].at = "stamped" => revoker[r].todo = {}

\* The inductive invariant.
RevocationIInv ==
  OrdersOK /\ RowsOK /\ UnlistedIsRevoked /\ OrderStands /\ HitIsOrdered /\ RowsAreAimedAt

\* Some element of a set of natural numbers is the least.
LEMMA LeastOfNaturals ==
  ASSUME NEW T \in SUBSET Nat, T # {}
  PROVE  \E n \in T : \A m \in T : n <= m
  <1> DEFINE below == {0..n : n \in T}
  <1>1. below \subseteq FiniteSubsetsOf(Nat) /\ below # {}
    <2>1. \A n \in Nat : IsFiniteSet(0..n) /\ 0..n \subseteq Nat
      BY FS_Interval
    <2>2. \A n \in Nat : 0..n \in FiniteSubsetsOf(Nat)
      BY <2>1 DEF FiniteSubsetsOf
    <2>3. QED
      BY <2>2
  <1>2. PICK b \in below : \A c \in below : ~ (<<c, b>> \in StrictSubsetOrdering(Nat))
    BY <1>1, WFMin, FS_StrictSubsetOrderingWellFounded
  <1>3. PICK n \in T : b = 0..n
    OBVIOUS
  <1>4. ASSUME NEW m \in T, m < n PROVE FALSE
    <2>1. 0..m \in below /\ 0..m \subseteq 0..n /\ n \in 0..n /\ n \notin 0..m
      BY <1>4
    <2>2. <<0..m, 0..n>> \in StrictSubsetOrdering(Nat)
      BY <2>1 DEF StrictSubsetOrdering
    <2>3. QED
      BY <1>2, <1>3, <2>1, <2>2
  <1>5. QED
    BY <1>4

\* Ranking a set of rows within the limit keeps exactly these.
LEMMA RankedRows ==
  ASSUME NEW stay \in SUBSET Connection, IsFiniteSet(stay), Cardinality(stay) <= HistoryLimit,
         NEW lastSeen \in [Connection -> Nat], rows' = Ranked(stay, lastSeen)
  PROVE  RowsOK' /\ Rows' = stay
  <1> USE RevocationAssumption
  <1>1. Cardinality(stay) \in Nat
    BY FS_CardinalityType
  <1>2. ASSUME NEW c \in stay
        PROVE  rows'[c] \in 1..HistoryLimit
    <2> DEFINE older == {d \in stay : lastSeen[d] <= lastSeen[c]}
    <2>1. older \in SUBSET stay /\ c \in older
      OBVIOUS
    <2>2. IsFiniteSet(older) /\ Cardinality(older) <= Cardinality(stay)
      BY <2>1, FS_Subset
    <2>3. Cardinality(older) \in Nat
      BY <2>2, FS_CardinalityType
    <2>4. Cardinality(older) # 0
      BY <2>1, <2>2, FS_EmptySet
    <2>5. rows'[c] = Cardinality(older)
      BY DEF Ranked
    <2> HIDE DEF older
    <2>6. QED
      BY <1>1, <2>2, <2>3, <2>4, <2>5
  <1>3. rows' \in [Connection -> 0..HistoryLimit]
    <2>1. rows' = [c \in Connection |-> IF c \notin stay THEN 0 ELSE rows'[c]]
      BY DEF Ranked
    <2>2. \A c \in Connection : (IF c \notin stay THEN 0 ELSE rows'[c]) \in 0..HistoryLimit
      BY <1>2
    <2>3. QED
      BY <2>1, <2>2, Zenon
  <1>4. \A c \in Connection : c \notin stay => rows'[c] = 0
    BY DEF Ranked
  <1>5. \A c \in stay : rows'[c] # 0
    BY <1>2
  <1>6. Rows' = stay
    BY <1>4, <1>5 DEF Rows
  <1>7. QED
    BY <1>3, <1>6 DEF RowsOK

\* upsert_connection: a row for the connection, and one less if there are too many.
LEMMA UpsertKeeps ==
  ASSUME RowsOK, NEW c \in Connection, rows' = Upsert(c)
  PROVE  RowsOK' /\ Rows' \subseteq Rows \cup {c}
  <1> USE RevocationAssumption
  <1> DEFINE lastSeen == [rows EXCEPT ![c] = HistoryLimit + 1]
             added == Rows \cup {c}
             oldest == {d \in added : \A e \in added : lastSeen[d] <= lastSeen[e]}
             stay == IF Listed(c) \/ Cardinality(added) <= HistoryLimit THEN added ELSE added \ oldest
  <1>1. rows' = Ranked(stay, lastSeen)
    BY DEF Upsert
  <1>2. lastSeen \in [Connection -> Nat] /\ added \subseteq Connection /\ Rows \subseteq Connection
    BY DEF RowsOK, Rows
  <1>3. IsFiniteSet(added) /\ Cardinality(added) \in {Cardinality(Rows), Cardinality(Rows) + 1}
    BY FS_AddElement DEF RowsOK
  <1>4. Cardinality(Rows) \in Nat /\ Cardinality(Rows) <= HistoryLimit
    BY FS_CardinalityType DEF RowsOK
  <1>5. PICK d \in added : d \in oldest
    <2> DEFINE T == {lastSeen[e] : e \in added}
    <2>1. T \in SUBSET Nat /\ T # {}
      BY <1>2
    <2> HIDE DEF T
    <2>2. PICK n \in T : \A m \in T : n <= m
      BY <2>1, LeastOfNaturals
    <2>3. PICK d \in added : n = lastSeen[d]
      BY DEF T
    <2>4. \A e \in added : lastSeen[d] <= lastSeen[e]
      BY <2>2, <2>3 DEF T
    <2>5. QED
      BY <2>4
  <1> HIDE DEF lastSeen, added, oldest
  <1>6. IsFiniteSet(stay) /\ Cardinality(stay) <= HistoryLimit
    <2>1. CASE Listed(c)
      <3>1. added = Rows
        BY <2>1 DEF added, Listed
      <3>2. QED
        BY <2>1, <3>1, <1>4 DEF RowsOK
    <2>2. CASE Cardinality(added) <= HistoryLimit
      BY <2>2, <1>3
    <2>3. CASE ~Listed(c) /\ ~(Cardinality(added) <= HistoryLimit)
      <3>1. IsFiniteSet(added \ {d}) /\ Cardinality(added \ {d}) = Cardinality(added) - 1
        BY <1>3, <1>5, FS_RemoveElement
      <3>2. added \ oldest \in SUBSET (added \ {d})
        BY <1>5
      <3>3. IsFiniteSet(added \ oldest) /\ Cardinality(added \ oldest) <= Cardinality(added \ {d})
        BY <3>1, <3>2, FS_Subset
      <3>4. Cardinality(added \ oldest) \in Nat
        BY <3>3, FS_CardinalityType
      <3>5. stay = added \ oldest
        BY <2>3
      <3>6. QED
        BY <2>3, <3>1, <3>3, <3>4, <3>5, <1>3, <1>4
    <2>4. QED
      BY <2>1, <2>2, <2>3
  <1>7. stay \subseteq added
    OBVIOUS
  <1> HIDE DEF stay
  <1>8. RowsOK' /\ Rows' = stay
    BY <1>1, <1>2, <1>6, <1>7, RankedRows
  <1>9. QED
    BY <1>7, <1>8 DEF added

\* A task without a request is one of the values of a task.
LEMMA NoRevocationType ==
  /\ [t \in Targets |-> 0] \in Stamps
  /\ NoRevocation \in Revocations
  <1>1. [t \in Targets |-> 0] \in Stamps
    BY RevocationAssumption DEF Stamps
  <1>2. QED
    BY <1>1 DEF NoRevocation, Revocations

LEMMA RevocationImplied == RevocationIInv => RevocationInv
  BY DEF RevocationIInv, RevocationInv, RevocationTypeOK, OrdersOK, RowsOK, Revocations

LEMMA RevocationInitInv == RevocationInit => RevocationIInv
  <1> SUFFICES ASSUME RevocationInit PROVE RevocationIInv
    OBVIOUS
  <1> USE RevocationAssumption DEF RevocationInit
  <1>1. OrdersOK
    BY NoRevocationType DEF OrdersOK
  <1>2. Rows = {}
    BY DEF Rows
  <1>3. RowsOK
    BY <1>2, FS_EmptySet DEF RowsOK
  <1>4. UnlistedIsRevoked /\ OrderStands /\ HitIsOrdered /\ RowsAreAimedAt
    BY DEF UnlistedIsRevoked, OrderStands, HitIsOrdered, RowsAreAimedAt, NoRevocation
  <1>5. QED
    BY <1>1, <1>3, <1>4 DEF RevocationIInv

\* Connections are negotiated, opened and closed, and targets poll.
LEMMA ConnectionStepKeeps ==
  ASSUME RevocationIInv,
         \/ \E c \in Connection : Negotiate(c) \/ Establish(c)
         \/ \E s \in running : Leave(s)
         \/ \E t \in Targets : Poll(t)
  PROVE  RevocationIInv'
  <1> USE RevocationAssumption DEF RevocationIInv
  <1>1. ASSUME NEW c \in Connection, Negotiate(c) PROVE RevocationIInv'
    <2> USE <1>1 DEF Negotiate, orders
    <2> DEFINE gone == {d \in Rows : rows'[d] = 0}
    <2>1. RowsOK' /\ Rows' \subseteq Rows \cup {c}
      BY UpsertKeeps
    <2>2. gone = Rows \ Rows'
      BY DEF Rows
    <2> HIDE DEF gone
    <2>3. running' = Excuse(gone)
      BY DEF gone
    <2>4. ASSUME NEW s \in running'
          PROVE  \E u \in running : /\ s.conn = u.conn /\ s.order = u.order /\ s.conn \in Connection
                                    /\ u.excused => s.excused
                                    /\ u.conn \in gone => s.excused
                                    /\ s \in RunningSession
      BY <2>3, <2>4 DEF Excuse, OrdersOK, RunningSession
    <2>5. OrdersOK'
      BY <2>4 DEF OrdersOK
    <2>6. UnlistedIsRevoked'
      BY <2>2, <2>4 DEF UnlistedIsRevoked, Listed
    <2>7. OrderStands' /\ HitIsOrdered'
      BY <2>4 DEF OrderStands, HitIsOrdered
    <2>8. RowsAreAimedAt'
      BY DEF RowsAreAimedAt
    <2>9. QED
      BY <2>1, <2>5, <2>6, <2>7, <2>8
  <1>2. ASSUME NEW c \in Connection, Establish(c) PROVE RevocationIInv'
    <2> USE <1>2 DEF Establish, orders
    <2> DEFINE excused == ~Listed(c) \/ Hit(c.target)
               new == [conn |-> c, order |-> "none", excused |-> excused]
    <2>1. running' = running \cup {new} /\ UNCHANGED <<rows, revoker, stamp, obeyed, statsLock>>
      OBVIOUS
    <2>2. excused \in BOOLEAN
      OBVIOUS
    <2>3. new \in RunningSession
      BY <2>2 DEF RunningSession
    <2>4. OrdersOK'
      BY <2>3 DEF OrdersOK
    <2>5. RowsOK' /\ RowsAreAimedAt'
      BY <2>1 DEF RowsOK, Rows, RowsAreAimedAt
    <2>6. ASSUME NEW s \in running', s \notin running
          PROVE  s.conn = c /\ s.order = "none" /\ (~s.excused => Listed(c) /\ ~Hit(c.target))
      <3>1. s = new
        BY <2>1, <2>6
      <3>2. ~excused => Listed(c) /\ ~Hit(c.target)
        OBVIOUS
      <3> HIDE DEF excused
      <3>3. QED
        BY <3>1, <3>2
    <2>7. UnlistedIsRevoked'
      BY <2>1, <2>6 DEF UnlistedIsRevoked, Listed, Rows
    <2>8. HitIsOrdered'
      BY <2>1, <2>6 DEF HitIsOrdered, Hit
    <2>9. OrderStands'
      BY <2>1 DEF OrderStands
    <2>10. QED
      BY <2>4, <2>5, <2>7, <2>8, <2>9
  <1>3. ASSUME NEW s \in running, Leave(s) PROVE RevocationIInv'
    BY <1>3 DEF Leave, orders, OrdersOK, RowsOK, Rows, UnlistedIsRevoked, Listed, OrderStands, HitIsOrdered,
                RowsAreAimedAt
  <1>4. ASSUME NEW t \in Targets, Poll(t) PROVE RevocationIInv'
    <2> USE <1>4 DEF Poll, orders
    <2>1. OrdersOK'
      BY DEF OrdersOK, Stamps
    <2>2. OrderStands'
      BY DEF OrderStands, OrdersOK, Stamps
    <2>3. RowsOK' /\ RowsAreAimedAt' /\ UnlistedIsRevoked' /\ HitIsOrdered'
      BY DEF RowsOK, Rows, RowsAreAimedAt, UnlistedIsRevoked, Listed, HitIsOrdered
    <2>4. QED
      BY <2>1, <2>2, <2>3
  <1>5. QED
    BY <1>1, <1>2, <1>3, <1>4

\* cut_connection, terminate_sessions_from_controllers: a task stamps, writes and drops rows.
LEMMA RevokeStepKeeps ==
  ASSUME RevocationIInv, NEW r \in RevokeTasks, RevokeStep(r)
  PROVE  RevocationIInv'
  <1> USE RevocationAssumption DEF RevocationIInv, Revoke
  <1>1. ASSUME NEW t \in Targets, Cut(r, t) PROVE RevocationIInv'
    <2> USE <1>1 DEF Cut, fleet
    <2>1. OrdersOK'
      <3>1. [NoRevocation EXCEPT !.at = "stamping", !.todo = {t}] \in Revocations
        BY NoRevocationType DEF Revocations
      <3>2. QED
        BY <3>1 DEF OrdersOK
    <2>2. RowsOK' /\ UnlistedIsRevoked' /\ OrderStands'
      BY DEF RowsOK, Rows, UnlistedIsRevoked, Listed, OrderStands
    <2>3. HitIsOrdered' /\ RowsAreAimedAt'
      BY DEF HitIsOrdered, RowsAreAimedAt, Rows, OrdersOK, NoRevocation
    <2>4. QED
      BY <2>1, <2>2, <2>3
  <1>2. ASSUME NEW controllers \in (SUBSET Controllers) \ {{}}, TerminateFrom(r, controllers)
        PROVE  RevocationIInv'
    <2> DEFINE targets == {c.target : c \in {d \in Rows : d.source \in controllers}}
    <2>1. targets \subseteq Targets /\ \A c \in Rows : c.source \in controllers => c.target \in targets
      BY DEF Rows, Connection
    <2>2. /\ revoker' = [revoker EXCEPT ![r] = [NoRevocation EXCEPT !.at = "stamping", !.from = controllers,
                                                                    !.todo = targets]]
          /\ statsLock = NoRevoker /\ statsLock' = r
          /\ UNCHANGED <<clock, stamp, stampFile, rows, agreed, running, obeyed>>
      BY <1>2 DEF TerminateFrom, fleet
    <2> HIDE DEF targets
    <2> USE <2>1, <2>2
    <2>3. OrdersOK'
      <3>1. [NoRevocation EXCEPT !.at = "stamping", !.from = controllers, !.todo = targets] \in Revocations
        BY NoRevocationType DEF Revocations
      <3>2. QED
        BY <3>1 DEF OrdersOK
    <2>4. RowsOK' /\ UnlistedIsRevoked' /\ OrderStands'
      BY DEF RowsOK, Rows, UnlistedIsRevoked, Listed, OrderStands
    <2>5. HitIsOrdered'
      BY DEF HitIsOrdered, OrdersOK, NoRevocation
    <2>6. RowsAreAimedAt'
      BY DEF RowsAreAimedAt, Rows, OrdersOK, NoRevocation
    <2>7. QED
      BY <2>3, <2>4, <2>5, <2>6
  <1>3. ASSUME NEW t \in Targets, SetTerminate(r, t) PROVE RevocationIInv'
    <2>1. /\ revoker[r].at = "stamping" /\ t \in revoker[r].todo
          /\ stamp' = Stamped(t) /\ running' = Ordered(t, stamp')
          /\ revoker' = [revoker EXCEPT ![r] = [revoker[r] EXCEPT !.at = "writing", !.todo = @ \ {t},
                                                                  !.hit = @ \cup {t}, !.image = stamp']]
          /\ UNCHANGED <<clock, stampFile, rows, statsLock, agreed, obeyed>>
      BY <1>3 DEF SetTerminate
    <2>2. stamp' \in Stamps /\ \A u \in Targets : stamp[u] <= stamp'[u]
      BY <2>1 DEF Stamped, OrdersOK, Stamps
    <2>3. ASSUME NEW s \in running'
          PROVE  \E u \in running : /\ s.conn = u.conn /\ s.excused = u.excused /\ s.conn \in Connection
                                    /\ s \in RunningSession
                                    /\ u.order # "none" => s.order # "none"
                                    /\ s.conn.target = t => s.order # "none"
                                    /\ s.order = "stands" => \/ u.order = "stands"
                                                             \/ stamp'[s.conn.target] > obeyed[s.conn.target]
      BY <2>1, <2>3 DEF Ordered, OrdersOK, RunningSession
    <2>4. OrdersOK'
      <3>1. running' \subseteq RunningSession
        BY <2>3
      <3>2. revoker[r] \in Revocations /\ revoker \in [RevokeTasks -> Revocations]
        BY DEF OrdersOK
      <3>3. [revoker[r] EXCEPT !.at = "writing", !.todo = @ \ {t}, !.hit = @ \cup {t},
                               !.image = stamp'] \in Revocations
        BY <2>2, <3>2 DEF Revocations
      <3>4. revoker' \in [RevokeTasks -> Revocations]
        BY <2>1, <3>2, <3>3
      <3>5. QED
        BY <2>1, <2>2, <3>1, <3>4 DEF OrdersOK
    <2>5. RowsOK' /\ UnlistedIsRevoked'
      BY <2>1, <2>3 DEF RowsOK, Rows, UnlistedIsRevoked, Listed
    <2>6. OrderStands'
      BY <2>1, <2>2, <2>3 DEF OrderStands, OrdersOK, Stamps, Connection
    <2>7. HitIsOrdered'
      BY <2>1, <2>3 DEF HitIsOrdered, OrdersOK, Revocations
    <2>8. RowsAreAimedAt'
      BY <2>1 DEF RowsAreAimedAt, Rows, OrdersOK, Revocations
    <2>9. QED
      BY <2>4, <2>5, <2>6, <2>7, <2>8
  <1>4. ASSUME NEW fails \in BOOLEAN, WriteStamps(r, fails) PROVE RevocationIInv'
    <2> USE <1>4 DEF WriteStamps, fleet
    <2>1. OrdersOK'
      BY DEF OrdersOK, Revocations
    <2>2. RowsOK' /\ UnlistedIsRevoked' /\ OrderStands'
      BY DEF RowsOK, Rows, UnlistedIsRevoked, Listed, OrderStands
    <2>3. HitIsOrdered' /\ RowsAreAimedAt'
      BY DEF HitIsOrdered, RowsAreAimedAt, Rows, OrdersOK, Revocations
    <2>4. QED
      BY <2>1, <2>2, <2>3
  <1>5. CASE DropRows(r)
    <2> DEFINE stops(c) == IF revoker[r].from = {} THEN c.target \in revoker[r].hit
                          ELSE c.source \in revoker[r].from
               stay == {c \in Rows : ~stops(c)}
    <2>1. /\ revoker[r].at = "stamped"
          /\ statsLock = IF revoker[r].from = {} THEN NoRevoker ELSE r
          /\ statsLock' = NoRevoker
          /\ rows' = Ranked(stay, rows) /\ revoker' = [revoker EXCEPT ![r] = NoRevocation]
          /\ UNCHANGED <<clock, stamp, stampFile, agreed, running, obeyed>>
      BY <1>5 DEF DropRows, fleet
    <2>2. stay \in SUBSET Rows /\ stay \subseteq Connection
      BY DEF Rows
    <2>3. \A c \in Rows \ stay : c.target \in revoker[r].hit
      BY <2>1 DEF RowsAreAimedAt
    <2> HIDE DEF stay
    <2>4. IsFiniteSet(stay) /\ Cardinality(stay) <= HistoryLimit
      <3>1. IsFiniteSet(Rows) /\ Cardinality(Rows) <= HistoryLimit
        BY DEF RowsOK
      <3>2. IsFiniteSet(stay) /\ Cardinality(stay) <= Cardinality(Rows)
        BY <2>2, <3>1, FS_Subset
      <3>3. Cardinality(stay) \in Nat /\ Cardinality(Rows) \in Nat
        BY <3>1, <3>2, FS_CardinalityType
      <3>4. QED
        BY <3>1, <3>2, <3>3
    <2>5. rows \in [Connection -> Nat]
      BY DEF RowsOK
    <2>6. RowsOK' /\ Rows' = stay
      BY <2>1, <2>2, <2>4, <2>5, RankedRows
    <2>7. OrdersOK'
      BY <2>1, NoRevocationType DEF OrdersOK
    <2>8. UnlistedIsRevoked'
      BY <2>1, <2>3, <2>6 DEF UnlistedIsRevoked, HitIsOrdered, Listed
    <2>9. OrderStands'
      BY <2>1 DEF OrderStands
    <2>10. HitIsOrdered'
      BY <2>1 DEF HitIsOrdered, NoRevocation, OrdersOK
    <2>11. RowsAreAimedAt'
      BY <2>1, <2>2, <2>6 DEF RowsAreAimedAt, NoRevocation, OrdersOK
    <2>12. QED
      BY <2>6, <2>7, <2>8, <2>9, <2>10, <2>11
  <1>6. QED
    BY <1>1, <1>2, <1>3, <1>4, <1>5 DEF RevokeStep

\* load_peer_terminate.
LEMMA RestartKeeps ==
  ASSUME RevocationIInv, RevocationRestart
  PROVE  RevocationIInv'
  <1> USE RevocationAssumption DEF RevocationIInv
  <1>1. /\ stamp' \in Stamps /\ stampFile' = stamp'
        /\ rows' = [c \in Connection |-> 0] /\ statsLock' = NoRevoker
        /\ revoker' = [q \in RevokeTasks |-> NoRevocation]
        /\ UNCHANGED <<clock, agreed, obeyed>>
    BY NoRevocationType DEF RevocationRestart, OrdersOK
  <1>2. ASSUME NEW s \in running'
        PROVE  /\ s \in RunningSession /\ s.excused
               /\ s.order = "stands" => ~(stamp'[s.conn.target] <= obeyed[s.conn.target])
    <2>1. PICK u \in running :
            s = [u EXCEPT !.excused = TRUE, !.order =
                   IF @ = "stands" /\ stamp'[u.conn.target] <= obeyed[u.conn.target] THEN "lost" ELSE @]
      BY <1>2 DEF RevocationRestart
    <2>2. u \in RunningSession
      BY DEF OrdersOK
    <2>3. QED
      BY <2>1, <2>2 DEF RunningSession
  <1>3. OrdersOK'
    BY <1>1, <1>2, NoRevocationType DEF OrdersOK
  <1>4. Rows' = {}
    BY <1>1 DEF Rows
  <1>5. RowsOK' /\ RowsAreAimedAt'
    BY <1>1, <1>4, FS_EmptySet DEF RowsOK, RowsAreAimedAt, NoRevocation
  <1>6. UnlistedIsRevoked' /\ HitIsOrdered'
    BY <1>2 DEF UnlistedIsRevoked, HitIsOrdered
  <1>7. OrderStands'
    BY <1>1, <1>2 DEF OrderStands, OrdersOK, Stamps, RunningSession, Connection
  <1>8. QED
    BY <1>3, <1>5, <1>6, <1>7

LEMMA RevocationNextInv == RevocationIInv /\ [RevocationNext]_revocationVars => RevocationIInv'
  <1> SUFFICES ASSUME RevocationIInv, [RevocationNext]_revocationVars PROVE RevocationIInv'
    OBVIOUS
  <1> USE DEF RevocationIInv, RowsOK, Rows, UnlistedIsRevoked, Listed, OrderStands, HitIsOrdered,
              RowsAreAimedAt
  <1>1. CASE Tick \/ ClockStepsBack
    <2>1. UNCHANGED <<stamp, stampFile, rows, statsLock, revoker, agreed, running, obeyed>>
      BY <1>1 DEF Tick, ClockStepsBack, orders, fleet
    <2>2. OrdersOK'
      BY <1>1, <2>1, RevocationAssumption DEF Tick, ClockStepsBack, OrdersOK
    <2>3. QED
      BY <2>1, <2>2
  <1>2. CASE UNCHANGED revocationVars
    BY <1>2 DEF revocationVars, OrdersOK
  <1>3. QED
    BY <1>1, <1>2, ConnectionStepKeeps, RevokeStepKeeps, RestartKeeps DEF RevocationNext

\* However requests to revoke overlap with negotiations, polls, clocks that step back and
\* restarts: a session whose row is gone has been revoked or excused, and an order a target
\* has still to see is newer than what it has obeyed (terminate_sessions_from_controllers,
\* set_peer_terminate).
THEOREM RevocationInvariant == RevocationSpec => []RevocationInv
  <1>1. QED
    BY RevocationImplied, RevocationInitInv, RevocationNextInv, PTL DEF RevocationSpec

\* The order stands (set_peer_terminate).
THEOREM OrdersStand == RevocationSpec => []OrderStands
  <1>1. RevocationIInv => OrderStands
    BY DEF RevocationIInv
  <1>2. QED
    BY <1>1, RevocationInitInv, RevocationNextInv, PTL DEF RevocationSpec

-----------------------------------------------------------------------------
(* The signing key.                                                        *)

\* A process that has a key to publish or to serve has one indeed, never the lack of one.
KeyInHand == \A p \in Processes : proc[p].at \in {"linking", "published", "up"} => proc[p].key \in Keys

\* A request that is under way belongs to an hbbs, has made its key, writes to a file, and has
\* stamped the name it gives to the old one.
RotationsAreOwned ==
  \A r \in Rotations :
    /\ rotation[r].at # "idle" => /\ rotation[r].by \in Hbbs
                                 /\ rotation[r].new \in Keys /\ rotation[r].file \in Keys
    /\ rotation[r].at \in {"looked", "archived", "rolling_back"} => rotation[r].stamp \in Seconds

\* The inductive invariant.
KeyIInv == KeyInv /\ KeyInHand /\ RotationsAreOwned

\* The states of a process and of a request.
ProcessState == [at : {"down", "linking", "published", "lost", "up"}, key : File]
RotationState == [at : Stages, by : Hbbs \cup {NoFile}, new : File, file : File,
                  stamp : Seconds \cup {0}, hadOld : BOOLEAN]

\* read_sk returns nothing, nothing usable, or a key.
LEMMA WhatIsOnDisk ==
  ASSUME KeyTypeOK
  PROVE  KeyOnDisk \in Keys \cup {NoFile, Blank} /\ (sk # NoFile => sk \in Keys)
  BY DEF KeyTypeOK, KeyOnDisk, File

LEMMA KeyInitInv == KeyInit => KeyIInv
  <1> SUFFICES ASSUME KeyInit PROVE KeyIInv
    OBVIOUS
  <1> USE SigningKeyAssumption DEF KeyInit, Down, NoRotation, File
  <1>1. KeyTypeOK
    BY DEF KeyTypeOK, Stages
  <1>2. KeyIsShared /\ KeyInHand
    BY DEF KeyIsShared, KeyInHand, InService
  <1>3. RotationsAreOwned
    BY DEF RotationsAreOwned
  <1>4. QED
    BY <1>1, <1>2, <1>3 DEF KeyIInv, KeyInv

\* gen_sk: no step of a process breaks the invariant.  What it takes over is the key on the
\* disk, and the disk gets a key only when it has none.
LEMMA ProcessStepKeeps ==
  ASSUME KeyIInv, NEW p \in Processes,
         \/ Load(p) \/ FatalStart(p) \/ Publish(p) \/ WritePub(p) \/ Reread(p) \/ Stop(p)
         \/ \E k \in Keys : Generate(p, k)
  PROVE  KeyIInv'
  <1> USE SigningKeyAssumption DEF KeyIInv, KeyInv
  <1>0. /\ proc \in [Processes -> ProcessState] /\ rotation \in [Rotations -> RotationState]
        /\ (sk # NoFile => sk \in Keys)
    BY WhatIsOnDisk DEF KeyTypeOK, ProcessState, RotationState
  <1>1. CASE Load(p)
    <2> USE <1>1 DEF Load, At, files
    <2>1. KeyTypeOK'
      BY DEF KeyTypeOK, File
    <2>2. KeyOnDisk' = KeyOnDisk
      BY DEF KeyOnDisk
    <2>3. KeyIsShared' /\ KeyInHand'
      BY <1>0, <2>2 DEF KeyIsShared, KeyInHand, InService
    <2>4. RotationsAreOwned'
      BY DEF RotationsAreOwned
    <2>5. QED
      BY <2>1, <2>3, <2>4
  <1>2. CASE FatalStart(p)
    BY <1>2 DEF FatalStart, keyVars, KeyTypeOK, KeyIsShared, KeyOnDisk, InService, KeyInHand,
                RotationsAreOwned
  <1>3. CASE Publish(p)
    <2> USE <1>3 DEF Publish, Link, At
    <2>1. proc[p].key \in Keys
      BY DEF KeyInHand
    <2>2. KeyTypeOK'
      <3>1. proc' \in [Processes -> ProcessState]
        <4>1. CASE proc' = [proc EXCEPT ![p] = [at |-> "published", key |-> proc[p].key]]
          BY <1>0, <2>1, <4>1 DEF ProcessState, File
        <4>2. CASE proc' = [proc EXCEPT ![p] = [at |-> "lost", key |-> NoFile]]
          BY <1>0, <4>2 DEF ProcessState, File
        <4>3. QED
          BY <4>1, <4>2
      <3>2. sk' \in File /\ data' \in [Keys -> Keys \cup {Blank}]
        BY <2>1 DEF KeyTypeOK, File
      <3>3. QED
        BY <3>1, <3>2 DEF KeyTypeOK, ProcessState
    <2>3. KeyInHand' /\ KeyIsShared'
      <3>1. CASE sk = NoFile
        <4>1. KeyOnDisk = NoFile
          BY <3>1 DEF KeyOnDisk
        <4>2. KeyOnDisk' = proc[p].key
          BY <2>1, <3>1 DEF KeyOnDisk, KeyTypeOK
        <4>3. \A q \in Processes : proc'[q] = IF q = p THEN [at |-> "published", key |-> proc[p].key]
                                              ELSE proc[q]
          BY <1>0, <3>1
        <4>4. QED
          BY <2>1, <4>1, <4>2, <4>3 DEF KeyIsShared, KeyInHand, InService
      <3>2. CASE sk # NoFile
        <4>1. KeyOnDisk' = KeyOnDisk
          BY <3>2 DEF KeyOnDisk
        <4>2. QED
          BY <1>0, <3>2, <4>1 DEF KeyIsShared, KeyInHand, InService
      <3>3. QED
        BY <3>1, <3>2
    <2>4. RotationsAreOwned'
      BY DEF RotationsAreOwned
    <2>5. QED
      BY <2>2, <2>3, <2>4
  <1>4. CASE WritePub(p)
    <2> USE <1>4 DEF WritePub, At
    <2>1. KeyTypeOK'
      BY DEF KeyTypeOK
    <2>2. KeyOnDisk' = KeyOnDisk
      BY DEF KeyOnDisk
    <2>3. KeyIsShared' /\ KeyInHand'
      BY <1>0, <2>2 DEF KeyIsShared, KeyInHand, InService
    <2>4. RotationsAreOwned'
      BY DEF RotationsAreOwned
    <2>5. QED
      BY <2>1, <2>3, <2>4
  <1>5. CASE Reread(p)
    <2> USE <1>5 DEF Reread, At, files
    <2>1. KeyTypeOK'
      BY DEF KeyTypeOK, File
    <2>2. KeyOnDisk' = KeyOnDisk
      BY DEF KeyOnDisk
    <2>3. KeyIsShared' /\ KeyInHand'
      BY <1>0, <2>2 DEF KeyIsShared, KeyInHand, InService
    <2>4. RotationsAreOwned'
      BY DEF RotationsAreOwned
    <2>5. QED
      BY <2>1, <2>3, <2>4
  <1>6. CASE Stop(p)
    <2> USE <1>6 DEF Stop, At, files, NoRotation
    <2>1. KeyTypeOK'
      BY DEF KeyTypeOK, File, Stages
    <2>2. KeyOnDisk' = KeyOnDisk
      BY DEF KeyOnDisk
    <2>3. KeyIsShared' /\ KeyInHand'
      BY <1>0, <2>2 DEF KeyIsShared, KeyInHand, InService
    <2>4. RotationsAreOwned'
      BY DEF RotationsAreOwned
    <2>5. QED
      BY <2>1, <2>3, <2>4
  <1>7. ASSUME NEW k \in Keys, Generate(p, k) PROVE KeyIInv'
    <2> USE <1>7 DEF Generate, At, files
    <2>1. KeyTypeOK'
      BY DEF KeyTypeOK, File
    <2>2. KeyOnDisk' = KeyOnDisk
      BY DEF KeyOnDisk
    <2>3. KeyIsShared' /\ KeyInHand'
      BY <1>0, <2>2 DEF KeyIsShared, KeyInHand, InService
    <2>4. RotationsAreOwned'
      BY DEF RotationsAreOwned
    <2>5. QED
      BY <2>1, <2>3, <2>4
  <1>8. QED
    BY <1>1, <1>2, <1>3, <1>4, <1>5, <1>6, <1>7

\* The steps of a request.
RotationStep(r) ==
  \/ \E p \in Hbbs, k \in Keys : RotateOpens(r, p, k)
  \/ RotateWrites(r) \/ RotateWriteFails(r)
  \/ LookForOld(r) \/ ArchiveOld(r) \/ ArchiveFails(r)
  \/ PutNew(r) \/ PutNewFails(r) \/ RollBack(r) \/ Abandon(r) \/ PutPub(r)

\* Whatever a request takes from the disk it retires, and it touches no process.
LEMMA RotationRetires ==
  ASSUME KeyTypeOK, NEW r \in Rotations, RotationStep(r)
  PROVE  /\ retired \subseteq retired' /\ retired' \subseteq Keys
         /\ (KeyOnDisk \in Keys => KeyOnDisk' = KeyOnDisk \/ KeyOnDisk \in retired')
         /\ proc' = proc /\ second' = second
  <1>1. CASE Retire
    <2>1. retired' = retired \cup ({KeyOnDisk} \cap (Keys \ {KeyOnDisk'}))
      BY <1>1 DEF Retire
    <2>2. retired \subseteq retired' /\ retired' \subseteq Keys
          /\ (KeyOnDisk \in Keys => KeyOnDisk' = KeyOnDisk \/ KeyOnDisk \in retired')
      BY <2>1 DEF KeyTypeOK
    <2>3. proc' = proc /\ second' = second
      BY DEF RotationStep, RotateOpens, RotateWrites, RotateWriteFails, LookForOld, ArchiveOld,
             ArchiveFails, PutNew, PutNewFails, RollBack, Abandon, PutPub
    <2>4. QED
      BY <2>2, <2>3
  <1>2. CASE LookForOld(r) \/ ArchiveFails(r) \/ PutNewFails(r) \/ Abandon(r) \/ PutPub(r)
    BY <1>2 DEF LookForOld, ArchiveFails, PutNewFails, Abandon, PutPub, files, KeyOnDisk, KeyTypeOK
  <1>3. QED
    BY <1>1, <1>2 DEF RotationStep, RotateOpens, RotateWrites, RotateWriteFails, ArchiveOld,
                      PutNew, RollBack

\* rotate_server_key_at: a request stays one, at every stage.
LEMMA RotationIsTyped ==
  ASSUME KeyIInv, NEW r \in Rotations, RotationStep(r)
  PROVE  rotation' \in [Rotations -> RotationState] /\ RotationsAreOwned'
  <1> USE SigningKeyAssumption DEF KeyIInv, KeyInv
  <1>0. /\ rotation \in [Rotations -> RotationState] /\ second \in Seconds
        /\ tmp \in [Hbbs -> File] /\ RotationsAreOwned
    BY DEF KeyTypeOK, RotationState
  <1>1. ASSUME NEW rec, rec \in RotationState, rotation' = [rotation EXCEPT ![r] = rec],
               rec.at # "idle" => rec.by \in Hbbs /\ rec.new \in Keys /\ rec.file \in Keys,
               rec.at \in {"looked", "archived", "rolling_back"} => rec.stamp \in Seconds
        PROVE  rotation' \in [Rotations -> RotationState] /\ RotationsAreOwned'
    <2>1. rotation' \in [Rotations -> RotationState]
      BY <1>0, <1>1
    <2>2. \A q \in Rotations : rotation'[q] = IF q = r THEN rec ELSE rotation[q]
      BY <1>0, <1>1
    <2>3. QED
      BY <1>0, <1>1, <2>1, <2>2 DEF RotationsAreOwned
  <1>2. NoRotation \in RotationState
    BY DEF NoRotation, RotationState, File, Stages
  <1>3. ASSUME NEW stage \in Stages, Reaches(r, stage), rotation[r].at # "idle",
               stage \in {"looked", "archived", "rolling_back"} => rotation[r].stamp \in Seconds
        PROVE  rotation' \in [Rotations -> RotationState] /\ RotationsAreOwned'
    <2> DEFINE rec == [rotation[r] EXCEPT !.at = stage]
    <2>1. rec \in RotationState /\ rec.at = stage
          /\ rec.by = rotation[r].by /\ rec.new = rotation[r].new /\ rec.file = rotation[r].file
          /\ rec.stamp = rotation[r].stamp
      BY <1>0, <1>3 DEF RotationState
    <2>2. rotation' = [rotation EXCEPT ![r] = rec]
      BY <1>3 DEF Reaches, Rotate
    <2> HIDE DEF rec
    <2>3. QED
      BY <1>0, <1>1, <1>3, <2>1, <2>2 DEF RotationsAreOwned
  <1>4. ASSUME NEW p \in Hbbs, NEW k \in Keys, RotateOpens(r, p, k)
        PROVE  rotation' \in [Rotations -> RotationState] /\ RotationsAreOwned'
    <2> DEFINE f == IF tmp[p] = NoFile THEN k ELSE tmp[p]
               rec == [NoRotation EXCEPT !.at = "opened", !.by = p, !.new = k, !.file = f]
    <2>1. f \in Keys
      BY <1>0 DEF File
    <2>2. rotation' = [rotation EXCEPT ![r] = rec]
      BY <1>4 DEF RotateOpens, Rotate
    <2> HIDE DEF f
    <2>3. rec \in RotationState /\ rec.at = "opened" /\ rec.by = p /\ rec.new = k /\ rec.file = f
      BY <2>1 DEF NoRotation, RotationState, File, Stages
    <2> HIDE DEF rec
    <2>4. QED
      BY <1>1, <2>1, <2>2, <2>3
  <1>5. CASE RotateWriteFails(r) \/ Abandon(r) \/ PutPub(r)
    <2>1. rotation' = [rotation EXCEPT ![r] = NoRotation]
      BY <1>5 DEF RotateWriteFails, Abandon, PutPub, Rotate
    <2>2. NoRotation.at = "idle"
      BY DEF NoRotation
    <2>3. QED
      BY <1>1, <1>2, <2>1, <2>2
  <1>6. CASE LookForOld(r)
    <2> DEFINE stage == IF sk = NoFile THEN "archived" ELSE "looked"
               rec == [rotation[r] EXCEPT !.at = stage, !.stamp = second, !.hadOld = sk # NoFile]
    <2>1. rotation' = [rotation EXCEPT ![r] = rec] /\ rotation[r].at = "written"
      BY <1>6 DEF LookForOld, Rotate
    <2>2. stage \in Stages
      BY DEF Stages
    <2> HIDE DEF stage
    <2>3. rec \in RotationState /\ rec.stamp = second
          /\ rec.by = rotation[r].by /\ rec.new = rotation[r].new /\ rec.file = rotation[r].file
      BY <1>0, <2>2 DEF RotationState
    <2> HIDE DEF rec
    <2>4. QED
      BY <1>0, <1>1, <2>1, <2>3 DEF RotationsAreOwned
  <1>7. CASE \/ RotateWrites(r) \/ ArchiveOld(r) \/ ArchiveFails(r)
             \/ PutNew(r) \/ PutNewFails(r) \/ RollBack(r)
    <2>1. PICK stage \in {"written", "archived", "abandoned", "put", "rolling_back"} :
            /\ Reaches(r, stage) /\ rotation[r].at # "idle"
            /\ stage \in {"archived", "rolling_back"} => rotation[r].at \in {"looked", "archived"}
      BY <1>7 DEF RotateWrites, ArchiveOld, ArchiveFails, PutNew, PutNewFails, RollBack
    <2>2. stage \in Stages
      BY DEF Stages
    <2>3. stage \in {"looked", "archived", "rolling_back"} => rotation[r].stamp \in Seconds
      BY <1>0, <2>1 DEF RotationsAreOwned
    <2>4. QED
      BY <1>3, <2>1, <2>2, <2>3
  <1>8. QED
    BY <1>4, <1>5, <1>6, <1>7 DEF RotationStep

\* It leaves every name with a file or without one, and in every file a key or none.
LEMMA RotationKeepsFiles ==
  ASSUME KeyIInv, NEW r \in Rotations, RotationStep(r)
  PROVE  /\ sk' \in File /\ pub' \in File /\ minted' \subseteq Keys
         /\ tmp' \in [Hbbs -> File] /\ archive' \in [Seconds -> File]
         /\ data' \in [Keys -> Keys \cup {Blank}]
  <1> USE SigningKeyAssumption DEF KeyIInv, KeyInv, File
  <1>0. /\ sk \in File /\ pub \in File /\ minted \subseteq Keys
        /\ tmp \in [Hbbs -> File] /\ archive \in [Seconds -> File]
        /\ data \in [Keys -> Keys \cup {Blank}]
        /\ rotation[r].new \in File
    BY DEF KeyTypeOK
  <1>1. rotation[r].at # "idle" => /\ rotation[r].by \in Hbbs
                                   /\ rotation[r].new \in Keys /\ rotation[r].file \in Keys
    BY DEF RotationsAreOwned
  <1>2. rotation[r].at \in {"looked", "archived", "rolling_back"} => rotation[r].stamp \in Seconds
    BY DEF RotationsAreOwned
  <1>3. ASSUME NEW p \in Hbbs, NEW k \in Keys, RotateOpens(r, p, k)
        PROVE  /\ sk' = sk /\ pub' = pub /\ minted' \subseteq Keys /\ archive' = archive
               /\ tmp' \in [Hbbs -> File] /\ data' \in [Keys -> Keys \cup {Blank}]
    <2>1. PICK f \in Keys : tmp' = [tmp EXCEPT ![p] = f] /\ data' = [data EXCEPT ![f] = Blank]
      BY <1>0, <1>3 DEF RotateOpens
    <2>2. QED
      BY <1>0, <1>3, <2>1 DEF RotateOpens
  <1>4. CASE RotateWrites(r)
    BY <1>0, <1>1, <1>4 DEF RotateWrites
  <1>5. CASE RotateWriteFails(r)
    BY <1>0, <1>1, <1>5 DEF RotateWriteFails
  <1>6. CASE LookForOld(r) \/ ArchiveFails(r) \/ PutNewFails(r)
    BY <1>0, <1>6 DEF LookForOld, ArchiveFails, PutNewFails, files
  <1>7. CASE ArchiveOld(r)
    BY <1>0, <1>2, <1>7 DEF ArchiveOld
  <1>8. CASE PutNew(r)
    BY <1>0, <1>1, <1>8 DEF PutNew
  <1>9. CASE RollBack(r)
    <2>1. archive[rotation[r].stamp] \in File
      BY <1>0, <1>2, <1>9 DEF RollBack
    <2>2. QED
      BY <1>0, <1>2, <1>9, <2>1 DEF RollBack
  <1>10. CASE Abandon(r) \/ PutPub(r)
    BY <1>0, <1>1, <1>10 DEF Abandon, PutPub
  <1>11. QED
    BY <1>0, <1>3, <1>4, <1>5, <1>6, <1>7, <1>8, <1>9, <1>10 DEF RotationStep

\* No step of a request breaks the invariant.
LEMMA RotationStepKeeps ==
  ASSUME KeyIInv, NEW r \in Rotations, RotationStep(r)
  PROVE  KeyIInv'
  <1> USE DEF KeyIInv, KeyInv
  <1>1. /\ retired \subseteq retired' /\ retired' \subseteq Keys
        /\ (KeyOnDisk \in Keys => KeyOnDisk' = KeyOnDisk \/ KeyOnDisk \in retired')
        /\ proc' = proc /\ second' = second
    BY RotationRetires
  <1>2. KeyTypeOK'
    BY <1>1, RotationIsTyped, RotationKeepsFiles DEF KeyTypeOK, RotationState
  <1>3. KeyInHand'
    BY <1>1 DEF KeyInHand
  <1>4. KeyIsShared'
    <2> SUFFICES ASSUME NEW p \in InService PROVE proc[p].key = KeyOnDisk' \/ proc[p].key \in retired'
      BY <1>1 DEF KeyIsShared, InService
    <2>1. proc[p].key \in Keys
      BY DEF KeyInHand, InService
    <2>2. QED
      BY <1>1, <2>1 DEF KeyIsShared
  <1>5. QED
    BY <1>2, <1>3, <1>4, RotationIsTyped

LEMMA KeyNextInv == KeyIInv /\ [KeyNext]_keyVars => KeyIInv'
  <1> SUFFICES ASSUME KeyIInv, [KeyNext]_keyVars PROVE KeyIInv'
    OBVIOUS
  <1>1. CASE SecondPasses
    BY <1>1 DEF SecondPasses, files, KeyIInv, KeyInv, KeyTypeOK, KeyIsShared, KeyOnDisk, InService,
                KeyInHand, RotationsAreOwned
  <1>2. CASE UNCHANGED keyVars
    BY <1>2 DEF keyVars, KeyIInv, KeyInv, KeyTypeOK, KeyIsShared, KeyOnDisk, InService, KeyInHand,
                RotationsAreOwned
  <1>3. QED
    BY <1>1, <1>2, ProcessStepKeeps, RotationStepKeeps DEF KeyNext, RotationStep

\* Wherever starts and rotations race, and wherever a process stops between two file
\* operations, a process serves the key of the file or one that a rotation has retired
\* (gen_sk, generate_and_publish_sk, rotate_server_key_at).
THEOREM KeyInvariant == KeySpec => []KeyInv
  <1>1. KeyIInv => KeyInv
    BY DEF KeyIInv
  <1>2. QED
    BY <1>1, KeyInitInv, KeyNextInv, PTL DEF KeySpec

-----------------------------------------------------------------------------
(* A session over the signing key.                                         *)

\* The inductive invariant.
SessionIInv ==
  /\ KeyIInv /\ SessionTypeOK
  /\ RequestsAreOpen /\ GrantsAreIssued /\ GrantsAreFresh /\ SidesAreAdmitted

\* hbbr joins two sides on a grant that was signed, and what is signed was issued.
LEMMA SessionImplied == SessionIInv => SessionInv /\ GrantVerifies
  <1> SUFFICES ASSUME SessionIInv PROVE SessionInv /\ GrantVerifies
    OBVIOUS
  <1> USE SessionAssumption DEF SessionIInv
  <1>1. ASSUME NEW pair \in joined
        PROVE  LET g == admits[pair[1]]
               IN /\ Relay[pair[1]] = Relay[pair[2]] /\ admits[pair[2]] = g
                  /\ g \in signed /\ \A h \in signed : h.req = g.req => h = g
                  /\ g.req \in 1..Len(book)
                  /\ \E i \in issued : /\ i.req = g.req
                                       /\ book[g.req] = [ctrl |-> i.ctrl, target |-> i.target]
                                       /\ i.by \in Proven => i.by = i.target
    <2> DEFINE g == admits[pair[1]]
    <2>1. pair[1] \in Sockets
      BY <1>1 DEF SessionTypeOK
    <2>2. g \in signed /\ admits[pair[2]] = g /\ Relay[pair[1]] = Relay[pair[2]]
      BY <1>1, <2>1 DEF SidesAreAdmitted
    <2>3. PICK i \in issued : i.req = g.req
      BY <2>2 DEF GrantsAreIssued
    <2>4. \A h \in signed : h.req = g.req => h = g
      BY <2>2 DEF GrantsAreIssued
    <2>5. i.req \in 1..Len(book) /\ book[i.req] = [ctrl |-> i.ctrl, target |-> i.target]
          /\ (i.by \in Proven => i.by = i.target)
      BY DEF RequestsAreOpen
    <2> HIDE DEF g
    <2>6. QED
      BY <2>2, <2>3, <2>4, <2>5 DEF g
  <1>2. SessionIsBrokered
    BY <1>1 DEF SessionIsBrokered
  <1>3. GrantVerifies
    <2> SUFFICES ASSUME NEW g \in signed, NEW q \in Hbbr, Serves(q)
                 PROVE  g.key = proc[q].key \/ {g.key, proc[q].key} \cap retired # {}
      BY DEF GrantVerifies
    <2>1. proc[q].key = KeyOnDisk \/ proc[q].key \in retired
      BY DEF KeyIInv, KeyInv, KeyIsShared, InService, Serves, Processes
    <2>2. g.key = KeyOnDisk \/ g.key \in retired
      BY DEF GrantsAreFresh
    <2>3. QED
      BY <2>1, <2>2
  <1>4. QED
    BY <1>2, <1>3 DEF SessionInv

\* Whatever the disk loses is retired, and nothing else is ever done to what is retired.
LEMMA FileIsRetired ==
  ASSUME KeyIInv, KeyNext
  PROVE  /\ retired \subseteq retired'
         /\ (KeyOnDisk \in Keys => KeyOnDisk' = KeyOnDisk \/ KeyOnDisk \in retired')
  <1> USE DEF KeyIInv, KeyInv
  <1>1. ASSUME NEW p \in Processes,
               \/ Load(p) \/ FatalStart(p) \/ WritePub(p) \/ Reread(p) \/ Stop(p)
               \/ \E k \in Keys : Generate(p, k)
        PROVE  retired' = retired /\ KeyOnDisk' = KeyOnDisk
    BY <1>1 DEF Load, FatalStart, WritePub, Reread, Stop, Generate, files, keyVars, KeyOnDisk
  <1>2. ASSUME NEW p \in Processes, Publish(p)
        PROVE  retired' = retired /\ (KeyOnDisk \in Keys => KeyOnDisk' = KeyOnDisk)
    BY <1>2, SigningKeyAssumption DEF Publish, KeyOnDisk
  <1>3. CASE SecondPasses
    BY <1>3 DEF SecondPasses, files, KeyOnDisk
  <1>4. QED
    BY <1>1, <1>2, <1>3, RotationRetires DEF KeyNext, RotationStep

\* A process that serves keeps its key until it stops.
LEMMA ServesWithOneKey ==
  ASSUME KeyIInv, KeyNext, NEW q \in Processes, Serves(q)
  PROVE  proc'[q] = proc[q] \/ proc'[q].at # "up"
  <1> USE DEF Serves
  <1>0. proc \in [Processes -> [at : {"down", "linking", "published", "lost", "up"}, key : File]]
    BY DEF KeyIInv, KeyInv, KeyTypeOK
  <1>1. ASSUME NEW p \in Processes, Load(p) \/ FatalStart(p) \/ Publish(p)
        PROVE  proc'[q] = proc[q]
    BY <1>0, <1>1 DEF Load, FatalStart, Publish, Link, At, keyVars
  <1>2. ASSUME NEW p \in Processes, WritePub(p) \/ Reread(p)
        PROVE  proc'[q] = proc[q]
    BY <1>0, <1>2 DEF WritePub, Reread, At
  <1>3. ASSUME NEW p \in Processes, Stop(p)
        PROVE  proc'[q] = proc[q] \/ proc'[q].at # "up"
    BY <1>0, <1>3 DEF Stop, At
  <1>4. ASSUME NEW p \in Processes, NEW k \in Keys, Generate(p, k)
        PROVE  proc'[q] = proc[q]
    BY <1>0, <1>4 DEF Generate, At
  <1>5. ASSUME NEW r \in Rotations, RotationStep(r)
        PROVE  proc' = proc
    BY <1>5, RotationRetires DEF KeyIInv, KeyInv
  <1>6. CASE SecondPasses
    BY <1>6 DEF SecondPasses
  <1>7. QED
    BY <1>1, <1>2, <1>3, <1>4, <1>5, <1>6 DEF KeyNext, RotationStep

LEMMA SessionInitInv == SessionInit => SessionIInv
  <1> SUFFICES ASSUME SessionInit PROVE SessionIInv
    OBVIOUS
  <1> USE SessionAssumption DEF SessionInit, Book!BookInit, Match!MatchInit
  <1>1. KeyIInv
    BY KeyInitInv
  <1>2. SessionTypeOK
    BY DEF SessionTypeOK
  <1>3. RequestsAreOpen /\ GrantsAreIssued /\ GrantsAreFresh
    BY DEF RequestsAreOpen, GrantsAreIssued, GrantsAreFresh
  <1>4. SidesAreAdmitted
    BY DEF SidesAreAdmitted
  <1>5. QED
    BY <1>1, <1>2, <1>3, <1>4 DEF SessionIInv

\* A step that leaves the key file and the processes alone leaves their invariant alone.
LEMMA KeysAreKept == KeyIInv /\ UNCHANGED keyVars => KeyIInv'
  BY KeyNextInv

\* The same for what hbbs has signed, as long as the clock does not go back.
LEMMA FreshnessIsKept ==
  ASSUME SessionIInv, UNCHANGED <<keyVars, signed, signer>>, time' \in Nat, time <= time'
  PROVE  GrantsAreFresh'
  <1> SUFFICES ASSUME NEW g \in signed
               PROVE  /\ g.key = KeyOnDisk \/ g.key \in retired
                      /\ g.exp <= time' + TTL
                      /\ Signing(g.key) \/ g.exp <= signer[g.key] + TTL
    BY DEF GrantsAreFresh, keyVars, KeyOnDisk, Signing, Serves
  <1>1. g.exp \in Nat /\ g.exp <= time + TTL /\ time \in Nat
    BY DEF SessionIInv, SessionTypeOK, SignedGrant, GrantsAreFresh
  <1>2. g.exp <= time' + TTL
    BY <1>1, SessionAssumption
  <1>3. QED
    BY <1>2 DEF SessionIInv, GrantsAreFresh

LEMMA AcceptRequestKeeps ==
  ASSUME SessionIInv, NEW v \in Viewers, NEW t \in Desktops, AcceptRequest(v, t)
  PROVE  SessionIInv'
  <1> USE SessionAssumption DEF SessionIInv, AcceptRequest, Book!Enter
  <1>0. book \in Seq([ctrl : Viewers, target : Desktops]) /\ open \in [Viewers -> SUBSET Nat]
    BY DEF SessionTypeOK
  <1> DEFINE entry == [ctrl |-> v, target |-> t]
  <1>1. /\ book' \in Seq([ctrl : Viewers, target : Desktops])
        /\ Len(book) \in Nat /\ Len(book') = Len(book) + 1
        /\ \A i \in 1..Len(book) : book'[i] = book[i]
        /\ book'[Len(book) + 1] = entry
    BY <1>0
  <1>2. ASSUME NEW w \in Viewers, NEW r \in open'[w]
        PROVE  r \in open[w] \/ (w = v /\ r = Len(book) + 1)
    BY <1>0, <1>2
  <1>3. SessionTypeOK'
    <2>1. open' \in [Viewers -> SUBSET Nat]
      BY <1>0, <1>1
    <2>2. QED
      BY <1>1, <2>1 DEF SessionTypeOK, relayVars
  <1>4. RequestsAreOpen'
    <2>0. Serves(Broker[v]) /\ UNCHANGED <<proc, issued>>
      BY DEF keyVars
    <2> HIDE DEF AcceptRequest, Book!Enter
    <2>1. \A i \in issued : /\ i.req \in 1..Len(book')
                            /\ book'[i.req] = [ctrl |-> i.ctrl, target |-> i.target]
                            /\ (i.by \in Proven => i.by = i.target)
      <3> SUFFICES ASSUME NEW i \in issued
                   PROVE  /\ i.req \in 1..Len(book')
                          /\ book'[i.req] = [ctrl |-> i.ctrl, target |-> i.target]
                          /\ (i.by \in Proven => i.by = i.target)
        OBVIOUS
      <3>1. /\ i.req \in 1..Len(book) /\ book[i.req] = [ctrl |-> i.ctrl, target |-> i.target]
            /\ (i.by \in Proven => i.by = i.target)
        BY DEF RequestsAreOpen
      <3>2. i.req \in 1..Len(book')
        BY <1>1, <3>1
      <3>3. book'[i.req] = book[i.req]
        BY <1>1, <3>1
      <3>4. QED
        BY <3>1, <3>2, <3>3
    <2>2. ASSUME NEW w \in Viewers, NEW r \in open'[w]
          PROVE  /\ Serves(Broker[w]) /\ r \in 1..Len(book') /\ book'[r].ctrl = w
                 /\ \A i \in issued : i.ctrl = w => i.req < r
      <3>1. CASE r \in open[w]
        BY <1>1, <3>1 DEF RequestsAreOpen
      <3>2. CASE w = v /\ r = Len(book) + 1
        <4>1. \A i \in issued : i.req \in 1..Len(book)
          BY DEF RequestsAreOpen
        <4>2. QED
          BY <1>1, <2>0, <3>2, <4>1
      <3>3. QED
        BY <1>2, <3>1, <3>2
    <2>3. QED
      BY <2>0, <2>1, <2>2 DEF RequestsAreOpen, Serves
  <1>5. GrantsAreFresh'
    BY FreshnessIsKept DEF SessionTypeOK
  <1>6. GrantsAreIssued' /\ SidesAreAdmitted'
    BY DEF GrantsAreIssued, SidesAreAdmitted, relayVars
  <1>7. QED
    BY <1>3, <1>4, <1>5, <1>6, KeysAreKept

LEMMA MintGrantKeeps ==
  ASSUME SessionIInv, NEW v \in Viewers, NEW t \in Desktops, NEW r \in open[v], MintGrant(v, t, r)
  PROVE  SessionIInv'
  <1> USE SessionAssumption DEF SessionIInv
  <1> DEFINE k == proc[Broker[v]].key
             new == [req |-> r, key |-> k, exp |-> time + TTL]
             row == [ctrl |-> v, target |-> book[r].target, by |-> t, req |-> r]
  <1>0. /\ Serves(Broker[v]) /\ (t \in Proven => book[r].target = t)
        /\ issued' = issued \cup {row} /\ open' = [open EXCEPT ![v] = {i \in @ : i > r}]
        /\ signed' = signed \cup {new}
        /\ UNCHANGED <<book, time, signer, admits, joined, closed>> /\ UNCHANGED keyVars
    BY DEF MintGrant, Book!Issue, Sign, relayVars
  <1>1. /\ r \in 1..Len(book) /\ book[r].ctrl = v /\ \A i \in issued : i.ctrl = v => i.req < r
        /\ book \in Seq([ctrl : Viewers, target : Desktops]) /\ open \in [Viewers -> SUBSET Nat]
    BY DEF RequestsAreOpen, SessionTypeOK
  <1>2. /\ book[r] \in [ctrl : Viewers, target : Desktops] /\ r \in Nat
        /\ book[r] = [ctrl |-> v, target |-> book[r].target]
    <2> DEFINE Request == [ctrl : Viewers, target : Desktops]
    <2>1. book \in Seq(Request)
      BY <1>1
    <2> HIDE DEF Request
    <2>2. book[r] \in Request /\ r \in Nat
      BY <1>1, <2>1
    <2>3. QED
      BY <1>1, <2>2 DEF Request
  <1>3. Broker[v] \in Hbbs /\ k \in Keys /\ (k = KeyOnDisk \/ k \in retired)
    <2>1. Broker[v] \in Hbbs /\ Broker[v] \in Processes
      BY DEF Processes
    <2>2. QED
      BY <1>0, <2>1 DEF KeyIInv, KeyInv, KeyTypeOK, KeyIsShared, KeyInHand, InService, Serves, File
  <1>4. time \in Nat /\ new \in SignedGrant
    BY <1>2, <1>3 DEF SessionTypeOK, SignedGrant
  <1>5. \A g \in signed : g.req # r
    <2> SUFFICES ASSUME NEW g \in signed, g.req = r PROVE FALSE
      OBVIOUS
    <2>1. PICK i \in issued : i.req = r
      BY DEF GrantsAreIssued
    <2>2. book[r] = [ctrl |-> i.ctrl, target |-> i.target]
      BY <2>1 DEF RequestsAreOpen
    <2>3. i.ctrl = v
      BY <1>1, <2>2
    <2>4. QED
      BY <1>1, <1>2, <2>1, <2>3
  <1> HIDE DEF k, new, row
  <1>6. row \in [ctrl : Viewers, target : Desktops, by : Desktops, req : Nat]
    BY <1>2 DEF row
  <1>7. SessionTypeOK'
    <2>1. open' \in [Viewers -> SUBSET Nat]
      BY <1>0, <1>1
    <2>2. QED
      BY <1>0, <1>4, <1>6, <2>1 DEF SessionTypeOK
  <1>8. RequestsAreOpen'
    <2>1. ASSUME NEW i \in issued'
          PROVE  /\ i.req \in 1..Len(book)
                 /\ book[i.req] = [ctrl |-> i.ctrl, target |-> i.target]
                 /\ (i.by \in Proven => i.by = i.target)
      <3>1. CASE i \in issued
        BY <3>1 DEF RequestsAreOpen
      <3>2. CASE i = row
        BY <1>0, <1>1, <1>2, <3>2 DEF row
      <3>3. QED
        BY <1>0, <3>1, <3>2
    <2>2. ASSUME NEW w \in Viewers, NEW s \in open'[w]
          PROVE  /\ Serves(Broker[w]) /\ s \in 1..Len(book) /\ book[s].ctrl = w
                 /\ \A i \in issued' : i.ctrl = w => i.req < s
      <3>1. s \in open[w] /\ (w = v => s > r)
        BY <1>0, <1>1
      <3>2. /\ Serves(Broker[w]) /\ s \in 1..Len(book) /\ book[s].ctrl = w
            /\ \A i \in issued : i.ctrl = w => i.req < s
        BY <3>1 DEF RequestsAreOpen
      <3>3. row.ctrl = w => row.req < s
        BY <1>2, <3>1, <3>2 DEF row
      <3>4. QED
        BY <1>0, <3>2, <3>3
    <2>3. QED
      BY <1>0, <2>1, <2>2 DEF RequestsAreOpen, Serves, keyVars
  <1>9. GrantsAreIssued'
    <2>1. new.req = r /\ row.req = r
      BY DEF new, row
    <2>2. ASSUME NEW g \in signed'
          PROVE  (\E i \in issued' : i.req = g.req) /\ \A h \in signed' : h.req = g.req => h = g
      <3>1. CASE g \in signed
        BY <1>0, <1>5, <2>1, <3>1 DEF GrantsAreIssued
      <3>2. CASE g = new
        BY <1>0, <1>5, <2>1, <3>2
      <3>3. QED
        BY <1>0, <3>1, <3>2
    <2>3. QED
      BY <2>2 DEF GrantsAreIssued
  <1>10. GrantsAreFresh'
    <2>1. \A g \in signed : /\ g.key = KeyOnDisk \/ g.key \in retired
                            /\ g.exp <= time + TTL
                            /\ Signing(g.key) \/ g.exp <= signer[g.key] + TTL
      BY DEF GrantsAreFresh
    <2>2. new.key = k /\ new.exp = time + TTL /\ Signing(k)
      BY <1>0, <1>3 DEF new, k, Signing
    <2>3. time + TTL <= time + TTL
      BY <1>4
    <2>4. QED
      BY <1>0, <1>3, <2>1, <2>2, <2>3 DEF GrantsAreFresh, Signing, Serves, keyVars, KeyOnDisk
  <1>11. SidesAreAdmitted'
    BY <1>0 DEF SidesAreAdmitted
  <1>12. QED
    BY <1>0, <1>7, <1>8, <1>9, <1>10, <1>11, KeysAreKept

\* Requests can be lost: what is left was open before.
LEMMA FewerAreOpen ==
  ASSUME SessionIInv, open' \in [Viewers -> SUBSET Nat], \A v \in Viewers : open'[v] \subseteq open[v],
         \A v \in Viewers : open'[v] # {} => (Serves(Broker[v]))',
         UNCHANGED <<book, issued>>
  PROVE  RequestsAreOpen'
  BY DEF SessionIInv, RequestsAreOpen

LEMMA LoseRequestsKeeps ==
  ASSUME SessionIInv, LoseRequests
  PROVE  SessionIInv'
  <1> USE SessionAssumption DEF SessionIInv
  <1>1. PICK lapsed \in SUBSET (Viewers \X (1..Len(book))) : Book!Lapse(lapsed)
    BY DEF LoseRequests
  <1>2. /\ open' = [v \in Viewers |-> {r \in open[v] : <<v, r>> \notin lapsed}]
        /\ UNCHANGED <<book, issued, time, signed, signer, admits, joined, closed>>
        /\ UNCHANGED keyVars
    BY <1>1 DEF LoseRequests, Book!Lapse, relayVars
  <1>3. open' \in [Viewers -> SUBSET Nat] /\ \A v \in Viewers : open'[v] \subseteq open[v]
    BY <1>2 DEF SessionTypeOK
  <1>4. \A v \in Viewers : open'[v] # {} => (Serves(Broker[v]))'
    BY <1>2, <1>3 DEF RequestsAreOpen, Serves, keyVars
  <1>5. RequestsAreOpen'
    BY <1>2, <1>3, <1>4, FewerAreOpen
  <1>6. SessionTypeOK' /\ GrantsAreIssued' /\ SidesAreAdmitted'
    BY <1>2, <1>3 DEF SessionTypeOK, GrantsAreIssued, SidesAreAdmitted
  <1>7. GrantsAreFresh'
    BY <1>2, FreshnessIsKept DEF SessionTypeOK
  <1>8. QED
    BY <1>2, <1>5, <1>6, <1>7, KeysAreKept

LEMMA SocketStepKeeps ==
  ASSUME SessionIInv,
         \/ \E c \in Sockets, g \in signed : Admit(c, g)
         \/ \E c, d \in Sockets : JoinSides(c, d)
         \/ DropSockets
  PROVE  SessionIInv'
  <1> USE SessionAssumption DEF SessionIInv
  <1>0. /\ UNCHANGED <<time, book, open, issued, signed, signer>> /\ UNCHANGED keyVars
        /\ SessionTypeOK' /\ SidesAreAdmitted'
    <2>1. ASSUME NEW c \in Sockets, NEW g \in signed, Admit(c, g)
          PROVE  /\ UNCHANGED <<time, book, open, issued, signed, signer>> /\ UNCHANGED keyVars
                 /\ SessionTypeOK' /\ SidesAreAdmitted'
      <3>1. /\ UNCHANGED <<time, book, open, issued, signed, signer, joined, closed>>
            /\ UNCHANGED keyVars
            /\ admits[c] = NoGrant /\ admits' = [admits EXCEPT ![c] = g]
        BY <2>1 DEF Admit, Match!Admit, brokerVars
      <3>2. g \in SignedGrant /\ admits \in [Sockets -> SignedGrant \cup {NoGrant}]
            /\ joined \subseteq Sockets \X Sockets
        BY DEF SessionTypeOK
      <3>3. SessionTypeOK'
        BY <3>1, <3>2 DEF SessionTypeOK
      <3>4. \A d \in Sockets : admits'[d] \in signed \cup {NoGrant}
        BY <3>1, <3>2 DEF SidesAreAdmitted
      <3>5. ASSUME NEW pair \in joined
            PROVE  /\ Relay[pair[1]] = Relay[pair[2]]
                   /\ admits'[pair[1]] = admits'[pair[2]] /\ admits'[pair[1]] # NoGrant
        <4>1. pair[1] \in Sockets /\ pair[2] \in Sockets
          BY <3>2, <3>5
        <4>2. /\ Relay[pair[1]] = Relay[pair[2]]
              /\ admits[pair[1]] = admits[pair[2]] /\ admits[pair[1]] # NoGrant
          BY <3>5 DEF SidesAreAdmitted
        <4>3. pair[1] # c /\ pair[2] # c
          BY <3>1, <4>2
        <4>4. QED
          BY <3>1, <3>2, <4>1, <4>2, <4>3
      <3>6. QED
        BY <3>1, <3>3, <3>4, <3>5 DEF SidesAreAdmitted
    <2>2. ASSUME NEW c \in Sockets, NEW d \in Sockets, JoinSides(c, d)
          PROVE  /\ UNCHANGED <<time, book, open, issued, signed, signer>> /\ UNCHANGED keyVars
                 /\ SessionTypeOK' /\ SidesAreAdmitted'
      <3>1. /\ UNCHANGED <<time, book, open, issued, signed, signer, admits, closed>>
            /\ UNCHANGED keyVars
            /\ Relay[c] = Relay[d] /\ admits[c] = admits[d] /\ admits[c] # NoGrant
            /\ joined' = joined \cup {<<c, d>>}
        BY <2>2 DEF JoinSides, Match!Join, Match!Waits, brokerVars
      <3>2. SessionTypeOK'
        BY <3>1 DEF SessionTypeOK
      <3>3. SidesAreAdmitted'
        BY <3>1 DEF SidesAreAdmitted
      <3>4. QED
        BY <3>1, <3>2, <3>3
    <2>3. CASE DropSockets
      <3>1. /\ UNCHANGED <<time, book, open, issued, signed, signer, admits, joined>>
            /\ UNCHANGED keyVars
            /\ \E S \in SUBSET Sockets : closed' = closed \cup S
        BY <2>3 DEF DropSockets, Match!Drop, brokerVars
      <3>2. QED
        BY <3>1 DEF SessionTypeOK, SidesAreAdmitted
    <2>4. QED
      BY <2>1, <2>2, <2>3
  <1>1. RequestsAreOpen' /\ GrantsAreIssued'
    BY <1>0 DEF RequestsAreOpen, GrantsAreIssued, Serves, keyVars
  <1>2. GrantsAreFresh'
    BY <1>0, FreshnessIsKept DEF SessionTypeOK
  <1>3. QED
    BY <1>0, <1>1, <1>2, KeysAreKept

LEMMA TimePassesKeeps ==
  ASSUME SessionIInv, TimePasses
  PROVE  SessionIInv'
  <1> USE DEF SessionIInv
  <1>1. /\ UNCHANGED <<book, open, issued, signed, signer, admits, joined, closed>>
        /\ UNCHANGED keyVars /\ time' = time + 1
    BY DEF TimePasses, Match!Pass, brokerVars
  <1>2. time' \in Nat /\ time <= time'
    BY <1>1 DEF SessionTypeOK
  <1>3. SessionTypeOK' /\ GrantsAreIssued' /\ SidesAreAdmitted'
    BY <1>1, <1>2 DEF SessionTypeOK, GrantsAreIssued, SidesAreAdmitted
  <1>4. RequestsAreOpen'
    BY <1>1 DEF RequestsAreOpen, Serves, keyVars
  <1>5. GrantsAreFresh'
    BY <1>1, <1>2, FreshnessIsKept
  <1>6. QED
    BY <1>1, <1>3, <1>4, <1>5, KeysAreKept

\* Starts, stops and rotations.
LEMMA KeyStepKeeps ==
  ASSUME SessionIInv, KeyStep
  PROVE  SessionIInv'
  <1> USE SessionAssumption DEF SessionIInv
  <1>0. /\ KeyNext /\ UNCHANGED <<time, book, issued, signed, admits, joined>>
        /\ open' = [v \in Viewers |-> IF Broker[v] \in Stopped THEN {} ELSE open[v]]
        /\ closed' = closed \cup {c \in Sockets : Relay[c] \in Stopped /\ admits[c] # NoGrant}
        /\ signer' = [k \in Keys |-> IF \E p \in Stopped \cap Hbbs : proc[p].key = k
                                     THEN time ELSE signer[k]]
    BY DEF KeyStep
  <1>1. KeyIInv'
    BY <1>0, KeyNextInv
  <1>2. ASSUME NEW p \in Hbbs, Serves(p), p \notin Stopped
        PROVE  proc'[p] = proc[p]
    BY <1>0, <1>2, ServesWithOneKey DEF Stopped, Processes
  <1>3. time \in Nat /\ signer' \in [Keys -> Nat] /\ open' \in [Viewers -> SUBSET Nat]
        /\ \A v \in Viewers : open'[v] \subseteq open[v]
    BY <1>0 DEF SessionTypeOK
  <1>4. SessionTypeOK'
    BY <1>0, <1>3 DEF SessionTypeOK
  <1>5. RequestsAreOpen'
    <2>1. ASSUME NEW v \in Viewers, open'[v] # {} PROVE (Serves(Broker[v]))'
      <3>1. Broker[v] \notin Stopped /\ open[v] # {}
        BY <1>0, <2>1
      <3>2. Serves(Broker[v]) /\ Broker[v] \in Hbbs
        BY <3>1 DEF RequestsAreOpen
      <3>3. QED
        BY <1>2, <3>1, <3>2 DEF Serves
    <2>2. QED
      BY <1>0, <1>3, <2>1, FewerAreOpen
  <1>6. GrantsAreIssued' /\ SidesAreAdmitted'
    BY <1>0 DEF GrantsAreIssued, SidesAreAdmitted
  <1>7. GrantsAreFresh'
    <2> SUFFICES ASSUME NEW g \in signed
                 PROVE  /\ g.key = KeyOnDisk' \/ g.key \in retired'
                        /\ g.exp <= time + TTL
                        /\ (Signing(g.key))' \/ g.exp <= signer'[g.key] + TTL
      BY <1>0 DEF GrantsAreFresh
    <2>1. g.key \in Keys /\ g.exp <= time + TTL
      BY DEF SessionTypeOK, SignedGrant, GrantsAreFresh
    <2>2. g.key = KeyOnDisk' \/ g.key \in retired'
      <3>1. g.key = KeyOnDisk \/ g.key \in retired
        BY DEF GrantsAreFresh
      <3>2. QED
        BY <1>0, <2>1, <3>1, FileIsRetired
    <2>3. CASE \E p \in Stopped \cap Hbbs : proc[p].key = g.key
      BY <1>0, <2>1, <2>2, <2>3
    <2>4. CASE ~\E p \in Stopped \cap Hbbs : proc[p].key = g.key
      <3>1. signer'[g.key] = signer[g.key]
        BY <1>0, <2>1, <2>4
      <3>2. CASE Signing(g.key)
        <4>1. PICK p \in Hbbs : Serves(p) /\ proc[p].key = g.key
          BY <3>2 DEF Signing
        <4>2. proc'[p] = proc[p]
          BY <1>2, <2>4, <4>1
        <4>3. QED
          BY <2>1, <2>2, <4>1, <4>2 DEF Signing, Serves
      <3>3. CASE g.exp <= signer[g.key] + TTL
        BY <2>1, <2>2, <3>1, <3>3
      <3>4. QED
        BY <3>2, <3>3 DEF GrantsAreFresh
    <2>5. QED
      BY <2>3, <2>4
  <1>8. QED
    BY <1>1, <1>4, <1>5, <1>6, <1>7

LEMMA SessionNextInv == SessionIInv /\ [SessionNext]_sessionVars => SessionIInv'
  <1> SUFFICES ASSUME SessionIInv, [SessionNext]_sessionVars PROVE SessionIInv'
    OBVIOUS
  <1>1. CASE UNCHANGED sessionVars
    <2>1. /\ UNCHANGED <<time, book, open, issued, signed, signer, admits, joined, closed>>
          /\ UNCHANGED keyVars
      BY <1>1 DEF sessionVars, brokerVars, relayVars
    <2>2. SessionTypeOK' /\ GrantsAreIssued' /\ SidesAreAdmitted'
      BY <2>1 DEF SessionIInv, SessionTypeOK, GrantsAreIssued, SidesAreAdmitted
    <2>3. RequestsAreOpen' /\ GrantsAreFresh'
      BY <2>1 DEF SessionIInv, RequestsAreOpen, GrantsAreFresh, Signing, Serves, keyVars, KeyOnDisk
    <2>4. QED
      BY <2>1, <2>2, <2>3, KeysAreKept DEF SessionIInv
  <1>2. CASE SessionNext
    <2>1. ASSUME NEW v \in Viewers, NEW t \in Desktops,
                 AcceptRequest(v, t) \/ \E r \in open[v] : MintGrant(v, t, r)
          PROVE  SessionIInv'
      BY <2>1, AcceptRequestKeeps, MintGrantKeeps
    <2>2. QED
      BY <1>2, <2>1, LoseRequestsKeeps, SocketStepKeeps, KeyStepKeeps, TimePassesKeeps
         DEF SessionNext
  <1>3. QED
    BY <1>1, <1>2

\* Whatever stops, starts and rotates, hbbr joins two sides only on the one grant that was
\* signed for one request hbbs accepted (the RelayResponse arm, relay_grant_mint,
\* relay_grant_verify, PEERS).
THEOREM SessionsAreBrokered == SessionSpec => []SessionInv
  <1>1. QED
    BY SessionInitInv, SessionNextInv, SessionImplied, PTL DEF SessionSpec

\* hbbr refuses the signature of a grant only over a key that a rotation has retired
\* (gen_sk, rotate_server_key_at).
THEOREM GrantsVerify == SessionSpec => []GrantVerifies
  <1>1. QED
    BY SessionInitInv, SessionNextInv, SessionImplied, PTL DEF SessionSpec

\* Only an admission changes what a connection was admitted with.
LEMMA AdmissionsAreVerified ==
  ASSUME SessionIInv, SessionNext, NEW c \in Sockets, admits'[c] # admits[c]
  PROVE  admits'[c] \in signed /\ time < admits'[c].exp
  <1>1. admits \in [Sockets -> SignedGrant \cup {NoGrant}] /\ signed \subseteq SignedGrant
    BY DEF SessionIInv, SessionTypeOK
  <1>2. ASSUME NEW d \in Sockets, NEW g \in signed, Admit(d, g)
        PROVE  admits'[c] \in signed /\ time < admits'[c].exp
    <2>1. admits' = [admits EXCEPT ![d] = g]
      BY <1>2 DEF Admit, Match!Admit
    <2>2. time < [h \in SignedGrant |-> h.exp][g]
      BY <1>2 DEF Admit, Match!Admit
    <2>3. c = d /\ admits'[c] = g
      BY <1>1, <2>1
    <2>4. QED
      BY <1>1, <2>2, <2>3
  <1>3. \/ \E d \in Sockets, g \in signed : Admit(d, g)
        \/ admits' = admits
    <2>1. ASSUME NEW v \in Viewers, NEW t \in Desktops,
                 AcceptRequest(v, t) \/ \E r \in open[v] : MintGrant(v, t, r)
          PROVE  admits' = admits
      BY <2>1 DEF AcceptRequest, MintGrant, relayVars
    <2>2. ASSUME NEW d \in Sockets, NEW e \in Sockets, JoinSides(d, e) PROVE admits' = admits
      BY <2>2 DEF JoinSides, Match!Join
    <2>3. CASE LoseRequests \/ DropSockets \/ KeyStep \/ TimePasses
      BY <2>3 DEF LoseRequests, DropSockets, KeyStep, TimePasses, Match!Drop, Match!Pass, relayVars
    <2>4. QED
      BY <2>1, <2>2, <2>3 DEF SessionNext
  <1>4. QED
    BY <1>2, <1>3

\* One grant's time after the last hbbs that signs with a key has stopped, nobody is admitted
\* with that key any more, by any hbbr that still holds it (RELAY_GRANT_TTL_SECS, RELAY_SK).
THEOREM OldKeysRunOut == SessionSpec => OldKeyRunsOut
  <1> DEFINE RunsOut == \A c \in Sockets :
                          admits'[c] # admits[c] =>
                            LET k == admits'[c].key IN Signing(k) \/ time < signer[k] + TTL
  <1>1. SessionIInv /\ [SessionNext]_sessionVars => [RunsOut]_sessionVars
    <2> SUFFICES ASSUME SessionIInv, SessionNext, NEW c \in Sockets, admits'[c] # admits[c],
                        ~Signing(admits'[c].key)
                 PROVE  time < signer[admits'[c].key] + TTL
      OBVIOUS
    <2> DEFINE g == admits'[c]
    <2>1. g \in signed /\ time < g.exp
      BY AdmissionsAreVerified
    <2>2. g.exp <= signer[g.key] + TTL
      BY <2>1 DEF SessionIInv, GrantsAreFresh
    <2>3. time \in Nat /\ g.exp \in Nat /\ signer[g.key] \in Nat /\ TTL \in Nat
      BY <2>1, SessionAssumption DEF SessionIInv, SessionTypeOK, SignedGrant
    <2> HIDE DEF g
    <2>4. time < signer[g.key] + TTL
      BY <2>1, <2>2, <2>3
    <2>5. QED
      BY <2>4 DEF g
  <1>2. QED
    BY <1>1, SessionInitInv, SessionNextInv, PTL DEF SessionSpec, OldKeyRunsOut

-----------------------------------------------------------------------------
(* What the session keeps of the promises it is made of.                   *)

\* hbbs keeps its book although it stops and starts: the requests that go with pending_relay
\* have lapsed, and no grant is given twice or out of order because of it.
LEMMA SessionStepIsBooked == SessionIInv /\ [SessionNext]_sessionVars => [Book!BookNext]_(Book!bookVars)
  <1> SUFFICES ASSUME SessionIInv, [SessionNext]_sessionVars
               PROVE  Book!BookNext \/ UNCHANGED <<book, open, issued>>
    BY DEF Book!bookVars
  <1>0. /\ open \in [Viewers -> SUBSET Nat]
        /\ \A v \in Viewers : open[v] \subseteq 1..Len(book)
    BY DEF SessionIInv, SessionTypeOK, RequestsAreOpen
  <1>1. ASSUME NEW v \in Viewers, NEW t \in Desktops, AcceptRequest(v, t)
        PROVE  Book!BookNext
    BY <1>1 DEF AcceptRequest, Book!BookNext
  <1>2. ASSUME NEW v \in Viewers, NEW t \in Desktops, NEW r \in open[v], MintGrant(v, t, r)
        PROVE  Book!BookNext
    BY <1>2 DEF MintGrant, Book!BookNext
  <1>3. CASE LoseRequests
    BY <1>3 DEF LoseRequests, Book!BookNext
  <1>4. CASE KeyStep
    <2> DEFINE lapsed == {x \in Viewers \X (1..Len(book)) : Broker[x[1]] \in Stopped}
    <2>1. open' = [v \in Viewers |-> IF Broker[v] \in Stopped THEN {} ELSE open[v]]
          /\ UNCHANGED <<book, issued>>
      BY <1>4 DEF KeyStep
    <2>2. ASSUME NEW v \in Viewers, NEW r \in open[v]
          PROVE  <<v, r>> \in lapsed <=> Broker[v] \in Stopped
      BY <1>0, <2>2
    <2>3. lapsed \in SUBSET (Viewers \X (1..Len(book)))
      OBVIOUS
    <2> HIDE DEF lapsed
    <2>4. open' = [v \in Viewers |-> {r \in open[v] : <<v, r>> \notin lapsed}]
      <3>1. ASSUME NEW v \in Viewers
            PROVE  (IF Broker[v] \in Stopped THEN {} ELSE open[v])
                     = {r \in open[v] : <<v, r>> \notin lapsed}
        BY <2>2
      <3>2. QED
        BY <2>1, <3>1
    <2>5. Book!Lapse(lapsed)
      BY <2>1, <2>4 DEF Book!Lapse
    <2>6. QED
      BY <2>3, <2>5 DEF Book!BookNext
  <1>5. ASSUME NEW c \in Sockets, NEW g \in signed, Admit(c, g)
        PROVE  UNCHANGED <<book, open, issued>>
    BY <1>5 DEF Admit, brokerVars
  <1>6. ASSUME NEW c \in Sockets, NEW d \in Sockets, JoinSides(c, d)
        PROVE  UNCHANGED <<book, open, issued>>
    BY <1>6 DEF JoinSides, brokerVars
  <1>7. CASE DropSockets \/ TimePasses \/ UNCHANGED sessionVars
    BY <1>7 DEF DropSockets, TimePasses, sessionVars, brokerVars
  <1>8. QED
    BY <1>1, <1>2, <1>3, <1>4, <1>5, <1>6, <1>7 DEF SessionNext

\* hbbr keeps its promise although it stops and starts with another key: the connections it
\* had are dropped, and nobody is joined to one of them.
LEMMA SessionStepMatches ==
  SessionIInv /\ [SessionNext]_sessionVars => [Match!MatchNext]_(Match!matchVars)
  <1> SUFFICES ASSUME SessionIInv, [SessionNext]_sessionVars
               PROVE  Match!MatchNext \/ UNCHANGED <<time, admits, joined, closed>>
    BY DEF Match!matchVars
  <1>1. ASSUME NEW c \in Sockets, NEW g \in signed, Admit(c, g)
        PROVE  Match!MatchNext
    <2>1. g \in SignedGrant
      BY DEF SessionIInv, SessionTypeOK
    <2>2. Match!Admit(c, g)
      BY <1>1 DEF Admit
    <2>3. QED
      BY <2>1, <2>2 DEF Match!MatchNext
  <1>2. ASSUME NEW c \in Sockets, NEW d \in Sockets, JoinSides(c, d)
        PROVE  Match!MatchNext
    BY <1>2 DEF JoinSides, Match!MatchNext
  <1>3. CASE DropSockets
    BY <1>3 DEF DropSockets, Match!MatchNext
  <1>4. CASE TimePasses
    BY <1>4 DEF TimePasses, Match!MatchNext
  <1>5. CASE KeyStep
    <2> DEFINE S == {c \in Sockets : Relay[c] \in Stopped /\ admits[c] # NoGrant}
    <2>1. closed' = closed \cup S /\ UNCHANGED <<time, admits, joined>>
      BY <1>5 DEF KeyStep
    <2>2. S \in SUBSET Sockets
      OBVIOUS
    <2> HIDE DEF S
    <2>3. Match!Drop(S)
      BY <2>1 DEF Match!Drop
    <2>4. QED
      BY <2>2, <2>3 DEF Match!MatchNext
  <1>6. ASSUME NEW v \in Viewers, NEW t \in Desktops,
               AcceptRequest(v, t) \/ \E r \in open[v] : MintGrant(v, t, r)
        PROVE  UNCHANGED <<time, admits, joined, closed>>
    BY <1>6 DEF AcceptRequest, MintGrant, relayVars
  <1>7. CASE LoseRequests \/ UNCHANGED sessionVars
    BY <1>7 DEF LoseRequests, sessionVars, relayVars
  <1>8. QED
    BY <1>1, <1>2, <1>3, <1>4, <1>5, <1>6, <1>7 DEF SessionNext

\* What hbbs and hbbr promise one by one holds of them together, over any rotation of the key
\* and any stops and starts.
THEOREM SessionKeepsPromises == SessionSpec => Book!BookSpec /\ Match!MatchSpec /\ KeySpec
  <1>1. SessionInit => Book!BookInit /\ Match!MatchInit /\ KeyInit
    BY DEF SessionInit
  <1>2. [SessionNext]_sessionVars => [KeyNext]_keyVars
    <2> SUFFICES ASSUME [SessionNext]_sessionVars PROVE KeyNext \/ UNCHANGED keyVars
      OBVIOUS
    <2>1. ASSUME NEW v \in Viewers, NEW t \in Desktops,
                 AcceptRequest(v, t) \/ \E r \in open[v] : MintGrant(v, t, r)
          PROVE  UNCHANGED keyVars
      BY <2>1 DEF AcceptRequest, MintGrant
    <2>2. ASSUME NEW c \in Sockets,
                 (\E g \in signed : Admit(c, g)) \/ (\E d \in Sockets : JoinSides(c, d))
          PROVE  UNCHANGED keyVars
      BY <2>2 DEF Admit, JoinSides
    <2>3. CASE LoseRequests \/ DropSockets \/ TimePasses \/ UNCHANGED sessionVars
      BY <2>3 DEF LoseRequests, DropSockets, TimePasses, sessionVars
    <2>4. CASE KeyStep
      BY <2>4 DEF KeyStep
    <2>5. QED
      BY <2>1, <2>2, <2>3, <2>4 DEF SessionNext
  <1>3. QED
    BY <1>1, <1>2, SessionInitInv, SessionNextInv, SessionStepIsBooked, SessionStepMatches, PTL
       DEF SessionSpec, Book!BookSpec, Match!MatchSpec, KeySpec

-----------------------------------------------------------------------------
(* The configuration file.                                                 *)

\* What a save has under way is what CONFIG holds, and the file may hold it; the temporary
\* file has it whole before the rename.
SaveIsOfConfig ==
  /\ saving # "no" => config \in Configs /\ config \in kept
  /\ saving = "rename" => temporary = config

\* Once the configuration is in memory the damaged file has been moved aside, so that a save
\* replaces nothing that is still to be looked at.
MovedBeforeUse == Mangled \in damaged => config = Absent \/ Mangled \in aside

\* The inductive invariant.
ConfigIInv == ConfigInv /\ SaveIsOfConfig /\ MovedBeforeUse

LEMMA ConfigInitInv == ConfigInit => ConfigIInv
  BY ConfigFileAssumption
     DEF ConfigInit, ConfigIInv, ConfigInv, ConfigTypeOK, FileIsComplete, MangledIsKept, SaveIsOfConfig,
         MovedBeforeUse

LEMMA ConfigNextInv == ConfigIInv /\ [ConfigNext]_configFileVars => ConfigIInv'
  <1> SUFFICES ASSUME ConfigIInv, [ConfigNext]_configFileVars PROVE ConfigIInv'
    OBVIOUS
  <1> USE ConfigFileAssumption DEF ConfigIInv, ConfigInv
  <1>1. ASSUME NEW moves \in BOOLEAN, LoadConfig(moves) PROVE ConfigIInv'
    <2> USE <1>1 DEF LoadConfig
    <2>1. ConfigTypeOK'
      BY DEF ConfigTypeOK, Configs, Damage
    <2>2. FileIsComplete' /\ SaveIsOfConfig'
      BY DEF FileIsComplete, SaveIsOfConfig
    <2>3. MangledIsKept' /\ MovedBeforeUse'
      BY DEF MangledIsKept, MovedBeforeUse
    <2>4. QED
      BY <2>1, <2>2, <2>3
  <1>2. ASSUME NEW c \in Contents, Change(c) PROVE ConfigIInv'
    BY <1>2 DEF Change, ConfigTypeOK, Configs, FileIsComplete, MangledIsKept, SaveIsOfConfig, MovedBeforeUse
  <1>3. ASSUME NEW c \in Contents, FileRepaired(c) PROVE ConfigIInv'
    BY <1>3 DEF FileRepaired, ConfigTypeOK, Configs, FileIsComplete, MangledIsKept, SaveIsOfConfig, MovedBeforeUse
  <1>4. CASE CreateTemporary
    BY <1>4 DEF CreateTemporary, ConfigTypeOK, FileIsComplete, MangledIsKept, SaveIsOfConfig, MovedBeforeUse
  <1>5. CASE WriteTemporary
    BY <1>5 DEF WriteTemporary, ConfigTypeOK, FileIsComplete, MangledIsKept, SaveIsOfConfig, MovedBeforeUse
  <1>6. CASE RenameTemporary
    <2>1. temporary \in Configs /\ temporary = config
      BY <1>6 DEF RenameTemporary, SaveIsOfConfig
    <2>2. config # Absent
      BY <2>1 DEF Configs
    <2>3. QED
      BY <1>6, <2>1, <2>2
         DEF RenameTemporary, ConfigTypeOK, FileIsComplete, MangledIsKept, SaveIsOfConfig, MovedBeforeUse
  <1>7. CASE SaveFails
    BY <1>7 DEF SaveFails, ConfigTypeOK, FileIsComplete, MangledIsKept, SaveIsOfConfig, MovedBeforeUse
  <1>8. CASE ConfigCrash
    BY <1>8 DEF ConfigCrash, ConfigTypeOK, FileIsComplete, MangledIsKept, SaveIsOfConfig, MovedBeforeUse
  <1>9. ASSUME NEW d \in Damage, FileDamaged(d) PROVE ConfigIInv'
    <2>1. saving = "no" \/ config # Absent
      BY DEF SaveIsOfConfig, Configs
    <2>2. QED
      BY <1>9, <2>1
         DEF FileDamaged, ConfigTypeOK, FileIsComplete, MangledIsKept, SaveIsOfConfig, MovedBeforeUse
  <1>10. CASE UNCHANGED configFileVars
    BY <1>10 DEF configFileVars, ConfigTypeOK, FileIsComplete, MangledIsKept, SaveIsOfConfig, MovedBeforeUse
  <1>11. QED
    BY <1>1, <1>2, <1>3, <1>4, <1>5, <1>6, <1>7, <1>8, <1>9, <1>10 DEF ConfigNext

\* The file is never half written, whatever fails and wherever hbbs dies, and text that is no
\* configuration outlives the saves that follow (atomic_write, load_config).
THEOREM ConfigInvariant == ConfigSpec => []ConfigInv
  <1>1. ConfigIInv => ConfigInv
    BY DEF ConfigIInv
  <1>2. QED
    BY <1>1, ConfigInitInv, ConfigNextInv, PTL DEF ConfigSpec

-----------------------------------------------------------------------------
(* The list of relay servers.                                              *)

\* No check has sent an empty list.
CheckedIsNotEmpty == \A i \in 1..Len(inbox) : inbox[i].kind = "checked" => inbox[i].list # {}

\* The inductive invariant.
RelayServersIInv == RelayServersInv /\ CheckedIsNotEmpty

LEMMA RelayServersInitInv == RelayServersInit => RelayServersIInv
  BY DEF RelayServersInit, RelayServersIInv, RelayServersInv, RelayServersTypeOK, SomeServerIsOffered,
         CheckedIsNotEmpty, NoCheck

\* A list that may be sent joins the others.
LEMMA SendKeeps ==
  ASSUME inbox \in Seq(Lists), CheckedIsNotEmpty, NEW m \in Lists, m.kind = "checked" => m.list # {},
         inbox' = Append(inbox, m)
  PROVE  inbox' \in Seq(Lists) /\ CheckedIsNotEmpty'
  <1>1. inbox' \in Seq(Lists) /\ Len(inbox') = Len(inbox) + 1
    OBVIOUS
  <1>2. \A i \in 1..Len(inbox') : inbox'[i] = IF i <= Len(inbox) THEN inbox[i] ELSE m
    OBVIOUS
  <1>3. QED
    BY <1>1, <1>2 DEF CheckedIsNotEmpty

LEMMA RelayServersNextInv == RelayServersIInv /\ [RelayServersNext]_relayServerVars => RelayServersIInv'
  <1> SUFFICES ASSUME RelayServersIInv, [RelayServersNext]_relayServerVars PROVE RelayServersIInv'
    OBVIOUS
  <1> USE RelayServerAssumption DEF RelayServersIInv, RelayServersInv
  <1>1. ASSUME NEW k \in Checks, CheckStarts(k) PROVE RelayServersIInv'
    BY <1>1 DEF CheckStarts, RelayServersTypeOK, SomeServerIsOffered, CheckedIsNotEmpty
  <1>2. ASSUME NEW k \in Checks, CheckEnds(k) PROVE RelayServersIInv'
    <2> DEFINE m == [kind |-> "checked", list |-> check[k].found]
    <2>1. check[k].found \subseteq Servers /\ check' \in [Checks -> [on : BOOLEAN, left : SUBSET Servers,
                                                                      found : SUBSET Servers]]
      BY <1>2 DEF CheckEnds, RelayServersTypeOK, NoCheck
    <2>2. UNCHANGED <<configured, offered, up>>
      BY <1>2 DEF CheckEnds
    <2>3. inbox' \in Seq(Lists) /\ CheckedIsNotEmpty'
      <3>1. CASE check[k].found = {}
        BY <1>2, <3>1 DEF CheckEnds, RelayServersTypeOK, CheckedIsNotEmpty
      <3>2. CASE check[k].found # {}
        <4>1. m \in Lists /\ m.list # {}
          BY <2>1, <3>2 DEF Lists
        <4>2. inbox' = Append(inbox, m)
          BY <1>2, <3>2 DEF CheckEnds
        <4> HIDE DEF m
        <4>3. QED
          BY <4>1, <4>2, SendKeeps DEF RelayServersTypeOK
      <3>3. QED
        BY <3>1, <3>2
    <2>4. QED
      BY <2>1, <2>2, <2>3 DEF RelayServersTypeOK, SomeServerIsOffered
  <1>3. ASSUME NEW k \in Checks, NEW s \in Servers, Probe(k, s) PROVE RelayServersIInv'
    BY <1>3 DEF Probe, RelayServersTypeOK, SomeServerIsOffered, CheckedIsNotEmpty
  <1>4. ASSUME NEW list \in SUBSET Servers, Command(list) PROVE RelayServersIInv'
    <2> DEFINE m == [kind |-> "set", list |-> list]
    <2>1. m \in Lists /\ m.kind # "checked" /\ inbox' = Append(inbox, m)
      BY <1>4 DEF Command, Lists
    <2> HIDE DEF m
    <2>2. inbox' \in Seq(Lists) /\ CheckedIsNotEmpty'
      BY <2>1, SendKeeps DEF RelayServersTypeOK
    <2>3. QED
      BY <1>4, <2>2 DEF Command, RelayServersTypeOK, SomeServerIsOffered
  <1>5. CASE ListArrives
    <2>1. inbox \in Seq(Lists) /\ inbox # <<>>
      BY <1>5 DEF ListArrives, RelayServersTypeOK
    <2>2. /\ Head(inbox) = inbox[1] /\ Head(inbox) \in Lists /\ 1 \in 1..Len(inbox)
          /\ Tail(inbox) \in Seq(Lists) /\ Len(Tail(inbox)) = Len(inbox) - 1
          /\ \A i \in 1..Len(Tail(inbox)) : Tail(inbox)[i] = inbox[i + 1]
      BY <2>1, HeadTailProperties
    <2>3. CheckedIsNotEmpty' /\ inbox' \in Seq(Lists)
      BY <1>5, <2>1, <2>2 DEF ListArrives, CheckedIsNotEmpty
    <2>4. Head(inbox).kind \in {"set", "checked"} /\ Head(inbox).list \subseteq Servers
      BY <2>2 DEF Lists
    <2>5. SomeServerIsOffered'
      BY <1>5, <2>2, <2>4 DEF ListArrives, SomeServerIsOffered, CheckedIsNotEmpty
    <2>6. RelayServersTypeOK'
      BY <1>5, <2>3, <2>4 DEF ListArrives, RelayServersTypeOK
    <2>7. QED
      BY <2>3, <2>5, <2>6
  <1>6. ASSUME NEW s \in Servers, ServerChanges(s) PROVE RelayServersIInv'
    BY <1>6 DEF ServerChanges, RelayServersTypeOK, SomeServerIsOffered, CheckedIsNotEmpty
  <1>7. CASE UNCHANGED relayServerVars
    BY <1>7 DEF relayServerVars, RelayServersTypeOK, SomeServerIsOffered, CheckedIsNotEmpty
  <1>8. QED
    BY <1>1, <1>2, <1>3, <1>4, <1>5, <1>6, <1>7 DEF RelayServersNext, TickForNothing

\* For any servers and however checks and commands overlap, connections are offered a server
\* while one is configured (check_relay_servers).
THEOREM RelayServersInvariant == RelayServersSpec => []RelayServersInv
  <1>1. RelayServersIInv => RelayServersInv
    BY DEF RelayServersIInv
  <1>2. QED
    BY <1>1, RelayServersInitInv, RelayServersNextInv, PTL DEF RelayServersSpec

-----------------------------------------------------------------------------
(* Bytes relayed; first, the sums that they are counted with.              *)

\* The element that SumFunctionOnSet takes out of a set, and what it does with it.
Taken(s) == CHOOSE x \in s : TRUE
OneMore(f, g, s) == IF s = {} THEN 0 ELSE f[Taken(s)] + g[s \ {Taken(s)}]
Sums(f, S, g) == g = [s \in SUBSET S |-> OneMore(f, g, s)]

\* Among subsets of a finite set there is one without a smaller one.
LEMMA SomeSmallest ==
  ASSUME NEW S, IsFiniteSet(S), NEW Q \in SUBSET SUBSET S, Q # {}
  PROVE  \E b \in Q : \A c \in Q : ~(c \subseteq b /\ c # b)
  <1>1. Q \subseteq FiniteSubsetsOf(S)
    BY FS_Subset DEF FiniteSubsetsOf
  <1>2. PICK b \in Q : \A c \in Q : ~(<<c, b>> \in StrictSubsetOrdering(S))
    BY <1>1, WFMin, FS_StrictSubsetOrderingWellFounded
  <1>3. QED
    BY <1>2 DEF StrictSubsetOrdering

LEMMA TakenIsIn == ASSUME NEW s, s # {} PROVE Taken(s) \in s
  BY DEF Taken

\* The recursion of SumFunctionOnSet has a solution on the subsets of a finite set.
LEMMA SumsExist ==
  ASSUME NEW S, IsFiniteSet(S), NEW f
  PROVE  \E g : Sums(f, S, g)
  <1> DEFINE Below(T) == \A s \in T : s # {} => s \ {Taken(s)} \in T
             Solves(g, T) == g = [s \in T |-> OneMore(f, g, s)]
             solved == {T \in SUBSET SUBSET S : Below(T) /\ \E g : Solves(g, T)}
             rests == {(SUBSET S) \ T : T \in solved}
  <1>1. {} \in solved
    <2>1. Solves([s \in {} |-> 0], {})
      OBVIOUS
    <2>2. QED
      BY <2>1
  <1>2. IsFiniteSet(SUBSET S)
    BY FS_SUBSET
  <1>3. rests \in SUBSET SUBSET SUBSET S /\ rests # {}
    <2>1. (SUBSET S) \ {} \in rests
      BY <1>1
    <2>2. \A T : (SUBSET S) \ T \in SUBSET SUBSET S
      OBVIOUS
    <2> HIDE DEF solved
    <2>3. \A r \in rests : r \in SUBSET SUBSET S
      BY <2>2
    <2> HIDE DEF rests
    <2>4. QED
      BY <2>1, <2>3
  <1>4. PICK r \in rests : \A c \in rests : ~(c \subseteq r /\ c # r)
    <2> HIDE DEF rests
    <2>1. QED
      BY <1>2, <1>3, SomeSmallest
  <1>5. PICK T \in solved : r = (SUBSET S) \ T
    OBVIOUS
  <1>6. ASSUME r # {} PROVE FALSE
    <2>1. PICK b \in r : \A c \in r : ~(c \subseteq b /\ c # b)
      BY <1>5, <1>6, SomeSmallest
    <2>2. PICK g : Solves(g, T)
      BY <1>5
    <2> DEFINE more == T \cup {b}
               h == [s \in more |-> IF s = b THEN OneMore(f, g, s) ELSE g[s]]
    <2>3. b \in SUBSET S /\ b \notin T /\ T \in SUBSET SUBSET S /\ Below(T)
      BY <1>5
    <2>4. b # {} => b \ {Taken(b)} \in T
      <3> SUFFICES ASSUME b # {} PROVE b \ {Taken(b)} \in T
        OBVIOUS
      <3>1. Taken(b) \in b
        BY TakenIsIn
      <3>2. b \ {Taken(b)} \subseteq b /\ b \ {Taken(b)} # b /\ b \ {Taken(b)} \in SUBSET S
        BY <2>3, <3>1
      <3>3. b \ {Taken(b)} \notin r
        BY <2>1, <3>2
      <3>4. QED
        BY <1>5, <3>2, <3>3
    <2>5. more \in SUBSET SUBSET S /\ Below(more)
      BY <2>3, <2>4
    <2>6. ASSUME NEW s \in more PROVE h[s] = OneMore(f, h, s)
      <3>1. CASE s = b
        <4>1. h[s] = OneMore(f, g, s)
          BY <3>1
        <4>2. s # {} => h[s \ {Taken(s)}] = g[s \ {Taken(s)}]
          BY <2>3, <2>4, <3>1
        <4>3. QED
          BY <4>1, <4>2 DEF OneMore
      <3>2. CASE s # b
        <4>1. s \in T /\ h[s] = g[s] /\ g[s] = OneMore(f, g, s)
          BY <2>2, <3>2
        <4>2. s # {} => s \ {Taken(s)} \in T /\ h[s \ {Taken(s)}] = g[s \ {Taken(s)}]
          BY <2>3, <4>1
        <4>3. QED
          BY <4>1, <4>2 DEF OneMore
      <3>3. QED
        BY <3>1, <3>2
    <2>7. Solves(h, more)
      BY <2>6
    <2>8. more \in solved
      BY <2>5, <2>7
    <2>9. (SUBSET S) \ more \in rests
      BY <2>8
    <2>10. (SUBSET S) \ more \subseteq r /\ (SUBSET S) \ more # r
      BY <1>5, <2>1, <2>3
    <2>11. QED
      BY <1>4, <2>9, <2>10
  <1>7. T = SUBSET S
    BY <1>5, <1>6
  <1>8. QED
    BY <1>5, <1>7 DEF Sums

\* The recursion of SumFunctionOnSet for a finite set.
LEMMA SumIsSolved ==
  ASSUME NEW S, IsFiniteSet(S), NEW f
  PROVE  \E g : Sums(f, S, g) /\ SumFunctionOnSet(f, S) = g[S]
  <1> DEFINE g == CHOOSE g : Sums(f, S, g)
  <1>1. Sums(f, S, g)
    BY SumsExist
  <1>2. SumFunctionOnSet(f, S) = g[S]
    BY DEF SumFunctionOnSet, FoldFunctionOnSet, MapThenFoldSet, Sums, OneMore, Taken
  <1>3. QED
    BY <1>1, <1>2

\* The sums over the subsets of a set are natural numbers, do not depend on the set, and do
\* not depend on the order.
LEMMA SumsFacts ==
  ASSUME NEW S, IsFiniteSet(S), NEW f, \A x \in S : f[x] \in Nat, NEW g, Sums(f, S, g)
  PROVE  /\ \A s \in SUBSET S : g[s] \in Nat
         /\ g[{}] = 0
         /\ \A s \in SUBSET S : \A x \in s : g[s] = f[x] + g[s \ {x}]
  <1>1. \A s \in SUBSET S : g[s] = OneMore(f, g, s)
    BY DEF Sums
  <1>2. g[{}] = 0
    BY <1>1 DEF OneMore
  <1>3. \A s \in SUBSET S : g[s] \in Nat
    <2> DEFINE Q == {s \in SUBSET S : g[s] \notin Nat}
    <2>1. ASSUME Q # {} PROVE FALSE
      <3>1. PICK b \in Q : \A c \in Q : ~(c \subseteq b /\ c # b)
        <4>1. Q \in SUBSET SUBSET S
          OBVIOUS
        <4> HIDE DEF Q
        <4>2. QED
          BY <2>1, <4>1, SomeSmallest
      <3>2. b # {} /\ Taken(b) \in b /\ b \in SUBSET S /\ g[b] \notin Nat
        BY <1>2, TakenIsIn
      <3>3. b \ {Taken(b)} \in SUBSET S /\ b \ {Taken(b)} \subseteq b /\ b \ {Taken(b)} # b
        BY <3>2
      <3>4. g[b \ {Taken(b)}] \in Nat
        BY <3>1, <3>3
      <3>5. f[Taken(b)] \in Nat
        BY <3>2
      <3>6. g[b] = f[Taken(b)] + g[b \ {Taken(b)}]
        BY <1>1, <3>2 DEF OneMore
      <3>7. QED
        BY <3>2, <3>4, <3>5, <3>6
    <2>2. QED
      BY <2>1
  <1>4. \A s \in SUBSET S : \A x \in s : g[s] = f[x] + g[s \ {x}]
    <2> DEFINE Q == {s \in SUBSET S : \E x \in s : g[s] # f[x] + g[s \ {x}]}
    <2>1. ASSUME Q # {} PROVE FALSE
      <3>1. PICK b \in Q : \A c \in Q : ~(c \subseteq b /\ c # b)
        <4>1. Q \in SUBSET SUBSET S
          OBVIOUS
        <4> HIDE DEF Q
        <4>2. QED
          BY <2>1, <4>1, SomeSmallest
      <3>2. PICK x \in b : g[b] # f[x] + g[b \ {x}]
        OBVIOUS
      <3> DEFINE y == Taken(b)
                 rest == b \ {x, y}
      <3>3. b # {} /\ b \in SUBSET S /\ y \in b
        BY TakenIsIn
      <3>4. g[b] = f[y] + g[b \ {y}]
        BY <1>1, <3>3 DEF OneMore
      <3> HIDE DEF y
      <3>5. x # y
        BY <3>2, <3>4
      <3>6. /\ b \ {x} \in SUBSET S /\ b \ {x} \subseteq b /\ b \ {x} # b
            /\ b \ {y} \in SUBSET S /\ b \ {y} \subseteq b /\ b \ {y} # b
        BY <3>2, <3>3
      <3>7. b \ {x} \notin Q /\ b \ {y} \notin Q
        BY <3>1, <3>6
      <3>8. g[b \ {x}] = f[y] + g[(b \ {x}) \ {y}] /\ g[b \ {y}] = f[x] + g[(b \ {y}) \ {x}]
        BY <3>2, <3>3, <3>5, <3>6, <3>7
      <3>9. (b \ {x}) \ {y} = rest /\ (b \ {y}) \ {x} = rest /\ rest \in SUBSET S
        BY <3>3
      <3> HIDE DEF rest
      <3>10. g[rest] \in Nat /\ f[x] \in Nat /\ f[y] \in Nat
        BY <1>3, <3>2, <3>3, <3>9
      <3>11. g[b \ {x}] = f[y] + g[rest] /\ g[b \ {y}] = f[x] + g[rest]
        BY <3>8, <3>9
      <3>12. QED
        BY <3>2, <3>4, <3>10, <3>11
    <2>2. QED
      BY <2>1
  <1>5. QED
    BY <1>2, <1>3, <1>4

\* Sums are the same whatever set they are chosen for.
LEMMA SumsAgree ==
  ASSUME NEW S, IsFiniteSet(S), NEW T \in SUBSET S, NEW f, NEW g, Sums(f, S, g), NEW h, Sums(f, T, h)
  PROVE  \A s \in SUBSET T : g[s] = h[s]
  <1> DEFINE Q == {s \in SUBSET T : g[s] # h[s]}
  <1>1. ASSUME Q # {} PROVE FALSE
    <2>1. IsFiniteSet(T)
      BY FS_Subset
    <2>2. PICK b \in Q : \A c \in Q : ~(c \subseteq b /\ c # b)
      <3>1. Q \in SUBSET SUBSET T
        OBVIOUS
      <3> HIDE DEF Q
      <3>2. QED
        BY <1>1, <2>1, <3>1, SomeSmallest
    <2>3. b \in SUBSET T /\ b \in SUBSET S
      OBVIOUS
    <2>4. g[b] = OneMore(f, g, b) /\ h[b] = OneMore(f, h, b)
      BY <2>3 DEF Sums
    <2>5. b # {}
      BY <2>4 DEF OneMore
    <2>6. Taken(b) \in b
      BY <2>5, TakenIsIn
    <2>7. b \ {Taken(b)} \in SUBSET T /\ b \ {Taken(b)} \subseteq b /\ b \ {Taken(b)} # b
      BY <2>3, <2>6
    <2>8. g[b \ {Taken(b)}] = h[b \ {Taken(b)}]
      BY <2>2, <2>7
    <2>9. QED
      BY <2>4, <2>5, <2>8 DEF OneMore
  <1>2. QED
    BY <1>1

\* What SumFunctionOnSet computes, for every finite set of natural numbers: nothing for no
\* element, and one more element adds its number.
LEMMA SumOf ==
  ASSUME NEW S, IsFiniteSet(S), NEW f, \A x \in S : f[x] \in Nat
  PROVE  /\ SumFunctionOnSet(f, {}) = 0
         /\ \A T \in SUBSET S : SumFunctionOnSet(f, T) \in Nat
         /\ \A T \in SUBSET S : \A x \in T :
              SumFunctionOnSet(f, T) = f[x] + SumFunctionOnSet(f, T \ {x})
  <1>1. PICK g : Sums(f, S, g)
    BY SumsExist
  <1>2. ASSUME NEW T \in SUBSET S PROVE SumFunctionOnSet(f, T) = g[T]
    <2>1. IsFiniteSet(T)
      BY FS_Subset
    <2>2. PICK h : Sums(f, T, h) /\ SumFunctionOnSet(f, T) = h[T]
      BY <2>1, SumIsSolved
    <2>3. QED
      BY <1>1, <2>2, SumsAgree
  <1>3. \A T \in SUBSET S : \A x \in T : T \ {x} \in SUBSET S
    OBVIOUS
  <1>4. \A x \in S : f[x] \in Nat
    OBVIOUS
  <1>5. /\ \A T \in SUBSET S : g[T] \in Nat
        /\ g[{}] = 0
        /\ \A T \in SUBSET S : \A x \in T : g[T] = f[x] + g[T \ {x}]
    <2>1. ASSUME NEW k, Sums(f, S, k)
          PROVE  /\ \A T \in SUBSET S : k[T] \in Nat
                 /\ k[{}] = 0
                 /\ \A T \in SUBSET S : \A x \in T : k[T] = f[x] + k[T \ {x}]
      BY <1>4, <2>1, SumsFacts
    <2>2. QED
      BY <1>1, <2>1
  <1>6. QED
    BY <1>2, <1>3, <1>5

\* If what f adds to g makes at most h, element by element, then so do the sums, even when
\* f is summed over some of the elements only.
LEMMA SumsAdd ==
  ASSUME NEW S, IsFiniteSet(S), NEW C \in SUBSET S, NEW f, NEW g, NEW h,
         \A x \in C : f[x] \in Nat, \A x \in S : g[x] \in Nat /\ h[x] \in Nat,
         \A x \in S : g[x] <= h[x] /\ (x \in C => f[x] + g[x] <= h[x])
  PROVE  SumFunctionOnSet(f, C) + SumFunctionOnSet(g, S) <= SumFunctionOnSet(h, S)
  <1> DEFINE F(T) == SumFunctionOnSet(f, T)
             G(T) == SumFunctionOnSet(g, T)
             H(T) == SumFunctionOnSet(h, T)
             Q == {T \in SUBSET S : ~(F(C \cap T) + G(T) <= H(T))}
  <1>1. /\ F({}) = 0 /\ G({}) = 0 /\ H({}) = 0
        /\ \A T \in SUBSET C : F(T) \in Nat
        /\ \A T \in SUBSET C : \A x \in T : F(T) = f[x] + F(T \ {x})
        /\ \A T \in SUBSET S : G(T) \in Nat /\ H(T) \in Nat
        /\ \A T \in SUBSET S : \A x \in T : G(T) = g[x] + G(T \ {x}) /\ H(T) = h[x] + H(T \ {x})
    <2>1. IsFiniteSet(C)
      BY FS_Subset
    <2>2. /\ F({}) = 0
          /\ \A T \in SUBSET C : F(T) \in Nat
          /\ \A T \in SUBSET C : \A x \in T : F(T) = f[x] + F(T \ {x})
      BY <2>1, SumOf
    <2>3. /\ G({}) = 0
          /\ \A T \in SUBSET S : G(T) \in Nat
          /\ \A T \in SUBSET S : \A x \in T : G(T) = g[x] + G(T \ {x})
      BY SumOf
    <2>4. /\ H({}) = 0
          /\ \A T \in SUBSET S : H(T) \in Nat
          /\ \A T \in SUBSET S : \A x \in T : H(T) = h[x] + H(T \ {x})
      BY SumOf
    <2> HIDE DEF F, G, H
    <2>5. QED
      BY <2>2, <2>3, <2>4
  <1> HIDE DEF F, G, H
  <1>2. ASSUME Q # {} PROVE FALSE
    <2>1. PICK b \in Q : \A c \in Q : ~(c \subseteq b /\ c # b)
      <3>1. Q \in SUBSET SUBSET S
        OBVIOUS
      <3> HIDE DEF Q
      <3>2. QED
        BY <1>2, <3>1, SomeSmallest
    <2>2. b # {}
      <3>1. C \cap {} = {} /\ F({}) + G({}) <= H({})
        BY <1>1
      <3>2. QED
        BY <3>1
    <2>3. PICK x \in b : TRUE
      BY <2>2
    <2> DEFINE rest == b \ {x}
    <2>4. rest \in SUBSET S /\ rest \subseteq b /\ rest # b /\ C \cap rest \in SUBSET C /\ C \cap b \in SUBSET C
          /\ b \in SUBSET S /\ x \in S
      OBVIOUS
    <2>5. F(C \cap rest) + G(rest) <= H(rest)
      BY <2>1, <2>4
    <2>6. G(b) = g[x] + G(rest) /\ H(b) = h[x] + H(rest)
      BY <1>1
    <2>7. /\ x \in C => F(C \cap b) = f[x] + F(C \cap rest)
          /\ x \notin C => F(C \cap b) = F(C \cap rest)
      <3>1. CASE x \in C
        <4>1. x \in C \cap b /\ (C \cap b) \ {x} = C \cap rest
          BY <3>1
        <4>2. F(C \cap b) = f[x] + F((C \cap b) \ {x})
          BY <1>1, <2>4, <4>1
        <4>3. QED
          BY <3>1, <4>1, <4>2
      <3>2. CASE x \notin C
        <4>1. C \cap b = C \cap rest
          BY <3>2
        <4>2. QED
          BY <3>2, <4>1
      <3>3. QED
        BY <3>1, <3>2
    <2>8. /\ x \in C => f[x] \in Nat
          /\ g[x] \in Nat /\ h[x] \in Nat
          /\ F(C \cap rest) \in Nat /\ G(rest) \in Nat /\ H(rest) \in Nat
      BY <1>1, <2>4
    <2>9. ~(F(C \cap b) + G(b) <= H(b))
      OBVIOUS
    <2> HIDE DEF rest
    <2>10. QED
      BY <2>4, <2>5, <2>6, <2>7, <2>8, <2>9
  <1>3. F(C \cap S) + G(S) <= H(S)
    BY <1>2
  <1>4. C \cap S = C
    OBVIOUS
  <1>5. QED
    BY <1>3, <1>4 DEF F, G, H

LEMMA SumsGrow ==
  ASSUME NEW S, IsFiniteSet(S), NEW C \in SUBSET S, NEW f, NEW h,
         \A x \in C : f[x] \in Nat /\ f[x] <= h[x], \A x \in S : h[x] \in Nat
  PROVE  /\ SumFunctionOnSet(f, C) \in Nat /\ SumFunctionOnSet(h, S) \in Nat
         /\ SumFunctionOnSet(f, C) <= SumFunctionOnSet(h, S)
  <1> DEFINE g == [x \in S |-> 0]
  <1>1. IsFiniteSet(C)
    BY FS_Subset
  <1>2. SumFunctionOnSet(f, C) \in Nat /\ SumFunctionOnSet(g, S) \in Nat /\ SumFunctionOnSet(h, S) \in Nat
    BY <1>1, SumOf
  <1>3. \A x \in S : g[x] \in Nat /\ g[x] <= h[x] /\ (x \in C => f[x] + g[x] <= h[x])
    OBVIOUS
  <1> HIDE DEF g
  <1>4. SumFunctionOnSet(f, C) + SumFunctionOnSet(g, S) <= SumFunctionOnSet(h, S)
    BY <1>3, SumsAdd
  <1>5. QED
    BY <1>2, <1>4

Row == [session : Sessions, bytes : 0..MaxBytes, live : BOOLEAN]

\* A row is of a session that was granted, and no session has two.
RowsOfSessions ==
  /\ \A i, j \in DOMAIN usageRows : usageRows[i].session = usageRows[j].session => i = j
  /\ \A i \in DOMAIN usageRows :
       ends[usageRows[i].session] # NoEnds /\ usageRows[i].bytes <= carried[usageRows[i].session]

\* A sample is not ahead of hbbr, nor behind what the rows hold already.
SampleIsRecent ==
  /\ IsFiniteSet(fetch.labels) /\ IsFiniteSet(DOMAIN sample)
  /\ \A s \in DOMAIN sample :
       /\ sample[s] \in Nat /\ sample[s] <= carried[s]
       /\ \A i \in DOMAIN usageRows : usageRows[i].session = s => usageRows[i].bytes <= sample[s]

\* So far, finitely many sessions were granted, and finitely many are up.
FinitelyMany ==
  /\ IsFiniteSet({s \in Sessions : ends[s] # NoEnds})
  /\ IsFiniteSet({s \in Sessions : relay[s] = "up"})

\* What can have been charged for a session: what its row holds and, when the row is gone,
\* all that it carried.
Settled == [s \in Sessions |-> IF Known(s) THEN BytesSoFar(s) ELSE carried[s]]
SettledAs(e, m) == SumFunctionOnSet(Settled, SessionsAs(e, m))
ChargedIsSettled ==
  \A m \in Machines : charged[m] <= SettledAs("source", m) + SettledAs("target", m)

\* The inductive invariant.
UsageIInv ==
  /\ RelayUsageTypeOK /\ RowsOfSessions /\ SampleIsRecent /\ FinitelyMany
  /\ ChargedIsSettled /\ ChargedIsCounted

\* What Settled is, row by row.
SettledByRow ==
  /\ \A i \in DOMAIN usageRows :
       /\ RowOf(usageRows[i].session) = {i}
       /\ BytesSoFar(usageRows[i].session) = usageRows[i].bytes
       /\ Settled[usageRows[i].session] = usageRows[i].bytes
  /\ \A s \in Sessions : ~Known(s) => Settled[s] = carried[s]
  /\ \A s \in Sessions : Settled[s] \in Nat /\ Settled[s] <= carried[s]

LEMMA RowsAreRows ==
  ASSUME RelayUsageTypeOK
  PROVE  /\ usageRows \in Seq(Row)
         /\ Len(usageRows) \in Nat /\ DOMAIN usageRows = 1..Len(usageRows)
         /\ \A i \in DOMAIN usageRows : usageRows[i] \in Row
  <1>1. usageRows \in Seq(Row)
    BY DEF RelayUsageTypeOK, Row
  <1>2. QED
    BY <1>1, ElementOfSeq, LenProperties

LEMMA SettledFacts == RelayUsageTypeOK /\ RowsOfSessions => SettledByRow
  <1> SUFFICES ASSUME RelayUsageTypeOK, RowsOfSessions PROVE SettledByRow
    OBVIOUS
  <1>1. \A i \in DOMAIN usageRows : usageRows[i] \in Row
    BY RowsAreRows
  <1>2. ASSUME NEW i \in DOMAIN usageRows
        PROVE  /\ RowOf(usageRows[i].session) = {i}
               /\ BytesSoFar(usageRows[i].session) = usageRows[i].bytes
               /\ Settled[usageRows[i].session] = usageRows[i].bytes
    <2>1. usageRows[i].session \in Sessions
      BY <1>1 DEF Row
    <2>2. RowOf(usageRows[i].session) = {i}
      BY DEF RowOf, RowsOfSessions
    <2>3. (CHOOSE j \in {i} : TRUE) = i
      OBVIOUS
    <2>4. BytesSoFar(usageRows[i].session) = usageRows[i].bytes
      BY <2>2, <2>3 DEF BytesSoFar
    <2>5. Known(usageRows[i].session)
      BY <2>2 DEF Known
    <2>6. QED
      BY <2>1, <2>2, <2>4, <2>5 DEF Settled
  <1>3. \A s \in Sessions : ~Known(s) => Settled[s] = carried[s]
    BY DEF Settled
  <1>4. ASSUME NEW s \in Sessions PROVE Settled[s] \in Nat /\ Settled[s] <= carried[s]
    <2>1. carried[s] \in 0..MaxBytes /\ MaxBytes \in Nat
      BY RelayUsageAssumption DEF RelayUsageTypeOK
    <2>2. CASE ~Known(s)
      BY <1>3, <2>1, <2>2
    <2>3. CASE Known(s)
      <3>1. PICK i \in DOMAIN usageRows : usageRows[i].session = s
        BY <2>3 DEF Known, RowOf
      <3>2. Settled[s] = usageRows[i].bytes
        BY <1>2, <3>1
      <3>3. usageRows[i].bytes \in 0..MaxBytes /\ usageRows[i].bytes <= carried[s]
        BY <1>1, <3>1 DEF Row, RowsOfSessions
      <3>4. QED
        BY <2>1, <3>2, <3>3
    <2>4. QED
      BY <2>2, <2>3
  <1>5. QED
    BY <1>2, <1>3, <1>4 DEF SettledByRow

\* The sessions a machine is an end of are finitely many, and were granted.
FewSessions ==
  \A m \in Machines, e \in Ends :
    /\ IsFiniteSet(SessionsAs(e, m)) /\ SessionsAs(e, m) \subseteq Sessions
    /\ \A s \in SessionsAs(e, m) : ends[s] # NoEnds

LEMMA SessionsAreFew == FinitelyMany => FewSessions
  <1> SUFFICES ASSUME FinitelyMany, NEW m \in Machines, NEW e \in Ends
               PROVE  /\ IsFiniteSet(SessionsAs(e, m)) /\ SessionsAs(e, m) \subseteq Sessions
                      /\ \A s \in SessionsAs(e, m) : ends[s] # NoEnds
    BY DEF FewSessions
  <1>1. ASSUME NEW s \in SessionsAs(e, m) PROVE s \in Sessions /\ ends[s] # NoEnds
    <2>1. s \in Sessions /\ ends[s][e] = m
      BY DEF SessionsAs
    <2>2. NoEnds[e] # m
      BY RelayUsageAssumption DEF NoEnds
    <2>3. QED
      BY <2>1, <2>2
  <1>2. SessionsAs(e, m) \subseteq {s \in Sessions : ends[s] # NoEnds}
    BY <1>1
  <1>3. IsFiniteSet(SessionsAs(e, m))
    BY <1>2, FS_Subset DEF FinitelyMany
  <1>4. QED
    BY <1>1, <1>3

\* No machine is charged more than its sessions carried: the sums are compared one session
\* at a time (apply_relay_usage).
LEMMA UsageImplied == UsageIInv => UsageInv
  <1> SUFFICES ASSUME UsageIInv PROVE ChargedIsCarried
    BY DEF UsageIInv, UsageInv
  <1>1. SettledByRow /\ \A s \in Sessions : carried[s] \in Nat
    BY SettledFacts, RelayUsageAssumption DEF UsageIInv, RelayUsageTypeOK
  <1>2. ASSUME NEW m \in Machines, NEW e \in Ends
        PROVE  /\ SettledAs(e, m) \in Nat /\ Carried(SessionsAs(e, m)) \in Nat
               /\ SettledAs(e, m) <= Carried(SessionsAs(e, m))
    <2>1. IsFiniteSet(SessionsAs(e, m)) /\ SessionsAs(e, m) \subseteq Sessions
      BY SessionsAreFew DEF UsageIInv, FewSessions
    <2>2. \A s \in SessionsAs(e, m) :
            Settled[s] \in Nat /\ Settled[s] <= carried[s] /\ carried[s] \in Nat
      BY <1>1, <2>1 DEF SettledByRow
    <2>3. QED
      BY <2>1, <2>2, SumsGrow DEF SettledAs, Carried
  <1>3. ASSUME NEW m \in Machines
        PROVE  charged[m] <= Carried(SessionsAs("source", m)) + Carried(SessionsAs("target", m))
    <2>1. "source" \in Ends /\ "target" \in Ends
      BY DEF Ends
    <2>2. charged[m] \in Nat /\ charged[m] <= SettledAs("source", m) + SettledAs("target", m)
      BY DEF UsageIInv, RelayUsageTypeOK, ChargedIsSettled
    <2>3. QED
      BY <1>2, <2>1, <2>2
  <1>4. QED
    BY <1>3 DEF ChargedIsCarried

\* Charges stay settled when what is settled of each session granted before does not shrink.
LEMMA StaysSettled ==
  ASSUME ChargedIsSettled, FinitelyMany, FinitelyMany', NEW m \in Machines,
         charged[m] \in Nat, charged'[m] \in Nat, charged'[m] <= charged[m],
         \A e \in Ends : SessionsAs(e, m) \subseteq SessionsAs(e, m)',
         \A s \in Sessions : Settled'[s] \in Nat,
         \A s \in Sessions : ends[s] # NoEnds => Settled[s] \in Nat /\ Settled[s] <= Settled'[s]
  PROVE  charged'[m] <= SettledAs("source", m)' + SettledAs("target", m)'
  <1>0. \A q \in Machines, e \in Ends :
          IsFiniteSet(SessionsAs(e, q)') /\ SessionsAs(e, q)' \subseteq Sessions
    <2>1. FewSessions'
      BY SessionsAreFew, PTL
    <2>2. QED
      BY <2>1 DEF FewSessions
  <1>1. ASSUME NEW e \in Ends
        PROVE  SettledAs(e, m) \in Nat /\ SettledAs(e, m)' \in Nat /\ SettledAs(e, m) <= SettledAs(e, m)'
    <2>1. SessionsAs(e, m) \subseteq Sessions /\ \A s \in SessionsAs(e, m) : ends[s] # NoEnds
      BY SessionsAreFew DEF FewSessions
    <2>2. IsFiniteSet(SessionsAs(e, m)') /\ SessionsAs(e, m)' \subseteq Sessions
      BY <1>0
    <2>3. \A s \in SessionsAs(e, m) : Settled[s] \in Nat /\ Settled[s] <= Settled'[s]
      BY <2>1
    <2>4. \A s \in SessionsAs(e, m)' : Settled'[s] \in Nat
      BY <2>2
    <2>5. QED
      BY <2>2, <2>3, <2>4, SumsGrow DEF SettledAs
  <1>2. "source" \in Ends /\ "target" \in Ends
    BY DEF Ends
  <1>3. charged[m] <= SettledAs("source", m) + SettledAs("target", m)
    BY DEF ChargedIsSettled
  <1>4. QED
    BY <1>1, <1>2, <1>3

\* The row that makes room is one of the rows.
LEMMA VictimIsThere ==
  ASSUME RelayUsageTypeOK, usageRows # <<>>
  PROVE  Victim \in DOMAIN usageRows
  <1> DEFINE Live(i) == usageRows[i].live
             over == {i \in DOMAIN usageRows : ~Live(i)}
             First(i) == \A j \in DOMAIN usageRows : IF Live(i) = Live(j) THEN i <= j ELSE Live(j)
  <1>1. DOMAIN usageRows = 1..Len(usageRows) /\ Len(usageRows) \in Nat /\ Len(usageRows) # 0
    <2>1. usageRows \in Seq(Row)
      BY RowsAreRows
    <2>2. QED
      BY <2>1, EmptySeq, LenProperties
  <1>2. \A i \in DOMAIN usageRows : Live(i) \in BOOLEAN
    BY RowsAreRows DEF Row
  <1>3. \E i \in DOMAIN usageRows : First(i)
    <2> HIDE DEF Live
    <2>1. CASE over = {}
      <3>1. 1 \in DOMAIN usageRows /\ \A j \in DOMAIN usageRows : 1 <= j
        BY <1>1
      <3>2. \A i \in DOMAIN usageRows : Live(i)
        BY <2>1
      <3>3. First(1)
        BY <3>1, <3>2
      <3>4. QED
        BY <3>1, <3>3
    <2>2. CASE over # {}
      <3>1. over \in SUBSET Nat
        BY <1>1
      <3>2. PICK i \in over : \A j \in over : i <= j
        <4> HIDE DEF over
        <4>1. QED
          BY <2>2, <3>1, LeastOfNaturals
      <3>3. ASSUME NEW j \in DOMAIN usageRows
            PROVE  IF Live(i) = Live(j) THEN i <= j ELSE Live(j)
        <4>1. ~Live(i)
          BY <3>2
        <4>2. CASE Live(j)
          BY <1>2, <4>1, <4>2
        <4>3. CASE ~Live(j)
          <5>1. i <= j
            BY <3>2, <4>3
          <5>2. Live(i) = Live(j)
            BY <1>2, <3>2, <4>1, <4>3
          <5>3. QED
            BY <5>1, <5>2
        <4>4. QED
          BY <4>2, <4>3
      <3>4. QED
        BY <3>2, <3>3
    <2>3. QED
      BY <2>1, <2>2
  <1>4. Victim = CHOOSE i \in DOMAIN usageRows : First(i)
    BY DEF Victim
  <1>5. QED
    BY <1>3, <1>4

\* RemoveAt leaves the other elements in their order (VecDeque::remove).
LEMMA RemovedAt ==
  ASSUME NEW S, NEW q \in Seq(S), NEW k \in DOMAIN q
  PROVE  /\ RemoveAt(q, k) \in Seq(S) /\ Len(RemoveAt(q, k)) = Len(q) - 1
         /\ \A i \in 1..(Len(q) - 1) : RemoveAt(q, k)[i] = IF i < k THEN q[i] ELSE q[i + 1]
  <1> DEFINE before == SubSeq(q, 1, k - 1)
             after == SubSeq(q, k + 1, Len(q))
  <1>1. Len(q) \in Nat /\ k \in 1..Len(q)
    BY LenProperties
  <1>2. before \in Seq(S) /\ Len(before) = k - 1 /\ \A i \in 1..(k - 1) : before[i] = q[i]
    <2>1. 1 \in Int /\ k - 1 \in Int /\ \A i \in 1..(k - 1) : i \in 1..Len(q)
      BY <1>1
    <2>2. \A i \in 1..(k - 1) : q[i] \in S
      BY <2>1, ElementOfSeq
    <2>3. before \in Seq(S)
      BY <2>1, <2>2, SubSeqProperties
    <2>4. Len(before) = k - 1
      BY <1>1, <2>1, SubSeqProperties
    <2>5. \A i \in 1..(k - 1) : before[i] = q[i]
      BY <1>1, <2>1, SubSeqProperties
    <2>6. QED
      BY <2>3, <2>4, <2>5
  <1>3. after \in Seq(S) /\ Len(after) = Len(q) - k /\ \A i \in 1..(Len(q) - k) : after[i] = q[k + i]
    BY <1>1, SubSeqProperties
  <1>4. RemoveAt(q, k) = before \o after
    BY DEF RemoveAt
  <1> HIDE DEF before, after
  <1>5. /\ before \o after \in Seq(S)
        /\ Len(before \o after) = Len(before) + Len(after)
        /\ \A i \in 1..(Len(before) + Len(after)) :
             (before \o after)[i] = IF i <= Len(before) THEN before[i] ELSE after[i - Len(before)]
    BY <1>2, <1>3, ConcatProperties
  <1>6. ASSUME NEW i \in 1..(Len(q) - 1)
        PROVE  RemoveAt(q, k)[i] = IF i < k THEN q[i] ELSE q[i + 1]
    <2>1. RemoveAt(q, k)[i] = IF i <= k - 1 THEN before[i] ELSE after[i - (k - 1)]
      <3>1. Len(before) = k - 1 /\ i \in 1..(Len(before) + Len(after))
        BY <1>1, <1>2, <1>3
      <3>2. QED
        BY <1>4, <1>5, <3>1
    <2>2. CASE i < k
      <3>1. i \in 1..(k - 1)
        BY <1>1, <2>2
      <3>2. QED
        BY <1>1, <1>2, <2>1, <2>2, <3>1
    <2>3. CASE i >= k
      <3>1. i - (k - 1) \in 1..(Len(q) - k) /\ k + (i - (k - 1)) = i + 1
        BY <1>1, <2>3
      <3>2. after[i - (k - 1)] = q[i + 1]
        BY <1>3, <3>1
      <3>3. QED
        BY <1>1, <2>1, <2>3, <3>2
    <2>4. QED
      BY <1>1, <2>2, <2>3
  <1>7. RemoveAt(q, k) \in Seq(S)
    BY <1>4, <1>5
  <1>8. Len(RemoveAt(q, k)) = Len(q) - 1
    <2>1. Len(RemoveAt(q, k)) = (k - 1) + (Len(q) - k)
      BY <1>2, <1>3, <1>4, <1>5
    <2>2. QED
      BY <1>1, <2>1
  <1>9. QED
    BY <1>6, <1>7, <1>8

\* record_relay_grant has room for a row, and the rows it keeps are rows it had, each once.
LEMMA RoomKeeps ==
  ASSUME RelayUsageTypeOK
  PROVE  /\ Room \in Seq(Row) /\ Len(Room) < RELAY_SESSION_MEMORY
         /\ \E was \in [DOMAIN Room -> DOMAIN usageRows] :
              /\ \A i \in DOMAIN Room : Room[i] = usageRows[was[i]]
              /\ \A i, j \in DOMAIN Room : was[i] = was[j] => i = j
  <1>1. /\ usageRows \in Seq(Row) /\ Len(usageRows) \in Nat /\ DOMAIN usageRows = 1..Len(usageRows)
        /\ RELAY_SESSION_MEMORY \in Nat \ {0} /\ Len(usageRows) <= RELAY_SESSION_MEMORY
    BY RowsAreRows, RelayUsageAssumption DEF RelayUsageTypeOK
  <1>2. CASE Len(usageRows) < RELAY_SESSION_MEMORY
    <2>1. Room = usageRows
      BY <1>1, <1>2 DEF Room
    <2> DEFINE was == [i \in DOMAIN usageRows |-> i]
    <2>2. /\ was \in [DOMAIN usageRows -> DOMAIN usageRows]
          /\ \A i \in DOMAIN usageRows : usageRows[i] = usageRows[was[i]]
          /\ \A i, j \in DOMAIN usageRows : was[i] = was[j] => i = j
      OBVIOUS
    <2> HIDE DEF was
    <2>3. QED
      BY <1>1, <1>2, <2>1, <2>2
  <1>3. CASE Len(usageRows) >= RELAY_SESSION_MEMORY
    <2>1. usageRows # <<>>
      BY <1>1, <1>3, EmptySeq
    <2>2. Victim \in DOMAIN usageRows /\ Room = RemoveAt(usageRows, Victim)
      BY <1>3, <2>1, VictimIsThere DEF Room
    <2> DEFINE v == Victim
               was == [i \in 1..(Len(usageRows) - 1) |-> IF i < v THEN i ELSE i + 1]
    <2>3. /\ Room \in Seq(Row) /\ Len(Room) = Len(usageRows) - 1
          /\ \A i \in 1..(Len(usageRows) - 1) :
               Room[i] = IF i < v THEN usageRows[i] ELSE usageRows[i + 1]
      <3>1. usageRows \in Seq(Row) /\ v \in DOMAIN usageRows /\ Room = RemoveAt(usageRows, v)
        BY <1>1, <2>2
      <3> HIDE DEF v
      <3>2. QED
        BY <3>1, RemovedAt
    <2>4. v \in 1..Len(usageRows)
      BY <1>1, <2>2
    <2> HIDE DEF v
    <2>5. DOMAIN Room = 1..(Len(usageRows) - 1)
      BY <2>3, LenProperties
    <2>6. /\ was \in [1..(Len(usageRows) - 1) -> 1..Len(usageRows)]
          /\ \A i, j \in 1..(Len(usageRows) - 1) : was[i] = was[j] => i = j
      BY <1>1, <2>4
    <2>7. \A i \in 1..(Len(usageRows) - 1) : Room[i] = usageRows[was[i]]
      BY <1>1, <2>3, <2>4
    <2> HIDE DEF was
    <2>8. was \in [DOMAIN Room -> DOMAIN usageRows]
      BY <1>1, <2>5, <2>6
    <2>9. Len(Room) < RELAY_SESSION_MEMORY
      BY <1>1, <2>3
    <2>10. /\ \A i \in DOMAIN Room : Room[i] = usageRows[was[i]]
           /\ \A i, j \in DOMAIN Room : was[i] = was[j] => i = j
      BY <2>5, <2>6, <2>7
    <2>11. QED
      BY <2>3, <2>8, <2>9, <2>10
  <1>4. QED
    BY <1>1, <1>2, <1>3

\* A step that leaves the rows alone, and charges nobody.
LEMMA QuietKeeps ==
  ASSUME UsageIInv, RelayUsageTypeOK', FinitelyMany', UNCHANGED <<ends, usageRows, total>>,
         \A s \in Sessions : carried[s] <= carried'[s],
         \A m \in Machines : charged'[m] <= charged[m]
  PROVE  RowsOfSessions' /\ ChargedIsSettled' /\ ChargedIsCounted'
  <1>1. /\ RelayUsageTypeOK /\ RowsOfSessions /\ FinitelyMany /\ ChargedIsSettled /\ ChargedIsCounted
        /\ SettledByRow
    BY SettledFacts DEF UsageIInv
  <1>2. \A s \in Sessions : carried[s] \in Nat /\ carried'[s] \in Nat
    BY <1>1, RelayUsageAssumption DEF RelayUsageTypeOK
  <1>3. \A m \in Machines : charged[m] \in Nat /\ charged'[m] \in Nat /\ total \in Nat
    BY <1>1 DEF RelayUsageTypeOK
  <1>4. RowsOfSessions'
    <2>1. ASSUME NEW i \in DOMAIN usageRows
          PROVE  /\ ends[usageRows[i].session] # NoEnds
                 /\ usageRows[i].bytes <= carried'[usageRows[i].session]
      <3>1. usageRows[i].session \in Sessions /\ usageRows[i].bytes \in Nat
        BY <1>1, RowsAreRows, RelayUsageAssumption DEF Row
      <3>2. ends[usageRows[i].session] # NoEnds /\ usageRows[i].bytes <= carried[usageRows[i].session]
        BY <1>1 DEF RowsOfSessions
      <3>3. QED
        BY <1>2, <3>1, <3>2
    <2>2. QED
      BY <1>1, <2>1 DEF RowsOfSessions
  <1>5. SettledByRow'
    BY <1>4, SettledFacts, PTL
  <1>6. \A s \in Sessions : Settled[s] <= Settled'[s] /\ Settled[s] \in Nat /\ Settled'[s] \in Nat
    <2>1. \A s \in Sessions : Settled[s] \in Nat /\ Settled'[s] \in Nat
      BY <1>1, <1>5 DEF SettledByRow
    <2>2. ASSUME NEW s \in Sessions, Known(s) PROVE Settled'[s] = Settled[s]
      BY <2>2 DEF Settled, Known, RowOf, BytesSoFar
    <2>3. ASSUME NEW s \in Sessions, ~Known(s) PROVE Settled'[s] = carried'[s] /\ Settled[s] = carried[s]
      BY <2>3 DEF Settled, Known, RowOf
    <2>4. QED
      BY <2>1, <2>2, <2>3
  <1>7. FinitelyMany' /\ \A m \in Machines, e \in Ends : SessionsAs(e, m)' = SessionsAs(e, m)
    BY DEF SessionsAs
  <1>8. ASSUME NEW m \in Machines PROVE charged'[m] <= SettledAs("source", m)' + SettledAs("target", m)'
    <2>1. charged[m] \in Nat /\ charged'[m] \in Nat /\ charged'[m] <= charged[m]
      BY <1>3
    <2>2. \A e \in Ends : SessionsAs(e, m) \subseteq SessionsAs(e, m)'
      BY <1>7
    <2>3. QED
      BY <1>1, <1>6, <1>7, <2>1, <2>2, StaysSettled
  <1>9. ChargedIsCounted'
    <2>1. "source" \in Ends /\ "target" \in Ends
      BY DEF Ends
    <2>2. ASSUME NEW m \in Machines
          PROVE  /\ charged'[m] <= 2 * total'
                 /\ SessionsAs("source", m)' \cap SessionsAs("target", m)' = {} => charged'[m] <= total'
      <3>1. /\ charged[m] <= 2 * total
            /\ SessionsAs("source", m) \cap SessionsAs("target", m) = {} => charged[m] <= total
        BY <1>1 DEF ChargedIsCounted
      <3>2. /\ SessionsAs("source", m)' = SessionsAs("source", m)
            /\ SessionsAs("target", m)' = SessionsAs("target", m)
        BY <1>7, <2>1
      <3>3. charged'[m] <= 2 * total'
        BY <1>3, <3>1
      <3>4. charged[m] <= total => charged'[m] <= total'
        BY <1>3
      <3>5. QED
        BY <3>1, <3>2, <3>3, <3>4
    <2>3. QED
      BY <2>2 DEF ChargedIsCounted
  <1>10. QED
    BY <1>4, <1>8, <1>9 DEF ChargedIsSettled

\* hbbr pairs a session, carries bytes, ends it, or restarts.
LEMMA RelayStepKeeps ==
  ASSUME UsageIInv,
         \/ \E s \in Sessions : RelayBegins(s) \/ RelayCarries(s) \/ RelayEnds(s)
         \/ RelayRestart
  PROVE  UsageIInv'
  <1>1. /\ RelayUsageTypeOK /\ SampleIsRecent /\ FinitelyMany
        /\ UNCHANGED <<ends, usageRows, total, charged, fetch>>
    BY DEF UsageIInv, RelayBegins, RelayCarries, RelayEnds, RelayRestart
  <1>2. \A s \in Sessions : carried[s] \in 0..MaxBytes /\ MaxBytes \in Nat
    BY <1>1, RelayUsageAssumption DEF RelayUsageTypeOK
  <1>3. /\ relay' \in [Sessions -> {"none", "up", "over"}]
        /\ carried' \in [Sessions -> 0..MaxBytes]
        /\ \A s \in Sessions : carried[s] <= carried'[s]
    <2>1. CASE \E s \in Sessions : RelayCarries(s)
      BY <1>1, <1>2, <2>1 DEF RelayCarries, RelayUsageTypeOK
    <2>2. CASE RelayRestart \/ \E s \in Sessions : RelayBegins(s) \/ RelayEnds(s)
      <3>1. carried' = carried
        BY <2>2 DEF RelayBegins, RelayEnds, RelayRestart
      <3>2. relay' \in [Sessions -> {"none", "up", "over"}]
        BY <1>1, <2>2 DEF RelayBegins, RelayEnds, RelayRestart, RelayUsageTypeOK
      <3>3. carried \in [Sessions -> 0..MaxBytes] /\ \A s \in Sessions : carried[s] <= carried[s]
        BY <1>1, <1>2 DEF RelayUsageTypeOK
      <3>4. QED
        BY <3>1, <3>2, <3>3
    <2>3. QED
      BY <2>1, <2>2
  <1>4. RelayUsageTypeOK'
    BY <1>1, <1>3 DEF RelayUsageTypeOK, sample
  <1>5. SampleIsRecent'
    <2>1. ASSUME NEW s \in DOMAIN sample PROVE sample[s] <= carried'[s]
      <3>1. s \in Sessions /\ sample[s] \in Nat /\ sample[s] <= carried[s]
        BY <1>1 DEF RelayUsageTypeOK, SampleIsRecent
      <3>2. carried'[s] \in 0..MaxBytes
        BY <1>3, <3>1
      <3>3. QED
        BY <1>2, <1>3, <3>1, <3>2
    <2>2. sample' = sample
      BY <1>1 DEF sample
    <2>3. QED
      BY <1>1, <2>1, <2>2 DEF SampleIsRecent
  <1>6. FinitelyMany'
    <2> DEFINE paired == {s \in Sessions : relay[s] = "up"}
               pairedAfter == {s \in Sessions : relay'[s] = "up"}
    <2>1. \E s : pairedAfter \subseteq paired \cup {s}
      <3>1. CASE \E s \in Sessions : RelayBegins(s)
        <4>1. PICK s \in Sessions : RelayBegins(s)
          BY <3>1
        <4>2. pairedAfter \subseteq paired \cup {s}
          BY <1>1, <4>1 DEF RelayBegins, RelayUsageTypeOK
        <4>3. QED
          BY <4>2
      <3>2. CASE \E s \in Sessions : RelayCarries(s)
        BY <3>2 DEF RelayCarries
      <3>3. CASE \E s \in Sessions : RelayEnds(s)
        <4>1. PICK s \in Sessions : RelayEnds(s)
          BY <3>3
        <4>2. pairedAfter \subseteq paired
          BY <1>1, <4>1 DEF RelayEnds, RelayUsageTypeOK
        <4>3. QED
          BY <4>2
      <3>4. CASE RelayRestart
        <4>1. pairedAfter \subseteq paired
          BY <1>1, <3>4 DEF RelayRestart, RelayUsageTypeOK
        <4>2. QED
          BY <4>1
      <3>5. QED
        BY <3>1, <3>2, <3>3, <3>4
    <2>2. IsFiniteSet(paired)
      BY <1>1 DEF FinitelyMany
    <2> HIDE DEF paired
    <2>3. PICK s : pairedAfter \subseteq paired \cup {s}
      BY <2>1
    <2>4. IsFiniteSet(paired \cup {s})
      BY <2>2, FS_AddElement
    <2>5. IsFiniteSet(pairedAfter)
      BY <2>3, <2>4, FS_Subset
    <2>6. QED
      BY <1>1, <2>5 DEF FinitelyMany
  <1>7. \A m \in Machines : charged'[m] <= charged[m]
    <2>1. \A m \in Machines : charged[m] \in Nat
      BY <1>1 DEF RelayUsageTypeOK
    <2>2. QED
      BY <1>1, <2>1
  <1>8. QED
    BY <1>1, <1>3, <1>4, <1>5, <1>6, <1>7, QuietKeeps DEF UsageIInv

\* The poller reads a sample, or gives up; a peer is forgotten.
LEMMA FetchStepKeeps ==
  ASSUME UsageIInv, FetchLabels \/ FetchRows \/ FetchFails \/ \E m \in Machines : ForgetPeer(m)
  PROVE  UsageIInv'
  <1>1. /\ RelayUsageTypeOK /\ RowsOfSessions /\ SampleIsRecent /\ FinitelyMany
        /\ UNCHANGED <<relay, carried, ends, usageRows, total>>
    BY DEF UsageIInv, FetchLabels, FetchRows, FetchFails, ForgetPeer, hbbrVars
  <1>2. charged' \in [Machines -> Nat] /\ \A m \in Machines : charged'[m] <= charged[m]
    <2>1. charged \in [Machines -> Nat] /\ \A m \in Machines : charged[m] \in Nat
      BY <1>1 DEF RelayUsageTypeOK
    <2>2. CASE charged' = charged
      BY <2>1, <2>2
    <2>3. CASE \E m \in Machines : ForgetPeer(m)
      BY <2>1, <2>3 DEF ForgetPeer
    <2>4. QED
      BY <2>2, <2>3 DEF FetchLabels, FetchRows, FetchFails
  <1>3. /\ fetch.labels \subseteq Sessions /\ DOMAIN sample \subseteq Sessions
        /\ fetch.at \in {"idle", "labels", "rows"}
        /\ \A s \in Sessions : carried[s] \in 0..MaxBytes
        /\ MaxBytes \in Nat
    BY <1>1, RelayUsageAssumption DEF RelayUsageTypeOK
  <1>4. /\ fetch'.at \in {"idle", "labels", "rows"} /\ fetch'.labels \subseteq Sessions
        /\ DOMAIN sample' \subseteq Sessions /\ SampleIsRecent'
    <2>1. CASE FetchLabels
      <3>1. fetch'.at = "labels" /\ fetch'.labels = {s \in Sessions : relay[s] = "up"} /\ DOMAIN sample' = {}
        BY <2>1 DEF FetchLabels, NoFetch, sample
      <3>2. IsFiniteSet(fetch'.labels) /\ IsFiniteSet(DOMAIN sample')
        BY <1>1, <3>1, FS_EmptySet DEF FinitelyMany
      <3>3. QED
        BY <3>1, <3>2 DEF SampleIsRecent
    <2>2. CASE FetchRows
      <3> DEFINE seen == {u \in fetch.labels : relay[u] = "up"}
      <3>1. /\ fetch'.at = "rows" /\ fetch'.labels = {}
            /\ DOMAIN sample' = seen /\ \A s \in seen : sample'[s] = carried[s]
        BY <2>2 DEF FetchRows, sample
      <3>2. seen \subseteq fetch.labels
        OBVIOUS
      <3> HIDE DEF seen
      <3>3. IsFiniteSet(fetch'.labels) /\ IsFiniteSet(DOMAIN sample')
        BY <1>1, <3>1, <3>2, FS_EmptySet, FS_Subset DEF SampleIsRecent
      <3>4. ASSUME NEW s \in DOMAIN sample'
            PROVE  /\ sample'[s] \in Nat /\ sample'[s] <= carried[s]
                   /\ \A i \in DOMAIN usageRows :
                        usageRows[i].session = s => usageRows[i].bytes <= sample'[s]
        <4>1. sample'[s] = carried[s] /\ carried[s] \in 0..MaxBytes
          BY <1>3, <3>1, <3>2
        <4>2. \A i \in DOMAIN usageRows : usageRows[i].session = s => usageRows[i].bytes <= carried[s]
          BY <1>1 DEF RowsOfSessions
        <4>3. QED
          BY <1>3, <4>1, <4>2
      <3>5. QED
        BY <1>1, <1>3, <3>1, <3>2, <3>3, <3>4 DEF SampleIsRecent
    <2>3. CASE FetchFails
      <3>1. fetch'.at = "idle" /\ fetch'.labels = {} /\ DOMAIN sample' = {}
        BY <2>3 DEF FetchFails, NoFetch, sample
      <3>2. QED
        BY <3>1, FS_EmptySet DEF SampleIsRecent
    <2>4. CASE \E m \in Machines : ForgetPeer(m)
      <3>1. fetch' = fetch
        BY <2>4 DEF ForgetPeer
      <3>2. QED
        BY <1>1, <1>3, <3>1 DEF SampleIsRecent, sample
    <2>5. QED
      BY <2>1, <2>2, <2>3, <2>4
  <1>5. RelayUsageTypeOK'
    BY <1>1, <1>2, <1>4 DEF RelayUsageTypeOK
  <1>6. \A s \in Sessions : carried[s] <= carried'[s]
    BY <1>1, <1>3
  <1>7. FinitelyMany'
    BY <1>1 DEF FinitelyMany
  <1>8. QED
    BY <1>1, <1>2, <1>4, <1>5, <1>6, <1>7, QuietKeeps DEF UsageIInv

\* record_relay_grant: a row that makes room is of a session that may have carried more, and
\* the new row starts with nothing.
LEMMA GrantKeeps ==
  ASSUME UsageIInv, NEW s \in Sessions, NEW source \in Machines \cup {Nobody},
         NEW target \in Machines, Grant(s, source, target)
  PROVE  UsageIInv'
  <1> DEFINE new == [session |-> s, bytes |-> 0, live |-> FALSE]
             n == Len(Room)
             both == [e \in Ends |-> IF e = "source" THEN source ELSE target]
  <1>1. /\ RelayUsageTypeOK /\ RowsOfSessions /\ SampleIsRecent /\ FinitelyMany /\ ChargedIsSettled
        /\ ChargedIsCounted /\ SettledByRow
    BY SettledFacts DEF UsageIInv
  <1>2. /\ ends[s] = NoEnds /\ ends' = [ends EXCEPT ![s] = both] /\ usageRows' = Append(Room, new)
        /\ relay' = relay /\ carried' = carried
        /\ total' = total /\ charged' = charged /\ fetch' = fetch /\ sample' = sample
    BY DEF Grant, hbbrVars, sample
  <1>3. /\ ends \in [Sessions -> [Ends -> Machines \cup {Nobody}]] /\ MaxBytes \in Nat /\ RELAY_SESSION_MEMORY \in Nat
        /\ \A t \in Sessions : carried[t] \in 0..MaxBytes /\ 0 <= carried[t] /\ carried[t] \in Nat
    BY <1>1, RelayUsageAssumption DEF RelayUsageTypeOK
  <1>4. /\ ends' \in [Sessions -> [Ends -> Machines \cup {Nobody}]] /\ ends'[s] # NoEnds
        /\ \A t \in Sessions : t # s => ends'[t] = ends[t]
    <2>1. both \in [Ends -> Machines \cup {Nobody}] /\ both # NoEnds
      <3>1. "target" \in Ends /\ both["target"] = target
        BY DEF Ends
      <3>2. NoEnds["target"] = Nobody /\ target # Nobody
        BY <3>1, RelayUsageAssumption DEF NoEnds
      <3>3. both \in [Ends -> Machines \cup {Nobody}]
        OBVIOUS
      <3> HIDE DEF both
      <3>4. QED
        BY <3>1, <3>2, <3>3
    <2> HIDE DEF new, n, both
    <2>2. QED
      BY <1>2, <1>3, <2>1
  <1>5. Room \in Seq(Row) /\ n \in Nat /\ DOMAIN Room = 1..n /\ n < RELAY_SESSION_MEMORY
    BY <1>1, RoomKeeps, LenProperties
  <1>6. PICK was \in [DOMAIN Room -> DOMAIN usageRows] :
          /\ \A i \in DOMAIN Room : Room[i] = usageRows[was[i]]
          /\ \A i, j \in DOMAIN Room : was[i] = was[j] => i = j
    BY <1>1, RoomKeeps
  <1>7. new \in Row
    BY <1>3 DEF Row
  <1>8. /\ usageRows' \in Seq(Row) /\ Len(usageRows') = n + 1 /\ DOMAIN usageRows' = 1..(n + 1)
        /\ \A i \in 1..n : usageRows'[i] = Room[i]
        /\ usageRows'[n + 1] = new
    BY <1>2, <1>5, <1>7, AppendProperties, LenProperties
  <1>9. RelayUsageTypeOK'
    <2>1. Len(usageRows') <= RELAY_SESSION_MEMORY
      BY <1>3, <1>5, <1>8
    <2>2. QED
      BY <1>1, <1>2, <1>4, <1>8, <2>1 DEF RelayUsageTypeOK, Row
  <1>10. \A i \in 1..(n + 1) : i \in 1..n \/ i = n + 1
    BY <1>5
  <1>11. ASSUME NEW i \in 1..n
         PROVE  /\ was[i] \in DOMAIN usageRows /\ usageRows'[i] = usageRows[was[i]]
                /\ usageRows'[i].session \in Sessions /\ usageRows'[i].session # s
                /\ ends[usageRows'[i].session] # NoEnds
                /\ usageRows'[i].bytes <= carried[usageRows'[i].session]
    <2>1. was[i] \in DOMAIN usageRows /\ usageRows'[i] = usageRows[was[i]]
      BY <1>5, <1>6, <1>8
    <2>2. usageRows[was[i]].session \in Sessions
      BY <1>1, <2>1, RowsAreRows DEF Row
    <2>3. /\ ends[usageRows[was[i]].session] # NoEnds
          /\ usageRows[was[i]].bytes <= carried[usageRows[was[i]].session]
      BY <1>1, <2>1 DEF RowsOfSessions
    <2>4. QED
      BY <1>2, <2>1, <2>2, <2>3
  <1>12. usageRows'[n + 1].session = s /\ usageRows'[n + 1].bytes = 0
    BY <1>8
  <1> HIDE DEF new, n, both
  <1>13. RowsOfSessions'
    <2>1. ASSUME NEW i \in 1..(n + 1), NEW j \in 1..(n + 1), usageRows'[i].session = usageRows'[j].session
          PROVE  i = j
      <3>1. CASE i \in 1..n /\ j \in 1..n
        <4>1. usageRows[was[i]].session = usageRows[was[j]].session
          BY <1>11, <2>1, <3>1
        <4>2. was[i] = was[j]
          BY <1>1, <1>11, <3>1, <4>1 DEF RowsOfSessions
        <4>3. QED
          BY <1>5, <1>6, <3>1, <4>2
      <3>2. CASE i = n + 1 /\ j \in 1..n
        BY <1>11, <1>12, <2>1, <3>2
      <3>3. CASE j = n + 1 /\ i \in 1..n
        BY <1>11, <1>12, <2>1, <3>3
      <3>4. CASE i = n + 1 /\ j = n + 1
        BY <3>4
      <3>5. QED
        BY <1>10, <3>1, <3>2, <3>3, <3>4
    <2>2. ASSUME NEW i \in 1..(n + 1)
          PROVE  /\ ends'[usageRows'[i].session] # NoEnds
                 /\ usageRows'[i].bytes <= carried'[usageRows'[i].session]
      <3>1. CASE i \in 1..n
        BY <1>2, <1>4, <1>11, <3>1
      <3>2. CASE i = n + 1
        BY <1>2, <1>3, <1>4, <1>12, <3>2
      <3>3. QED
        BY <1>10, <3>1, <3>2
    <2>3. QED
      BY <1>8, <2>1, <2>2 DEF RowsOfSessions
  <1>14. SettledByRow'
    BY <1>9, <1>13, SettledFacts, PTL
  <1>15. SampleIsRecent'
    <2>1. ASSUME NEW t \in DOMAIN sample, NEW i \in 1..(n + 1), usageRows'[i].session = t
          PROVE  usageRows'[i].bytes <= sample[t]
      <3>1. CASE i \in 1..n
        BY <1>1, <1>11, <2>1, <3>1 DEF SampleIsRecent
      <3>2. CASE i = n + 1
        <4>1. sample[t] \in Nat
          BY <1>1 DEF SampleIsRecent
        <4>2. QED
          BY <1>12, <3>2, <4>1
      <3>3. QED
        BY <1>10, <3>1, <3>2
    <2>2. QED
      BY <1>1, <1>2, <1>8, <2>1 DEF SampleIsRecent
  <1>16. FinitelyMany'
    <2>1. {t \in Sessions : ends'[t] # NoEnds} \subseteq {t \in Sessions : ends[t] # NoEnds} \cup {s}
      BY <1>4
    <2>2. IsFiniteSet({t \in Sessions : ends[t] # NoEnds} \cup {s})
      BY <1>1, FS_AddElement DEF FinitelyMany
    <2>3. IsFiniteSet({t \in Sessions : ends'[t] # NoEnds})
      BY <2>1, <2>2, FS_Subset
    <2>4. QED
      BY <1>1, <1>2, <2>3 DEF FinitelyMany
  <1>17. ASSUME NEW t \in Sessions, ends[t] # NoEnds
         PROVE  Settled[t] \in Nat /\ Settled'[t] \in Nat /\ Settled[t] <= Settled'[t]
    <2>1. Settled[t] \in Nat /\ Settled'[t] \in Nat /\ Settled[t] <= carried[t]
      BY <1>1, <1>14 DEF SettledByRow
    <2>2. CASE Known(t)'
      <3>1. PICK i \in 1..(n + 1) : usageRows'[i].session = t
        BY <1>8, <2>2 DEF Known, RowOf
      <3>2. i \in 1..n
        BY <1>2, <1>10, <1>12, <1>17, <3>1
      <3>3. Settled'[t] = usageRows'[i].bytes
        BY <1>8, <1>14, <3>1 DEF SettledByRow
      <3>4. Settled[t] = usageRows[was[i]].bytes
        BY <1>1, <1>11, <3>1, <3>2 DEF SettledByRow
      <3>5. QED
        BY <1>11, <2>1, <3>2, <3>3, <3>4
    <2>3. CASE ~Known(t)'
      <3>1. Settled'[t] = carried'[t]
        BY <1>14, <2>3 DEF SettledByRow
      <3>2. QED
        BY <1>2, <2>1, <3>1
    <2>4. QED
      BY <2>2, <2>3
  <1>18. \A m \in Machines, e \in Ends : SessionsAs(e, m) \subseteq SessionsAs(e, m)'
    <2>1. ASSUME NEW m \in Machines, NEW e \in Ends, NEW t \in SessionsAs(e, m)
          PROVE  t \in SessionsAs(e, m)'
      <3>1. t \in Sessions /\ ends[t] # NoEnds /\ ends[t][e] = m
        BY <1>1, SessionsAreFew DEF SessionsAs, FewSessions
      <3>2. ends'[t] = ends[t]
        BY <1>2, <1>4, <3>1
      <3>3. QED
        BY <3>1, <3>2 DEF SessionsAs
    <2>2. QED
      BY <2>1
  <1>19. ASSUME NEW m \in Machines PROVE charged'[m] <= SettledAs("source", m)' + SettledAs("target", m)'
    <2>1. charged[m] \in Nat /\ charged'[m] \in Nat /\ charged'[m] <= charged[m]
      BY <1>1, <1>2 DEF RelayUsageTypeOK
    <2>2. \A t \in Sessions : Settled'[t] \in Nat
      BY <1>14 DEF SettledByRow
    <2>3. QED
      BY <1>1, <1>16, <1>17, <1>18, <2>1, <2>2, StaysSettled
  <1>20. ChargedIsCounted'
    <2>1. "source" \in Ends /\ "target" \in Ends
      BY DEF Ends
    <2>2. ASSUME NEW m \in Machines
          PROVE  /\ charged'[m] <= 2 * total'
                 /\ SessionsAs("source", m)' \cap SessionsAs("target", m)' = {} => charged'[m] <= total'
      <3>1. /\ SessionsAs("source", m) \subseteq SessionsAs("source", m)'
            /\ SessionsAs("target", m) \subseteq SessionsAs("target", m)'
        BY <1>18, <2>1
      <3>2. QED
        BY <1>1, <1>2, <3>1 DEF ChargedIsCounted
    <2>3. QED
      BY <2>2 DEF ChargedIsCounted
  <1>21. QED
    BY <1>9, <1>13, <1>15, <1>16, <1>19, <1>20 DEF UsageIInv, ChargedIsSettled

\* apply_relay_usage: what a session gained brings what its row holds up to the sample, and
\* no machine is charged for a session outside the sample.
LEMMA ApplyKeeps ==
  ASSUME UsageIInv, Apply
  PROVE  UsageIInv'
  <1> DEFINE sampled == DOMAIN sample
             added(e, m) == SumFunctionOnSet(Gained, ChargedAs(e, m))
             n == Len(usageRows)
  <1>1. /\ RelayUsageTypeOK /\ RowsOfSessions /\ SampleIsRecent /\ FinitelyMany /\ ChargedIsSettled
        /\ ChargedIsCounted /\ SettledByRow
    BY SettledFacts DEF UsageIInv
  <1>2. /\ UNCHANGED <<relay, carried, ends>> /\ fetch' = NoFetch
        /\ total' = total + SumFunctionOnSet(Gained, sampled)
        /\ charged' = [m \in Machines |-> charged[m] + added("source", m) + added("target", m)]
    BY DEF Apply, hbbrVars
  <1>3. usageRows' = [i \in DOMAIN usageRows |->
          IF usageRows[i].session \in sampled
            THEN [usageRows[i] EXCEPT !.bytes = sample[usageRows[i].session], !.live = TRUE]
            ELSE [usageRows[i] EXCEPT !.live = FALSE]]
    BY DEF Apply
  <1>4. /\ usageRows \in Seq(Row) /\ n \in Nat /\ DOMAIN usageRows = 1..n
        /\ \A i \in 1..n : usageRows[i] \in Row
    BY <1>1, RowsAreRows
  <1>5. /\ MaxBytes \in Nat /\ sampled \subseteq Sessions /\ IsFiniteSet(sampled)
        /\ \A s \in Sessions : carried[s] \in 0..MaxBytes
        /\ \A s \in sampled : sample[s] \in 0..MaxBytes /\ sample[s] \in Nat /\ sample[s] <= carried[s]
    <2>1. MaxBytes \in Nat /\ sampled \subseteq Sessions /\ \A s \in Sessions : carried[s] \in 0..MaxBytes
      BY <1>1, RelayUsageAssumption DEF RelayUsageTypeOK
    <2>2. IsFiniteSet(sampled) /\ \A s \in sampled : sample[s] \in Nat /\ sample[s] <= carried[s]
      BY <1>1 DEF SampleIsRecent
    <2> HIDE DEF sampled
    <2>3. \A s \in sampled : sample[s] \in 0..MaxBytes
      BY <2>1, <2>2
    <2>4. QED
      BY <2>1, <2>2, <2>3
  <1>6. \A i \in 1..n : usageRows[i].session \in Sessions /\ usageRows[i].bytes \in 0..MaxBytes
    BY <1>4 DEF Row
  <1> HIDE DEF sampled, n
  <1>7. ASSUME NEW i \in 1..n
        PROVE  /\ usageRows'[i] \in Row /\ usageRows'[i].session = usageRows[i].session
               /\ usageRows[i].session \in sampled =>
                    usageRows'[i].bytes = sample[usageRows[i].session]
               /\ usageRows[i].session \notin sampled => usageRows'[i].bytes = usageRows[i].bytes
    <2>1. usageRows[i] \in Row
      BY <1>4
    <2>2. CASE usageRows[i].session \in sampled
      <3>1. usageRows'[i] = [usageRows[i] EXCEPT !.bytes = sample[usageRows[i].session], !.live = TRUE]
        BY <1>3, <1>4, <2>2
      <3>2. QED
        BY <1>5, <2>1, <2>2, <3>1 DEF Row
    <2>3. CASE usageRows[i].session \notin sampled
      <3>1. usageRows'[i] = [usageRows[i] EXCEPT !.live = FALSE]
        BY <1>3, <1>4, <2>3
      <3>2. QED
        BY <2>1, <2>3, <3>1 DEF Row
    <2>4. QED
      BY <2>2, <2>3
  <1>8. usageRows' \in Seq(Row) /\ Len(usageRows') = n /\ DOMAIN usageRows' = 1..n
    <2>1. DOMAIN usageRows' = 1..n /\ usageRows' = [i \in 1..n |-> usageRows'[i]]
      BY <1>3, <1>4
    <2>2. usageRows' \in [1..n -> Row]
      BY <1>7, <2>1
    <2>3. usageRows' \in Seq(Row)
      BY <1>4, <2>2, SeqDef
    <2>4. QED
      BY <1>4, <2>1, <2>3, LenProperties
  <1>9. SampleIsRecent' /\ fetch'.at = "idle" /\ fetch'.labels = {} /\ DOMAIN sample' = {}
    <2>1. fetch'.at = "idle" /\ fetch'.labels = {} /\ DOMAIN sample' = {}
      BY <1>2 DEF NoFetch, sample
    <2>2. QED
      BY <2>1, FS_EmptySet DEF SampleIsRecent
  <1>10. RowsOfSessions'
    <2>1. \A i, j \in 1..n : usageRows'[i].session = usageRows'[j].session => i = j
      BY <1>1, <1>4, <1>7 DEF RowsOfSessions
    <2>2. ASSUME NEW i \in 1..n
          PROVE  /\ ends'[usageRows'[i].session] # NoEnds
                 /\ usageRows'[i].bytes <= carried'[usageRows'[i].session]
      <3>1. /\ ends[usageRows[i].session] # NoEnds
            /\ usageRows[i].bytes <= carried[usageRows[i].session]
        BY <1>1, <1>4 DEF RowsOfSessions
      <3>2. QED
        BY <1>2, <1>5, <1>7, <3>1
    <2>3. QED
      BY <1>8, <2>1, <2>2 DEF RowsOfSessions
  <1>11. \A s \in Sessions : Known(s)' <=> Known(s)
    BY <1>4, <1>7, <1>8 DEF Known, RowOf
  <1>12. ASSUME NEW s \in sampled PROVE Gained[s] \in Nat
    <2>1. CASE Known(s)
      <3>1. PICK i \in 1..n : usageRows[i].session = s
        BY <1>4, <2>1 DEF Known, RowOf
      <3>2. BytesSoFar(s) \in 0..MaxBytes
        BY <1>1, <1>4, <1>6, <3>1 DEF SettledByRow
      <3>3. Gained[s] = Delta(BytesSoFar(s), sample[s])
        BY <2>1 DEF Gained, sampled
      <3>4. QED
        BY <1>5, <3>2, <3>3 DEF Delta
    <2>2. CASE ~Known(s)
      BY <1>5, <2>2 DEF Gained, sampled
    <2>3. QED
      BY <2>1, <2>2
  <1>13. ASSUME NEW m \in Machines, NEW e \in Ends
         PROVE  /\ ChargedAs(e, m) \in SUBSET sampled /\ IsFiniteSet(ChargedAs(e, m))
                /\ ChargedAs(e, m) \in SUBSET SessionsAs(e, m)
                /\ \A s \in ChargedAs(e, m) : Known(s)
                /\ added(e, m) \in Nat /\ SumFunctionOnSet(Gained, sampled) \in Nat
                /\ added(e, m) <= SumFunctionOnSet(Gained, sampled)
    <2>1. /\ ChargedAs(e, m) \in SUBSET sampled /\ ChargedAs(e, m) \in SUBSET SessionsAs(e, m)
          /\ \A s \in ChargedAs(e, m) : Known(s)
      BY <1>5 DEF ChargedAs, SessionsAs, sampled
    <2>2. IsFiniteSet(ChargedAs(e, m))
      BY <1>5, <2>1, FS_Subset
    <2>3. \A s \in ChargedAs(e, m) : Gained[s] \in Nat /\ Gained[s] <= Gained[s]
      BY <1>12, <2>1
    <2>4. QED
      BY <1>5, <1>12, <2>1, <2>2, <2>3, SumsGrow
  <1>14. SumFunctionOnSet(Gained, sampled) \in Nat
    <2>1. \A s \in sampled : Gained[s] \in Nat
      BY <1>12
    <2>2. sampled \in SUBSET sampled
      OBVIOUS
    <2>3. QED
      BY <1>5, <2>1, <2>2, SumOf
  <1>15. RelayUsageTypeOK'
    <2>1. total' \in Nat
      BY <1>1, <1>2, <1>14 DEF RelayUsageTypeOK
    <2>2. charged' \in [Machines -> Nat]
      <3>1. \A m \in Machines : added("source", m) \in Nat /\ added("target", m) \in Nat
        BY <1>13 DEF Ends
      <3> HIDE DEF added
      <3>2. \A m \in Machines : charged[m] + added("source", m) + added("target", m) \in Nat
        BY <1>1, <3>1 DEF RelayUsageTypeOK
      <3>3. QED
        BY <1>2, <3>2
    <2>3. Len(usageRows') <= RELAY_SESSION_MEMORY
      BY <1>1, <1>8 DEF RelayUsageTypeOK, n
    <2>4. QED
      BY <1>1, <1>2, <1>8, <1>9, <2>1, <2>2, <2>3 DEF RelayUsageTypeOK, Row
  <1>16. SettledByRow'
    <2>1. RowsOfSessions'
      BY <1>10
    <2>2. QED
      BY <1>15, <2>1, SettledFacts, PTL
  <1>17. ASSUME NEW s \in Sessions
         PROVE  /\ Settled[s] \in Nat /\ Settled'[s] \in Nat /\ Settled[s] <= Settled'[s]
                /\ s \in sampled /\ Known(s) => Gained[s] + Settled[s] <= Settled'[s]
    <2>1. Settled[s] \in Nat /\ Settled'[s] \in Nat
      BY <1>1, <1>16 DEF SettledByRow
    <2>2. CASE ~Known(s)
      <3>1. Settled[s] = carried[s] /\ Settled'[s] = carried'[s]
        BY <1>1, <1>11, <1>16, <2>2 DEF SettledByRow
      <3>2. QED
        BY <1>2, <2>1, <2>2, <3>1
    <2>3. CASE Known(s)
      <3>1. PICK i \in 1..n : usageRows[i].session = s
        BY <1>4, <2>3 DEF Known, RowOf
      <3>2. /\ Settled[s] = usageRows[i].bytes /\ Settled'[s] = usageRows'[i].bytes
            /\ BytesSoFar(s) = usageRows[i].bytes
        BY <1>1, <1>4, <1>7, <1>8, <1>16, <3>1 DEF SettledByRow
      <3>3. CASE s \notin sampled
        BY <1>7, <2>1, <3>1, <3>2, <3>3
      <3>4. CASE s \in sampled
        <4>1. Settled'[s] = sample[s]
          BY <1>7, <3>1, <3>2, <3>4
        <4>2. usageRows[i].bytes <= sample[s]
          BY <1>1, <1>4, <3>1, <3>4 DEF SampleIsRecent, sampled
        <4>3. Gained[s] = Delta(Settled[s], sample[s])
          BY <2>3, <3>2, <3>4 DEF Gained, sampled
        <4>4. QED
          BY <2>1, <3>2, <4>1, <4>2, <4>3 DEF Delta
      <3>5. QED
        BY <3>3, <3>4
    <2>4. QED
      BY <2>2, <2>3
  <1>18. "source" \in Ends /\ "target" \in Ends
    BY DEF Ends
  <1>19. ASSUME NEW m \in Machines
         PROVE  charged'[m] <= SettledAs("source", m)' + SettledAs("target", m)'
    <2>1. ASSUME NEW e \in Ends
          PROVE  /\ added(e, m) \in Nat /\ SettledAs(e, m) \in Nat /\ SettledAs(e, m)' \in Nat
                 /\ added(e, m) + SettledAs(e, m) <= SettledAs(e, m)'
      <3>1. SessionsAs(e, m)' = SessionsAs(e, m)
        BY <1>2 DEF SessionsAs
      <3>2. IsFiniteSet(SessionsAs(e, m)) /\ SessionsAs(e, m) \subseteq Sessions
        BY <1>1, SessionsAreFew DEF FewSessions
      <3>3. /\ ChargedAs(e, m) \in SUBSET sampled /\ ChargedAs(e, m) \in SUBSET SessionsAs(e, m)
            /\ added(e, m) \in Nat /\ \A s \in ChargedAs(e, m) : Known(s)
        BY <1>13
      <3>4. \A s \in ChargedAs(e, m) : Gained[s] \in Nat
        BY <1>12, <3>3
      <3>5. \A s \in SessionsAs(e, m) :
              /\ Settled[s] \in Nat /\ Settled'[s] \in Nat /\ Settled[s] <= Settled'[s]
              /\ s \in ChargedAs(e, m) => Gained[s] + Settled[s] <= Settled'[s]
        BY <1>17, <3>2, <3>3
      <3>6. /\ SumFunctionOnSet(Settled, SessionsAs(e, m)) \in Nat
            /\ SumFunctionOnSet(Settled', SessionsAs(e, m)) \in Nat
        BY <3>2, <3>5, SumOf
      <3>7. SumFunctionOnSet(Gained, ChargedAs(e, m)) + SumFunctionOnSet(Settled, SessionsAs(e, m))
              <= SumFunctionOnSet(Settled', SessionsAs(e, m))
        BY <3>2, <3>3, <3>4, <3>5, SumsAdd
      <3>8. QED
        BY <3>1, <3>3, <3>6, <3>7 DEF SettledAs
    <2>2. charged[m] <= SettledAs("source", m) + SettledAs("target", m) /\ charged[m] \in Nat
      BY <1>1 DEF ChargedIsSettled, RelayUsageTypeOK
    <2>3. charged'[m] = charged[m] + added("source", m) + added("target", m)
      BY <1>2
    <2> HIDE DEF added
    <2>4. QED
      BY <1>18, <2>1, <2>2, <2>3
  <1>20. ASSUME NEW m \in Machines
         PROVE  /\ charged'[m] <= 2 * total'
                /\ SessionsAs("source", m)' \cap SessionsAs("target", m)' = {} => charged'[m] <= total'
    <2>1. /\ charged[m] \in Nat /\ total \in Nat /\ charged[m] <= 2 * total
          /\ SessionsAs("source", m) \cap SessionsAs("target", m) = {} => charged[m] <= total
      BY <1>1 DEF ChargedIsCounted, RelayUsageTypeOK
    <2>2. charged'[m] = charged[m] + added("source", m) + added("target", m)
      BY <1>2
    <2>3. /\ added("source", m) \in Nat /\ added("source", m) <= SumFunctionOnSet(Gained, sampled)
          /\ added("target", m) \in Nat /\ added("target", m) <= SumFunctionOnSet(Gained, sampled)
      BY <1>13, <1>18
    <2>4. ASSUME SessionsAs("source", m) \cap SessionsAs("target", m) = {}
          PROVE  added("source", m) + added("target", m) <= SumFunctionOnSet(Gained, sampled)
      <3> DEFINE C == ChargedAs("source", m)
                 D == ChargedAs("target", m)
                 rest == [s \in sampled |-> IF s \in D THEN Gained[s] ELSE 0]
      <3>1. C \in SUBSET sampled /\ D \in SUBSET sampled /\ C \cap D = {}
        BY <1>13, <1>18, <2>4
      <3> HIDE DEF C, D
      <3>2. \A s \in sampled :
              /\ Gained[s] \in Nat /\ rest[s] \in Nat /\ rest[s] <= Gained[s]
              /\ s \in C => Gained[s] + rest[s] <= Gained[s]
              /\ s \in D => Gained[s] <= rest[s]
        BY <1>12, <3>1
      <3> HIDE DEF rest
      <3>3. SumFunctionOnSet(Gained, C) + SumFunctionOnSet(rest, sampled)
              <= SumFunctionOnSet(Gained, sampled)
        BY <1>5, <3>1, <3>2, SumsAdd
      <3>4. SumFunctionOnSet(Gained, D) <= SumFunctionOnSet(rest, sampled)
            /\ SumFunctionOnSet(rest, sampled) \in Nat
        BY <1>5, <3>1, <3>2, SumsGrow
      <3>5. added("source", m) = SumFunctionOnSet(Gained, C) /\ added("target", m) = SumFunctionOnSet(Gained, D)
        BY DEF C, D
      <3> HIDE DEF added
      <3>6. QED
        BY <1>14, <2>3, <3>3, <3>4, <3>5
    <2>5. SessionsAs("source", m)' = SessionsAs("source", m) /\ SessionsAs("target", m)' = SessionsAs("target", m)
      BY <1>2 DEF SessionsAs
    <2> HIDE DEF added
    <2>6. charged'[m] <= 2 * total'
      BY <1>2, <1>14, <2>1, <2>2, <2>3
    <2>7. ASSUME SessionsAs("source", m)' \cap SessionsAs("target", m)' = {} PROVE charged'[m] <= total'
      BY <1>2, <1>14, <2>1, <2>2, <2>3, <2>4, <2>5, <2>7
    <2>8. QED
      BY <2>6, <2>7
  <1>21. FinitelyMany'
    BY <1>1, <1>2 DEF FinitelyMany
  <1>22. QED
    BY <1>9, <1>10, <1>15, <1>19, <1>20, <1>21 DEF UsageIInv, ChargedIsSettled, ChargedIsCounted

\* hbbs restarts with no rows, and nothing charged; hbbr goes on counting.
LEMMA UsageRestartKeeps ==
  ASSUME UsageIInv, UsageRestart
  PROVE  UsageIInv'
  <1>1. RelayUsageTypeOK /\ FinitelyMany
    BY DEF UsageIInv
  <1>2. /\ UNCHANGED <<relay, carried, ends>> /\ usageRows' = <<>> /\ total' = 0
        /\ charged' = [m \in Machines |-> 0] /\ fetch' = NoFetch
    BY DEF UsageRestart, hbbrVars
  <1>3. usageRows' \in Seq(Row) /\ Len(usageRows') = 0 /\ DOMAIN usageRows' = {}
    BY <1>2, EmptySeq
  <1>4. fetch'.at = "idle" /\ fetch'.labels = {} /\ DOMAIN sample' = {}
    BY <1>2 DEF NoFetch, sample
  <1>5. RelayUsageTypeOK'
    <2>1. Len(usageRows') <= RELAY_SESSION_MEMORY
      BY <1>3, RelayUsageAssumption
    <2>2. charged' \in [Machines -> Nat] /\ total' \in Nat
      BY <1>2
    <2>3. QED
      BY <1>1, <1>2, <1>3, <1>4, <2>1, <2>2 DEF RelayUsageTypeOK, Row
  <1>6. RowsOfSessions' /\ SampleIsRecent'
    BY <1>3, <1>4, FS_EmptySet DEF RowsOfSessions, SampleIsRecent
  <1>7. SettledByRow'
    BY <1>5, <1>6, SettledFacts, PTL
  <1>8. FinitelyMany'
    BY <1>1, <1>2 DEF FinitelyMany
  <1>9. ASSUME NEW m \in Machines
        PROVE  /\ charged'[m] <= SettledAs("source", m)' + SettledAs("target", m)'
               /\ charged'[m] <= 2 * total' /\ charged'[m] <= total'
    <2>1. ASSUME NEW e \in Ends PROVE SettledAs(e, m)' \in Nat
      <3>1. SessionsAs(e, m)' = SessionsAs(e, m) /\ SessionsAs(e, m) \subseteq Sessions
        BY <1>2 DEF SessionsAs
      <3>2. IsFiniteSet(SessionsAs(e, m))
        BY <1>1, SessionsAreFew DEF FewSessions
      <3>3. \A s \in SessionsAs(e, m) : Settled'[s] \in Nat
        BY <1>7, <3>1 DEF SettledByRow
      <3>4. QED
        BY <3>1, <3>2, <3>3, SumOf DEF SettledAs
    <2>2. "source" \in Ends /\ "target" \in Ends
      BY DEF Ends
    <2>3. charged'[m] = 0 /\ total' = 0
      BY <1>2
    <2>4. QED
      BY <2>1, <2>2, <2>3
  <1>10. QED
    BY <1>5, <1>6, <1>8, <1>9 DEF UsageIInv, ChargedIsSettled, ChargedIsCounted

LEMMA UsageInitInv == RelayUsageInit => UsageIInv
  <1> SUFFICES ASSUME RelayUsageInit PROVE UsageIInv
    OBVIOUS
  <1>1. usageRows \in Seq(Row) /\ Len(usageRows) = 0 /\ DOMAIN usageRows = {}
    BY EmptySeq DEF RelayUsageInit
  <1>2. fetch.at = "idle" /\ fetch.labels = {} /\ DOMAIN sample = {}
    BY DEF RelayUsageInit, NoFetch, sample
  <1>3. RelayUsageTypeOK
    <2>1. 0 \in 0..MaxBytes /\ Len(usageRows) <= RELAY_SESSION_MEMORY
      BY <1>1, RelayUsageAssumption
    <2>2. ends \in [Sessions -> [Ends -> Machines \cup {Nobody}]]
      BY DEF RelayUsageInit, NoEnds
    <2>3. QED
      BY <1>1, <1>2, <2>1, <2>2 DEF RelayUsageInit, RelayUsageTypeOK, Row
  <1>4. RowsOfSessions /\ SampleIsRecent
    BY <1>1, <1>2, FS_EmptySet DEF RowsOfSessions, SampleIsRecent
  <1>5. SettledByRow
    BY <1>3, <1>4, SettledFacts
  <1>6. FinitelyMany
    <2>1. {s \in Sessions : ends[s] # NoEnds} = {} /\ {s \in Sessions : relay[s] = "up"} = {}
      BY DEF RelayUsageInit
    <2>2. QED
      BY <2>1, FS_EmptySet DEF FinitelyMany
  <1>7. ASSUME NEW m \in Machines
        PROVE  /\ charged[m] <= SettledAs("source", m) + SettledAs("target", m)
               /\ charged[m] <= 2 * total /\ charged[m] <= total
    <2>1. ASSUME NEW e \in Ends PROVE SettledAs(e, m) \in Nat
      <3>1. IsFiniteSet(SessionsAs(e, m)) /\ \A s \in SessionsAs(e, m) : Settled[s] \in Nat
        BY <1>5, <1>6, SessionsAreFew DEF SettledByRow, FewSessions
      <3>2. QED
        BY <3>1, SumOf DEF SettledAs
    <2>2. "source" \in Ends /\ "target" \in Ends
      BY DEF Ends
    <2>3. charged[m] = 0 /\ total = 0
      BY DEF RelayUsageInit
    <2>4. QED
      BY <2>1, <2>2, <2>3
  <1>8. QED
    BY <1>3, <1>4, <1>6, <1>7 DEF UsageIInv, ChargedIsSettled, ChargedIsCounted

LEMMA UsageNextInv == UsageIInv /\ [RelayUsageNext]_usageVars => UsageIInv'
  <1> SUFFICES ASSUME UsageIInv, [RelayUsageNext]_usageVars PROVE UsageIInv'
    OBVIOUS
  <1>1. CASE \E s \in Sessions, source \in Machines \cup {Nobody}, target \in Machines :
               Grant(s, source, target)
    BY <1>1, GrantKeeps
  <1>2. CASE \/ \E s \in Sessions : RelayBegins(s) \/ RelayCarries(s) \/ RelayEnds(s)
             \/ RelayRestart
    BY <1>2, RelayStepKeeps
  <1>3. CASE FetchLabels \/ FetchRows \/ FetchFails \/ \E m \in Machines : ForgetPeer(m)
    BY <1>3, FetchStepKeeps
  <1>4. CASE Apply
    BY <1>4, ApplyKeeps
  <1>5. CASE UsageRestart
    BY <1>5, UsageRestartKeeps
  <1>6. CASE UNCHANGED usageVars
    <2>1. UNCHANGED <<relay, carried, ends, usageRows, total, charged, fetch>> /\ sample' = sample
      BY <1>6 DEF usageVars, sample
    <2>2. RelayUsageTypeOK' /\ SampleIsRecent' /\ FinitelyMany'
      BY <2>1 DEF UsageIInv, RelayUsageTypeOK, SampleIsRecent, FinitelyMany
    <2>3. \A s \in Sessions : carried[s] <= carried'[s]
      BY <2>1, RelayUsageAssumption DEF UsageIInv, RelayUsageTypeOK
    <2>4. \A m \in Machines : charged'[m] <= charged[m]
      BY <2>1 DEF UsageIInv, RelayUsageTypeOK
    <2>5. QED
      BY <2>1, <2>2, <2>3, <2>4, QuietKeeps DEF UsageIInv
  <1>7. QED
    BY <1>1, <1>2, <1>3, <1>4, <1>5, <1>6 DEF RelayUsageNext

\* Whatever hbbr carries and hbbs polls, evicts, forgets or loses in a restart, no machine is
\* charged more than the sessions it took part in have carried, counted for each end it had,
\* nor more than the total, or twice the total if it has relayed to itself
\* (record_relay_grant, apply_relay_usage).
THEOREM UsageInvariant == RelayUsageSpec => []UsageInv
  <1>1. UsageIInv => UsageInv
    BY UsageImplied
  <1>2. QED
    BY <1>1, UsageInitInv, UsageNextInv, PTL DEF RelayUsageSpec
=============================================================================
