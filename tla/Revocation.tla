------------------------------ MODULE Revocation ------------------------------
(***************************************************************************)
(* Ending sessions that are already running (nemo_management.rs).  hbbs    *)
(* cannot interrupt a direct session; it keeps a row per connection it     *)
(* has negotiated, and a stamp per target, PEER_TERMINATE, that the        *)
(* target reads at its next poll and obeys if it is newer than the last    *)
(* one it obeyed.  The operator cuts or blocks a target, or takes a        *)
(* controller its rights, which revokes on every target the rows show it   *)
(* on.                                                                     *)
(*                                                                         *)
(* The stamps have a lock of their own, released before their file is      *)
(* written; the rows are under STATS.                                      *)
(***************************************************************************)
EXTENDS Naturals, FiniteSets

CONSTANTS Controllers, Targets,
          RevokeTasks,   \* the operator's requests
          NoRevoker,     \* STATS is free
          HistoryLimit,  \* conn_history_limit
          MaxClock       \* bound: seconds

ASSUME RevocationAssumption ==
  HistoryLimit \in Nat \ {0} /\ MaxClock \in Nat \ {0} /\ NoRevoker \notin RevokeTasks

VARIABLES
  clock,      \* now_epoch_secs
  stamp,      \* PEER_TERMINATE
  stampFile,  \* its file
  rows,       \* STATS.connections: the rank of each row's last_seen among them, 0 for no row
  statsLock,  \* who holds STATS over several steps
  revoker,    \* the operator's tasks
  agreed,     \* connections negotiated and not yet open on the target
  running,    \* sessions on the targets
  obeyed      \* the stamp each target obeyed last

revocationVars ==
  <<clock, stamp, stampFile, rows, statsLock, revoker, agreed, running, obeyed>>
orders == <<stamp, stampFile, statsLock, revoker>>
fleet == <<agreed, running, obeyed>>

Connection == [source : Controllers, target : Targets]
Stamps == [Targets -> 0..MaxClock]

\* order: history, what became of the orders against the session; excused: history, the
\* row went for another reason than an order.
RunningSession == [conn : Connection, order : {"none", "stands", "lost"}, excused : BOOLEAN]

\* from: the controllers to be stopped, none for a cut; todo, hit: targets still to be
\* stamped, and stamped; image: what to write.
NoRevocation == [at |-> "idle", from |-> {}, todo |-> {}, hit |-> {},
                 image |-> [t \in Targets |-> 0]]

RevocationInit ==
  /\ clock = 1
  /\ stamp = [t \in Targets |-> 0] /\ stampFile = stamp
  /\ rows = [c \in Connection |-> 0] /\ statsLock = NoRevoker
  /\ revoker = [r \in RevokeTasks |-> NoRevocation]
  /\ agreed = {} /\ running = {}
  /\ obeyed = [t \in Targets |-> 0]

Rows == {c \in Connection : rows[c] # 0}
Listed(c) == c \in Rows
Hit(t) == \E r \in RevokeTasks : t \in revoker[r].hit
Excuse(conns) == {IF s.conn \in conns THEN [s EXCEPT !.excused = TRUE] ELSE s : s \in running}

-----------------------------------------------------------------------------
(* Connections.                                                            *)

\* The rows of kept, by the order they were last seen in.
Ranked(kept, lastSeen) ==
  [c \in Connection |-> IF c \notin kept THEN 0
                        ELSE Cardinality({d \in kept : lastSeen[d] <= lastSeen[c]})]

\* upsert_connection, from record_connection_negotiation: a known row becomes the most
\* recent, a new one pushes out the oldest beyond the limit.
Upsert(c) ==
  LET lastSeen == [rows EXCEPT ![c] = HistoryLimit + 1]
      added == Rows \cup {c}
      oldest == {d \in added : \A e \in added : lastSeen[d] <= lastSeen[e]}
  IN Ranked(IF Listed(c) \/ Cardinality(added) <= HistoryLimit THEN added ELSE added \ oldest,
            lastSeen)

Negotiate(c) ==
  /\ statsLock = NoRevoker
  /\ rows' = Upsert(c)
  /\ agreed' = agreed \cup {c}
  /\ running' = Excuse({d \in Rows : rows'[d] = 0})
  /\ UNCHANGED <<clock, orders, obeyed>>

\* The controller reaches the target, without the server.  Bound: one session for each pair.
Establish(c) ==
  /\ c \in agreed /\ \A s \in running : s.conn # c
  /\ agreed' = agreed \ {c}
  /\ running' = running \cup
       {[conn |-> c, order |-> "none", excused |-> ~Listed(c) \/ Hit(c.target)]}
  /\ UNCHANGED <<clock, orders, rows, obeyed>>

Leave(s) ==
  /\ s \in running
  /\ running' = running \ {s}
  /\ UNCHANGED <<clock, orders, rows, agreed, obeyed>>

\* The target's poll (client_policy); it ends every session if the stamp is a newer one.
Poll(t) ==
  /\ stamp[t] > obeyed[t]
  /\ obeyed' = [obeyed EXCEPT ![t] = stamp[t]]
  /\ running' = {s \in running : s.conn.target # t}
  /\ UNCHANGED <<clock, orders, rows, agreed>>

-----------------------------------------------------------------------------
(* Orders.                                                                 *)

Revoke(r, rec) == revoker' = [revoker EXCEPT ![r] = rec]

\* Mutant: a cut only drops the rows.
Cut_Unstamped(r, t) ==
  /\ revoker[r].at = "idle"
  /\ Revoke(r, [NoRevocation EXCEPT !.at = "stamped", !.hit = {t}])
  /\ UNCHANGED <<clock, stamp, stampFile, rows, statsLock, fleet>>

\* cut_connection and block_peer, once the target's status is 0.
Cut(r, t) ==
  /\ revoker[r].at = "idle"
  /\ Revoke(r, [NoRevocation EXCEPT !.at = "stamping", !.todo = {t}])
  /\ UNCHANGED <<clock, stamp, stampFile, rows, statsLock, fleet>>

\* terminate_sessions_from_controllers keeps STATS to the end.
TerminateFrom(r, controllers) ==
  LET targets == {c.target : c \in {d \in Rows : d.source \in controllers}} IN
  /\ revoker[r].at = "idle" /\ statsLock = NoRevoker
  /\ targets # {}
  /\ Revoke(r, [NoRevocation EXCEPT !.at = "stamping", !.from = controllers, !.todo = targets])
  /\ statsLock' = r
  /\ UNCHANGED <<clock, stamp, stampFile, rows, fleet>>

\* Mutant: the clock overwrites the stamp.
Stamped_Overwrites(t) == [stamp EXCEPT ![t] = clock]
Stamped(t) == IF clock > stamp[t] THEN [stamp EXCEPT ![t] = clock] ELSE stamp

\* What an order for t does to the sessions there.
Ordered(t, stamps) ==
  {IF s.conn.target # t \/ s.order = "stands" THEN s
   ELSE [s EXCEPT !.order = IF stamps[t] > obeyed[t] THEN "stands" ELSE "lost"] : s \in running}

\* set_peer_terminate, up to the release of its lock.
SetTerminate(r, t) ==
  /\ revoker[r].at = "stamping" /\ t \in revoker[r].todo
  /\ stamp' = Stamped(t)
  /\ Revoke(r, [revoker[r] EXCEPT !.at = "writing", !.todo = @ \ {t}, !.hit = @ \cup {t},
                                  !.image = stamp'])
  /\ running' = Ordered(t, stamp')
  /\ UNCHANGED <<clock, stampFile, rows, statsLock, agreed, obeyed>>

\* A write that fails is only logged.
WriteStamps(r, fails) ==
  /\ revoker[r].at = "writing"
  /\ stampFile' = IF fails THEN stampFile ELSE revoker[r].image
  /\ Revoke(r, [revoker[r] EXCEPT !.at = IF revoker[r].todo = {} THEN "stamped" ELSE "stamping"])
  /\ UNCHANGED <<clock, stamp, rows, statsLock, fleet>>

\* The rows go and the operator is answered.
DropRows(r) ==
  LET ends(c) == IF revoker[r].from = {} THEN c.target \in revoker[r].hit
                 ELSE c.source \in revoker[r].from IN
  /\ revoker[r].at = "stamped"
  /\ statsLock = IF revoker[r].from = {} THEN NoRevoker ELSE r
  /\ statsLock' = NoRevoker
  /\ rows' = Ranked({c \in Rows : ~ends(c)}, rows)
  /\ Revoke(r, NoRevocation)
  /\ UNCHANGED <<clock, stamp, stampFile, fleet>>

Tick ==
  /\ clock < MaxClock
  /\ clock' = clock + 1
  /\ UNCHANGED <<orders, rows, fleet>>

ClockStepsBack ==
  /\ clock > 1
  /\ clock' = clock - 1
  /\ UNCHANGED <<orders, rows, fleet>>

\* The rows are gone, the stamps are read back; a file that was being written does not
\* parse and counts as empty.
RevocationRestart ==
  /\ \/ stamp' = stampFile
     \/ /\ \E r \in RevokeTasks : revoker[r].at = "writing"
        /\ stamp' = [t \in Targets |-> 0]
  /\ stampFile' = stamp'
  /\ rows' = [c \in Connection |-> 0] /\ statsLock' = NoRevoker
  /\ revoker' = [r \in RevokeTasks |-> NoRevocation]
  /\ running' = {[s EXCEPT !.excused = TRUE, !.order =
                    IF @ = "stands" /\ stamp'[s.conn.target] <= obeyed[s.conn.target]
                      THEN "lost" ELSE @] : s \in running}
  /\ UNCHANGED <<clock, agreed, obeyed>>

RevokeStep(r) ==
  \/ \E t \in Targets : Cut(r, t) \/ SetTerminate(r, t)
  \/ \E controllers \in (SUBSET Controllers) \ {{}} : TerminateFrom(r, controllers)
  \/ \E fails \in BOOLEAN : WriteStamps(r, fails)
  \/ DropRows(r)

RevocationNext ==
  \/ \E c \in Connection : Negotiate(c) \/ Establish(c)
  \/ \E s \in running : Leave(s)
  \/ \E t \in Targets : Poll(t)
  \/ \E r \in RevokeTasks : RevokeStep(r)
  \/ Tick \/ ClockStepsBack \/ RevocationRestart

RevocationSpec == RevocationInit /\ [][RevocationNext]_revocationVars

-----------------------------------------------------------------------------
(* Properties.                                                             *)

\* Every variable holds what its code counterpart can hold.
RevocationTypeOK ==
  /\ clock \in 1..MaxClock
  /\ stamp \in Stamps /\ stampFile \in Stamps /\ obeyed \in Stamps
  /\ rows \in [Connection -> 0..HistoryLimit] /\ Cardinality(Rows) <= HistoryLimit
  /\ statsLock \in RevokeTasks \cup {NoRevoker}
  /\ revoker \in [RevokeTasks ->
       [at : {"idle", "stamping", "writing", "stamped"}, from : SUBSET Controllers,
        todo : SUBSET Targets, hit : SUBSET Targets, image : Stamps]]
  /\ agreed \subseteq Connection /\ running \subseteq RunningSession

\* "over-revocation, never under" (terminate_sessions_from_controllers): a session whose
\* row is gone has been revoked, except where hbbs could not know: it was still being
\* set up, its row was the oldest beyond the limit, or the server restarted.
UnlistedIsRevoked ==
  \A s \in running : s.excused \/ Listed(s.conn) \/ s.order # "none"

\* Types and rows together (terminate_sessions_from_controllers).
RevocationInv == RevocationTypeOK /\ UnlistedIsRevoked

\* "the stored value only ever moves forward, so a clock wobble cannot un-revoke"
\* (set_peer_terminate): an order the target had still to see stays newer than what
\* it has obeyed, whatever the clock does and whoever else revokes.
OrderStands ==
  \A s \in running : s.order = "stands" => stamp[s.conn.target] > obeyed[s.conn.target]

=============================================================================
