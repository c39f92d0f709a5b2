------------------------------ MODULE RelayUsage ------------------------------
(***************************************************************************)
(* Bytes relayed, as the dashboard of hbbs shows them (nemo_management.rs).*)
(* hbbr reports the cumulative bytes of each session that is up; hbbs      *)
(* keeps a row for each session it brokered, and adds what is new since    *)
(* the last poll to the fleet total and to both ends.  RelayPairing models *)
(* hbbr itself; here it is the counter it reports.                         *)
(***************************************************************************)
EXTENDS Naturals, Sequences, FiniteSets, Functions, SequencesExt

CONSTANTS Sessions,            \* session labels
          Machines,
          Nobody,              \* the empty id: of a source hbbs does not know
          RELAY_SESSION_MEMORY,
          MaxBytes,            \* bound: what one session carries
          MaxTotal             \* bound: no poll once the total has come this far

ASSUME RelayUsageAssumption ==
  /\ RELAY_SESSION_MEMORY \in Nat \ {0} /\ MaxBytes \in Nat /\ MaxTotal \in Nat
  /\ Nobody \notin Machines

VARIABLES
  relay,    \* hbbr: "none", "up" or "over"
  carried,  \* hbbr: the bytes each session has carried
  ends,     \* history: source_id and target_id of each session that was granted
  usageRows, \* STATS.relay_sessions, oldest first
  total,    \* totals.relay_bytes
  charged,  \* relay_bytes of each peer
  fetch     \* fetch_relay_usage, and what it has read

usageVars == <<relay, carried, ends, usageRows, total, charged, fetch>>
hbbrVars == <<relay, carried>>

Ends == {"source", "target"}
NoEnds == [e \in Ends |-> Nobody]

NoFetch == [at |-> "idle", labels |-> {}, bytes |-> [s \in {} |-> 0]]

RelayUsageInit ==
  /\ relay = [s \in Sessions |-> "none"] /\ carried = [s \in Sessions |-> 0]
  /\ ends = [s \in Sessions |-> NoEnds]
  /\ usageRows = <<>> /\ total = 0 /\ charged = [m \in Machines |-> 0]
  /\ fetch = NoFetch

\* record_relay_grant: the oldest ended row goes first, then the oldest.
Victim == CHOOSE i \in DOMAIN usageRows :
  \A j \in DOMAIN usageRows : IF usageRows[i].live = usageRows[j].live THEN i <= j ELSE usageRows[j].live
Room == IF Len(usageRows) >= RELAY_SESSION_MEMORY THEN RemoveAt(usageRows, Victim) ELSE usageRows

\* A RelayResponse is granted.  The source may be unknown, and it may be the target.
Grant(s, source, target) ==
  /\ relay[s] = "none" /\ ends[s] = NoEnds
  /\ ends' = [ends EXCEPT ![s] = [e \in Ends |-> IF e = "source" THEN source ELSE target]]
  /\ usageRows' = Append(Room, [session |-> s, bytes |-> 0, live |-> FALSE])
  /\ UNCHANGED <<hbbrVars, total, charged, fetch>>

\* hbbr pairs a session, perhaps one that another hbbs brokered.
RelayBegins(s) ==
  /\ relay[s] = "none"
  /\ relay' = [relay EXCEPT ![s] = "up"]
  /\ UNCHANGED <<carried, ends, usageRows, total, charged, fetch>>

RelayCarries(s) ==
  /\ relay[s] = "up" /\ carried[s] < MaxBytes
  /\ carried' = [carried EXCEPT ![s] = @ + 1]
  /\ UNCHANGED <<relay, ends, usageRows, total, charged, fetch>>

RelayEnds(s) ==
  /\ relay[s] = "up"
  /\ relay' = [relay EXCEPT ![s] = "over"]
  /\ UNCHANGED <<carried, ends, usageRows, total, charged, fetch>>

\* fetch_relay_usage: usage-json of hbbr copies SESSION_LABELS, then USAGE, each under its
\* lock; a row counted in between has no label.
FetchLabels ==
  /\ fetch.at = "idle" /\ total <= MaxTotal
  /\ fetch' = [NoFetch EXCEPT !.at = "labels", !.labels = {s \in Sessions : relay[s] = "up"}]
  /\ UNCHANGED <<hbbrVars, ends, usageRows, total, charged>>
FetchRows ==
  /\ fetch.at = "labels"
  /\ fetch' = [at |-> "rows", labels |-> {},
       bytes |-> [s \in {u \in fetch.labels : relay[u] = "up"} |-> carried[s]]]
  /\ UNCHANGED <<hbbrVars, ends, usageRows, total, charged>>

\* The poller skips the round.
FetchFails ==
  /\ fetch.at # "idle" /\ fetch' = NoFetch
  /\ UNCHANGED <<hbbrVars, ends, usageRows, total, charged>>

\* Mutant: the whole count of a session is added at every poll.
Delta_Absolute(before, now) == now
Delta(before, now) == IF now > before THEN now - before ELSE 0

sample == fetch.bytes
RowOf(s) == {i \in DOMAIN usageRows : usageRows[i].session = s}
Known(s) == RowOf(s) # {}
BytesSoFar(s) == usageRows[CHOOSE i \in RowOf(s) : TRUE].bytes

\* What the sample adds to each session; one that hbbs did not broker has no row.
Gained == [s \in DOMAIN sample |-> IF Known(s) THEN Delta(BytesSoFar(s), sample[s]) ELSE sample[s]]

\* The sessions of the sample that a machine is charged for as one of their ends.
ChargedAs(e, m) == {s \in DOMAIN sample : Known(s) /\ ends[s][e] = m}

\* apply_relay_usage: a session hbbs did not broker counts in the total; source and target
\* are charged one after the other, be they the same; a row that is not in the sample ends.
Apply ==
  LET sampled == DOMAIN sample IN
  /\ fetch.at = "rows" /\ fetch' = NoFetch
  /\ total' = total + SumFunctionOnSet(Gained, sampled)
  /\ charged' = [m \in Machines |->
       charged[m] + SumFunctionOnSet(Gained, ChargedAs("source", m))
                  + SumFunctionOnSet(Gained, ChargedAs("target", m))]
  /\ usageRows' = [i \in DOMAIN usageRows |->
       IF usageRows[i].session \in sampled
         THEN [usageRows[i] EXCEPT !.bytes = sample[usageRows[i].session], !.live = TRUE]
         ELSE [usageRows[i] EXCEPT !.live = FALSE]]
  /\ UNCHANGED <<hbbrVars, ends>>

\* prune_peer_stats at its cap, or delete_peer_ids.
ForgetPeer(m) ==
  /\ charged' = [charged EXCEPT ![m] = 0]
  /\ UNCHANGED <<hbbrVars, ends, usageRows, total, fetch>>

RelayRestart ==
  /\ relay' = [s \in Sessions |-> IF relay[s] = "up" THEN "over" ELSE relay[s]]
  /\ UNCHANGED <<carried, ends, usageRows, total, charged, fetch>>

UsageRestart ==
  /\ usageRows' = <<>> /\ total' = 0 /\ charged' = [m \in Machines |-> 0]
  /\ fetch' = NoFetch
  /\ UNCHANGED <<hbbrVars, ends>>

RelayUsageNext ==
  \/ \E s \in Sessions :
       \/ \E source \in Machines \cup {Nobody}, target \in Machines : Grant(s, source, target)
       \/ RelayBegins(s) \/ RelayCarries(s) \/ RelayEnds(s)
  \/ FetchLabels \/ FetchRows \/ FetchFails \/ Apply
  \/ \E m \in Machines : ForgetPeer(m)
  \/ RelayRestart \/ UsageRestart

RelayUsageSpec == RelayUsageInit /\ [][RelayUsageNext]_usageVars

-----------------------------------------------------------------------------
(* Properties.                                                             *)

\* Every variable holds what its code counterpart can hold.
RelayUsageTypeOK ==
  /\ relay \in [Sessions -> {"none", "up", "over"}]
  /\ carried \in [Sessions -> 0..MaxBytes]
  /\ ends \in [Sessions -> [Ends -> Machines \cup {Nobody}]]
  /\ usageRows \in Seq([session : Sessions, bytes : 0..MaxBytes, live : BOOLEAN])
  /\ Len(usageRows) <= RELAY_SESSION_MEMORY
  /\ total \in Nat /\ charged \in [Machines -> Nat]
  /\ fetch.at \in {"idle", "labels", "rows"}
  /\ fetch.labels \subseteq Sessions /\ DOMAIN sample \subseteq Sessions

Carried(which) == SumFunctionOnSet(carried, which)
SessionsAs(e, m) == {s \in Sessions : ends[s][e] = m}

\* "bytes relayed in sessions this peer took part in, as either end" (NemoPeerStats): for
\* each end it had, a machine is never charged more than those sessions have carried,
\* whatever is polled, evicted or restarted.  One that relays to itself had both.
ChargedIsCarried ==
  \A m \in Machines :
    charged[m] <= Carried(SessionsAs("source", m)) + Carried(SessionsAs("target", m))

\* The totals of a machine are part of the total (apply_relay_usage, one lock), and only
\* ForgetPeer or a restart takes from either: what is charged to it was counted, and only
\* a machine that has relayed to itself is charged twice for what was counted once.
ChargedIsCounted ==
  \A m \in Machines :
    /\ charged[m] <= 2 * total
    /\ SessionsAs("source", m) \cap SessionsAs("target", m) = {} => charged[m] <= total

\* Types and charges together (apply_relay_usage).
UsageInv == RelayUsageTypeOK /\ ChargedIsCarried /\ ChargedIsCounted
=============================================================================
