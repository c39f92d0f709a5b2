----------------------------- MODULE RelayMatch ------------------------------
(***************************************************************************)
(* What hbbr promises: connections that show the same unexpired grant are  *)
(* joined two by two, each to at most one other, and only while both are   *)
(* open.  It promises no more: a connection may be closed without having   *)
(* been joined to anyone.                                                  *)
(***************************************************************************)
EXTENDS Naturals

CONSTANTS Conns, Grants, Expiry, NoGrant

VARIABLES clock,   \* the clock grants are verified against
          admits,  \* the grant each connection was admitted with
          joined,  \* pairs <<joiner, waiter>>
          closed   \* connections hbbr has dropped

matchVars == <<clock, admits, joined, closed>>

Waits(c) == /\ admits[c] # NoGrant
            /\ c \notin closed
            /\ \A pair \in joined : c # pair[1] /\ c # pair[2]

MatchInit ==
  /\ clock = 0
  /\ admits = [c \in Conns |-> NoGrant]
  /\ joined = {}
  /\ closed = {}

Admit(c, g) ==
  /\ admits[c] = NoGrant /\ c \notin closed
  /\ clock < Expiry[g]
  /\ admits' = [admits EXCEPT ![c] = g]
  /\ UNCHANGED <<clock, joined, closed>>

Join(c, d) ==
  /\ c # d /\ Waits(c) /\ Waits(d) /\ admits[c] = admits[d]
  /\ joined' = joined \cup {<<c, d>>}
  /\ UNCHANGED <<clock, admits, closed>>

Drop(S) ==
  /\ closed' = closed \cup S
  /\ UNCHANGED <<clock, admits, joined>>

Pass == clock' = clock + 1 /\ UNCHANGED <<admits, joined, closed>>

MatchNext ==
  \/ \E c \in Conns, g \in Grants : Admit(c, g)
  \/ \E c, d \in Conns : Join(c, d)
  \/ \E S \in SUBSET Conns : Drop(S)
  \/ Pass

MatchSpec == MatchInit /\ [][MatchNext]_matchVars
=============================================================================
