----------------------------- MODULE RelayServers -----------------------------
(***************************************************************************)
(* The relay servers hbbs offers (rendezvous_server.rs): the list an       *)
(* operator sets, and the periodic check that narrows it to those that     *)
(* answer.  Both hand their lists to the main loop through one channel.  A *)
(* connection works with the list of the moment it was accepted.           *)
(***************************************************************************)
EXTENDS Naturals, Sequences, FiniteSets

CONSTANTS Servers, Checks,
          MaxInbox,    \* bound: lists on their way when a check or a command begins
          MaxChanges   \* bound: commands, and servers that go up or down

ASSUME RelayServerAssumption == MaxChanges \in Nat /\ MaxInbox \in Nat \ {0}

VARIABLES
  configured, \* relay_servers0 of the main loop
  offered,    \* relay_servers of the main loop
  inbox,      \* Data::RelayServers0 and Data::RelayServers on their way
  check,      \* tasks of check_relay_servers: whom they still probe, and who has answered
  up,         \* servers that accept a connection
  changes     \* bound

relayServerVars == <<configured, offered, inbox, check, up, changes>>

NoCheck == [on |-> FALSE, left |-> {}, found |-> {}]
Lists == [kind : {"set", "checked"}, list : SUBSET Servers]

RelayServersInit ==
  /\ configured \in SUBSET Servers /\ offered = configured
  /\ inbox = <<>> /\ check = [k \in Checks |-> NoCheck]
  /\ up \in SUBSET Servers /\ changes = 0

\* Mutant: a check probes what is offered, not what is configured.
CheckStarts_Offered(k) ==
  /\ Cardinality(configured) > 1 /\ ~check[k].on /\ Len(inbox) < MaxInbox
  /\ check' = [check EXCEPT ![k] = [on |-> TRUE, left |-> offered, found |-> {}]]
  /\ UNCHANGED <<configured, offered, inbox, up, changes>>

\* The timer of io_loop: nothing to choose between with one server, a check otherwise.
TickForNothing == Cardinality(configured) <= 1 /\ UNCHANGED relayServerVars
CheckStarts(k) ==
  /\ Cardinality(configured) > 1 /\ ~check[k].on /\ Len(inbox) < MaxInbox
  /\ check' = [check EXCEPT ![k] = [on |-> TRUE, left |-> configured, found |-> {}]]
  /\ UNCHANGED <<configured, offered, inbox, up, changes>>

\* One probe of the check ends, within CHECK_RELAY_TIMEOUT.
Probe(k, s) ==
  /\ s \in check[k].left
  /\ check' = [check EXCEPT ![k].left = @ \ {s}, ![k].found = IF s \in up THEN @ \cup {s} ELSE @]
  /\ UNCHANGED <<configured, offered, inbox, up, changes>>

\* Mutant: an empty result is sent as well.
CheckEnds_Always(k) ==
  /\ check[k].on /\ check[k].left = {}
  /\ inbox' = Append(inbox, [kind |-> "checked", list |-> check[k].found])
  /\ check' = [check EXCEPT ![k] = NoCheck]
  /\ UNCHANGED <<configured, offered, up, changes>>

\* When none has answered the list stays what it was.
CheckEnds(k) ==
  /\ check[k].on /\ check[k].left = {}
  /\ inbox' = IF check[k].found = {} THEN inbox
              ELSE Append(inbox, [kind |-> "checked", list |-> check[k].found])
  /\ check' = [check EXCEPT ![k] = NoCheck]
  /\ UNCHANGED <<configured, offered, up, changes>>

\* The relay-servers command, to the loopback port of a listener.
Command(list) ==
  /\ changes < MaxChanges /\ changes' = changes + 1 /\ Len(inbox) < MaxInbox
  /\ inbox' = Append(inbox, [kind |-> "set", list |-> list])
  /\ UNCHANGED <<configured, offered, check, up>>

\* parse_relay_servers for a list that was set, and what a check found as it is.
ListArrives ==
  /\ inbox # <<>> /\ inbox' = Tail(inbox)
  /\ offered' = Head(inbox).list
  /\ configured' = IF Head(inbox).kind = "set" THEN Head(inbox).list ELSE configured
  /\ UNCHANGED <<check, up, changes>>

ServerChanges(s) ==
  /\ changes < MaxChanges /\ changes' = changes + 1
  /\ up' = IF s \in up THEN up \ {s} ELSE up \cup {s}
  /\ UNCHANGED <<configured, offered, inbox, check>>

RelayServersNext ==
  \/ \E k \in Checks : CheckStarts(k) \/ CheckEnds(k) \/ \E s \in Servers : Probe(k, s)
  \/ \E list \in SUBSET Servers : Command(list)
  \/ TickForNothing \/ ListArrives
  \/ \E s \in Servers : ServerChanges(s)

\* The timer ticks, probes have a time-out and the main loop reads its channel.
RelayServersFairness ==
  /\ \A k \in Checks :
       /\ WF_relayServerVars(CheckStarts(k)) /\ WF_relayServerVars(CheckEnds(k))
       /\ \A s \in Servers : WF_relayServerVars(Probe(k, s))
  /\ WF_relayServerVars(ListArrives)

RelayServersSpec == RelayServersInit /\ [][RelayServersNext]_relayServerVars /\ RelayServersFairness

-----------------------------------------------------------------------------
(* Properties.                                                             *)

\* Every variable holds what its code counterpart can hold.
RelayServersTypeOK ==
  /\ configured \subseteq Servers /\ offered \subseteq Servers /\ up \subseteq Servers
  /\ inbox \in Seq(Lists)
  /\ check \in [Checks -> [on : BOOLEAN, left : SUBSET Servers, found : SUBSET Servers]]

\* However checks and commands overlap, and whatever goes down, hbbs always has a server
\* to offer while one is configured (an empty result of a check is not sent).
SomeServerIsOffered == offered = {} => configured = {}

\* Types and offers together (check_relay_servers).
RelayServersInv == RelayServersTypeOK /\ SomeServerIsOffered

\* Once commands and outages are over, connections are offered the configured servers
\* that answer, and go on to be: a dead server is dropped, one that is back returns, and
\* what a check of an older list brought is corrected (check_relay_servers, io_loop).
OfferSettles ==
  <>[](Cardinality(configured) > 1 /\ configured \cap up # {} => offered = configured \cap up)
=============================================================================
