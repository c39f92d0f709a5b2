--------------------------- MODULE RelayedSession ----------------------------
(***************************************************************************)
(* A session from the request to the relay.  hbbs accepts a request and    *)
(* signs a grant for it with the key it loaded when it started; the two    *)
(* sides show the grant to hbbr, which verifies it with the key it loaded  *)
(* when that process started.  The key file is replaced under both of      *)
(* them, and either may stop and start again at any time.                  *)
(*                                                                         *)
(* hbbs and hbbr do here what they promise (BrokerBook, RelayMatch), not   *)
(* every step they take; SigningKey is taken as it is.                     *)
(***************************************************************************)
EXTENDS SigningKey, Sequences

CONSTANTS Viewers,   \* controllers
          Desktops,  \* the machines that can be controlled
          Proven,    \* those that answer over a device-authenticated connection
          Broker,    \* the hbbs each controller is connected to
          Sockets,   \* connections to hbbr
          Relay,     \* the hbbr each of them is a connection to
          TTL,       \* RELAY_GRANT_TTL_SECS, in ticks
          MaxAsked,  \* bound: requests hbbs accepts
          MaxTime,   \* bound: clock
          NoGrant    \* no grant shown yet

\* What relay_grant_mint signs.  Its nonce is as good as the request it is minted for:
\* no request is granted twice.
SignedGrant == [req : Nat, key : Keys, exp : Nat]

ASSUME SessionAssumption ==
  /\ Broker \in [Viewers -> Hbbs] /\ Relay \in [Sockets -> Hbbr]
  /\ Proven \subseteq Desktops
  /\ TTL \in Nat /\ MaxAsked \in Nat /\ MaxTime \in Nat
  /\ NoGrant \notin SignedGrant

VARIABLES
  time,    \* the clock grants are stamped and verified with
  book,    \* the requests hbbs has accepted
  open,    \* for each controller, the requests that may be granted
  issued,  \* history: for whom, and on whose answer, a request was granted
  signed,  \* the grants
  signer,  \* history: when an hbbs that signed with a key was last stopped
  admits,  \* the grant each connection was admitted with
  joined,  \* pairs <<joiner, waiter>>
  closed   \* connections hbbr has dropped

Book == INSTANCE BrokerBook WITH Controllers <- Viewers, Targets <- Desktops, Provisioned <- Proven

Match == INSTANCE RelayMatch WITH
           clock <- time, Conns <- Sockets, Grants <- SignedGrant,
           Expiry <- [g \in SignedGrant |-> g.exp]

brokerVars == <<book, open, issued, signed, signer>>
relayVars == <<admits, joined, closed>>
sessionVars == <<keyVars, time, brokerVars, relayVars>>

SessionInit ==
  /\ KeyInit /\ Book!BookInit /\ Match!MatchInit
  /\ signed = {}
  /\ signer = [k \in Keys |-> 0]

Serves(p) == proc[p].at = "up"

-----------------------------------------------------------------------------
(* hbbs                                                                    *)

AcceptRequest(v, t) ==
  /\ Serves(Broker[v]) /\ Len(book) < MaxAsked
  /\ Book!Enter(v, t)
  /\ UNCHANGED <<keyVars, time, signed, signer, relayVars>>

\* An entry expires, or an answer that hbbs refuses takes it.
LoseRequests ==
  /\ \E lapsed \in SUBSET (Viewers \X (1..Len(book))) : Book!Lapse(lapsed)
  /\ UNCHANGED <<keyVars, time, signed, signer, relayVars>>

Sign(r, k) == signed' = signed \cup {[req |-> r, key |-> k, exp |-> time + TTL]}

\* Mutants: the request stays open; the key of a rotation under way signs.
MintGrant_Reusable(v, t, r) ==
  /\ Serves(Broker[v]) /\ r \in open[v] /\ (t \in Proven => book[r].target = t)
  /\ issued' = issued \cup {[ctrl |-> v, target |-> book[r].target, by |-> t, req |-> r]}
  /\ Sign(r, proc[Broker[v]].key)
  /\ UNCHANGED <<keyVars, time, book, open, signer, relayVars>>

MintGrant_Rotating(v, t, r) ==
  /\ Serves(Broker[v])
  /\ Book!Issue(v, t, r)
  /\ \E k \in Keys : /\ k = IF tmp[Broker[v]] # NoFile THEN data[tmp[Broker[v]]]
                                                     ELSE proc[Broker[v]].key
                     /\ Sign(r, k)
  /\ UNCHANGED <<keyVars, time, signer, relayVars>>

\* relay_grant_mint with self.inner.sk, which is never replaced while hbbs runs.
MintGrant(v, t, r) ==
  /\ Serves(Broker[v])
  /\ Book!Issue(v, t, r)
  /\ Sign(r, proc[Broker[v]].key)
  /\ UNCHANGED <<keyVars, time, signer, relayVars>>

-----------------------------------------------------------------------------
(* hbbr                                                                    *)

\* Mutant: the expiry of a grant is not verified.
Admit_Unexpiring(c, g) ==
  /\ Serves(Relay[c]) /\ g.key = proc[Relay[c]].key
  /\ admits[c] = NoGrant /\ c \notin closed
  /\ admits' = [admits EXCEPT ![c] = g]
  /\ UNCHANGED <<keyVars, time, brokerVars, joined, closed>>

\* relay_grant_verify with the public half of RELAY_SK, which only a start sets.
Admit(c, g) ==
  /\ Serves(Relay[c]) /\ g.key = proc[Relay[c]].key
  /\ Match!Admit(c, g)
  /\ UNCHANGED <<keyVars, brokerVars>>

\* Each hbbr has a PEERS of its own.
JoinSides(c, d) ==
  /\ Relay[c] = Relay[d]
  /\ Match!Join(c, d)
  /\ UNCHANGED <<keyVars, brokerVars>>

DropSockets ==
  /\ \E S \in SUBSET Sockets : Match!Drop(S)
  /\ UNCHANGED <<keyVars, brokerVars>>

-----------------------------------------------------------------------------
(* The processes, the key file and the clock.                              *)

Stopped == {p \in Processes : Serves(p) /\ proc'[p].at # "up"}

\* A step of SigningKey.  With hbbs its pending_relay goes, with hbbr its connections.
KeyStep ==
  /\ KeyNext
  /\ open' = [v \in Viewers |-> IF Broker[v] \in Stopped THEN {} ELSE open[v]]
  /\ closed' = closed \cup {c \in Sockets : Relay[c] \in Stopped /\ admits[c] # NoGrant}
  /\ signer' = [k \in Keys |-> IF \E p \in Stopped \cap Hbbs : proc[p].key = k THEN time ELSE signer[k]]
  /\ UNCHANGED <<time, book, issued, signed, admits, joined>>

TimePasses ==
  /\ time < MaxTime
  /\ Match!Pass
  /\ UNCHANGED <<keyVars, brokerVars>>

SessionNext ==
  \/ \E v \in Viewers, t \in Desktops :
       AcceptRequest(v, t) \/ \E r \in open[v] : MintGrant(v, t, r)
  \/ LoseRequests
  \/ \E c \in Sockets : (\E g \in signed : Admit(c, g)) \/ (\E d \in Sockets : JoinSides(c, d))
  \/ DropSockets
  \/ KeyStep
  \/ TimePasses

SessionSpec == SessionInit /\ [][SessionNext]_sessionVars

-----------------------------------------------------------------------------
(* Properties.                                                             *)

\* Every variable holds what its code counterpart can hold.
SessionTypeOK ==
  /\ time \in Nat
  /\ book \in Seq([ctrl : Viewers, target : Desktops])
  /\ open \in [Viewers -> SUBSET Nat]
  /\ issued \subseteq [ctrl : Viewers, target : Desktops, by : Desktops, req : Nat]
  /\ signed \subseteq SignedGrant
  /\ signer \in [Keys -> Nat]
  /\ admits \in [Sockets -> SignedGrant \cup {NoGrant}]
  /\ joined \subseteq Sockets \X Sockets
  /\ closed \subseteq Sockets

\* Whom hbbr joins, hbbs has brokered: both sides of a pair reached the same hbbr with one
\* grant, the only one ever signed for a request hbbs accepted, and signed on the answer of
\* the machine that was asked when the answer proves whose it is.
SessionIsBrokered ==
  \A pair \in joined :
    LET g == admits[pair[1]]
    IN /\ Relay[pair[1]] = Relay[pair[2]] /\ admits[pair[2]] = g
       /\ g \in signed /\ \A h \in signed : h.req = g.req => h = g
       /\ g.req \in 1..Len(book)
       /\ \E i \in issued : /\ i.req = g.req
                            /\ book[g.req] = [ctrl |-> i.ctrl, target |-> i.target]
                            /\ i.by \in Proven => i.by = i.target

\* hbbr refuses a grant for its signature only after a rotation: whatever starts race, the
\* keys of hbbs and hbbr differ only when one of them has been retired ("hbbs and hbbr
\* could each mint a different key on a fresh host", gen_sk).
GrantVerifies ==
  \A g \in signed, q \in Hbbr :
    Serves(q) => g.key = proc[q].key \/ {g.key, proc[q].key} \cap retired # {}

\* Some hbbs signs with key k.
Signing(k) == \E p \in Hbbs : Serves(p) /\ proc[p].key = k

\* A key runs out: once no hbbs signs with it any more, an hbbr that still holds it admits
\* nobody from one grant's time later on, until one of the two starts again.
OldKeyRunsOut ==
  [][\A c \in Sockets :
       admits'[c] # admits[c] =>
         LET k == admits'[c].key IN Signing(k) \/ time < signer[k] + TTL]_sessionVars

-----------------------------------------------------------------------------
(* The inductive invariant behind them.                                    *)

\* What is open was asked by its controller, and after all that was granted to it; its
\* hbbs runs.
RequestsAreOpen ==
  /\ \A i \in issued : i.req \in 1..Len(book)
                       /\ book[i.req] = [ctrl |-> i.ctrl, target |-> i.target]
                       /\ (i.by \in Proven => i.by = i.target)
  /\ \A v \in Viewers : \A r \in open[v] :
       /\ Serves(Broker[v])
       /\ r \in 1..Len(book) /\ book[r].ctrl = v
       /\ \A i \in issued : i.ctrl = v => i.req < r

\* One signature for each request that was granted.
GrantsAreIssued ==
  \A g \in signed : /\ \E i \in issued : i.req = g.req
                    /\ \A h \in signed : h.req = g.req => h = g

\* The key a grant is signed with is the one of the file, or retired; a grant outlives the
\* hbbs that signed it by its time at most.
GrantsAreFresh ==
  \A g \in signed : /\ g.key = KeyOnDisk \/ g.key \in retired
                    /\ g.exp <= time + TTL
                    /\ Signing(g.key) \/ g.exp <= signer[g.key] + TTL

\* Who is admitted showed a signed grant; who is joined showed the same.
SidesAreAdmitted ==
  /\ \A c \in Sockets : admits[c] \in signed \cup {NoGrant}
  /\ \A pair \in joined : /\ Relay[pair[1]] = Relay[pair[2]]
                          /\ admits[pair[1]] = admits[pair[2]] /\ admits[pair[1]] # NoGrant

\* Together with KeyInv this is preserved by every step.
SessionInv ==
  /\ SessionTypeOK
  /\ RequestsAreOpen /\ GrantsAreIssued /\ GrantsAreFresh /\ SidesAreAdmitted
  /\ SessionIsBrokered
=============================================================================
