------------------------------ MODULE DeviceKeys ------------------------------
(***************************************************************************)
(* The pinned device keys and the requests to bind them                    *)
(* (nemo_integration.rs), the routes by which the operator administers      *)
(* them (nemo_management.rs), and the two places where a client proves one: *)
(* the signature on a management request and the rendezvous handshake.     *)
(*                                                                         *)
(* A key is bound to one peer id, or to none yet: then it authenticates    *)
(* nothing, and the first client that proves it files a claim, which the   *)
(* operator approves or denies.  The proof reads the registry under        *)
(* several lock acquisitions; the operator can act between any two of them. *)
(***************************************************************************)
EXTENDS Naturals, FiniteSets

CONSTANTS Keys,          \* key pairs the server may mint
          Peers,         \* ids that clients report and operators type
          Malformed,     \* those of Peers that valid_peer_id refuses
          Holds,         \* pairs <<k, p>>: the machine p has the private half of k
          Requests,      \* tasks that verify a proof: HTTP requests and connections
          Free,          \* the binding of an unbound key: the empty id
          Unminted,      \* not generated yet
          Deleted,       \* removed from the registry
          NoAsk,         \* a request that has not said anything yet
          AllowUnbound,  \* --allow-unbound-device-keys
          MaxPerKey,     \* MAX_PENDING_PER_KEY
          MaxClaims,     \* MAX_PENDING_CLAIMS
          MaxSeen        \* bound: how many claims follow each other in a table never empty

Bindings == Peers \cup {Free}
Ask == [key : Keys, peer : Peers]

ASSUME KeysAssumption ==
  /\ Malformed \subseteq Peers /\ Holds \subseteq Keys \X Peers
  /\ {Free, Unminted, Deleted} \cap Peers = {}
  /\ Free # Unminted /\ Free # Deleted /\ Unminted # Deleted
  /\ NoAsk \notin Ask
  /\ AllowUnbound \in BOOLEAN
  /\ MaxPerKey \in Nat \ {0} /\ MaxClaims \in Nat \ {0} /\ MaxSeen \in Nat

VARIABLES
  bound,     \* device_keys: the binding of each key, or why it has none
  claims,    \* pending_device_key_claims; `seen' orders them by first_seen
  claiming,  \* claim_unbound_device_keys
  stage,     \* how far the proof of each request has got
  asks,      \* the key and the id the request names
  saw,       \* the binding device_key_binding returned to it
  tied,      \* history: pairs the operator has bound by hand or by approval
  typed      \* history: the keys whose binding the operator last typed

keysVars == <<bound, claims, claiming, stage, asks, saw, tied, typed>>
registry == <<bound, claims, claiming, tied, typed>>
taskVars == <<stage, asks, saw>>

Claim == [key : Keys, peer : Peers, seen : Nat, denied : BOOLEAN]
ClaimsOf(k) == {c \in claims : c.key = k}

\* is_device_key_pinned
Pinned(k) == bound[k] \in Bindings

KeysInit ==
  /\ bound = [k \in Keys |-> Unminted]
  /\ claims = {}
  /\ claiming \in BOOLEAN
  /\ stage = [r \in Requests |-> "idle"]
  /\ asks = [r \in Requests |-> NoAsk]
  /\ saw = [r \in Requests |-> Free]
  /\ tied = {} /\ typed = {}

-----------------------------------------------------------------------------
(* The proof: verify_device_signature_proof and nemo_client_auth_open.     *)

GoTo(r, from, to) == stage[r] = from /\ stage' = [stage EXCEPT ![r] = to]

\* The request is answered, or the connection is over.
Leave(r, from) ==
  /\ GoTo(r, from, "idle")
  /\ asks' = [asks EXCEPT ![r] = NoAsk]
  /\ saw' = [saw EXCEPT ![r] = Free]

\* is_device_key_pinned and device_key_binding: a request for a key that is not pinned is
\* refused at once, by either.
Present(r) ==
  \E a \in Ask :
    /\ Pinned(a.key)
    /\ GoTo(r, "idle", "read")
    /\ asks' = [asks EXCEPT ![r] = a]
    /\ saw' = [saw EXCEPT ![r] = bound[a.key]]
    /\ UNCHANGED registry

\* Mutant: a pending claim counts as a binding.
Decision_ClaimIsProof(binding, peer) ==
  IF binding = peer \/ (binding = Free /\ (AllowUnbound \/ claiming)) THEN "Proven" ELSE "Refused"

\* device_key_binding_decision
Decision(binding, peer) ==
  IF binding = peer \/ (binding = Free /\ AllowUnbound) THEN "Proven"
  ELSE IF binding = Free /\ claiming THEN "ClaimOnProof"
  ELSE "Refused"

\* The rule first, the signature over this id, domain and time second.
Decide(r) ==
  LET verdict == IF <<asks[r].key, asks[r].peer>> \in Holds
                   THEN Decision(saw[r], asks[r].peer) ELSE "Refused"
  IN /\ stage[r] = "read"
     /\ \/ verdict = "Proven" /\ GoTo(r, "read", "accepted") /\ UNCHANGED <<asks, saw>>
        \/ verdict = "ClaimOnProof" /\ GoTo(r, "read", "claim") /\ UNCHANGED <<asks, saw>>
        \/ verdict = "Refused" /\ Leave(r, "read")
     /\ UNCHANGED registry

\* Mutant: a denial makes room as well.
Evictable_Any == {c \in claims : \A d \in claims : c.seen <= d.seen}

\* What makes room in a full table: its oldest claim that still waits.
Evictable == {c \in claims : ~c.denied /\ \A d \in claims : d.denied \/ c.seen <= d.seen}

\* The claim of a at time s, the next after those on file.
IsNext(s) == /\ \A c \in claims : c.seen < s
             /\ s = 0 \/ \E c \in claims : c.seen = s - 1
NewClaim(a, s) == [key |-> a.key, peer |-> a.peer, seen |-> s, denied |-> FALSE]

\* register_pending_claim_in, past its early returns.
AddClaim(a) ==
  \E s \in 0..MaxSeen :
    /\ IsNext(s)
    /\ \/ /\ Cardinality(claims) < MaxClaims
          /\ claims' = claims \cup {NewClaim(a, s)}
       \/ /\ Cardinality(claims) >= MaxClaims
          /\ \E c \in Evictable : claims' = (claims \ {c}) \cup {NewClaim(a, s)}

\* Rejected, Repeat or Denied, and Full.
NotFiled(a) ==
  \/ ~Pinned(a.key) \/ a.peer \in Malformed
  \/ \E c \in ClaimsOf(a.key) : c.peer = a.peer
  \/ Cardinality(ClaimsOf(a.key)) >= MaxPerKey
  \/ Cardinality(claims) >= MaxClaims /\ Evictable = {}

\* register_pending_claim; the request is refused whatever comes of it.
RegisterPendingClaim(r) ==
  LET a == asks[r] IN
  /\ Leave(r, "claim")
  /\ IF NotFiled(a) THEN UNCHANGED claims ELSE AddClaim(a)
  /\ UNCHANGED <<bound, claiming, tied, typed>>

\* The next frame of an accepted connection finds its key still pinned, or ends it.
Frame(r) ==
  /\ stage[r] = "accepted"
  /\ \/ Pinned(asks[r].key) /\ GoTo(r, "accepted", "serving") /\ UNCHANGED <<asks, saw>>
     \/ ~Pinned(asks[r].key) /\ Leave(r, "accepted")
  /\ UNCHANGED registry

\* The frame has been handled, or the request or connection is over.
Finish(r) ==
  /\ \/ GoTo(r, "serving", "accepted") /\ UNCHANGED <<asks, saw>>
     \/ Leave(r, "accepted")
  /\ UNCHANGED registry

-----------------------------------------------------------------------------
(* The operator.                                                           *)

\* POST /device-keys: a fresh pair, bound to the id typed, if any.
Generate(k, b) ==
  /\ bound[k] = Unminted
  /\ bound' = [bound EXCEPT ![k] = b]
  /\ tied' = tied \cup {<<k, b>>} /\ typed' = typed \cup {k}
  /\ UNCHANGED <<claims, claiming, taskVars>>

\* DELETE /device-keys/:id.
RemoveDeviceKey(k) ==
  /\ Pinned(k)
  /\ bound' = [bound EXCEPT ![k] = Deleted]
  /\ claims' = claims \ ClaimsOf(k)
  /\ UNCHANGED <<claiming, tied, typed, taskVars>>

\* set_device_key_peer_id: bind, re-bind or clear by hand.
SetPeerId(k, b) ==
  /\ Pinned(k) /\ b \notin Malformed
  /\ bound' = [bound EXCEPT ![k] = b]
  /\ claims' = claims \ ClaimsOf(k)
  /\ tied' = tied \cup {<<k, b>>} /\ typed' = typed \cup {k}
  /\ UNCHANGED <<claiming, taskVars>>

\* Mutant: the binding is not looked at again.
Approve_Overwrites(c) ==
  /\ Pinned(c.key)
  /\ bound' = [bound EXCEPT ![c.key] = c.peer]
  /\ claims' = claims \ ClaimsOf(c.key)
  /\ tied' = tied \cup {<<c.key, c.peer>>} /\ typed' = typed \ {c.key}
  /\ UNCHANGED <<claiming, taskVars>>

\* approve_device_key_claim: claim_device_key_in binds an unbound key only.
Approve(c) ==
  /\ bound[c.key] \in {Free, c.peer}
  /\ bound' = [bound EXCEPT ![c.key] = c.peer]
  /\ claims' = claims \ ClaimsOf(c.key)
  /\ tied' = tied \cup {<<c.key, c.peer>>} /\ typed' = typed \ {c.key}
  /\ UNCHANGED <<claiming, taskVars>>

\* deny_device_key_claim
Deny(c) ==
  /\ claims' = (claims \ {c}) \cup {[c EXCEPT !.denied = TRUE]}
  /\ UNCHANGED <<bound, claiming, tied, typed, taskVars>>

\* forget_device_key_claim
Forget(c) ==
  /\ claims' = claims \ {c}
  /\ UNCHANGED <<bound, claiming, tied, typed, taskVars>>

SetClaimUnbound(b) ==
  /\ claiming' = b
  /\ UNCHANGED <<bound, claims, tied, typed, taskVars>>

\* hbbs restarts: tasks are gone, the configuration is read back from its file.
KeysRestart ==
  /\ stage' = [r \in Requests |-> "idle"]
  /\ asks' = [r \in Requests |-> NoAsk]
  /\ saw' = [r \in Requests |-> Free]
  /\ UNCHANGED registry

Operator ==
  \/ \E k \in Keys, b \in Bindings : Generate(k, b) \/ SetPeerId(k, b)
  \/ \E k \in Keys : RemoveDeviceKey(k)
  \/ \E c \in claims : Approve(c) \/ Deny(c) \/ Forget(c)
  \/ \E b \in BOOLEAN : SetClaimUnbound(b)

KeysNext ==
  \/ \E r \in Requests :
       Present(r) \/ Decide(r) \/ RegisterPendingClaim(r) \/ Frame(r) \/ Finish(r)
  \/ Operator
  \/ KeysRestart

KeysSpec == KeysInit /\ [][KeysNext]_keysVars

-----------------------------------------------------------------------------
(* Properties.                                                             *)

\* Every variable holds what its code counterpart can hold.
KeysTypeOK ==
  /\ bound \in [Keys -> Bindings \cup {Unminted, Deleted}]
  /\ claims \subseteq Claim /\ IsFiniteSet(claims)
  /\ claiming \in BOOLEAN
  /\ stage \in [Requests -> {"idle", "read", "claim", "accepted", "serving"}]
  /\ asks \in [Requests -> Ask \cup {NoAsk}]
  /\ \A r \in Requests : stage[r] # "idle" => asks[r] \in Ask
  /\ saw \in [Requests -> Bindings]
  /\ tied \subseteq Keys \X Bindings /\ typed \subseteq Keys

\* No claim outlives its key (remove_device_key drops a key's claims, and
\* register_pending_claim looks again whether the key is pinned), and none is on file for
\* a machine that does not hold the key.
ClaimsAreProven == \A c \in claims : Pinned(c.key) /\ <<c.key, c.peer>> \in Holds

\* The persisted table stays within MAX_PENDING_PER_KEY and MAX_PENDING_CLAIMS, with
\* one row for each key and id (register_pending_claim_in).
ClaimTableIsBounded ==
  /\ Cardinality(claims) <= MaxClaims
  /\ \A k \in Keys : Cardinality(ClaimsOf(k)) <= MaxPerKey
  /\ \A c, d \in claims : c.key = d.key /\ c.peer = d.peer => c = d

\* A pending claim grants nothing: a proof is only ever accepted for an id to which the
\* operator has bound the key, by hand or by approving a claim, unless unbound keys
\* are allowed (device_key_binding_decision at both enforcement points).
AcceptedIsTied ==
  \A r \in Requests : stage[r] \in {"accepted", "serving"} =>
    /\ <<asks[r].key, asks[r].peer>> \in Holds
    /\ \/ <<asks[r].key, asks[r].peer>> \in tied
       \/ AllowUnbound /\ <<asks[r].key, Free>> \in tied

\* What it rests on: the registry, and what a request has read of it, hold what the
\* operator has tied; only a machine with the key gets as far as a claim.
RegistryIsTied ==
  /\ \A k \in Keys : Pinned(k) => <<k, bound[k]>> \in tied
  /\ \A r \in Requests : stage[r] = "read" => <<asks[r].key, saw[r]>> \in tied
  /\ \A r \in Requests : stage[r] = "claim" => <<asks[r].key, asks[r].peer>> \in Holds

\* The inductive invariant.
KeysIInv ==
  /\ KeysTypeOK /\ ClaimsAreProven /\ ClaimTableIsBounded
  /\ AcceptedIsTied /\ RegistryIsTied

\* One token, one machine: whatever claims were filed by requests that had read the
\* registry before, a bound key passes to another id only by the operator's typing
\* it (claim_device_key_in looks at the binding again under the lock).
OneTokenOneMachine ==
  [][\A k \in Keys : bound[k] \in Peers /\ bound'[k] # bound[k] =>
       bound'[k] = Deleted \/ k \in typed']_keysVars

\* A denial holds against retries, a full table and restarts: only the operator's
\* decision about that claim or its key takes it away.
DenialSticks ==
  [][\A c \in claims : c.denied /\ c \notin claims' =>
       \/ Forget(c) \/ RemoveDeviceKey(c.key)
       \/ \E b \in Bindings : SetPeerId(c.key, b)
       \/ \E d \in ClaimsOf(c.key) : Approve(d)]_keysVars
=============================================================================
