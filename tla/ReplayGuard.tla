----------------------------- MODULE ReplayGuard -----------------------------
(***************************************************************************)
(* Sealed credentials and sealed requests are accepted within a window     *)
(* around the time at which they were sealed, and their nonces are kept     *)
(* so that none is accepted twice (sealed_login_guard and                  *)
(* sealed_request_guard in nemo_management.rs).  Credentials and requests   *)
(* have a cache each, of limited size.                                      *)
(***************************************************************************)
EXTENDS Integers, FiniteSets

CONSTANTS Credentials, \* envelopes for /api/login, each with a nonce of its own
          Sealed,      \* envelopes for the other endpoints, likewise
          Bare,        \* credentials of older clients, without a nonce
          SealedAt,    \* the client's clock when it sealed an envelope
          MaxAge,      \* SEALED_LOGIN_MAX_AGE_SECS
          MaxSkew,     \* SEALED_LOGIN_MAX_SKEW_SECS
          MaxNonces,   \* MAX_SEEN_NONCES
          MaxTime      \* bound: the clock stops here

Envelopes == Credentials \cup Sealed \cup Bare
Never == -1
Seen == 0..MaxTime \cup {Never}

ASSUME ReplayAssumption ==
  /\ SealedAt \in [Envelopes -> Nat]
  /\ Credentials \cap Sealed = {} /\ Bare \cap (Credentials \cup Sealed) = {}
  /\ MaxAge \in Nat /\ MaxSkew \in Nat /\ MaxTime \in Nat /\ MaxNonces \in Nat \ {0}

VARIABLES
  time,      \* the server's clock
  nonces,    \* SEEN_LOGIN_NONCES and SEEN_REQUEST_NONCES: when each was seen, or Never
  opens,     \* envelopes sealed to a key the server still has
  accepted,  \* history: when an envelope was last accepted, or Never
  evicted    \* history: accepted envelopes whose nonce was pushed out or lost

replayVars == <<time, nonces, opens, accepted, evicted>>

ReplayInit ==
  /\ time = 0
  /\ nonces = [e \in Envelopes |-> Never]
  /\ opens = Envelopes
  /\ accepted = [e \in Envelopes |-> Never]
  /\ evicted = {}

\* The window on the time of sealing.
Fresh(e) == time - SealedAt[e] <= MaxAge /\ SealedAt[e] - time <= MaxSkew

\* The cache that remembers e.
CacheOf(e) == IF e \in Credentials THEN Credentials ELSE Sealed

\* Mutant: nonces are kept for less than the window.
Kept_Short(cache) == {e \in cache : nonces[e] # Never /\ time - nonces[e] < MaxAge}

\* The nonces that survive the pruning by age.
Kept(cache) == {e \in cache : nonces[e] # Never /\ time - nonces[e] <= MaxAge}

\* What has to go to make room for one more: the oldest, until there is room.
Victims(cache) ==
  {v \in SUBSET Kept(cache) :
     /\ Cardinality(Kept(cache) \ v) < MaxNonces
     /\ v # {} => Cardinality(Kept(cache) \ v) = MaxNonces - 1
     /\ \A e \in v, f \in Kept(cache) \ v : nonces[e] <= nonces[f]}

\* The cache keeps only these of its nonces, and adds those.
Store(cache, old, new) ==
  nonces' = [e \in Envelopes |-> IF e \in new THEN time
                                 ELSE IF e \in cache \ old THEN Never ELSE nonces[e]]

\* An envelope arrives, for the first time or again.
Accept(e) ==
  /\ e \in opens \ Bare /\ Fresh(e) /\ e \notin Kept(CacheOf(e))
  /\ \E v \in Victims(CacheOf(e)) :
       /\ Store(CacheOf(e), Kept(CacheOf(e)) \ v, {e})
       /\ evicted' = (evicted \cup v) \ {e}
  /\ accepted' = [accepted EXCEPT ![e] = time]
  /\ UNCHANGED <<time, opens>>

\* Seen already: the pruning is all that is left of it.
RefuseReplay(e) ==
  /\ e \in opens \ Bare /\ Fresh(e) /\ e \in Kept(CacheOf(e))
  /\ Store(CacheOf(e), Kept(CacheOf(e)), {})
  /\ UNCHANGED <<time, opens, accepted, evicted>>

\* Without a nonce the window is all there is; sealed requests must have one.
AcceptBare(e) ==
  /\ e \in opens \cap Bare /\ Fresh(e)
  /\ accepted' = [accepted EXCEPT ![e] = time]
  /\ UNCHANGED <<time, nonces, opens, evicted>>

ReplayTick ==
  /\ time < MaxTime
  /\ time' = time + 1
  /\ UNCHANGED <<nonces, opens, accepted, evicted>>

\* The caches are in memory only.  So is the key of credentials: what was sealed to the
\* last one cannot be opened.  Requests are sealed to the server's permanent key.
ReplayRestart ==
  /\ nonces' = [e \in Envelopes |-> Never]
  /\ opens' = {e \in opens : e \in Sealed \/ accepted[e] = Never}
  /\ evicted' = {e \in Credentials \cup Sealed : accepted[e] # Never}
  /\ UNCHANGED <<time, accepted>>

ReplayNext ==
  \/ \E e \in Envelopes : Accept(e) \/ RefuseReplay(e) \/ AcceptBare(e)
  \/ ReplayTick
  \/ ReplayRestart

ReplaySpec == ReplayInit /\ [][ReplayNext]_replayVars

-----------------------------------------------------------------------------
(* Properties.                                                             *)

\* Every variable holds what its code counterpart can hold.
ReplayTypeOK ==
  /\ time \in 0..MaxTime
  /\ nonces \in [Envelopes -> Seen] /\ accepted \in [Envelopes -> Seen]
  /\ opens \subseteq Envelopes /\ evicted \subseteq Envelopes

\* A nonce that was accepted is in its cache while it is not too old, unless it was
\* pushed out or lost; times do not lie in the future.
CacheIsComplete ==
  \A e \in Envelopes \ Bare :
    /\ accepted[e] <= time /\ nonces[e] <= time
    /\ accepted[e] # Never /\ e \notin evicted /\ time - accepted[e] <= MaxAge =>
         nonces[e] = accepted[e]

\* MAX_SEEN_NONCES holds of each cache.
CacheIsBounded ==
  \A cache \in {Credentials, Sealed} : Cardinality({e \in cache : nonces[e] # Never}) <= MaxNonces

\* The inductive invariant of the caches (sealed_login_guard).
ReplayInv == ReplayTypeOK /\ CacheIsComplete /\ CacheIsBounded

\* "At-most-once nonces within the window" (sealed_login_guard), as far as the code goes:
\* an envelope is accepted again only if its nonce was pushed out of a full cache or
\* lost in a restart, or if the client's clock was ahead of the server's, so that the
\* envelope stays fresh longer than its nonce is kept.  No credential survives a restart.
ReplayNeedsCause ==
  [][\A e \in Envelopes \ Bare :
       accepted[e] # Never /\ accepted'[e] # accepted[e] =>
         e \in evicted \/ SealedAt[e] > accepted[e]]_replayVars

=============================================================================
