----------------------------- MODULE SignInProofs -----------------------------
(***************************************************************************)
(* Proofs about what stands in front of a session (Logins): a sealed       *)
(* request is taken once (ReplayGuard), who fails too often is refused     *)
(* (SprayGuard), and the name a sign-in is given is a name of the account  *)
(* that was bound (Directory), for any number of requests, sources and     *)
(* accounts, any directory and any windows and limits.                     *)
(***************************************************************************)
EXTENDS ReplayGuard, SprayGuard, Directory, FiniteSetTheorems, TLAPS

-----------------------------------------------------------------------------
(* Sealed requests and the nonces that are remembered.                     *)

\* The nonces a cache remembers.
Remembered(cache) == {e \in cache : nonces[e] # Never}

\* A cache only ever holds finitely many of them, however many envelopes there are.
CachesAreFinite ==
  \A cache \in {Credentials, Sealed} : IsFiniteSet(Remembered(cache))

\* The inductive invariant.
ReplayIInv == ReplayInv /\ CachesAreFinite

\* What Store leaves in a cache and in the other one.
LEMMA StoreKeeps ==
  ASSUME NEW cache \in {Credentials, Sealed}, NEW old \in SUBSET Kept(cache), NEW new \in SUBSET cache,
         ReplayIInv, Store(cache, old, new), time' = time,
         IsFiniteSet(new), Cardinality(old \cup new) <= MaxNonces
  PROVE  CacheIsBounded' /\ CachesAreFinite' /\ nonces' \in [Envelopes -> Seen]
  <1> USE ReplayAssumption
  <1>1. nonces' \in [Envelopes -> Seen]
    BY DEF ReplayIInv, ReplayInv, ReplayTypeOK, Store, Seen, Never
  <1>2. Remembered(cache)' = old \cup new
    BY DEF Remembered, Kept, Store, ReplayIInv, ReplayInv, ReplayTypeOK, Envelopes, Never, Seen
  <1>3. old \subseteq Remembered(cache)
    BY DEF Kept, Remembered
  <1>4. IsFiniteSet(Remembered(cache)')
    BY <1>2, <1>3, FS_Subset, FS_Union DEF ReplayIInv, CachesAreFinite
  <1>5. ASSUME NEW other \in {Credentials, Sealed}, other # cache
        PROVE  Remembered(other)' = Remembered(other)
    BY <1>5 DEF Remembered, Store, ReplayIInv, ReplayInv, ReplayTypeOK, Envelopes
  <1>6. CachesAreFinite'
    BY <1>4, <1>5 DEF CachesAreFinite, ReplayIInv
  <1>7. CacheIsBounded'
    BY <1>2, <1>5 DEF CacheIsBounded, Remembered, ReplayIInv, ReplayInv
  <1>8. QED
    BY <1>1, <1>6, <1>7

\* An envelope with a nonce belongs to the cache that remembers it.
LEMMA CacheOfIsACache ==
  ASSUME NEW e \in Envelopes \ Bare
  PROVE  CacheOf(e) \in {Credentials, Sealed} /\ e \in CacheOf(e)
  BY DEF CacheOf, Envelopes

LEMMA AcceptKeeps ==
  ASSUME ReplayIInv, NEW e \in Envelopes, Accept(e)
  PROVE  ReplayIInv'
  <1> DEFINE cache == CacheOf(e)
  <1> USE ReplayAssumption
  <1>1. e \in Envelopes \ Bare /\ cache \in {Credentials, Sealed} /\ e \in cache
    BY CacheOfIsACache DEF Accept, ReplayIInv, ReplayInv, ReplayTypeOK
  <1>2. PICK v \in Victims(cache) : /\ Store(cache, Kept(cache) \ v, {e})
                                    /\ evicted' = (evicted \cup v) \ {e}
    BY DEF Accept
  <1>3. v \in SUBSET Kept(cache) /\ Cardinality(Kept(cache) \ v) < MaxNonces
    BY <1>2 DEF Victims
  <1> DEFINE old == Kept(cache) \ v
  <1>4. IsFiniteSet(old)
    BY <1>1, FS_Subset DEF Kept, Remembered, ReplayIInv, CachesAreFinite
  <1>5. Cardinality(old \cup {e}) <= MaxNonces /\ IsFiniteSet({e})
    <2>1. Cardinality(old) \in Nat /\ Cardinality(old) < MaxNonces
      BY <1>3, <1>4, FS_CardinalityType
    <2>2. Cardinality(old \cup {e}) \in {Cardinality(old), Cardinality(old) + 1}
      BY <1>4, FS_AddElement
    <2>3. QED
      BY <2>1, <2>2, FS_Singleton
  <1>6. time' = time /\ opens' = opens /\ accepted' = [accepted EXCEPT ![e] = time]
    BY DEF Accept
  <1> HIDE DEF cache, old
  <1>7. CacheIsBounded' /\ CachesAreFinite' /\ nonces' \in [Envelopes -> Seen]
    BY <1>1, <1>2, <1>3, <1>5, <1>6, StoreKeeps DEF old
  <1>8. ReplayTypeOK'
    BY <1>1, <1>2, <1>3, <1>6, <1>7 DEF ReplayTypeOK, ReplayIInv, ReplayInv, Seen, Kept, Envelopes
  <1>9. CacheIsComplete'
    <2> SUFFICES ASSUME NEW f \in Envelopes \ Bare
                 PROVE  /\ accepted'[f] <= time' /\ nonces'[f] <= time'
                        /\ accepted'[f] # Never /\ f \notin evicted' /\ time' - accepted'[f] <= MaxAge =>
                             nonces'[f] = accepted'[f]
      BY DEF CacheIsComplete
    <2>1. CASE f = e
      BY <2>1, <1>1, <1>2, <1>6 DEF Store, ReplayIInv, ReplayInv, ReplayTypeOK
    <2>2. CASE f # e
      <3>1. accepted'[f] = accepted[f] /\ time' = time
        BY <2>2, <1>6 DEF ReplayIInv, ReplayInv, ReplayTypeOK
      <3>2. nonces'[f] = IF f \in cache \ old THEN Never ELSE nonces[f]
        BY <2>2, <1>2 DEF Store, old
      <3>3. accepted[f] <= time /\ nonces[f] <= time /\ time \in Nat /\ accepted[f] \in Int
        BY DEF ReplayIInv, ReplayInv, CacheIsComplete, ReplayTypeOK, Seen, Never
      <3>4. CASE f \in cache \ old
        <4>1. f \in v => f \in evicted'
          BY <1>2, <2>2
        <4>2. f \notin v => f \notin Kept(cache)
          BY <3>4 DEF old
        <4>3. accepted[f] # Never /\ f \notin evicted /\ time - accepted[f] <= MaxAge =>
                f \in Kept(cache)
          BY <3>3, <3>4 DEF Kept, ReplayIInv, ReplayInv, CacheIsComplete
        <4>4. f \notin evicted' => f \notin evicted
          BY <1>2, <2>2
        <4>5. nonces'[f] = Never /\ Never <= time
          BY <3>2, <3>3, <3>4 DEF Never
        <4>6. QED
          BY <3>1, <3>3, <4>1, <4>2, <4>3, <4>4, <4>5
      <3>5. CASE f \notin cache \ old
        BY <3>1, <3>2, <3>3, <3>5, <1>2, <2>2 DEF ReplayIInv, ReplayInv, CacheIsComplete
      <3>6. QED
        BY <3>4, <3>5
    <2>3. QED
      BY <2>1, <2>2
  <1>10. QED
    BY <1>7, <1>8, <1>9 DEF ReplayIInv, ReplayInv

LEMMA RefuseKeeps ==
  ASSUME ReplayIInv, NEW e \in Envelopes, RefuseReplay(e)
  PROVE  ReplayIInv'
  <1> DEFINE cache == CacheOf(e)
  <1> USE ReplayAssumption
  <1>1. cache \in {Credentials, Sealed}
    BY CacheOfIsACache DEF RefuseReplay
  <1>2. /\ Store(cache, Kept(cache), {})
        /\ time' = time /\ opens' = opens /\ accepted' = accepted /\ evicted' = evicted
    BY DEF RefuseReplay
  <1> HIDE DEF cache
  <1>3. Kept(cache) \subseteq Remembered(cache)
    BY DEF Kept, Remembered
  <1>4. IsFiniteSet({}) /\ Cardinality(Kept(cache) \cup {}) <= MaxNonces
    <2>1. IsFiniteSet(Remembered(cache)) /\ Cardinality(Remembered(cache)) <= MaxNonces
      BY <1>1 DEF Remembered, ReplayIInv, ReplayInv, CachesAreFinite, CacheIsBounded
    <2>2. IsFiniteSet(Kept(cache)) /\ Cardinality(Kept(cache)) <= Cardinality(Remembered(cache))
      BY <1>3, <2>1, FS_Subset
    <2>3. Cardinality(Kept(cache)) \in Nat /\ Cardinality(Remembered(cache)) \in Nat
      BY <2>1, <2>2, FS_CardinalityType
    <2>4. Kept(cache) \cup {} = Kept(cache)
      OBVIOUS
    <2>5. QED
      BY <2>1, <2>2, <2>3, <2>4, FS_EmptySet
  <1>5. CacheIsBounded' /\ CachesAreFinite' /\ nonces' \in [Envelopes -> Seen]
    BY <1>1, <1>2, <1>4, StoreKeeps
  <1>6. ReplayTypeOK'
    BY <1>2, <1>5 DEF ReplayTypeOK, ReplayIInv, ReplayInv
  <1>7. CacheIsComplete'
    BY <1>1, <1>2 DEF CacheIsComplete, ReplayIInv, ReplayInv, ReplayTypeOK, Store, Kept, Seen, Never
  <1>8. QED
    BY <1>5, <1>6, <1>7 DEF ReplayIInv, ReplayInv

LEMMA ReplayInitInv == ReplayInit => ReplayIInv
  <1> SUFFICES ASSUME ReplayInit PROVE ReplayIInv
    OBVIOUS
  <1> USE ReplayAssumption DEF ReplayInit
  <1>1. ReplayTypeOK
    BY DEF ReplayTypeOK, Seen
  <1>2. \A cache \in {Credentials, Sealed} : Remembered(cache) = {}
    BY DEF Remembered, Envelopes
  <1>3. CachesAreFinite /\ CacheIsBounded
    BY <1>2, FS_EmptySet DEF CachesAreFinite, CacheIsBounded, Remembered
  <1>4. CacheIsComplete
    BY DEF CacheIsComplete, Never
  <1>5. QED
    BY <1>1, <1>3, <1>4 DEF ReplayIInv, ReplayInv

LEMMA ReplayNextInv == ReplayIInv /\ [ReplayNext]_replayVars => ReplayIInv'
  <1> SUFFICES ASSUME ReplayIInv, [ReplayNext]_replayVars PROVE ReplayIInv'
    OBVIOUS
  <1> USE ReplayAssumption
  <1>1. CASE \E e \in Envelopes : AcceptBare(e)
    <2>1. PICK e \in Envelopes : AcceptBare(e)
      BY <1>1
    <2>2. /\ e \in Bare /\ accepted' = [accepted EXCEPT ![e] = time]
          /\ UNCHANGED <<time, nonces, opens, evicted>>
      BY <2>1 DEF AcceptBare
    <2>3. QED
      BY <2>2 DEF ReplayIInv, ReplayInv, ReplayTypeOK, CacheIsComplete, CacheIsBounded, CachesAreFinite,
                  Remembered, Seen
  <1>2. CASE ReplayTick
    BY <1>2 DEF ReplayTick, ReplayIInv, ReplayInv, ReplayTypeOK, CacheIsComplete, CacheIsBounded,
                CachesAreFinite, Remembered, Seen, Never
  <1>3. CASE ReplayRestart
    <2>1. \A cache \in {Credentials, Sealed} : Remembered(cache)' = {}
      BY <1>3 DEF ReplayRestart, Remembered, Envelopes
    <2>2. CachesAreFinite' /\ CacheIsBounded'
      BY <2>1, FS_EmptySet DEF CachesAreFinite, CacheIsBounded, Remembered
    <2>3. ReplayTypeOK' /\ CacheIsComplete'
      BY <1>3 DEF ReplayRestart, ReplayIInv, ReplayInv, ReplayTypeOK, CacheIsComplete, Seen, Never,
                  Envelopes
    <2>4. QED
      BY <2>2, <2>3 DEF ReplayIInv, ReplayInv
  <1>4. CASE UNCHANGED replayVars
    BY <1>4 DEF replayVars, ReplayIInv, ReplayInv, ReplayTypeOK, CacheIsComplete, CacheIsBounded,
                CachesAreFinite, Remembered, Kept
  <1>5. QED
    BY <1>1, <1>2, <1>3, <1>4, AcceptKeeps, RefuseKeeps DEF ReplayNext

\* The nonce caches are complete up to what was pushed out of them, and bounded, for any
\* number of envelopes and any clocks (sealed_login_guard, sealed_request_guard).
THEOREM ReplayInvariant == ReplaySpec => []ReplayInv
  <1>1. ReplayIInv => ReplayInv
    BY DEF ReplayIInv
  <1>2. QED
    BY <1>1, ReplayInitInv, ReplayNextInv, PTL DEF ReplaySpec

\* An envelope is accepted again only if its nonce was pushed out or lost, or if it was
\* sealed by a clock ahead of the one that accepted it (sealed_login_guard).
THEOREM ReplaysHaveCauses == ReplaySpec => ReplayNeedsCause
  <1>1. ASSUME ReplayIInv, ReplayNext, NEW e \in Envelopes \ Bare,
               accepted[e] # Never, accepted'[e] # accepted[e], e \notin evicted
        PROVE  SealedAt[e] > accepted[e]
    <2>1. PICK f \in Envelopes : Accept(f) \/ AcceptBare(f)
      BY <1>1 DEF ReplayNext, RefuseReplay, ReplayTick, ReplayRestart
    <2>2. accepted' = [accepted EXCEPT ![f] = time]
      BY <2>1 DEF Accept, AcceptBare
    <2>3. f = e
      BY <1>1, <2>2 DEF ReplayIInv, ReplayInv, ReplayTypeOK
    <2>4. Fresh(e) /\ e \notin Kept(CacheOf(e))
      BY <1>1, <2>1, <2>3 DEF Accept, AcceptBare
    <2>5. e \in CacheOf(e)
      BY <1>1, CacheOfIsACache
    <2>6. time - accepted[e] > MaxAge
      BY <1>1, <2>4, <2>5, ReplayAssumption
         DEF Kept, ReplayIInv, ReplayInv, ReplayTypeOK, CacheIsComplete, Seen, Never
    <2>7. time \in Nat /\ accepted[e] \in Nat /\ SealedAt[e] \in Nat
      BY <1>1, ReplayAssumption DEF ReplayIInv, ReplayInv, ReplayTypeOK, Seen, Never
    <2>8. QED
      BY <2>4, <2>6, <2>7, ReplayAssumption DEF Fresh
  <1>2. ReplayIInv /\ [ReplayNext]_replayVars =>
          [\A e \in Envelopes \ Bare :
             accepted[e] # Never /\ accepted'[e] # accepted[e] =>
               e \in evicted \/ SealedAt[e] > accepted[e]]_replayVars
    BY <1>1
  <1>3. QED
    BY <1>2, ReplayInitInv, ReplayNextInv, PTL DEF ReplaySpec, ReplayNeedsCause

-----------------------------------------------------------------------------
(* Sign-ins that fail too often.                                           *)

Failure == [source : Sources, account : Usernames, at : Nat]

\* The deadline of a window was set by the trip that closedAt remembers, if by any.
TripsAreNoted ==
  \A s \in Sources : windows[s] # Untracked =>
    windows[s].until = 0 \/ (closedAt[s] # 0 /\ windows[s].until = closedAt[s] + SourceCooldown)

\* Every account a window counts has failed since the window began.
Accounted(w, length, fs) ==
  /\ w.started <= clock
  /\ clock - w.started < length =>
       \A a \in w.accounts : \E f \in fs : f.account = a /\ f.at >= w.started

FailuresOf(s) == {f \in failures : f.source = s}

\* The windows count what has failed; what has failed is finite.
WindowsAreAccounted ==
  /\ IsFiniteSet(failures)
  /\ Accounted(fleet, FleetWindow, failures)
  /\ \A s \in Sources : windows[s] # Untracked => Accounted(windows[s], SourceWindow, FailuresOf(s))

\* The inductive invariant.
SprayIInv == SprayInv /\ TripsAreNoted /\ WindowsAreAccounted

\* SprayWindow::roll
LEMMA RolledProperties ==
  ASSUME clock \in Nat, NEW w \in Window, w.started <= clock, NEW length \in Nat \ {0}
  PROVE  /\ Rolled(w, length) \in Window
         /\ Rolled(w, length).until = w.until
         /\ \/ Rolled(w, length).accounts = {} /\ Rolled(w, length).started = clock
            \/ Rolled(w, length) = w /\ clock - w.started < length
         /\ Rolled(w, length).started <= clock /\ clock - Rolled(w, length).started < length
  <1>1. CASE clock - w.started >= length
    <2> DEFINE v == [w EXCEPT !.accounts = {}, !.started = clock]
    <2>1. Rolled(w, length) = v
      BY <1>1 DEF Rolled
    <2>2. v \in Window /\ v.until = w.until /\ v.accounts = {} /\ v.started = clock
      BY DEF Window
    <2> HIDE DEF v
    <2>3. clock <= clock /\ clock - clock < length
      OBVIOUS
    <2>4. QED
      BY <2>1, <2>2, <2>3
  <1>2. CASE ~(clock - w.started >= length)
    <2>1. Rolled(w, length) = w
      BY <1>2 DEF Rolled
    <2>2. w.started \in Nat
      BY DEF Window
    <2>3. QED
      BY <1>2, <2>1, <2>2
  <1>3. QED
    BY <1>1, <1>2

\* SprayWindow::trip and the count before it.
LEMMA CountedProperties ==
  ASSUME clock \in Nat, NEW w \in Window, NEW name \in Usernames, NEW max \in Nat, NEW cooldown \in Nat
  PROVE  /\ Counted(w, name, max, cooldown) \in Window
         /\ \/ /\ Cardinality(w.accounts \cup {name}) > max /\ clock >= w.until
               /\ Counted(w, name, max, cooldown) =
                    [accounts |-> {}, started |-> clock, until |-> clock + cooldown]
            \/ Counted(w, name, max, cooldown) = [w EXCEPT !.accounts = w.accounts \cup {name}]
  <1> DEFINE more == [w EXCEPT !.accounts = w.accounts \cup {name}]
  <1>1. more \in Window /\ more.accounts = w.accounts \cup {name}
    BY DEF Window
  <1>2. [accounts |-> {}, started |-> clock, until |-> clock + cooldown] \in Window
    BY DEF Window
  <1>3. Counted(w, name, max, cooldown) =
          IF Cardinality(more.accounts) > max /\ clock >= w.until
            THEN [accounts |-> {}, started |-> clock, until |-> clock + cooldown] ELSE more
    BY DEF Counted
  <1> HIDE DEF more
  <1>4. CASE Cardinality(more.accounts) > max /\ clock >= w.until
    BY <1>1, <1>2, <1>3, <1>4
  <1>5. CASE ~(Cardinality(more.accounts) > max /\ clock >= w.until)
    BY <1>1, <1>3, <1>5 DEF more
  <1>6. QED
    BY <1>4, <1>5

\* One failure more in a window that is accounted for.
LEMMA CountKeeps ==
  ASSUME clock \in Nat, NEW w \in Window, NEW name \in Usernames, NEW length \in Nat \ {0},
         NEW max \in Nat, NEW cooldown \in Nat, NEW old \in SUBSET Failure, NEW new \in SUBSET Failure,
         Accounted(w, length, old), old \subseteq new, \E f \in new : f.account = name /\ f.at = clock
  PROVE  /\ Counted(Rolled(w, length), name, max, cooldown) \in Window
         /\ Accounted(Counted(Rolled(w, length), name, max, cooldown), length, new)
  <1> DEFINE v == Rolled(w, length)
             c == Counted(v, name, max, cooldown)
  <1>1. /\ v \in Window /\ v.started \in Nat /\ v.started <= clock /\ clock - v.started < length
        /\ v.accounts = {} \/ v = w
    BY RolledProperties DEF Accounted, Window
  <1> HIDE DEF v
  <1>2. \A a \in v.accounts : \E f \in old : f.account = a /\ f.at >= v.started
    BY <1>1 DEF Accounted
  <1>3. /\ c \in Window
        /\ c = [accounts |-> {}, started |-> clock, until |-> clock + cooldown]
           \/ c = [v EXCEPT !.accounts = v.accounts \cup {name}]
    <2> DEFINE more == [v EXCEPT !.accounts = v.accounts \cup {name}]
               fresh == [accounts |-> {}, started |-> clock, until |-> clock + cooldown]
    <2>1. more \in Window /\ fresh \in Window
      BY <1>1 DEF Window
    <2>2. c = more \/ c = fresh
      BY DEF Counted
    <2> HIDE DEF c, more, fresh
    <2>3. c \in Window
      BY <2>1, <2>2
    <2>4. QED
      BY <2>2, <2>3 DEF more, fresh
  <1> HIDE DEF c
  <1>4. c.started <= clock /\ (c.accounts = {} \/ (c.started = v.started /\ c.accounts = v.accounts \cup {name}))
    BY <1>1, <1>3 DEF Window
  <1>5. ASSUME NEW a \in c.accounts
        PROVE  \E f \in new : f.account = a /\ f.at >= c.started
    <2>1. c.started = v.started /\ (a \in v.accounts \/ a = name)
      BY <1>4, <1>5
    <2>2. QED
      BY <1>1, <1>2, <2>1
  <1>6. QED
    BY <1>3, <1>4, <1>5 DEF Accounted, c, v

LEMMA SprayInitInv == SprayInit => SprayIInv
  <1> SUFFICES ASSUME SprayInit PROVE SprayIInv
    OBVIOUS
  <1> USE SprayAssumption DEF SprayInit
  <1>1. SprayTypeOK /\ CooldownHolds
    BY DEF SprayTypeOK, CooldownHolds, Window
  <1>2. TripsAreNoted /\ WindowsAreAccounted
    BY FS_EmptySet DEF TripsAreNoted, WindowsAreAccounted, Accounted
  <1>3. QED
    BY <1>1, <1>2 DEF SprayIInv, SprayInv

\* What note_login_spray starts from: the window of the source, or a new one.
LEMMA WindowOfSource ==
  ASSUME SprayIInv, NEW s \in Sources,
         NEW w, w = IF Retained(s) THEN windows[s] ELSE [accounts |-> {}, started |-> clock, until |-> 0]
  PROVE  /\ w \in Window /\ Accounted(w, SourceWindow, FailuresOf(s)) /\ w.started <= clock
         /\ w.until = 0 \/ (closedAt[s] # 0 /\ w.until = closedAt[s] + SourceCooldown)
         /\ closedAt[s] # 0 /\ clock < closedAt[s] + SourceCooldown => w.until = closedAt[s] + SourceCooldown
  <1> USE SprayAssumption DEF SprayIInv, SprayInv, SprayTypeOK
  <1>1. clock \in Nat
    OBVIOUS
  <1>2. CASE Retained(s)
    <2>1. w = windows[s] /\ windows[s] # Untracked
      BY <1>2 DEF Retained
    <2>2. windows[s] \in Window
      BY <2>1
    <2>3. Accounted(windows[s], SourceWindow, FailuresOf(s))
      BY <2>1 DEF WindowsAreAccounted
    <2>4. windows[s].until = 0 \/ (closedAt[s] # 0 /\ windows[s].until = closedAt[s] + SourceCooldown)
      BY <2>1 DEF TripsAreNoted
    <2>5. closedAt[s] # 0 /\ clock < closedAt[s] + SourceCooldown =>
            windows[s].until = closedAt[s] + SourceCooldown
      BY DEF CooldownHolds
    <2>6. windows[s].started <= clock
      BY <2>3 DEF Accounted
    <2> HIDE DEF SprayIInv, SprayInv, SprayTypeOK
    <2>7. QED
      BY <2>1, <2>2, <2>3, <2>4, <2>5, <2>6
  <1>3. CASE ~Retained(s)
    <2>1. w = [accounts |-> {}, started |-> clock, until |-> 0]
      BY <1>3
    <2>2. ~(closedAt[s] # 0 /\ clock < closedAt[s] + SourceCooldown)
      BY <1>3 DEF CooldownHolds, Retained, Closed
    <2>3. QED
      BY <1>1, <2>1, <2>2 DEF Window, Accounted
  <1>4. QED
    BY <1>2, <1>3

\* note_login_spray: the window of the source after one more failure.
LEMMA CountedForProperties ==
  ASSUME SprayIInv, NEW s \in Sources, NEW name \in Usernames,
         NEW c, c = CountedFor(s, name),
         NEW new \in SUBSET Failure, FailuresOf(s) \subseteq new, \E f \in new : f.account = name /\ f.at = clock
  PROVE  /\ c \in Window /\ Accounted(c, SourceWindow, new)
         /\ \/ c.started = clock /\ c.until = clock + SourceCooldown
            \/ c.until = 0
            \/ closedAt[s] # 0 /\ c.until = closedAt[s] + SourceCooldown
         /\ closedAt[s] # 0 /\ clock < closedAt[s] + SourceCooldown => c.until = closedAt[s] + SourceCooldown
         /\ c.started = clock /\ c.until = clock + SourceCooldown /\ closedAt[s] # clock =>
              \E w \in Window : /\ Accounted(w, SourceWindow, FailuresOf(s)) /\ w.started <= clock
                                /\ clock - w.started < SourceWindow
                                /\ Cardinality(w.accounts \cup {name}) > SourceMax
  <1> USE SprayAssumption
  <1>1. PICK w : w = IF Retained(s) THEN windows[s] ELSE [accounts |-> {}, started |-> clock, until |-> 0]
    OBVIOUS
  <1>2. /\ w \in Window /\ Accounted(w, SourceWindow, FailuresOf(s)) /\ w.started <= clock
        /\ w.until = 0 \/ (closedAt[s] # 0 /\ w.until = closedAt[s] + SourceCooldown)
        /\ closedAt[s] # 0 /\ clock < closedAt[s] + SourceCooldown => w.until = closedAt[s] + SourceCooldown
    BY <1>1, WindowOfSource
  <1>3. clock \in Nat /\ clock >= 1 /\ closedAt[s] \in Nat /\ failures \subseteq Failure
    BY DEF SprayIInv, SprayInv, SprayTypeOK, Failure
  <1> DEFINE v == Rolled(w, SourceWindow)
  <1>4. c = Counted(v, name, SourceMax, SourceCooldown)
    BY <1>1 DEF CountedFor
  <1>5. /\ v \in Window /\ v.until = w.until /\ v.started <= clock /\ clock - v.started < SourceWindow
        /\ v.accounts = {} \/ v = w
    BY <1>2, <1>3, RolledProperties
  <1>6. c \in Window /\ Accounted(c, SourceWindow, new)
    <2>1. FailuresOf(s) \in SUBSET Failure
      BY <1>3 DEF FailuresOf
    <2>2. SourceWindow \in Nat \ {0} /\ SourceMax \in Nat /\ SourceCooldown \in Nat
      OBVIOUS
    <2>3. /\ Counted(v, name, SourceMax, SourceCooldown) \in Window
          /\ Accounted(Counted(v, name, SourceMax, SourceCooldown), SourceWindow, new)
      <3> HIDE SprayAssumption
      <3>1. w \in Window /\ Accounted(w, SourceWindow, FailuresOf(s))
        BY <1>2
      <3>2. QED
        BY <1>3, <2>1, <2>2, <3>1, CountKeeps
    <2>4. QED
      BY <1>4, <2>3
  <1> HIDE DEF v
  <1>7. \/ /\ Cardinality(v.accounts \cup {name}) > SourceMax /\ clock >= v.until
           /\ c = [accounts |-> {}, started |-> clock, until |-> clock + SourceCooldown]
        \/ c = [v EXCEPT !.accounts = v.accounts \cup {name}]
    <2>1. \/ /\ Cardinality(v.accounts \cup {name}) > SourceMax /\ clock >= v.until
             /\ Counted(v, name, SourceMax, SourceCooldown) =
                  [accounts |-> {}, started |-> clock, until |-> clock + SourceCooldown]
          \/ Counted(v, name, SourceMax, SourceCooldown) = [v EXCEPT !.accounts = v.accounts \cup {name}]
      BY <1>3, <1>5, CountedProperties, Z3T(30)
    <2>2. QED
      BY <1>4, <2>1
  <1>8. CASE c = [v EXCEPT !.accounts = v.accounts \cup {name}]
    <2>1. c.until = w.until
      BY <1>5, <1>8 DEF Window
    <2>2. ~(c.until = clock + SourceCooldown /\ closedAt[s] # clock)
      BY <1>2, <1>3, <2>1
    <2>3. QED
      BY <1>2, <1>6, <2>1, <2>2
  <1>9. CASE /\ Cardinality(v.accounts \cup {name}) > SourceMax /\ clock >= v.until
             /\ c = [accounts |-> {}, started |-> clock, until |-> clock + SourceCooldown]
    <2>1. c.started = clock /\ c.until = clock + SourceCooldown
      BY <1>9
    <2>2. ~(closedAt[s] # 0 /\ clock < closedAt[s] + SourceCooldown)
      BY <1>2, <1>3, <1>5, <1>9
    <2>3. Accounted(v, SourceWindow, FailuresOf(s))
      BY <1>2, <1>5 DEF Accounted
    <2>4. QED
      BY <1>5, <1>6, <1>9, <2>1, <2>2, <2>3
  <1>10. QED
    BY <1>7, <1>8, <1>9

\* note_login_spray keeps the invariant.
LEMMA CredentialsFailKeeps ==
  ASSUME SprayIInv, NEW t \in Attempts, CredentialsFail(t)
  PROVE  SprayIInv'
  <1> USE SprayAssumption
  <1>0. PICK s \in Sources, name \in Usernames : s = attempt[t].source /\ name = attempt[t].account
    BY DEF CredentialsFail, SprayIInv, SprayInv, SprayTypeOK, SignIn
  <1> DEFINE kept == {r \in Sources : Retained(r)}
             room == s \in kept \/ Cardinality(kept) < MaxTracked
             f == [source |-> s, account |-> name, at |-> clock]
             c == CountedFor(s, name)
  <1>1. /\ s \in Sources /\ name \in Usernames
        /\ clock \in 1..LastTick /\ clock \in Nat /\ clock >= 1 /\ clock' = clock
        /\ failures \subseteq Failure /\ closedAt \in [Sources -> Nat]
    BY DEF CredentialsFail, SprayIInv, SprayInv, SprayTypeOK, SignIn, Failure
  <1>2. /\ fleet' = Counted(Rolled(fleet, FleetWindow), name, FleetMax, FleetCooldown)
        /\ windows' = [r \in Sources |-> IF r = s /\ room THEN c ELSE IF r \in kept THEN windows[r] ELSE Untracked]
        /\ attempt' = [attempt EXCEPT ![t] = Waiting]
        /\ failures' = failures \cup {f}
        /\ closedAt' = IF room /\ c.started = clock /\ c.until = clock + SourceCooldown
                         THEN [closedAt EXCEPT ![s] = clock] ELSE closedAt
    BY <1>0 DEF CredentialsFail
  <1>3. f \in Failure /\ f.source = s /\ f.account = name /\ f.at = clock
    BY <1>1 DEF Failure
  <1> HIDE DEF f, room, kept
  <1>4. failures' \subseteq Failure /\ failures \subseteq failures' /\ IsFiniteSet(failures')
    BY <1>1, <1>2, <1>3, FS_AddElement DEF SprayIInv, WindowsAreAccounted
  <1>5. FailuresOf(s)' \in SUBSET Failure /\ FailuresOf(s) \subseteq FailuresOf(s)' /\ f \in FailuresOf(s)'
    BY <1>2, <1>3, <1>4 DEF FailuresOf
  <1>6. /\ c \in Window /\ Accounted(c, SourceWindow, FailuresOf(s)')
        /\ \/ c.started = clock /\ c.until = clock + SourceCooldown
           \/ c.until = 0
           \/ closedAt[s] # 0 /\ c.until = closedAt[s] + SourceCooldown
        /\ closedAt[s] # 0 /\ clock < closedAt[s] + SourceCooldown => c.until = closedAt[s] + SourceCooldown
    <2>1. c = CountedFor(s, name) /\ \E g \in FailuresOf(s)' : g.account = name /\ g.at = clock
      BY <1>3, <1>5
    <2> HIDE SprayAssumption DEF c
    <2>2. QED
      BY <1>1, <1>5, <2>1, CountedForProperties
  <1> HIDE DEF c
  <1>7. fleet' \in Window /\ Accounted(fleet, FleetWindow, failures)'
    <2>1. fleet \in Window /\ Accounted(fleet, FleetWindow, failures)
      BY DEF SprayIInv, SprayInv, SprayTypeOK, WindowsAreAccounted
    <2>2. f \in failures'
      BY <1>2
    <2>3. fleet' \in Window /\ Accounted(fleet', FleetWindow, failures')
      BY <1>1, <1>2, <1>3, <1>4, <2>1, <2>2, CountKeeps
    <2>4. QED
      BY <1>1, <2>3 DEF Accounted
  <1>8. ASSUME NEW r \in Sources
        PROVE  /\ windows'[r] \in Window \cup {Untracked} /\ closedAt'[r] \in Nat
               /\ windows'[r] # Untracked => Accounted(windows[r], SourceWindow, FailuresOf(r))'
               /\ windows'[r] # Untracked =>
                    windows'[r].until = 0 \/ (closedAt'[r] # 0 /\ windows'[r].until = closedAt'[r] + SourceCooldown)
               /\ closedAt'[r] # 0 /\ clock' < closedAt'[r] + SourceCooldown =>
                    windows'[r] # Untracked /\ windows'[r].until = closedAt'[r] + SourceCooldown
    <2>1. CASE r = s /\ room
      <3>1. windows'[r] = c
        BY <1>2, <2>1
      <3>2. closedAt'[r] = IF c.started = clock /\ c.until = clock + SourceCooldown THEN clock ELSE closedAt[s]
        BY <1>1, <1>2, <2>1
      <3>3. Accounted(windows[r], SourceWindow, FailuresOf(r))'
        BY <1>1, <1>6, <2>1, <3>1 DEF Accounted
      <3>4. c # Untracked
        BY <1>6
      <3>5. QED
        BY <1>1, <1>6, <2>1, <3>1, <3>2, <3>3, <3>4
    <2>2. CASE ~(r = s /\ room)
      <3>1. windows'[r] = IF r \in kept THEN windows[r] ELSE Untracked
        BY <1>2, <2>2
      <3>2. closedAt'[r] = closedAt[r] /\ closedAt[r] \in Nat
        BY <1>1, <1>2, <2>2
      <3>3. closedAt[r] # 0 /\ clock < closedAt[r] + SourceCooldown =>
              r \in kept /\ windows[r] # Untracked /\ windows[r].until = closedAt[r] + SourceCooldown
        BY DEF SprayIInv, SprayInv, CooldownHolds, kept, Retained, Closed
      <3>4. windows[r] # Untracked =>
              windows[r].until = 0 \/ (closedAt[r] # 0 /\ windows[r].until = closedAt[r] + SourceCooldown)
        BY DEF SprayIInv, TripsAreNoted
      <3>5. windows'[r] # Untracked => Accounted(windows[r], SourceWindow, FailuresOf(r))'
        <4>1. windows'[r] # Untracked => windows'[r] = windows[r] /\ windows[r] # Untracked
          BY <3>1
        <4>2. FailuresOf(r) \subseteq FailuresOf(r)'
          BY <1>4 DEF FailuresOf
        <4>3. QED
          BY <1>1, <4>1, <4>2 DEF SprayIInv, WindowsAreAccounted, Accounted
      <3>6. windows[r] \in Window \cup {Untracked}
        BY DEF SprayIInv, SprayInv, SprayTypeOK
      <3>7. QED
        BY <1>1, <3>1, <3>2, <3>3, <3>4, <3>5, <3>6
    <2>3. QED
      BY <2>1, <2>2
  <1>9. SprayTypeOK'
    <2>1. windows' \in [Sources -> Window \cup {Untracked}] /\ closedAt' \in [Sources -> Nat]
      <3>1. windows' = [r \in Sources |-> windows'[r]] /\ closedAt' = [r \in Sources |-> closedAt'[r]]
        BY <1>1, <1>2
      <3>2. QED
        BY <1>8, <3>1
    <2>2. attempt' \in [Attempts -> SignIn \cup {Waiting}]
      BY <1>2 DEF SprayIInv, SprayInv, SprayTypeOK
    <2>3. QED
      BY <1>1, <1>4, <1>7, <2>1, <2>2 DEF SprayTypeOK, Failure
  <1>10. CooldownHolds' /\ TripsAreNoted'
    BY <1>8 DEF CooldownHolds, TripsAreNoted
  <1>11. WindowsAreAccounted'
    BY <1>4, <1>7, <1>8 DEF WindowsAreAccounted
  <1>12. QED
    BY <1>9, <1>10, <1>11 DEF SprayIInv, SprayInv

\* login_spray_block rolls the window of the fleet.
LEMMA RollKeeps ==
  ASSUME SprayIInv, fleet' = Rolled(fleet, FleetWindow), attempt' \in [Attempts -> SignIn \cup {Waiting}],
         UNCHANGED <<clock, windows, failures, closedAt>>
  PROVE  SprayIInv'
  <1> USE SprayAssumption
  <1>1. fleet \in Window /\ clock \in Nat /\ Accounted(fleet, FleetWindow, failures)
    BY DEF SprayIInv, SprayInv, SprayTypeOK, WindowsAreAccounted
  <1>2. /\ fleet' \in Window /\ fleet'.started <= clock
        /\ fleet'.accounts = {} \/ fleet' = fleet
    BY <1>1, RolledProperties DEF Accounted
  <1>3. Accounted(fleet, FleetWindow, failures)'
    BY <1>1, <1>2 DEF Accounted
  <1>4. SprayTypeOK' /\ CooldownHolds' /\ TripsAreNoted'
    BY <1>2 DEF SprayIInv, SprayInv, SprayTypeOK, CooldownHolds, TripsAreNoted
  <1>5. WindowsAreAccounted'
    BY <1>3 DEF SprayIInv, WindowsAreAccounted, Accounted, FailuresOf
  <1>6. QED
    BY <1>4, <1>5 DEF SprayIInv, SprayInv

\* Time passes; what has failed too long ago to count is forgotten.
LEMMA SprayTickKeeps == SprayIInv /\ SprayTick => SprayIInv'
  <1> SUFFICES ASSUME SprayIInv, SprayTick PROVE SprayIInv'
    OBVIOUS
  <1> USE SprayAssumption
  <1>1. /\ clock \in 1..LastTick /\ clock' = clock + 1 /\ clock' \in 1..LastTick
        /\ UNCHANGED <<windows, fleet, attempt, closedAt>>
        /\ failures' = {f \in failures : clock' - f.at < SourceWindow \/ clock' - f.at < FleetWindow}
        /\ failures \subseteq Failure
    BY DEF SprayTick, SprayIInv, SprayInv, SprayTypeOK, Failure
  <1>2. failures' \subseteq Failure /\ IsFiniteSet(failures')
    BY <1>1, FS_Subset DEF SprayIInv, WindowsAreAccounted
  <1>3. ASSUME NEW w \in Window, NEW length \in {SourceWindow, FleetWindow}, NEW old \in SUBSET failures,
               NEW new, new = {f \in old : f \in failures'},
               Accounted(w, length, old)
        PROVE  w.started <= clock' /\ (clock' - w.started < length =>
                 \A a \in w.accounts : \E f \in new : f.account = a /\ f.at >= w.started)
    <2>1. w.started \in Nat /\ w.started <= clock /\ length \in Nat
      BY <1>3 DEF Window, Accounted
    <2>2. ASSUME clock' - w.started < length, NEW a \in w.accounts
          PROVE  \E f \in new : f.account = a /\ f.at >= w.started
      <3>1. PICK f \in old : f.account = a /\ f.at >= w.started
        BY <1>1, <1>3, <2>1, <2>2 DEF Accounted
      <3>2. f \in failures /\ f.at \in Nat
        BY <1>1 DEF Failure
      <3>3. clock' - f.at < length
        BY <1>1, <2>1, <2>2, <3>1, <3>2
      <3>4. QED
        BY <1>1, <1>3, <3>1, <3>2, <3>3
    <2>3. QED
      BY <1>1, <2>1, <2>2
  <1>4. Accounted(fleet, FleetWindow, failures)'
    <2>1. fleet \in Window /\ Accounted(fleet, FleetWindow, failures)
      BY DEF SprayIInv, SprayInv, SprayTypeOK, WindowsAreAccounted
    <2>2. failures' = {f \in failures : f \in failures'}
      BY <1>1
    <2>3. fleet.started <= clock' /\ (clock' - fleet.started < FleetWindow =>
            \A a \in fleet.accounts : \E f \in failures' : f.account = a /\ f.at >= fleet.started)
      BY <1>3, <2>1, <2>2
    <2>4. QED
      BY <1>1, <2>3 DEF Accounted
  <1>5. ASSUME NEW s \in Sources, windows[s] # Untracked
        PROVE  Accounted(windows[s], SourceWindow, FailuresOf(s))'
    <2>1. windows[s] \in Window /\ Accounted(windows[s], SourceWindow, FailuresOf(s))
      BY <1>5 DEF SprayIInv, SprayInv, SprayTypeOK, WindowsAreAccounted
    <2>2. FailuresOf(s) \in SUBSET failures /\ FailuresOf(s)' = {f \in FailuresOf(s) : f \in failures'}
      BY <1>1 DEF FailuresOf
    <2>3. /\ windows[s].started <= clock'
          /\ clock' - windows[s].started < SourceWindow =>
               \A a \in windows[s].accounts : \E f \in FailuresOf(s)' : f.account = a /\ f.at >= windows[s].started
      BY <1>3, <2>1, <2>2
    <2>4. QED
      BY <1>1, <2>3 DEF Accounted
  <1>6. SprayTypeOK' /\ CooldownHolds' /\ TripsAreNoted'
    BY <1>1, <1>2 DEF SprayIInv, SprayInv, SprayTypeOK, CooldownHolds, TripsAreNoted, Failure
  <1>7. WindowsAreAccounted'
    BY <1>1, <1>2, <1>4, <1>5 DEF WindowsAreAccounted
  <1>8. QED
    BY <1>6, <1>7 DEF SprayIInv, SprayInv

LEMMA SprayNextInv == SprayIInv /\ [SprayNext]_sprayVars => SprayIInv'
  <1> SUFFICES ASSUME SprayIInv, [SprayNext]_sprayVars PROVE SprayIInv'
    OBVIOUS
  <1> USE SprayAssumption
  <1>1. ASSUME NEW t \in Attempts, NEW s \in Sources, NEW a \in Usernames, Pass(t, s, a) PROVE SprayIInv'
    <2>1. attempt' \in [Attempts -> SignIn \cup {Waiting}]
      BY <1>1 DEF Pass, SprayIInv, SprayInv, SprayTypeOK, SignIn
    <2>2. QED
      BY <1>1, <2>1, RollKeeps DEF Pass
  <1>2. ASSUME NEW s \in Sources, RefusedBySource(s) PROVE SprayIInv'
    <2>1. attempt' \in [Attempts -> SignIn \cup {Waiting}]
      BY <1>2 DEF RefusedBySource, SprayIInv, SprayInv, SprayTypeOK
    <2>2. QED
      BY <1>2, <2>1, RollKeeps DEF RefusedBySource
  <1>3. ASSUME NEW t \in Attempts, Succeed(t) PROVE SprayIInv'
    BY <1>3 DEF Succeed, SprayIInv, SprayInv, SprayTypeOK, CooldownHolds, TripsAreNoted, WindowsAreAccounted,
                Accounted, FailuresOf
  <1>4. CASE SprayRestart
    <2>1. fleet' \in Window /\ SprayTypeOK' /\ CooldownHolds' /\ TripsAreNoted'
      BY <1>4 DEF SprayRestart, SprayIInv, SprayInv, SprayTypeOK, CooldownHolds, TripsAreNoted, Window
    <2>2. WindowsAreAccounted'
      BY <1>4 DEF SprayRestart, SprayIInv, SprayInv, SprayTypeOK, WindowsAreAccounted, Accounted
    <2>3. QED
      BY <2>1, <2>2 DEF SprayIInv, SprayInv
  <1>5. CASE UNCHANGED sprayVars
    BY <1>5 DEF sprayVars, SprayIInv, SprayInv, SprayTypeOK, CooldownHolds, TripsAreNoted, WindowsAreAccounted,
                Accounted, FailuresOf
  <1>6. QED
    BY <1>1, <1>2, <1>3, <1>4, <1>5, SprayTickKeeps, CredentialsFailKeeps DEF SprayNext

\* For any sources, limits and cooldowns: a closed source stays closed for the whole cooldown,
\* whatever fails meanwhile and however full the table is (note_login_spray).
THEOREM SprayInvariant == SpraySpec => []SprayInv
  <1>1. SprayIInv => SprayInv
    BY DEF SprayIInv
  <1>2. QED
    BY <1>1, SprayInitInv, SprayNextInv, PTL DEF SpraySpec

\* The accounts that a window counts are among those that the failures blame.
LEMMA BlamedEnough ==
  ASSUME clock \in Nat, NEW w \in Window, NEW name \in Usernames, NEW length \in Nat \ {0}, NEW max \in Nat,
         NEW old \in SUBSET Failure, NEW new \in SUBSET Failure, IsFiniteSet(new), old \subseteq new,
         Accounted(w, length, old), clock - w.started < length,
         \E f \in new : f.account = name /\ f.at = clock,
         Cardinality(w.accounts \cup {name}) > max
  PROVE  Cardinality(BlamedOn(new, length)) > max
  <1> DEFINE blamed == BlamedOn(new, length)
             recent == {f \in new : clock - f.at < length}
             accountOf == [f \in recent |-> f.account]
  <1>1. IsFiniteSet(recent)
    BY FS_Subset
  <1>2. accountOf \in Surjection(recent, blamed)
    BY DEF Surjection, BlamedOn, Failure
  <1>3. IsFiniteSet(blamed)
    BY <1>1, <1>2, FS_Surjection
  <1>4. w.accounts \cup {name} \in SUBSET blamed
    <2> SUFFICES ASSUME NEW a \in w.accounts \cup {name} PROVE a \in blamed
      OBVIOUS
    <2>1. a \in Usernames
      BY DEF Window
    <2>2. PICK f \in new : f.account = a /\ (f.at >= w.started \/ f.at = clock)
      BY DEF Accounted
    <2>3. f.at \in Nat /\ w.started \in Nat
      BY DEF Failure, Window
    <2>4. clock - f.at < length
      BY <2>2, <2>3
    <2>5. QED
      BY <2>1, <2>2, <2>4 DEF BlamedOn
  <1> HIDE DEF blamed
  <1>5. /\ IsFiniteSet(w.accounts \cup {name})
        /\ Cardinality(w.accounts \cup {name}) <= Cardinality(blamed)
    BY <1>3, <1>4, FS_Subset
  <1>6. Cardinality(w.accounts \cup {name}) \in Nat /\ Cardinality(blamed) \in Nat
    BY <1>3, <1>5, FS_CardinalityType
  <1>7. QED
    BY <1>5, <1>6 DEF blamed

\* Neither a source nor the fleet is closed but for failures of more distinct accounts than
\* its limit, within one window (note_login_spray).
THEOREM SprayClosesForCause == SpraySpec => ClosesForCause
  <1> USE SprayAssumption
  <1> DEFINE cause == /\ \A s \in Sources : closedAt'[s] > closedAt[s] =>
                           Cardinality(BlamedOn({f \in failures' : f.source = s}, SourceWindow)) > SourceMax
                      /\ fleet'.until > fleet.until =>
                           Cardinality(BlamedOn(failures', FleetWindow)) > FleetMax
  <1>1. ASSUME SprayIInv, NEW t \in Attempts, CredentialsFail(t) PROVE cause
    <2> DEFINE s == attempt[t].source
               name == attempt[t].account
               f == [source |-> s, account |-> name, at |-> clock]
               c == CountedFor(s, name)
    <2>1. /\ s \in Sources /\ name \in Usernames
          /\ clock \in Nat /\ clock >= 1 /\ clock' = clock
          /\ failures \subseteq Failure /\ closedAt \in [Sources -> Nat] /\ fleet \in Window
      BY <1>1 DEF CredentialsFail, SprayIInv, SprayInv, SprayTypeOK, SignIn, Failure
    <2>2. /\ fleet' = Counted(Rolled(fleet, FleetWindow), name, FleetMax, FleetCooldown)
          /\ failures' = failures \cup {f}
          /\ \/ closedAt' = closedAt
             \/ closedAt' = [closedAt EXCEPT ![s] = clock] /\ c.started = clock /\ c.until = clock + SourceCooldown
      BY <1>1 DEF CredentialsFail
    <2>3. f \in Failure /\ f.source = s /\ f.account = name /\ f.at = clock
      BY <2>1 DEF Failure
    <2> HIDE DEF s, name, f
    <2>4. failures' \subseteq Failure /\ IsFiniteSet(failures') /\ f \in failures' /\ failures \subseteq failures'
      BY <1>1, <2>1, <2>2, <2>3, FS_AddElement DEF SprayIInv, WindowsAreAccounted
    <2>5. ASSUME NEW r \in Sources, closedAt'[r] > closedAt[r]
          PROVE  Cardinality(BlamedOn({g \in failures' : g.source = r}, SourceWindow)) > SourceMax
      <3> DEFINE new == {g \in failures' : g.source = r}
      <3>1. r = s /\ c.started = clock /\ c.until = clock + SourceCooldown /\ closedAt[s] # clock
        BY <2>1, <2>2, <2>5
      <3>2. new \in SUBSET Failure /\ FailuresOf(s) \subseteq new /\ f \in new /\ IsFiniteSet(new)
        BY <2>3, <2>4, <3>1, FS_Subset DEF FailuresOf
      <3> HIDE DEF new
      <3>3. \E w \in Window : /\ Accounted(w, SourceWindow, FailuresOf(s)) /\ w.started <= clock
                              /\ clock - w.started < SourceWindow
                              /\ Cardinality(w.accounts \cup {name}) > SourceMax
        <4>1. c = CountedFor(s, name) /\ \E g \in new : g.account = name /\ g.at = clock
          BY <2>3, <3>2
        <4> HIDE SprayAssumption DEF c
        <4>2. QED
          BY <1>1, <2>1, <3>1, <3>2, <4>1, CountedForProperties
      <3>4. PICK w \in Window : /\ Accounted(w, SourceWindow, FailuresOf(s))
                                /\ clock - w.started < SourceWindow
                                /\ Cardinality(w.accounts \cup {name}) > SourceMax
        BY <3>3
      <3>5. FailuresOf(s) \in SUBSET Failure
        BY <2>1 DEF FailuresOf
      <3>6. Cardinality(BlamedOn(new, SourceWindow)) > SourceMax
        BY <2>1, <2>3, <3>2, <3>4, <3>5, BlamedEnough
      <3>7. QED
        BY <3>6 DEF new
    <2>6. ASSUME fleet'.until > fleet.until
          PROVE  Cardinality(BlamedOn(failures', FleetWindow)) > FleetMax
      <3> DEFINE v == Rolled(fleet, FleetWindow)
      <3>1. Accounted(fleet, FleetWindow, failures)
        BY <1>1 DEF SprayIInv, WindowsAreAccounted
      <3>2. /\ v \in Window /\ v.until = fleet.until /\ clock - v.started < FleetWindow
            /\ Accounted(v, FleetWindow, failures)
        BY <2>1, <3>1, RolledProperties DEF Accounted
      <3> HIDE DEF v
      <3>3. \/ Cardinality(v.accounts \cup {name}) > FleetMax
            \/ fleet' = [v EXCEPT !.accounts = v.accounts \cup {name}]
        BY <2>1, <2>2, <3>2, CountedProperties DEF v
      <3>4. Cardinality(v.accounts \cup {name}) > FleetMax
        BY <2>1, <2>6, <3>2, <3>3 DEF Window
      <3>5. QED
        BY <2>1, <2>3, <2>4, <3>2, <3>4, BlamedEnough
    <2>7. QED
      BY <2>5, <2>6
  <1>2. ASSUME SprayIInv, [SprayNext]_sprayVars PROVE [cause]_sprayVars
    <2>1. ASSUME closedAt' = closedAt, fleet'.until = fleet.until PROVE cause
      BY <1>2, <2>1 DEF SprayIInv, SprayInv, SprayTypeOK, Window
    <2>2. ASSUME fleet' = Rolled(fleet, FleetWindow) PROVE fleet'.until = fleet.until
      <3>1. fleet \in Window /\ clock \in Nat /\ fleet.started <= clock
        BY <1>2 DEF SprayIInv, SprayInv, SprayTypeOK, WindowsAreAccounted, Accounted
      <3>2. QED
        BY <2>2, <3>1, RolledProperties
    <2>3. CASE SprayRestart
      BY <1>2, <2>3 DEF SprayRestart, SprayIInv, SprayInv, SprayTypeOK, Window
    <2>4. CASE SprayTick
      BY <2>1, <2>4 DEF SprayTick
    <2>5. ASSUME NEW t \in Attempts, NEW s \in Sources, NEW a \in Usernames,
                 Pass(t, s, a) \/ Succeed(t) \/ RefusedBySource(s)
          PROVE  cause
      BY <2>1, <2>2, <2>5 DEF Pass, Succeed, RefusedBySource
    <2>6. ASSUME NEW s \in Sources, RefusedBySource(s) PROVE cause
      BY <2>1, <2>2, <2>6 DEF RefusedBySource
    <2>7. ASSUME NEW t \in Attempts, Succeed(t) PROVE cause
      BY <2>1, <2>7 DEF Succeed
    <2> HIDE DEF cause
    <2>8. QED
      BY <1>1, <1>2, <2>3, <2>4, <2>5, <2>6, <2>7 DEF SprayNext
  <1>3. QED
    BY <1>2, SprayInitInv, SprayNextInv, PTL DEF SpraySpec, ClosesForCause

-----------------------------------------------------------------------------
(* The account that is bound.                                              *)

\* Nothing is known yet of the request.
NothingKnown ==
  /\ stage \in {"idle", "search", "bind"} =>
       account = NoAccount /\ entry = NoEntry /\ identity = NoName
  /\ stage \in {"idle", "search", "bind", "bindEntry", "ask"} => who = "nobody"
  /\ stage = "ask" => entry = NoEntry /\ identity = NoName
  /\ stage # "done" => user = NoName

\* Which answers of Who-am-I each request follows.
AnswerGiven ==
  /\ stage = "readEntry" => who = "dn"
  /\ stage = "enrich" => who = "user"
  /\ stage = "identify" => who = "none" /\ entry = NoEntry
  /\ stage \in {"bindEntry", "ask", "readEntry", "enrich", "identify"} => account \in Accounts

\* The history has the names of the account from when it was chosen.
HistoryCovers ==
  account # NoAccount => {directory[account].sam, directory[account].upn} \subseteq called

\* What has been learned names the account, or repeats what was typed.
LearnedIsTrue ==
  IF who = "none"
    THEN identity = NoName /\ Canonical(entry) \in {typed, NoName}
    ELSE {identity, Canonical(entry)} \subseteq called \cup {NoName}

\* The inductive invariant.
DirectoryIInv ==
  DirectoryInv /\ NothingKnown /\ AnswerGiven /\ HistoryCovers /\ LearnedIsTrue

LEMMA NoEntryIsNamed == NoEntry \in Entry /\ Canonical(NoEntry) = NoName
  BY DEF NoEntry, Entry, Canonical

\* What search_one returns is an entry of the directory.
LEMMA OnlyOne ==
  ASSUME NEW filter, NEW name, One(Found(filter, name))
  PROVE  Only(Found(filter, name)) \in Accounts
  <1>1. Found(filter, name) # {}
    BY FS_EmptySet DEF One
  <1>2. QED
    BY <1>1 DEF Only, Found

LEMMA DirectoryInitInv == DirectoryInit => DirectoryIInv
  <1> SUFFICES ASSUME DirectoryInit PROVE DirectoryIInv
    OBVIOUS
  <1>1. settings \in Settings
    BY DEF DirectoryInit, Settings, Filters
  <1>2. DirectoryInv
    BY <1>1, NoEntryIsNamed, DirectoryAssumption
    DEF DirectoryInit, DirectoryInv, DirectoryTypeOK, NamedAsBound
  <1>3. NothingKnown /\ AnswerGiven /\ HistoryCovers /\ LearnedIsTrue
    BY NoEntryIsNamed
    DEF DirectoryInit, NothingKnown, AnswerGiven, HistoryCovers, LearnedIsTrue
  <1>4. QED
    BY <1>2, <1>3 DEF DirectoryIInv

LEMMA DirectoryNextInv == DirectoryIInv /\ [DirectoryNext]_directoryVars => DirectoryIInv'
  <1> SUFFICES ASSUME DirectoryIInv, [DirectoryNext]_directoryVars PROVE DirectoryIInv'
    OBVIOUS
  <1> USE NoEntryIsNamed, DirectoryAssumption
  <1>0. DirectoryTypeOK
    BY DEF DirectoryIInv, DirectoryInv
  <1>1. ASSUME NEW s \in Settings, NEW n \in Names, Begin(s, n) PROVE DirectoryIInv'
    BY <1>0, <1>1
    DEF Begin, GoOn, theDirectory, DirectoryIInv, DirectoryInv, DirectoryTypeOK, NamedAsBound,
        NothingKnown, AnswerGiven, HistoryCovers, LearnedIsTrue, Canonical
  <1>2. CASE Search
    <2> DEFINE a == Only(Found(settings.filter, typed))
    <2>1. a \in Accounts /\ directory[a] \in Entry
      BY <1>0, <1>2, OnlyOne DEF Search, DirectoryTypeOK
    <2>2. /\ account' = a /\ entry' = directory[a]
          /\ called' = {directory[a].sam, directory[a].upn}
          /\ stage = "search" /\ stage' = "bindEntry"
          /\ UNCHANGED <<directory, renames, settings, typed, who, identity, user>>
      BY <1>2 DEF Search, GoOn, Choose, theDirectory, request
    <2> HIDE DEF a
    <2>3. DirectoryInv'
      BY <1>0, <2>1, <2>2
      DEF DirectoryIInv, DirectoryInv, DirectoryTypeOK, NamedAsBound, NothingKnown, Entry
    <2>4. (NothingKnown /\ AnswerGiven /\ HistoryCovers /\ LearnedIsTrue)'
      BY <2>1, <2>2
      DEF DirectoryIInv, NothingKnown, AnswerGiven, HistoryCovers, LearnedIsTrue, Canonical
    <2>5. QED
      BY <2>3, <2>4 DEF DirectoryIInv
  <1>3. CASE BindEntry
    BY <1>0, <1>3
    DEF BindEntry, GoOn, theDirectory, request, DirectoryIInv, DirectoryInv, DirectoryTypeOK,
        NamedAsBound, NothingKnown, AnswerGiven, HistoryCovers, LearnedIsTrue, Canonical
  <1>4. CASE BindPrincipal
    <2>1. PICK a \in Accounts : Choose(a)
      BY <1>4 DEF BindPrincipal, Found
    <2>2. /\ account' = a /\ called' = {directory[a].sam, directory[a].upn}
          /\ stage = "bind" /\ stage' = "ask"
          /\ UNCHANGED <<directory, renames, settings, typed, who, entry, identity, user>>
      BY <1>4, <2>1 DEF BindPrincipal, GoOn, Choose, theDirectory, request
    <2>3. DirectoryInv'
      BY <1>0, <2>1, <2>2
      DEF DirectoryIInv, DirectoryInv, DirectoryTypeOK, NamedAsBound, NothingKnown, Entry
    <2>4. (NothingKnown /\ AnswerGiven /\ HistoryCovers /\ LearnedIsTrue)'
      BY <2>1, <2>2
      DEF DirectoryIInv, NothingKnown, AnswerGiven, HistoryCovers, LearnedIsTrue, Canonical
    <2>5. QED
      BY <2>3, <2>4 DEF DirectoryIInv
  <1>5. CASE WhoAmIDn \/ WhoAmINone
    BY <1>0, <1>5
    DEF WhoAmIDn, WhoAmINone, GoOn, theDirectory, request, DirectoryIInv, DirectoryInv,
        DirectoryTypeOK, NamedAsBound, NothingKnown, AnswerGiven, HistoryCovers, LearnedIsTrue,
        Canonical
  <1>6. CASE WhoAmIUser
    <2>1. directory[account] \in Entry
      BY <1>0, <1>6 DEF WhoAmIUser, GoOn, DirectoryIInv, AnswerGiven, DirectoryTypeOK
    <2>2. Canonical(directory[account]) \in called \cap Names
      BY <1>6, <2>1 DEF WhoAmIUser, GoOn, DirectoryIInv, AnswerGiven, HistoryCovers, Canonical, Entry
    <2>3. /\ identity' = Canonical(directory[account]) /\ who' = "user" /\ stage = "ask"
          /\ stage' \in {"enrich", "name"}
          /\ UNCHANGED <<directory, renames, settings, typed, account, entry, user, called>>
      BY <1>6 DEF WhoAmIUser, GoOn, theDirectory, request
    <2>4. DirectoryInv'
      BY <1>0, <2>2, <2>3
      DEF DirectoryIInv, DirectoryInv, DirectoryTypeOK, NamedAsBound, NothingKnown
    <2>5. (NothingKnown /\ AnswerGiven /\ HistoryCovers /\ LearnedIsTrue)'
      BY <2>2, <2>3
      DEF DirectoryIInv, NothingKnown, AnswerGiven, HistoryCovers, LearnedIsTrue
    <2>6. QED
      BY <2>4, <2>5 DEF DirectoryIInv
  <1>7. CASE ReadEntry
    <2>1. account \in Accounts /\ directory[account] \in Entry /\ account # NoAccount
      BY <1>0, <1>7 DEF ReadEntry, GoOn, DirectoryIInv, AnswerGiven, DirectoryTypeOK
    <2>2. Canonical(directory[account]) \in called
      BY <2>1 DEF DirectoryIInv, HistoryCovers, Canonical
    <2>3. /\ entry' = directory[account] /\ stage = "readEntry" /\ stage' = "name"
          /\ UNCHANGED <<directory, renames, settings, typed, account, who, identity, user, called>>
      BY <1>7 DEF ReadEntry, GoOn, theDirectory, request
    <2>4. DirectoryInv'
      BY <1>0, <2>1, <2>3
      DEF DirectoryIInv, DirectoryInv, DirectoryTypeOK, NamedAsBound, NothingKnown
    <2>5. (NothingKnown /\ AnswerGiven /\ HistoryCovers /\ LearnedIsTrue)'
      BY <2>1, <2>2, <2>3
      DEF DirectoryIInv, NothingKnown, AnswerGiven, HistoryCovers, LearnedIsTrue
    <2>6. QED
      BY <2>4, <2>5 DEF DirectoryIInv
  <1>8. CASE Enrich \/ Identify
    <2>1. /\ entry' \in Entry /\ stage \in {"enrich", "identify"} /\ stage' = "name"
          /\ Canonical(entry') \in {NoName, IF stage = "enrich" THEN identity ELSE typed}
          /\ UNCHANGED <<directory, renames, settings, typed, account, who, identity, user, called>>
      <3>1. CASE Enrich
        <4>1. CASE entry' = NoEntry
          BY <3>1, <4>1 DEF Enrich, GoOn, theDirectory, request
        <4>2. CASE entry' # NoEntry
          BY <1>0, <3>1, <4>2, OnlyOne DEF Enrich, GoOn, theDirectory, request, DirectoryTypeOK
        <4>3. QED
          BY <4>1, <4>2
      <3>2. CASE Identify
        BY <1>0, <3>2, OnlyOne DEF Identify, GoOn, theDirectory, request, DirectoryTypeOK
      <3>3. QED
        BY <1>8, <3>1, <3>2
    <2>2. DirectoryInv'
      BY <1>0, <2>1
      DEF DirectoryIInv, DirectoryInv, DirectoryTypeOK, NamedAsBound, NothingKnown
    <2>3. (NothingKnown /\ AnswerGiven /\ HistoryCovers)'
      BY <2>1 DEF DirectoryIInv, NothingKnown, AnswerGiven, HistoryCovers
    <2>4. LearnedIsTrue'
      BY <2>1 DEF DirectoryIInv, AnswerGiven, LearnedIsTrue
    <2>5. QED
      BY <2>2, <2>3, <2>4 DEF DirectoryIInv
  <1>9. CASE NameUser
    <2> DEFINE n == IF Canonical(entry) # NoName THEN Canonical(entry) ELSE identity
    <2>1. /\ user' = n /\ n # NoName /\ stage = "name" /\ stage' = "done"
          /\ UNCHANGED <<directory, renames, settings, typed, account, who, entry, identity, called>>
      BY <1>9 DEF NameUser, GoOn, theDirectory, request
    <2>2. IF who = "none" THEN n = typed ELSE n \in called
      BY <2>1 DEF DirectoryIInv, LearnedIsTrue
    <2>3. n \in Names \cup {NoName}
      BY <1>0 DEF DirectoryTypeOK, Canonical, Entry
    <2> HIDE DEF n
    <2>4. DirectoryInv'
      BY <1>0, <2>1, <2>2, <2>3
      DEF DirectoryIInv, DirectoryInv, DirectoryTypeOK, NamedAsBound
    <2>5. (NothingKnown /\ AnswerGiven /\ HistoryCovers /\ LearnedIsTrue)'
      BY <2>1 DEF DirectoryIInv, NothingKnown, AnswerGiven, HistoryCovers, LearnedIsTrue
    <2>6. QED
      BY <2>4, <2>5 DEF DirectoryIInv
  <1>10. ASSUME NEW from, Fail(from) PROVE DirectoryIInv'
    BY <1>0, <1>10
    DEF Fail, GoOn, theDirectory, request, DirectoryIInv, DirectoryInv, DirectoryTypeOK,
        NamedAsBound, NothingKnown, AnswerGiven, HistoryCovers, LearnedIsTrue
  <1>11. ASSUME NEW a \in Accounts, NEW e \in Entry, Rename(a, e) PROVE DirectoryIInv'
    <2>1. /\ directory' = [directory EXCEPT ![a] = e] /\ renames' = renames + 1
          /\ renames < MaxRenames
          /\ called' = IF a = account THEN called \cup {e.sam, e.upn} ELSE called
          /\ UNCHANGED <<settings, typed, stage, account, who, entry, identity, user>>
      BY <1>11 DEF Rename, request
    <2>2. called \subseteq called' /\ called' \subseteq Names \cup {NoName}
      BY <1>0, <2>1 DEF Entry, DirectoryTypeOK
    <2>3. DirectoryInv'
      BY <1>0, <2>1, <2>2
      DEF DirectoryIInv, DirectoryInv, DirectoryTypeOK, NamedAsBound
    <2>4. (NothingKnown /\ AnswerGiven /\ LearnedIsTrue)'
      BY <2>1, <2>2 DEF DirectoryIInv, NothingKnown, AnswerGiven, LearnedIsTrue
    <2>5. HistoryCovers'
      BY <1>0, <2>1 DEF DirectoryIInv, HistoryCovers, DirectoryTypeOK
    <2>6. QED
      BY <2>3, <2>4, <2>5 DEF DirectoryIInv
  <1>12. CASE UNCHANGED directoryVars
    BY <1>12
    DEF directoryVars, DirectoryIInv, DirectoryInv, DirectoryTypeOK, NamedAsBound,
        NothingKnown, AnswerGiven, HistoryCovers, LearnedIsTrue, Canonical
  <1>13. QED
    BY <1>1, <1>2, <1>3, <1>4, <1>5, <1>6, <1>7, <1>8, <1>9, <1>10, <1>11, <1>12
    DEF DirectoryNext

\* Types and names: a sign-in is given a name of the account that was bound
\* (authenticate_ldap).
THEOREM DirectoryInvariant == DirectorySpec => []DirectoryInv
  <1>1. DirectoryIInv => DirectoryInv
    BY DEF DirectoryIInv
  <1>2. QED
    BY <1>1, DirectoryInitInv, DirectoryNextInv, PTL DEF DirectorySpec
=============================================================================
