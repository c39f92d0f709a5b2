--------------------------- MODULE DeviceKeysProofs ---------------------------
(***************************************************************************)
(* For any keys, machines, requests and table sizes: a proof is accepted   *)
(* only for an id the operator has tied to the key, a token stays with one *)
(* machine, and a denial stays on file.                                    *)
(***************************************************************************)
EXTENDS DeviceKeys, FiniteSetTheorems, TLAPS

-----------------------------------------------------------------------------
(* Tables of claims.                                                       *)

\* One more claim (register_pending_claim_in with room to spare).
LEMMA OneMore ==
  ASSUME NEW S, IsFiniteSet(S), NEW x
  PROVE  /\ IsFiniteSet(S \cup {x})
         /\ Cardinality(S \cup {x}) \in Nat
         /\ Cardinality(S \cup {x}) <= Cardinality(S) + 1
  <1>1. /\ IsFiniteSet(S \cup {x})
        /\ Cardinality(S \cup {x}) = IF x \in S THEN Cardinality(S) ELSE Cardinality(S) + 1
    BY FS_AddElement
  <1>2. Cardinality(S) \in Nat
    BY FS_CardinalityType
  <1>3. QED
    BY <1>1, <1>2

\* One claim in the place of another (a full table; deny_device_key_claim).
LEMMA OneForOne ==
  ASSUME NEW S, IsFiniteSet(S), NEW c \in S, NEW x
  PROVE  /\ IsFiniteSet((S \ {c}) \cup {x})
         /\ Cardinality((S \ {c}) \cup {x}) \in Nat
         /\ Cardinality((S \ {c}) \cup {x}) <= Cardinality(S)
  <1>1. IsFiniteSet(S \ {c}) /\ Cardinality(S \ {c}) = Cardinality(S) - 1
    BY FS_RemoveElement
  <1>2. /\ IsFiniteSet((S \ {c}) \cup {x})
        /\ Cardinality((S \ {c}) \cup {x}) \in Nat
        /\ Cardinality((S \ {c}) \cup {x}) <= Cardinality(S \ {c}) + 1
    BY <1>1, OneMore
  <1>3. Cardinality(S) \in Nat
    BY FS_CardinalityType
  <1>4. QED
    BY <1>1, <1>2, <1>3

\* Fewer claims (remove_device_key, forget_device_key_claim).
LEMMA Fewer ==
  ASSUME NEW S, IsFiniteSet(S), NEW T \in SUBSET S
  PROVE  /\ IsFiniteSet(T)
         /\ Cardinality(T) \in Nat
         /\ Cardinality(T) <= Cardinality(S)
  BY FS_Subset, FS_CardinalityType

\* The claims of one key are a finite part of the table.
LEMMA PartIsFinite ==
  ASSUME KeysTypeOK, NEW k \in Keys
  PROVE  IsFiniteSet(ClaimsOf(k)) /\ Cardinality(ClaimsOf(k)) \in Nat
  <1>1. ClaimsOf(k) \in SUBSET claims
    BY DEF ClaimsOf
  <1>2. QED
    BY <1>1, Fewer DEF KeysTypeOK

\* Dropping claims keeps the table within its bounds.
LEMMA DropKeepsBounds ==
  ASSUME KeysIInv, claims' \subseteq claims
  PROVE  ClaimTableIsBounded' /\ IsFiniteSet(claims') /\ claims' \subseteq Claim
  <1> USE KeysAssumption
  <1>1. IsFiniteSet(claims) /\ claims \subseteq Claim
    BY DEF KeysIInv, KeysTypeOK
  <1>2. /\ IsFiniteSet(claims') /\ Cardinality(claims') \in Nat
        /\ Cardinality(claims') <= Cardinality(claims)
    BY <1>1, Fewer
  <1>3. Cardinality(claims) \in Nat
    BY <1>1, FS_CardinalityType
  <1>4. Cardinality(claims)' <= MaxClaims
    BY <1>2, <1>3 DEF KeysIInv, ClaimTableIsBounded
  <1>5. ASSUME NEW k \in Keys PROVE Cardinality(ClaimsOf(k)') <= MaxPerKey
    <2>1. ClaimsOf(k)' \in SUBSET ClaimsOf(k)
      BY DEF ClaimsOf
    <2>2. IsFiniteSet(ClaimsOf(k)) /\ Cardinality(ClaimsOf(k)) \in Nat
      BY PartIsFinite DEF KeysIInv
    <2>3. /\ Cardinality(ClaimsOf(k)') \in Nat
          /\ Cardinality(ClaimsOf(k)') <= Cardinality(ClaimsOf(k))
      BY <2>1, <2>2, Fewer
    <2>4. Cardinality(ClaimsOf(k)) <= MaxPerKey
      BY DEF KeysIInv, ClaimTableIsBounded
    <2>5. QED
      BY <2>2, <2>3, <2>4
  <1>6. \A c, d \in claims' : c.key = d.key /\ c.peer = d.peer => c = d
    BY DEF KeysIInv, ClaimTableIsBounded
  <1>7. QED
    BY <1>1, <1>2, <1>4, <1>5, <1>6 DEF ClaimTableIsBounded

\* Filing a claim keeps the table within its bounds, whichever row makes room.
LEMMA AddKeepsBounds ==
  ASSUME KeysIInv, NEW a \in Ask, ~NotFiled(a), AddClaim(a)
  PROVE  /\ ClaimTableIsBounded' /\ IsFiniteSet(claims') /\ claims' \subseteq Claim
         /\ \E s \in Nat : claims' \subseteq claims \cup {NewClaim(a, s)}
  <1> USE KeysAssumption
  <1>1. IsFiniteSet(claims) /\ claims \subseteq Claim /\ Cardinality(claims) \in Nat
    BY FS_CardinalityType DEF KeysIInv, KeysTypeOK
  <1>2. PICK s \in 0..MaxSeen :
          \/ /\ Cardinality(claims) < MaxClaims
             /\ claims' = claims \cup {NewClaim(a, s)}
          \/ /\ Cardinality(claims) >= MaxClaims
             /\ \E c \in Evictable : claims' = (claims \ {c}) \cup {NewClaim(a, s)}
    BY DEF AddClaim
  <1> DEFINE new == NewClaim(a, s)
  <1>3. new \in Claim /\ new.key = a.key /\ new.peer = a.peer /\ s \in Nat
    BY DEF NewClaim, Claim, Ask
  <1>4. claims' \subseteq claims \cup {new}
    BY <1>2 DEF Evictable
  <1>5. IsFiniteSet(claims') /\ Cardinality(claims') <= MaxClaims
    <2>1. CASE Cardinality(claims) < MaxClaims /\ claims' = claims \cup {new}
      <3>1. /\ IsFiniteSet(claims \cup {new}) /\ Cardinality(claims \cup {new}) \in Nat
            /\ Cardinality(claims \cup {new}) <= Cardinality(claims) + 1
        BY <1>1, OneMore
      <3>2. QED
        BY <2>1, <1>1, <3>1
    <2>2. CASE \E c \in Evictable : claims' = (claims \ {c}) \cup {new}
      <3>1. PICK c \in Evictable : claims' = (claims \ {c}) \cup {new}
        BY <2>2
      <3>2. c \in claims
        BY DEF Evictable
      <3>3. /\ IsFiniteSet(claims') /\ Cardinality(claims') \in Nat
            /\ Cardinality(claims') <= Cardinality(claims)
        BY <3>1, <3>2, <1>1, OneForOne
      <3>4. Cardinality(claims) <= MaxClaims
        BY DEF KeysIInv, ClaimTableIsBounded
      <3>5. QED
        BY <3>3, <3>4, <1>1
    <2>3. QED
      BY <1>2, <2>1, <2>2
  <1>6. ASSUME NEW k \in Keys PROVE Cardinality(ClaimsOf(k)') <= MaxPerKey
    <2>1. IsFiniteSet(ClaimsOf(k)) /\ Cardinality(ClaimsOf(k)) \in Nat
      BY PartIsFinite DEF KeysIInv
    <2>2. Cardinality(ClaimsOf(k)) <= MaxPerKey
      BY DEF KeysIInv, ClaimTableIsBounded
    <2>3. CASE k = a.key
      <3>1. Cardinality(ClaimsOf(k)) < MaxPerKey
        BY <2>1, <2>3 DEF NotFiled
      <3>2. /\ IsFiniteSet(ClaimsOf(k) \cup {new})
            /\ Cardinality(ClaimsOf(k) \cup {new}) \in Nat
            /\ Cardinality(ClaimsOf(k) \cup {new}) <= Cardinality(ClaimsOf(k)) + 1
        BY <2>1, OneMore
      <3>3. ClaimsOf(k)' \in SUBSET (ClaimsOf(k) \cup {new})
        BY <1>4 DEF ClaimsOf
      <3>4. /\ Cardinality(ClaimsOf(k)') \in Nat
            /\ Cardinality(ClaimsOf(k)') <= Cardinality(ClaimsOf(k) \cup {new})
        BY <3>2, <3>3, Fewer
      <3>5. QED
        BY <2>1, <3>1, <3>2, <3>4
    <2>4. CASE k # a.key
      <3>1. ClaimsOf(k)' \in SUBSET ClaimsOf(k)
        BY <1>3, <1>4, <2>4 DEF ClaimsOf
      <3>2. Cardinality(ClaimsOf(k)') \in Nat /\ Cardinality(ClaimsOf(k)') <= Cardinality(ClaimsOf(k))
        BY <2>1, <3>1, Fewer
      <3>3. QED
        BY <2>1, <2>2, <3>2
    <2>5. QED
      BY <2>3, <2>4
  <1>7. \A c, d \in claims' : c.key = d.key /\ c.peer = d.peer => c = d
    <2>1. \A c \in claims : ~(c.key = a.key /\ c.peer = a.peer)
      BY DEF NotFiled, ClaimsOf
    <2>2. QED
      BY <2>1, <1>3, <1>4 DEF KeysIInv, ClaimTableIsBounded
  <1>8. QED
    BY <1>1, <1>3, <1>4, <1>5, <1>6, <1>7 DEF ClaimTableIsBounded

-----------------------------------------------------------------------------
(* The inductive invariant.                                                *)

LEMMA InitInv == KeysInit => KeysIInv
  <1> SUFFICES ASSUME KeysInit PROVE KeysIInv
    OBVIOUS
  <1> USE KeysAssumption
  <1>1. KeysTypeOK
    BY FS_EmptySet DEF KeysInit, KeysTypeOK, Bindings, Claim
  <1>2. \A k \in Keys : ClaimsOf(k) = {}
    BY DEF KeysInit, ClaimsOf
  <1>3. ClaimTableIsBounded
    <2>1. claims = {} /\ Cardinality(claims) = 0
      BY FS_EmptySet DEF KeysInit
    <2>2. \A k \in Keys : Cardinality(ClaimsOf(k)) = 0
      BY <1>2, FS_EmptySet
    <2>3. QED
      BY <2>1, <2>2 DEF ClaimTableIsBounded
  <1>4. ClaimsAreProven /\ AcceptedIsTied
    BY DEF KeysInit, ClaimsAreProven, AcceptedIsTied
  <1>5. RegistryIsTied
    BY DEF KeysInit, RegistryIsTied, Pinned, Bindings
  <1>6. QED
    BY <1>1, <1>3, <1>4, <1>5 DEF KeysIInv

\* A request that ends leaves nothing behind (every refusal).
LEMMA LeaveType ==
  ASSUME KeysIInv, NEW r \in Requests, NEW from, Leave(r, from)
  PROVE  /\ stage' \in [Requests -> {"idle", "read", "claim", "accepted", "serving"}]
         /\ asks' \in [Requests -> Ask \cup {NoAsk}] /\ saw' \in [Requests -> Bindings]
         /\ stage'[r] = "idle"
         /\ \A q \in Requests \ {r} :
              stage'[q] = stage[q] /\ asks'[q] = asks[q] /\ saw'[q] = saw[q]
  BY KeysAssumption DEF KeysIInv, KeysTypeOK, Leave, GoTo, Bindings

\* The parts of the invariant about requests, when one of them ends and the registry stays.
LEMMA LeaveKeeps ==
  ASSUME KeysIInv, NEW r \in Requests, NEW from, Leave(r, from),
         UNCHANGED <<bound, claiming, tied, typed>>,
         claims' \subseteq Claim, IsFiniteSet(claims')
  PROVE  KeysTypeOK' /\ AcceptedIsTied' /\ RegistryIsTied'
  <1>1. /\ stage' \in [Requests -> {"idle", "read", "claim", "accepted", "serving"}]
        /\ asks' \in [Requests -> Ask \cup {NoAsk}] /\ saw' \in [Requests -> Bindings]
        /\ stage'[r] = "idle"
        /\ \A q \in Requests \ {r} :
             stage'[q] = stage[q] /\ asks'[q] = asks[q] /\ saw'[q] = saw[q]
    BY LeaveType
  <1>2. KeysTypeOK'
    BY <1>1 DEF KeysIInv, KeysTypeOK
  <1>3. AcceptedIsTied'
    BY <1>1 DEF KeysIInv, AcceptedIsTied
  <1>4. RegistryIsTied'
    BY <1>1 DEF KeysIInv, RegistryIsTied, Pinned
  <1>5. QED
    BY <1>2, <1>3, <1>4

\* What concerns the table alone, while the table and the bindings stay.
LEMMA TableKeeps ==
  ASSUME KeysIInv, UNCHANGED registry
  PROVE  ClaimsAreProven' /\ ClaimTableIsBounded'
  BY DEF KeysIInv, ClaimsAreProven, ClaimTableIsBounded, ClaimsOf, Pinned, registry

LEMMA PresentInv ==
  ASSUME KeysIInv, NEW r \in Requests, Present(r)
  PROVE  KeysIInv'
  <1>1. PICK a \in Ask :
          /\ Pinned(a.key) /\ GoTo(r, "idle", "read")
          /\ asks' = [asks EXCEPT ![r] = a] /\ saw' = [saw EXCEPT ![r] = bound[a.key]]
          /\ UNCHANGED registry
    BY DEF Present
  <1>2. a.key \in Keys /\ bound[a.key] \in Bindings /\ <<a.key, bound[a.key]>> \in tied
    BY <1>1 DEF Ask, Pinned, KeysIInv, RegistryIsTied
  <1>3. KeysTypeOK'
    BY <1>1, <1>2 DEF KeysIInv, KeysTypeOK, GoTo, registry
  <1>4. AcceptedIsTied'
    BY <1>1 DEF KeysIInv, KeysTypeOK, AcceptedIsTied, GoTo, registry
  <1>5. RegistryIsTied'
    BY <1>1, <1>2 DEF KeysIInv, KeysTypeOK, RegistryIsTied, GoTo, registry, Pinned
  <1>6. QED
    BY <1>1, <1>3, <1>4, <1>5, TableKeeps DEF KeysIInv

LEMMA DecideInv ==
  ASSUME KeysIInv, NEW r \in Requests, Decide(r)
  PROVE  KeysIInv'
  <1> DEFINE a == asks[r]
             verdict == IF <<a.key, a.peer>> \in Holds THEN Decision(saw[r], a.peer) ELSE "Refused"
  <1>1. stage[r] = "read" /\ UNCHANGED registry
    BY DEF Decide
  <1>2. ClaimsAreProven' /\ ClaimTableIsBounded'
    BY <1>1, TableKeeps
  <1>3. a \in Ask /\ <<a.key, saw[r]>> \in tied
    BY <1>1 DEF KeysIInv, KeysTypeOK, RegistryIsTied
  <1>4. CASE verdict = "Proven" /\ GoTo(r, "read", "accepted") /\ UNCHANGED <<asks, saw>>
    <2>1. <<a.key, a.peer>> \in Holds /\ (saw[r] = a.peer \/ (saw[r] = Free /\ AllowUnbound))
      BY <1>4 DEF Decision
    <2>2. KeysTypeOK'
      BY <1>1, <1>3, <1>4 DEF KeysIInv, KeysTypeOK, GoTo, registry
    <2>3. AcceptedIsTied'
      BY <1>1, <1>3, <1>4, <2>1 DEF KeysIInv, KeysTypeOK, AcceptedIsTied, GoTo, registry
    <2>4. RegistryIsTied'
      BY <1>1, <1>4 DEF KeysIInv, KeysTypeOK, RegistryIsTied, GoTo, registry, Pinned
    <2>5. QED
      BY <1>2, <2>2, <2>3, <2>4 DEF KeysIInv
  <1>5. CASE verdict = "ClaimOnProof" /\ GoTo(r, "read", "claim") /\ UNCHANGED <<asks, saw>>
    <2>1. <<a.key, a.peer>> \in Holds
      BY <1>5
    <2>2. KeysTypeOK'
      BY <1>1, <1>3, <1>5 DEF KeysIInv, KeysTypeOK, GoTo, registry
    <2>3. AcceptedIsTied'
      BY <1>1, <1>5 DEF KeysIInv, KeysTypeOK, AcceptedIsTied, GoTo, registry
    <2>4. RegistryIsTied'
      BY <1>1, <1>5, <2>1 DEF KeysIInv, KeysTypeOK, RegistryIsTied, GoTo, registry, Pinned
    <2>5. QED
      BY <1>2, <2>2, <2>3, <2>4 DEF KeysIInv
  <1>6. CASE verdict = "Refused" /\ Leave(r, "read")
    <2>1. KeysTypeOK' /\ AcceptedIsTied' /\ RegistryIsTied'
      BY <1>1, <1>6, LeaveKeeps DEF registry, KeysIInv, KeysTypeOK
    <2>2. QED
      BY <1>2, <2>1 DEF KeysIInv
  <1>7. QED
    BY <1>4, <1>5, <1>6 DEF Decide

LEMMA RegisterInv ==
  ASSUME KeysIInv, NEW r \in Requests, RegisterPendingClaim(r)
  PROVE  KeysIInv'
  <1> DEFINE a == asks[r]
  <1>1. /\ Leave(r, "claim") /\ UNCHANGED <<bound, claiming, tied, typed>>
        /\ IF NotFiled(a) THEN UNCHANGED claims ELSE AddClaim(a)
    BY DEF RegisterPendingClaim
  <1>2. a \in Ask /\ <<a.key, a.peer>> \in Holds
    BY <1>1 DEF Leave, GoTo, KeysIInv, KeysTypeOK, RegistryIsTied
  <1>3. CASE UNCHANGED claims
    <2>1. KeysTypeOK' /\ AcceptedIsTied' /\ RegistryIsTied'
      BY <1>1, <1>3, LeaveKeeps DEF KeysIInv, KeysTypeOK
    <2>2. QED
      BY <1>1, <1>3, <2>1, TableKeeps DEF KeysIInv, registry
  <1>4. CASE ~NotFiled(a) /\ AddClaim(a)
    <2>1. /\ ClaimTableIsBounded' /\ IsFiniteSet(claims') /\ claims' \subseteq Claim
          /\ \E s \in Nat : claims' \subseteq claims \cup {NewClaim(a, s)}
      BY <1>2, <1>4, AddKeepsBounds
    <2>2. KeysTypeOK' /\ AcceptedIsTied' /\ RegistryIsTied'
      BY <1>1, <2>1, LeaveKeeps
    <2>3. Pinned(a.key)
      BY <1>4 DEF NotFiled
    <2>4. ClaimsAreProven'
      <3>1. PICK s \in Nat : claims' \subseteq claims \cup {NewClaim(a, s)}
        BY <2>1
      <3>2. \A c \in claims' : c \in claims \/ (c.key = a.key /\ c.peer = a.peer)
        BY <3>1 DEF NewClaim
      <3>3. QED
        BY <1>1, <1>2, <2>3, <3>2 DEF KeysIInv, ClaimsAreProven, Pinned
    <2>5. QED
      BY <2>1, <2>2, <2>4 DEF KeysIInv
  <1>5. QED
    BY <1>1, <1>3, <1>4

LEMMA FrameInv ==
  ASSUME KeysIInv, NEW r \in Requests, Frame(r) \/ Finish(r)
  PROVE  KeysIInv'
  <1>1. UNCHANGED registry
    BY DEF Frame, Finish
  <1>2. ClaimsAreProven' /\ ClaimTableIsBounded'
    BY <1>1, TableKeeps
  <1>3. ASSUME NEW from \in {"accepted", "serving"}, NEW to \in {"accepted", "serving"},
               GoTo(r, from, to), UNCHANGED <<asks, saw>>
        PROVE  KeysTypeOK' /\ AcceptedIsTied' /\ RegistryIsTied'
    <2>1. KeysTypeOK'
      BY <1>1, <1>3 DEF KeysIInv, KeysTypeOK, GoTo, registry
    <2>2. AcceptedIsTied'
      BY <1>1, <1>3 DEF KeysIInv, KeysTypeOK, AcceptedIsTied, GoTo, registry
    <2>3. RegistryIsTied'
      BY <1>1, <1>3 DEF KeysIInv, KeysTypeOK, RegistryIsTied, GoTo, registry, Pinned
    <2>4. QED
      BY <2>1, <2>2, <2>3
  <1>4. ASSUME Leave(r, "accepted") PROVE KeysTypeOK' /\ AcceptedIsTied' /\ RegistryIsTied'
    <2>1. /\ UNCHANGED <<bound, claiming, tied, typed>>
          /\ claims' \subseteq Claim /\ IsFiniteSet(claims')
      BY <1>1 DEF registry, KeysIInv, KeysTypeOK
    <2>2. QED
      BY <1>4, <2>1, LeaveKeeps
  <1>5. KeysTypeOK' /\ AcceptedIsTied' /\ RegistryIsTied'
    <2>1. \/ GoTo(r, "accepted", "serving") /\ UNCHANGED <<asks, saw>>
          \/ GoTo(r, "serving", "accepted") /\ UNCHANGED <<asks, saw>>
          \/ Leave(r, "accepted")
      BY DEF Frame, Finish
    <2>2. QED
      BY <2>1, <1>3, <1>4
  <1>6. QED
    BY <1>2, <1>5 DEF KeysIInv

\* The operator binds a key: what was tied stays tied, and no claim of the key is left.
LEMMA BindInv ==
  ASSUME KeysIInv, NEW k \in Keys, NEW b \in Bindings,
         bound' = [bound EXCEPT ![k] = b], tied' = tied \cup {<<k, b>>}, typed' \subseteq Keys,
         claims' \subseteq claims, UNCHANGED <<claiming, taskVars>>
  PROVE  KeysIInv'
  <1>1. ClaimTableIsBounded' /\ IsFiniteSet(claims') /\ claims' \subseteq Claim
    BY DropKeepsBounds
  <1>2. KeysTypeOK'
    BY <1>1 DEF KeysIInv, KeysTypeOK, taskVars
  <1>3. ClaimsAreProven'
    BY DEF KeysIInv, KeysTypeOK, ClaimsAreProven, Pinned, Claim
  <1>4. AcceptedIsTied'
    BY DEF KeysIInv, AcceptedIsTied, taskVars
  <1>5. RegistryIsTied'
    BY DEF KeysIInv, KeysTypeOK, RegistryIsTied, taskVars, Pinned
  <1>6. QED
    BY <1>1, <1>2, <1>3, <1>4, <1>5 DEF KeysIInv

LEMMA OperatorInv ==
  ASSUME KeysIInv, Operator
  PROVE  KeysIInv'
  <1>0. claims \subseteq Claim /\ IsFiniteSet(claims) /\ Peers \subseteq Bindings
        /\ typed \subseteq Keys
    BY DEF KeysIInv, KeysTypeOK, Bindings
  <1>1. ASSUME NEW k \in Keys, NEW b \in Bindings, Generate(k, b) \/ SetPeerId(k, b)
        PROVE  KeysIInv'
    BY <1>0, <1>1, BindInv DEF Generate, SetPeerId
  <1>2. ASSUME NEW k \in Keys, RemoveDeviceKey(k) PROVE KeysIInv'
    <2>1. ClaimTableIsBounded' /\ IsFiniteSet(claims') /\ claims' \subseteq Claim
      BY <1>2, DropKeepsBounds DEF RemoveDeviceKey
    <2>2. KeysTypeOK'
      BY <1>2, <2>1 DEF RemoveDeviceKey, KeysIInv, KeysTypeOK, taskVars
    <2>3. ClaimsAreProven'
      BY <1>2 DEF RemoveDeviceKey, KeysIInv, KeysTypeOK, ClaimsAreProven, Pinned, ClaimsOf, Claim
    <2>4. AcceptedIsTied'
      BY <1>2 DEF RemoveDeviceKey, KeysIInv, AcceptedIsTied, taskVars
    <2>5. Deleted \notin Bindings
      BY KeysAssumption DEF Bindings
    <2>6. RegistryIsTied'
      BY <1>2, <2>5 DEF RemoveDeviceKey, KeysIInv, KeysTypeOK, RegistryIsTied, taskVars, Pinned
    <2>7. QED
      BY <2>1, <2>2, <2>3, <2>4, <2>6 DEF KeysIInv
  <1>3. ASSUME NEW c \in claims, Approve(c) PROVE KeysIInv'
    <2>1. c.key \in Keys /\ c.peer \in Bindings
      BY <1>0 DEF Claim
    <2>2. QED
      BY <1>0, <1>3, <2>1, BindInv DEF Approve
  <1>4. ASSUME NEW c \in claims, Deny(c) PROVE KeysIInv'
    <2> DEFINE d == [c EXCEPT !.denied = TRUE]
    <2>1. d \in Claim /\ d.key = c.key /\ d.peer = c.peer
      BY <1>0 DEF Claim
    <2>2. claims' = (claims \ {c}) \cup {d} /\ UNCHANGED <<bound, claiming, tied, typed, taskVars>>
      BY <1>4 DEF Deny
    <2> HIDE DEF d
    <2>3. IsFiniteSet(claims') /\ Cardinality(claims') \in Nat
          /\ Cardinality(claims') <= Cardinality(claims)
      BY <1>0, <2>2, OneForOne
    <2>4. Cardinality(claims)' <= MaxClaims
      BY <1>0, <2>3, FS_CardinalityType, KeysAssumption DEF KeysIInv, ClaimTableIsBounded
    <2>5. ASSUME NEW k \in Keys PROVE Cardinality(ClaimsOf(k)') <= MaxPerKey
      <3>1. IsFiniteSet(ClaimsOf(k)) /\ Cardinality(ClaimsOf(k)) \in Nat
        BY PartIsFinite DEF KeysIInv
      <3>2. Cardinality(ClaimsOf(k)) <= MaxPerKey
        BY DEF KeysIInv, ClaimTableIsBounded
      <3>3. CASE c.key = k
        <4>1. c \in ClaimsOf(k) /\ ClaimsOf(k)' = (ClaimsOf(k) \ {c}) \cup {d}
          BY <2>1, <2>2, <3>3 DEF ClaimsOf
        <4>2. /\ Cardinality(ClaimsOf(k)') \in Nat
              /\ Cardinality(ClaimsOf(k)') <= Cardinality(ClaimsOf(k))
          BY <3>1, <4>1, OneForOne
        <4>3. QED
          BY <3>1, <3>2, <4>2, KeysAssumption
      <3>4. CASE c.key # k
        <4>1. ClaimsOf(k)' = ClaimsOf(k)
          BY <2>1, <2>2, <3>4 DEF ClaimsOf
        <4>2. QED
          BY <3>2, <4>1
      <3>5. QED
        BY <3>3, <3>4
    <2>6. \A e, f \in claims' : e.key = f.key /\ e.peer = f.peer => e = f
      BY <2>1, <2>2 DEF KeysIInv, ClaimTableIsBounded
    <2>7. ClaimTableIsBounded'
      BY <2>4, <2>5, <2>6 DEF ClaimTableIsBounded
    <2>8. KeysTypeOK'
      BY <1>0, <2>1, <2>2, <2>3 DEF KeysIInv, KeysTypeOK, taskVars
    <2>9. ClaimsAreProven' /\ AcceptedIsTied' /\ RegistryIsTied'
      BY <2>1, <2>2 DEF KeysIInv, ClaimsAreProven, AcceptedIsTied, RegistryIsTied, Pinned, taskVars
    <2>10. QED
      BY <2>7, <2>8, <2>9 DEF KeysIInv
  <1>5. ASSUME NEW c \in claims, Forget(c) PROVE KeysIInv'
    <2>1. ClaimTableIsBounded' /\ IsFiniteSet(claims') /\ claims' \subseteq Claim
      BY <1>5, DropKeepsBounds DEF Forget
    <2>2. QED
      BY <1>5, <2>1 DEF Forget, KeysIInv, KeysTypeOK, ClaimsAreProven, AcceptedIsTied,
                        RegistryIsTied, Pinned, taskVars
  <1>6. ASSUME NEW b \in BOOLEAN, SetClaimUnbound(b) PROVE KeysIInv'
    BY <1>6 DEF SetClaimUnbound, KeysIInv, KeysTypeOK, ClaimsAreProven, ClaimTableIsBounded,
                ClaimsOf, AcceptedIsTied, RegistryIsTied, Pinned, taskVars
  <1>7. QED
    BY <1>1, <1>2, <1>3, <1>4, <1>5, <1>6 DEF Operator

LEMMA NextInv == KeysIInv /\ [KeysNext]_keysVars => KeysIInv'
  <1> SUFFICES ASSUME KeysIInv, [KeysNext]_keysVars PROVE KeysIInv'
    OBVIOUS
  <1>1. CASE KeysRestart
    <2>1. ClaimsAreProven' /\ ClaimTableIsBounded'
      BY <1>1, TableKeeps DEF KeysRestart
    <2>2. KeysTypeOK'
      BY <1>1 DEF KeysRestart, KeysIInv, KeysTypeOK, registry, Bindings
    <2>3. AcceptedIsTied' /\ RegistryIsTied'
      BY <1>1 DEF KeysRestart, KeysIInv, AcceptedIsTied, RegistryIsTied, registry, Pinned
    <2>4. QED
      BY <2>1, <2>2, <2>3 DEF KeysIInv
  <1>2. CASE UNCHANGED keysVars
    BY <1>2 DEF keysVars, KeysIInv, KeysTypeOK, ClaimsAreProven, ClaimTableIsBounded,
                ClaimsOf, AcceptedIsTied, RegistryIsTied, Pinned
  <1>3. QED
    BY <1>1, <1>2, PresentInv, DecideInv, RegisterInv, FrameInv, OperatorInv DEF KeysNext

\* A pending claim grants nothing, no claim outlives its key, and the table of claims is
\* bounded, whatever the operator does between the reads of a proof
\* (verify_device_signature_proof, register_pending_claim).
THEOREM KeysInvariant == KeysSpec => []KeysIInv
  BY InitInv, NextInv, PTL DEF KeysSpec

-----------------------------------------------------------------------------
(* Action properties.                                                      *)

\* A bound key passes to another id only by the operator's typing it, however old the
\* claim that is approved (claim_device_key_in).
THEOREM OneTokenOneMachineHolds == KeysSpec => OneTokenOneMachine
  <1> DEFINE Step == \A k \in Keys : bound[k] \in Peers /\ bound'[k] # bound[k] =>
                       bound'[k] = Deleted \/ k \in typed'
  <1>1. ASSUME KeysIInv, [KeysNext]_keysVars PROVE [Step]_keysVars
    <2> SUFFICES ASSUME NEW k \in Keys, bound[k] \in Peers, bound'[k] # bound[k]
                 PROVE  bound'[k] = Deleted \/ k \in typed'
      OBVIOUS
    <2>0. bound \in [Keys -> Bindings \cup {Unminted, Deleted}] /\ claims \subseteq Claim
      BY <1>1 DEF KeysIInv, KeysTypeOK
    <2>1. Operator
      BY <1>1 DEF KeysNext, keysVars, registry, Present, Decide, RegisterPendingClaim, Frame,
                  Finish, KeysRestart
    <2>2. ASSUME NEW q \in Keys, NEW b \in Bindings, Generate(q, b) \/ SetPeerId(q, b)
          PROVE  k \in typed'
      BY <2>0, <2>2 DEF Generate, SetPeerId
    <2>3. ASSUME NEW q \in Keys, RemoveDeviceKey(q) PROVE bound'[k] = Deleted
      BY <2>0, <2>3 DEF RemoveDeviceKey
    <2>4. ASSUME NEW c \in claims, Approve(c) PROVE FALSE
      BY <2>0, <2>4, KeysAssumption DEF Approve, Claim
    <2>5. ASSUME NEW c \in claims, Deny(c) \/ Forget(c) PROVE FALSE
      BY <2>5 DEF Deny, Forget
    <2>6. ASSUME NEW b \in BOOLEAN, SetClaimUnbound(b) PROVE FALSE
      BY <2>6 DEF SetClaimUnbound
    <2>7. QED
      BY <2>1, <2>2, <2>3, <2>4, <2>5, <2>6 DEF Operator
  <1>2. QED
    BY <1>1, KeysInvariant, PTL DEF KeysSpec, OneTokenOneMachine

\* A denied claim leaves the table only with the operator's decision about it or its key,
\* not with retries, a full table or a restart (register_pending_claim_in).
THEOREM DenialsStick == KeysSpec => DenialSticks
  <1> DEFINE Cause(c) == \/ Forget(c) \/ RemoveDeviceKey(c.key)
                         \/ \E b \in Bindings : SetPeerId(c.key, b)
                         \/ \E d \in ClaimsOf(c.key) : Approve(d)
             Step == \A c \in claims : c.denied /\ c \notin claims' => Cause(c)
  <1>1. ASSUME KeysIInv, [KeysNext]_keysVars PROVE [Step]_keysVars
    <2> SUFFICES ASSUME NEW c \in claims, c.denied, c \notin claims'
                 PROVE  Cause(c)
      OBVIOUS
    <2>0. claims \subseteq Claim
      BY <1>1 DEF KeysIInv, KeysTypeOK
    <2>1. ASSUME NEW r \in Requests, RegisterPendingClaim(r) PROVE FALSE
      BY <2>1 DEF RegisterPendingClaim, AddClaim, Evictable
    <2>2. CASE Operator
      <3>1. ASSUME NEW k \in Keys, NEW b \in Bindings, Generate(k, b) PROVE FALSE
        BY <3>1 DEF Generate
      <3>2. ASSUME NEW k \in Keys, NEW b \in Bindings, SetPeerId(k, b) PROVE Cause(c)
        <4>1. c.key = k
          BY <3>2 DEF SetPeerId, ClaimsOf
        <4>2. QED
          BY <3>2, <4>1
      <3>3. ASSUME NEW k \in Keys, RemoveDeviceKey(k) PROVE Cause(c)
        <4>1. c.key = k
          BY <3>3 DEF RemoveDeviceKey, ClaimsOf
        <4>2. QED
          BY <3>3, <4>1
      <3>4. ASSUME NEW d \in claims, Approve(d) PROVE Cause(c)
        <4>1. d \in ClaimsOf(c.key)
          BY <3>4 DEF Approve, ClaimsOf
        <4>2. QED
          BY <3>4, <4>1
      <3>5. ASSUME NEW d \in claims, Deny(d) PROVE FALSE
        <4>1. d = c
          BY <3>5 DEF Deny
        <4>2. [c EXCEPT !.denied = TRUE] = c
          BY <2>0 DEF Claim
        <4>3. QED
          BY <3>5, <4>1, <4>2 DEF Deny
      <3>6. ASSUME NEW d \in claims, Forget(d) PROVE Cause(c)
        <4>1. d = c
          BY <3>6 DEF Forget
        <4>2. QED
          BY <3>6, <4>1
      <3>7. ASSUME NEW b \in BOOLEAN, SetClaimUnbound(b) PROVE FALSE
        BY <3>7 DEF SetClaimUnbound
      <3>8. QED
        BY <2>2, <3>1, <3>2, <3>3, <3>4, <3>5, <3>6, <3>7 DEF Operator
    <2>3. QED
      BY <1>1, <2>1, <2>2 DEF KeysNext, keysVars, registry, Present, Decide, Frame, Finish,
                              KeysRestart
  <1>2. QED
    BY <1>1, KeysInvariant, PTL DEF KeysSpec, DenialSticks
=============================================================================
