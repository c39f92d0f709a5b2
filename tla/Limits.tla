-------------------------------- MODULE Limits --------------------------------
(***************************************************************************)
(* What hbbs counts of the clients that come to it: registrations per      *)
(* address (IP_BLOCKER, check_ip_blocker) and punch requests (PUNCH_REQS), *)
(* with the commands an operator has for both (rendezvous_server.rs).      *)
(* Each table has one lock, held for a whole operation.                    *)
(***************************************************************************)
EXTENDS Naturals, Sequences, FiniteSets

CONSTANTS Addresses, RegIds,
          AttemptLimit, IdLimit, \* 30 and 300 in check_ip_blocker
          BlockFor, IdsFor,      \* IP_BLOCK_DUR, DAY_SECONDS, in ticks
          Pairs,                 \* a requester's address and the id it asks for
          DedupeFor,             \* PUNCH_REQ_DEDUPE_SEC
          LookBack,              \* how far back a duplicate is looked for: 30
          MAX_PUNCH_REQS,
          Unseen                 \* an address IP_BLOCKER has no entry for

ASSUME LimitsAssumption ==
  {AttemptLimit, IdLimit, BlockFor, IdsFor, DedupeFor, LookBack, MAX_PUNCH_REQS} \subseteq Nat

VARIABLES
  blocker,   \* IP_BLOCKER
  refused,   \* history: for how long an address has been refused every registration
  punches    \* PUNCH_REQS, oldest first, with the age of each

limitVars == <<blocker, refused, punches>>

\* Two counters of a source: attempts with their age, and ids with theirs.  Ages stop
\* where they make no difference any more.
OldestAttempt == BlockFor + 1
OldestIds == IdsFor + 1
OldestPunch == DedupeFor
LongRefused == BlockFor + IdsFor + 3
Counters == [attempts : Nat, age : 0..OldestAttempt, ids : SUBSET RegIds, idsAge : 0..OldestIds]

LimitsInit ==
  /\ blocker = [a \in Addresses |-> Unseen]
  /\ refused = [a \in Addresses |-> 0]
  /\ punches = <<>>

Older(age, oldest) == IF age < oldest THEN age + 1 ELSE oldest

LimitsTick ==
  /\ blocker' = [a \in Addresses |-> IF blocker[a] = Unseen THEN Unseen
       ELSE [blocker[a] EXCEPT !.age = Older(@, OldestAttempt), !.idsAge = Older(@, OldestIds)]]
  /\ refused' = [a \in Addresses |-> IF refused[a] = 0 THEN 0 ELSE Older(refused[a], LongRefused)]
  /\ punches' = [i \in DOMAIN punches |-> [punches[i] EXCEPT !.age = Older(@, OldestPunch)]]

-----------------------------------------------------------------------------
(* check_ip_blocker                                                        *)

\* The counter of attempts lets another one pass.
AttemptPasses(b) == b.age > BlockFor \/ b.attempts <= AttemptLimit
AttemptCounted(b) ==
  [b EXCEPT !.attempts = IF b.age > BlockFor THEN 1 ELSE @ + 1, !.age = 0]

\* The counter of ids is full, and does not know this one.
Crowded(b) == b.idsAge <= IdsFor /\ Cardinality(b.ids) > IdLimit
IdCounted(b, id) ==
  IF Crowded(b) THEN b
  ELSE [b EXCEPT !.ids = IF b.idsAge > IdsFor /\ id \in b.ids THEN {}
                         ELSE (IF b.idsAge > IdsFor THEN {} ELSE @) \cup {id},
                 !.idsAge = 0]

Admit(a) == refused' = [refused EXCEPT ![a] = 0]
Refuse(a) == refused' = [refused EXCEPT ![a] = IF @ = 0 THEN 1 ELSE @]

\* An address without an entry gets one, which does not count this registration yet.
FirstAttempt(a) ==
  /\ blocker[a] = Unseen
  /\ blocker' = [blocker EXCEPT ![a] = [attempts |-> 0, age |-> 0, ids |-> {}, idsAge |-> 0]]
  /\ Admit(a) /\ UNCHANGED punches

\* Another one.  A refused attempt leaves the counter of attempts as it is.
Attempt(a, id) ==
  LET b == blocker[a] IN
  /\ b # Unseen
  /\ IF ~AttemptPasses(b)
       THEN Refuse(a) /\ UNCHANGED blocker
       ELSE /\ blocker' = [blocker EXCEPT ![a] = IdCounted(AttemptCounted(b), id)]
            /\ IF Crowded(b) /\ id \notin b.ids THEN Refuse(a) ELSE Admit(a)
  /\ UNCHANGED punches

\* The ip-blocker command forgets what neither counter needs, and what it is told to.
Needed(b) == b.age <= BlockFor \/ b.idsAge <= IdsFor
CommandIpBlocker(cleared) ==
  /\ blocker' = [a \in Addresses |->
       IF blocker[a] # Unseen /\ a \notin cleared /\ Needed(blocker[a]) THEN blocker[a] ELSE Unseen]
  /\ refused' = [a \in Addresses |-> IF a \in cleared THEN 0 ELSE refused[a]]
  /\ UNCHANGED punches

-----------------------------------------------------------------------------
(* PUNCH_REQS                                                              *)

Bounded(s) == IF Len(s) > MAX_PUNCH_REQS THEN SubSeq(s, Len(s) - MAX_PUNCH_REQS + 1, Len(s)) ELSE s

\* Mutant: the look back starts at the other end.
Recent_Oldest(p) ==
  \E i \in DOMAIN punches : punches[i].pair = p /\ punches[i].age < DedupeFor
                            /\ \A j \in 1..(i - 1) : punches[j].pair # p

\* The youngest entry of the pair among the last ones is too recent for another.
Recent(p) ==
  LET last == {i \in DOMAIN punches : i > Len(punches) - LookBack /\ punches[i].pair = p}
  IN \E i \in last : (\A j \in last : j <= i) /\ punches[i].age < DedupeFor

Punch(p) ==
  /\ punches' = IF Recent(p) THEN punches ELSE Bounded(Append(punches, [pair |-> p, age |-> 0]))
  /\ UNCHANGED <<blocker, refused>>

CommandClearPunches ==
  /\ punches # <<>> /\ punches' = <<>>
  /\ UNCHANGED <<blocker, refused>>

LimitsNext ==
  \/ \E a \in Addresses : FirstAttempt(a) \/ \E id \in RegIds : Attempt(a, id)
  \/ \E cleared \in SUBSET Addresses : CommandIpBlocker(cleared)
  \/ \E p \in Pairs : Punch(p)
  \/ CommandClearPunches
  \/ LimitsTick

LimitsSpec == LimitsInit /\ [][LimitsNext]_limitVars

-----------------------------------------------------------------------------
(* Properties.                                                             *)

\* Every variable holds what its code counterpart can hold.
LimitsTypeOK ==
  /\ blocker \in [Addresses -> Counters \cup {Unseen}]
  /\ refused \in [Addresses -> 0..LongRefused]
  /\ punches \in Seq([pair : Pairs, age : 0..OldestPunch]) /\ Len(punches) <= MAX_PUNCH_REQS

\* However often an address tries, with whatever ids, it is not shut out for good: when it
\* has been refused for as long as both windows last, any id is let in again (refused
\* attempts do not extend them).
LockoutEnds ==
  \A a \in Addresses, id \in RegIds : refused[a] = LongRefused =>
    \/ blocker[a] = Unseen
    \/ AttemptPasses(blocker[a]) /\ (id \in blocker[a].ids \/ ~Crowded(blocker[a]))

\* A pair is noted at most once a window, unless so many other requests came in between
\* that the look back for it does not reach the first.
NotedOnce ==
  \A i, j \in DOMAIN punches :
    i < j /\ punches[i].pair = punches[j].pair /\ punches[i].age < DedupeFor => j - i > LookBack

\* Types, windows and notes together (check_ip_blocker, handle_punch_hole_request).
LimitsInv == LimitsTypeOK /\ LockoutEnds /\ NotedOnce
=============================================================================
