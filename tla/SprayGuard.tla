----------------------------- MODULE SprayGuard ------------------------------
(***************************************************************************)
(* The limiter in front of the directory (login_spray_block and            *)
(* note_login_spray in nemo_integration.rs): it counts the distinct         *)
(* accounts that fail to sign in from one address, and from anywhere, and   *)
(* refuses sign-ins for a while when there are too many.  Sign-ins that     *)
(* have passed it go on to fail while it is closed.                         *)
(***************************************************************************)
EXTENDS Naturals, FiniteSets

CONSTANTS Usernames, Sources,  \* accounts and addresses sign-ins come from
          Attempts,           \* tasks of /api/login
          SourceWindow, SourceMax, SourceCooldown,   \* SPRAY_IP_*
          FleetWindow, FleetMax, FleetCooldown,      \* SPRAY_GLOBAL_*
          MaxTracked,         \* SPRAY_MAX_TRACKED_IPS
          Untracked,          \* a source without a window
          Waiting,            \* a task without a sign-in
          LastTick            \* bound: the clock stops here

\* SprayWindow; blocked_until is 0 before the first trip.
Window == [accounts : SUBSET Usernames, started : Nat, until : Nat]
SignIn == [source : Sources, account : Usernames]

ASSUME SprayAssumption ==
  /\ SourceWindow \in Nat \ {0} /\ SourceMax \in Nat /\ SourceCooldown \in Nat
  /\ FleetWindow \in Nat \ {0} /\ FleetMax \in Nat /\ FleetCooldown \in Nat
  /\ MaxTracked \in Nat /\ LastTick \in Nat \ {0}
  /\ Untracked \notin Window /\ Waiting \notin SignIn

VARIABLES
  clock,      \* now_secs
  windows,    \* SPRAY_BY_IP
  fleet,      \* SPRAY_GLOBAL
  attempt,    \* the sign-in each task has sent to the directory
  failures,   \* history: failed sign-ins of the last window
  closedAt    \* history: when each source was last refused further sign-ins

sprayVars == <<clock, windows, fleet, attempt, failures, closedAt>>

SprayInit ==
  /\ clock = 1
  /\ windows = [s \in Sources |-> Untracked]
  /\ fleet = [accounts |-> {}, started |-> 0, until |-> 0]
  /\ attempt = [t \in Attempts |-> Waiting]
  /\ failures = {}
  /\ closedAt = [s \in Sources |-> 0]

\* SprayWindow::roll
Rolled(w, length) ==
  IF clock - w.started >= length THEN [w EXCEPT !.accounts = {}, !.started = clock] ELSE w

\* Mutant: it trips at the limit, not beyond it.
Counted_Early(w, account, max, cooldown) ==
  LET more == [w EXCEPT !.accounts = @ \cup {account}]
  IN IF Cardinality(more.accounts) >= max /\ clock >= w.until
       THEN [accounts |-> {}, started |-> clock, until |-> clock + cooldown] ELSE more

\* One more failure in a window, and SprayWindow::trip when it is one too many.
Counted(w, account, max, cooldown) ==
  LET more == [w EXCEPT !.accounts = @ \cup {account}]
  IN IF Cardinality(more.accounts) > max /\ clock >= w.until
       THEN [accounts |-> {}, started |-> clock, until |-> clock + cooldown] ELSE more

Closed(w) == clock < w.until

\* login_spray_block, before the directory is asked.  Whoever is refused is told so.
Pass(t, s, account) ==
  /\ attempt[t] = Waiting
  /\ ~Closed(fleet)
  /\ fleet' = Rolled(fleet, FleetWindow)
  /\ windows[s] # Untracked => ~Closed(windows[s])
  /\ attempt' = [attempt EXCEPT ![t] = [source |-> s, account |-> account]]
  /\ UNCHANGED <<clock, windows, failures, closedAt>>

RefusedBySource(s) ==
  /\ ~Closed(fleet)
  /\ windows[s] # Untracked /\ Closed(windows[s])
  /\ fleet' = Rolled(fleet, FleetWindow)
  /\ UNCHANGED <<clock, windows, attempt, failures, closedAt>>

Succeed(t) ==
  /\ attempt[t] # Waiting
  /\ attempt' = [attempt EXCEPT ![t] = Waiting]
  /\ UNCHANGED <<clock, windows, fleet, failures, closedAt>>

\* Mutant: pruning looks at the window alone.
Retained_Recent(s) ==
  windows[s] # Untracked /\ clock - windows[s].started < SourceWindow

\* What the pruning of the table leaves.
Retained(s) ==
  windows[s] # Untracked /\ (Closed(windows[s]) \/ clock - windows[s].started < SourceWindow)

\* The window of s after another failure.
CountedFor(s, account) ==
  LET w == IF Retained(s) THEN windows[s] ELSE [accounts |-> {}, started |-> clock, until |-> 0]
  IN Counted(Rolled(w, SourceWindow), account, SourceMax, SourceCooldown)

\* note_login_spray: the fleet first, then the source, if there is room for it.
CredentialsFail(t) ==
  LET s == attempt[t].source
      account == attempt[t].account
      kept == {r \in Sources : Retained(r)}
      room == s \in kept \/ Cardinality(kept) < MaxTracked
  IN /\ attempt[t] # Waiting
     /\ fleet' = Counted(Rolled(fleet, FleetWindow), account, FleetMax, FleetCooldown)
     /\ windows' = [r \in Sources |->
          IF r = s /\ room THEN CountedFor(s, account)
          ELSE IF r \in kept THEN windows[r] ELSE Untracked]
     /\ attempt' = [attempt EXCEPT ![t] = Waiting]
     /\ failures' = failures \cup {[source |-> s, account |-> account, at |-> clock]}
     /\ closedAt' = IF room /\ CountedFor(s, account).started = clock
                            /\ CountedFor(s, account).until = clock + SourceCooldown
                      THEN [closedAt EXCEPT ![s] = clock] ELSE closedAt
     /\ UNCHANGED clock

SprayTick ==
  /\ clock < LastTick
  /\ clock' = clock + 1
  /\ failures' = {f \in failures : clock' - f.at < SourceWindow \/ clock' - f.at < FleetWindow}
  /\ UNCHANGED <<windows, fleet, attempt, closedAt>>

\* Everything is in memory only.
SprayRestart ==
  /\ windows' = [s \in Sources |-> Untracked]
  /\ fleet' = [accounts |-> {}, started |-> 0, until |-> 0]
  /\ attempt' = [t \in Attempts |-> Waiting]
  /\ closedAt' = [s \in Sources |-> 0]
  /\ UNCHANGED <<clock, failures>>

SprayNext ==
  \/ \E t \in Attempts :
       \/ \E s \in Sources, a \in Usernames : Pass(t, s, a)
       \/ Succeed(t)
       \/ CredentialsFail(t)
  \/ \E s \in Sources : RefusedBySource(s)
  \/ SprayTick
  \/ SprayRestart

SpraySpec == SprayInit /\ [][SprayNext]_sprayVars

-----------------------------------------------------------------------------
(* Properties.                                                             *)

\* Every variable holds what its code counterpart can hold.
SprayTypeOK ==
  /\ clock \in 1..LastTick
  /\ windows \in [Sources -> Window \cup {Untracked}]
  /\ fleet \in Window
  /\ attempt \in [Attempts -> SignIn \cup {Waiting}]
  /\ failures \subseteq [source : Sources, account : Usernames, at : Nat]
  /\ closedAt \in [Sources -> Nat]

\* A closed source stays closed for the whole cooldown, whatever sign-ins fail meanwhile
\* and however full the table of sources is (the pruning in note_login_spray keeps
\* windows that are closed, and a roll leaves the deadline).
CooldownHolds ==
  \A s \in Sources : closedAt[s] # 0 /\ clock < closedAt[s] + SourceCooldown =>
    windows[s] # Untracked /\ windows[s].until = closedAt[s] + SourceCooldown

\* Types and cooldowns together (note_login_spray).
SprayInv == SprayTypeOK /\ CooldownHolds

\* No source or fleet is closed but for failures of more distinct accounts than its limit,
\* within one window: an account that fails over and over closes nothing.
BlamedOn(fs, length) ==
  {a \in Usernames : \E f \in fs : f.account = a /\ clock - f.at < length}
ClosesForCause ==
  [][/\ \A s \in Sources : closedAt'[s] > closedAt[s] =>
          Cardinality(BlamedOn({f \in failures' : f.source = s}, SourceWindow)) > SourceMax
     /\ fleet'.until > fleet.until =>
          Cardinality(BlamedOn(failures', FleetWindow)) > FleetMax]_sprayVars
=============================================================================
