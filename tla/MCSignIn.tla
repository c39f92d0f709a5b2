------------------------------ MODULE MCSignIn -------------------------------
(* What a person passes on the way to a session, on small instances: the     *)
(* replay guard, the spray limiter, the directory, and the session itself.   *)
(* The four keep no state in common, so that each behaviour moves one of     *)
(* them, `part'; the others stay in one initial state.                       *)
EXTENDS Logins, ReplayGuard, SprayGuard, Directory, TLC

CONSTANTS ann, key1, tok1, in1, tab1, tab2, few, many,
          cred1, cred2, cred3, req1, old1,
          acc1, acc2, acc3, src1, src2, att1, att2,
          d1, d2, n1, n2

VARIABLE part
signInVars == <<loginVars, replayVars, sprayVars, directoryVars, part>>

MCSealedAt == [e \in Envelopes |-> IF e \in {cred1, req1} THEN 1 ELSE 0]
Alike == Permutations(Tabs)

SignInInit ==
  /\ part \in {"session", "replay", "spray", "directory"}
  /\ LoginInit /\ ReplayInit /\ SprayInit /\ DirectoryInit
  /\ part # "session" => perms = (CHOOSE p \in Allowlist : TRUE) /\ requireLogin /\ requireKey
  /\ part # "directory" => directory = CHOOSE d \in [Accounts -> Entry] : TRUE

SignInNext ==
  \/ part = "session" /\ LoginNext /\ UNCHANGED <<replayVars, sprayVars, directoryVars, part>>
  \/ part = "replay" /\ ReplayNext /\ UNCHANGED <<loginVars, sprayVars, directoryVars, part>>
  \/ part = "spray" /\ SprayNext /\ UNCHANGED <<loginVars, replayVars, directoryVars, part>>
  \/ part = "directory" /\ DirectoryNext /\ UNCHANGED <<loginVars, replayVars, sprayVars, part>>

SignInSpec == SignInInit /\ [][SignInNext]_signInVars
=============================================================================
