----------------------------- MODULE LoginsProofs -----------------------------
(***************************************************************************)
(* For any accounts, keys, tokens, sign-ins and dashboard tabs: a session   *)
(* ends with the permission and the device key it stands for.               *)
(***************************************************************************)
EXTENDS Logins, TLAPS

-----------------------------------------------------------------------------
(* Type correctness.                                                       *)

SignInRecord == [at : {"idle", "directory", "recorded", "admitted"},
                 session : Session \cup {NoSession}]
TabRecord == [at : {"idle", "loading", "loaded", "evicting", "dropping"},
              old : Allowlist, new : Allowlist, version : 0..MaxVersion,
              key : DevKeys \cup {NoKey}]

\* The records with which tasks start and end.
LEMMA InitialRecords ==
  /\ NoLogin \in SignInRecord
  /\ NoTab \in TabRecord
  BY LoginsAssumption DEF NoLogin, SignInRecord, NoTab, TabRecord, Allowlist, Entries

\* A step of one sign-in task keeps the types when its new record is well typed.
LEMMA SignInType ==
  ASSUME LoginTypeOK, NEW l \in SignIns, NEW rec \in SignInRecord,
         rec.at # "idle" => rec.session \in Session,
         login' = [login EXCEPT ![l] = rec], UNCHANGED <<config, tab>>,
         sessions' \in [Tokens -> Session \cup {NoSession}]
  PROVE  LoginTypeOK'
  <1>1. login' \in [SignIns -> SignInRecord]
    BY DEF LoginTypeOK, SignInRecord
  <1>2. \A k \in SignIns : login'[k].at # "idle" => login'[k].session \in Session
    BY DEF LoginTypeOK
  <1>3. QED
    BY <1>1, <1>2 DEF LoginTypeOK, SignInRecord, config

\* The same for a step of one tab that leaves the configuration alone.
LEMMA TabType ==
  ASSUME LoginTypeOK, NEW a \in Tabs, NEW rec \in TabRecord, Put(a, rec),
         UNCHANGED <<config, login>>,
         sessions' \in [Tokens -> Session \cup {NoSession}]
  PROVE  LoginTypeOK'
  <1>1. tab' \in [Tabs -> TabRecord]
    BY DEF LoginTypeOK, TabRecord, Put
  <1>2. QED
    BY <1>1 DEF LoginTypeOK, TabRecord, config

\* Every edit of the allowlist.
LEMMA CommitType ==
  ASSUME LoginTypeOK, NEW a \in Tabs, NEW new \in Allowlist, Commit(a, new),
         requireLogin' \in BOOLEAN
  PROVE  LoginTypeOK'
  <1> DEFINE rec == [NoTab EXCEPT !.at = "evicting", !.old = perms, !.new = new]
  <1>1. rec \in TabRecord
    BY InitialRecords DEF LoginTypeOK, TabRecord, NoTab
  <1>2. tab' \in [Tabs -> TabRecord]
    BY <1>1 DEF LoginTypeOK, TabRecord, Put, Commit
  <1>3. version' \in 0..MaxVersion /\ perms' \in Allowlist
    BY LoginsAssumption DEF LoginTypeOK, Commit
  <1>4. QED
    BY <1>2, <1>3 DEF LoginTypeOK, TabRecord, Commit

\* What an edit may put under an account keeps the list well typed.
LEMMA EditType ==
  ASSUME NEW list \in Allowlist, NEW u \in Users, NEW e \in Entries
  PROVE  [list EXCEPT ![u] = e] \in Allowlist
  BY DEF Allowlist

\* One sign-in moves on.
LEMMA SignInStepType ==
  ASSUME LoginTypeOK, NEW l \in SignIns, SignInStep(l)
  PROVE  LoginTypeOK'
  <1>0. /\ login[l] \in SignInRecord /\ (login[l].at # "idle" => login[l].session \in Session)
        /\ sessions \in [Tokens -> Session \cup {NoSession}]
        /\ perms \in [Users -> Entries]
    BY DEF LoginTypeOK, SignInRecord, Allowlist
  <1>1. ASSUME NEW u \in Users, NEW k \in DevKeys \cup {NoKey}, StartSignIn(l, u, k)
        PROVE  LoginTypeOK'
    <2> DEFINE rec == [at |-> "directory", session |-> Session0(u, k)]
    <2>1. rec \in SignInRecord /\ rec.session \in Session
      BY DEF SignInRecord, Session0, Session, Entries
    <2>2. login' = [login EXCEPT ![l] = rec] /\ UNCHANGED <<config, tab>> /\ UNCHANGED sessions
      BY <1>1 DEF StartSignIn
    <2> HIDE DEF rec
    <2>3. QED
      BY <1>0, <2>1, <2>2, SignInType
  <1>2. ASSUME DirectoryRefuses(l) PROVE LoginTypeOK'
    <2>1. NoLogin.at = "idle"
      BY DEF NoLogin
    <2>2. login' = [login EXCEPT ![l] = NoLogin] /\ UNCHANGED <<config, tab>> /\ UNCHANGED sessions
      BY <1>2 DEF DirectoryRefuses
    <2>3. QED
      BY <1>0, <2>1, <2>2, InitialRecords, SignInType
  <1>3. ASSUME RecordLogin(l) PROVE LoginTypeOK'
    <2> DEFINE s == [login[l].session EXCEPT !.entry = perms[login[l].session.user]]
               rec == [at |-> "recorded", session |-> s]
    <2>1. login[l].session \in Session
      BY <1>0, <1>3 DEF RecordLogin
    <2>2. s \in Session
      BY <1>0, <2>1 DEF Session
    <2>3. rec \in SignInRecord /\ rec.session \in Session
      BY <2>2 DEF SignInRecord
    <2>4. login' = [login EXCEPT ![l] = rec]
      BY <1>3 DEF RecordLogin
    <2>5. UNCHANGED <<config, tab>> /\ UNCHANGED sessions
      BY <1>3 DEF RecordLogin
    <2> HIDE DEF rec
    <2>6. QED
      BY <1>0, <2>3, <2>4, <2>5, SignInType
  <1>4. ASSUME LoginGate(l) PROVE LoginTypeOK'
    <2> DEFINE rec == [at |-> "admitted", session |-> login[l].session]
    <2>1. login[l].session \in Session
      BY <1>0, <1>4 DEF LoginGate
    <2>2. rec \in SignInRecord /\ rec.session \in Session
      BY <2>1 DEF SignInRecord
    <2>3. UNCHANGED <<config, tab>> /\ UNCHANGED sessions
      BY <1>4 DEF LoginGate
    <2>4. CASE login' = [login EXCEPT ![l] = NoLogin]
      <3>1. NoLogin.at = "idle"
        BY DEF NoLogin
      <3>2. QED
        BY <1>0, <2>3, <2>4, <3>1, InitialRecords, SignInType
    <2>5. CASE login' = [login EXCEPT ![l].at = "admitted"]
      <3>1. login' = [login EXCEPT ![l] = rec]
        <4>1. [login[l] EXCEPT !.at = "admitted"] = rec
          BY <1>0 DEF SignInRecord
        <4>2. login' = [login EXCEPT ![l] = [login[l] EXCEPT !.at = "admitted"]]
          BY <2>5 DEF LoginTypeOK
        <4>3. QED
          BY <4>1, <4>2
      <3> HIDE DEF rec
      <3>2. QED
        BY <1>0, <2>2, <2>3, <3>1, SignInType
    <2>6. QED
      BY <1>4, <2>4, <2>5 DEF LoginGate
  <1>5. ASSUME NEW t \in Tokens, CreateSession(l, t) PROVE LoginTypeOK'
    <2>1. login[l].session \in Session
      BY <1>0, <1>5 DEF CreateSession
    <2>2. ASSUME NEW b \in BOOLEAN PROVE [login[l].session EXCEPT !.missed = b] \in Session
      BY <2>1 DEF Session
    <2>3. (Outdated(login[l].session) \/ Unpinned(login[l].session)) \in BOOLEAN
      BY DEF Outdated, Unpinned
    <2>4. sessions' \in [Tokens -> Session \cup {NoSession}]
      BY <1>0, <1>5, <2>2, <2>3 DEF CreateSession
    <2>5. login' = [login EXCEPT ![l] = NoLogin] /\ UNCHANGED <<config, tab>> /\ NoLogin.at = "idle"
      BY <1>5 DEF CreateSession, NoLogin
    <2>6. QED
      BY <2>4, <2>5, InitialRecords, SignInType
  <1>6. QED
    BY <1>1, <1>2, <1>3, <1>4, <1>5 DEF SignInStep

\* One tab moves on.
LEMMA TabStepType ==
  ASSUME LoginTypeOK, NEW a \in Tabs, TabStep(a)
  PROVE  LoginTypeOK'
  <1>0. /\ tab[a] \in TabRecord
        /\ sessions \in [Tokens -> Session \cup {NoSession}]
        /\ perms \in Allowlist /\ version \in 0..MaxVersion /\ requireLogin \in BOOLEAN
    BY DEF LoginTypeOK, TabRecord
  <1>1. CASE LoadList(a)
    <2> DEFINE rec == [NoTab EXCEPT !.at = "loading", !.new = perms]
    <2>1. rec \in TabRecord
      BY <1>0, InitialRecords DEF TabRecord
    <2>2. Put(a, rec) /\ UNCHANGED <<config, login>> /\ UNCHANGED sessions
      BY <1>1 DEF LoadList
    <2> HIDE DEF rec
    <2>3. QED
      BY <1>0, <2>1, <2>2, TabType
  <1>2. CASE LoadVersion(a)
    <2> DEFINE rec == [tab[a] EXCEPT !.at = "loaded", !.version = version]
    <2>1. rec \in TabRecord
      BY <1>0 DEF TabRecord
    <2>2. Put(a, rec) /\ UNCHANGED <<config, login>> /\ UNCHANGED sessions
      BY <1>2 DEF LoadVersion
    <2> HIDE DEF rec
    <2>3. QED
      BY <1>0, <2>1, <2>2, TabType
  <1>3. CASE SaveConflict(a)
    BY <1>0, <1>3, InitialRecords, TabType DEF SaveConflict
  <1>4. ASSUME NEW tokens, Drop(tokens) PROVE sessions' \in [Tokens -> Session \cup {NoSession}]
    BY <1>0, <1>4 DEF Drop
  <1>5. CASE Evict(a)
    BY <1>4, <1>5, InitialRecords, TabType DEF Evict
  <1>6. CASE DropKeySessions(a)
    BY <1>4, <1>6, InitialRecords, TabType DEF DropKeySessions
  <1>7. ASSUME NEW u \in Users, NEW e \in Entries, SaveUnversioned(a, u, e) PROVE LoginTypeOK'
    BY <1>0, <1>7, EditType, CommitType DEF SaveUnversioned
  <1>8. ASSUME NEW required \in BOOLEAN, SaveSettings(a, required) PROVE LoginTypeOK'
    BY <1>0, <1>8, CommitType DEF SaveSettings
  <1>9. ASSUME NEW required \in BOOLEAN, NEW u \in Users, NEW e \in Entries, Save(a, u, e, required)
        PROVE  LoginTypeOK'
    <2>1. [tab[a].new EXCEPT ![u] = e] \in Allowlist
      BY <1>0, EditType DEF TabRecord
    <2>2. QED
      BY <1>9, <2>1, CommitType DEF Save
  <1>10. ASSUME NEW u \in Users, NEW on \in BOOLEAN, SetUserEnabled(a, u, on) PROVE LoginTypeOK'
    <2>1. PICK r \in IF perms[u] = Absent THEN Rights ELSE {perms[u].rights} :
             Commit(a, [perms EXCEPT ![u] = [enabled |-> on, rights |-> r]])
      BY <1>10 DEF SetUserEnabled
    <2>2. perms[u] = Absent \/ perms[u].rights \in Rights
      BY <1>0 DEF Allowlist, Entries, Permission
    <2>3. [enabled |-> on, rights |-> r] \in Entries
      BY <2>2 DEF Entries, Permission
    <2>4. requireLogin' \in BOOLEAN
      BY <1>0, <1>10 DEF SetUserEnabled
    <2>5. [perms EXCEPT ![u] = [enabled |-> on, rights |-> r]] \in Allowlist
      BY <1>0, <2>3, EditType
    <2>6. QED
      BY <2>1, <2>4, <2>5, CommitType
  <1>11. ASSUME NEW k \in DevKeys, UnpinKey(a, k) PROVE LoginTypeOK'
    <2>1. [NoTab EXCEPT !.at = "dropping", !.key = k] \in TabRecord
      BY InitialRecords DEF TabRecord
    <2>2. tab' \in [Tabs -> TabRecord]
      BY <1>11, <2>1 DEF UnpinKey, Put, LoginTypeOK, TabRecord
    <2>3. QED
      BY <1>11, <2>2 DEF UnpinKey, LoginTypeOK, TabRecord
  <1>12. QED
    BY <1>1, <1>2, <1>3, <1>5, <1>6, <1>7, <1>8, <1>9, <1>10, <1>11 DEF TabStep

LEMMA TypeStep == LoginTypeOK /\ [LoginNext]_loginVars => LoginTypeOK'
  <1> SUFFICES ASSUME LoginTypeOK, [LoginNext]_loginVars PROVE LoginTypeOK'
    OBVIOUS
  <1>1. ASSUME NEW t \in Tokens, EndSession(t) \/ SessionExpires(t) PROVE LoginTypeOK'
    <2>1. sessions' \in [Tokens -> Session \cup {NoSession}]
      <3>1. CASE EndSession(t)
        BY <3>1 DEF LoginTypeOK, EndSession, Drop
      <3>2. CASE SessionExpires(t)
        <4>1. sessions[t] \in Session
          BY <3>2 DEF LoginTypeOK, SessionExpires, Live
        <4>2. [sessions[t] EXCEPT !.expired = TRUE] \in Session
          BY <4>1 DEF Session
        <4>3. QED
          BY <3>2, <4>2 DEF LoginTypeOK, SessionExpires
      <3>3. QED
        BY <1>1, <3>1, <3>2
    <2>2. QED
      BY <1>1, <2>1 DEF LoginTypeOK, EndSession, SessionExpires, config
  <1>2. ASSUME NEW b \in BOOLEAN, SetRequireKey(b) PROVE LoginTypeOK'
    BY <1>2 DEF LoginTypeOK, SetRequireKey
  <1>3. CASE LoginRestart
    <2>1. ASSUME NEW t \in Live, NEW b \in BOOLEAN
          PROVE  [sessions[t] EXCEPT !.missed = b] \in Session
      BY DEF LoginTypeOK, Live, Session
    <2>2. ASSUME NEW t \in Live
          PROVE  (sessions[t].missed \/ Outdated(sessions[t]) \/ Unpinned(sessions[t])) \in BOOLEAN
      BY DEF Outdated, Unpinned
    <2>3. sessions' \in [Tokens -> Session \cup {NoSession}]
      BY <1>3, <2>1, <2>2 DEF LoginRestart
    <2>4. login' \in [SignIns -> SignInRecord] /\ tab' \in [Tabs -> TabRecord]
      BY <1>3, InitialRecords DEF LoginRestart
    <2>5. \A l \in SignIns : login'[l].at = "idle"
      BY <1>3 DEF LoginRestart, NoLogin
    <2>6. QED
      BY <1>3, <2>3, <2>4, <2>5 DEF LoginTypeOK, LoginRestart, config, SignInRecord, TabRecord
  <1>4. CASE UNCHANGED loginVars
    BY <1>4 DEF LoginTypeOK, loginVars
  <1>5. QED
    BY <1>1, <1>2, <1>3, <1>4, SignInStepType, TabStepType DEF LoginNext

-----------------------------------------------------------------------------
(* Sessions end with what they stand for.                                  *)

\* What the invariant says of a session does not change.
Same(s, r) == s.user = r.user /\ s.key = r.key /\ s.entry = r.entry /\ s.missed = r.missed

\* Each token keeps its session, loses it, or gets one that the history accounts for.
SessionsKept ==
  \A t \in Tokens :
    \/ sessions'[t] = NoSession
    \/ sessions[t] # NoSession /\ Same(sessions'[t], sessions[t])
    \/ (Outdated(sessions[t])' \/ Unpinned(sessions[t])') => sessions'[t].missed

\* Each edit that has still to end sessions goes on to do so, or has just done it.
EvictionsKept ==
  /\ \A a \in Tabs : tab[a].at = "evicting" =>
       tab'[a] = tab[a] \/ \A t \in Evicted(a) : sessions'[t] = NoSession
  /\ \A a \in Tabs : tab[a].at = "dropping" =>
       \/ tab'[a] = tab[a]
       \/ \A t \in Live : sessions[t].key = tab[a].key => sessions'[t] = NoSession

\* The two together keep the invariant while neither the list nor the keys are edited.
LEMMA KeptIsEnough ==
  ASSUME LoginIInv, UNCHANGED <<perms, pinned>>, SessionsKept, EvictionsKept
  PROVE  EndsWithPermission' /\ EndsWithKey'
  <1>1. ASSUME NEW t \in Live', Outdated(sessions[t])', ~sessions'[t].missed
        PROVE  \E a \in Tabs : tab'[a].at = "evicting" /\ t \in Evicted(a)'
    <2>1. t \in Tokens /\ sessions'[t] # NoSession
      BY <1>1 DEF Live
    <2>2. t \in Live /\ Same(sessions'[t], sessions[t])
      BY <1>1, <2>1 DEF SessionsKept, Live
    <2>3. Outdated(sessions[t]) /\ ~sessions[t].missed
      BY <1>1, <2>2 DEF Outdated, Same
    <2>4. PICK a \in Tabs : tab[a].at = "evicting" /\ t \in Evicted(a)
      BY <2>2, <2>3 DEF LoginIInv, EndsWithPermission
    <2>5. tab'[a] = tab[a]
      BY <2>1, <2>4 DEF EvictionsKept
    <2>6. t \in Evicted(a)'
      BY <1>1, <2>2, <2>4, <2>5 DEF Evicted, Same, Changed
    <2>7. QED
      BY <2>4, <2>5, <2>6
  <1>2. ASSUME NEW t \in Live', Unpinned(sessions[t])', ~sessions'[t].missed
        PROVE  \E a \in Tabs : tab'[a].at = "dropping" /\ tab'[a].key = sessions'[t].key
    <2>1. t \in Tokens /\ sessions'[t] # NoSession
      BY <1>2 DEF Live
    <2>2. t \in Live /\ Same(sessions'[t], sessions[t])
      BY <1>2, <2>1 DEF SessionsKept, Live
    <2>3. Unpinned(sessions[t]) /\ ~sessions[t].missed
      BY <1>2, <2>2 DEF Unpinned, Same
    <2>4. PICK a \in Tabs : tab[a].at = "dropping" /\ tab[a].key = sessions[t].key
      BY <2>2, <2>3 DEF LoginIInv, EndsWithKey
    <2>5. tab'[a] = tab[a]
      BY <2>1, <2>2, <2>4 DEF EvictionsKept
    <2>6. QED
      BY <2>2, <2>4, <2>5 DEF Same
  <1>3. EndsWithPermission'
    BY <1>1 DEF EndsWithPermission
  <1>4. EndsWithKey'
    BY <1>2 DEF EndsWithKey
  <1>5. QED
    BY <1>3, <1>4

\* Sessions that stay as they are, or go.
LEMMA StayOrGo ==
  ASSUME \A t \in Tokens : sessions'[t] = sessions[t] \/ sessions'[t] = NoSession
  PROVE  SessionsKept
  BY DEF SessionsKept, Same

\* What two edits change, one after the other, at least one of them changes.
LEMMA ChangeIsSeen ==
  ASSUME NEW e \in Entries, NEW p \in Entries, NEW n \in Entries,
         e # n, Changed(e, n), e = p \/ ~Changed(e, p)
  PROVE  Changed(p, n)
  BY LoginsAssumption DEF Entries, Permission, Changed

\* An edit of the allowlist: the tab that made it is about to end what it has outdated.
LEMMA CommitKeeps ==
  ASSUME LoginIInv, LoginTypeOK', NEW a \in Tabs, NEW new \in Allowlist, Commit(a, new),
         tab[a].at \notin {"evicting", "dropping"}
  PROVE  EndsWithPermission' /\ EndsWithKey'
  <1>1. /\ perms' = new /\ UNCHANGED <<pinned, sessions>>
        /\ tab'[a].at = "evicting" /\ tab'[a].old = perms /\ tab'[a].new = new
        /\ \A b \in Tabs \ {a} : tab'[b] = tab[b]
    BY DEF Commit, Put, NoTab, LoginIInv, LoginTypeOK
  <1>2. ASSUME NEW t \in Live', Outdated(sessions[t])', ~sessions'[t].missed
        PROVE  \E b \in Tabs : tab'[b].at = "evicting" /\ t \in Evicted(b)'
    <2> DEFINE s == sessions[t]
    <2>1. t \in Live /\ s \in Session /\ sessions'[t] = s /\ ~s.missed
      BY <1>1, <1>2 DEF Live, LoginIInv, LoginTypeOK
    <2>2. /\ s.entry \in Entries /\ perms[s.user] \in Entries /\ new[s.user] \in Entries
          /\ s.entry # new[s.user] /\ Changed(s.entry, new[s.user])
      BY <1>1, <1>2, <2>1 DEF Session, Allowlist, LoginIInv, LoginTypeOK, Outdated
    <2>3. CASE Outdated(s)
      <3>1. PICK b \in Tabs : tab[b].at = "evicting" /\ t \in Evicted(b)
        BY <2>1, <2>3 DEF LoginIInv, EndsWithPermission
      <3>2. b # a /\ tab'[b] = tab[b]
        BY <1>1, <3>1
      <3>3. t \in Evicted(b)'
        BY <1>1, <3>1, <3>2 DEF Evicted, Live, Changed
      <3>4. QED
        BY <3>1, <3>2, <3>3
    <2>4. CASE ~Outdated(s)
      <3>1. s.entry = perms[s.user] \/ ~Changed(s.entry, perms[s.user])
        BY <2>4 DEF Outdated
      <3>2. Changed(perms[s.user], new[s.user])
        BY <2>2, <3>1, ChangeIsSeen
      <3>3. Changed(tab[a].old[s.user], tab[a].new[s.user])'
        BY <1>1, <2>1, <3>2 DEF Changed
      <3>4. t \in Evicted(a)'
        BY <1>1, <2>1, <3>3 DEF Evicted, Live
      <3>5. QED
        BY <1>1, <3>4
    <2>5. QED
      BY <2>3, <2>4
  <1>3. EndsWithPermission'
    BY <1>2 DEF EndsWithPermission
  <1>4. EndsWithKey'
    BY <1>1 DEF LoginIInv, EndsWithKey, Unpinned, Live
  <1>5. QED
    BY <1>3, <1>4

\* remove_device_key: the tab that removed the key is about to end its sessions.
LEMMA UnpinKeeps ==
  ASSUME LoginIInv, NEW a \in Tabs, NEW k \in DevKeys, UnpinKey(a, k)
  PROVE  EndsWithPermission' /\ EndsWithKey'
  <1>1. /\ pinned' = pinned \ {k} /\ UNCHANGED <<perms, sessions>>
        /\ tab[a].at = "idle" /\ tab'[a].at = "dropping" /\ tab'[a].key = k
        /\ \A b \in Tabs \ {a} : tab'[b] = tab[b]
    BY DEF UnpinKey, Put, NoTab, LoginIInv, LoginTypeOK
  <1>2. EndsWithPermission'
    <2>1. \A b \in Tabs : tab[b].at = "evicting" => tab'[b] = tab[b]
      BY <1>1
    <2>2. \A b \in Tabs : tab[b].at = "evicting" => Evicted(b)' = Evicted(b)
      BY <1>1, <2>1 DEF Evicted, Live, Changed
    <2>3. Live' = Live /\ \A t \in Live : Outdated(sessions[t])' = Outdated(sessions[t])
      BY <1>1 DEF Live, Outdated, Changed
    <2>4. QED
      BY <1>1, <2>1, <2>2, <2>3 DEF LoginIInv, EndsWithPermission
  <1>3. EndsWithKey'
    BY <1>1 DEF LoginIInv, EndsWithKey, Unpinned, Live
  <1>4. QED
    BY <1>2, <1>3

\* One sign-in moves on: its new session is up to date, or the history accounts for it.
LEMMA SignInStepKeeps ==
  ASSUME LoginIInv, NEW l \in SignIns, SignInStep(l)
  PROVE  EndsWithPermission' /\ EndsWithKey'
  <1>1. UNCHANGED <<perms, pinned, tab>>
    BY DEF SignInStep, StartSignIn, DirectoryRefuses, RecordLogin, LoginGate, CreateSession, config
  <1>2. EvictionsKept
    BY <1>1 DEF EvictionsKept
  <1>3. SessionsKept
    <2>1. CASE UNCHANGED sessions
      BY <2>1, StayOrGo
    <2>2. ASSUME NEW t \in Tokens, CreateSession(l, t) PROVE SessionsKept
      <3> DEFINE s == login[l].session
                 new == [s EXCEPT !.missed = Outdated(s) \/ Unpinned(s)]
      <3>1. s \in Session
        BY <2>2 DEF CreateSession, LoginIInv, LoginTypeOK
      <3>2. /\ sessions'[t] = new
            /\ \A u \in Tokens \ {t} : sessions'[u] = NoSession \/ sessions'[u] = sessions[u]
        BY <2>2 DEF CreateSession
      <3>3. /\ new.user = s.user /\ new.key = s.key /\ new.entry = s.entry
            /\ new.missed = (Outdated(s) \/ Unpinned(s))
        BY <3>1 DEF Session
      <3>4. (Outdated(sessions[t])' \/ Unpinned(sessions[t])') => sessions'[t].missed
        BY <1>1, <3>2, <3>3 DEF Outdated, Unpinned
      <3>5. QED
        BY <3>2, <3>4 DEF SessionsKept, Same
    <2>3. QED
      BY <2>1, <2>2 DEF SignInStep, StartSignIn, DirectoryRefuses, RecordLogin, LoginGate
  <1>4. QED
    BY <1>1, <1>2, <1>3, KeptIsEnough

\* One tab moves on.
LEMMA TabStepKeeps ==
  ASSUME LoginIInv, LoginTypeOK', NEW a \in Tabs, TabStep(a)
  PROVE  EndsWithPermission' /\ EndsWithKey'
  <1>0. LoginTypeOK /\ perms \in Allowlist /\ tab[a].new \in Allowlist
    BY DEF LoginIInv, LoginTypeOK
  <1>1. CASE LoadList(a) \/ LoadVersion(a) \/ SaveConflict(a)
    <2>1. /\ UNCHANGED <<perms, pinned, sessions>> /\ tab[a].at \notin {"evicting", "dropping"}
          /\ \A b \in Tabs \ {a} : tab'[b] = tab[b]
      BY <1>1 DEF LoadList, LoadVersion, SaveConflict, Put, config, LoginIInv, LoginTypeOK
    <2>2. SessionsKept
      BY <2>1, StayOrGo
    <2>3. EvictionsKept
      BY <2>1 DEF EvictionsKept
    <2>4. QED
      BY <2>1, <2>2, <2>3, KeptIsEnough
  <1>2. CASE Evict(a) \/ DropKeySessions(a)
    <2>1. /\ UNCHANGED <<perms, pinned>>
          /\ \A b \in Tabs \ {a} : tab'[b] = tab[b]
      BY <1>2 DEF Evict, DropKeySessions, Put, config, LoginIInv, LoginTypeOK
    <2>2. SessionsKept
      BY <1>2, StayOrGo DEF Evict, DropKeySessions, Drop
    <2>3. EvictionsKept
      BY <1>2, <2>1 DEF EvictionsKept, Evict, DropKeySessions, Drop, Evicted, Live
    <2>4. QED
      BY <2>1, <2>2, <2>3, KeptIsEnough
  <1>3. ASSUME NEW u \in Users, NEW e \in Entries, SaveUnversioned(a, u, e)
        PROVE  EndsWithPermission' /\ EndsWithKey'
    <2>1. [perms EXCEPT ![u] = e] \in Allowlist
      BY <1>0, EditType
    <2>2. QED
      BY <1>3, <2>1, CommitKeeps DEF SaveUnversioned
  <1>4. ASSUME NEW required \in BOOLEAN, SaveSettings(a, required)
        PROVE  EndsWithPermission' /\ EndsWithKey'
    BY <1>0, <1>4, CommitKeeps DEF SaveSettings
  <1>5. ASSUME NEW required \in BOOLEAN, NEW u \in Users, NEW e \in Entries, Save(a, u, e, required)
        PROVE  EndsWithPermission' /\ EndsWithKey'
    <2>1. [tab[a].new EXCEPT ![u] = e] \in Allowlist
      BY <1>0, EditType
    <2>2. QED
      BY <1>5, <2>1, CommitKeeps DEF Save
  <1>6. ASSUME NEW u \in Users, NEW on \in BOOLEAN, SetUserEnabled(a, u, on)
        PROVE  EndsWithPermission' /\ EndsWithKey'
    <2>1. PICK r : Commit(a, [perms EXCEPT ![u] = [enabled |-> on, rights |-> r]])
      BY <1>6 DEF SetUserEnabled
    <2>2. [perms EXCEPT ![u] = [enabled |-> on, rights |-> r]] \in Allowlist
      BY <2>1 DEF Commit, LoginTypeOK
    <2>3. tab[a].at = "idle"
      BY <1>6 DEF SetUserEnabled
    <2>4. QED
      BY <2>1, <2>2, <2>3, CommitKeeps
  <1>7. ASSUME NEW k \in DevKeys, UnpinKey(a, k) PROVE EndsWithPermission' /\ EndsWithKey'
    BY <1>7, UnpinKeeps
  <1>8. QED
    BY <1>1, <1>2, <1>3, <1>4, <1>5, <1>6, <1>7 DEF TabStep

LEMMA InitInv == LoginInit => LoginIInv
  <1> SUFFICES ASSUME LoginInit PROVE LoginIInv
    OBVIOUS
  <1>1. NoLogin \in SignInRecord /\ NoTab \in TabRecord /\ NoLogin.at = "idle"
    BY InitialRecords DEF NoLogin
  <1>2. LoginTypeOK
    BY <1>1, LoginsAssumption DEF LoginInit, LoginTypeOK, SignInRecord, TabRecord
  <1>3. EndsWithPermission /\ EndsWithKey
    BY DEF LoginInit, EndsWithPermission, EndsWithKey, Live
  <1>4. QED
    BY <1>2, <1>3 DEF LoginIInv

LEMMA NextInv == LoginIInv /\ [LoginNext]_loginVars => LoginIInv'
  <1> SUFFICES ASSUME LoginIInv, [LoginNext]_loginVars PROVE LoginIInv'
    OBVIOUS
  <1>1. LoginTypeOK'
    BY TypeStep DEF LoginIInv
  <1>2. ASSUME NEW t \in Tokens, EndSession(t) \/ SessionExpires(t)
        PROVE  EndsWithPermission' /\ EndsWithKey'
    <2>1. UNCHANGED <<perms, pinned, tab>>
      BY <1>2 DEF EndSession, SessionExpires, config
    <2>2. EvictionsKept
      BY <2>1 DEF EvictionsKept
    <2>3. SessionsKept
      <3>1. CASE EndSession(t)
        BY <3>1, StayOrGo DEF EndSession, Drop
      <3>2. CASE SessionExpires(t)
        <4>1. sessions[t] \in Session /\ t \in Live
          BY <3>2 DEF SessionExpires, Live, LoginIInv, LoginTypeOK
        <4>2. Same(sessions'[t], sessions[t])
          BY <3>2, <4>1 DEF SessionExpires, LoginIInv, LoginTypeOK, Session, Same
        <4>3. \A u \in Tokens \ {t} : sessions'[u] = sessions[u]
          BY <3>2 DEF SessionExpires, LoginIInv, LoginTypeOK
        <4>4. QED
          BY <4>1, <4>2, <4>3 DEF SessionsKept, Same, Live
      <3>3. QED
        BY <1>2, <3>1, <3>2
    <2>4. QED
      BY <2>1, <2>2, <2>3, KeptIsEnough
  <1>3. CASE (\E b \in BOOLEAN : SetRequireKey(b)) \/ UNCHANGED loginVars
    <2>1. UNCHANGED <<perms, pinned, tab, sessions>>
      BY <1>3 DEF SetRequireKey, loginVars
    <2>2. EvictionsKept
      BY <2>1 DEF EvictionsKept
    <2>3. SessionsKept
      BY <2>1, StayOrGo
    <2>4. EndsWithPermission' /\ EndsWithKey'
      BY <2>1, <2>2, <2>3, KeptIsEnough
    <2>5. QED
      BY <1>1, <2>4 DEF LoginIInv
  <1>4. CASE LoginRestart
    <2>1. UNCHANGED <<perms, pinned>>
      BY <1>4 DEF LoginRestart, config
    <2>2. ASSUME NEW t \in Live'
          PROVE  (Outdated(sessions[t])' \/ Unpinned(sessions[t])') => sessions'[t].missed
      <3> DEFINE s == sessions[t]
                 kept == [s EXCEPT !.missed = @ \/ Outdated(s) \/ Unpinned(s)]
      <3>1. t \in Live /\ s \in Session /\ sessions'[t] = kept
        BY <1>4 DEF LoginRestart, Live, LoginIInv, LoginTypeOK
      <3>2. /\ kept.user = s.user /\ kept.key = s.key /\ kept.entry = s.entry
            /\ kept.missed = (s.missed \/ Outdated(s) \/ Unpinned(s))
        BY <3>1 DEF Session
      <3>3. QED
        BY <2>1, <3>1, <3>2 DEF Outdated, Unpinned
    <2>3. EndsWithPermission' /\ EndsWithKey'
      BY <2>2 DEF EndsWithPermission, EndsWithKey
    <2>4. QED
      BY <1>1, <2>3 DEF LoginIInv
  <1>5. ASSUME NEW l \in SignIns, SignInStep(l) PROVE LoginIInv'
    BY <1>1, <1>5, SignInStepKeeps DEF LoginIInv
  <1>6. ASSUME NEW a \in Tabs, TabStep(a) PROVE LoginIInv'
    BY <1>1, <1>6, TabStepKeeps DEF LoginIInv
  <1>7. QED
    BY <1>1, <1>2, <1>3, <1>4, <1>5, <1>6 DEF LoginNext, LoginIInv

\* "Permission changes take effect immediately rather than lingering until token expiry",
\* and tokens die with the device key they proved, for the reasons given with the two
\* properties (evict_sessions_with_changed_permissions, remove_device_key).
THEOREM LoginInvariant == LoginSpec => []LoginIInv
  BY InitInv, NextInv, PTL DEF LoginSpec
=============================================================================
