------------------------------- MODULE Logins --------------------------------
(***************************************************************************)
(* Accounts of hbbs: the allowlist of directory users with its version,    *)
(* the sign-in that crosses the directory, and the sessions it creates     *)
(* (nemo_integration.rs, the /api/login and permission routes of           *)
(* nemo_management.rs).                                                     *)
(*                                                                         *)
(* Configuration and sessions have a lock each.  A sign-in reads the       *)
(* configuration in several steps before it creates the session, and an    *)
(* edit of the allowlist ends sessions only after it has released the      *)
(* configuration, so each can overtake the other.                          *)
(***************************************************************************)
EXTENDS Naturals

CONSTANTS Users,     \* accounts of the directory
          DevKeys,   \* pinned device keys
          NoKey,     \* a sign-in without a valid proof
          Rights,    \* targets, admin flag and policy of an allowlist entry
          Absent,    \* not on the allowlist
          Tokens,    \* bound: sessions that are there at once
          NoSession,
          SignIns,   \* tasks of /api/login
          Tabs,      \* tasks of the operator's requests
          MaxVersion \* bound: edits of the allowlist

Permission == [enabled : BOOLEAN, rights : Rights]
Entries == Permission \cup {Absent}
Allowlist == [Users -> Entries]

ASSUME LoginsAssumption ==
  Absent \notin Permission /\ NoKey \notin DevKeys /\ MaxVersion \in Nat

VARIABLES
  perms,         \* permissions
  version,       \* permissions_version
  requireLogin,  \* require_login
  requireKey,    \* require_device_key
  pinned,        \* device_keys, as far as sign-ins depend on them
  sessions,      \* SESSIONS, equal to the sessions file: every change is written under the lock
  login,         \* the /api/login tasks
  tab            \* the operator's tasks

loginVars == <<perms, version, requireLogin, requireKey, pinned, sessions, login, tab>>
config == <<perms, version, requireLogin, requireKey, pinned>>

\* entry: the permission record_login found; missed: history, see EndsWithPermission.
Session == [user : Users, key : DevKeys \cup {NoKey}, entry : Entries,
            expired : BOOLEAN, missed : BOOLEAN]

Session0(u, k) == [user |-> u, key |-> k, entry |-> Absent, expired |-> FALSE, missed |-> FALSE]
NoLogin == [at |-> "idle", session |-> NoSession]
NoTab == [at |-> "idle", old |-> [u \in Users |-> Absent], new |-> [u \in Users |-> Absent],
          version |-> 0, key |-> NoKey]

LoginInit ==
  /\ perms \in Allowlist /\ version = 0
  /\ requireLogin \in BOOLEAN /\ requireKey \in BOOLEAN
  /\ pinned = DevKeys
  /\ sessions = [t \in Tokens |-> NoSession]
  /\ login = [l \in SignIns |-> NoLogin]
  /\ tab = [a \in Tabs |-> NoTab]

Live == {t \in Tokens : sessions[t] # NoSession}
Drop(tokens) == sessions' = [t \in Tokens |-> IF t \in tokens THEN NoSession ELSE sessions[t]]

-----------------------------------------------------------------------------
(* /api/login                                                              *)

\* The proof of the machine, then the spray limiter (see SprayGuard), then the directory
\* is asked.
StartSignIn(l, u, k) ==
  /\ login[l].at = "idle"
  /\ k = NoKey => ~requireKey
  /\ k # NoKey => k \in pinned
  /\ login' = [login EXCEPT ![l] = [at |-> "directory", session |-> Session0(u, k)]]
  /\ UNCHANGED <<config, sessions, tab>>

DirectoryRefuses(l) ==
  /\ login[l].at = "directory"
  /\ login' = [login EXCEPT ![l] = NoLogin]
  /\ UNCHANGED <<config, sessions, tab>>

\* record_login reads the entry; it adds none.
RecordLogin(l) ==
  /\ login[l].at = "directory"
  /\ LET s == login[l].session IN
       login' = [login EXCEPT ![l] = [at |-> "recorded",
                                      session |-> [s EXCEPT !.entry = perms[s.user]]]]
  /\ UNCHANGED <<config, sessions, tab>>

Enabled(e) == e # Absent /\ e.enabled

\* The gate of mandatory login.
LoginGate(l) ==
  /\ login[l].at = "recorded"
  /\ IF requireLogin /\ ~Enabled(login[l].session.entry)
       THEN login' = [login EXCEPT ![l] = NoLogin]
       ELSE login' = [login EXCEPT ![l].at = "admitted"]
  /\ UNCHANGED <<config, sessions, tab>>

\* evict_sessions_with_changed_permissions: whose session an edit from old to new ends.
Changed(old, new) ==
  \/ new = Absent
  \/ old = Absent
  \/ old.enabled /\ ~new.enabled
  \/ old.rights # new.rights

\* What the session was given is no longer so.
Outdated(s) == s.entry # perms[s.user] /\ Changed(s.entry, perms[s.user])
Unpinned(s) == s.key # NoKey /\ s.key \notin pinned

\* create_session, which prunes the expired ones and writes the file.
CreateSession(l, t) ==
  LET s == login[l].session IN
  /\ login[l].at = "admitted"
  /\ t \in Live => sessions[t].expired
  /\ sessions' = [u \in Tokens |->
       IF u = t THEN [s EXCEPT !.missed = Outdated(s) \/ Unpinned(s)]
       ELSE IF sessions[u] # NoSession /\ sessions[u].expired THEN NoSession
       ELSE sessions[u]]
  /\ login' = [login EXCEPT ![l] = NoLogin]
  /\ UNCHANGED <<config, tab>>

\* session_for_token finds it expired; remove_session on /api/logout.
EndSession(t) ==
  /\ t \in Live
  /\ Drop({t})
  /\ UNCHANGED <<config, login, tab>>

SessionExpires(t) ==
  /\ t \in Live /\ ~sessions[t].expired
  /\ sessions' = [sessions EXCEPT ![t].expired = TRUE]
  /\ UNCHANGED <<config, login, tab>>

-----------------------------------------------------------------------------
(* The operator's requests.                                                *)

Put(a, rec) == tab' = [tab EXCEPT ![a] = rec]

\* GET /permissions takes the list and its version under two lock acquisitions.
LoadList(a) ==
  /\ tab[a].at = "idle"
  /\ Put(a, [NoTab EXCEPT !.at = "loading", !.new = perms])
  /\ UNCHANGED <<config, sessions, login>>
LoadVersion(a) ==
  /\ tab[a].at = "loading"
  /\ Put(a, [tab[a] EXCEPT !.at = "loaded", !.version = version])
  /\ UNCHANGED <<config, sessions, login>>

\* What follows an edit: the configuration is written and released, the sessions come next.
Commit(a, new) ==
  /\ version < MaxVersion
  /\ perms' = new /\ version' = version + 1
  /\ Put(a, [NoTab EXCEPT !.at = "evicting", !.old = perms, !.new = new])
  /\ UNCHANGED <<pinned, requireKey, sessions, login>>

\* PUT /permissions from the editor, which sends the whole list with the version it has
\* loaded; a stale version is refused.  Any setting of require_login may come with it.
Save(a, u, e, required) ==
  /\ tab[a].at = "loaded" /\ tab[a].version = version
  /\ Commit(a, [tab[a].new EXCEPT ![u] = e])
  /\ requireLogin' = required

\* The same without a list: only the settings change.
SaveSettings(a, required) ==
  /\ tab[a].at = "loaded" /\ tab[a].version = version
  /\ Commit(a, perms)
  /\ requireLogin' = required

\* A script need not send a version.
SaveUnversioned(a, u, e) ==
  /\ tab[a].at = "idle"
  /\ Commit(a, [perms EXCEPT ![u] = e])
  /\ UNCHANGED requireLogin

SaveConflict(a) ==
  /\ tab[a].at = "loaded" /\ tab[a].version # version
  /\ Put(a, NoTab)
  /\ UNCHANGED <<config, sessions, login>>

\* set_user_enabled from the directory picker; a new entry is seeded with the default rights.
SetUserEnabled(a, u, on) ==
  /\ tab[a].at = "idle"
  /\ \E r \in IF perms[u] = Absent THEN Rights ELSE {perms[u].rights} :
       Commit(a, [perms EXCEPT ![u] = [enabled |-> on, rights |-> r]])
  /\ UNCHANGED requireLogin

\* Mutant: sessions of a listed account stay, whatever its rights.
Evicted_StillListed(a) ==
  {t \in Live : LET u == sessions[t].user IN tab[a].new[u] = Absent \/ tab[a].old[u] = Absent
                                               \/ tab[a].old[u].rights # tab[a].new[u].rights}

\* The sessions that a's edit ends.
Evicted(a) ==
  {t \in Live : Changed(tab[a].old[sessions[t].user], tab[a].new[sessions[t].user])}

Evict(a) ==
  /\ tab[a].at = "evicting"
  /\ Drop(Evicted(a))
  /\ Put(a, NoTab)
  /\ UNCHANGED <<config, login>>

\* remove_device_key, and its second half.
UnpinKey(a, k) ==
  /\ tab[a].at = "idle" /\ k \in pinned
  /\ pinned' = pinned \ {k}
  /\ Put(a, [NoTab EXCEPT !.at = "dropping", !.key = k])
  /\ UNCHANGED <<perms, version, requireLogin, requireKey, sessions, login>>

DropKeySessions(a) ==
  /\ tab[a].at = "dropping"
  /\ Drop({t \in Live : sessions[t].key = tab[a].key})
  /\ Put(a, NoTab)
  /\ UNCHANGED <<config, login>>

\* The configuration and the sessions are read back from their files.
LoginRestart ==
  /\ login' = [l \in SignIns |-> NoLogin]
  /\ tab' = [a \in Tabs |-> NoTab]
  /\ sessions' = [t \in Tokens |->
       IF t \notin Live \/ sessions[t].expired THEN NoSession
       ELSE [sessions[t] EXCEPT !.missed =
              @ \/ Outdated(sessions[t]) \/ Unpinned(sessions[t])]]
  /\ UNCHANGED config

\* PUT /policy; no session depends on it.
SetRequireKey(b) ==
  /\ requireKey' = b
  /\ UNCHANGED <<perms, version, requireLogin, pinned, sessions, login, tab>>

SignInStep(l) ==
  \/ \E u \in Users, k \in DevKeys \cup {NoKey} : StartSignIn(l, u, k)
  \/ DirectoryRefuses(l) \/ RecordLogin(l) \/ LoginGate(l)
  \/ \E t \in Tokens : CreateSession(l, t)

TabStep(a) ==
  \/ LoadList(a) \/ LoadVersion(a) \/ SaveConflict(a) \/ Evict(a) \/ DropKeySessions(a)
  \/ \E u \in Users, e \in Entries : SaveUnversioned(a, u, e)
  \/ \E required \in BOOLEAN :
       SaveSettings(a, required) \/ \E u \in Users, e \in Entries : Save(a, u, e, required)
  \/ \E u \in Users, on \in BOOLEAN : SetUserEnabled(a, u, on)
  \/ \E k \in DevKeys : UnpinKey(a, k)

LoginNext ==
  \/ \E l \in SignIns : SignInStep(l)
  \/ \E t \in Tokens : EndSession(t) \/ SessionExpires(t)
  \/ \E a \in Tabs : TabStep(a)
  \/ \E b \in BOOLEAN : SetRequireKey(b)
  \/ LoginRestart

LoginSpec == LoginInit /\ [][LoginNext]_loginVars

-----------------------------------------------------------------------------
(* Properties.                                                             *)

\* Every variable holds what its code counterpart can hold.
LoginTypeOK ==
  /\ perms \in Allowlist /\ version \in 0..MaxVersion
  /\ requireLogin \in BOOLEAN /\ requireKey \in BOOLEAN
  /\ pinned \subseteq DevKeys
  /\ sessions \in [Tokens -> Session \cup {NoSession}]
  /\ login \in [SignIns -> [at : {"idle", "directory", "recorded", "admitted"},
                            session : Session \cup {NoSession}]]
  /\ \A l \in SignIns : login[l].at # "idle" => login[l].session \in Session
  /\ tab \in [Tabs -> [at : {"idle", "loading", "loaded", "evicting", "dropping"},
                       old : Allowlist, new : Allowlist, version : 0..MaxVersion,
                       key : DevKeys \cup {NoKey}]]

\* "Permission changes take effect immediately rather than lingering until token expiry"
\* (evict_sessions_with_changed_permissions): a session whose account has been
\* removed, disabled or given other rights is about to be evicted, unless it comes of a
\* sign-in that the edit overtook, or the server stopped before the eviction.
EndsWithPermission ==
  \A t \in Live : Outdated(sessions[t]) =>
    sessions[t].missed \/ \E a \in Tabs : tab[a].at = "evicting" /\ t \in Evicted(a)

\* The tokens that a removed device key has proved die with it, with the same two
\* exceptions (remove_device_key).
EndsWithKey ==
  \A t \in Live : Unpinned(sessions[t]) =>
    \/ sessions[t].missed
    \/ \E a \in Tabs : tab[a].at = "dropping" /\ tab[a].key = sessions[t].key

\* The inductive invariant.
LoginIInv == LoginTypeOK /\ EndsWithPermission /\ EndsWithKey

=============================================================================
