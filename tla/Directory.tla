------------------------------ MODULE Directory -------------------------------
(***************************************************************************)
(* authenticate_ldap (nemo_integration.rs): how a sign-in finds out which  *)
(* account of the directory it is for.  With a service account the user is *)
(* searched first and bound second; without one the typed name is bound    *)
(* first and the directory is asked who that was.  Between any two of these *)
(* requests the directory may change.                                      *)
(***************************************************************************)
EXTENDS Naturals, FiniteSets

CONSTANTS Accounts,    \* entries of the directory, by distinguished name
          Names,       \* login names, case folded and without their domain
          NoName,      \* an empty attribute, or nothing confirmed
          NoAccount,
          MaxRenames   \* bound: how often the directory changes

ASSUME DirectoryAssumption ==
  NoName \notin Names /\ NoAccount \notin Accounts /\ Names # {} /\ MaxRenames \in Nat

\* What an entry is found by and named after: the account name (sAMAccountName, or uid
\* outside Active Directory) and the part of userPrincipalName before its domain.
Entry == [sam : Names \cup {NoName}, upn : Names \cup {NoName}]
NoEntry == [sam |-> NoName, upn |-> NoName]

\* user_search_filter, as an operator may have set it.
Filters == {{"sam"}, {"upn"}, {"sam", "upn"}}
Settings == [service : BOOLEAN, base : BOOLEAN, filter : Filters]

VARIABLES
  directory,  \* the entries the directory holds
  renames,    \* bound: number of changes
  stage,      \* how far authenticate_ldap has come
  settings,   \* its copy of the configuration
  typed,      \* the user name of the request
  account,    \* the account that was bound, or that is about to be
  who,        \* what Who-am-I answered
  entry,      \* attrs
  identity,   \* the name the directory confirmed
  user,       \* LdapUser::username
  called      \* history: names of the account since the sign-in began

directoryVars ==
  <<directory, renames, stage, settings, typed, account, who, entry, identity, user, called>>
theDirectory == <<directory, renames>>
request == <<settings, typed>>

\* canonical_username, its fallback apart.
Canonical(e) == IF e.sam # NoName THEN e.sam ELSE e.upn

\* search under the base DN; search_one insists on exactly one entry.
Found(filter, name) ==
  {a \in Accounts : ("sam" \in filter /\ directory[a].sam = name)
                    \/ ("upn" \in filter /\ directory[a].upn = name)}
One(found) == Cardinality(found) = 1
Only(found) == CHOOSE a \in found : TRUE

DirectoryInit ==
  /\ directory \in [Accounts -> Entry] /\ renames = 0
  /\ stage = "idle"
  /\ settings = [service |-> FALSE, base |-> FALSE, filter |-> {"sam"}]
  /\ typed = CHOOSE n \in Names : TRUE
  /\ account = NoAccount /\ who = "nobody"
  /\ entry = NoEntry /\ identity = NoName /\ user = NoName /\ called = {}

GoOn(from, to) == stage = from /\ stage' = to

\* Whatever fails, the caller answers with an error and the sign-in is over.
Fail(from) ==
  /\ GoOn(from, "idle")
  /\ account' = NoAccount /\ who' = "nobody" /\ entry' = NoEntry /\ identity' = NoName
  /\ user' = NoName /\ called' = {}
  /\ UNCHANGED <<theDirectory, request>>

\* The refusals before the first connection (LDAP disabled, no ldaps:// URL, verification
\* off without --insecure-ldap-i-accept-mitm) ask the directory nothing and leave no trace.
Begin(s, n) ==
  /\ GoOn("idle", IF s.service THEN "search" ELSE "bind")
  /\ settings' = s /\ typed' = n /\ user' = NoName
  /\ UNCHANGED <<theDirectory, account, who, entry, identity, called>>

\* The names an account has had since it was chosen.
Choose(a) ==
  /\ account' = a
  /\ called' = {directory[a].sam, directory[a].upn}

\* Service bind and search; several matches are refused, as none is.
Search ==
  LET found == Found(settings.filter, typed)
  IN /\ settings.base /\ One(found)
     /\ GoOn("search", "bindEntry")
     /\ Choose(Only(found)) /\ entry' = directory[Only(found)]
     /\ UNCHANGED <<theDirectory, request, who, identity, user>>

\* The password is verified by a bind as the distinguished name that was found.
BindEntry ==
  /\ GoOn("bindEntry", "name")
  /\ UNCHANGED <<theDirectory, request, account, who, entry, identity, user, called>>

\* auth_principal: the directory takes either name of an account for its principal.
BindPrincipal ==
  /\ GoOn("bind", "ask")
  /\ \E a \in Found({"sam", "upn"}, typed) : Choose(a)
  /\ UNCHANGED <<theDirectory, request, who, entry, identity, user>>

\* ldap_whoami: a distinguished name, a user name, or no useful answer.
WhoAmIDn ==
  /\ GoOn("ask", "readEntry") /\ who' = "dn"
  /\ UNCHANGED <<theDirectory, request, account, entry, identity, user, called>>

WhoAmIUser ==
  /\ GoOn("ask", IF settings.base THEN "enrich" ELSE "name") /\ who' = "user"
  /\ Canonical(directory[account]) # NoName
  /\ identity' = Canonical(directory[account])
  /\ UNCHANGED <<theDirectory, request, account, entry, user, called>>

WhoAmINone ==
  /\ settings.base
  /\ GoOn("ask", "identify") /\ who' = "none"
  /\ UNCHANGED <<theDirectory, request, account, entry, identity, user, called>>

\* search_one under the distinguished name itself.
ReadEntry ==
  /\ GoOn("readEntry", "name") /\ directory[account] # NoEntry
  /\ entry' = directory[account]
  /\ UNCHANGED <<theDirectory, request, account, who, identity, user, called>>

\* Mutant: the second search takes what it finds first.
Enrich_Any ==
  LET found == Found(settings.filter, identity)
  IN /\ GoOn("enrich", "name")
     /\ entry' = IF One(found) THEN directory[Only(found)] ELSE NoEntry
     /\ UNCHANGED <<theDirectory, request, account, who, identity, user, called>>

\* The profile of the confirmed name, dropped when it is that of another one.
Enrich ==
  LET found == Found(settings.filter, identity)
  IN /\ GoOn("enrich", "name")
     /\ entry' = IF One(found) /\ Canonical(directory[Only(found)]) = identity
                   THEN directory[Only(found)] ELSE NoEntry
     /\ UNCHANGED <<theDirectory, request, account, who, identity, user, called>>

\* Without an answer to Who-am-I: the one entry the typed name matches, if it is called so.
Identify ==
  LET found == Found(settings.filter, typed)
  IN /\ One(found) /\ Canonical(directory[Only(found)]) = typed
     /\ GoOn("identify", "name") /\ entry' = directory[Only(found)]
     /\ UNCHANGED <<theDirectory, request, account, who, identity, user, called>>

\* canonical_username of the attributes, else the confirmed identity, else nobody.
NameUser ==
  LET canonical == IF Canonical(entry) # NoName THEN Canonical(entry) ELSE identity
  IN /\ canonical # NoName
     /\ GoOn("name", "done") /\ user' = canonical
     /\ UNCHANGED <<theDirectory, request, account, who, entry, identity, called>>

\* The directory renames an account, or gives its name to another.
Rename(a, e) ==
  /\ renames < MaxRenames /\ e # directory[a]
  /\ directory' = [directory EXCEPT ![a] = e] /\ renames' = renames + 1
  /\ called' = IF a = account THEN called \cup {e.sam, e.upn} ELSE called
  /\ UNCHANGED <<request, stage, account, who, entry, identity, user>>

DirectoryNext ==
  \/ \E s \in Settings, n \in Names : Begin(s, n)
  \/ Search \/ BindEntry \/ BindPrincipal
  \/ WhoAmIDn \/ WhoAmIUser \/ WhoAmINone
  \/ ReadEntry \/ Enrich \/ Identify \/ NameUser
  \/ \E from \in {"search", "bindEntry", "bind", "ask", "readEntry", "identify", "name", "done"} :
       Fail(from)
  \/ \E a \in Accounts, e \in Entry : Rename(a, e)

DirectorySpec == DirectoryInit /\ [][DirectoryNext]_directoryVars

-----------------------------------------------------------------------------
(* Properties.                                                             *)

\* Every variable holds what its code counterpart can hold.
DirectoryTypeOK ==
  /\ directory \in [Accounts -> Entry] /\ renames \in 0..MaxRenames
  /\ stage \in {"idle", "search", "bindEntry", "bind", "ask", "readEntry", "enrich",
                "identify", "name", "done"}
  /\ settings \in Settings /\ typed \in Names
  /\ account \in Accounts \cup {NoAccount} /\ who \in {"nobody", "dn", "user", "none"}
  /\ entry \in Entry
  /\ {identity, user} \cup called \subseteq Names \cup {NoName}

\* "The allowlist was then matched against a name the user chose rather than one the
\* directory confirmed" (authenticate_ldap, SEC-8): where the directory says whom it bound,
\* or was searched before, the allowlist is asked for a name of the account that was bound,
\* whatever the filter matches and however the directory is changed meanwhile.  Where it
\* does not say, nobody is given a name that was not typed.
NamedAsBound ==
  user # NoName => IF who = "none" THEN user = typed ELSE user \in called

\* Types and names together (authenticate_ldap).
DirectoryInv == DirectoryTypeOK /\ NamedAsBound
=============================================================================
