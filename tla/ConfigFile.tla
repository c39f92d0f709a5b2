------------------------------ MODULE ConfigFile ------------------------------
(***************************************************************************)
(* nemo_integration.json, the one file behind the allowlist, the policies, *)
(* the device keys and the directory (nemo_integration.rs): loaded once,   *)
(* written after every change under the lock of CONFIG, first to a file of *)
(* its own and then renamed, so that a crash between any two steps leaves  *)
(* a complete configuration.                                               *)
(***************************************************************************)
EXTENDS Naturals

CONSTANTS Contents,   \* configurations an operator makes
          Empty,      \* IntegrationConfig::default()
          Absent,     \* no file, or nothing in memory
          Mangled,    \* text that is no configuration
          Unreadable, \* a file read_to_string does not read
          MaxSaves    \* bound

ASSUME ConfigFileAssumption ==
  Empty \notin Contents \cup {Absent, Mangled, Unreadable} /\ MaxSaves \in Nat
  /\ Contents \cap {Absent, Mangled, Unreadable} = {}

VARIABLES
  config,    \* CONFIG, Absent before its first use
  file,      \* what is at config_path()
  temporary, \* what is at the .tmp file
  aside,     \* the damaged files that were moved to .corrupt-<time>
  saving,    \* how far a save has come
  saves,     \* bound: number of saves
  damaged,   \* history: damage that nobody has seen to or been told of
  kept       \* history: what the file may hold: what CONFIG held since the last save that
             \* succeeded, or what somebody else put there

configFileVars == <<config, file, temporary, aside, saving, saves, damaged, kept>>

Damage == {Mangled, Unreadable}
Configs == Contents \cup {Empty}

ConfigInit ==
  /\ config = Absent
  /\ file \in Configs \cup {Absent}
  /\ temporary = Absent /\ aside = {} /\ saving = "no" /\ saves = 0
  /\ damaged = {} /\ kept = {file}

\* load_config, when CONFIG is first used: a file that does not parse is moved aside, if
\* that succeeds (the log says so when it does not); defaults stand in for it, as they do
\* for a file that cannot be read.
LoadConfig(moves) ==
  /\ config = Absent /\ saving = "no"
  /\ config' = IF file \in Configs THEN file ELSE Empty
  /\ IF file = Mangled /\ moves
       THEN aside' = aside \cup {Mangled} /\ file' = Absent /\ kept' = {Absent}
       ELSE UNCHANGED <<aside, file, kept>>
  /\ damaged' = IF file = Mangled /\ ~moves THEN {} ELSE damaged
  /\ UNCHANGED <<temporary, saving, saves>>

\* Any change of the configuration; persist follows under the same lock.
Change(c) ==
  /\ config # Absent /\ saving = "no" /\ saves < MaxSaves
  /\ config' = c /\ saves' = saves + 1 /\ saving' = "create"
  /\ kept' = kept \cup {c}
  /\ UNCHANGED <<file, temporary, aside, damaged>>

\* atomic_write: File::create, write_all and sync_all, rename.
CreateTemporary ==
  /\ saving = "create" /\ saving' = "write"
  /\ temporary' = Mangled
  /\ UNCHANGED <<config, file, aside, saves, damaged, kept>>

WriteTemporary ==
  /\ saving = "write" /\ saving' = "rename"
  /\ temporary' = config
  /\ UNCHANGED <<config, file, aside, saves, damaged, kept>>

\* Mutant: the rename does not wait for the write.
RenameTemporary_Early ==
  /\ saving \in {"write", "rename"} /\ saving' = "no"
  /\ file' = temporary /\ temporary' = Absent
  /\ kept' = {config}
  /\ UNCHANGED <<config, aside, saves, damaged>>

RenameTemporary ==
  /\ saving = "rename" /\ saving' = "no"
  /\ file' = temporary /\ temporary' = Absent
  /\ kept' = {config}
  /\ UNCHANGED <<config, aside, saves, damaged>>

\* A full disk, say; the error is logged and the change stays in memory.
SaveFails ==
  /\ saving # "no" /\ saving' = "no"
  /\ UNCHANGED <<config, file, temporary, aside, saves, damaged, kept>>

\* A write of the temporary file may have left nothing behind.
ConfigCrash ==
  /\ config # Absent
  /\ config' = Absent /\ saving' = "no"
  /\ temporary' \in IF saving = "write" THEN {temporary, Absent} ELSE {temporary}
  /\ UNCHANGED <<file, aside, saves, damaged, kept>>

\* The file is edited by hand, or damaged, while hbbs is down; and seen to.
FileDamaged(d) ==
  /\ config = Absent /\ file \in Configs
  /\ file' = d /\ damaged' = {d} /\ kept' = {d}
  /\ UNCHANGED <<config, temporary, aside, saving, saves>>

FileRepaired(c) ==
  /\ config = Absent /\ (file \in Damage \/ aside # {})
  /\ file' = c /\ damaged' = {} /\ aside' = {} /\ kept' = {c}
  /\ UNCHANGED <<config, temporary, saving, saves>>

ConfigNext ==
  \/ \E moves \in BOOLEAN : LoadConfig(moves)
  \/ \E c \in Contents : Change(c) \/ FileRepaired(c)
  \/ CreateTemporary \/ WriteTemporary \/ RenameTemporary \/ SaveFails
  \/ ConfigCrash
  \/ \E d \in Damage : FileDamaged(d)

ConfigSpec == ConfigInit /\ [][ConfigNext]_configFileVars

-----------------------------------------------------------------------------
(* Properties.                                                             *)

\* Every variable holds what its code counterpart can hold.
ConfigTypeOK ==
  /\ config \in Configs \cup {Absent}
  /\ file \in Configs \cup Damage \cup {Absent}
  /\ temporary \in Configs \cup {Mangled, Absent}
  /\ aside \subseteq Damage /\ damaged \subseteq Damage
  /\ saving \in {"no", "create", "write", "rename"} /\ saves \in 0..MaxSaves

\* "readers only ever see the old complete file or the new complete file" (atomic_write):
\* wherever a save fails or hbbs dies, what the next start finds is one of the
\* configurations since the last save that succeeded, and nothing half written.
FileIsComplete == file \in kept

\* "Move the bad file aside first, so it survives for inspection/recovery" (load_config):
\* text that is no configuration is not lost to the next save.  Of a file that cannot be
\* read this is not so; defaults replace it.
MangledIsKept == Mangled \in damaged => file = Mangled \/ Mangled \in aside

\* Types and file together (atomic_write, load_config).
ConfigInv == ConfigTypeOK /\ FileIsComplete /\ MangledIsKept
=============================================================================
