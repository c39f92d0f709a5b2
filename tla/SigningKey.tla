------------------------------ MODULE SigningKey ------------------------------
(***************************************************************************)
(* The server key on disk: gen_sk at the start of hbbs and hbbr            *)
(* (common.rs), and its rotation from the dashboard (nemo_management.rs).  *)
(* No process locks the directory: a step is one operation on one file,    *)
(* and any process may stop between two of them.                           *)
(***************************************************************************)
EXTENDS Naturals

CONSTANTS Keys,       \* key pairs, each generated at most once
          Blank,      \* what a file holds that no key can be read from
          NoFile,
          Hbbs, Hbbr, \* processes
          Rotations,  \* bound: requests to rotate that are under way at once
          Seconds     \* bound: the epoch seconds, a range of numbers

ASSUME SigningKeyAssumption ==
  /\ NoFile \notin Keys /\ Blank \notin Keys
  /\ Hbbs \cap Hbbr = {} /\ Seconds \subseteq Nat

VARIABLES
  sk,       \* id_ed25519
  pub,      \* id_ed25519.pub
  tmp,      \* id_ed25519.rotating-<pid>, one name for each process
  archive,  \* id_ed25519.rotated-<second>
  data,     \* what each file holds, whatever its name is now
  second,   \* now_epoch_secs
  proc,     \* the processes
  rotation, \* the requests
  minted,   \* history: keys generated so far
  retired   \* history: keys that a rotation has taken out of service

keyVars == <<sk, pub, tmp, archive, data, second, proc, rotation, minted, retired>>
files == <<sk, pub, tmp, archive, data>>

Processes == Hbbs \cup Hbbr

\* A file is known by the key it was first made for.
File == Keys \cup {NoFile}
Down == [at |-> "down", key |-> NoFile]
NoRotation == [at |-> "idle", by |-> NoFile, new |-> NoFile, file |-> NoFile,
               stamp |-> 0, hadOld |-> FALSE]

\* read_sk: no key at all, one that is malformed, or a key.
KeyOnDisk == IF sk = NoFile THEN NoFile ELSE data[sk]

KeyInit ==
  /\ sk \in {NoFile} \cup Keys /\ pub = sk
  /\ data = [k \in Keys |-> IF k = sk THEN k ELSE Blank]
  /\ minted = {sk} \ {NoFile} /\ retired = {}
  /\ tmp = [p \in Hbbs |-> NoFile]
  /\ archive = [t \in Seconds |-> NoFile]
  /\ second \in Seconds
  /\ proc = [p \in Processes |-> Down]
  /\ rotation = [r \in Rotations |-> NoRotation]

-----------------------------------------------------------------------------
(* gen_sk                                                                  *)

At(p, stage, k) == proc' = [proc EXCEPT ![p] = [at |-> stage, key |-> k]]

\* The file holds a key: it is read, whoever starts.
Load(p) ==
  /\ proc[p].at = "down" /\ KeyOnDisk \in Keys
  /\ At(p, "up", KeyOnDisk)
  /\ UNCHANGED <<files, second, rotation, minted, retired>>

\* The key is malformed, or there is none and the process may not make one: it exits.
FatalStart(p) ==
  /\ proc[p].at = "down" /\ KeyOnDisk \notin Keys
  /\ UNCHANGED keyVars

\* There is none.  Only hbbs --generate-key Y goes on; the new key is complete in a file of
\* its own before the next step.
Generate(p, k) ==
  /\ proc[p].at = "down" /\ sk = NoFile
  /\ p \in Hbbs /\ k \notin minted
  /\ At(p, "linking", k)
  /\ minted' = minted \cup {k}
  /\ UNCHANGED <<files, second, rotation, retired>>

\* The file of the new key gets the name.
Link(p) ==
  /\ sk' = proc[p].key /\ data' = [data EXCEPT ![proc[p].key] = proc[p].key]
  /\ At(p, "published", proc[p].key)

\* Mutant: the file is written, whatever is there.
Publish_Creates(p) ==
  /\ proc[p].at = "linking"
  /\ Link(p)
  /\ UNCHANGED <<pub, tmp, archive, second, rotation, minted, retired>>

\* hard_link gives the name, or finds it taken.
Publish(p) ==
  /\ proc[p].at = "linking"
  /\ IF sk = NoFile THEN Link(p)
     ELSE UNCHANGED <<sk, data>> /\ At(p, "lost", NoFile)
  /\ UNCHANGED <<pub, tmp, archive, second, rotation, minted, retired>>

WritePub(p) ==
  /\ proc[p].at = "published"
  /\ pub' = proc[p].key
  /\ At(p, "up", proc[p].key)
  /\ UNCHANGED <<sk, tmp, archive, data, second, rotation, minted, retired>>

\* The loser reads the winner's key, or gives up.
Reread(p) ==
  /\ proc[p].at = "lost"
  /\ IF KeyOnDisk \in Keys THEN At(p, "up", KeyOnDisk) ELSE At(p, "down", NoFile)
  /\ UNCHANGED <<files, second, rotation, minted, retired>>

\* The process stops, and its requests with it.
Stop(p) ==
  /\ proc[p].at # "down"
  /\ At(p, "down", NoFile)
  /\ rotation' = [r \in Rotations |-> IF rotation[r].by = p THEN NoRotation ELSE rotation[r]]
  /\ UNCHANGED <<files, second, minted, retired>>

-----------------------------------------------------------------------------
(* rotate_server_key_at                                                    *)

Rotate(r, rec) == rotation' = [rotation EXCEPT ![r] = rec]
Reaches(r, stage) == Rotate(r, [rotation[r] EXCEPT !.at = stage])

\* The key that a step of a rotation takes from the disk is out of service.
Retire == retired' = retired \cup ({KeyOnDisk} \cap (Keys \ {KeyOnDisk'}))

\* write_private opens the temporary file, which it makes, or empties when another request
\* of this process has it open (or one that was cut short has left it).
RotateOpens(r, p, k) ==
  LET f == IF tmp[p] = NoFile THEN k ELSE tmp[p] IN
  /\ rotation[r].at = "idle" /\ p \in Hbbs /\ proc[p].at = "up" /\ k \notin minted
  /\ Rotate(r, [NoRotation EXCEPT !.at = "opened", !.by = p, !.new = k, !.file = f])
  /\ tmp' = [tmp EXCEPT ![p] = f]
  /\ data' = [data EXCEPT ![f] = Blank]
  /\ minted' = minted \cup {k}
  /\ UNCHANGED <<sk, pub, archive, second, proc>>
  /\ Retire

\* It writes to the file it opened, wherever another request has moved it.
RotateWrites(r) ==
  /\ rotation[r].at = "opened"
  /\ Reaches(r, "written")
  /\ data' = [data EXCEPT ![rotation[r].file] = rotation[r].new]
  /\ UNCHANGED <<sk, pub, tmp, archive, second, proc, minted>>
  /\ Retire

\* The write fails, and may have spoilt the file; it stays.
RotateWriteFails(r) ==
  /\ rotation[r].at = "opened"
  /\ Rotate(r, NoRotation)
  /\ data' \in {data, [data EXCEPT ![rotation[r].file] = Blank]}
  /\ UNCHANGED <<sk, pub, tmp, archive, second, proc, minted>>
  /\ Retire

LookForOld(r) ==
  /\ rotation[r].at = "written"
  /\ Rotate(r, [rotation[r] EXCEPT !.at = IF sk = NoFile THEN "archived" ELSE "looked",
                                   !.stamp = second, !.hadOld = sk # NoFile])
  /\ UNCHANGED <<files, second, proc, minted, retired>>

\* The old key moves aside; rename replaces what has that name.
ArchiveOld(r) ==
  /\ rotation[r].at = "looked" /\ sk # NoFile
  /\ Reaches(r, "archived")
  /\ archive' = [archive EXCEPT ![rotation[r].stamp] = sk]
  /\ sk' = NoFile
  /\ UNCHANGED <<pub, tmp, data, second, proc, minted>>
  /\ Retire

\* A failure, or the old key is gone by now.
ArchiveFails(r) ==
  /\ rotation[r].at = "looked"
  /\ Reaches(r, "abandoned")
  /\ UNCHANGED <<files, second, proc, minted, retired>>

\* The new key takes the name, whatever has it by now.
PutNew(r) ==
  LET p == rotation[r].by IN
  /\ rotation[r].at = "archived" /\ tmp[p] # NoFile
  /\ sk' = tmp[p] /\ tmp' = [tmp EXCEPT ![p] = NoFile]
  /\ Reaches(r, "put")
  /\ UNCHANGED <<pub, archive, data, second, proc, minted>>
  /\ Retire

\* A failure, or another request has taken the temporary file.
PutNewFails(r) ==
  /\ rotation[r].at = "archived"
  /\ Reaches(r, IF rotation[r].hadOld THEN "rolling_back" ELSE "abandoned")
  /\ UNCHANGED <<files, second, proc, minted, retired>>

\* The old key comes back, if it can, whatever has the name by now.
RollBack(r) ==
  LET kept == archive[rotation[r].stamp] IN
  /\ rotation[r].at = "rolling_back"
  /\ Reaches(r, "abandoned")
  /\ \/ /\ kept # NoFile
        /\ sk' = kept /\ archive' = [archive EXCEPT ![rotation[r].stamp] = NoFile]
     \/ UNCHANGED <<sk, archive>>
  /\ UNCHANGED <<pub, tmp, data, second, proc, minted>>
  /\ Retire

\* Whichever file has the temporary name is removed.
Abandon(r) ==
  /\ rotation[r].at = "abandoned"
  /\ tmp' = [tmp EXCEPT ![rotation[r].by] = NoFile]
  /\ Rotate(r, NoRotation)
  /\ UNCHANGED <<sk, pub, archive, data, second, proc, minted, retired>>

\* The copy of the public half; a failure is only logged.
PutPub(r) ==
  /\ rotation[r].at = "put"
  /\ pub' \in {pub, rotation[r].new}
  /\ Rotate(r, NoRotation)
  /\ UNCHANGED <<sk, tmp, archive, data, second, proc, minted, retired>>

SecondPasses ==
  /\ second + 1 \in Seconds
  /\ second' = second + 1
  /\ UNCHANGED <<files, proc, rotation, minted, retired>>

KeyNext ==
  \/ \E p \in Processes :
       \/ Load(p) \/ FatalStart(p) \/ Publish(p) \/ WritePub(p) \/ Reread(p) \/ Stop(p)
       \/ \E k \in Keys : Generate(p, k)
  \/ \E r \in Rotations :
       \/ \E p \in Hbbs, k \in Keys : RotateOpens(r, p, k)
       \/ RotateWrites(r) \/ RotateWriteFails(r)
       \/ LookForOld(r) \/ ArchiveOld(r) \/ ArchiveFails(r)
       \/ PutNew(r) \/ PutNewFails(r) \/ RollBack(r) \/ Abandon(r) \/ PutPub(r)
  \/ SecondPasses

KeySpec == KeyInit /\ [][KeyNext]_keyVars

-----------------------------------------------------------------------------
(* Properties.                                                             *)

Stages == {"idle", "opened", "written", "looked", "archived", "put", "rolling_back", "abandoned"}

\* Every variable holds what its code counterpart can hold.
KeyTypeOK ==
  /\ sk \in File /\ pub \in File
  /\ tmp \in [Hbbs -> File] /\ archive \in [Seconds -> File]
  /\ data \in [Keys -> Keys \cup {Blank}]
  /\ second \in Seconds
  /\ proc \in [Processes -> [at : {"down", "linking", "published", "lost", "up"}, key : File]]
  /\ rotation \in [Rotations -> [at : Stages, by : Hbbs \cup {NoFile}, new : File, file : File,
                                 stamp : Seconds \cup {0}, hadOld : BOOLEAN]]
  /\ minted \subseteq Keys /\ retired \subseteq Keys

InService == {p \in Processes : proc[p].at \in {"published", "up"}}

\* "every process that raced ends up agreeing on the SAME key, never split between two"
\* (generate_and_publish_sk): a process serves the key of the file, or one that a rotation
\* has retired.
KeyIsShared == \A p \in InService : proc[p].key = KeyOnDisk \/ proc[p].key \in retired

\* "Write order is chosen so no failure can leave the server with NO key, which would be
\* fatal at next start" (rotate_server_key): when no request is under way any more, there is
\* a key where there was one.
KeyIsNeverMissing ==
  (\A r \in Rotations : rotation[r].at = "idle") /\ retired # {} => KeyOnDisk \in Keys

\* Types and keys together (gen_sk, rotate_server_key).
KeyInv == KeyTypeOK /\ KeyIsShared

=============================================================================
