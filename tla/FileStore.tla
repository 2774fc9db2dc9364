------------------------------ MODULE FileStore ------------------------------
(* persistence/file.go: the repository as one JSON document that every       *)
(* mutation replaces through a temporary file.  A document is a number, the  *)
(* mutations it holds.  Where a rename cannot replace an existing file, the  *)
(* old one is moved to .bak first; the process may die between any two       *)
(* calls, and the machine may lose the renames no directory sync followed.   *)
EXTENDS Naturals, Sequences

CONSTANTS
  MaxWrites,   \* bound: mutations attempted
  MaxCrashes   \* bound: crashes and failed calls

ASSUME FileAssumption == MaxWrites \in Nat /\ MaxCrashes \in Nat

VARIABLES
  files,     \* the directory: destination, backup and temporary file
  synced,    \* the directory as the disk holds it
  replaces,  \* a rename may replace an existing file (not so on Windows)
  state,     \* repository.state, Missing while the process is down
  place,     \* where mutate is
  tries,     \* mutations begun; the number the document of the last one holds
  acked,     \* the document of the last mutation that returned nil
  mishaps

fileVars == <<files, synced, replaces, state, place, tries, acked, mishaps>>

Missing == 0
Files == {"path", "bak", "temp"}
Documents == 0..MaxWrites + 1

FileTypeOK ==
  /\ files \in [Files -> Documents] /\ synced \in [Files -> Documents]
  /\ replaces \in BOOLEAN
  /\ state \in Documents
  /\ place \in {"down", "ready", "recover", "rename", "stage", "install", "restore",
                "cleanup", "sync", "remember", "failed"}
  /\ tries \in 1..MaxWrites + 1 /\ acked \in 1..MaxWrites + 1
  /\ mishaps \in 0..MaxCrashes

(* A repository that has been written once: document 1.                      *)
FileInit ==
  /\ files = [f \in Files |-> IF f = "path" THEN 1 ELSE Missing]
  /\ synced = files
  /\ replaces \in BOOLEAN
  /\ state = 1 /\ place = "ready" /\ tries = 1 /\ acked = 1 /\ mishaps = 0

Mishap == mishaps < MaxCrashes /\ mishaps' = mishaps + 1

Has(f) == files[f] # Missing
Rename(from, to) == files' = [files EXCEPT ![from] = Missing, ![to] = files[from]]
Unlink(f) == files' = [files EXCEPT ![f] = Missing]

(* One call of the file system: it works, or fails and changes nothing.      *)
Call(here, effect, next, otherwise) ==
  /\ place = here
  /\ \/ effect /\ place' = next /\ UNCHANGED mishaps
     \/ Mishap /\ UNCHANGED files /\ place' = otherwise
  /\ UNCHANGED <<synced, replaces, state, tries, acked>>

-----------------------------------------------------------------------------
(* mutate under its lock: the next state written to a temporary file that is *)
(* synced before it is renamed.                                              *)
WriteTemp ==
  /\ place = "ready" /\ tries <= MaxWrites
  /\ tries' = tries + 1
  /\ files' = [files EXCEPT !["temp"] = tries']
  /\ place' = "recover"
  /\ UNCHANGED <<synced, replaces, state, acked, mishaps>>

(* recoverInterruptedReplace: an orphaned backup is the repository, and one  *)
(* beside a repository is a leftover.                                        *)
RecoverInterruptedReplace ==
  IF Has("bak") /\ ~Has("path") THEN Rename("bak", "path")
  ELSE IF Has("bak") THEN Unlink("bak")
  ELSE UNCHANGED files

Recover == Call("recover", RecoverInterruptedReplace, "rename", "failed")

(* Variant: the destination is made way for before anything is tried.        *)
RenameOverRemoved ==
  /\ place = "rename"
  /\ IF replaces
       THEN Rename("temp", "path") /\ place' = "sync"
       ELSE Unlink("path") /\ place' = "install"
  /\ UNCHANGED <<synced, replaces, state, tries, acked, mishaps>>

(* The direct rename; its failure leads to the backup only where there is a  *)
(* destination to keep and no backup already.                                *)
RenameOver ==
  /\ place = "rename"
  /\ \/ /\ replaces \/ ~Has("path")
        /\ Rename("temp", "path") /\ place' = "sync" /\ UNCHANGED mishaps
     \/ /\ IF replaces \/ ~Has("path") THEN Mishap ELSE UNCHANGED mishaps
        /\ UNCHANGED files
        /\ place' = IF Has("path") /\ ~Has("bak") THEN "stage" ELSE "failed"
  /\ UNCHANGED <<synced, replaces, state, tries, acked>>

Stage == Call("stage", Rename("path", "bak"), "install", "failed")
Install == Call("install", Rename("temp", "path"), "cleanup", "restore")
Restore == Call("restore", Rename("bak", "path"), "failed", "failed")
CleanUp == Call("cleanup", Unlink("bak"), "sync", "sync")

(* The directory sync; where the directory cannot be opened there is none.   *)
SyncDirectory ==
  /\ place = "sync"
  /\ synced' = files
  /\ place' = "remember"
  /\ UNCHANGED <<files, replaces, state, tries, acked, mishaps>>

(* The deferred removal of the temporary file, and the answer.               *)
Remember ==
  /\ place \in {"remember", "failed"}
  /\ IF place = "remember" THEN state' = tries /\ acked' = tries
                           ELSE UNCHANGED <<state, acked>>
  /\ Unlink("temp")
  /\ place' = "ready"
  /\ UNCHANGED <<synced, replaces, tries, mishaps>>

-----------------------------------------------------------------------------
(* The process dies; with the machine, renames that were not synced may or   *)
(* may not have reached the disk; a temporary file is never read again.      *)
ProcessDies ==
  /\ place # "down" /\ Mishap
  /\ state' = Missing /\ place' = "down"
  /\ \E disk \in {files} \cup IF replaces THEN {synced} ELSE {} :
       files' = [disk EXCEPT !["temp"] = Missing]
  /\ UNCHANGED <<synced, replaces, tries, acked>>

(* NewFileRepository: recover, then load; no file is an empty repository.    *)
(* A process that cannot recover does not start, and is started again.       *)
Open ==
  /\ place = "down"
  /\ RecoverInterruptedReplace
  /\ state' = files'["path"]
  /\ place' = "ready"
  /\ synced' = files'
  /\ UNCHANGED <<replaces, tries, acked, mishaps>>

FileNext ==
  \/ WriteTemp \/ Recover \/ RenameOver \/ Stage \/ Install \/ Restore \/ CleanUp
  \/ SyncDirectory \/ Remember \/ ProcessDies \/ Open

FileSpec == FileInit /\ [][FileNext]_fileVars

-----------------------------------------------------------------------------
(* What the directory is worth to a process that opens it.                   *)
Recoverable == IF Has("path") THEN files["path"] ELSE files["bak"]

(* Between two mutations the view in memory is the repository a restart      *)
(* would load, whichever of the calls before it failed; and at every instant,*)
(* a crash at that instant included, what can be recovered holds the last    *)
(* mutation that returned nil, and at most the one in flight besides.        *)
DiskAgrees ==
  /\ place = "ready" => state = Recoverable
  /\ acked <= Recoverable /\ Recoverable <= tries
=============================================================================
