----------------------------- MODULE AtomicFile -----------------------------
(***************************************************************************)
(* WriteFileAtomic of internal/command/io.go, one system call at a time,   *)
(* on a file system that buffers: the data of a file and the name of a     *)
(* renamed file reach the disk only when they are synchronised.  Any call  *)
(* may fail, the process may be killed and the machine may lose power      *)
(* between two calls.                                                      *)
(***************************************************************************)
CONSTANTS
  Contents,  \* complete contents that are written
  Absent,    \* the file does not exist
  Torn       \* the contents of a file only part of which was written

Values == Contents \cup {Absent}

ASSUME TornAssumption == Torn \notin Values

VARIABLES
  target,   \* what a reader of the path finds
  onDisk,   \* what a reader of the path may find after a power loss
  temp,     \* the temporary file: its contents, and are they synchronised?
  phase,    \* the writer's next call; "idle" outside WriteFileAtomic
  data,     \* the contents being written
  returned  \* what the last call of WriteFileAtomic returned

fileVars == <<target, onDisk, temp, phase, data, returned>>

Phases  == {"idle", "create", "write", "sync", "close", "rename", "syncdir"}
NoTemp  == [exists |-> FALSE, content |-> Torn, synced |-> FALSE]
Written == {"sync", "close", "rename"}

\* The file, its temporary and the position of WriteFileAtomic keep their types.
FileTypeOK ==
  /\ target \in Values \cup {Torn}
  /\ onDisk \subseteq Values \cup {Torn}
  /\ temp \in [exists : BOOLEAN, content : Values \cup {Torn}, synced : BOOLEAN]
  /\ phase \in Phases
  /\ data \in Values
  /\ returned \in {"none", "ok", "error"}

InitFile(start) ==
  /\ target = start
  /\ onDisk = {start}
  /\ temp = NoTemp
  /\ phase = "idle"
  /\ data = start
  /\ returned = "none"

-----------------------------------------------------------------------------
\* WriteFileAtomic(path, d) is called; the permission and target checks pass.
BeginWrite(d) ==
  /\ phase = "idle"
  /\ data' = d
  /\ phase' = "create"
  /\ returned' = "none"
  /\ UNCHANGED <<target, onDisk, temp>>

CreateTemp ==
  /\ phase = "create"
  /\ temp' = [exists |-> TRUE, content |-> Torn, synced |-> FALSE]
  /\ phase' = "write"
  /\ UNCHANGED <<target, onDisk, data, returned>>

WriteTemp ==
  /\ phase = "write"
  /\ temp' = [temp EXCEPT !.content = data]
  /\ phase' = "sync"
  /\ UNCHANGED <<target, onDisk, data, returned>>

SyncTemp ==
  /\ phase = "sync"
  /\ temp' = [temp EXCEPT !.synced = TRUE]
  /\ phase' = "close"
  /\ UNCHANGED <<target, onDisk, data, returned>>

CloseTemp ==
  /\ phase = "close"
  /\ phase' = "rename"
  /\ UNCHANGED <<target, onDisk, temp, data, returned>>

\* Mutant: success is returned without synchronising the directory.
RenameAndReturn ==
  /\ phase = "rename"
  /\ target' = temp.content
  /\ onDisk' = onDisk \cup {temp.content}
  /\ temp' = NoTemp
  /\ phase' = "idle"
  /\ returned' = "ok"
  /\ UNCHANGED data

\* Readers see the new file at once; the disk has the old name or the new one, and
\* unsynchronised data may be lost behind the new name.
RenameTemp ==
  /\ phase = "rename"
  /\ target' = temp.content
  /\ onDisk' = onDisk \cup {temp.content} \cup (IF temp.synced THEN {} ELSE {Torn})
  /\ temp' = NoTemp
  /\ phase' = "syncdir"
  /\ UNCHANGED <<data, returned>>

SyncDirectory ==
  /\ phase = "syncdir"
  /\ onDisk' = {target}
  /\ phase' = "idle"
  /\ returned' = "ok"
  /\ UNCHANGED <<target, temp, data>>

\* Mutant: a failed call removes the target, too.
WriteFailsRemoving ==
  /\ phase # "idle"
  /\ phase' = "idle"
  /\ returned' = "error"
  /\ temp' = NoTemp
  /\ target' = Absent /\ onDisk' = {Absent}
  /\ UNCHANGED data

\* A call fails: the deferred function closes and removes the temporary file, which
\* may fail as well, and the error is returned.
WriteFails ==
  /\ phase # "idle"
  /\ phase' = "idle"
  /\ returned' = "error"
  /\ temp' \in {temp, NoTemp}
  /\ UNCHANGED <<target, onDisk, data>>

\* The process is killed: no deferred function runs.
Killed ==
  /\ phase # "idle"
  /\ phase' = "idle"
  /\ returned' = "none"
  /\ UNCHANGED <<target, onDisk, temp, data>>

PowerLoss ==
  /\ target' \in onDisk
  /\ onDisk' = {target'}
  /\ temp' = NoTemp
  /\ phase' = "idle"
  /\ returned' = "none"
  /\ UNCHANGED data

Syscall == CreateTemp \/ WriteTemp \/ SyncTemp \/ CloseTemp \/ RenameTemp \/ SyncDirectory

FileInit == \E start \in Values : InitFile(start)

FileNext == (\E d \in Contents : BeginWrite(d)) \/ Syscall \/ WriteFails \/ Killed \/ PowerLoss

FileSpec == FileInit /\ [][FileNext]_fileVars

-----------------------------------------------------------------------------
(* Properties.                                                             *)

\* A reader never finds a partly written file, not even after a kill between any
\* two calls or a power loss (WriteFileAtomic's doc comment).
TargetComplete == target # Torn

\* Once WriteFileAtomic returned nil, a power loss cannot bring back older contents.
AcknowledgedIsDurable == returned = "ok" => onDisk = {data}

\* The inductive invariant: what is renamed is complete and synchronised, and what
\* may survive a power loss is complete.
FileInv ==
  /\ FileTypeOK
  /\ phase \in Written => temp.content = data
  /\ phase \in {"close", "rename"} => temp.synced
  /\ phase = "syncdir" => target = data
  /\ Torn \notin onDisk
  /\ target \in onDisk
  /\ AcknowledgedIsDurable

Register == INSTANCE AtomicRegister
              WITH value <- target, kept <- onDisk, writing <- (phase # "idle"),
                   input <- data

\* WriteFileAtomic implements an atomic register: the file changes in one step from
\* one complete value to another, and acknowledged writes survive.
ImplementsRegister == Register!Spec
=============================================================================
