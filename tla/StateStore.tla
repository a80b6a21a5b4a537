----------------------------- MODULE StateStore -----------------------------
(***************************************************************************)
(* src/persistence.rs: JsonFileStateStore between the daemon, which loads  *)
(* and saves, and a file system.  One action is one call to the file       *)
(* system; the process may be killed between any two, or the machine may   *)
(* lose power.                                                             *)
(*                                                                         *)
(* A file holds a whole record, is missing (None), or is Torn: created and *)
(* not written to the end, so that it does not parse.  `files` is what     *)
(* every process sees; `disk` is what has been flushed.  Nothing in the    *)
(* code flushes, the operating system does at some time, and a power loss  *)
(* may keep a name and lose the data behind it.                            *)
(***************************************************************************)
EXTENDS Integers

CONSTANTS
    Record,      \* the records: height, hash and time of a save
    None, Torn, Error,
    SamePath,    \* STATE_FILE_PATH ends in ".tmp" itself
    FaultKinds,  \* mkdir, write, rename, stat, read, kill, power
    MaxFaults    \* bound on what goes wrong

ASSUME StoreAssumption ==
    /\ None \notin Record /\ Torn \notin Record /\ Error \notin Record
    /\ None # Torn /\ None # Error /\ Torn # Error
    /\ SamePath \in BOOLEAN
    /\ FaultKinds \subseteq {"mkdir", "write", "rename", "stat", "read", "kill", "power"}
    /\ MaxFaults \in Nat

VARIABLES
    files,   \* name -> content
    disk,    \* the same, as flushed
    dir,     \* the state directory exists
    pc,      \* next call to the file system
    record,  \* the record being saved, or None
    loaded,  \* the last load's answer: a record, None or Error
    saved,   \* the last save's answer: none, ok, error
    faults,
    blackouts  \* those of the faults that were power losses

vars == <<files, disk, dir, pc, record, loaded, saved, faults, blackouts>>

Names == {"state", "tmp"}
Content == Record \cup {None, Torn}

TypeOK ==
    /\ files \in [Names -> Content] /\ disk \in [Names -> Content]
    /\ dir \in BOOLEAN
    /\ pc \in {"exists", "read", "idle", "mkdir", "create", "write", "rename", "stopped"}
    /\ record \in Record \cup {None}
    /\ loaded \in Record \cup {None, Error}
    /\ saved \in {"none", "ok", "error"}
    /\ faults \in 0..MaxFaults /\ blackouts \in 0..faults

Fault(kind) ==
    /\ kind \in FaultKinds
    /\ faults < MaxFaults
    /\ faults' = faults + 1

----------------------------------------------------------------------------
\* load

\* Mutant: a missing file is an error.
IfMissingMutant == loaded' = Error /\ pc' = "stopped"

\* "first boot or wiped TEE; not an error"
IfMissing == loaded' = None /\ pc' = "idle"

\* Path::exists says no, too, when the file cannot be looked up.
LoadExists ==
    /\ pc = "exists"
    /\ \/ files["state"] = None /\ IfMissing /\ UNCHANGED faults
       \/ files["state"] # None /\ Fault("stat") /\ IfMissing
       \/ files["state"] # None /\ pc' = "read" /\ UNCHANGED <<loaded, faults>>
    /\ UNCHANGED <<files, disk, dir, record, saved, blackouts>>

\* Mutant: whatever is in the file is taken for a record.
ParsesMutant(content) == TRUE

Parses(content) == content \in Record

\* An error of load ends run_sync_loop.
LoadRead ==
    /\ pc = "read"
    /\ \/ /\ Parses(files["state"])
          /\ loaded' = files["state"] /\ pc' = "idle"
          /\ UNCHANGED faults
       \/ /\ ~Parses(files["state"])
          /\ loaded' = Error /\ pc' = "stopped"
          /\ UNCHANGED faults
       \/ /\ Fault("read")
          /\ loaded' = Error /\ pc' = "stopped"
    /\ UNCHANGED <<files, disk, dir, record, saved, blackouts>>

\* Every poll cycle loads again.
LoadAgain ==
    /\ pc = "idle"
    /\ pc' = "exists"
    /\ UNCHANGED <<files, disk, dir, record, loaded, saved, faults, blackouts>>

----------------------------------------------------------------------------
\* save

\* Mutant: the state file is written in place.
TempMutant == "state"

\* path.with_extension("tmp")
Temp == IF SamePath THEN "state" ELSE "tmp"

SaveBegins ==
    /\ pc = "idle"
    /\ record' \in Record
    /\ saved' = "none"
    /\ pc' = "mkdir"
    /\ UNCHANGED <<files, disk, dir, loaded, faults, blackouts>>

SaveEnds(answer) ==
    /\ saved' = answer
    /\ record' = None
    /\ pc' = "idle"

\* Mutant: the directory is taken for granted.
DirMadeMutant == dir' = dir

\* create_dir_all
DirMade == dir' = TRUE

EnsureDir ==
    /\ pc = "mkdir"
    /\ DirMade
    /\ pc' = "create"
    /\ UNCHANGED <<files, disk, record, loaded, saved, faults, blackouts>>

\* fs::write creates or truncates the temporary file ...
CreateTemp ==
    /\ pc = "create"
    /\ \/ /\ dir
          /\ files' = [files EXCEPT ![Temp] = Torn]
          /\ pc' = "write"
          /\ UNCHANGED <<record, saved>>
       \/ ~dir /\ SaveEnds("error") /\ UNCHANGED files
    /\ UNCHANGED <<disk, dir, loaded, faults, blackouts>>

\* ... and then writes it to the end.
WriteTemp ==
    /\ pc = "write"
    /\ files' = [files EXCEPT ![Temp] = record]
    /\ pc' = "rename"
    /\ UNCHANGED <<disk, dir, record, loaded, saved, faults, blackouts>>

\* A file renamed to its own name stays.
Rename ==
    /\ pc = "rename"
    /\ files' = IF Temp = "state" THEN files
                ELSE [files EXCEPT !["state"] = files[Temp], ![Temp] = None]
    /\ SaveEnds("ok")
    /\ UNCHANGED <<disk, dir, loaded, faults, blackouts>>

\* Mutant: the answer of the last call is not looked at.
AnswerMutant(call) == IF call = "rename" THEN "ok" ELSE "error"

Answer(call) == "error"

\* A call of save fails: `?`, with the temporary file as it is.
SaveFails ==
    /\ \/ pc = "mkdir" /\ Fault("mkdir")
       \/ pc \in {"create", "write"} /\ Fault("write")
       \/ pc = "rename" /\ Fault("rename")
    /\ SaveEnds(Answer(pc))
    /\ UNCHANGED <<files, disk, dir, loaded, blackouts>>

----------------------------------------------------------------------------
\* The process and the machine.

ProcessGone ==
    /\ pc' = "stopped"
    /\ record' = None
    /\ UNCHANGED <<loaded, saved>>

Kill ==
    /\ pc # "stopped"
    /\ Fault("kill")
    /\ ProcessGone
    /\ UNCHANGED <<files, disk, dir, blackouts>>

\* The operating system flushes what it has.
Flush ==
    /\ disk # files
    /\ disk' = files
    /\ UNCHANGED <<files, dir, pc, record, loaded, saved, faults, blackouts>>

\* Of a change not flushed, nothing may be left, all of it, or the name alone.
PowerLoss ==
    /\ Fault("power")
    /\ files' \in {f \in [Names -> Content] : \A n \in Names :
                       f[n] \in {disk[n], files[n]}
                                    \cup (IF disk[n] = files[n] THEN {} ELSE {Torn})}
    /\ disk' = files'
    /\ ProcessGone
    /\ blackouts' = blackouts + 1
    /\ UNCHANGED dir

\* run_sync_loop loads before its first cycle.
Restart ==
    /\ pc = "stopped"
    /\ pc' = "exists"
    /\ UNCHANGED <<files, disk, dir, record, loaded, saved, faults, blackouts>>

\* The container is replaced and had no volume.
Wipe ==
    /\ pc = "stopped"
    /\ files' = [n \in Names |-> None] /\ disk' = files'
    /\ dir' = FALSE
    /\ UNCHANGED <<pc, record, loaded, saved, faults, blackouts>>

----------------------------------------------------------------------------
Init ==
    /\ files = [n \in Names |-> None] /\ disk = files
    /\ dir = FALSE
    /\ pc = "exists"
    /\ record = None /\ loaded = None /\ saved = "none"
    /\ faults = 0 /\ blackouts = 0

Store == LoadExists \/ LoadRead \/ EnsureDir \/ CreateTemp \/ WriteTemp \/ Rename

Daemon == LoadAgain \/ SaveBegins

Machine == SaveFails \/ Kill \/ Flush \/ PowerLoss \/ Wipe

Next == Store \/ Daemon \/ Restart \/ Machine

Spec == Init /\ [][Next]_vars

\* The process runs, and the supervisor restarts it.
FairSpec == Spec /\ WF_vars(Store) /\ WF_vars(Restart)

----------------------------------------------------------------------------
Register ==
    INSTANCE AtomicFile WITH
        value <- files["state"], saving <- record, took <- saved = "ok"

\* Whatever fails and wherever the process is killed, the store is an atomic
\* register: what SyncEngine takes it for.
ActsAsRegister == Register!Spec

\* "a crash mid-write doesn't leave half a JSON line": whatever the process was
\* doing when it ended, the state file parses or is missing.
NoHalfRecord == pc = "stopped" /\ blackouts = 0 => files["state"] # Torn

\* A save that reports Ok left its record in the file, also where a process
\* that was killed, or a power loss, had left half of one under either name.
SaveIsThere ==
    [][pc = "rename" /\ saved' = "ok" => files'["state"] = record]_vars

\* A save answers with an error only in the step in which a call to the file system
\* failed: on a clean clone, in a container that was replaced without its volume and
\* whatever went wrong before, no save fails for want of its directory.
SaveWorks == [][saved' = "error" => saved = "error" \/ faults' > faults]_vars

\* "on-disk checkpoint is advisory only": whatever the process was doing when it
\* ended, the daemon gets past loading what it left, unless the power was lost.
Starts == pc = "stopped" /\ blackouts = 0 ~> pc = "idle" \/ blackouts > 0
=============================================================================
