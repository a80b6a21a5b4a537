-------------------------- MODULE StateStoreProofs --------------------------
(***************************************************************************)
(* The state store is an atomic register under failing calls, a process    *)
(* killed at any point and power losses, for every set of records and any  *)
(* number of faults; a save that reports Ok left its record, and none      *)
(* fails unless a call does.                                               *)
(*                                                                         *)
(* The argument: between the calls of a save only the temporary file is    *)
(* touched, and at the rename it holds the record (SavePhase).  So the     *)
(* state file changes in one step, from one whole record to the next.      *)
(***************************************************************************)
EXTENDS StateStore, TLAPS

Saving == {"mkdir", "create", "write", "rename"}

SavePhase ==
    /\ files \in [Names -> Content]
    /\ record \in Record \cup {None}
    /\ record # None <=> pc \in Saving
    /\ pc \in Saving => saved = "none"
    /\ pc = "rename" => files[Temp] = record

\* The temporary file has a name of its own.
OwnName == ~SamePath

StateWhole == blackouts \in Nat /\ (blackouts = 0 => files["state"] # Torn)

----------------------------------------------------------------------------
LEMMA NamesOfFiles == Temp \in Names /\ "state" \in Names /\ "tmp" \in Names
  BY DEF Temp, Names

LEMMA NoneIsNoRecord == \A r \in Record : r # None /\ r # Torn
  BY StoreAssumption

LEMMA InitPhase ==
    ASSUME Init
    PROVE  SavePhase /\ StateWhole
  BY StoreAssumption, NamesOfFiles
     DEF Init, SavePhase, StateWhole, Saving, Content, Names

\* A load, a restart and the flush leave a save alone.
LEMMA LoadPhase ==
    ASSUME SavePhase,
           LoadExists \/ LoadRead \/ LoadAgain \/ Flush \/ Restart
    PROVE  SavePhase'
  <1>. USE DEF SavePhase, Saving, Temp
  <1>1. CASE LoadExists
    BY <1>1 DEF LoadExists, IfMissing
  <1>2. CASE LoadRead
    BY <1>2 DEF LoadRead
  <1>3. CASE LoadAgain
    BY <1>3 DEF LoadAgain
  <1>4. CASE Flush
    BY <1>4 DEF Flush
  <1>5. CASE Restart
    BY <1>5 DEF Restart
  <1>. QED
    BY <1>1, <1>2, <1>3, <1>4, <1>5

\* The calls of a save, each to its end.
LEMMA SavingPhase ==
    ASSUME SavePhase,
           SaveBegins \/ EnsureDir \/ CreateTemp \/ WriteTemp \/ Rename \/ SaveFails
    PROVE  SavePhase'
  <1>. USE NamesOfFiles, NoneIsNoRecord DEF SavePhase, Saving
  <1>1. CASE SaveBegins
    BY <1>1 DEF SaveBegins
  <1>2. CASE EnsureDir
    BY <1>2 DEF EnsureDir
  <1>3. CASE CreateTemp
    BY <1>3 DEF CreateTemp, SaveEnds, Content
  <1>4. CASE WriteTemp
    <2>1. files' \in [Names -> Content] /\ files'[Temp] = record
      BY <1>4 DEF WriteTemp, Content
    <2>2. Temp' = Temp
      BY DEF Temp
    <2>. QED
      BY <1>4, <2>1, <2>2 DEF WriteTemp
  <1>5. CASE Rename
    BY <1>5 DEF Rename, SaveEnds, Content
  <1>6. CASE SaveFails
    BY <1>6 DEF SaveFails, SaveEnds
  <1>. QED
    BY <1>1, <1>2, <1>3, <1>4, <1>5, <1>6

\* Where the process ends, no save is left.
LEMMA GonePhase ==
    ASSUME SavePhase, Kill \/ PowerLoss \/ Wipe
    PROVE  SavePhase'
  <1>. USE DEF SavePhase, Saving
  <1>1. CASE Kill
    BY <1>1 DEF Kill, ProcessGone
  <1>2. CASE PowerLoss
    BY <1>2 DEF PowerLoss, ProcessGone
  <1>3. CASE Wipe
    BY <1>3 DEF Wipe, Content
  <1>. QED
    BY <1>1, <1>2, <1>3

LEMMA NextPhase ==
    ASSUME SavePhase, [Next]_vars
    PROVE  SavePhase'
  <1>1. CASE UNCHANGED vars
    BY <1>1 DEF vars, SavePhase, Temp
  <1>2. CASE Next
    BY <1>2, LoadPhase, SavingPhase, GonePhase DEF Next, Store, Daemon, Machine
  <1>. QED
    BY <1>1, <1>2

\* In every behaviour the calls of a save keep to their order, and at the rename
\* the temporary file holds the record.
THEOREM PhaseHolds == Spec => []SavePhase
  <1>1. Init => SavePhase
    BY InitPhase
  <1>2. SavePhase /\ [Next]_vars => SavePhase'
    BY NextPhase
  <1>. QED
    BY <1>1, <1>2, PTL DEF Spec

\* save: an Ok is only reported by the rename, which has put the record there.
\* For every fault, power losses and a STATE_FILE_PATH ending in ".tmp" included.
THEOREM OkMeansSaved == Spec => SaveIsThere
  <1>1. ASSUME SavePhase, [Next]_vars, pc = "rename", saved' = "ok"
        PROVE  files'["state"] = record
    <2>1. saved = "none"
      BY <1>1 DEF SavePhase, Saving
    <2>2. CASE Rename
      BY <1>1, <2>2, NamesOfFiles DEF Rename, SavePhase, Temp
    <2>3. CASE ~Rename
      <3>1. Next
        BY <1>1, <2>1 DEF vars
      <3>. QED
        BY <1>1, <2>1, <2>3, <3>1
           DEF Next, Store, Daemon, Machine, LoadExists, LoadRead, EnsureDir, CreateTemp,
               WriteTemp, LoadAgain, SaveBegins, Restart, SaveFails, SaveEnds, Answer, Kill,
               Flush, PowerLoss, Wipe, ProcessGone
    <2>. QED
      BY <2>2, <2>3
  <1>2. SavePhase /\ [Next]_vars =>
            [pc = "rename" /\ saved' = "ok" => files'["state"] = record]_vars
    BY <1>1
  <1>. QED
    BY <1>2, PhaseHolds, PTL DEF Spec, SaveIsThere

----------------------------------------------------------------------------
\* The steps of the store as steps of the register.

Step == Register!Next \/ UNCHANGED Register!vars

LEMMA LoadIsLoad ==
    ASSUME OwnName, SavePhase, StateWhole,
           LoadExists \/ LoadRead \/ LoadAgain \/ Flush \/ Restart
    PROVE  Step /\ StateWhole'
  <1>. USE DEF Step, Register!vars, StateWhole
  <1>1. CASE LoadExists
    <2>1. record = None /\ UNCHANGED <<files, record, saved>>
      BY <1>1 DEF LoadExists, SavePhase, Saving
    <2>2. UNCHANGED blackouts /\ (UNCHANGED loaded \/ loaded' = None)
      BY <1>1 DEF LoadExists, IfMissing
    <2>. QED
      BY <2>1, <2>2, StoreAssumption DEF Register!Next, Register!Load
  <1>2. CASE LoadRead
    <2>1. record = None /\ UNCHANGED <<files, record, saved>>
      BY <1>2 DEF LoadRead, SavePhase, Saving
    <2>2. UNCHANGED blackouts /\ loaded' \in {files["state"], Error} \ {Torn}
      BY <1>2, NoneIsNoRecord, StoreAssumption DEF LoadRead, Parses
    <2>. QED
      BY <2>1, <2>2 DEF Register!Next, Register!Load
  <1>3. CASE LoadAgain \/ Flush \/ Restart
    BY <1>3 DEF LoadAgain, Flush, Restart
  <1>. QED
    BY <1>1, <1>2, <1>3

LEMMA SaveIsOne ==
    ASSUME OwnName, SavePhase, StateWhole,
           SaveBegins \/ EnsureDir \/ CreateTemp \/ WriteTemp \/ Rename \/ SaveFails
    PROVE  Step /\ StateWhole'
  <1>. USE DEF Step, Register!vars, StateWhole
  <1>0. Temp = "tmp"
    BY DEF OwnName, Temp
  <1>1. CASE SaveBegins
    BY <1>1 DEF SaveBegins, SavePhase, Saving, Register!Next, Register!Begin
  <1>2. CASE EnsureDir
    BY <1>2 DEF EnsureDir
  <1>3. CASE CreateTemp
    <2>1. files'["state"] = files["state"] /\ UNCHANGED <<loaded, blackouts>> /\ record # None
      BY <1>0, <1>3, NamesOfFiles DEF CreateTemp, SavePhase, Saving
    <2>2. UNCHANGED <<record, saved>> \/ (record' = None /\ saved' = "error")
      BY <1>3 DEF CreateTemp, SaveEnds
    <2>. QED
      BY <2>1, <2>2 DEF Register!Next, Register!Fail
  <1>4. CASE WriteTemp
    BY <1>0, <1>4, NamesOfFiles DEF WriteTemp, SavePhase
  <1>5. CASE Rename
    <2>1. files'["state"] = record /\ record # None /\ record # Torn /\ saved = "none"
      BY <1>0, <1>5, NamesOfFiles, NoneIsNoRecord DEF Rename, SavePhase, Saving
    <2>2. record' = None /\ saved' = "ok" /\ UNCHANGED <<loaded, blackouts>>
      BY <1>5 DEF Rename, SaveEnds
    <2>. QED
      BY <2>1, <2>2 DEF Register!Next, Register!Take
  <1>6. CASE SaveFails
    <2>1. record # None /\ record' = None /\ saved' = "error" /\ UNCHANGED <<files, loaded, blackouts>>
      BY <1>6 DEF SaveFails, SaveEnds, Answer, SavePhase, Saving
    <2>. QED
      BY <2>1 DEF Register!Next, Register!Fail
  <1>. QED
    BY <1>1, <1>2, <1>3, <1>4, <1>5, <1>6

LEMMA EndIsFail ==
    ASSUME OwnName, SavePhase, StateWhole, Kill \/ PowerLoss \/ Wipe
    PROVE  Step /\ StateWhole'
  <1>. USE DEF Step, Register!vars, StateWhole
  <1>1. CASE Kill
    <2>1. record' = None /\ UNCHANGED <<files, loaded, saved, blackouts>>
      BY <1>1 DEF Kill, ProcessGone
    <2>2. record # None => saved = "none"
      BY DEF SavePhase
    <2>. QED
      BY <2>1, <2>2 DEF Register!Next, Register!Fail
  <1>2. CASE PowerLoss
    <2>1. files' \in [Names -> Content]
      BY <1>2 DEF PowerLoss
    <2>2. files'["state"] \in Record \cup {None, Torn}
      BY <2>1, NamesOfFiles DEF Content
    <2>3. record' = None /\ blackouts' = blackouts + 1 /\ UNCHANGED <<loaded, saved>>
      BY <1>2 DEF PowerLoss, ProcessGone
    <2>. QED
      BY <2>2, <2>3 DEF Register!Next, Register!Blackout
  <1>3. CASE Wipe
    <2>1. record = None /\ files'["state"] = None /\ UNCHANGED <<record, loaded, saved, blackouts>>
      BY <1>3, NamesOfFiles DEF Wipe, SavePhase, Saving
    <2>. QED
      BY <2>1, StoreAssumption DEF Register!Next, Register!Wipe
  <1>. QED
    BY <1>1, <1>2, <1>3

LEMMA NextIsStep ==
    ASSUME OwnName, SavePhase, StateWhole, [Next]_vars
    PROVE  Step /\ StateWhole'
  <1>1. CASE UNCHANGED vars
    BY <1>1 DEF vars, Step, Register!vars, StateWhole
  <1>2. CASE Next
    BY <1>2, LoadIsLoad, SaveIsOne, EndIsFail DEF Next, Store, Daemon, Machine
  <1>. QED
    BY <1>1, <1>2

\* "a crash mid-write doesn't leave half a JSON line": the state file is whole
\* or missing wherever a process has ended, as long as the power was not lost.
THEOREM FileStaysWhole == ASSUME OwnName PROVE Spec => []NoHalfRecord
  <1>1. Init => StateWhole
    BY InitPhase
  <1>2. SavePhase /\ StateWhole /\ [Next]_vars => StateWhole'
    BY NextIsStep
  <1>3. StateWhole => NoHalfRecord
    BY DEF StateWhole, NoHalfRecord
  <1>. QED
    BY <1>1, <1>2, <1>3, PhaseHolds, PTL DEF Spec

\* The state store implements the register the sync engine takes it for: a save
\* takes effect at one instant or not at all, and is reported as it went.
THEOREM StoreIsRegister == ASSUME OwnName PROVE Spec => ActsAsRegister
  <1>1. Init => Register!Init
    BY NamesOfFiles DEF Init, Register!Init
  <1>2. Init => StateWhole
    BY InitPhase
  <1>3. SavePhase /\ StateWhole /\ [Next]_vars => StateWhole'
    BY NextIsStep
  <1>4. SavePhase /\ StateWhole /\ [Next]_vars => [Register!Next]_(Register!vars)
    BY NextIsStep DEF Step
  <1>. QED
    BY <1>1, <1>2, <1>3, <1>4, PhaseHolds, PTL DEF Spec, ActsAsRegister, Register!Spec
----------------------------------------------------------------------------
\* What TypeOK says beyond SavePhase, but for `dir`, which is a truth value.
Ranges ==
    /\ disk \in [Names -> Content]
    /\ pc \in Saving \cup {"exists", "read", "idle", "stopped"}
    /\ loaded \in Record \cup {None, Error}
    /\ saved \in {"none", "ok", "error"}
    /\ faults \in 0..MaxFaults /\ blackouts \in 0..faults

\* A save only gets to its file where the directory has been made, and a
\* directory goes only with a container, which runs nothing by then.
Works == pc \in {"create", "write", "rename"} => dir

LEMMA FaultCounts ==
    ASSUME faults \in 0..MaxFaults, blackouts \in 0..faults, NEW kind, Fault(kind)
    PROVE  /\ faults' \in 0..MaxFaults /\ faults' > 0
           /\ blackouts \in 0..faults' /\ blackouts + 1 \in 0..faults'
  BY StoreAssumption DEF Fault

LEMMA StoreRanges ==
    ASSUME SavePhase, Ranges, [Next]_vars
    PROVE  Ranges'
  <1>. USE DEF Ranges, Saving
  <1>1. CASE UNCHANGED vars
    BY <1>1 DEF vars
  <1>2. CASE LoadExists
    BY <1>2, FaultCounts DEF LoadExists, IfMissing
  <1>3. CASE LoadRead
    BY <1>3, FaultCounts DEF LoadRead, Parses
  <1>4. CASE LoadAgain \/ SaveBegins \/ EnsureDir \/ CreateTemp \/ WriteTemp \/ Rename \/ Restart
    BY <1>4 DEF LoadAgain, SaveBegins, EnsureDir, CreateTemp, WriteTemp, Rename, SaveEnds, Restart
  <1>5. CASE SaveFails
    <2>1. /\ pc' = "idle" /\ saved' = "error" /\ UNCHANGED <<disk, loaded, blackouts>>
          /\ Fault("mkdir") \/ Fault("write") \/ Fault("rename")
      BY <1>5 DEF SaveFails, SaveEnds, Answer
    <2>. QED
      BY <2>1, FaultCounts
  <1>6. CASE Kill
    BY <1>6, FaultCounts DEF Kill, ProcessGone
  <1>7. CASE Flush
    <2>1. files \in [Names -> Content]
      BY DEF SavePhase
    <2>. QED
      BY <1>7, <2>1 DEF Flush
  <1>8. CASE PowerLoss
    <2>1. disk' \in [Names -> Content]
      BY <1>8 DEF PowerLoss
    <2>2. /\ pc' = "stopped" /\ blackouts' = blackouts + 1 /\ Fault("power")
          /\ UNCHANGED <<loaded, saved>>
      BY <1>8 DEF PowerLoss, ProcessGone
    <2>. QED
      BY <2>1, <2>2, FaultCounts
  <1>9. CASE Wipe
    <2>1. [n \in Names |-> None] \in [Names -> Content]
      BY DEF Content
    <2>. QED
      BY <1>9, <2>1 DEF Wipe
  <1>. QED
    BY <1>1, <1>2, <1>3, <1>4, <1>5, <1>6, <1>7, <1>8, <1>9 DEF Next, Store, Daemon, Machine

LEMMA DirIsTruth == ASSUME dir \in BOOLEAN, [Next]_vars PROVE dir' \in BOOLEAN
  BY DEF Next, vars, Store, Daemon, Machine, LoadExists, LoadRead, EnsureDir, DirMade,
         CreateTemp, WriteTemp, Rename, LoadAgain, SaveBegins, Restart, SaveFails, Kill,
         Flush, PowerLoss, Wipe

\* ... so that only a failing call makes a save answer with an error.
SaveStep == saved' = "error" => saved = "error" \/ faults' > faults

LEMMA StoreWorks ==
    ASSUME Ranges, Works, [Next]_vars
    PROVE  Works' /\ SaveStep
  <1>. USE DEF Works, SaveStep
  <1>0. faults \in Nat
    BY DEF Ranges
  <1>1. CASE UNCHANGED vars
    BY <1>1 DEF vars
  <1>2. CASE LoadExists \/ LoadRead
    BY <1>2 DEF LoadExists, LoadRead, IfMissing
  <1>3. CASE LoadAgain \/ SaveBegins \/ Restart \/ Flush \/ Wipe
    BY <1>3 DEF LoadAgain, SaveBegins, Restart, Flush, Wipe
  <1>4. CASE EnsureDir
    BY <1>4 DEF EnsureDir, DirMade
  <1>5. CASE CreateTemp \/ WriteTemp \/ Rename
    BY <1>5 DEF CreateTemp, WriteTemp, Rename, SaveEnds
  <1>6. CASE SaveFails
    <2>1. pc' = "idle" /\ faults' = faults + 1
      BY <1>6 DEF SaveFails, SaveEnds, Fault
    <2>. QED
      BY <1>0, <2>1
  <1>7. CASE Kill \/ PowerLoss
    BY <1>7 DEF Kill, PowerLoss, ProcessGone
  <1>. QED
    BY <1>1, <1>2, <1>3, <1>4, <1>5, <1>6, <1>7 DEF Next, Store, Daemon, Machine

\* In every behaviour a save that creates its file has a directory for it.
THEOREM StoreInductive == Spec => [](Ranges /\ Works /\ dir \in BOOLEAN)
  <1>1. Init => Ranges /\ Works
    BY StoreAssumption DEF Init, Ranges, Works, Content, Names
  <1>2. Init => dir \in BOOLEAN
    BY DEF Init
  <1>3. SavePhase /\ Ranges /\ Works /\ [Next]_vars => Ranges' /\ Works'
    BY StoreRanges, StoreWorks
  <1>4. dir \in BOOLEAN /\ [Next]_vars => (dir \in BOOLEAN)'
    BY DirIsTruth
  <1>. QED
    BY <1>1, <1>2, <1>3, <1>4, PhaseHolds, PTL DEF Spec

\* Files, answers and counts keep to their ranges, also after a power loss.
THEOREM StoreTypes == Spec => []TypeOK
  <1>1. SavePhase /\ Ranges /\ dir \in BOOLEAN => TypeOK
    <2>. SUFFICES ASSUME SavePhase, Ranges, dir \in BOOLEAN
                  PROVE  TypeOK
      OBVIOUS
    <2>1. /\ files \in [Names -> Content] /\ record \in Record \cup {None}
      BY DEF SavePhase
    <2>2. pc \in {"exists", "read", "idle", "mkdir", "create", "write", "rename", "stopped"}
      BY DEF Ranges, Saving
    <2>. QED
      BY <2>1, <2>2, Zenon DEF TypeOK, Ranges
  <1>. QED
    BY <1>1, PhaseHolds, StoreInductive, PTL

\* save: in every behaviour an answer with an error comes from a call that failed in
\* that step, also in a container that was replaced without its volume.
THEOREM SavesWork == Spec => SaveWorks
  <1>1. Ranges /\ Works /\ [Next]_vars => [SaveStep]_vars
    BY StoreWorks
  <1>. QED
    BY <1>1, StoreInductive, PTL DEF Spec, SaveWorks, SaveStep
=============================================================================
