-------------------------- MODULE HostTuningProofs ---------------------------
(****************************************************************************)
(* What tune-benchmark-host.sh guarantees for any set of pinned cores and   *)
(* any number of runs, reboots and runs cut short: each setting is the one  *)
(* of the last boot or the tuned one, and whatever is tuned is on record.   *)
(****************************************************************************)
EXTENDS HostTuning, TLAPS

Hosts == [governor : {"powersave", "performance"}, irqbalance : BOOLEAN,
          floor : [Cores -> {"min", Highest}], cstates : SUBSET CStates, throttle : BOOLEAN]

ApplySteps == {"governor", "set_governor", "irqbalance", "stop_irqbalance", "truncate",
               "floors", "pin", "disable_c6", "disable_c10", "throttle"}
KernelUndoSteps == {"enable_c1e", "enable_c6", "enable_c10", "enable_throttle"}
LateUndoSteps == {"rm_gov_file", "restore_floors"} \cup KernelUndoSteps
UndoSteps == {"start_irqbalance", "rm_irq_file", "restore_governor"} \cup LateUndoSteps

HostInv ==
  /\ host \in Hosts /\ boot \in Hosts
  /\ boot.cstates = CStates /\ boot.throttle = TRUE
  /\ pc \in {"enable_c6", "enable_c10"} => "C1E" \in host.cstates
  /\ pc = "enable_c10" => "C6" \in host.cstates
  /\ pc = "enable_throttle" => host.cstates = CStates

(* Step 1 and its undoing.                                                  *)
GovernorInv ==
  /\ host.governor \in {boot.governor, "performance"}
  /\ host.governor # boot.governor => govFile = boot.governor
  /\ govFile \in {Absent, boot.governor}
  /\ pc = "set_governor" => govFile = boot.governor
  /\ pc \in LateUndoSteps => host.governor = boot.governor

(* Step 2.                                                                  *)
IrqbalanceInv ==
  /\ host.irqbalance => boot.irqbalance
  /\ irqFile \in BOOLEAN /\ (irqFile => boot.irqbalance)
  /\ host.irqbalance # boot.irqbalance => irqFile
  /\ pc = "stop_irqbalance" => irqFile
  /\ pc \in UndoSteps \ {"start_irqbalance"} => host.irqbalance = boot.irqbalance

(* Step 3.                                                                  *)
FloorInv ==
  /\ \A c \in Cores : host.floor[c] \in {boot.floor[c], Highest}
  /\ \A line \in freqFile : \E c \in Cores : line = <<c, boot.floor[c]>>
  /\ \A c \in Cores \ dropped : OnRecord(c)
  /\ pc = "pin" => core \in Cores /\ <<core, boot.floor[core]>> \in freqFile
  /\ pc = "restore_floors" =>
       \A c \in Cores \ todo :
         <<c, boot.floor[c]>> \in freqFile => host.floor[c] = boot.floor[c]
  /\ pc \in KernelUndoSteps =>
       \A c \in Cores \ dropped : host.floor[c] = boot.floor[c]

(* Step 5, and which way a run takes.                                       *)
GrubInv ==
  /\ original \in {"plain", "isolated"}
  /\ grub \in {original, "isolated"} /\ backup \in {Absent, original}
  /\ backup = Absent => grub = original
  /\ pc \in ApplySteps => mode # "undo" /\ (mode = "no_grub" \/ grubSet)
  /\ pc \in UndoSteps => mode = "undo"
  /\ pc = "prompt" => IF mode = "undo" THEN backup = original
                      ELSE grub = original /\ before = <<host, files, disk>>
  /\ pc \in {"copy_grub", "edit_grub"} => mode # "undo" /\ grub = original
  /\ pc \in {"edit_grub", "copy_backup"} => backup = original
  /\ pc = "update_grub" /\ mode = "undo" => grub = original

(* The inductive invariant.                                                 *)
IInv == HostInv /\ GovernorInv /\ IrqbalanceInv /\ FloorInv /\ GrubInv

-----------------------------------------------------------------------------
(* A command that sets one thing sets nothing else.                         *)
LEMMA SetFacts ==
  ASSUME host \in Hosts, NEW v
  PROVE  /\ Set("governor", v) =>
              /\ host'.governor = v /\ host'.irqbalance = host.irqbalance
              /\ host'.floor = host.floor /\ host'.cstates = host.cstates
              /\ host'.throttle = host.throttle
              /\ v \in {"powersave", "performance"} => host' \in Hosts
         /\ Set("irqbalance", v) =>
              /\ host'.irqbalance = v /\ host'.governor = host.governor
              /\ host'.floor = host.floor /\ host'.cstates = host.cstates
              /\ host'.throttle = host.throttle
              /\ v \in BOOLEAN => host' \in Hosts
         /\ Set("floor", v) =>
              /\ host'.floor = v /\ host'.governor = host.governor
              /\ host'.irqbalance = host.irqbalance /\ host'.cstates = host.cstates
              /\ host'.throttle = host.throttle
              /\ v \in [Cores -> {"min", Highest}] => host' \in Hosts
         /\ Set("cstates", v) =>
              /\ host'.cstates = v /\ host'.governor = host.governor
              /\ host'.irqbalance = host.irqbalance /\ host'.floor = host.floor
              /\ host'.throttle = host.throttle
              /\ v \in SUBSET CStates => host' \in Hosts
         /\ Set("throttle", v) =>
              /\ host'.throttle = v /\ host'.governor = host.governor
              /\ host'.irqbalance = host.irqbalance /\ host'.floor = host.floor
              /\ host'.cstates = host.cstates
              /\ v \in BOOLEAN => host' \in Hosts
  BY DEF Set, Hosts

(* The invariant holds initially.                                           *)
LEMMA InitInv == Init => IInv
<1> SUFFICES ASSUME Init PROVE IInv
  OBVIOUS
<1>1. boot \in Hosts /\ boot.cstates = CStates /\ boot.throttle = TRUE /\ host = boot
  BY DEF Init, Hosts
<1>2. HostInv BY <1>1 DEF Init, HostInv
<1>3. GovernorInv BY <1>1 DEF Init, GovernorInv, LateUndoSteps, KernelUndoSteps
<1>4. IrqbalanceInv BY <1>1 DEF Init, IrqbalanceInv, UndoSteps, LateUndoSteps, KernelUndoSteps
<1>5. FloorInv BY <1>1 DEF Init, FloorInv, OnRecord, KernelUndoSteps
<1>6. GrubInv BY DEF Init, GrubInv, ApplySteps, UndoSteps, LateUndoSteps, KernelUndoSteps
<1> QED BY <1>2, <1>3, <1>4, <1>5, <1>6 DEF IInv

(* Starting the script changes no setting and no file.                      *)
LEMMA StartInv ==
  ASSUME IInv, (\E m \in {"apply", "no_grub"} : StartApply(m)) \/ StartUndo
  PROVE  IInv'
<1> USE DEF StartApply, StartUndo, Begin, files, disk, loop, fixed
<1>1. HostInv' BY DEF IInv, HostInv
<1>2. GovernorInv' BY DEF IInv, GovernorInv, LateUndoSteps, KernelUndoSteps
<1>3. IrqbalanceInv' BY DEF IInv, IrqbalanceInv, UndoSteps, LateUndoSteps, KernelUndoSteps
<1>4. FloorInv' BY DEF IInv, FloorInv, OnRecord, KernelUndoSteps
<1>5. GrubInv' BY DEF IInv, GrubInv, ApplySteps, UndoSteps, LateUndoSteps, KernelUndoSteps
<1> QED BY <1>1, <1>2, <1>3, <1>4, <1>5 DEF IInv

(* Step 1: the governor is on record before it is changed.                  *)
LEMMA GovernorSteps ==
  ASSUME IInv, SaveGovernor \/ SetGovernor
  PROVE  IInv'
<1> USE DEF SaveGovernor, SetGovernor, Step, files, disk, loop, fixed, script
<1>1. HostInv' BY SetFacts DEF IInv, HostInv
<1>2. GovernorInv' BY SetFacts DEF IInv, HostInv, GovernorInv, LateUndoSteps, KernelUndoSteps
<1>3. IrqbalanceInv'
  BY SetFacts DEF IInv, HostInv, IrqbalanceInv, UndoSteps, LateUndoSteps, KernelUndoSteps
<1>4. FloorInv' BY SetFacts DEF IInv, HostInv, FloorInv, OnRecord, KernelUndoSteps
<1>5. GrubInv' BY DEF IInv, GrubInv, ApplySteps, UndoSteps, LateUndoSteps, KernelUndoSteps
<1> QED BY <1>1, <1>2, <1>3, <1>4, <1>5 DEF IInv

(* Step 2: so is the fact that irqbalance was active.                       *)
LEMMA IrqbalanceSteps ==
  ASSUME IInv, SaveIrqbalance \/ StopIrqbalance
  PROVE  IInv'
<1> USE DEF SaveIrqbalance, StopIrqbalance, Step, files, disk, loop, fixed, script
<1>1. HostInv' BY SetFacts DEF IInv, HostInv
<1>2. GovernorInv' BY SetFacts DEF IInv, HostInv, GovernorInv, LateUndoSteps, KernelUndoSteps
<1>3. IrqbalanceInv'
  BY SetFacts DEF IInv, HostInv, IrqbalanceInv, UndoSteps, LateUndoSteps, KernelUndoSteps, Hosts
<1>4. FloorInv' BY SetFacts DEF IInv, HostInv, FloorInv, OnRecord, KernelUndoSteps
<1>5. GrubInv' BY DEF IInv, GrubInv, ApplySteps, UndoSteps, LateUndoSteps, KernelUndoSteps
<1> QED BY <1>1, <1>2, <1>3, <1>4, <1>5 DEF IInv

(* Step 3: the old contents of the state file are lost, which matters for   *)
(* the cores it said are pinned.                                            *)
LEMMA TruncateStep ==
  ASSUME IInv, TruncateFreqFile
  PROVE  IInv'
<1> USE DEF TruncateFreqFile, Step, files, disk, loop, fixed, script
<1>1. HostInv' BY DEF IInv, HostInv
<1>2. GovernorInv' BY DEF IInv, GovernorInv, LateUndoSteps, KernelUndoSteps
<1>3. IrqbalanceInv' BY DEF IInv, IrqbalanceInv, UndoSteps, LateUndoSteps, KernelUndoSteps
<1>4. FloorInv'
  <2>1. ASSUME NEW c \in Cores \ dropped' PROVE host'.floor[c] = boot'.floor[c]
    <3>1. c \notin dropped /\ ~ \E line \in freqFile : line[1] = c /\ host.floor[c] # line[2]
      BY <2>1
    <3>2. <<c, boot.floor[c]>> \in freqFile => host.floor[c] = boot.floor[c]
      BY <3>1
    <3>3. OnRecord(c) BY <3>1 DEF IInv, FloorInv
    <3> QED BY <3>2, <3>3 DEF OnRecord
  <2> QED BY <2>1 DEF IInv, FloorInv, OnRecord, KernelUndoSteps
<1>5. GrubInv' BY DEF IInv, GrubInv, ApplySteps, UndoSteps, LateUndoSteps, KernelUndoSteps
<1> QED BY <1>1, <1>2, <1>3, <1>4, <1>5 DEF IInv

(* A floor that is not pinned is the one the boot gave; it is on record     *)
(* before it is pinned.                                                     *)
LEMMA SaveFloorStep ==
  ASSUME IInv, NEW c \in Cores, SaveFloor(c)
  PROVE  IInv'
<1> USE DEF SaveFloor, Step, files, disk, loop, fixed, script
<1>1. HostInv' BY DEF IInv, HostInv
<1>2. GovernorInv' BY DEF IInv, GovernorInv, LateUndoSteps, KernelUndoSteps
<1>3. IrqbalanceInv' BY DEF IInv, IrqbalanceInv, UndoSteps, LateUndoSteps, KernelUndoSteps
<1>4. FloorInv'
  <2>1. CASE freqFile' = freqFile /\ pc' = "floors"
    BY <2>1 DEF IInv, FloorInv, OnRecord, KernelUndoSteps
  <2>2. CASE /\ host.floor[c] # Highest /\ pc' = "pin" /\ core' = c
             /\ freqFile' = freqFile \cup {<<c, host.floor[c]>>}
    <3>1. host.floor[c] = boot.floor[c] BY <2>2 DEF IInv, FloorInv
    <3> QED BY <2>2, <3>1 DEF IInv, FloorInv, OnRecord, KernelUndoSteps
  <2> QED BY <2>1, <2>2
<1>5. GrubInv' BY DEF IInv, GrubInv, ApplySteps, UndoSteps, LateUndoSteps, KernelUndoSteps
<1> QED BY <1>1, <1>2, <1>3, <1>4, <1>5 DEF IInv

(* One core is pinned, the one just put on record.                          *)
LEMMA PinStep ==
  ASSUME IInv, PinFloor
  PROVE  IInv'
<1> USE DEF PinFloor, Step, files, disk, loop, fixed, script
<1> DEFINE F == [host.floor EXCEPT ![core] = Highest]
<1>0. /\ F \in [Cores -> {"min", Highest}] /\ Set("floor", F) /\ host \in Hosts
      /\ F[core] = Highest /\ \A c \in Cores \ {core} : F[c] = host.floor[c]
      /\ core \in Cores
  BY DEF IInv, HostInv, FloorInv, Hosts
<1> HIDE DEF F
<1>1. HostInv' BY <1>0, SetFacts DEF IInv, HostInv
<1>2. GovernorInv' BY <1>0, SetFacts DEF IInv, GovernorInv, LateUndoSteps, KernelUndoSteps
<1>3. IrqbalanceInv' BY <1>0, SetFacts DEF IInv, IrqbalanceInv, UndoSteps, LateUndoSteps, KernelUndoSteps
<1>4. FloorInv'
  <2>1. host'.floor = F BY <1>0, SetFacts
  <2>2. <<core, boot.floor[core]>> \in freqFile BY DEF IInv, FloorInv
  <2> QED BY <1>0, <2>1, <2>2 DEF IInv, FloorInv, OnRecord, KernelUndoSteps
<1>5. GrubInv' BY DEF IInv, GrubInv, ApplySteps, UndoSteps, LateUndoSteps, KernelUndoSteps
<1> QED BY <1>1, <1>2, <1>3, <1>4, <1>5 DEF IInv

(* Step 4 and its undoing change two settings nobody else looks at.         *)
LEMMA KernelSteps ==
  ASSUME IInv, DisableCStates \/ DisableThrottle \/ EnableCStates \/ EnableThrottle
  PROVE  IInv'
<1> USE DEF DisableCStates, DisableCState, DisableThrottle, EnableCStates, EnableCState,
            EnableThrottle, KernelUndoSteps, CStates,
            Step, files, disk, loop, fixed, script
<1>1. HostInv'
  <2>0. host \in Hosts /\ host.cstates \subseteq CStates BY DEF IInv, HostInv, Hosts
  <2>1. CASE DisableCStates
    <3>1. PICK state \in CStates : Set("cstates", host.cstates \ {state})
      BY <2>1
    <3>2. host' \in Hosts BY <2>0, <3>1, SetFacts
    <3>3. pc' \in {"disable_c6", "disable_c10", "throttle"} BY <2>1
    <3> QED BY <3>2, <3>3 DEF IInv, HostInv
  <2>2. CASE EnableCStates
    <3>1. PICK state \in CStates :
            /\ Set("cstates", host.cstates \cup {state})
            /\ \/ pc = "enable_c1e" /\ pc' = "enable_c6" /\ state = "C1E"
               \/ pc = "enable_c6" /\ pc' = "enable_c10" /\ state = "C6"
               \/ pc = "enable_c10" /\ pc' = "enable_throttle" /\ state = "C10"
      BY <2>2
    <3>2. host' \in Hosts /\ host'.cstates = host.cstates \cup {state}
      BY <2>0, <3>1, SetFacts
    <3> QED BY <2>0, <3>1, <3>2 DEF IInv, HostInv
  <2>3. CASE DisableThrottle \/ EnableThrottle
    <3>1. /\ host' \in Hosts /\ pc' \notin {"enable_c6", "enable_c10", "enable_throttle"}
      BY <2>0, <2>3, SetFacts
    <3> QED BY <2>3, <3>1 DEF IInv, HostInv
  <2> QED BY <2>1, <2>2, <2>3
<1>2. GovernorInv' BY SetFacts DEF IInv, HostInv, GovernorInv, LateUndoSteps, KernelUndoSteps
<1>3. IrqbalanceInv'
  <2>1. host'.irqbalance = host.irqbalance /\ boot' = boot /\ irqFile' = irqFile
    BY SetFacts DEF IInv, HostInv
  <2>2. pc' \in UndoSteps => pc \in UndoSteps \ {"start_irqbalance"}
    BY DEF UndoSteps, LateUndoSteps, KernelUndoSteps
  <2>3. pc' # "stop_irqbalance" OBVIOUS
  <2> QED BY <2>1, <2>2, <2>3 DEF IInv, IrqbalanceInv
<1>4. FloorInv'
  <2>1. host'.floor = host.floor /\ boot' = boot /\ freqFile' = freqFile /\ dropped' = dropped
    BY SetFacts DEF IInv, HostInv
  <2>2. /\ pc' \notin {"pin", "restore_floors"}
        /\ pc' \in KernelUndoSteps => pc \in KernelUndoSteps
    OBVIOUS
  <2> QED BY <2>1, <2>2 DEF IInv, FloorInv, OnRecord, KernelUndoSteps
<1>5. GrubInv' BY DEF IInv, GrubInv, ApplySteps, UndoSteps, LateUndoSteps, KernelUndoSteps
<1> QED BY <1>1, <1>2, <1>3, <1>4, <1>5 DEF IInv

(* Step 5: the backup is the original, since an edited file is never copied.*)
LEMMA GrubSteps ==
  ASSUME IInv, Confirm \/ Cancel \/ CopyGrub \/ EditGrub \/ UpdateGrub \/ CopyBackup
  PROVE  IInv'
<1> USE DEF Confirm, Cancel, CopyGrub, EditGrub, UpdateGrub, CopyBackup,
            Step, files, disk, loop, fixed, script
<1>1. HostInv' BY DEF IInv, HostInv
<1>2. GovernorInv' BY DEF IInv, GovernorInv, LateUndoSteps, KernelUndoSteps
<1>3. IrqbalanceInv' BY DEF IInv, IrqbalanceInv, UndoSteps, LateUndoSteps, KernelUndoSteps
<1>4. FloorInv' BY DEF IInv, FloorInv, OnRecord, KernelUndoSteps
<1>5. GrubInv' BY DEF IInv, GrubInv, ApplySteps, UndoSteps, LateUndoSteps, KernelUndoSteps, Absent
<1> QED BY <1>1, <1>2, <1>3, <1>4, <1>5 DEF IInv

(* --undo, irqbalance and governor: a state file is removed after what it   *)
(* holds is in force again.                                                 *)
LEMMA UndoSettingSteps ==
  ASSUME IInv, StartIrqbalance \/ RemoveIrqFile \/ RestoreGovernor \/ RemoveGovFile
  PROVE  IInv'
<1> USE DEF StartIrqbalance, RemoveIrqFile, RestoreGovernor, RemoveGovFile,
            Step, files, disk, loop, fixed, script
<1>1. HostInv'
  <2>1. CASE StartIrqbalance
    <3>1. (host.irqbalance \/ irqFile) \in BOOLEAN
      BY DEF IInv, HostInv, IrqbalanceInv, Hosts
    <3> QED BY <2>1, <3>1, SetFacts DEF IInv, HostInv
  <2>2. CASE RestoreGovernor
    <3>1. (IF govFile = Absent THEN host.governor ELSE govFile) \in {"powersave", "performance"}
      BY DEF IInv, HostInv, GovernorInv, Hosts
    <3> QED BY <2>2, <3>1, SetFacts DEF IInv, HostInv
  <2>3. CASE RemoveIrqFile \/ RemoveGovFile BY <2>3 DEF IInv, HostInv
  <2> QED BY <2>1, <2>2, <2>3
<1>2. GovernorInv'
  <2>1. CASE StartIrqbalance \/ RemoveIrqFile
    <3>1. /\ host'.governor = host.governor /\ boot' = boot /\ govFile' = govFile
          /\ pc' \in {"rm_irq_file", "restore_governor"}
      BY <2>1, SetFacts DEF IInv, HostInv
    <3> QED BY <3>1 DEF IInv, GovernorInv, LateUndoSteps, KernelUndoSteps
  <2>2. CASE RestoreGovernor
    <3>1. /\ host'.governor = IF govFile = Absent THEN host.governor ELSE govFile
          /\ boot' = boot /\ govFile' = govFile /\ pc' = "rm_gov_file"
      BY <2>2, SetFacts DEF IInv, HostInv
    <3>2. host'.governor = boot.governor
      BY <3>1 DEF IInv, HostInv, GovernorInv, Hosts, Absent
    <3> QED BY <3>1, <3>2 DEF IInv, GovernorInv, LateUndoSteps, KernelUndoSteps
  <2>3. CASE RemoveGovFile BY <2>3 DEF IInv, GovernorInv, LateUndoSteps, KernelUndoSteps
  <2> QED BY <2>1, <2>2, <2>3
<1>3. IrqbalanceInv'
  <2>0. /\ host \in Hosts /\ boot \in Hosts /\ boot' = boot /\ irqFile \in BOOLEAN
        /\ host.irqbalance \in BOOLEAN /\ boot.irqbalance \in BOOLEAN
    BY DEF IInv, HostInv, IrqbalanceInv, Hosts
  <2>1. CASE StartIrqbalance
    <3>1. /\ host'.irqbalance = (host.irqbalance \/ irqFile) /\ irqFile' = irqFile
          /\ pc' = IF irqFile THEN "rm_irq_file" ELSE "restore_governor"
      BY <2>0, <2>1, SetFacts
    <3> QED BY <2>0, <3>1 DEF IInv, IrqbalanceInv, UndoSteps, LateUndoSteps, KernelUndoSteps
  <2>2. CASE RemoveIrqFile
    <3>1. host' = host /\ irqFile' = FALSE /\ pc = "rm_irq_file" /\ pc' = "restore_governor"
      BY <2>2
    <3> QED BY <2>0, <3>1 DEF IInv, IrqbalanceInv, UndoSteps, LateUndoSteps, KernelUndoSteps
  <2>3. CASE RestoreGovernor \/ RemoveGovFile
    <3>1. /\ host'.irqbalance = host.irqbalance /\ irqFile' = irqFile
          /\ pc \in {"restore_governor", "rm_gov_file"}
          /\ pc' \in {"rm_gov_file", "restore_floors"}
      BY <2>0, <2>3, SetFacts
    <3> QED BY <2>0, <3>1 DEF IInv, IrqbalanceInv, UndoSteps, LateUndoSteps, KernelUndoSteps
  <2> QED BY <2>1, <2>2, <2>3
<1>4. FloorInv' BY SetFacts DEF IInv, HostInv, FloorInv, OnRecord, KernelUndoSteps
<1>5. GrubInv' BY DEF IInv, GrubInv, ApplySteps, UndoSteps, LateUndoSteps, KernelUndoSteps
<1> QED BY <1>1, <1>2, <1>3, <1>4, <1>5 DEF IInv

(* --undo, floors: every line of the state file is a floor the boot gave.   *)
LEMMA RestoreFloorStep ==
  ASSUME IInv, NEW c \in Cores, RestoreFloor(c)
  PROVE  IInv'
<1> USE DEF RestoreFloor, Step, files, disk, loop, fixed, script
<1> DEFINE F == [host.floor EXCEPT ![c] = boot.floor[c]]
<1>0. /\ F \in [Cores -> {"min", Highest}] /\ Set("floor", F) /\ host \in Hosts
      /\ F[c] = boot.floor[c] /\ \A d \in Cores \ {c} : F[d] = host.floor[d]
  <2>1. PICK line \in freqFile :
          line[1] = c /\ Set("floor", [host.floor EXCEPT ![c] = line[2]])
    OBVIOUS
  <2>2. line[2] = boot.floor[c] BY <2>1 DEF IInv, FloorInv
  <2> QED BY <2>1, <2>2 DEF IInv, HostInv, Hosts
<1> HIDE DEF F
<1>1. HostInv' BY <1>0, SetFacts DEF IInv, HostInv
<1>2. GovernorInv' BY <1>0, SetFacts DEF IInv, GovernorInv, LateUndoSteps, KernelUndoSteps
<1>3. IrqbalanceInv' BY <1>0, SetFacts DEF IInv, IrqbalanceInv, UndoSteps, LateUndoSteps, KernelUndoSteps
<1>4. FloorInv'
  <2>1. host'.floor = F BY <1>0, SetFacts
  <2> QED BY <1>0, <2>1 DEF IInv, FloorInv, OnRecord, KernelUndoSteps
<1>5. GrubInv' BY DEF IInv, GrubInv, ApplySteps, UndoSteps, LateUndoSteps, KernelUndoSteps
<1> QED BY <1>1, <1>2, <1>3, <1>4, <1>5 DEF IInv

(* The state file goes when every floor in it is in force again.            *)
LEMMA RemoveFreqStep ==
  ASSUME IInv, RemoveFreqFile
  PROVE  IInv'
<1> USE DEF RemoveFreqFile, Step, files, disk, loop, fixed, script
<1>1. HostInv' BY DEF IInv, HostInv
<1>2. GovernorInv' BY DEF IInv, GovernorInv, LateUndoSteps, KernelUndoSteps
<1>3. IrqbalanceInv' BY DEF IInv, IrqbalanceInv, UndoSteps, LateUndoSteps, KernelUndoSteps
<1>4. FloorInv'
  <2>1. ASSUME NEW c \in Cores \ dropped PROVE host.floor[c] = boot.floor[c]
    BY DEF IInv, FloorInv, OnRecord, KernelUndoSteps
  <2> QED BY <2>1 DEF IInv, FloorInv, OnRecord, KernelUndoSteps
<1>5. GrubInv' BY DEF IInv, GrubInv, ApplySteps, UndoSteps, LateUndoSteps, KernelUndoSteps
<1> QED BY <1>1, <1>2, <1>3, <1>4, <1>5 DEF IInv

(* A run cut short leaves everything as it is; a boot gives the settings of *)
(* a boot, and no state file.                                               *)
LEMMA StopInv ==
  ASSUME IInv, Abort \/ Reboot
  PROVE  IInv'
<1> USE DEF Abort, Reboot, files, disk, loop, fixed, script
<1>1. HostInv' BY DEF IInv, HostInv
<1>2. GovernorInv' BY DEF IInv, GovernorInv, LateUndoSteps, KernelUndoSteps
<1>3. IrqbalanceInv'
  <2>1. CASE Abort BY <2>1 DEF IInv, IrqbalanceInv, UndoSteps, LateUndoSteps, KernelUndoSteps
  <2>2. CASE Reboot
    <3>1. host' = boot /\ boot' = boot /\ irqFile' = FALSE /\ pc' = "idle"
      BY <2>2
    <3> QED BY <3>1 DEF IrqbalanceInv, UndoSteps, LateUndoSteps, KernelUndoSteps
  <2> QED BY <2>1, <2>2
<1>4. FloorInv' BY DEF IInv, FloorInv, OnRecord, KernelUndoSteps
<1>5. GrubInv' BY DEF IInv, GrubInv, ApplySteps, UndoSteps, LateUndoSteps, KernelUndoSteps
<1> QED BY <1>1, <1>2, <1>3, <1>4, <1>5 DEF IInv

(* The invariant depends on nothing but the variables.                      *)
LEMMA StutterInv == IInv /\ UNCHANGED vars => IInv'
  BY DEF vars, files, disk, loop, fixed, script, IInv, HostInv, GovernorInv, IrqbalanceInv,
         FloorInv, OnRecord, GrubInv

(* The invariant is inductive, for any set of cores.                        *)
LEMMA NextInv == IInv /\ [Next]_vars => IInv'
  BY StartInv, GovernorSteps, IrqbalanceSteps, TruncateStep, SaveFloorStep, PinStep,
     KernelSteps, GrubSteps, UndoSettingSteps, RestoreFloorStep, RemoveFreqStep, StopInv,
     StutterInv DEF Next, Apply, Undo

(* What relates the settings, the state files and the boot loader's files   *)
(* holds between any two commands of the script.                            *)
THEOREM Invariance == Spec => []IInv
<1>1. Init => IInv BY InitInv
<1>2. IInv /\ [Next]_vars => IInv' BY NextInv
<1> QED BY <1>1, <1>2, PTL DEF Spec

-----------------------------------------------------------------------------
(* The properties of the script.                                            *)

(* Whatever the script has changed it can restore, after any sequence of    *)
(* runs and of runs that were cut short.                                    *)
THEOREM Recovery == Spec => []Recoverable
<1>1. IInv => Recoverable
  BY DEF IInv, GovernorInv, IrqbalanceInv, FloorInv, Recoverable
<1> QED BY <1>1, Invariance, PTL

(* An undo that runs to its end has put the settings and what the boot      *)
(* loader is given back, except for floors that are no longer on record.    *)
THEOREM UndoCorrect == Spec => UndoRestores
<1> DEFINE A == /\ EnableThrottle =>
                     /\ \A s \in DOMAIN boot \ {"floor"} : host'[s] = boot[s]
                     /\ \A c \in Cores \ dropped : host.floor[c] = boot.floor[c]
                /\ UpdateGrub /\ mode = "undo" => bootCfg' = original
<1>1. IInv /\ [Next]_vars => [A]_vars
  <2> SUFFICES ASSUME IInv, [Next]_vars PROVE A
    OBVIOUS
  <2>1. ASSUME EnableThrottle, NEW s \in DOMAIN boot \ {"floor"}
        PROVE  host'[s] = boot[s]
    <3>1. /\ host' = [host EXCEPT !["throttle"] = TRUE] /\ pc = "enable_throttle"
          /\ host \in Hosts /\ boot \in Hosts
      BY <2>1 DEF EnableThrottle, Set, Step, IInv, HostInv
    <3>2. /\ host.governor = boot.governor /\ host.irqbalance = boot.irqbalance
          /\ host.cstates = boot.cstates /\ boot.throttle = TRUE
      BY <3>1 DEF IInv, HostInv, GovernorInv, IrqbalanceInv, UndoSteps, LateUndoSteps, KernelUndoSteps
    <3>3. s \in {"governor", "irqbalance", "cstates", "throttle"}
      BY <2>1, <3>1 DEF Hosts
    <3> QED BY <3>1, <3>2, <3>3 DEF Hosts
  <2>2. EnableThrottle => \A c \in Cores \ dropped : host.floor[c] = boot.floor[c]
    BY DEF EnableThrottle, Step, IInv, FloorInv, KernelUndoSteps
  <2>3. UpdateGrub /\ mode = "undo" => bootCfg' = original
    BY DEF UpdateGrub, Step, IInv, GrubInv
  <2> QED BY <2>1, <2>2, <2>3
<1> QED BY <1>1, Invariance, PTL DEF Spec, UndoRestores

(* "Cancelled. Nothing was changed." is true.                               *)
THEOREM CancelCorrect == Spec => CancelledChangesNothing
<1>1. IInv /\ [Next]_vars =>
        [Cancel /\ mode # "undo" => before = <<host, files, disk>>]_vars
  BY DEF Cancel, Step, IInv, GrubInv
<1> QED BY <1>1, Invariance, PTL DEF Spec, CancelledChangesNothing
=============================================================================
