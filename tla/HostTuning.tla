------------------------------ MODULE HostTuning -----------------------------
(****************************************************************************)
(* scripts/tune-benchmark-host.sh: tuning the benchmark host and undoing    *)
(* it, over any sequence of runs of the script, reboots, and runs that end  *)
(* early because a command fails (set -e) or the user interrupts them.      *)
(*                                                                          *)
(* One action per command that changes something.  The settings are the     *)
(* governor, irqbalance, the frequency floors of the cores, the C-states    *)
(* and the RT throttle.  All CPUs have the same governor, a host without    *)
(* cpufreq is one where nothing needs to be done, and nobody but the script *)
(* and a reboot changes a setting.  The C-states and the throttle are at    *)
(* the kernel's defaults after a boot: undo sets them to these.             *)
(****************************************************************************)
EXTENDS Integers, FiniteSets

CONSTANTS
  Cores,     \* the cores whose frequency floors are pinned
  MaxRuns    \* bound: how often the script is run

ASSUME TuningAssumption == IsFiniteSet(Cores) /\ MaxRuns \in Nat

VARIABLES
  host,       \* the settings in force
  boot,       \* the settings a boot gives
  govFile,    \* GOV_STATE_FILE: the governor in it, or Absent
  irqFile,    \* whether IRQBALANCE_STATE_FILE exists
  freqFile,   \* the lines of FREQ_STATE_FILE; none if it does not exist
  dropped,    \* history: the pinned cores whose lines a later apply has deleted
  grub,       \* /etc/default/grub: with the isolation parameters or without
  backup,     \* /etc/default/grub.bak, likewise, or Absent
  bootCfg,    \* what update-grub made of grub
  cmdline,    \* what the running kernel was booted with
  original,   \* history: grub before the script was ever run
  pc,         \* the next command of the run in progress
  mode,       \* the arguments of the run
  grubSet,    \* GRUB_ALREADY_SET
  todo,       \* the cores the loop over freq_core_arr or FREQ_STATE_FILE has left
  core,       \* the core it is at
  runs,       \* how often the script was run
  before      \* history: everything the run may change, when it started

files  == <<govFile, irqFile, freqFile, dropped>>
disk   == <<grub, backup, bootCfg>>
script == <<mode, grubSet, runs, before>>
loop   == <<todo, core>>
fixed  == <<boot, original>>
vars   == <<host, files, disk, cmdline, pc, script, loop, fixed>>

Absent == "absent"
Highest == "max"
CStates == {"C1E", "C6", "C10"}

Init ==
  /\ boot \in [governor : {"powersave", "performance"}, irqbalance : BOOLEAN,
               floor : [Cores -> {"min", Highest}], cstates : {CStates}, throttle : {TRUE}]
  /\ host = boot
  /\ govFile = Absent /\ irqFile = FALSE /\ freqFile = {} /\ dropped = {}
  /\ grub \in {"plain", "isolated"}
  /\ bootCfg = grub /\ cmdline = grub /\ original = grub
  /\ backup = Absent
  /\ pc = "idle" /\ mode = "none" /\ grubSet = FALSE
  /\ todo = {} /\ core = Absent
  /\ runs = 0
  /\ before = <<>>

(* A command of the run that changes neither the files nor the boot loader. *)
Step(from, to) == pc = from /\ pc' = to /\ UNCHANGED <<cmdline, script, fixed>>
Set(setting, value) == host' = [host EXCEPT ![setting] = value]

-----------------------------------------------------------------------------
(* Starting the script.                                                     *)

Begin(m, first) ==
  /\ pc = "idle" /\ runs < MaxRuns
  /\ runs' = runs + 1
  /\ mode' = m
  /\ before' = <<host, files, disk>>
  /\ pc' = first
  /\ UNCHANGED <<host, files, disk, cmdline, loop, fixed>>

(* Variants: steps 1-4 first in any case; GRUB_ALREADY_SET from what the    *)
(* kernel was booted with.                                                  *)
StartApplyUnsplit(m) ==
  /\ m \in {"apply", "no_grub"}
  /\ grubSet' = (grub = "isolated")
  /\ Begin(m, "governor")
StartApplyCmdline(m) ==
  /\ m \in {"apply", "no_grub"}
  /\ grubSet' = (cmdline = "isolated")
  /\ Begin(m, IF m = "apply" /\ ~grubSet' THEN "prompt" ELSE "governor")

(* Without the isolation parameters only step 5 runs, with them, or with    *)
(* --no-grub, only steps 1-4.                                               *)
StartApply(m) ==
  /\ m \in {"apply", "no_grub"}
  /\ grubSet' = (grub = "isolated")
  /\ Begin(m, IF m = "apply" /\ ~grubSet' THEN "prompt" ELSE "governor")

StartUndo ==
  /\ Begin("undo", "start_irqbalance")
  /\ UNCHANGED grubSet

-----------------------------------------------------------------------------
(* Steps 1-4.                                                               *)

(* Variant: the governor is saved in any case.                              *)
SaveGovernorAlways ==
  /\ Step("governor", "set_governor")
  /\ govFile' = host.governor
  /\ UNCHANGED <<host, irqFile, freqFile, dropped, disk, loop>>

SaveGovernor ==
  \/ /\ host.governor # "performance"
     /\ Step("governor", "set_governor")
     /\ govFile' = host.governor
     /\ UNCHANGED <<host, irqFile, freqFile, dropped, disk, loop>>
  \/ /\ host.governor = "performance"
     /\ Step("governor", "irqbalance")
     /\ UNCHANGED <<host, files, disk, loop>>

SetGovernor ==
  /\ Step("set_governor", "irqbalance")
  /\ Set("governor", "performance")
  /\ UNCHANGED <<files, disk, loop>>

SaveIrqbalance ==
  /\ Step("irqbalance", IF host.irqbalance THEN "stop_irqbalance" ELSE "truncate")
  /\ irqFile' = (irqFile \/ host.irqbalance)
  /\ UNCHANGED <<host, govFile, freqFile, dropped, disk, loop>>

StopIrqbalance ==
  /\ Step("stop_irqbalance", "truncate")
  /\ Set("irqbalance", FALSE)
  /\ UNCHANGED <<files, disk, loop>>

(* : > FREQ_STATE_FILE, whatever is in it.                                  *)
TruncateFreqFile ==
  /\ Step("truncate", "floors")
  /\ freqFile' = {}
  /\ dropped' = dropped \cup {c \in Cores : \E line \in freqFile :
                                 line[1] = c /\ host.floor[c] # line[2]}
  /\ todo' = Cores
  /\ UNCHANGED <<host, govFile, irqFile, disk, core>>

(* Look at the next core; append its floor to the file if it is not pinned. *)
SaveFloor(c) ==
  /\ c \in todo
  /\ todo' = todo \ {c}
  /\ \/ /\ host.floor[c] # Highest
        /\ Step("floors", "pin")
        /\ freqFile' = freqFile \cup {<<c, host.floor[c]>>}
        /\ core' = c
     \/ /\ host.floor[c] = Highest
        /\ Step("floors", "floors")
        /\ UNCHANGED <<freqFile, core>>
  /\ UNCHANGED <<host, govFile, irqFile, dropped, disk>>

PinFloor ==
  /\ Step("pin", "floors")
  /\ Set("floor", [host.floor EXCEPT ![core] = Highest])
  /\ UNCHANGED <<files, disk, loop>>

(* Three commands, one for each C-state.                                    *)
DisableCState(from, state, to) ==
  /\ Step(from, to)
  /\ Set("cstates", host.cstates \ {state})
  /\ UNCHANGED <<files, disk, loop>>
DisableCStates ==
  \/ todo = {} /\ DisableCState("floors", "C1E", "disable_c6")
  \/ DisableCState("disable_c6", "C6", "disable_c10")
  \/ DisableCState("disable_c10", "C10", "throttle")

(* The last of steps 1-4, and what comes after them.                        *)
DisableThrottle ==
  /\ Step("throttle", IF mode = "no_grub" \/ grubSet THEN "idle" ELSE "prompt")
  /\ Set("throttle", FALSE)
  /\ UNCHANGED <<files, disk, loop>>

-----------------------------------------------------------------------------
(* Step 5.                                                                  *)

Confirm ==
  /\ Step("prompt", IF mode = "undo" THEN "copy_backup" ELSE "copy_grub")
  /\ UNCHANGED <<host, files, disk, loop>>

(* Any other answer than y or yes.                                          *)
Cancel ==
  /\ Step("prompt", "idle")
  /\ UNCHANGED <<host, files, disk, loop>>

CopyGrub ==
  /\ Step("copy_grub", "edit_grub")
  /\ backup' = grub
  /\ UNCHANGED <<host, files, grub, bootCfg, loop>>

EditGrub ==
  /\ Step("edit_grub", "update_grub")
  /\ grub' = "isolated"
  /\ UNCHANGED <<host, files, backup, bootCfg, loop>>

UpdateGrub ==
  /\ Step("update_grub", "idle")
  /\ bootCfg' = grub
  /\ UNCHANGED <<host, files, grub, backup, loop>>

-----------------------------------------------------------------------------
(* --undo.  A state file is removed after what it holds is in force again.  *)

StartIrqbalance ==
  /\ Step("start_irqbalance", IF irqFile THEN "rm_irq_file" ELSE "restore_governor")
  /\ Set("irqbalance", host.irqbalance \/ irqFile)
  /\ UNCHANGED <<files, disk, loop>>

RemoveIrqFile ==
  /\ Step("rm_irq_file", "restore_governor")
  /\ irqFile' = FALSE
  /\ UNCHANGED <<host, govFile, freqFile, dropped, disk, loop>>

RestoreGovernor ==
  /\ Step("restore_governor", "rm_gov_file")
  /\ Set("governor", IF govFile = Absent THEN host.governor ELSE govFile)
  /\ UNCHANGED <<files, disk, loop>>

RemoveGovFile ==
  /\ Step("rm_gov_file", "restore_floors")
  /\ govFile' = Absent
  /\ todo' = {line[1] : line \in freqFile}
  /\ UNCHANGED <<host, irqFile, freqFile, dropped, disk, core>>

RestoreFloor(c) ==
  /\ c \in todo
  /\ Step("restore_floors", "restore_floors")
  /\ \E line \in freqFile :
       line[1] = c /\ Set("floor", [host.floor EXCEPT ![c] = line[2]])
  /\ todo' = todo \ {c}
  /\ UNCHANGED <<files, disk, core>>

RemoveFreqFile ==
  /\ todo = {}
  /\ Step("restore_floors", "enable_c1e")
  /\ freqFile' = {}
  /\ UNCHANGED <<host, govFile, irqFile, dropped, disk, loop>>

EnableCState(from, state, to) ==
  /\ Step(from, to)
  /\ Set("cstates", host.cstates \cup {state})
  /\ UNCHANGED <<files, disk, loop>>
EnableCStates ==
  \/ EnableCState("enable_c1e", "C1E", "enable_c6")
  \/ EnableCState("enable_c6", "C6", "enable_c10")
  \/ EnableCState("enable_c10", "C10", "enable_throttle")

(* The default runtime; without a backup of grub this is the end.           *)
EnableThrottle ==
  /\ Step("enable_throttle", IF backup = Absent THEN "idle" ELSE "prompt")
  /\ Set("throttle", TRUE)
  /\ UNCHANGED <<files, disk, loop>>

CopyBackup ==
  /\ Step("copy_backup", "update_grub")
  /\ grub' = backup
  /\ UNCHANGED <<host, files, backup, bootCfg, loop>>

-----------------------------------------------------------------------------
(* A command fails, or the user interrupts the run.                         *)
Abort ==
  /\ pc # "idle"
  /\ pc' = "idle"
  /\ UNCHANGED <<host, files, disk, cmdline, script, loop, fixed>>

(* The settings and /run are as after every boot.                           *)
Reboot ==
  /\ host' = boot
  /\ govFile' = Absent /\ irqFile' = FALSE /\ freqFile' = {} /\ dropped' = {}
  /\ cmdline' = bootCfg
  /\ pc' = "idle"
  /\ UNCHANGED <<disk, script, loop, fixed>>

-----------------------------------------------------------------------------
Apply ==
  \/ SaveGovernor \/ SetGovernor \/ SaveIrqbalance \/ StopIrqbalance
  \/ TruncateFreqFile \/ (\E c \in Cores : SaveFloor(c)) \/ PinFloor
  \/ DisableCStates \/ DisableThrottle
  \/ CopyGrub \/ EditGrub

Undo ==
  \/ StartIrqbalance \/ RemoveIrqFile \/ RestoreGovernor \/ RemoveGovFile
  \/ (\E c \in Cores : RestoreFloor(c)) \/ RemoveFreqFile
  \/ EnableCStates \/ EnableThrottle \/ CopyBackup

Next ==
  \/ (\E m \in {"apply", "no_grub"} : StartApply(m)) \/ StartUndo
  \/ Apply \/ Undo \/ Confirm \/ Cancel \/ UpdateGrub
  \/ Abort \/ Reboot

Spec == Init /\ [][Next]_vars
-----------------------------------------------------------------------------
(* Properties.                                                              *)

(* If the floor of c is pinned, the state file has the one it had.          *)
OnRecord(c) == host.floor[c] # boot.floor[c] => <<c, boot.floor[c]>> \in freqFile

(* At every moment, between two commands of a run too, what steps 1 and 2   *)
(* have changed can be restored from the state files, except for the floors *)
(* of cores that were pinned when another apply emptied the file.           *)
Recoverable ==
  /\ host.governor # boot.governor => govFile = boot.governor
  /\ govFile \in {Absent, boot.governor}
  /\ host.irqbalance # boot.irqbalance => irqFile
  /\ irqFile => boot.irqbalance
  /\ \A c \in Cores \ dropped : OnRecord(c)

(* An undo that is not cut short leaves the host as it was before the first *)
(* run of the script, whatever sequence of runs came before it, except for  *)
(* those floors.                                                            *)
UndoRestores ==
  [][/\ EnableThrottle => /\ \A s \in DOMAIN boot \ {"floor"} : host'[s] = boot[s]
                          /\ \A c \in Cores \ dropped : host.floor[c] = boot.floor[c]
     /\ UpdateGrub /\ mode = "undo" => bootCfg' = original]_vars

(* "Cancelled. Nothing was changed.": an apply that is cancelled has had no *)
(* effect.                                                                  *)
CancelledChangesNothing ==
  [][Cancel /\ mode # "undo" => before = <<host, files, disk>>]_vars
=============================================================================
