------------------------------ MODULE MCParts ------------------------------
(***************************************************************************)
(* The parts of the plugin that share no state with each other, checked in *)
(* one run: a behaviour is a behaviour of one of them, and the variables   *)
(* of the others stay as they were initially.                              *)
(***************************************************************************)
EXTENDS Picker, Capture, Batch, Logs, Artifacts

VARIABLE component  \* the part that this behaviour is about

partsVars ==
  <<component, pickerVars, captureVars, batchVars, logVars, artifactVars>>

(* Where the batch is not the subject, it has been reported already.       *)
NoBatch ==
  /\ plan = [mode |-> "parallel", stopOnError |-> FALSE, max |-> 1,
             dependsOn |-> [i \in Actions |-> {}]]
  /\ state = [i \in Actions |-> "ok"]
  /\ remaining = [i \in Actions |-> 0]
  /\ ready = <<>> /\ abort = FALSE /\ phase = "reported"

PartsInit ==
  /\ component \in {"picker", "capture", "batch", "logs", "artifacts"}
  /\ PickerInit /\ CaptureInit /\ LogsInit /\ ArtifactInit
  /\ IF component = "batch" THEN BatchInit ELSE NoBatch

PartsNext ==
  /\ UNCHANGED component
  /\ \/ /\ component = "picker" /\ PickerNext
        /\ UNCHANGED <<captureVars, batchVars, logVars, artifactVars>>
     \/ /\ component = "capture" /\ CaptureNext
        /\ UNCHANGED <<pickerVars, batchVars, logVars, artifactVars>>
     \/ /\ component = "batch" /\ BatchNext
        /\ UNCHANGED <<pickerVars, captureVars, logVars, artifactVars>>
     \/ /\ component = "logs" /\ LogsNext
        /\ UNCHANGED <<pickerVars, captureVars, batchVars, artifactVars>>
     \/ /\ component = "artifacts" /\ ArtifactNext
        /\ UNCHANGED <<pickerVars, captureVars, batchVars, logVars>>

PartsSpec == PartsInit /\ [][PartsNext]_partsVars /\ PickerFairness
=============================================================================
