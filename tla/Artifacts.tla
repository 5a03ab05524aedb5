----------------------------- MODULE Artifacts ------------------------------
(***************************************************************************)
(* Screenshots that are saved (src/plugin/src/handlers.rs): a file for     *)
(* each, under a name made of the time, and a line in a manifest, which    *)
(* artifact_prune reads, thins out and writes again.  A save and a prune   *)
(* lease the user interface, so one of them runs at a time (the lock of    *)
(* the manifest keeps lists and reads out, which change nothing).  The     *)
(* process may be killed between any two of its steps.                     *)
(*                                                                         *)
(* One process: neither the lease nor the lock is shared with another copy *)
(* of the application that keeps its files in the same directory.  The     *)
(* content of an image is the number of the save it is from.               *)
(***************************************************************************)
EXTENDS Naturals, Sequences, FiniteSets, SequencesExt, FiniteSetsExt

CONSTANTS MaxSaves,  \* bound: saves
          MaxMillis, \* bound: the clock
          MaxFaults, \* bound: writes that fail and kills
          Keeps      \* how many a prune is asked to keep

ASSUME ArtifactConstants ==
  MaxSaves \in Nat /\ MaxMillis \in Nat /\ MaxFaults \in Nat /\ Keeps \subseteq Nat

Kinds == {"full", "element"}  \* a part of the name

VARIABLES
  files,     \* path -> content
  manifest,  \* its lines
  work,      \* the save or the prune that holds the lease
  saves, millis, faults,
  told,      \* ghost: the artifacts that callers were told of
  let_go     \* ghost: those a prune chose, an overwrite replaced or a failed rewrite cut off

artifactVars == <<files, manifest, work, saves, millis, faults, told, let_go>>
counters == <<saves, millis, faults>>

NoWork == [step |-> "none"]

ArtifactInit ==
  /\ files = <<>> /\ manifest = <<>> /\ work = NoWork
  /\ saves = 0 /\ millis = 0 /\ faults = 0
  /\ told = {} /\ let_go = {}

-----------------------------------------------------------------------------
(* save_screenshot_artifact                                                *)

Requested(kind) == [at |-> millis, kind |-> kind, attempt |-> 0]

(* Mutant: a file that exists is opened like any other.                    *)
FreePathAnyway(requested) == requested

(* create_new, and up to fifty names to try; then the save fails.          *)
FreeAttempts(requested) ==
  {n \in 0..49 : [requested EXCEPT !.attempt = n] \notin DOMAIN files}

FreePath(requested) == [requested EXCEPT !.attempt = Min(FreeAttempts(requested))]

SaveFile(kind, overwrite) ==
  /\ work = NoWork /\ saves < MaxSaves /\ saves' = saves + 1
  /\ overwrite \/ FreeAttempts(Requested(kind)) # {}
  /\ LET path == IF overwrite THEN Requested(kind) ELSE FreePath(Requested(kind))
     IN /\ files' = [p \in DOMAIN files \cup {path} |-> IF p = path THEN saves' ELSE files[p]]
        /\ work' = [step |-> "append",
                    artifact |-> [path |-> path, created |-> millis, content |-> saves']]
        /\ let_go' = IF overwrite THEN let_go \cup {a \in told : a.path = path} ELSE let_go
  /\ UNCHANGED <<manifest, millis, faults, told>>

(* append_artifact_manifest; a line that cannot be written is an error to  *)
(* the caller, and the file stays.                                         *)
AppendEntry ==
  /\ work.step = "append"
  /\ work' = NoWork
  /\ \/ /\ manifest' = Append(manifest, work.artifact)
        /\ told' = told \cup {work.artifact}
        /\ UNCHANGED faults
     \/ /\ faults < MaxFaults /\ faults' = faults + 1
        /\ UNCHANGED <<manifest, told>>
  /\ UNCHANGED <<files, saves, millis, let_go>>

-----------------------------------------------------------------------------
(* artifact_prune                                                          *)

(* The sort is stable: of one millisecond, in the order of the file.       *)
NewestFirst(order) ==
  \A i, j \in DOMAIN order : i < j =>
    \/ manifest[order[i]].created > manifest[order[j]].created
    \/ manifest[order[i]].created = manifest[order[j]].created /\ order[i] < order[j]

(* Ghost: what may go, with `keep' others that are no older.               *)
Superfluous(keep) ==
  {a \in ToSet(manifest) :
     Cardinality({b \in ToSet(manifest) \ {a} : b.created >= a.created}) >= keep}

(* The newest `keep' stay.  All entries are of one kind, "screenshot": a   *)
(* prune of another kind matches none of them and keeps all.               *)
PruneRead(keep, matching, delete) ==
  /\ work = NoWork
  /\ \E order \in Bijection(DOMAIN manifest, DOMAIN manifest) :
       /\ NewestFirst(order)
       /\ LET lines == [i \in DOMAIN order |-> manifest[order[i]]]
              kept == IF matching THEN SubSeq(lines, 1, Min({keep, Len(lines)})) ELSE lines
              chosen == ToSet(lines) \ ToSet(kept)
          IN work' = [step |-> "prune", chosen |-> chosen,
                      doomed |-> IF delete THEN chosen ELSE {}, kept |-> kept]
  /\ let_go' = IF matching THEN let_go \cup Superfluous(keep) ELSE let_go
  /\ UNCHANGED <<files, manifest, counters, told>>

(* One file; an error is collected, and the next one follows.              *)
PruneDelete ==
  /\ work.step = "prune"
  /\ \E a \in work.doomed :
       /\ work' = [work EXCEPT !.doomed = @ \ {a}]
       /\ \/ files' = [p \in DOMAIN files \ {a.path} |-> files[p]]
          \/ UNCHANGED files
  /\ UNCHANGED <<manifest, counters, told, let_go>>

(* The file is truncated and written: a failure may leave its beginning.   *)
PruneWrite ==
  /\ work.step = "prune" /\ work.doomed = {}
  /\ work' = NoWork
  /\ \/ manifest' = work.kept /\ UNCHANGED <<faults, let_go>>
     \/ /\ faults < MaxFaults /\ faults' = faults + 1
        /\ \E n \in 0..Len(work.kept) :
             /\ manifest' = SubSeq(work.kept, 1, n)
             /\ let_go' = let_go \cup ToSet(SubSeq(work.kept, n + 1, Len(work.kept)))
     \/ /\ faults < MaxFaults /\ faults' = faults + 1
        /\ UNCHANGED <<manifest, let_go>>
  /\ UNCHANGED <<files, saves, millis, told>>

-----------------------------------------------------------------------------
Killed ==
  /\ work # NoWork /\ faults < MaxFaults /\ faults' = faults + 1
  /\ work' = NoWork
  /\ UNCHANGED <<files, manifest, saves, millis, told, let_go>>

NextMilli ==
  /\ millis < MaxMillis /\ millis' = millis + 1
  /\ UNCHANGED <<files, manifest, work, saves, faults, told, let_go>>

ArtifactNext ==
  \/ \E kind \in Kinds, overwrite \in BOOLEAN : SaveFile(kind, overwrite)
  \/ AppendEntry
  \/ \E keep \in Keeps, matching, delete \in BOOLEAN : PruneRead(keep, matching, delete)
  \/ PruneDelete \/ PruneWrite \/ Killed \/ NextMilli

ArtifactSpec == ArtifactInit /\ [][ArtifactNext]_artifactVars

-----------------------------------------------------------------------------
Whole(a) == a \in ToSet(manifest) /\ a.path \in DOMAIN files /\ files[a.path] = a.content

(* What a caller was told is saved stays listed and keeps its content,     *)
(* whatever is saved in the same millisecond, pruned, fails or is killed:  *)
(* unless a prune found as many as it keeps that are no older, a save with *)
(* `overwrite' took its name, or the rewrite of the manifest failed half   *)
(* way (handlers.rs, write_unique_artifact and artifact_prune).            *)
SavedIsKept == \A a \in told \ let_go : Whole(a)
=============================================================================
