------------------------------ MODULE MCHandles -----------------------------
(***************************************************************************)
(* What is held of a connection, a document, a snapshot or a process and   *)
(* must not be taken for what replaced it: pins (Bridge), runtimes         *)
(* (Runtime), generations of the DOM cache (Snapshots) and the application *)
(* a client is bound to (Startup and Discovery); and how long a client     *)
(* waits for a call over such a connection (Calls).  They share no         *)
(* variable: a behaviour is one of a single subject, and the others stay   *)
(* as they were initially.                                                 *)
(***************************************************************************)
EXTENDS MCBridge, Runtime, Snapshots, Discovery, Calls

CONSTANTS x, y, a1, a2, b1, mcp

VARIABLE subject  \* what this behaviour is about

handleVars == <<subject, vars, runtimeVars, snapshotVars, discoveryVars, callVars>>

(* Where calls are not the subject, one of them stands for all.            *)
OneCall == call = [front |-> "cli", tool |-> "find", t |-> CHOOSE t \in Times : TRUE]

HandlesInit ==
  /\ subject \in {"pins", "runtime", "snapshots", "instances", "calls"}
  /\ Init /\ RuntimeInit /\ SnapshotInit /\ DiscoveryInit /\ CallInit
  /\ subject # "calls" => OneCall

HandlesNext ==
  /\ UNCHANGED subject
  /\ \/ /\ subject = "pins" /\ Next
        /\ UNCHANGED <<runtimeVars, snapshotVars, discoveryVars, callVars>>
     \/ /\ subject = "runtime" /\ RuntimeNext
        /\ UNCHANGED <<vars, snapshotVars, discoveryVars, callVars>>
     \/ /\ subject = "snapshots" /\ SnapshotNext
        /\ UNCHANGED <<vars, runtimeVars, discoveryVars, callVars>>
     \/ /\ subject = "instances" /\ DiscoveryNext
        /\ UNCHANGED <<vars, runtimeVars, snapshotVars, callVars>>
     \/ /\ subject = "calls" /\ CallNext
        /\ UNCHANGED <<vars, runtimeVars, snapshotVars, discoveryVars>>

HandlesSpec == HandlesInit /\ [][HandlesNext]_handleVars

InstancesSpec == subject = "instances" /\ HandlesSpec

(* Connections are interchangeable, and so are callers.                    *)
HandlesSymmetry == Symmetry \cup Permutations({x, y})

(* Two applications of one workspace share its target directory, in which  *)
(* the client looks; neither's workspace contains it.  One insists on a    *)
(* port.                                                                   *)
Strangers == {a1, b1}
Restarted == {a1, a2}
MCApp == [p \in Proc |-> IF p = b1 THEN "b" ELSE "a"]
MCDir == [p \in Proc |-> "target"]
MCExact == [p \in Proc |-> IF p = b1 THEN 1 ELSE NoPort]
MCNear == [c \in Client |-> {"target"}]
Nowhere == [c \in Client |-> {}]
MCWants == [c \in Client |-> AnyApp]
=============================================================================
