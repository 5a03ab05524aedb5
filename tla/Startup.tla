------------------------------ MODULE Startup ------------------------------
(***************************************************************************)
(* How the connectors of several processes start and what they leave for   *)
(* clients to find (src/plugin/src/lib.rs and net.rs): the port each binds *)
(* and the `.connector.json` of its target directory.  Copies of one       *)
(* application share that directory.  Processes exit and crash at any      *)
(* point, and their ports and process ids are used again.                  *)
(*                                                                         *)
(* A process stands for its app_instance_id.  The bridge port, the MCP     *)
(* port and the ports remembered from the last run are left out: a range   *)
(* yields any port that is free.                                           *)
(***************************************************************************)
EXTENDS Naturals, FiniteSets

CONSTANTS
  Proc,      \* processes, each started at most once
  App,       \* the application of each process
  Dir,       \* the directory of each process's PID file
  Port,      \* the WebSocket ports of the range
  Exact,     \* the port each process was told to use, or NoPort
  NoPort,
  Pid,       \* process ids
  NoRecord   \* no such file

ASSUME StartupConstants ==
  /\ NoPort \notin Port /\ 0 \notin Pid
  /\ Exact \in [Proc -> Port \cup {NoPort}]

Dirs == {Dir[p] : p \in Proc}

VARIABLES
  proc,     \* what each process is doing, its pid, its port and its PID_FILE
  pidFile,  \* .connector.json, per directory
  tmpFile   \* .connector.json.tmp, per directory

startupVars == <<proc, pidFile, tmpFile>>

(* What a PID file says; failed stands for its startup_error.              *)
RecordOf(p, failed) ==
  [proc |-> p, pid |-> proc[p].pid, failed |-> failed,
   port |-> IF failed THEN Exact[p] ELSE proc[p].port]

Living(p) == proc[p].at \notin {"off", "gone"}

(* pid_is_alive                                                            *)
PidIsAlive(pid) == \E p \in Proc : Living(p) /\ proc[p].pid = pid

Taken(port) == \E p \in Proc : Living(p) /\ proc[p].port = port

(* The process whose connector answers at a port.                          *)
Serving(port) == {p \in Proc : proc[p].at = "serving" /\ proc[p].port = port}

Goes(p, at) == proc' = [proc EXCEPT ![p].at = at]

Gone == [at |-> "gone", pid |-> 0, port |-> NoPort, hasFile |-> FALSE]

Ends(p) == proc' = [proc EXCEPT ![p] = Gone]

-----------------------------------------------------------------------------
(* Server::new holds the exact port, or one of the range, from here on.    *)
Launch(p) ==
  /\ proc[p].at = "off"
  /\ \E pid \in Pid, port \in IF Exact[p] = NoPort THEN Port ELSE {Exact[p]} :
       /\ ~PidIsAlive(pid) /\ ~Taken(port)
       /\ proc' = [proc EXCEPT ![p].at = "bound", ![p].pid = pid, ![p].port = port]
  /\ UNCHANGED <<pidFile, tmpFile>>

(* A busy exact port, or one of the other listeners: what was bound is     *)
(* dropped with its port.                                                  *)
FailStart(p) ==
  /\ \/ /\ proc[p].at = "off" /\ Exact[p] # NoPort /\ Taken(Exact[p])
        /\ \E pid \in Pid : /\ ~PidIsAlive(pid)
                           /\ proc' = [proc EXCEPT ![p].at = "failing", ![p].pid = pid]
     \/ proc[p].at = "bound" /\ proc' = [proc EXCEPT ![p].at = "failing", ![p].port = NoPort]
  /\ UNCHANGED <<pidFile, tmpFile>>

(* keeps_live_pid_file                                                     *)
KeepsLiveFile(p) ==
  LET existing == pidFile[Dir[p]] IN
  /\ existing # NoRecord /\ existing.pid # proc[p].pid
  /\ ~existing.failed /\ PidIsAlive(existing.pid)

(* record_failure looks at the file first.                                 *)
LookBeforeFailing(p) ==
  /\ proc[p].at = "failing"
  /\ Goes(p, IF KeepsLiveFile(p) THEN "idle" ELSE "recording")
  /\ UNCHANGED <<pidFile, tmpFile>>

(* write_pid_file: the temporary file, then its rename, which finds none   *)
(* when another copy has renamed it first.                                 *)
WriteRecord(p) ==
  /\ \/ proc[p].at = "bound" /\ Goes(p, "renaming")
     \/ proc[p].at = "recording" /\ Goes(p, "renamingFailure")
  /\ tmpFile' = [tmpFile EXCEPT ![Dir[p]] = RecordOf(p, proc[p].at = "recording")]
  /\ UNCHANGED pidFile

RenameRecord(p) ==
  /\ proc[p].at \in {"renaming", "renamingFailure"}
  /\ proc' = [proc EXCEPT ![p].at = IF @ = "renaming" THEN "serving" ELSE "idle",
                          ![p].hasFile = tmpFile[Dir[p]] # NoRecord]
  /\ IF tmpFile[Dir[p]] = NoRecord
       THEN UNCHANGED <<pidFile, tmpFile>>
       ELSE /\ pidFile' = [pidFile EXCEPT ![Dir[p]] = tmpFile[Dir[p]]]
            /\ tmpFile' = [tmpFile EXCEPT ![Dir[p]] = NoRecord]

(* The directory, the file or the rename fails: it runs without a record.  *)
CannotRecord(p) ==
  /\ \/ proc[p].at \in {"bound", "renaming"} /\ Goes(p, "serving")
     \/ proc[p].at \in {"recording", "renamingFailure"} /\ Goes(p, "idle")
  /\ UNCHANGED <<pidFile, tmpFile>>

-----------------------------------------------------------------------------
(* RunEvent::Exit: remove_own_pid_file reads the file and then removes it. *)
BeginExit(p) ==
  /\ Living(p) /\ proc[p].at # "removing"
  /\ LET own == pidFile[Dir[p]] # NoRecord /\ pidFile[Dir[p]].pid = proc[p].pid
     IN IF proc[p].hasFile /\ own THEN Goes(p, "removing") ELSE Ends(p)
  /\ UNCHANGED <<pidFile, tmpFile>>

RemoveOwnFile(p) ==
  /\ proc[p].at = "removing" /\ Ends(p)
  /\ pidFile' = [pidFile EXCEPT ![Dir[p]] = NoRecord]
  /\ UNCHANGED tmpFile

Die(p) == Living(p) /\ Ends(p) /\ UNCHANGED <<pidFile, tmpFile>>

-----------------------------------------------------------------------------
StartupInit ==
  /\ proc = [p \in Proc |-> [Gone EXCEPT !.at = "off"]]
  /\ pidFile = [d \in Dirs |-> NoRecord]
  /\ tmpFile = [d \in Dirs |-> NoRecord]

StartupStep ==
  \E p \in Proc :
    \/ Launch(p) \/ FailStart(p)
    \/ LookBeforeFailing(p) \/ WriteRecord(p)
    \/ RenameRecord(p) \/ CannotRecord(p)
    \/ BeginExit(p) \/ RemoveOwnFile(p) \/ Die(p)
=============================================================================
