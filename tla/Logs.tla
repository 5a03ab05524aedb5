-------------------------------- MODULE Logs --------------------------------
(***************************************************************************)
(* What an application logs (src/plugin/src/bridge.rs, handlers.rs and     *)
(* state.rs).  A document buffers its console, first in an early script    *)
(* and then in the bridge; a timer pushes what is new, and a reader first  *)
(* asks the page for it.  Events of the other logs are pushed one by one.  *)
(* A push is a call that is not awaited: pushes overtake each other and    *)
(* fail.  A flush that takes too long is abandoned, and its script may     *)
(* still run.                                                              *)
(*                                                                         *)
(* Entries are numbers; texts, levels, windows and time stamps are left    *)
(* out, and with them the filters of the readers.                          *)
(***************************************************************************)
EXTENDS Naturals, Sequences, FiniteSets, SequencesExt, FiniteSetsExt

CONSTANTS MaxEntries,  \* bound: what is logged
          MaxBuffer,   \* MAX_LOGS and MAX_EARLY_LOGS
          MaxLoads,    \* bound: documents
          MaxStray     \* bound: scripts of abandoned flushes at a time

ASSUME LogConstants ==
  MaxEntries \in Nat /\ MaxBuffer \in Nat \ {0} /\ MaxLoads \in Nat
  /\ MaxStray \in Nat

Dropped == 0  \* the line that tells of early entries that were dropped

VARIABLES
  frontend,   \* the document: its buffers and what it has handed over
  pushes,     \* batches that travel, each to a log
  reader,     \* one reader of the console
  stray,      \* scripts of flushes whose readers gave up
  log,        \* the files
  logged,     \* how many entries there are
  handed,     \* ghost: entries of the console handed over
  due,        \* ghost: those it held when it was last asked
  lost        \* ghost: entries lost, cleared or rotated away

logVars == <<frontend, pushes, reader, stray, log, logged, handed, due, lost>>

LogNames == {"console", "events"}
NewPage(load) == [load |-> load, bridged |-> FALSE, early |-> <<>>, dropped |-> FALSE,
                  buffer |-> <<>>, seq |-> 0, pushed |-> 0]
NoReader == [at |-> "none", before |-> {}, batch |-> <<>>, flushed |-> FALSE]

LogsInit ==
  /\ frontend = NewPage(1) /\ pushes = {} /\ reader = NoReader /\ stray = 0
  /\ log = [name \in LogNames |-> <<>>]
  /\ logged = 0 /\ handed = {} /\ due = {} /\ lost = {}

EntriesOf(lines) == {l.entry : l \in Range(lines)} \ {Dropped}
Stored == UNION {ToSet(log[name]) : name \in LogNames}
Travelling == (UNION {ToSet(p.entries) : p \in pushes}) \cup ToSet(reader.batch)

-----------------------------------------------------------------------------
(* The document                                                            *)

(* The last MaxBuffer of the lines.                                        *)
Capped(lines) == SubSeq(lines, Len(lines) - Min({Len(lines), MaxBuffer}) + 1, Len(lines))

(* The wrappers of console.log and its like, before and after injection.   *)
LogConsole ==
  /\ logged < MaxEntries /\ logged' = logged + 1
  /\ LET lines == IF frontend.bridged
                    THEN Append(frontend.buffer, [seq |-> frontend.seq + 1, entry |-> logged'])
                    ELSE Append(frontend.early, [seq |-> 0, entry |-> logged'])
     IN /\ frontend' = IF frontend.bridged
                     THEN [frontend EXCEPT !.buffer = Capped(lines), !.seq = @ + 1]
                     ELSE [frontend EXCEPT !.early = Capped(lines),
                                       !.dropped = @ \/ Capped(lines) # lines]
        /\ lost' = lost \cup (EntriesOf(lines) \ (EntriesOf(Capped(lines)) \cup handed))
  /\ UNCHANGED <<pushes, reader, stray, log, handed, due>>

(* The bridge adopts what the early script kept.                           *)
Adopt ==
  /\ ~frontend.bridged
  /\ LET early == IF frontend.dropped THEN <<[seq |-> 0, entry |-> Dropped]>> \o frontend.early
                                  ELSE frontend.early
         lines == [i \in DOMAIN early |-> [seq |-> i, entry |-> early[i].entry]]
     IN /\ frontend' = [frontend EXCEPT !.bridged = TRUE, !.early = <<>>,
                                !.buffer = Capped(lines), !.seq = Len(lines)]
        /\ lost' = lost \cup (EntriesOf(lines) \ EntriesOf(Capped(lines)))
  /\ UNCHANGED <<pushes, reader, stray, log, logged, handed, due>>

(* Mutant: the buffer shifts, and what was handed over is told by index.   *)
PendingByIndex(p) == SubSeq(p.buffer, p.pushed + 1, Len(p.buffer))

(* The numbers rise, so the lines with a higher one are the last.          *)
TakenBefore(p) == {i \in DOMAIN p.buffer : p.buffer[i].seq <= p.pushed}
Pending(p) == SubSeq(p.buffer, Cardinality(TakenBefore(p)) + 1, Len(p.buffer))

(* takePendingLogs                                                         *)
TakePending ==
  /\ frontend' = [frontend EXCEPT !.pushed = IF frontend.buffer = <<>> THEN @
                                     ELSE Max({@, Last(frontend.buffer).seq})]
  /\ handed' = handed \cup EntriesOf(Pending(frontend))
  /\ due' = EntriesOf(frontend.buffer)

Carried(lines) == [i \in DOMAIN lines |-> lines[i].entry]

(* autoPushLogs, every three seconds.                                      *)
AutoPush ==
  /\ frontend.bridged /\ Pending(frontend) # <<>>
  /\ TakePending
  /\ pushes' = pushes \cup {[log |-> "console", entries |-> Carried(Pending(frontend))]}
  /\ UNCHANGED <<reader, stray, log, logged, lost>>

(* An event of a listener, a call that is monitored, an error of the page. *)
PushEvent ==
  /\ logged < MaxEntries /\ logged' = logged + 1
  /\ pushes' = pushes \cup {[log |-> "events", entries |-> <<logged'>>]}
  /\ UNCHANGED <<frontend, reader, stray, log, handed, due, lost>>

-----------------------------------------------------------------------------
(* The host                                                                *)

(* push_logs, push_event, push_ipc_event, push_runtime: all lines of a     *)
(* batch under the lock of the file.                                       *)
PushArrives ==
  \E p \in pushes :
    /\ pushes' = pushes \ {p}
    /\ log' = [log EXCEPT ![p.log] = @ \o p.entries]
    /\ UNCHANGED <<frontend, reader, stray, logged, handed, due, lost>>

PushFails ==
  \E p \in pushes :
    /\ pushes' = pushes \ {p}
    /\ lost' = lost \cup ToSet(p.entries)
    /\ UNCHANGED <<frontend, reader, stray, log, logged, handed, due>>

(* console_logs first asks for what is pending (flush_console_logs).       *)
AskFlush ==
  /\ reader.at = "none"
  /\ reader' = [NoReader EXCEPT !.at = "asked", !.before = 1..logged]
  /\ UNCHANGED <<frontend, pushes, stray, log, logged, handed, due, lost>>

(* The script in the page; without a bridge there is nothing to ask.       *)
Answer ==
  /\ reader.at = "asked"
  /\ IF frontend.bridged
       THEN /\ TakePending
            /\ reader' = [reader EXCEPT !.at = "reply", !.batch = Carried(Pending(frontend)),
                                        !.flushed = TRUE]
       ELSE reader' = [reader EXCEPT !.at = "read"] /\ UNCHANGED <<frontend, handed, due>>
  /\ UNCHANGED <<pushes, stray, log, logged, lost>>

StoreReply ==
  /\ reader.at = "reply"
  /\ log' = [log EXCEPT !["console"] = @ \o reader.batch]
  /\ reader' = [reader EXCEPT !.at = "read", !.batch = <<>>]
  /\ UNCHANGED <<frontend, pushes, stray, logged, handed, due, lost>>

GivenUp == [reader EXCEPT !.at = "read", !.batch = <<>>, !.flushed = FALSE]

(* 1.5 seconds are over: the reader goes on without.                       *)
FlushTimesOut ==
  /\ \/ reader.at = "asked" /\ stray < MaxStray
     \/ reader.at = "reply"
  /\ reader' = GivenUp
  /\ stray' = IF reader.at = "asked" THEN stray + 1 ELSE stray
  /\ lost' = lost \cup ToSet(reader.batch)
  /\ UNCHANGED <<frontend, pushes, log, logged, handed, due>>

(* The script of a flush that nobody waits for.                            *)
AnswerNobody ==
  /\ stray > 0 /\ stray' = stray - 1
  /\ frontend.bridged
  /\ TakePending
  /\ lost' = lost \cup EntriesOf(Pending(frontend))
  /\ UNCHANGED <<pushes, reader, log, logged>>

ReadConsole ==
  /\ reader.at = "read"
  /\ reader' = NoReader
  /\ UNCHANGED <<frontend, pushes, stray, log, logged, handed, due, lost>>

(* clear_logs; "all" takes one lock after the other.                       *)
ClearLog(name) ==
  /\ log[name] # <<>>
  /\ log' = [log EXCEPT ![name] = <<>>]
  /\ lost' = lost \cup ToSet(log[name])
  /\ UNCHANGED <<frontend, pushes, reader, stray, logged, handed, due>>

OwnBuffers == EntriesOf(frontend.early) \cup (EntriesOf(frontend.buffer) \ handed)

(* What travels may still arrive; an answer that was not read will not.    *)
Reload ==
  /\ frontend.load < MaxLoads
  /\ frontend' = NewPage(frontend.load + 1)
  /\ reader' = IF reader.at \in {"asked", "reply"} THEN GivenUp ELSE reader
  /\ lost' = lost \cup OwnBuffers \cup ToSet(reader.batch)
  /\ stray' = 0 /\ due' = {}
  /\ UNCHANGED <<pushes, log, logged, handed>>

(* PluginState::new: each launch starts fresh logs.                        *)
Relaunch ==
  /\ frontend.load < MaxLoads
  /\ frontend' = NewPage(frontend.load + 1)
  /\ log' = [name \in LogNames |-> <<>>]
  /\ pushes' = {} /\ reader' = NoReader /\ stray' = 0 /\ due' = {}
  /\ lost' = lost \cup OwnBuffers \cup Travelling \cup Stored
  /\ UNCHANGED <<logged, handed>>

LogsNext ==
  \/ LogConsole \/ Adopt \/ AutoPush \/ PushEvent \/ PushArrives \/ PushFails
  \/ AskFlush \/ Answer \/ StoreReply \/ FlushTimesOut \/ AnswerNobody \/ ReadConsole
  \/ \E name \in LogNames : ClearLog(name)
  \/ Reload \/ Relaunch

LogsSpec == LogsInit /\ [][LogsNext]_logVars

-----------------------------------------------------------------------------
(* An entry is handed over once and stored once, also when the buffer has  *)
(* shifted, two takes overlap and the early buffer was adopted; all that   *)
(* the page held when it was asked is handed over; and a reader whose      *)
(* flush was answered finds what was logged before it asked, unless a push *)
(* still carries it or it was lost (src/plugin/src/bridge.rs:3060,         *)
(* "Entries are tracked by sequence number, not array index").             *)
LogsAreComplete ==
  /\ \A name \in LogNames : IsInjective(log[name])
  /\ Stored \cap (Travelling \cup OwnBuffers) = {}
  /\ due \subseteq handed
  /\ reader.at = "read" /\ reader.flushed =>
       reader.before \subseteq Stored \cup Travelling \cup lost
=============================================================================
