----------------------------- MODULE Journal ------------------------------
(***************************************************************************)
(* The workflow journal of plugin/src/workflow/journal.rs: a file of       *)
(* records that one process owns through an OS lock, appended to by one    *)
(* writer thread behind a bounded queue, each append acknowledged after    *)
(* sync_data.  The first write or sync that fails poisons the writer for   *)
(* good; a file with a torn last line is never opened again.  Processes    *)
(* may be killed and the machine may lose power at any point.              *)
(***************************************************************************)
EXTENDS Naturals, Sequences, FiniteSets

CONSTANTS
  Process,         \* processes that open the namespace
  Run,             \* run ids
  MaxRevision,     \* bound on the revisions callers append
  MaxRecords,      \* JournalOptions.max_records
  QueueCapacity,   \* JournalOptions.queue_capacity
  MaxKeys,         \* bound on the fingerprint keys made
  Nobody,          \* the lock is free
  Nothing          \* the writer is between two appends

ASSUME JournalAssumption ==
  /\ MaxRevision \in Nat /\ MaxKeys \in Nat
  /\ MaxRecords \in Nat \ {0} /\ QueueCapacity \in Nat \ {0}
  /\ Nobody \notin Process

(* A record is what the sequence check looks at, with the key its hashes   *)
(* were made with.                                                         *)
JournalRecord == [run: Run, revision: 1..MaxRevision, key: 1..MaxKeys]

ASSUME NoRecordAssumption == Nothing \notin JournalRecord

(* validate_sequence over a whole file.                                    *)
InOrder(records) ==
  \A i, j \in DOMAIN records :
    i < j /\ records[i].run = records[j].run
      => records[i].revision < records[j].revision

VARIABLES
  file,        \* the whole lines of events.jsonl
  torn,        \* a line of the file is not a whole record
  durable,     \* how many of those lines have been synced
  keyFile,     \* fingerprint.key: absent, short (created, not filled) or whole
  key,         \* the key drawn last, the one a whole file holds
  keySafe,     \* the directory entry of the key file has been synced
  owner,       \* who has owner.lock
  mode,        \* closed, opening (locked, keying), open, or closing, per process
  queue,       \* appends waiting for the writer
  writing,     \* the record written and not yet synced
  poisoned,    \* the writer failed
  lastRevision, \* the last revision remembered for each run
  acked        \* records whose caller was told they are durable

fileVars == <<file, torn, durable>>
keyVars == <<keyFile, key, keySafe>>
writer == <<queue, writing, poisoned, lastRevision>>
logVars == <<fileVars, keyVars, owner, mode, writer, acked>>

Mode == {"closed", "locked", "keying", "open", "closing"}

JournalTypeOK ==
  /\ file \in Seq(JournalRecord)
  /\ torn \in BOOLEAN
  /\ durable \in 0..Len(file)
  /\ keyFile \in {"absent", "short", "whole"}
  /\ key \in 0..MaxKeys
  /\ keySafe \in BOOLEAN
  /\ owner \in Process \cup {Nobody}
  /\ mode \in [Process -> Mode]
  /\ queue \in [Process -> Seq(JournalRecord)]
  /\ \A p \in Process : Len(queue[p]) <= QueueCapacity
  /\ writing \in [Process -> JournalRecord \cup {Nothing}]
  /\ poisoned \in [Process -> BOOLEAN]
  /\ lastRevision \in [Process -> [Run -> 0..MaxRevision]]
  /\ acked \subseteq JournalRecord

-----------------------------------------------------------------------------
(* Operators                                                               *)

(* The last revision of a run in the file, 0 when it has none.             *)
LastRevision(run) ==
  LET revisions == {file[i].revision : i \in {j \in DOMAIN file : file[j].run = run}}
  IN  IF revisions = {} THEN 0
      ELSE CHOOSE r \in revisions : \A s \in revisions : s <= r

(* Mutant of ValidSequence: a repeated revision passes.                    *)
ValidSequenceOrEqual(p, record) == record.revision >= lastRevision[p][record.run]

ValidSequence(p, record) == record.revision > lastRevision[p][record.run]

(* A write behind a torn line extends that line: the record is lost in it. *)
Lines(record) == IF torn THEN file ELSE Append(file, record)

(* A process that ends leaves nothing in memory.                           *)
Forget(S) ==
  /\ mode' = [p \in Process |-> IF p \in S THEN "closed" ELSE mode[p]]
  /\ queue' = [p \in Process |-> IF p \in S THEN <<>> ELSE queue[p]]
  /\ writing' = [p \in Process |-> IF p \in S THEN Nothing ELSE writing[p]]
  /\ poisoned' = [p \in Process |-> p \notin S /\ poisoned[p]]
  /\ lastRevision' = [p \in Process |-> IF p \in S THEN [run \in Run |-> 0] ELSE lastRevision[p]]
  /\ owner' = IF owner \in S THEN Nobody ELSE owner
  /\ UNCHANGED acked

-----------------------------------------------------------------------------
(* open                                                                    *)

TryLock(p) ==
  /\ mode[p] = "closed"
  /\ owner = Nobody
  /\ owner' = p
  /\ mode' = [mode EXCEPT ![p] = "locked"]
  /\ UNCHANGED <<fileVars, keyVars, writer, acked>>

HasHistory == file # <<>> \/ torn

(* private_key: without history a fresh key file is created, then filled.  *)
CreateKeyFile(p) ==
  /\ mode[p] = "locked"
  /\ keyFile = "absent" /\ ~HasHistory /\ key < MaxKeys
  /\ keyFile' = "short"
  /\ mode' = [mode EXCEPT ![p] = "keying"]
  /\ UNCHANGED <<fileVars, key, keySafe, owner, writer, acked>>

FillKeyFile(p) ==
  /\ mode[p] = "keying"
  /\ keyFile' = "whole"
  /\ key' = key + 1
  /\ mode' = [mode EXCEPT ![p] = "locked"]
  /\ UNCHANGED <<fileVars, keySafe, owner, writer, acked>>

(* read_history: an ordered file of whole lines within the limits, after   *)
(* the directory has been synced.                                          *)
Open(p) ==
  /\ mode[p] = "locked"
  /\ keyFile = "whole"
  /\ ~torn /\ Len(file) <= MaxRecords /\ InOrder(file)
  /\ keySafe' = TRUE
  /\ mode' = [mode EXCEPT ![p] = "open"]
  /\ lastRevision' = [lastRevision EXCEPT ![p] = [run \in Run |-> LastRevision(run)]]
  /\ UNCHANGED <<fileVars, keyFile, key, owner, queue, writing, poisoned, acked>>

(* Corrupt history, a missing or short key, or any I/O error.              *)
OpenFails(p) ==
  /\ mode[p] \in {"locked", "keying"}
  /\ Forget({p})
  /\ UNCHANGED <<fileVars, keyVars>>

-----------------------------------------------------------------------------
(* append, and the writer thread                                           *)

(* Mutant of SubmitAppend: the queue takes any number of appends.          *)
SubmitUnbounded(p, run, revision) ==
  /\ mode[p] = "open" /\ ~poisoned[p]
  /\ queue' = [queue EXCEPT ![p] =
                 Append(@, [run |-> run, revision |-> revision, key |-> key])]
  /\ UNCHANGED <<fileVars, keyVars, owner, mode, writing, poisoned, lastRevision, acked>>

(* try_send: a full queue or a poisoned writer refuses at once.            *)
SubmitAppend(p, run, revision) ==
  /\ mode[p] = "open" /\ ~poisoned[p]
  /\ Len(queue[p]) < QueueCapacity
  /\ queue' = [queue EXCEPT ![p] =
                 Append(@, [run |-> run, revision |-> revision, key |-> key])]
  /\ UNCHANGED <<fileVars, keyVars, owner, mode, writing, poisoned, lastRevision, acked>>

CanTake(p) ==
  mode[p] \in {"open", "closing"} /\ queue[p] # <<>> /\ writing[p] = Nothing

(* record_count counts the history and every durable append; the lines it  *)
(* misses were left by a failure, and then nothing is accepted any more.   *)
Accepted(p) ==
  /\ ~poisoned[p]
  /\ Len(file) < MaxRecords
  /\ ValidSequence(p, Head(queue[p]))

Take(p) == queue' = [queue EXCEPT ![p] = Tail(@)]

(* Mutant of Reject: a poisoned writer leaves its queue alone.             *)
RejectUnlessPoisoned(p) ==
  /\ CanTake(p) /\ ~Accepted(p) /\ ~poisoned[p]
  /\ Take(p)
  /\ UNCHANGED <<fileVars, keyVars, owner, mode, writing, poisoned, lastRevision, acked>>

Reject(p) ==
  /\ CanTake(p) /\ ~Accepted(p)
  /\ Take(p)
  /\ UNCHANGED <<fileVars, keyVars, owner, mode, writing, poisoned, lastRevision, acked>>

WriteLine(p) ==
  /\ CanTake(p) /\ Accepted(p)
  /\ Take(p)
  /\ file' = Lines(Head(queue[p]))
  /\ writing' = [writing EXCEPT ![p] = Head(queue[p])]
  /\ UNCHANGED <<torn, durable, keyVars, owner, mode, poisoned, lastRevision, acked>>

(* Mutant of WriteFails: the writer goes on after a failure.               *)
WriteFailsUnpoisoned(p, tears) ==
  /\ CanTake(p) /\ Accepted(p)
  /\ Take(p)
  /\ torn' = (torn \/ tears)
  /\ UNCHANGED <<file, durable, keyVars, owner, mode, writing, poisoned, lastRevision, acked>>

(* A full disk: nothing of the line, or some of it, is in the file.        *)
WriteFails(p, tears) ==
  /\ CanTake(p) /\ Accepted(p)
  /\ Take(p)
  /\ torn' = (torn \/ tears)
  /\ poisoned' = [poisoned EXCEPT ![p] = TRUE]
  /\ UNCHANGED <<file, durable, keyVars, owner, mode, writing, lastRevision, acked>>

Synced(p) ==
  /\ writing[p] # Nothing
  /\ durable' = Len(file)
  /\ lastRevision' = [lastRevision EXCEPT ![p] = [@ EXCEPT ![writing[p].run] = writing[p].revision]]
  /\ acked' = acked \cup {writing[p]}
  /\ writing' = [writing EXCEPT ![p] = Nothing]
  /\ UNCHANGED <<file, torn, keyVars, owner, mode, queue, poisoned>>

(* The line is in the file although its caller is told that it failed.     *)
SyncFails(p) ==
  /\ writing[p] # Nothing
  /\ poisoned' = [poisoned EXCEPT ![p] = TRUE]
  /\ writing' = [writing EXCEPT ![p] = Nothing]
  /\ UNCHANGED <<fileVars, keyVars, owner, mode, queue, lastRevision, acked>>

-----------------------------------------------------------------------------
(* Drop, kill, power loss                                                  *)

(* The last sender goes; the writer drains its queue.                      *)
Close(p) ==
  /\ mode[p] = "open"
  /\ mode' = [mode EXCEPT ![p] = "closing"]
  /\ UNCHANGED <<fileVars, keyVars, owner, writer, acked>>

(* Mutant of Closed: the lock is released before the queue is drained.     *)
ClosedUndrained(p) ==
  /\ mode[p] = "closing"
  /\ owner' = Nobody
  /\ mode' = [mode EXCEPT ![p] = IF queue[p] = <<>> THEN "closed" ELSE "closing"]
  /\ UNCHANGED <<fileVars, keyVars, writer, acked>>

(* The thread is joined and the lock released.                             *)
Closed(p) ==
  /\ mode[p] = "closing" /\ queue[p] = <<>> /\ writing[p] = Nothing
  /\ Forget({p})
  /\ UNCHANGED <<fileVars, keyVars>>

(* The operating system keeps what a killed process wrote.                 *)
Kill(p) ==
  /\ mode[p] # "closed"
  /\ Forget({p})
  /\ UNCHANGED <<fileVars, keyVars>>

(* What was not synced may be lost, or cut inside a line, and so may the   *)
(* name of a key file in a directory that was not synced.                  *)
PowerLoss ==
  /\ Forget(Process)
  /\ \E n \in durable..Len(file) :
       /\ file' = SubSeq(file, 1, n)
       /\ torn' \in {torn, torn \/ n < Len(file)}
  /\ keyFile' \in {keyFile, IF keySafe THEN keyFile ELSE "absent"}
  /\ UNCHANGED <<durable, key, keySafe>>

-----------------------------------------------------------------------------
JournalInit ==
  /\ file = <<>> /\ torn = FALSE /\ durable = 0
  /\ keyFile = "absent" /\ key = 0 /\ keySafe = FALSE
  /\ owner = Nobody
  /\ mode = [p \in Process |-> "closed"]
  /\ queue = [p \in Process |-> <<>>]
  /\ writing = [p \in Process |-> Nothing]
  /\ poisoned = [p \in Process |-> FALSE]
  /\ lastRevision = [p \in Process |-> [run \in Run |-> 0]]
  /\ acked = {}

Opening(p) ==
  TryLock(p) \/ CreateKeyFile(p) \/ FillKeyFile(p) \/ Open(p) \/ OpenFails(p)

Writer(p) ==
  \/ Reject(p)
  \/ WriteLine(p)
  \/ \E tears \in BOOLEAN : WriteFails(p, tears)
  \/ Synced(p)
  \/ SyncFails(p)

JournalNext ==
  \/ \E p \in Process :
       \/ Opening(p)
       \/ \E run \in Run, revision \in 1..MaxRevision : SubmitAppend(p, run, revision)
       \/ Writer(p)
       \/ Close(p)
       \/ Closed(p)
       \/ Kill(p)
  \/ PowerLoss

JournalSpec == JournalInit /\ [][JournalNext]_logVars

(* The writer thread is scheduled, and so is the drop that joins it.       *)
JournalFairness == \A p \in Process : WF_logVars(Writer(p) \/ Closed(p))

-----------------------------------------------------------------------------
(* Properties                                                              *)

(* Failures and crashes never leave a file that a later open refuses for   *)
(* its order or its length (validate_sequence, record_count), and all the  *)
(* records, whoever wrote them, carry the hashes of the key on disk, so    *)
(* that deduplication never restarts under another identity: unless a line *)
(* is torn, a restart can go on.                                           *)
HistoryIsReadable ==
  /\ Len(file) <= MaxRecords /\ InOrder(file)
  /\ \A i \in DOMAIN file : keyFile = "whole" /\ file[i].key = key

(* Dropping the journal ends: the writer answers all that is queued, also  *)
(* after a failure (Drop for Inner joins it).                              *)
ClosingEnds == \A p \in Process : mode[p] = "closing" ~> mode[p] = "closed"

(* The journal implements the abstract log: what was acknowledged is and   *)
(* stays among the synced lines of the file, whatever failed before and    *)
(* whatever is killed or loses power after (write_durable before ack.send).*)
Log == INSTANCE DurableLog WITH
  Record <- JournalRecord, log <- SubSeq(file, 1, durable), acknowledged <- acked

ImplementsDurableLog == Log!Spec

=============================================================================
