------------------------- MODULE ResourceArbiter -------------------------
(***************************************************************************)
(* The application-owned resource arbiter of                               *)
(* plugin/src/workflow/resources.rs: leases over hierarchical resource     *)
(* names, the quarantine a write of unknown outcome leaves behind, the     *)
(* bounded history of late page results, and the queue of callers that     *)
(* wait for a conflicting lease (acquire_within).                          *)
(*                                                                         *)
(* The arbiter's state is guarded by one mutex.  try_acquire, list and     *)
(* quarantined first sweep the quarantines that outlived their TTL, one    *)
(* by one, without letting go of the mutex: `section' says who is inside   *)
(* such a critical section, and no other operation runs until it ends.     *)
(* Every other operation is one step.                                      *)
(***************************************************************************)
EXTENDS Integers, Sequences, FiniteSets, Functions, SequencesExt

CONSTANTS
  Owner,        \* lease ids (uuids); one per caller that may hold a lease
  RequestId,    \* bridge request ids, the key of a late page result
  NoRequest,    \* a quarantine without a request id (workflow, restored)
  Resource,     \* resource names, each the sequence of its path segments
  Scopes,       \* the resource sets callers ask for (tool_resources)
  Waits,        \* how long callers queue: LEASE_QUEUE_WAIT, or 0 to try once
  LateHistory,  \* LATE_HISTORY, the number of late results remembered
  TTL,          \* QUARANTINE_TTL_MS, in clock ticks
  MaxTime,      \* bound on the clock
  Free,         \* nobody is inside the mutex
  Listing,      \* list() or quarantined() is inside the mutex
  All           \* the host releases every quarantine

ASSUME ArbiterAssumption ==
  /\ Scopes \subseteq SUBSET Resource
  /\ Waits \subseteq Nat
  /\ LateHistory \in Nat \ {0}
  /\ TTL \in Nat \ {0}
  /\ MaxTime \in Nat
  /\ NoRequest \notin RequestId
  /\ Free \notin Owner /\ Listing \notin Owner /\ Free # Listing
  /\ All \notin Owner \cup RequestId

VARIABLES
  held,       \* owner -> entry, for the owners in the table
  late,       \* the remembered late results, oldest first
  stage,      \* where each caller is in acquire_within
  want,       \* the resources each caller asks for
  deadline,   \* when each caller stops queueing
  waiting,    \* callers whose `notified' future is enabled and not yet woken
  section,    \* who is between lock_current() and the end of its operation
  now,        \* the clock
  recovered   \* the journal's quarantines have been restored

callVars == <<stage, want, deadline>>
vars == <<held, late, callVars, waiting, section, now, recovered>>

-----------------------------------------------------------------------------
(* Types                                                                   *)

Key == RequestId \cup Owner
Entry == [resources: SUBSET Resource, quarantined: BOOLEAN,
          request: RequestId \cup {NoRequest}, since: 0..MaxTime]

(* Succeeded and FailedWithoutEffect are `known' (rank 2, they release a   *)
(* quarantine); Failed, Lost and Expired are not, and no operation tells   *)
(* them apart.                                                             *)
LateRecord == [key: Key, known: BOOLEAN, released: BOOLEAN]

Stage == {"idle", "trying", "parked", "leased"}

TypeOK ==
  /\ DOMAIN held \subseteq Owner
  /\ held \in [DOMAIN held -> Entry]
  /\ late \in Seq(LateRecord)
  /\ stage \in [Owner -> Stage]
  /\ want \in [Owner -> SUBSET Resource]
  /\ deadline \in [Owner -> Nat]
  /\ waiting \subseteq Owner
  /\ section \in Owner \cup {Free, Listing}
  /\ now \in 0..MaxTime
  /\ recovered \in BOOLEAN

-----------------------------------------------------------------------------
(* Operators                                                               *)

(* The caller leaves acquire_within: its locals and its notification end.  *)
Return(o, to) ==
  /\ stage' = [stage EXCEPT ![o] = to]
  /\ want' = [want EXCEPT ![o] = {}]
  /\ deadline' = [deadline EXCEPT ![o] = 0]
  /\ waiting' = waiting \ {o}
  /\ section' = Free

(* Mutant of Conflicts: a lease on a parent does not see its children.     *)
ConflictsIfHeldIsParent(a, b) == IsPrefix(b, a)

(* Equal names, or one a path prefix of the other.                         *)
Conflicts(a, b) == IsPrefix(a, b) \/ IsPrefix(b, a)

Clash(rs, ss) == \E a \in rs, b \in ss : Conflicts(a, b)

Blockers(rs) == {o \in DOMAIN held : Clash(rs, held[o].resources)}

(* Mutant of Expired: the TTL is applied to active leases as well.         *)
ExpiredHoldsForLeases(o) == now - held[o].since >= TTL

Expired(o) == held[o].quarantined /\ now - held[o].since >= TTL
ExpiredOwners == {o \in DOMAIN held : Expired(o)}

Without(S) == Restrict(held, DOMAIN held \ S)

(* The table with an entry put under o, as of now.                         *)
Put(o, rs, quarantined, req) ==
  [p \in DOMAIN held \cup {o} |->
     IF p = o THEN [resources |-> rs, quarantined |-> quarantined,
                    request |-> req, since |-> now]
              ELSE held[p]]

IsRecorded(key) == \E i \in DOMAIN late : late[i].key = key
IndexOf(key) == CHOOSE i \in DOMAIN late : late[i].key = key

(* Mutant of RecordLate: a repeated settlement adds a line of its own.     *)
RecordLateTwice(key, known, released) ==
  Append(IF Len(late) >= LateHistory THEN Tail(late) ELSE late,
         [key |-> key, known |-> known, released |-> released])

(* One entry per request, moved to the back when it is refreshed; a known  *)
(* outcome is never downgraded, a release never forgotten; the oldest      *)
(* entry makes room for a new one.                                         *)
RecordLate(key, known, released) ==
  IF IsRecorded(key)
  THEN LET i == IndexOf(key)
       IN  Append(SubSeq(late, 1, i - 1) \o SubSeq(late, i + 1, Len(late)),
                  [key |-> key, known |-> late[i].known \/ known,
                   released |-> late[i].released \/ released])
  ELSE Append(IF Len(late) >= LateHistory THEN Tail(late) ELSE late,
              [key |-> key, known |-> known, released |-> released])

SettledSafely(req) == \E i \in DOMAIN late : late[i].key = req /\ late[i].known

(* The requestId of the quarantine, or the lease id when it has none.      *)
LateKey(o) == IF held[o].request = NoRequest THEN o ELSE held[o].request

-----------------------------------------------------------------------------
(* acquire_within: enable the notification, try, and park until it fires   *)

(* Mutant of Request: a write does not wait for the recovery.              *)
RequestAtOnce(o, rs, wait) ==
  /\ stage[o] = "idle"
  /\ o \notin DOMAIN held
  /\ now + wait <= MaxTime
  /\ stage' = [stage EXCEPT ![o] = "trying"]
  /\ want' = [want EXCEPT ![o] = rs]
  /\ deadline' = [deadline EXCEPT ![o] = now + wait]
  /\ waiting' = waiting \cup {o}
  /\ UNCHANGED <<held, late, section, now, recovered>>

(* A write that claims anything waits for the journal's recovery first     *)
(* (acquire, recover_before_write).  wait = 0 is a plain try_acquire.      *)
(* The notification is enabled before the table is looked at.              *)
Request(o, rs, wait) ==
  /\ stage[o] = "idle"
  /\ o \notin DOMAIN held
  /\ rs # {} => recovered
  /\ now + wait <= MaxTime
  /\ stage' = [stage EXCEPT ![o] = "trying"]
  /\ want' = [want EXCEPT ![o] = rs]
  /\ deadline' = [deadline EXCEPT ![o] = now + wait]
  /\ waiting' = waiting \cup {o}
  /\ UNCHANGED <<held, late, section, now, recovered>>

EnterAcquire(o) ==
  /\ section = Free
  /\ stage[o] = "trying"
  /\ section' = o
  /\ UNCHANGED <<held, late, callVars, waiting, now, recovered>>

(* lock_current: every quarantine past its TTL is dropped and remembered   *)
(* as released; the waiters are notified.                                  *)
Sweep(o) ==
  /\ section # Free
  /\ o \in ExpiredOwners
  /\ held' = Without({o})
  /\ late' = RecordLate(LateKey(o), FALSE, TRUE)
  /\ waiting' = {}
  /\ UNCHANGED <<callVars, section, now, recovered>>

Grant(o) ==
  /\ section = o
  /\ ExpiredOwners = {}
  /\ Blockers(want[o]) = {}
  /\ held' = Put(o, want[o], FALSE, NoRequest)
  /\ Return(o, "leased")
  /\ UNCHANGED <<late, now, recovered>>

BlockedByQuarantine(o) == \E b \in Blockers(want[o]) : held[b].quarantined

(* A quarantined conflict, or one still there at the deadline, is          *)
(* reported.                                                               *)
Refuse(o) ==
  /\ section = o
  /\ ExpiredOwners = {}
  /\ Blockers(want[o]) # {}
  /\ BlockedByQuarantine(o) \/ now >= deadline[o]
  /\ Return(o, "idle")
  /\ UNCHANGED <<held, late, now, recovered>>

Park(o) ==
  /\ section = o
  /\ ExpiredOwners = {}
  /\ Blockers(want[o]) # {}
  /\ ~BlockedByQuarantine(o) /\ now < deadline[o]
  /\ stage' = [stage EXCEPT ![o] = "parked"]
  /\ section' = Free
  /\ UNCHANGED <<held, late, want, deadline, waiting, now, recovered>>

(* Mutant of Wake: the caller waits for a release without a timeout.       *)
WakeOnlyWhenNotified(o) ==
  /\ stage[o] = "parked"
  /\ o \notin waiting
  /\ stage' = [stage EXCEPT ![o] = "trying"]
  /\ waiting' = waiting \cup {o}
  /\ UNCHANGED <<held, late, want, deadline, section, now, recovered>>

(* Woken by a release or by the deadline, the loop enables a fresh         *)
(* notification and tries again.                                           *)
Wake(o) ==
  /\ stage[o] = "parked"
  /\ o \notin waiting \/ now >= deadline[o]
  /\ stage' = [stage EXCEPT ![o] = "trying"]
  /\ waiting' = waiting \cup {o}
  /\ UNCHANGED <<held, late, want, deadline, section, now, recovered>>

-----------------------------------------------------------------------------
(* The holder of a lease                                                   *)

(* Mutants of Quarantine: the late result that beat it is not looked at;   *)
(* the moment of expiry is stored instead of the moment of quarantine.     *)
QuarantineAlways(o, req) ==
  /\ section = Free
  /\ stage[o] = "leased"
  /\ o \in DOMAIN held
  /\ held' = Put(o, held[o].resources, TRUE, req)
  /\ UNCHANGED <<late, callVars, waiting, section, now, recovered>>

(* quarantine_request: a known late result that beat it is marked as       *)
(* having released the quarantine, which is not set.                       *)
Quarantine(o, req) ==
  /\ section = Free
  /\ stage[o] = "leased"
  /\ IF req # NoRequest /\ SettledSafely(req)
     THEN /\ late' = [late EXCEPT ![IndexOf(req)] =
                         [key |-> req, known |-> TRUE, released |-> TRUE]]
          /\ UNCHANGED held
     ELSE /\ held' = IF o \in DOMAIN held
                     THEN Put(o, held[o].resources, TRUE, req) ELSE held
          /\ UNCHANGED late
  /\ UNCHANGED <<callVars, waiting, section, now, recovered>>

(* Mutant of DropLease: nobody is told that the resources are free.        *)
DropLeaseSilently(o) ==
  /\ section = Free
  /\ stage[o] = "leased"
  /\ held' = IF o \in DOMAIN held /\ ~held[o].quarantined
             THEN Without({o}) ELSE held
  /\ stage' = [stage EXCEPT ![o] = "idle"]
  /\ UNCHANGED <<late, want, deadline, waiting, section, now, recovered>>

(* Drop for Lease: the entry goes unless it is quarantined.                *)
DropLease(o) ==
  LET ends == o \in DOMAIN held /\ ~held[o].quarantined IN
  /\ section = Free
  /\ stage[o] = "leased"
  /\ held' = IF ends THEN Without({o}) ELSE held
  /\ waiting' = IF ends THEN {} ELSE waiting
  /\ stage' = [stage EXCEPT ![o] = "idle"]
  /\ UNCHANGED <<late, want, deadline, section, now, recovered>>

-----------------------------------------------------------------------------
(* The bridge, the host, the journal and the clock                         *)

QuarantinedFor(req) ==
  {o \in DOMAIN held : held[o].quarantined /\ held[o].request = req}

(* settle_late: a known result lifts the quarantine of its request.        *)
SettleLate(req, known) ==
  LET release == known /\ QuarantinedFor(req) # {} IN
  /\ section = Free
  /\ held' = IF release THEN Without(QuarantinedFor(req)) ELSE held
  /\ late' = RecordLate(req, known, release)
  /\ waiting' = IF release THEN {} ELSE waiting
  /\ UNCHANGED <<callVars, section, now, recovered>>

Matches(o, target) == target = All \/ target = o \/ held[o].request = target

(* Mutant of Release: an active lease is released with the quarantines.    *)
ReleaseAnything(target) ==
  /\ section = Free
  /\ held' = Without({o \in DOMAIN held : Matches(o, target)})
  /\ waiting' = {}
  /\ UNCHANGED <<late, callVars, section, now, recovered>>

(* release: explicit host resolution, never of an active lease.            *)
Release(target) ==
  /\ section = Free
  /\ held' = Without({o \in DOMAIN held :
                        held[o].quarantined /\ Matches(o, target)})
  /\ waiting' = {}
  /\ UNCHANGED <<late, callVars, section, now, recovered>>

(* list() and quarantined() change the table only through the sweep.       *)
EnterList ==
  /\ section = Free
  /\ section' = Listing
  /\ UNCHANGED <<held, late, callVars, waiting, now, recovered>>

LeaveList ==
  /\ section = Listing
  /\ ExpiredOwners = {}
  /\ section' = Free
  /\ UNCHANGED <<held, late, callVars, waiting, now, recovered>>

(* restore_quarantine, for each run of the journal with an unknown effect; *)
(* it inserts without looking for conflicts.                               *)
Restore(o, rs) ==
  /\ section = Free
  /\ ~recovered
  /\ stage[o] = "idle" /\ o \notin DOMAIN held
  /\ held' = Put(o, rs, TRUE, NoRequest)
  /\ UNCHANGED <<late, callVars, waiting, section, now, recovered>>

RecoveryDone ==
  /\ ~recovered
  /\ recovered' = TRUE
  /\ UNCHANGED <<held, late, callVars, waiting, section, now>>

(* The operations inside the mutex read the clock once.                    *)
Tick ==
  /\ section = Free
  /\ now < MaxTime
  /\ now' = now + 1
  /\ UNCHANGED <<held, late, callVars, waiting, section, recovered>>

-----------------------------------------------------------------------------
Init ==
  /\ held = [o \in {} |-> 0]
  /\ late = <<>>
  /\ stage = [o \in Owner |-> "idle"]
  /\ want = [o \in Owner |-> {}]
  /\ deadline = [o \in Owner |-> 0]
  /\ waiting = {}
  /\ section = Free
  /\ now = 0
  /\ recovered = FALSE

Caller(o) ==
  \/ \E rs \in Scopes, wait \in Waits : Request(o, rs, wait)
  \/ EnterAcquire(o)
  \/ Grant(o)
  \/ Refuse(o)
  \/ Park(o)
  \/ Wake(o)
  \/ \E req \in RequestId \cup {NoRequest} : Quarantine(o, req)
  \/ DropLease(o)

Environment ==
  \/ \E req \in RequestId, known \in BOOLEAN : SettleLate(req, known)
  \/ \E target \in RequestId \cup Owner \cup {All} : Release(target)
  \/ EnterList
  \/ LeaveList
  \/ \E o \in Owner : Sweep(o)
  \/ \E o \in Owner, rs \in Scopes : Restore(o, rs)
  \/ RecoveryDone
  \/ Tick

Next == (\E o \in Owner : Caller(o)) \/ Environment

Spec == Init /\ [][Next]_vars

-----------------------------------------------------------------------------
(* Properties                                                              *)

(* Mutual exclusion.  Two entries of the table meet only when both are     *)
(* quarantined: no active lease ever shares a resource, a parent or a      *)
(* child with a lease or a quarantine of anybody else (try_acquire and     *)
(* restore_quarantine, which does not look for conflicts).                 *)
ActiveIsExclusive ==
  \A o, p \in DOMAIN held :
    o # p /\ Clash(held[o].resources, held[p].resources)
      => held[o].quarantined /\ held[p].quarantined

(* A late result and the quarantine it settles may come in either order:   *)
(* no quarantine stands for a request whose known result is remembered     *)
(* (settle_late against quarantine_request).                               *)
SettledNotQuarantined ==
  \A o \in DOMAIN held :
    held[o].quarantined /\ held[o].request # NoRequest
      => ~SettledSafely(held[o].request)

(* No lost wake-up: a caller that sleeps without a pending notification is *)
(* really blocked, whatever released what between its look at the table    *)
(* and its sleep (acquire_within).                                         *)
NoLostWakeup ==
  \A o \in Owner :
    stage[o] = "parked" /\ o \in waiting => Blockers(want[o]) # {}

(* The history keeps one entry per request and never outgrows its bound    *)
(* (record_late, whatever order settlements, sweeps and releases come in). *)
LateHistoryOK ==
  /\ Len(late) <= LateHistory
  /\ \A i, j \in DOMAIN late : late[i].key = late[j].key => i = j

(* An entry leaves the table only for its cause: an active lease because   *)
(* its holder dropped it; a quarantine because it outlived its TTL, because*)
(* its request turned out known, or because the host released it.          *)
HostRelease == \E target \in RequestId \cup Owner \cup {All} : Release(target)

LeftForCause(o) ==
  IF held[o].quarantined
  THEN \/ Expired(o)
       \/ \E i \in DOMAIN late' :
            late'[i].key = held[o].request /\ late'[i].known
       \/ HostRelease
  ELSE stage[o] = "leased" /\ stage'[o] = "idle"

IsolationEndsForCause ==
  [][\A o \in DOMAIN held \ DOMAIN held' : LeftForCause(o)]_vars

(* The comment on LEASE_QUEUE_WAIT: `A quarantine is never waited on'.     *)
(* Nobody sleeps, unnotified, on a conflict that has become a quarantine.  *)
NeverWaitsOnQuarantine ==
  \A o \in Owner :
    stage[o] = "parked" /\ o \in waiting => ~BlockedByQuarantine(o)

(* The arbiter implements the abstract isolation service.                  *)
Abstract == INSTANCE Isolation WITH
  claims <- [o \in DOMAIN held |-> [resources |-> held[o].resources,
                                    isolated |-> held[o].quarantined]],
  open <- recovered

ImplementsIsolation == Abstract!Spec

=============================================================================
