---------------------------- MODULE LeaseProofs ----------------------------
(***************************************************************************)
(* Theorems about the leases, for any set of callers, resources and        *)
(* requests, any hierarchy of resources, any TTL and any length of the     *)
(* history.  First ResourceArbiter: claims exclude each other, nobody      *)
(* sleeps on a free resource, no quarantine stands for a settled request,  *)
(* entries leave the table for a cause, and the arbiter implements the     *)
(* abstract Isolation.  Then CommandLeases: the scripts in the page are    *)
(* exclusive whatever the order of timeouts, late results, grants and      *)
(* disconnects.                                                            *)
(***************************************************************************)
EXTENDS CommandLeases, SequenceTheorems, TLAPS

-----------------------------------------------------------------------------
(* The inductive invariant                                                 *)

(* A caller inside acquire_within has nothing in the table yet, and if it  *)
(* asks for anything the journal's quarantines are already there.          *)
CallerOK ==
  \A o \in Owner :
    stage[o] \in {"trying", "parked"}
      => o \notin DOMAIN held /\ (want[o] # {} => recovered)

(* The caller inside the mutex is one that tries.                          *)
SectionOK == section \in Owner => stage[section] = "trying"

(* An active entry belongs to a live lease, and no active entry claims     *)
(* anything before the journal's quarantines have been restored.           *)
ActiveOK ==
  \A o \in DOMAIN held :
    ~held[o].quarantined
      => stage[o] = "leased" /\ (held[o].resources # {} => recovered)

IInv ==
  /\ TypeOK
  /\ CallerOK
  /\ SectionOK
  /\ ActiveOK
  /\ ActiveIsExclusive

-----------------------------------------------------------------------------
(* Lemmas on the operators                                                 *)

(* Taking owners away leaves the entries of the others (held.remove).      *)
LEMMA WithoutIs ==
  ASSUME NEW S
  PROVE  /\ DOMAIN Without(S) = DOMAIN held \ S
         /\ \A o \in DOMAIN held \ S : Without(S)[o] = held[o]
BY DEF Without, Restrict

(* Taking entries away keeps the type of the table.                        *)
LEMMA WithoutType ==
  ASSUME TypeOK, NEW S
  PROVE  /\ DOMAIN Without(S) \subseteq Owner
         /\ Without(S) \in [DOMAIN Without(S) -> Entry]
BY DEF Without, Restrict, TypeOK

(* Taking nobody away changes nothing (settle_late that lifts nothing).    *)
LEMMA WithoutNothing ==
  ASSUME NEW D, held \in [D -> Entry]
  PROVE  Without({}) = held
BY DEF Without, Restrict

(* Whether two sets of names conflict does not depend on the order         *)
(* (conflicts).                                                            *)
LEMMA ClashSymmetric ==
  ASSUME NEW rs, NEW ss
  PROVE  Clash(rs, ss) <=> Clash(ss, rs)
BY DEF Clash, Conflicts

(* A read, which claims nothing, conflicts with nothing (tool_resources).  *)
LEMMA EmptyMeetsNothing ==
  ASSUME NEW rs
  PROVE  ~Clash({}, rs) /\ ~Clash(rs, {})
BY DEF Clash

(* Replacing an element keeps a sequence a sequence.                       *)
LEMMA ExceptSeqType ==
  ASSUME NEW S, NEW seq \in Seq(S), NEW i \in 1..Len(seq), NEW x \in S
  PROVE  [seq EXCEPT ![i] = x] \in Seq(S)
<1>1. seq \in [1..Len(seq) -> S] /\ Len(seq) \in Nat
  OBVIOUS
<1>2. [seq EXCEPT ![i] = x] \in [1..Len(seq) -> S]
  BY <1>1
<1>3. QED
  BY <1>1, <1>2, SeqDef

(* IndexOf finds the entry of a recorded key.                              *)
LEMMA IndexOfIs ==
  ASSUME NEW key, IsRecorded(key)
  PROVE  IndexOf(key) \in DOMAIN late /\ late[IndexOf(key)].key = key
BY DEF IsRecorded, IndexOf

(* The history stays a sequence of records whatever is remembered.         *)
LEMMA RecordLateType ==
  ASSUME TypeOK, ArbiterAssumption,
         NEW key \in Key, NEW known \in BOOLEAN, NEW released \in BOOLEAN
  PROVE  RecordLate(key, known, released) \in Seq(LateRecord)
<1> DEFINE i == IndexOf(key)
<1> DEFINE new == [key |-> key, known |-> known, released |-> released]
<1> DEFINE merged == [key |-> key, known |-> late[i].known \/ known,
                      released |-> late[i].released \/ released]
<1>1. late \in Seq(LateRecord) /\ Len(late) \in Nat /\ DOMAIN late = 1..Len(late)
  BY DEF TypeOK
<1>2. CASE IsRecorded(key)
  <2>1. i \in 1..Len(late)
    BY <1>1, <1>2, IndexOfIs
  <2>2. merged \in LateRecord
    BY <1>1, <2>1 DEF LateRecord
  <2>3. SubSeq(late, 1, i - 1) \in Seq(LateRecord)
    BY <1>1, <2>1
  <2>4. SubSeq(late, i + 1, Len(late)) \in Seq(LateRecord)
    BY <1>1, <2>1
  <2>5. RecordLate(key, known, released)
          = Append(SubSeq(late, 1, i - 1) \o SubSeq(late, i + 1, Len(late)), merged)
    BY <1>2 DEF RecordLate
  <2> HIDE DEF i, merged
  <2>6. QED
    BY <2>2, <2>3, <2>4, <2>5
<1>3. CASE ~IsRecorded(key)
  <2>1. new \in LateRecord
    BY DEF LateRecord
  <2>2. (IF Len(late) >= LateHistory THEN Tail(late) ELSE late) \in Seq(LateRecord)
    BY <1>1 DEF ArbiterAssumption
  <2>3. RecordLate(key, known, released)
          = Append(IF Len(late) >= LateHistory THEN Tail(late) ELSE late, new)
    BY <1>3 DEF RecordLate
  <2> HIDE DEF new
  <2>4. QED
    BY <2>1, <2>2, <2>3
<1>4. QED
  BY <1>2, <1>3

-----------------------------------------------------------------------------
(* The initial state and every step                                        *)

(* Putting an entry leaves the others as they are.                         *)
LEMMA PutActive ==
  ASSUME TypeOK, NEW o \in Owner, NEW rs \in SUBSET Resource,
         NEW req \in RequestId \cup {NoRequest}, held' = Put(o, rs, FALSE, req)
  PROVE  /\ DOMAIN held' = DOMAIN held \cup {o}
         /\ \A p \in DOMAIN held : p # o => held'[p] = held[p]
         /\ held'[o].resources = rs
         /\ ~held'[o].quarantined
         /\ DOMAIN held' \subseteq Owner
         /\ held' \in [DOMAIN held' -> Entry]
BY DEF Put, TypeOK, Entry

(* The same for a quarantined entry.                                       *)
LEMMA PutQuarantined ==
  ASSUME TypeOK, NEW o \in Owner, NEW rs \in SUBSET Resource,
         NEW req \in RequestId \cup {NoRequest}, held' = Put(o, rs, TRUE, req)
  PROVE  /\ DOMAIN held' = DOMAIN held \cup {o}
         /\ \A p \in DOMAIN held : p # o => held'[p] = held[p]
         /\ held'[o].resources = rs
         /\ held'[o].quarantined
         /\ DOMAIN held' \subseteq Owner
         /\ held' \in [DOMAIN held' -> Entry]
BY DEF Put, TypeOK, Entry

(* The empty table of a new arbiter satisfies the invariant.               *)
LEMMA InitIInv == ASSUME ArbiterAssumption, Init PROVE IInv
<1>1. DOMAIN held = {} /\ held \in [DOMAIN held -> Entry]
  BY DEF Init
<1>2. late \in Seq(LateRecord)
  BY DEF Init
<1>3. TypeOK
  <2>1. /\ stage \in [Owner -> Stage] /\ want \in [Owner -> SUBSET Resource]
        /\ deadline \in [Owner -> Nat] /\ waiting \subseteq Owner
    BY DEF Init, Stage
  <2>2. section \in Owner \cup {Free, Listing} /\ recovered \in BOOLEAN
    BY DEF Init
  <2>3. now \in 0..MaxTime
    <3>1. now = 0
      BY DEF Init
    <3>2. QED
      BY <3>1 DEF ArbiterAssumption
  <2>4. QED
    BY <1>1, <1>2, <2>1, <2>2, <2>3 DEF TypeOK
<1>4. CallerOK /\ SectionOK
  BY DEF Init, CallerOK, SectionOK, ArbiterAssumption
<1>5. ActiveOK /\ ActiveIsExclusive
  BY <1>1 DEF ActiveOK, ActiveIsExclusive
<1>6. QED
  BY <1>3, <1>4, <1>5 DEF IInv

(* A step that only takes entries of the table that belong to no live      *)
(* caller, and leaves the callers alone, keeps the invariant.              *)
LEMMA RemovalKeepsIInv ==
  ASSUME IInv, NEW S, held' = Without(S),
         late' \in Seq(LateRecord), waiting' \subseteq Owner,
         section' \in {section, Free}, Free \notin Owner,
         UNCHANGED <<callVars, now, recovered>>
  PROVE  IInv'
<1>1. /\ DOMAIN held' \subseteq DOMAIN held
      /\ \A o \in DOMAIN held' : held'[o] = held[o]
  BY WithoutIs
<1>2. TypeOK'
  BY WithoutType DEF IInv, TypeOK, callVars
<1>3. CallerOK'
  BY <1>1 DEF IInv, CallerOK, callVars
<1>4. SectionOK'
  BY DEF IInv, SectionOK, callVars
<1>5. ActiveOK'
  BY <1>1 DEF IInv, ActiveOK, callVars
<1>6. ActiveIsExclusive'
  <2> SUFFICES ASSUME NEW o \in DOMAIN held', NEW p \in DOMAIN held', o # p,
                      Clash(held'[o].resources, held'[p].resources)
               PROVE  held'[o].quarantined /\ held'[p].quarantined
    BY DEF ActiveIsExclusive, Clash
  <2>1. QED
    BY <1>1 DEF IInv, ActiveIsExclusive
<1>7. QED
  BY <1>2, <1>3, <1>4, <1>5, <1>6 DEF IInv

(* A caller that starts to acquire keeps the invariant: it waits for the   *)
(* recovery if it asks for anything (acquire, recover_before_write).       *)
LEMMA RequestKeepsIInv ==
  ASSUME IInv, ArbiterAssumption,
         NEW o \in Owner, NEW rs \in Scopes, NEW wait \in Waits,
         Request(o, rs, wait)
  PROVE  IInv'
<1> USE DEF IInv, Request, callVars
<1>1. TypeOK'
  BY DEF TypeOK, ArbiterAssumption, Stage
<1>2. CallerOK'
  BY DEF CallerOK, TypeOK
<1>3. SectionOK'
  BY DEF SectionOK, TypeOK
<1>4. ActiveOK'
  BY DEF ActiveOK, TypeOK
<1>5. ActiveIsExclusive'
  BY DEF ActiveIsExclusive, Clash
<1>6. QED
  BY <1>1, <1>2, <1>3, <1>4, <1>5

(* A granted lease keeps the invariant: nobody it clashes with is in the   *)
(* table (try_acquire).                                                    *)
LEMMA GrantKeepsIInv ==
  ASSUME IInv, ArbiterAssumption, NEW o \in Owner, Grant(o)
  PROVE  IInv'
<1> USE DEF IInv, Grant, Return
<1>1. stage[o] = "trying" /\ o \notin DOMAIN held
      /\ (want[o] # {} => recovered)
  BY DEF SectionOK, CallerOK
<1>2. /\ DOMAIN held' = DOMAIN held \cup {o}
      /\ \A p \in DOMAIN held : held'[p] = held[p]
      /\ held'[o].resources = want[o] /\ ~held'[o].quarantined
      /\ held' \in [DOMAIN held' -> Entry]
  <2>1. want[o] \in SUBSET Resource
    BY DEF TypeOK
  <2>2. QED
    BY <1>1, <2>1, PutActive
<1>3. TypeOK'
  BY <1>2 DEF TypeOK, Stage
<1>4. CallerOK'
  BY <1>1, <1>2 DEF CallerOK, TypeOK
<1>5. SectionOK'
  BY DEF SectionOK, ArbiterAssumption
<1>6. ActiveOK'
  <2>1. stage'[o] = "leased" /\ \A p \in DOMAIN held : stage'[p] = stage[p]
    BY <1>1 DEF TypeOK
  <2>2. QED
    BY <1>1, <1>2, <2>1 DEF ActiveOK
<1>7. ActiveIsExclusive'
  <2>1. \A p \in DOMAIN held : /\ ~Clash(want[o], held[p].resources)
                                /\ ~Clash(held[p].resources, want[o])
    BY ClashSymmetric DEF Blockers
  <2> SUFFICES ASSUME NEW p \in DOMAIN held', NEW q \in DOMAIN held', p # q,
                      Clash(held'[p].resources, held'[q].resources)
               PROVE  held'[p].quarantined /\ held'[q].quarantined
    BY DEF ActiveIsExclusive, Clash
  <2>2. p # o /\ q # o
    BY <1>2, <2>1
  <2>3. QED
    BY <1>2, <2>2 DEF ActiveIsExclusive
<1>8. QED
  BY <1>3, <1>4, <1>5, <1>6, <1>7

(* A caller that moves between trying and parked.                          *)
LEMMA SectionKeepsIInv ==
  ASSUME IInv, ArbiterAssumption, NEW o \in Owner,
         stage[o] \in {"trying", "parked"} \/ section = o,
         NEW st \in {"trying", "parked"}, stage' = [stage EXCEPT ![o] = st],
         section' = Free \/ (section' = section /\ st = "trying"),
         waiting' \subseteq Owner,
         UNCHANGED <<held, late, want, deadline, now, recovered>>
  PROVE  IInv'
<1> USE DEF IInv
<1>1. stage[o] \in {"trying", "parked"}
  BY DEF SectionOK
<1>2. TypeOK'
  BY DEF TypeOK, Stage
<1>3. CallerOK'
  BY <1>1 DEF CallerOK, TypeOK
<1>4. SectionOK'
  BY DEF SectionOK, ArbiterAssumption, TypeOK
<1>5. ActiveOK'
  BY <1>1 DEF ActiveOK, TypeOK
<1>6. ActiveIsExclusive'
  BY DEF ActiveIsExclusive, Clash
<1>7. QED
  BY <1>2, <1>3, <1>4, <1>5, <1>6

(* A caller that gives up.                                                 *)
LEMMA ReturnKeepsIInv ==
  ASSUME IInv, ArbiterAssumption, NEW o \in Owner, section = o, Return(o, "idle"),
         UNCHANGED <<held, late, now, recovered>>
  PROVE  IInv'
<1> USE DEF IInv, Return
<1>1. stage[o] = "trying"
  BY DEF SectionOK
<1>2. TypeOK'
  BY DEF TypeOK, Stage
<1>3. CallerOK'
  BY <1>1 DEF CallerOK, TypeOK
<1>4. SectionOK'
  BY DEF SectionOK, ArbiterAssumption
<1>5. ActiveOK'
  BY <1>1 DEF ActiveOK, TypeOK
<1>6. ActiveIsExclusive'
  BY DEF ActiveIsExclusive, Clash
<1>7. QED
  BY <1>2, <1>3, <1>4, <1>5, <1>6

(* Quarantining a lease, or finding it already settled, keeps the          *)
(* invariant (quarantine_request).                                         *)
LEMMA QuarantineKeepsIInv ==
  ASSUME IInv, NEW o \in Owner, NEW req \in RequestId \cup {NoRequest},
         Quarantine(o, req)
  PROVE  IInv'
<1> USE DEF IInv, Quarantine, callVars
<1>1. CASE req # NoRequest /\ SettledSafely(req)
  <2>1. late \in Seq(LateRecord) /\ DOMAIN late = 1..Len(late)
        /\ Len(late) \in Nat
    BY DEF TypeOK
  <2>2. IndexOf(req) \in 1..Len(late)
    BY <1>1, <2>1, IndexOfIs DEF SettledSafely, IsRecorded
  <2>3. [key |-> req, known |-> TRUE, released |-> TRUE] \in LateRecord
    BY <1>1 DEF LateRecord, Key
  <2>4. late' = [late EXCEPT ![IndexOf(req)] =
                   [key |-> req, known |-> TRUE, released |-> TRUE]]
    BY <1>1
  <2>5. late' \in Seq(LateRecord)
    BY <2>1, <2>2, <2>3, <2>4, ExceptSeqType
  <2>6. QED
    BY <1>1, <2>5 DEF TypeOK, CallerOK, SectionOK, ActiveOK, ActiveIsExclusive, Clash
<1>2. CASE ~(req # NoRequest /\ SettledSafely(req)) /\ o \in DOMAIN held
  <2>1. /\ DOMAIN held' = DOMAIN held
        /\ \A p \in DOMAIN held : p # o => held'[p] = held[p]
        /\ held'[o].quarantined /\ held'[o].resources = held[o].resources
        /\ held' \in [DOMAIN held' -> Entry]
    <3>1. held[o].resources \in SUBSET Resource
      BY <1>2 DEF TypeOK, Entry
    <3>2. held' = Put(o, held[o].resources, TRUE, req)
      BY <1>2
    <3>3. QED
      BY <1>2, <3>1, <3>2, PutQuarantined
  <2>2. TypeOK'
    BY <1>2, <2>1 DEF TypeOK
  <2>3. CallerOK' /\ SectionOK'
    BY <2>1 DEF CallerOK, SectionOK
  <2>4. ActiveOK'
    BY <2>1 DEF ActiveOK
  <2>5. ActiveIsExclusive'
    <3> SUFFICES ASSUME NEW p \in DOMAIN held', NEW q \in DOMAIN held', p # q,
                        Clash(held'[p].resources, held'[q].resources)
                 PROVE  held'[p].quarantined /\ held'[q].quarantined
      BY DEF ActiveIsExclusive, Clash
    <3>1. held'[p].resources = held[p].resources
          /\ held'[q].resources = held[q].resources
      BY <2>1
    <3>2. held[p].quarantined /\ held[q].quarantined
      BY <2>1, <3>1 DEF ActiveIsExclusive
    <3>3. QED
      BY <2>1, <3>2
  <2>6. QED
    BY <2>2, <2>3, <2>4, <2>5
<1>3. CASE ~(req # NoRequest /\ SettledSafely(req)) /\ o \notin DOMAIN held
  BY <1>3 DEF TypeOK, CallerOK, SectionOK, ActiveOK, ActiveIsExclusive, Clash
<1>4. QED
  BY <1>1, <1>2, <1>3

(* Dropping a lease keeps the invariant, also when its entry has gone or   *)
(* is quarantined (Drop for Lease).                                        *)
LEMMA DropLeaseKeepsIInv ==
  ASSUME IInv, NEW o \in Owner, DropLease(o)
  PROVE  IInv'
<1> USE DEF IInv, DropLease
<1>1. /\ DOMAIN held' \subseteq DOMAIN held
      /\ \A p \in DOMAIN held' : held'[p] = held[p]
      /\ held' \in [DOMAIN held' -> Entry]
      /\ o \in DOMAIN held' => held[o].quarantined
  <2>1. CASE o \in DOMAIN held /\ ~held[o].quarantined
    <3>1. held' = Without({o})
      BY <2>1
    <3>2. /\ DOMAIN Without({o}) = DOMAIN held \ {o}
          /\ \A p \in DOMAIN held \ {o} : Without({o})[p] = held[p]
          /\ Without({o}) \in [DOMAIN Without({o}) -> Entry]
      BY WithoutIs, WithoutType
    <3>3. QED
      BY <3>1, <3>2
  <2>2. CASE ~(o \in DOMAIN held /\ ~held[o].quarantined)
    BY <2>2 DEF TypeOK
  <2>3. QED
    BY <2>1, <2>2
<1>2. waiting' \subseteq Owner
  BY DEF TypeOK
<1>3. TypeOK'
  BY <1>1, <1>2 DEF TypeOK, Stage
<1>4. CallerOK'
  BY <1>1 DEF CallerOK, TypeOK
<1>5. SectionOK'
  BY DEF SectionOK, TypeOK
<1>6. ActiveOK'
  BY <1>1 DEF ActiveOK, TypeOK
<1>7. ActiveIsExclusive'
  <2> SUFFICES ASSUME NEW p \in DOMAIN held', NEW q \in DOMAIN held', p # q,
                      Clash(held'[p].resources, held'[q].resources)
               PROVE  held'[p].quarantined /\ held'[q].quarantined
    BY DEF ActiveIsExclusive, Clash
  <2>1. QED
    BY <1>1 DEF ActiveIsExclusive
<1>8. QED
  BY <1>3, <1>4, <1>5, <1>6, <1>7

(* A restored quarantine keeps the invariant although it is inserted       *)
(* without looking for conflicts: no active lease claims anything before   *)
(* the recovery ends (restore_quarantine).                                 *)
LEMMA RestoreKeepsIInv ==
  ASSUME IInv, ArbiterAssumption, NEW o \in Owner, NEW rs \in Scopes,
         Restore(o, rs)
  PROVE  IInv'
<1> USE DEF IInv, Restore, callVars
<1>1. /\ DOMAIN held' = DOMAIN held \cup {o}
      /\ \A p \in DOMAIN held : held'[p] = held[p]
      /\ held'[o].quarantined
      /\ held' \in [DOMAIN held' -> Entry]
  <2>1. rs \in SUBSET Resource
    BY DEF ArbiterAssumption
  <2>2. QED
    BY <2>1, PutQuarantined
<1>2. TypeOK'
  BY <1>1 DEF TypeOK
<1>3. CallerOK' /\ SectionOK' /\ ActiveOK'
  BY <1>1 DEF CallerOK, SectionOK, ActiveOK
<1>4. \A p \in DOMAIN held : held[p].quarantined \/ held[p].resources = {}
  BY DEF ActiveOK
<1>5. ActiveIsExclusive'
  <2> SUFFICES ASSUME NEW p \in DOMAIN held', NEW q \in DOMAIN held', p # q,
                      Clash(held'[p].resources, held'[q].resources)
               PROVE  held'[p].quarantined /\ held'[q].quarantined
    BY DEF ActiveIsExclusive, Clash
  <2>1. held'[p].resources # {} /\ held'[q].resources # {}
    BY EmptyMeetsNothing
  <2>2. QED
    BY <1>1, <1>4, <2>1
<1>6. QED
  BY <1>2, <1>3, <1>5

(* Every step of the specification.                                        *)
LEMMA NextIInv ==
  ASSUME ArbiterAssumption, IInv, [Next]_vars
  PROVE  IInv'
<1>1. CASE UNCHANGED vars
  BY <1>1 DEF vars, callVars, IInv, TypeOK, CallerOK, SectionOK, ActiveOK,
              ActiveIsExclusive, Clash
<1>2. ASSUME NEW o \in Owner, Caller(o) PROVE IInv'
  <2>1. CASE \E rs \in Scopes, wait \in Waits : Request(o, rs, wait)
    BY <2>1, RequestKeepsIInv
  <2>2. CASE EnterAcquire(o)
    BY <2>2 DEF EnterAcquire, callVars, IInv, TypeOK, CallerOK, SectionOK,
                ActiveOK, ActiveIsExclusive, Clash
  <2>3. CASE Grant(o)
    BY <2>3, GrantKeepsIInv
  <2>4. CASE Refuse(o)
    BY <2>4, ReturnKeepsIInv DEF Refuse
  <2>5. CASE Park(o)
    <3>1. waiting' \subseteq Owner
      BY <2>5 DEF Park, IInv, TypeOK
    <3>2. "parked" \in {"trying", "parked"}
      OBVIOUS
    <3>3. QED
      BY <2>5, <3>1, <3>2, SectionKeepsIInv DEF Park
  <2>6. CASE Wake(o)
    <3>1. waiting' \subseteq Owner
      BY <2>6 DEF Wake, IInv, TypeOK
    <3>2. "trying" \in {"trying", "parked"}
      OBVIOUS
    <3>3. stage[o] \in {"trying", "parked"}
      BY <2>6 DEF Wake
    <3>4. QED
      BY <2>6, <3>1, <3>2, <3>3, SectionKeepsIInv DEF Wake
  <2>7. CASE \E req \in RequestId \cup {NoRequest} : Quarantine(o, req)
    BY <2>7, QuarantineKeepsIInv
  <2>8. CASE DropLease(o)
    BY <2>8, DropLeaseKeepsIInv
  <2>9. QED
    BY <1>2, <2>1, <2>2, <2>3, <2>4, <2>5, <2>6, <2>7, <2>8 DEF Caller
<1>3. CASE Environment
  <2>1. ASSUME NEW req \in RequestId, NEW known \in BOOLEAN, SettleLate(req, known)
        PROVE  IInv'
    <3> DEFINE lifts == known /\ QuarantinedFor(req) # {}
    <3>1. late' \in Seq(LateRecord)
      <4>1. lifts \in BOOLEAN /\ req \in Key
        BY DEF Key
      <4>2. late' = RecordLate(req, known, lifts)
        BY <2>1 DEF SettleLate
      <4> HIDE DEF lifts
      <4>3. QED
        BY <4>1, <4>2, RecordLateType DEF IInv
    <3>2. waiting' \subseteq Owner
      BY <2>1 DEF SettleLate, IInv, TypeOK
    <3>3. held' = Without(IF lifts THEN QuarantinedFor(req) ELSE {})
      BY <2>1, WithoutNothing DEF SettleLate, IInv, TypeOK
    <3>4. QED
      BY <2>1, <3>1, <3>2, <3>3, RemovalKeepsIInv
         DEF SettleLate, ArbiterAssumption
  <2>2. ASSUME NEW target \in RequestId \cup Owner \cup {All}, Release(target)
        PROVE  IInv'
    <3>1. late' \in Seq(LateRecord) /\ waiting' \subseteq Owner
      BY <2>2 DEF Release, IInv, TypeOK
    <3>2. QED
      BY <2>2, <3>1, RemovalKeepsIInv DEF Release, ArbiterAssumption
  <2>3. CASE EnterList \/ LeaveList \/ RecoveryDone
    BY <2>3 DEF EnterList, LeaveList, RecoveryDone, callVars, IInv, TypeOK, CallerOK,
                SectionOK, ActiveOK, ActiveIsExclusive, Clash, ArbiterAssumption
  <2>4. ASSUME NEW o \in Owner, Sweep(o) PROVE IInv'
    <3>1. LateKey(o) \in Key
      BY <2>4 DEF Sweep, ExpiredOwners, LateKey, Key, IInv, TypeOK, Entry
    <3>2. late' \in Seq(LateRecord)
      BY <2>4, <3>1, RecordLateType DEF Sweep, IInv
    <3>3. QED
      BY <2>4, <3>2, RemovalKeepsIInv DEF Sweep, ArbiterAssumption
  <2>5. CASE \E o \in Owner, rs \in Scopes : Restore(o, rs)
    BY <2>5, RestoreKeepsIInv
  <2>6. CASE Tick
    BY <2>6 DEF Tick, callVars, IInv, TypeOK, CallerOK, SectionOK, ActiveOK,
                ActiveIsExclusive, Clash, ArbiterAssumption
  <2>7. QED
    BY <1>3, <2>1, <2>2, <2>3, <2>4, <2>5, <2>6 DEF Environment
<1>4. QED
  BY <1>1, <1>2, <1>3 DEF Next

-----------------------------------------------------------------------------
(* The theorems                                                            *)

(* The inductive invariant holds in every reachable state of the arbiter,  *)
(* for any number of callers, requests and resources and any TTL.          *)
THEOREM Invariance == Spec => []IInv
<1>1. Init => IInv
  BY InitIInv, ArbiterAssumption
<1>2. IInv /\ [Next]_vars => IInv'
  BY NextIInv, ArbiterAssumption
<1>3. QED
  BY <1>1, <1>2, PTL DEF Spec

(* Every variable keeps its type, whatever the callers, the bridge, the    *)
(* host and the clock do.                                                  *)
THEOREM TypeCorrect == Spec => []TypeOK
<1>1. IInv => TypeOK
  BY DEF IInv
<1>2. QED
  BY <1>1, Invariance, PTL

(* Mutual exclusion of the leases for any number of callers and any        *)
(* hierarchy of resources (try_acquire, restore_quarantine).               *)
THEOREM MutualExclusion == Spec => []ActiveIsExclusive
<1>1. IInv => ActiveIsExclusive
  BY DEF IInv
<1>2. QED
  BY <1>1, Invariance, PTL

-----------------------------------------------------------------------------
(* What a step does to the table                                           *)

(* The entries of the table that matter to somebody who waits.             *)
SameClaims ==
  /\ DOMAIN held \subseteq DOMAIN held'
  /\ \A o \in DOMAIN held : held'[o].resources = held[o].resources

(* A granted lease, a quarantine and a restored entry leave the claims of  *)
(* the others as they are (Grant, Quarantine, Restore).                    *)
LEMMA PutKeepsClaims ==
  ASSUME TypeOK, NEW o \in Owner, NEW rs \in SUBSET Resource, NEW q \in BOOLEAN,
         NEW req \in RequestId \cup {NoRequest}, held' = Put(o, rs, q, req),
         o \in DOMAIN held => rs = held[o].resources
  PROVE  SameClaims
BY DEF Put, SameClaims

(* Nobody newly sleeps, and whoever slept still has what blocked it.       *)
LEMMA SleepersStayBlocked ==
  ASSUME NoLostWakeup, SameClaims,
         \A o \in Owner : stage'[o] = "parked" /\ o \in waiting' =>
           /\ want'[o] = want[o]
           /\ \/ stage[o] = "parked" /\ o \in waiting
              \/ Blockers(want[o]) # {}
  PROVE  NoLostWakeup'
<1> SUFFICES ASSUME NEW o \in Owner, stage'[o] = "parked", o \in waiting'
             PROVE  \E b \in DOMAIN held' : Clash(want'[o], held'[b].resources)
  BY DEF NoLostWakeup, Blockers, Clash, Conflicts
<1>1. Blockers(want[o]) # {} /\ want'[o] = want[o]
  BY DEF NoLostWakeup
<1>2. PICK b \in DOMAIN held : Clash(want[o], held[b].resources)
  BY <1>1 DEF Blockers
<1>3. b \in DOMAIN held' /\ held'[b].resources = held[b].resources
  BY DEF SameClaims
<1>4. QED
  BY <1>1, <1>2, <1>3

(* Whoever sleeps was told, or is blocked: one step (acquire_within).      *)
LEMMA NextNoLostWakeup ==
  ASSUME ArbiterAssumption, IInv, NoLostWakeup, [Next]_vars
  PROVE  NoLostWakeup'
<1> USE DEF IInv
<1>0. ASSUME waiting' = {} PROVE NoLostWakeup'
  BY <1>0 DEF NoLostWakeup
<1>1. ASSUME UNCHANGED held PROVE SameClaims
  BY <1>1 DEF SameClaims
<1>2. ASSUME UNCHANGED <<held, stage, want, waiting>> PROVE NoLostWakeup'
  BY <1>1, <1>2, SleepersStayBlocked
<1>3. ASSUME NEW o \in Owner, Caller(o) PROVE NoLostWakeup'
  <2>1. ASSUME NEW rs \in Scopes, NEW wait \in Waits, Request(o, rs, wait)
        PROVE  NoLostWakeup'
    BY <1>1, <2>1, SleepersStayBlocked DEF Request, TypeOK
  <2>2. CASE EnterAcquire(o)
    BY <1>2, <2>2 DEF EnterAcquire, callVars
  <2>3. CASE Grant(o)
    <3>1. o \notin DOMAIN held /\ want[o] \in SUBSET Resource
      BY <2>3 DEF Grant, SectionOK, CallerOK, TypeOK
    <3>2. SameClaims
      BY <2>3, <3>1, PutKeepsClaims DEF Grant
    <3>3. QED
      BY <2>3, <3>2, SleepersStayBlocked DEF Grant, Return, TypeOK
  <2>4. CASE Refuse(o)
    BY <1>1, <2>4, SleepersStayBlocked DEF Refuse, Return, TypeOK
  <2>5. CASE Park(o)
    BY <1>1, <2>5, SleepersStayBlocked DEF Park, TypeOK
  <2>6. CASE Wake(o)
    BY <1>1, <2>6, SleepersStayBlocked DEF Wake, TypeOK
  <2>7. ASSUME NEW req \in RequestId \cup {NoRequest}, Quarantine(o, req)
        PROVE  NoLostWakeup'
    <3>1. SameClaims
      <4>1. CASE UNCHANGED held
        BY <1>1, <4>1
      <4>2. CASE o \in DOMAIN held /\ held' = Put(o, held[o].resources, TRUE, req)
        <5>1. held[o].resources \in SUBSET Resource
          BY <4>2 DEF TypeOK, Entry
        <5>2. QED
          BY <4>2, <5>1, PutKeepsClaims
      <4>3. QED
        BY <2>7, <4>1, <4>2 DEF Quarantine
    <3>2. QED
      BY <2>7, <3>1, SleepersStayBlocked DEF Quarantine, callVars
  <2>8. CASE DropLease(o)
    <3>1. waiting' = {} \/ UNCHANGED <<held, waiting>>
      BY <2>8 DEF DropLease
    <3>2. QED
      BY <1>0, <1>1, <2>8, <3>1, SleepersStayBlocked DEF DropLease, TypeOK
  <2>9. QED
    BY <1>3, <2>1, <2>2, <2>3, <2>4, <2>5, <2>6, <2>7, <2>8 DEF Caller
<1>4. CASE Environment
  <2>1. ASSUME NEW req \in RequestId, NEW known \in BOOLEAN, SettleLate(req, known)
        PROVE  NoLostWakeup'
    BY <1>0, <1>2, <2>1 DEF SettleLate, callVars
  <2>2. ASSUME NEW target \in RequestId \cup Owner \cup {All}, Release(target)
        PROVE  NoLostWakeup'
    BY <1>0, <2>2 DEF Release
  <2>3. CASE EnterList \/ LeaveList \/ RecoveryDone \/ Tick
    BY <1>2, <2>3 DEF EnterList, LeaveList, RecoveryDone, Tick, callVars
  <2>4. ASSUME NEW o \in Owner, Sweep(o) PROVE NoLostWakeup'
    BY <1>0, <2>4 DEF Sweep
  <2>5. ASSUME NEW o \in Owner, NEW rs \in Scopes, Restore(o, rs)
        PROVE  NoLostWakeup'
    <3>1. SameClaims
      BY <2>5, PutKeepsClaims DEF Restore, ArbiterAssumption
    <3>2. QED
      BY <2>5, <3>1, SleepersStayBlocked DEF Restore, callVars
  <2>6. QED
    BY <1>4, <2>1, <2>2, <2>3, <2>4, <2>5 DEF Environment
<1>5. CASE UNCHANGED vars
  BY <1>2, <1>5 DEF vars, callVars
<1>6. QED
  BY <1>3, <1>4, <1>5 DEF Next

(* A caller that sleeps without a notification of its own is blocked, for  *)
(* any number of callers, resources and requests (acquire_within).         *)
THEOREM NoWakeupIsLost == Spec => []NoLostWakeup
<1>1. Init => NoLostWakeup
  BY DEF Init, NoLostWakeup
<1>2. IInv /\ NoLostWakeup /\ [Next]_vars => NoLostWakeup'
  BY NextNoLostWakeup, ArbiterAssumption
<1>3. QED
  BY <1>1, <1>2, Invariance, PTL DEF Spec

-----------------------------------------------------------------------------
(* What the history remembers                                              *)

(* The history without the entry of a key, or with room for it.            *)
Rest(key) ==
  IF IsRecorded(key)
  THEN SubSeq(late, 1, IndexOf(key) - 1) \o SubSeq(late, IndexOf(key) + 1, Len(late))
  ELSE IF Len(late) >= LateHistory THEN Tail(late) ELSE late

(* The rest are entries of the history, each once, and not the key's own;  *)
(* with one more they still fit (record_late).                             *)
LEMMA RestIs ==
  ASSUME TypeOK, ArbiterAssumption, NEW key \in Key, NEW old, old = Rest(key)
  PROVE  /\ old \in Seq(LateRecord)
         /\ Len(late) <= LateHistory => Len(old) < LateHistory
         /\ \E f \in [1..Len(old) -> 1..Len(late)] :
              /\ \A j \in 1..Len(old) : old[j] = late[f[j]]
              /\ \A j, k \in 1..Len(old) : f[j] = f[k] => j = k
              /\ IsRecorded(key) => \A j \in 1..Len(old) : f[j] # IndexOf(key)
<1>1. late \in Seq(LateRecord) /\ Len(late) \in Nat /\ DOMAIN late = 1..Len(late)
  BY DEF TypeOK
<1>2. CASE IsRecorded(key)
  <2> DEFINE i == IndexOf(key)
  <2> DEFINE front == SubSeq(late, 1, i - 1)
  <2> DEFINE back == SubSeq(late, i + 1, Len(late))
  <2> DEFINE f == [j \in 1..Len(old) |-> IF j < i THEN j ELSE j + 1]
  <2>0. i \in 1..Len(late) /\ old = front \o back
    BY <1>1, <1>2, IndexOfIs DEF Rest
  <2> HIDE DEF i
  <2>1. /\ front \in Seq(LateRecord) /\ Len(front) = i - 1
        /\ \A j \in 1..(i - 1) : front[j] = late[j]
    BY <1>1, <2>0
  <2>2. /\ back \in Seq(LateRecord) /\ Len(back) = Len(late) - i
        /\ \A j \in 1..(Len(late) - i) : back[j] = late[i + j]
    <3>1. i + 1 \in Int /\ Len(late) \in Int /\ i \in 1..Len(late)
      BY <1>1, <2>0
    <3>2. \A j \in (i + 1)..Len(late) : late[j] \in LateRecord
      BY <1>1, <3>1
    <3>3. /\ back \in Seq(LateRecord)
          /\ Len(back) = IF i + 1 <= Len(late) THEN Len(late) - (i + 1) + 1 ELSE 0
          /\ \A j \in 1..(Len(late) - (i + 1) + 1) : back[j] = late[i + 1 + j - 1]
      BY <3>1, <3>2, SubSeqProperties
    <3> HIDE DEF back
    <3>4. Len(late) - (i + 1) + 1 = Len(late) - i
      BY <3>1
    <3>5. \A j \in 1..(Len(late) - i) : i + 1 + j - 1 = i + j
      BY <3>1
    <3>6. Len(back) = Len(late) - i
      <4>1. Len(back) = IF i + 1 <= Len(late) THEN Len(late) - (i + 1) + 1 ELSE 0
        BY <3>3
      <4>2. Len(late) \in Int /\ i \in Int /\ i <= Len(late)
        BY <3>1
      <4>3. QED
        BY <4>1, <4>2
    <3>7. \A j \in 1..(Len(late) - i) : back[j] = late[i + 1 + j - 1]
      BY <3>3, <3>4
    <3>8. QED
      BY <3>3, <3>5, <3>6, <3>7
  <2> HIDE DEF front, back
  <2>3. /\ old \in Seq(LateRecord)
        /\ Len(old) = Len(front) + Len(back)
        /\ \A j \in 1..Len(old) :
             old[j] = IF j <= Len(front) THEN front[j] ELSE back[j - Len(front)]
    <3>1. /\ front \o back \in Seq(LateRecord)
          /\ Len(front \o back) = Len(front) + Len(back)
          /\ \A j \in 1..(Len(front) + Len(back)) :
               (front \o back)[j] = IF j <= Len(front) THEN front[j]
                                                       ELSE back[j - Len(front)]
      BY <2>1, <2>2, ConcatProperties
    <3>2. QED
      BY <2>0, <3>1
  <2>4. Len(old) = Len(late) - 1
    BY <1>1, <2>0, <2>1, <2>2, <2>3
  <2>5. ASSUME NEW j \in 1..Len(old)
        PROVE  f[j] \in 1..Len(late) /\ f[j] # i /\ old[j] = late[f[j]]
    <3>1. CASE j < i
      BY <1>1, <2>0, <2>1, <2>3, <2>4, <3>1
    <3>2. CASE j >= i
      <4>1. j - Len(front) \in 1..(Len(late) - i) /\ ~(j <= Len(front))
        BY <1>1, <2>0, <2>1, <2>4, <3>2
      <4>2. old[j] = late[i + (j - Len(front))]
        BY <2>2, <2>3, <4>1
      <4>3. i + (j - Len(front)) = j + 1 /\ f[j] = j + 1
        BY <1>1, <2>0, <2>1, <2>4, <3>2
      <4>4. j + 1 \in 1..Len(late) /\ j + 1 # i
        BY <1>1, <2>0, <2>4, <3>2
      <4>5. QED
        BY <4>2, <4>3, <4>4
    <3>3. QED
      BY <1>1, <2>0, <2>4, <3>1, <3>2
  <2>6. \A j, k \in 1..Len(old) : f[j] = f[k] => j = k
    BY <1>1, <2>0, <2>4
  <2>7. f \in [1..Len(old) -> 1..Len(late)]
    BY <2>5
  <2>8. Len(late) <= LateHistory => Len(old) < LateHistory
    BY <1>1, <2>4 DEF ArbiterAssumption
  <2>9. \A j \in 1..Len(old) : f[j] # IndexOf(key)
    BY <2>5 DEF i
  <2> HIDE DEF f
  <2>10. QED
    BY <2>3, <2>5, <2>6, <2>7, <2>8, <2>9
<1>3. CASE ~IsRecorded(key) /\ Len(late) >= LateHistory
  <2> DEFINE f == [j \in 1..Len(old) |-> j + 1]
  <2>1. late # <<>> /\ old = Tail(late)
    BY <1>1, <1>3 DEF ArbiterAssumption, Rest
  <2>2. /\ old \in Seq(LateRecord) /\ Len(old) = Len(late) - 1
        /\ \A j \in 1..Len(old) : old[j] = late[j + 1]
    BY <1>1, <2>1
  <2>3. f \in [1..Len(old) -> 1..Len(late)]
    BY <1>1, <2>2
  <2>4. /\ \A j \in 1..Len(old) : old[j] = late[f[j]]
        /\ \A j, k \in 1..Len(old) : f[j] = f[k] => j = k
    BY <1>1, <2>2
  <2>5. Len(late) <= LateHistory => Len(old) < LateHistory
    BY <1>1, <2>2 DEF ArbiterAssumption
  <2> HIDE DEF f
  <2>6. QED
    BY <1>3, <2>2, <2>3, <2>4, <2>5
<1>4. CASE ~IsRecorded(key) /\ ~(Len(late) >= LateHistory)
  <2> DEFINE f == [j \in 1..Len(old) |-> j]
  <2>1. old = late
    BY <1>4 DEF Rest
  <2>2. f \in [1..Len(old) -> 1..Len(late)]
    BY <1>1, <2>1
  <2>3. /\ \A j \in 1..Len(old) : old[j] = late[f[j]]
        /\ \A j, k \in 1..Len(old) : f[j] = f[k] => j = k
    BY <2>1
  <2>4. Len(old) < LateHistory
    BY <1>1, <1>4, <2>1 DEF ArbiterAssumption
  <2> HIDE DEF f
  <2>5. QED
    BY <1>1, <1>4, <2>1, <2>2, <2>3, <2>4
<1>5. QED
  BY <1>2, <1>3, <1>4

(* The new history is the rest with the key's entry behind it, known if    *)
(* it is known now or was before.                                          *)
LEMMA RecordLateIs ==
  ASSUME TypeOK, ArbiterAssumption,
         NEW key \in Key, NEW known \in BOOLEAN, NEW released \in BOOLEAN,
         NEW h, h = RecordLate(key, known, released),
         NEW old, old = Rest(key)
  PROVE  /\ Len(old) \in Nat
         /\ DOMAIN h = 1..(Len(old) + 1) /\ Len(h) = Len(old) + 1
         /\ \A j \in 1..Len(old) : h[j] = old[j]
         /\ h[Len(old) + 1].key = key
         /\ h[Len(old) + 1].known => known \/ SettledSafely(key)
         /\ known => h[Len(old) + 1].known
<1> DEFINE last == [key |-> key,
                    known |-> IF IsRecorded(key)
                              THEN late[IndexOf(key)].known \/ known ELSE known,
                    released |-> IF IsRecorded(key)
                                 THEN late[IndexOf(key)].released \/ released
                                 ELSE released]
<1>1. h = Append(old, last)
  BY DEF RecordLate, Rest
<1>2. last.key = key /\ (last.known => known \/ SettledSafely(key))
                     /\ (known => last.known)
  BY IndexOfIs DEF SettledSafely
<1> HIDE DEF last
<1>3. old \in Seq(LateRecord)
  BY RestIs
<1>4. QED
  BY <1>1, <1>2, <1>3

(* An outcome is known in the new history only if it was known in the old  *)
(* one or is the one recorded now, which is there (record_late).           *)
LEMMA RecordLateKnows ==
  ASSUME TypeOK, ArbiterAssumption,
         NEW key \in Key, NEW known \in BOOLEAN, NEW released \in BOOLEAN,
         NEW h, h = RecordLate(key, known, released)
  PROVE  /\ \A j \in DOMAIN h :
              h[j].known => SettledSafely(h[j].key) \/ (known /\ h[j].key = key)
         /\ \E j \in DOMAIN h : h[j].key = key /\ (known => h[j].known)
<1>1. PICK old : old = Rest(key)
  OBVIOUS
<1>2. /\ Len(old) \in Nat
      /\ DOMAIN h = 1..(Len(old) + 1)
      /\ \A j \in 1..Len(old) : h[j] = old[j]
      /\ h[Len(old) + 1].key = key
      /\ h[Len(old) + 1].known => known \/ SettledSafely(key)
      /\ known => h[Len(old) + 1].known
  BY <1>1, RecordLateIs
<1>3. \A j \in 1..Len(old) : \E k \in DOMAIN late : old[j] = late[k]
  <2>1. DOMAIN late = 1..Len(late)
    BY DEF TypeOK
  <2>2. PICK f \in [1..Len(old) -> 1..Len(late)] :
          \A j \in 1..Len(old) : old[j] = late[f[j]]
    BY <1>1, RestIs
  <2>3. QED
    BY <2>1, <2>2
<1>4. ASSUME NEW j \in DOMAIN h, h[j].known
      PROVE  SettledSafely(h[j].key) \/ (known /\ h[j].key = key)
  <2>1. CASE j = Len(old) + 1
    BY <1>2, <1>4, <2>1
  <2>2. CASE j \in 1..Len(old)
    BY <1>2, <1>3, <1>4, <2>2 DEF SettledSafely
  <2>3. QED
    BY <1>2, <2>1, <2>2
<1>5. Len(old) + 1 \in DOMAIN h
  BY <1>2
<1>6. QED
  BY <1>2, <1>4, <1>5

(* Recording keeps the history within its bound and its keys distinct.     *)
LEMMA RecordLateKeeps ==
  ASSUME TypeOK, ArbiterAssumption, LateHistoryOK,
         NEW key \in Key, NEW known \in BOOLEAN, NEW released \in BOOLEAN,
         NEW h, h = RecordLate(key, known, released)
  PROVE  /\ Len(h) <= LateHistory
         /\ \A i, j \in DOMAIN h : h[i].key = h[j].key => i = j
<1>1. PICK old : old = Rest(key)
  OBVIOUS
<1>2. late \in Seq(LateRecord) /\ Len(late) \in Nat /\ DOMAIN late = 1..Len(late)
  BY DEF TypeOK
<1>3. /\ Len(old) \in Nat
      /\ DOMAIN h = 1..(Len(old) + 1) /\ Len(h) = Len(old) + 1
      /\ \A j \in 1..Len(old) : h[j] = old[j]
      /\ h[Len(old) + 1].key = key
  BY <1>1, RecordLateIs
<1>4. Len(old) < LateHistory
  BY <1>1, RestIs DEF LateHistoryOK
<1>5. PICK f \in [1..Len(old) -> 1..Len(late)] :
        /\ \A j \in 1..Len(old) : old[j] = late[f[j]]
        /\ \A j, k \in 1..Len(old) : f[j] = f[k] => j = k
        /\ IsRecorded(key) => \A j \in 1..Len(old) : f[j] # IndexOf(key)
  BY <1>1, RestIs
<1>6. \A j \in 1..Len(old) : old[j].key # key
  <2> SUFFICES ASSUME NEW j \in 1..Len(old), old[j].key = key PROVE FALSE
    OBVIOUS
  <2>1. f[j] \in DOMAIN late /\ late[f[j]].key = key
    BY <1>2, <1>5
  <2>2. IndexOf(key) \in DOMAIN late /\ late[IndexOf(key)].key = key
    BY <2>1, IndexOfIs DEF IsRecorded
  <2>3. f[j] = IndexOf(key)
    BY <2>1, <2>2 DEF LateHistoryOK
  <2>4. IsRecorded(key)
    BY <2>1 DEF IsRecorded
  <2>5. QED
    BY <1>5, <2>3, <2>4
<1>7. \A j, k \in 1..Len(old) : old[j].key = old[k].key => j = k
  BY <1>2, <1>5 DEF LateHistoryOK
<1>8. Len(h) <= LateHistory
  BY <1>3, <1>4 DEF ArbiterAssumption
<1>9. ASSUME NEW j \in DOMAIN h, NEW k \in DOMAIN h, h[j].key = h[k].key
      PROVE  j = k
  <2>1. CASE j \in 1..Len(old) /\ k \in 1..Len(old)
    BY <1>3, <1>7, <1>9, <2>1
  <2>2. CASE j \in 1..Len(old) /\ k = Len(old) + 1
    BY <1>3, <1>6, <1>9, <2>2
  <2>3. CASE j = Len(old) + 1 /\ k \in 1..Len(old)
    BY <1>3, <1>6, <1>9, <2>3
  <2>4. QED
    BY <1>3, <2>1, <2>2, <2>3
<1>10. QED
  BY <1>8, <1>9

(* A step is safe if what becomes known is in K and whoever is quarantined *)
(* after it is quarantined for something unknown that is not in K.         *)
LEMMA SettlementFollows ==
  ASSUME NEW K,
         \A j \in DOMAIN late' :
           late'[j].known => SettledSafely(late'[j].key) \/ late'[j].key \in K,
         \A o \in DOMAIN held' :
           held'[o].quarantined /\ held'[o].request # NoRequest
             => held'[o].request \notin K /\ ~SettledSafely(held'[o].request)
  PROVE  SettledNotQuarantined'
BY DEF SettledNotQuarantined, SettledSafely

(* The same when nothing new becomes known.                                *)
LEMMA NothingNewFollows ==
  ASSUME \A j \in DOMAIN late' : late'[j].known => SettledSafely(late'[j].key),
         \A o \in DOMAIN held' :
           held'[o].quarantined /\ held'[o].request # NoRequest
             => ~SettledSafely(held'[o].request)
  PROVE  SettledNotQuarantined'
BY DEF SettledNotQuarantined, SettledSafely

(* The history that does not change tells nothing new.                     *)
LEMMA SameHistory ==
  ASSUME UNCHANGED late
  PROVE  \A j \in DOMAIN late' : late'[j].known => SettledSafely(late'[j].key)
BY DEF SettledSafely

(* The quarantines of a table that only lost entries are old ones.         *)
LEMMA FewerQuarantines ==
  ASSUME SettledNotQuarantined, NEW S, held' = Without(S)
  PROVE  \A o \in DOMAIN held' :
           held'[o].quarantined /\ held'[o].request # NoRequest
             => o \notin S /\ o \in DOMAIN held /\ held'[o] = held[o]
                /\ ~SettledSafely(held'[o].request)
BY WithoutIs DEF SettledNotQuarantined

(* Putting an entry that is no quarantine, or one for nothing that is      *)
(* settled, leaves no settled quarantine behind.                           *)
LEMMA PutUnsettled ==
  ASSUME SettledNotQuarantined, UNCHANGED late,
         NEW o, NEW rs, NEW q \in BOOLEAN, NEW req, held' = Put(o, rs, q, req),
         q /\ req # NoRequest => ~SettledSafely(req)
  PROVE  SettledNotQuarantined'
BY DEF Put, SettledNotQuarantined, SettledSafely

(* A late result and the quarantine it settles, in either order: one step. *)
LEMMA NextSettled ==
  ASSUME ArbiterAssumption, TypeOK, SettledNotQuarantined, [Next]_vars
  PROVE  SettledNotQuarantined'
<1>1. ASSUME UNCHANGED <<held, late>> PROVE SettledNotQuarantined'
  BY <1>1 DEF SettledNotQuarantined, SettledSafely
<1>2. ASSUME NEW S, held' = Without(S), UNCHANGED late
      PROVE  SettledNotQuarantined'
  BY <1>2, SameHistory, FewerQuarantines, NothingNewFollows
<1>3. ASSUME NEW o \in Owner, Caller(o) PROVE SettledNotQuarantined'
  <2>1. CASE \E rs \in Scopes, wait \in Waits : Request(o, rs, wait)
    BY <1>1, <2>1 DEF Request
  <2>2. CASE EnterAcquire(o) \/ Refuse(o) \/ Park(o) \/ Wake(o)
    BY <1>1, <2>2 DEF EnterAcquire, Refuse, Park, Wake
  <2>3. CASE Grant(o)
    BY <2>3, PutUnsettled DEF Grant
  <2>4. ASSUME NEW req \in RequestId \cup {NoRequest}, Quarantine(o, req)
        PROVE  SettledNotQuarantined'
    <3>1. CASE req # NoRequest /\ SettledSafely(req)
      <4>1. late \in Seq(LateRecord) /\ DOMAIN late = 1..Len(late)
        BY DEF TypeOK
      <4>2. DOMAIN late' = DOMAIN late
            /\ \A j \in DOMAIN late : late'[j] = late[j] \/ late'[j].key = req
        BY <2>4, <3>1, <4>1 DEF Quarantine
      <4>3. \A j \in DOMAIN late' :
              late'[j].known => SettledSafely(late'[j].key)
        BY <3>1, <4>2 DEF SettledSafely
      <4>4. \A p \in DOMAIN held' :
              held'[p].quarantined /\ held'[p].request # NoRequest
                => ~SettledSafely(held'[p].request)
        BY <2>4, <3>1 DEF Quarantine, SettledNotQuarantined
      <4>5. QED
        BY <4>3, <4>4, NothingNewFollows
    <3>2. CASE ~(req # NoRequest /\ SettledSafely(req)) /\ o \in DOMAIN held
      BY <2>4, <3>2, PutUnsettled DEF Quarantine
    <3>3. CASE ~(req # NoRequest /\ SettledSafely(req)) /\ o \notin DOMAIN held
      BY <1>1, <2>4, <3>3 DEF Quarantine
    <3>4. QED
      BY <3>1, <3>2, <3>3
  <2>5. CASE DropLease(o)
    BY <1>1, <1>2, <2>5 DEF DropLease
  <2>6. QED
    BY <1>3, <2>1, <2>2, <2>3, <2>4, <2>5 DEF Caller
<1>4. CASE Environment
  <2>1. ASSUME NEW req \in RequestId, NEW known \in BOOLEAN, SettleLate(req, known)
        PROVE  SettledNotQuarantined'
    <3> DEFINE lifts == known /\ QuarantinedFor(req) # {}
    <3> DEFINE freed == IF lifts THEN QuarantinedFor(req) ELSE {}
    <3> DEFINE K == IF known THEN {req} ELSE {}
    <3>1. lifts \in BOOLEAN /\ req \in Key /\ late' = RecordLate(req, known, lifts)
      BY <2>1 DEF Key, SettleLate
    <3>2. held' = Without(freed)
      BY <2>1, WithoutNothing DEF SettleLate, TypeOK
    <3>3. known => freed = QuarantinedFor(req)
      OBVIOUS
    <3> HIDE DEF lifts, freed
    <3>4. \A j \in DOMAIN late' :
            late'[j].known => SettledSafely(late'[j].key) \/ late'[j].key \in K
      BY <3>1, RecordLateKnows
    <3>5. \A p \in DOMAIN held' :
            held'[p].quarantined /\ held'[p].request # NoRequest
              => held'[p].request \notin K /\ ~SettledSafely(held'[p].request)
      BY <3>2, <3>3, FewerQuarantines DEF QuarantinedFor
    <3> HIDE DEF K
    <3>6. QED
      BY <3>4, <3>5, SettlementFollows
  <2>2. ASSUME NEW target \in RequestId \cup Owner \cup {All}, Release(target)
        PROVE  SettledNotQuarantined'
    BY <1>2, <2>2 DEF Release
  <2>3. CASE EnterList \/ LeaveList \/ RecoveryDone \/ Tick
    BY <1>1, <2>3 DEF EnterList, LeaveList, RecoveryDone, Tick
  <2>4. ASSUME NEW o \in Owner, Sweep(o) PROVE SettledNotQuarantined'
    <3>1. LateKey(o) \in Key
      BY <2>4 DEF Sweep, ExpiredOwners, LateKey, Key, TypeOK, Entry
    <3>2. late' = RecordLate(LateKey(o), FALSE, TRUE) /\ held' = Without({o})
      BY <2>4 DEF Sweep
    <3>3. \A j \in DOMAIN late' :
            late'[j].known => SettledSafely(late'[j].key)
      BY <3>1, <3>2, RecordLateKnows
    <3>4. QED
      BY <3>2, <3>3, FewerQuarantines, NothingNewFollows
  <2>5. ASSUME NEW o \in Owner, NEW rs \in Scopes, Restore(o, rs)
        PROVE  SettledNotQuarantined'
    BY <2>5, PutUnsettled DEF Restore
  <2>6. QED
    BY <1>4, <2>1, <2>2, <2>3, <2>4, <2>5 DEF Environment
<1>5. CASE UNCHANGED vars
  BY <1>1, <1>5 DEF vars
<1>6. QED
  BY <1>3, <1>4, <1>5 DEF Next

(* No quarantine stands for a request whose known outcome is remembered,   *)
(* whichever of the two came first and whatever the history has forgotten  *)
(* since (settle_late, quarantine_request, record_late).                   *)
THEOREM SettledIsNotQuarantined == Spec => []SettledNotQuarantined
<1>1. Init => SettledNotQuarantined
  BY DEF Init, SettledNotQuarantined
<1>2. TypeOK /\ SettledNotQuarantined /\ [Next]_vars => SettledNotQuarantined'
  BY NextSettled, ArbiterAssumption
<1>3. QED
  BY <1>1, <1>2, TypeCorrect, PTL DEF Spec

-----------------------------------------------------------------------------
(* How an entry leaves the table                                           *)

(* An entry that a step takes out of the table had its cause: one step.    *)
LEMMA NextEndsForCause ==
  ASSUME ArbiterAssumption, TypeOK, [Next]_vars
  PROVE  \A o \in DOMAIN held \ DOMAIN held' : LeftForCause(o)
<1> DEFINE Goal == \A o \in DOMAIN held \ DOMAIN held' : LeftForCause(o)
<1>1. ASSUME DOMAIN held \subseteq DOMAIN held' PROVE Goal
  BY <1>1
<1>2. ASSUME NEW S, held' = Without(S),
             \A o \in (DOMAIN held) \cap S : LeftForCause(o)
      PROVE  Goal
  BY <1>2, WithoutIs
<1>3. \A o, rs, q, req : DOMAIN held \subseteq DOMAIN Put(o, rs, q, req)
  BY DEF Put
<1>4. ASSUME NEW o \in Owner, Caller(o) PROVE Goal
  <2>1. CASE \/ \E rs \in Scopes, wait \in Waits : Request(o, rs, wait)
             \/ EnterAcquire(o) \/ Refuse(o) \/ Park(o) \/ Wake(o)
    BY <1>1, <2>1 DEF Request, EnterAcquire, Refuse, Park, Wake
  <2>2. CASE Grant(o)
    BY <1>1, <1>3, <2>2 DEF Grant
  <2>3. CASE \E req \in RequestId \cup {NoRequest} : Quarantine(o, req)
    BY <1>1, <1>3, <2>3 DEF Quarantine
  <2>4. CASE DropLease(o)
    <3>1. CASE o \in DOMAIN held /\ ~held[o].quarantined
      <4>1. stage[o] = "leased" /\ stage'[o] = "idle" /\ held' = Without({o})
        BY <2>4, <3>1 DEF DropLease, TypeOK
      <4>2. LeftForCause(o)
        BY <3>1, <4>1 DEF LeftForCause
      <4>3. \A p \in (DOMAIN held) \cap {o} : LeftForCause(p)
        BY <4>2
      <4> HIDE DEF Goal
      <4>4. QED
        BY <1>2, <4>1, <4>3
    <3>2. CASE ~(o \in DOMAIN held /\ ~held[o].quarantined)
      BY <1>1, <2>4, <3>2 DEF DropLease
    <3>3. QED
      BY <3>1, <3>2
  <2>5. QED
    BY <1>4, <2>1, <2>2, <2>3, <2>4 DEF Caller
<1>5. CASE Environment
  <2>1. ASSUME NEW req \in RequestId, NEW known \in BOOLEAN, SettleLate(req, known)
        PROVE  Goal
    <3> DEFINE lifts == known /\ QuarantinedFor(req) # {}
    <3>1. lifts \in BOOLEAN /\ req \in Key /\ late' = RecordLate(req, known, lifts)
      BY <2>1 DEF Key, SettleLate
    <3>2. CASE lifts
      <4>1. known /\ held' = Without(QuarantinedFor(req))
        BY <2>1, <3>2 DEF SettleLate
      <4> HIDE DEF lifts
      <4>2. \E j \in DOMAIN late' : late'[j].key = req /\ late'[j].known
        <5>1. \E j \in DOMAIN late' : late'[j].key = req /\ (known => late'[j].known)
          BY <3>1, RecordLateKnows
        <5>2. QED
          BY <4>1, <5>1
      <4>3. \A p \in QuarantinedFor(req) : LeftForCause(p)
        BY <4>2 DEF LeftForCause, QuarantinedFor
      <4>4. QED
        BY <1>2, <4>1, <4>3
    <3>3. CASE ~lifts
      BY <1>1, <2>1, <3>3 DEF SettleLate
    <3>4. QED
      BY <3>2, <3>3
  <2>2. ASSUME NEW target \in RequestId \cup Owner \cup {All}, Release(target)
        PROVE  Goal
    <3> DEFINE S == {p \in DOMAIN held : held[p].quarantined /\ Matches(p, target)}
    <3>1. HostRelease
      BY <2>2 DEF HostRelease
    <3>2. \A p \in S : LeftForCause(p)
      BY <3>1 DEF LeftForCause
    <3>3. held' = Without(S)
      BY <2>2 DEF Release
    <3> HIDE DEF S
    <3>4. QED
      BY <1>2, <3>2, <3>3
  <2>3. CASE EnterList \/ LeaveList \/ RecoveryDone \/ Tick
    BY <1>1, <2>3 DEF EnterList, LeaveList, RecoveryDone, Tick
  <2>4. ASSUME NEW o \in Owner, Sweep(o) PROVE Goal
    <3>1. held' = Without({o}) /\ Expired(o)
      BY <2>4 DEF Sweep, ExpiredOwners
    <3>2. LeftForCause(o)
      BY <3>1 DEF LeftForCause, Expired
    <3>3. QED
      BY <1>2, <3>1, <3>2
  <2>5. CASE \E o \in Owner, rs \in Scopes : Restore(o, rs)
    BY <1>1, <1>3, <2>5 DEF Restore
  <2>6. QED
    BY <1>5, <2>1, <2>2, <2>3, <2>4, <2>5 DEF Environment
<1>6. CASE UNCHANGED vars
  BY <1>1, <1>6 DEF vars
<1>7. QED
  BY <1>4, <1>5, <1>6 DEF Next

(* An active lease ends only because its holder dropped it; a quarantine   *)
(* only because it outlived its TTL, its request turned out known or the   *)
(* host released it (lock_current, settle_late, release, Drop for Lease).  *)
THEOREM EntriesLeaveForCause == Spec => IsolationEndsForCause
<1>1. TypeOK /\ [Next]_vars
        => [\A o \in DOMAIN held \ DOMAIN held' : LeftForCause(o)]_vars
  BY NextEndsForCause, ArbiterAssumption
<1>2. QED
  BY <1>1, TypeCorrect, PTL DEF Spec, IsolationEndsForCause

-----------------------------------------------------------------------------
(* The arbiter implements Isolation                                        *)

(* What the abstract service sees of the table.                            *)
Claims == [o \in DOMAIN held |-> [resources |-> held[o].resources,
                                  isolated |-> held[o].quarantined]]

(* Putting an entry is adding a claim.                                     *)
LEMMA PutAdds ==
  ASSUME NEW o, NEW rs, NEW q, NEW req, held' = Put(o, rs, q, req)
  PROVE  Claims' = Abstract!Add(o, rs, q)
BY DEF Put, Claims, Abstract!Add

(* Taking entries away is restricting the claims.                          *)
LEMMA WithoutRestricts ==
  ASSUME NEW S, held' = Without(S)
  PROVE  Claims' = Abstract!Restrict(Claims, DOMAIN Claims \ S)
BY DEF Without, Restrict, Claims, Abstract!Restrict

(* Whoever is inside acquire_within asks for one of the sets callers ask   *)
(* for.                                                                    *)
WantOK ==
  \A o \in Owner : stage[o] \in {"trying", "parked"} => want[o] \in Scopes

(* A caller's resources are fixed from its request on (acquire_within).    *)
LEMMA NextWantOK ==
  ASSUME ArbiterAssumption, IInv, WantOK, [Next]_vars
  PROVE  WantOK'
<1> USE DEF IInv
<1>1. ASSUME UNCHANGED <<stage, want>> PROVE WantOK'
  BY <1>1 DEF WantOK
<1>2. ASSUME NEW o \in Owner, Caller(o) PROVE WantOK'
  <2>1. ASSUME NEW rs \in Scopes, NEW wait \in Waits, Request(o, rs, wait)
        PROVE  WantOK'
    BY <2>1 DEF Request, WantOK, TypeOK
  <2>2. CASE EnterAcquire(o) \/ \E req \in RequestId \cup {NoRequest} : Quarantine(o, req)
    BY <1>1, <2>2 DEF EnterAcquire, Quarantine, callVars
  <2>3. CASE Grant(o) \/ Refuse(o)
    BY <2>3 DEF Grant, Refuse, Return, WantOK, TypeOK
  <2>4. CASE Park(o)
    BY <2>4 DEF Park, WantOK, TypeOK, SectionOK
  <2>5. CASE Wake(o)
    BY <2>5 DEF Wake, WantOK, TypeOK
  <2>6. CASE DropLease(o)
    BY <2>6 DEF DropLease, WantOK, TypeOK
  <2>7. QED
    BY <1>2, <2>1, <2>2, <2>3, <2>4, <2>5, <2>6 DEF Caller
<1>3. CASE Environment
  BY <1>1, <1>3 DEF Environment, SettleLate, Release, EnterList, LeaveList, Sweep,
                    Restore, RecoveryDone, Tick, callVars
<1>4. CASE UNCHANGED vars
  BY <1>1, <1>4 DEF vars, callVars
<1>5. QED
  BY <1>2, <1>3, <1>4 DEF Next

(* A step that lifts quarantines is a step of the service.                 *)
LEMMA LiftMaps ==
  ASSUME TypeOK, NEW S, held' = Without(S), UNCHANGED recovered,
         \A o \in S : o \in DOMAIN held /\ held[o].quarantined
  PROVE  Abstract!Next
<1>1. S \in SUBSET Owner
  BY DEF TypeOK
<1>2. Abstract!Lift(S)
  BY WithoutRestricts DEF Claims, Abstract!Lift
<1>3. QED
  BY <1>1, <1>2 DEF Abstract!Next

(* Every step of the arbiter is a step of the service or none at all.      *)
LEMMA NextImplements ==
  ASSUME ArbiterAssumption, IInv, WantOK, [Next]_vars
  PROVE  [Abstract!Next]_Abstract!vars
<1> USE DEF IInv
<1>1. ASSUME UNCHANGED <<held, recovered>> PROVE [Abstract!Next]_Abstract!vars
  BY <1>1 DEF Abstract!vars
<1>2. ASSUME NEW o \in Owner, Caller(o) PROVE [Abstract!Next]_Abstract!vars
  <2>1. CASE \/ \E rs \in Scopes, wait \in Waits : Request(o, rs, wait)
             \/ EnterAcquire(o) \/ Refuse(o) \/ Park(o) \/ Wake(o)
    BY <1>1, <2>1 DEF Request, EnterAcquire, Refuse, Park, Wake
  <2>2. CASE Grant(o)
    <3>1. /\ stage[o] = "trying" /\ o \notin DOMAIN held
          /\ (want[o] # {} => recovered) /\ want[o] \in Scopes
      BY <2>2 DEF Grant, SectionOK, CallerOK, WantOK
    <3>2. \A p \in DOMAIN held : ~Clash(want[o], held[p].resources)
      BY <2>2 DEF Grant, Blockers
    <3>3. Claims' = Abstract!Add(o, want[o], FALSE) /\ UNCHANGED recovered
      BY <2>2, PutAdds DEF Grant
    <3>4. PICK rs \in Scopes : rs = want[o]
      BY <3>1
    <3>5. Claims' = Abstract!Add(o, rs, FALSE)
      BY <3>3, <3>4
    <3>6. Abstract!Take(o, rs)
      BY <3>1, <3>2, <3>3, <3>4, <3>5 DEF Claims, Abstract!Take
    <3>7. QED
      BY <3>6 DEF Abstract!Next
  <2>3. ASSUME NEW req \in RequestId \cup {NoRequest}, Quarantine(o, req)
        PROVE  [Abstract!Next]_Abstract!vars
    <3>1. CASE UNCHANGED held
      BY <1>1, <2>3, <3>1 DEF Quarantine
    <3>2. CASE o \in DOMAIN held /\ held' = Put(o, held[o].resources, TRUE, req)
      <4>1. Claims' = Abstract!Add(o, held[o].resources, TRUE) /\ UNCHANGED recovered
        BY <2>3, <3>2, PutAdds DEF Quarantine
      <4>2. Abstract!Isolate(o)
        BY <3>2, <4>1 DEF Claims, Abstract!Isolate
      <4>3. QED
        BY <4>2 DEF Abstract!Next
    <3>3. QED
      BY <2>3, <3>1, <3>2 DEF Quarantine
  <2>4. CASE DropLease(o)
    <3>1. CASE o \in DOMAIN held /\ ~held[o].quarantined
      <4>1. held' = Without({o}) /\ UNCHANGED recovered
        BY <2>4, <3>1 DEF DropLease
      <4>2. Abstract!Give(o)
        BY <3>1, <4>1, WithoutRestricts DEF Claims, Abstract!Give
      <4>3. QED
        BY <4>2 DEF Abstract!Next
    <3>2. CASE ~(o \in DOMAIN held /\ ~held[o].quarantined)
      BY <1>1, <2>4, <3>2 DEF DropLease
    <3>3. QED
      BY <3>1, <3>2
  <2>5. QED
    BY <1>2, <2>1, <2>2, <2>3, <2>4 DEF Caller
<1>3. CASE Environment
  <2>1. ASSUME NEW req \in RequestId, NEW known \in BOOLEAN, SettleLate(req, known)
        PROVE  [Abstract!Next]_Abstract!vars
    <3>1. \/ held' = Without(QuarantinedFor(req)) \/ UNCHANGED held
      BY <2>1 DEF SettleLate
    <3>2. QED
      BY <1>1, <2>1, <3>1, LiftMaps DEF SettleLate, QuarantinedFor
  <2>2. ASSUME NEW target \in RequestId \cup Owner \cup {All}, Release(target)
        PROVE  [Abstract!Next]_Abstract!vars
    BY <2>2, LiftMaps DEF Release
  <2>3. CASE EnterList \/ LeaveList \/ Tick
    BY <1>1, <2>3 DEF EnterList, LeaveList, Tick
  <2>4. ASSUME NEW o \in Owner, Sweep(o) PROVE [Abstract!Next]_Abstract!vars
    BY <2>4, LiftMaps DEF Sweep, ExpiredOwners, Expired
  <2>5. ASSUME NEW o \in Owner, NEW rs \in Scopes, Restore(o, rs)
        PROVE  [Abstract!Next]_Abstract!vars
    <3>1. Claims' = Abstract!Add(o, rs, TRUE) /\ UNCHANGED recovered
      BY <2>5, PutAdds DEF Restore
    <3>2. Abstract!Inherit(o, rs)
      BY <2>5, <3>1 DEF Restore, Claims, Abstract!Inherit
    <3>3. QED
      BY <3>2 DEF Abstract!Next
  <2>6. CASE RecoveryDone
    BY <2>6 DEF RecoveryDone, Abstract!Next, Abstract!Open
  <2>7. QED
    BY <1>3, <2>1, <2>2, <2>3, <2>4, <2>5, <2>6 DEF Environment
<1>4. CASE UNCHANGED vars
  BY <1>1, <1>4 DEF vars
<1>5. QED
  BY <1>2, <1>3, <1>4 DEF Next

(* The arbiter, with its queue, its clock, its sweeps and its history, is  *)
(* an implementation of the isolation service, for every value of its      *)
(* constants (resources.rs as the rest of the application sees it).        *)
THEOREM ArbiterImplementsIsolation == Spec => ImplementsIsolation
<1>1. Init => WantOK /\ Abstract!Init
  BY DEF Init, WantOK, Abstract!Init
<1>2. IInv /\ WantOK /\ [Next]_vars => WantOK'
  BY NextWantOK, ArbiterAssumption
<1>3. IInv /\ WantOK /\ [Next]_vars => [Abstract!Next]_Abstract!vars
  BY NextImplements, ArbiterAssumption
<1>4. QED
  BY <1>1, <1>2, <1>3, Invariance, PTL DEF Spec, ImplementsIsolation, Abstract!Spec

-----------------------------------------------------------------------------
(* The history of late results                                             *)

(* One entry per request and never more than LATE_HISTORY: one step.       *)
LEMMA NextLateHistory ==
  ASSUME ArbiterAssumption, TypeOK, LateHistoryOK, [Next]_vars
  PROVE  LateHistoryOK'
<1>1. ASSUME UNCHANGED late PROVE LateHistoryOK'
  BY <1>1 DEF LateHistoryOK
<1>2. ASSUME NEW key \in Key, NEW known \in BOOLEAN, NEW released \in BOOLEAN,
             late' = RecordLate(key, known, released)
      PROVE  LateHistoryOK'
  BY <1>2, RecordLateKeeps DEF LateHistoryOK
<1>3. ASSUME NEW o \in Owner, NEW req \in RequestId \cup {NoRequest},
             Quarantine(o, req)
      PROVE  LateHistoryOK'
  <2>1. CASE req # NoRequest /\ SettledSafely(req)
    <3>1. late \in Seq(LateRecord) /\ DOMAIN late = 1..Len(late)
      BY DEF TypeOK
    <3>2. IndexOf(req) \in DOMAIN late /\ late[IndexOf(req)].key = req
      BY <2>1, IndexOfIs DEF SettledSafely, IsRecorded
    <3>3. /\ Len(late') = Len(late) /\ DOMAIN late' = DOMAIN late
          /\ \A j \in DOMAIN late : late'[j].key = late[j].key
      <4>1. late' = [late EXCEPT ![IndexOf(req)] =
                       [key |-> req, known |-> TRUE, released |-> TRUE]]
        BY <1>3, <2>1 DEF Quarantine
      <4>2. [key |-> req, known |-> TRUE, released |-> TRUE] \in LateRecord
        BY <2>1 DEF LateRecord, Key
      <4>3. late' \in Seq(LateRecord) /\ DOMAIN late' = DOMAIN late
        BY <3>1, <3>2, <4>1, <4>2, ExceptSeqType
      <4>4. Len(late') = Len(late)
        BY <3>1, <4>3
      <4>5. \A j \in DOMAIN late : late'[j].key = late[j].key
        BY <3>2, <4>1
      <4>6. QED
        BY <4>3, <4>4, <4>5
    <3>4. QED
      BY <3>3 DEF LateHistoryOK
  <2>2. CASE ~(req # NoRequest /\ SettledSafely(req))
    BY <1>1, <1>3, <2>2 DEF Quarantine
  <2>3. QED
    BY <2>1, <2>2
<1>4. ASSUME NEW req \in RequestId, NEW known \in BOOLEAN, SettleLate(req, known)
      PROVE  LateHistoryOK'
  <2> DEFINE lifts == known /\ QuarantinedFor(req) # {}
  <2>1. lifts \in BOOLEAN /\ req \in Key /\ late' = RecordLate(req, known, lifts)
    BY <1>4 DEF Key, SettleLate
  <2> HIDE DEF lifts
  <2>2. QED
    BY <1>2, <2>1
<1>5. ASSUME NEW o \in Owner, Sweep(o) PROVE LateHistoryOK'
  <2>1. LateKey(o) \in Key /\ late' = RecordLate(LateKey(o), FALSE, TRUE)
    BY <1>5 DEF Sweep, ExpiredOwners, LateKey, Key, TypeOK, Entry
  <2>2. QED
    BY <1>2, <2>1
<1>6. CASE Environment
  BY <1>1, <1>4, <1>5, <1>6 DEF Environment, Release, EnterList, LeaveList,
                                Restore, RecoveryDone, Tick
<1>7. ASSUME NEW o \in Owner, Caller(o) PROVE LateHistoryOK'
  BY <1>1, <1>3, <1>7 DEF Caller, Request, EnterAcquire, Grant, Refuse, Park, Wake,
                          DropLease
<1>8. CASE UNCHANGED vars
  BY <1>1, <1>8 DEF vars
<1>9. QED
  BY <1>6, <1>7, <1>8 DEF Next

(* The history of late results keeps one entry per request and stays       *)
(* within LATE_HISTORY, for any order of settlements, sweeps and releases  *)
(* (record_late).                                                          *)
THEOREM LateHistoryIsBounded == Spec => []LateHistoryOK
<1>1. Init => LateHistoryOK
  <2> SUFFICES ASSUME Init PROVE LateHistoryOK
    OBVIOUS
  <2>1. late = <<>>
    BY DEF Init
  <2>2. Len(late) = 0 /\ DOMAIN late = {}
    BY <2>1
  <2>3. Len(late) <= LateHistory
    BY <2>2, ArbiterAssumption DEF ArbiterAssumption
  <2>4. QED
    BY <2>2, <2>3 DEF LateHistoryOK
<1>2. TypeOK /\ LateHistoryOK /\ [Next]_vars => LateHistoryOK'
  BY NextLateHistory, ArbiterAssumption
<1>3. QED
  BY <1>1, <1>2, TypeCorrect, PTL DEF Spec

-----------------------------------------------------------------------------
(* The commands over the arbiter: the inductive invariant                  *)

(* Where handle_command is says where its caller is in the arbiter.        *)
StageOK ==
  \A c \in Owner :
    /\ step[c] = "acquiring" <=> stage[c] \in {"trying", "parked"}
    /\ step[c] \in {"leased", "sent", "answered", "isolated"} <=> stage[c] = "leased"

(* A command has its lease until its answer is dealt with, and a           *)
(* quarantine under the name of its own request from then on.              *)
TableOK ==
  /\ \A c \in Owner :
       step[c] \in {"leased", "sent", "answered"} => c \in DOMAIN held
  /\ \A c \in DOMAIN held :
       /\ step[c] \notin {"new", "acquiring"}
       /\ held[c].quarantined
            => held[c].request = c /\ step[c] \in {"isolated", "done"}

(* A script that runs is waited for, or gave no answer, or is isolated.    *)
PageOK ==
  \A c \in Owner :
    /\ page[c] # "none" => step[c] \in {"sent", "answered", "isolated", "done"}
    /\ result[c] \in {"known", "failed"} => page[c] = "over"
    /\ page[c] = "running" /\ step[c] = "answered" => answer[c] = "unknown"
    /\ page[c] = "running" /\ step[c] \in {"isolated", "done"}
         => c \in lifted \/ (c \in DOMAIN held /\ held[c].quarantined)

(* Only the known outcomes that reached the bridge are remembered as known.*)
LateOK == \A c \in Owner : SettledSafely(c) => result[c] = "known"

(* No two claims of the table meet, quarantined or not.                    *)
Apart ==
  \A c, d \in DOMAIN held :
    c # d => ~Clash(held[c].resources, held[d].resources)

CommandIInv ==
  /\ IInv
  /\ CommandTypeOK
  /\ StageOK
  /\ TableOK
  /\ PageOK
  /\ LateOK
  /\ Apart

-----------------------------------------------------------------------------
(* The arbiter's part of a step                                            *)

(* A client that leaves the queue leaves nothing behind (acquire_within    *)
(* dropped where it sleeps).                                               *)
LEMMA AbandonKeepsIInv ==
  ASSUME IInv, StageOK, NEW c \in Owner, AbandonQueued(c)
  PROVE  IInv'
<1> USE DEF IInv, AbandonQueued
<1>1. TypeOK'
  BY DEF TypeOK, Stage
<1>2. CallerOK'
  BY DEF CallerOK, TypeOK
<1>3. SectionOK'
  BY DEF SectionOK, TypeOK
<1>4. ActiveOK'
  BY DEF ActiveOK, StageOK, TypeOK
<1>5. ActiveIsExclusive'
  BY DEF ActiveIsExclusive, Clash
<1>6. QED
  BY <1>1, <1>2, <1>3, <1>4, <1>5

(* But for that one, a step of the commands is a step of the arbiter.      *)
LEMMA CommandStepsNext ==
  ASSUME CommandAssumption, CommandNext,
         ~\E c \in Owner : AbandonQueued(c)
  PROVE  [Next]_vars
<1>1. CASE Clock
  BY <1>1 DEF Clock, Next, Environment
<1>2. ASSUME NEW c \in Owner, NEW rs \in Scopes, NEW wait \in Waits,
             HandleCommand(c, rs, wait)
      PROVE  [Next]_vars
  BY <1>2 DEF HandleCommand, Next, Caller
<1>3. ASSUME NEW c \in Owner,
             Lock(c) \/ Proceed(c) \/ AbandonSent(c)
      PROVE  [Next]_vars
  <2>1. CASE Lock(c)
    BY <2>1 DEF Lock, Next, Caller
  <2>2. CASE Granted(c)
    BY <2>2 DEF Granted, Next, Caller
  <2>3. CASE Refused(c)
    BY <2>3 DEF Refused, Next, Caller
  <2>4. CASE Park(c) \/ Wake(c)
    BY <2>4 DEF Next, Caller
  <2>5. CASE Send(c) \/ Receive(c) \/ TimeOut(c)
    BY <2>5 DEF Send, Receive, TimeOut
  <2>6. CASE Isolate(c)
    BY <2>6 DEF Isolate, Next, Caller, CommandAssumption
  <2>7. CASE Finish(c)
    BY <2>7 DEF Finish, Next, Caller
  <2>8. CASE AbandonSent(c)
    BY <2>8 DEF AbandonSent, Next, Caller
  <2>9. QED
    BY <1>3, <2>1, <2>2, <2>3, <2>4, <2>5, <2>6, <2>7, <2>8 DEF Proceed
<1>4. ASSUME NEW c \in Owner, NEW outcome \in {"known", "failed"},
             PageEnds(c, outcome) \/ Disconnect(c)
      PROVE  [Next]_vars
  BY <1>4 DEF PageEnds, Disconnect
<1>5. ASSUME NEW c \in Owner, Settle(c) PROVE [Next]_vars
  <2>1. PICK known \in BOOLEAN : known = (result[c] = "known")
    OBVIOUS
  <2>2. SettleLate(c, known)
    BY <1>5, <2>1 DEF Settle
  <2>3. QED
    BY <2>2 DEF Next, Environment, CommandAssumption
<1>6. ASSUME NEW c \in Owner, SweepCommand(c) \/ HostReleases(c) PROVE [Next]_vars
  BY <1>6 DEF SweepCommand, HostReleases, Next, Environment
<1>7. QED
  BY <1>1, <1>2, <1>3, <1>4, <1>5, <1>6 DEF CommandNext

(* The arbiter keeps its invariant under the commands.                     *)
LEMMA CommandKeepsIInv ==
  ASSUME ArbiterAssumption, CommandAssumption, IInv, StageOK, [CommandNext]_allVars
  PROVE  IInv'
<1>1. CASE UNCHANGED allVars
  <2>1. [Next]_vars
    BY <1>1 DEF allVars
  <2>2. QED
    BY <2>1, NextIInv
<1>2. CASE \E c \in Owner : AbandonQueued(c)
  BY <1>2, AbandonKeepsIInv
<1>3. CASE CommandNext /\ ~\E c \in Owner : AbandonQueued(c)
  <2>1. [Next]_vars
    BY <1>3, CommandStepsNext
  <2>2. QED
    BY <2>1, NextIInv
<1>4. QED
  BY <1>1, <1>2, <1>3

-----------------------------------------------------------------------------
(* The commands' part of a step                                            *)

(* Every variable of the commands keeps its type.                          *)
LEMMA CommandKeepsType ==
  ASSUME CommandTypeOK, TypeOK', [CommandNext]_allVars
  PROVE  CommandTypeOK'
<1> USE DEF CommandTypeOK, Step, Answer
<1>1. CASE UNCHANGED cmdVars
  BY <1>1 DEF cmdVars
<1>2. ASSUME NEW c \in Owner, NEW rs \in Scopes, NEW wait \in Waits,
             HandleCommand(c, rs, wait)
      PROVE  CommandTypeOK'
  BY <1>2 DEF HandleCommand
<1>3. ASSUME NEW c \in Owner, Proceed(c) PROVE CommandTypeOK'
  <2>1. CASE Granted(c) \/ Refused(c)
    BY <2>1 DEF Granted, Refused
  <2>2. CASE Send(c)
    BY <2>2 DEF Send
  <2>3. CASE Receive(c)
    <3>1. AnswerTo(result[c]) \in Answer
      BY DEF AnswerTo
    <3>2. QED
      BY <2>3, <3>1 DEF Receive
  <2>4. CASE TimeOut(c)
    BY <2>4 DEF TimeOut
  <2>5. CASE Isolate(c) \/ Finish(c)
    BY <2>5 DEF Isolate, Finish
  <2>6. QED
    BY <1>1, <1>3, <2>1, <2>2, <2>3, <2>4, <2>5 DEF Proceed
<1>4. ASSUME NEW c \in Owner, AbandonQueued(c) \/ AbandonSent(c)
      PROVE  CommandTypeOK'
  BY <1>4 DEF AbandonQueued, AbandonSent
<1>5. ASSUME NEW c \in Owner, NEW outcome \in {"known", "failed"},
             PageEnds(c, outcome)
      PROVE  CommandTypeOK'
  BY <1>5 DEF PageEnds
<1>6. ASSUME NEW c \in Owner, Disconnect(c) \/ Settle(c) PROVE CommandTypeOK'
  BY <1>6 DEF Disconnect, Settle
<1>7. ASSUME NEW c \in Owner, SweepCommand(c) \/ HostReleases(c)
      PROVE  CommandTypeOK'
  BY <1>7 DEF SweepCommand, HostReleases
<1>8. QED
  BY <1>1, <1>2, <1>3, <1>4, <1>5, <1>6, <1>7 DEF CommandNext, Lock, Clock, allVars, cmdVars

(* The place of a command and of its caller move together.                 *)
LEMMA CommandKeepsStage ==
  ASSUME CommandTypeOK, SectionOK, StageOK, [CommandNext]_allVars
  PROVE  StageOK'
<1> USE DEF CommandTypeOK, TypeOK
<1>1. CASE UNCHANGED <<stage, step>>
  BY <1>1 DEF StageOK
<1>2. ASSUME NEW c \in Owner, NEW rs \in Scopes, NEW wait \in Waits,
             HandleCommand(c, rs, wait)
      PROVE  StageOK'
  BY <1>2 DEF HandleCommand, Request, StageOK
<1>3. ASSUME NEW c \in Owner, Lock(c) \/ Proceed(c) PROVE StageOK'
  <2>1. CASE Lock(c)
    BY <1>1, <2>1 DEF Lock, EnterAcquire, cmdVars, callVars
  <2>2. CASE Granted(c)
    BY <2>2 DEF Granted, Grant, Return, SectionOK, StageOK
  <2>3. CASE Refused(c)
    BY <2>3 DEF Refused, Refuse, Return, SectionOK, StageOK
  <2>4. CASE Park(c) /\ UNCHANGED cmdVars
    BY <2>4 DEF Park, cmdVars, SectionOK, StageOK
  <2>5. CASE Wake(c) /\ UNCHANGED cmdVars
    BY <2>5 DEF Wake, cmdVars, StageOK
  <2>6. CASE Send(c) \/ Receive(c) \/ TimeOut(c)
    BY <2>6 DEF Send, Receive, TimeOut, vars, callVars, StageOK
  <2>7. CASE Isolate(c)
    BY <2>7 DEF Isolate, Quarantine, callVars, StageOK
  <2>8. CASE Finish(c)
    BY <2>8 DEF Finish, DropLease, StageOK
  <2>9. QED
    BY <1>3, <2>1, <2>2, <2>3, <2>4, <2>5, <2>6, <2>7, <2>8 DEF Proceed
<1>4. ASSUME NEW c \in Owner, AbandonQueued(c) PROVE StageOK'
  BY <1>4 DEF AbandonQueued, StageOK
<1>5. ASSUME NEW c \in Owner, AbandonSent(c) PROVE StageOK'
  BY <1>5 DEF AbandonSent, DropLease, StageOK
<1>6. ASSUME NEW c \in Owner, NEW outcome \in {"known", "failed"},
             PageEnds(c, outcome) \/ Disconnect(c)
      PROVE  StageOK'
  BY <1>1, <1>6 DEF PageEnds, Disconnect, vars, callVars
<1>7. ASSUME NEW c \in Owner, Settle(c) \/ SweepCommand(c) \/ HostReleases(c)
      PROVE  StageOK'
  BY <1>1, <1>7 DEF Settle, SettleLate, SweepCommand, Sweep, HostReleases, Release,
                    callVars
<1>8. CASE Clock \/ UNCHANGED allVars
  BY <1>1, <1>8 DEF Clock, Tick, cmdVars, allVars, vars, callVars
<1>9. QED
  BY <1>2, <1>3, <1>4, <1>5, <1>6, <1>7, <1>8 DEF CommandNext

(* What a settlement or the host takes for a command is the command's own. *)
LEMMA OwnQuarantine ==
  ASSUME ArbiterAssumption, CommandAssumption, TableOK, NEW c \in Owner
  PROVE  /\ QuarantinedFor(c) \subseteq {c}
         /\ {o \in DOMAIN held : held[o].quarantined /\ Matches(o, c)} \subseteq {c}
BY DEF QuarantinedFor, Matches, TableOK, ArbiterAssumption, CommandAssumption

(* What a quarantine puts into the table, and that the rest stays.         *)
LEMMA PutIs ==
  ASSUME NEW o, NEW rs, NEW req, held' = Put(o, rs, TRUE, req)
  PROVE  /\ DOMAIN held' = DOMAIN held \cup {o}
         /\ \A p \in DOMAIN held : p # o => held'[p] = held[p]
         /\ held'[o].resources = rs
         /\ held'[o].quarantined
         /\ held'[o].request = req
BY DEF Put

(* Lifting quarantines takes nothing that a command still waits with.      *)
LEMMA LiftKeepsTable ==
  ASSUME TableOK, NEW S, held' = Without(S), UNCHANGED step,
         \A o \in (DOMAIN held) \cap S : held[o].quarantined
  PROVE  TableOK'
<1>1. /\ DOMAIN held' = DOMAIN held \ S
      /\ \A o \in DOMAIN held' : held'[o] = held[o]
  BY WithoutIs
<1>2. ASSUME NEW c \in Owner, step[c] \in {"leased", "sent", "answered"}
      PROVE  c \in DOMAIN held'
  <2>1. c \in DOMAIN held /\ ~held[c].quarantined
    BY <1>2 DEF TableOK
  <2>2. QED
    BY <1>1, <2>1
<1>3. QED
  BY <1>1, <1>2 DEF TableOK

(* A settlement takes the command's own quarantine or nothing.             *)
LEMMA SettleTakes ==
  ASSUME TypeOK, NEW c \in Owner, Settle(c)
  PROVE  \E S \in SUBSET QuarantinedFor(c) :
           held' = Without(S) /\ (S # {} => result[c] = "known")
<1>1. PICK S \in SUBSET QuarantinedFor(c) :
        S = IF result[c] = "known" THEN QuarantinedFor(c) ELSE {}
  OBVIOUS
<1>2. held' = Without(S)
  BY <1>1, WithoutNothing DEF Settle, SettleLate, TypeOK
<1>3. QED
  BY <1>1, <1>2

(* What each command has in the table (handle_command).                    *)
LEMMA CommandKeepsTable ==
  ASSUME ArbiterAssumption, CommandAssumption, IInv, CommandTypeOK, StageOK, TableOK,
         [CommandNext]_allVars
  PROVE  TableOK'
<1> USE DEF CommandTypeOK, TypeOK
<1>1. CASE UNCHANGED <<held, step>>
  BY <1>1 DEF TableOK
<1>2. ASSUME NEW c \in Owner, NEW rs \in Scopes, NEW wait \in Waits,
             HandleCommand(c, rs, wait)
      PROVE  TableOK'
  BY <1>2 DEF HandleCommand, Request, TableOK
<1>3. ASSUME NEW c \in Owner, Lock(c) \/ Proceed(c) PROVE TableOK'
  <2>1. CASE Lock(c) \/ ((Park(c) \/ Wake(c)) /\ UNCHANGED cmdVars)
    BY <1>1, <2>1 DEF Lock, EnterAcquire, Park, Wake, cmdVars
  <2>2. CASE Granted(c)
    <3>1. c \notin DOMAIN held
      BY <2>2 DEF Granted, Grant, IInv, SectionOK, CallerOK
    <3>2. /\ DOMAIN held' = DOMAIN held \cup {c}
          /\ ~held'[c].quarantined
          /\ \A p \in DOMAIN held : held'[p] = held[p]
      BY <2>2, <3>1 DEF Granted, Grant, Put
    <3>3. step' = [step EXCEPT ![c] = "leased"]
      BY <2>2 DEF Granted
    <3>4. QED
      BY <3>1, <3>2, <3>3 DEF TableOK
  <2>3. CASE Refused(c)
    BY <2>3 DEF Refused, Refuse, TableOK, StageOK, IInv, SectionOK
  <2>4. CASE Send(c) \/ Receive(c) \/ TimeOut(c)
    BY <2>4 DEF Send, Receive, TimeOut, vars, TableOK
  <2>5. CASE Isolate(c)
    <3>1. c \in DOMAIN held /\ c # NoRequest /\ step[c] = "answered"
      BY <2>5 DEF Isolate, TableOK, ArbiterAssumption, CommandAssumption
    <3>2. step' = [step EXCEPT ![c] = "isolated"]
      BY <2>5 DEF Isolate
    <3>3. /\ DOMAIN held' = DOMAIN held
          /\ \A p \in DOMAIN held : p # c => held'[p] = held[p]
          /\ held'[c] = held[c] \/ held'[c].request = c
      <4> HIDE DEF CommandTypeOK, TypeOK
      <4>1. UNCHANGED held \/ held' = Put(c, held[c].resources, TRUE, c)
        BY <2>5, <3>1 DEF Isolate, Quarantine
      <4>2. CASE UNCHANGED held
        BY <4>2
      <4>3. CASE held' = Put(c, held[c].resources, TRUE, c)
        <5>1. DOMAIN held' = DOMAIN held \cup {c}
          BY <4>3, PutIs
        <5>2. \A p \in DOMAIN held : p # c => held'[p] = held[p]
          BY <4>3, PutIs
        <5>3. held'[c].request = c
          BY <4>3, PutIs
        <5>4. DOMAIN held' = DOMAIN held
          BY <3>1, <5>1
        <5>5. QED
          BY <5>2, <5>3, <5>4
      <4>4. QED
        BY <4>1, <4>2, <4>3
    <3>4. QED
      BY <3>1, <3>2, <3>3 DEF TableOK
  <2>6. CASE Finish(c)
    <3>1. step[c] \in {"isolated", "answered"} /\ step' = [step EXCEPT ![c] = "done"]
      BY <2>6 DEF Finish
    <3>2. UNCHANGED held \/ held' = Without({c})
      BY <2>6 DEF Finish, DropLease
    <3>3. /\ DOMAIN held \ {c} \subseteq DOMAIN held'
          /\ DOMAIN held' \subseteq DOMAIN held
          /\ \A p \in DOMAIN held' : held'[p] = held[p]
      <4>1. CASE held' = Without({c})
        BY <4>1, WithoutIs
      <4>2. QED
        BY <3>2, <4>1
    <3>4. \A p \in Owner : p # c => step'[p] = step[p]
      BY <3>1
    <3>5. step'[c] = "done"
      BY <3>1
    <3>6. ASSUME NEW p \in Owner, step'[p] \in {"leased", "sent", "answered"}
          PROVE  p \in DOMAIN held'
      BY <3>3, <3>4, <3>5, <3>6 DEF TableOK
    <3>7. QED
      BY <3>3, <3>4, <3>5, <3>6 DEF TableOK
  <2>7. QED
    BY <1>3, <2>1, <2>2, <2>3, <2>4, <2>5, <2>6 DEF Proceed
<1>4. ASSUME NEW c \in Owner, AbandonQueued(c) PROVE TableOK'
  BY <1>4 DEF AbandonQueued, TableOK
<1>5. ASSUME NEW c \in Owner, AbandonSent(c) PROVE TableOK'
  <2>1. step[c] = "sent" /\ step' = [step EXCEPT ![c] = "done"]
    BY <1>5 DEF AbandonSent
  <2>2. held' = Without({c})
    BY <1>5, <2>1 DEF AbandonSent, DropLease, TableOK
  <2>3. /\ DOMAIN held' = DOMAIN held \ {c}
        /\ \A p \in DOMAIN held' : held'[p] = held[p]
    BY <2>2, WithoutIs
  <2>4. QED
    BY <2>1, <2>3 DEF TableOK
<1>6. ASSUME NEW c \in Owner, NEW outcome \in {"known", "failed"},
             PageEnds(c, outcome) \/ Disconnect(c)
      PROVE  TableOK'
  BY <1>1, <1>6 DEF PageEnds, Disconnect, vars
<1>7. ASSUME NEW c \in Owner, Settle(c) PROVE TableOK'
  <2>1. PICK S \in SUBSET QuarantinedFor(c) : held' = Without(S)
    BY <1>7, SettleTakes
  <2>2. \A o \in (DOMAIN held) \cap S : held[o].quarantined
    BY <2>1 DEF QuarantinedFor
  <2>3. QED
    BY <1>7, <2>1, <2>2, LiftKeepsTable DEF Settle
<1>8. ASSUME NEW c \in Owner, SweepCommand(c) PROVE TableOK'
  BY <1>8, LiftKeepsTable DEF SweepCommand, Sweep, ExpiredOwners, Expired
<1>9. ASSUME NEW c \in Owner, HostReleases(c) PROVE TableOK'
  <2>1. PICK S : /\ held' = Without(S)
                 /\ S = {o \in DOMAIN held : held[o].quarantined /\ Matches(o, c)}
    BY <1>9 DEF HostReleases, Release
  <2>2. QED
    BY <1>9, <2>1, LiftKeepsTable DEF HostReleases
<1>10. CASE Clock \/ UNCHANGED allVars
  BY <1>1, <1>10 DEF Clock, Tick, cmdVars, allVars, vars
<1>11. QED
  BY <1>2, <1>3, <1>4, <1>5, <1>6, <1>7, <1>8, <1>9, <1>10 DEF CommandNext

(* Whatever the history newly knows reached the bridge, and stays so.      *)
LEMMA LateFollows ==
  ASSUME LateOK,
         \A d \in Owner : result[d] = "known" => result'[d] = "known",
         \A j \in DOMAIN late' : late'[j].known /\ late'[j].key \in Owner
           => SettledSafely(late'[j].key) \/ result'[late'[j].key] = "known"
  PROVE  LateOK'
<1> SUFFICES ASSUME NEW d \in Owner, NEW j \in DOMAIN late',
                    late'[j].key = d, late'[j].known
             PROVE  result'[d] = "known"
  BY DEF LateOK, SettledSafely
<1>1. SettledSafely(d) \/ result'[d] = "known"
  OBVIOUS
<1>2. QED
  BY <1>1 DEF LateOK

(* What is remembered as known has reached the bridge (settle_late).       *)
LEMMA CommandKeepsLate ==
  ASSUME ArbiterAssumption, CommandAssumption, CommandTypeOK, LateOK,
         [CommandNext]_allVars
  PROVE  LateOK'
<1>0. TypeOK /\ result \in [Owner -> {"none", "known", "failed", "lost"}]
  BY DEF CommandTypeOK
<1>1. CASE UNCHANGED <<late, result>>
  BY <1>1 DEF LateOK, SettledSafely
<1>2. ASSUME NEW c \in Owner, NEW rs \in Scopes, NEW wait \in Waits,
             HandleCommand(c, rs, wait)
      PROVE  LateOK'
  BY <1>1, <1>2 DEF HandleCommand, Request
<1>3. ASSUME NEW c \in Owner, Lock(c) \/ Proceed(c) PROVE LateOK'
  <2>1. CASE Lock(c) \/ ((Park(c) \/ Wake(c)) /\ UNCHANGED cmdVars)
    BY <1>1, <2>1 DEF Lock, EnterAcquire, Park, Wake, cmdVars
  <2>2. CASE Granted(c) \/ Refused(c)
    BY <1>1, <2>2 DEF Granted, Grant, Refused, Refuse
  <2>3. CASE Send(c) \/ Receive(c) \/ TimeOut(c)
    BY <1>1, <2>3 DEF Send, Receive, TimeOut, vars
  <2>4. CASE Isolate(c)
    <3>1. CASE UNCHANGED late
      BY <1>1, <2>4, <3>1 DEF Isolate
    <3>2. CASE SettledSafely(c)
               /\ late' = [late EXCEPT ![IndexOf(c)] =
                             [key |-> c, known |-> TRUE, released |-> TRUE]]
      <4>1. late \in Seq(LateRecord) /\ DOMAIN late = 1..Len(late)
        BY <1>0 DEF TypeOK
      <4>2. /\ DOMAIN late' = DOMAIN late
            /\ \A j \in DOMAIN late : late'[j] = late[j] \/ late'[j].key = c
        BY <3>2, <4>1
      <4>3. \A j \in DOMAIN late' : late'[j].known => SettledSafely(late'[j].key)
        BY <3>2, <4>2 DEF SettledSafely
      <4>4. UNCHANGED result
        BY <2>4 DEF Isolate
      <4>5. QED
        BY <4>3, <4>4, LateFollows
    <3>3. QED
      BY <2>4, <3>1, <3>2 DEF Isolate, Quarantine
  <2>5. CASE Finish(c)
    BY <1>1, <2>5 DEF Finish, DropLease
  <2>6. QED
    BY <1>3, <2>1, <2>2, <2>3, <2>4, <2>5 DEF Proceed
<1>4. ASSUME NEW c \in Owner, AbandonQueued(c) \/ AbandonSent(c) PROVE LateOK'
  BY <1>1, <1>4 DEF AbandonQueued, AbandonSent, DropLease
<1>5. ASSUME NEW c \in Owner, NEW outcome \in {"known", "failed"},
             PageEnds(c, outcome) \/ Disconnect(c)
      PROVE  LateOK'
  <2>1. \A d \in Owner : result[d] = "known" => result'[d] = "known"
    BY <1>0, <1>5 DEF PageEnds, Disconnect
  <2>2. UNCHANGED late
    BY <1>5 DEF PageEnds, Disconnect, vars
  <2>3. QED
    BY <2>1, <2>2 DEF LateOK, SettledSafely
<1>6. ASSUME NEW c \in Owner, Settle(c) PROVE LateOK'
  <2> DEFINE known == result[c] = "known"
  <2> DEFINE lifts == known /\ QuarantinedFor(c) # {}
  <2>1. /\ known \in BOOLEAN /\ lifts \in BOOLEAN /\ c \in Key
        /\ late' = RecordLate(c, known, lifts)
    BY <1>6 DEF Key, Settle, SettleLate
  <2>2. \A d \in Owner : result[d] = "known" => result'[d] = "known"
    BY <1>0, <1>6 DEF Settle
  <2>3. known => result'[c] = "known"
    BY <2>2
  <2> HIDE DEF known, lifts
  <2>4. \A j \in DOMAIN late' :
          late'[j].known => SettledSafely(late'[j].key) \/ (known /\ late'[j].key = c)
    BY <1>0, <2>1, RecordLateKnows
  <2>5. QED
    BY <2>2, <2>3, <2>4, LateFollows
<1>7. ASSUME NEW c \in Owner, SweepCommand(c) PROVE LateOK'
  <2>1. LateKey(c) \in Key /\ late' = RecordLate(LateKey(c), FALSE, TRUE)
    BY <1>0, <1>7 DEF SweepCommand, Sweep, ExpiredOwners, LateKey, Key, TypeOK, Entry
  <2>2. \A j \in DOMAIN late' : late'[j].known => SettledSafely(late'[j].key)
    BY <1>0, <2>1, RecordLateKnows
  <2>3. UNCHANGED result
    BY <1>7 DEF SweepCommand
  <2>4. QED
    BY <2>2, <2>3, LateFollows
<1>8. ASSUME NEW c \in Owner, HostReleases(c) PROVE LateOK'
  BY <1>1, <1>8 DEF HostReleases, Release
<1>9. CASE Clock \/ UNCHANGED allVars
  BY <1>1, <1>9 DEF Clock, Tick, cmdVars, allVars, vars
<1>10. QED
  BY <1>2, <1>3, <1>4, <1>5, <1>6, <1>7, <1>8, <1>9 DEF CommandNext

(* No two claims of the table meet: one that meets another is not granted, *)
(* and a quarantine keeps the resources of its lease (try_acquire).        *)
LEMMA CommandKeepsApart ==
  ASSUME ArbiterAssumption, CommandAssumption, IInv, Apart, [CommandNext]_allVars
  PROVE  Apart'
<1>1. ASSUME NEW S, held' = Without(S) PROVE Apart'
  <2>1. /\ DOMAIN held' \subseteq DOMAIN held
        /\ \A o \in DOMAIN held' : held'[o] = held[o]
    BY <1>1, WithoutIs
  <2> SUFFICES ASSUME NEW p \in DOMAIN held', NEW q \in DOMAIN held', p # q
               PROVE  ~Clash(held'[p].resources, held'[q].resources)
    BY DEF Apart, Clash, Conflicts
  <2>2. QED
    BY <2>1 DEF Apart
<1>2. CASE UNCHANGED held
  BY <1>2 DEF Apart, Clash, Conflicts
<1>3. ASSUME NEW c \in Owner, Grant(c) PROVE Apart'
  <2>1. c \notin DOMAIN held /\ want[c] \in SUBSET Resource
    BY <1>3 DEF Grant, IInv, SectionOK, CallerOK, TypeOK
  <2>2. /\ DOMAIN held' = DOMAIN held \cup {c}
        /\ \A p \in DOMAIN held : held'[p] = held[p]
        /\ held'[c].resources = want[c]
    BY <1>3, <2>1 DEF Grant, Put
  <2>3. \A p \in DOMAIN held : /\ ~Clash(want[c], held[p].resources)
                                /\ ~Clash(held[p].resources, want[c])
    BY <1>3, ClashSymmetric DEF Grant, Blockers
  <2> SUFFICES ASSUME NEW p \in DOMAIN held', NEW q \in DOMAIN held', p # q
               PROVE  ~Clash(held'[p].resources, held'[q].resources)
    BY DEF Apart, Clash, Conflicts
  <2>4. CASE p \in DOMAIN held /\ q \in DOMAIN held
    BY <2>2, <2>4 DEF Apart
  <2>5. CASE p = c \/ q = c
    BY <2>1, <2>2, <2>3, <2>5
  <2>6. QED
    BY <2>2, <2>4, <2>5
<1>4. ASSUME NEW c \in Owner, Isolate(c) PROVE Apart'
  <2>1. CASE c \in DOMAIN held /\ held' = Put(c, held[c].resources, TRUE, c)
    <3>1. held' = Put(c, held[c].resources, TRUE, c) /\ c \in DOMAIN held
      BY <2>1
    <3>2. DOMAIN held' = DOMAIN held \cup {c}
      BY <3>1, PutIs
    <3>3. held'[c].resources = held[c].resources
      BY <3>1, PutIs
    <3>4. \A p \in DOMAIN held : p # c => held'[p] = held[p]
      BY <3>1, PutIs
    <3>5. \A p \in DOMAIN held : held'[p].resources = held[p].resources
      BY <3>3, <3>4
    <3>6. DOMAIN held' = DOMAIN held
      BY <3>1, <3>2
    <3> SUFFICES ASSUME NEW p \in DOMAIN held', NEW q \in DOMAIN held', p # q
                 PROVE  ~Clash(held'[p].resources, held'[q].resources)
      BY DEF Apart, Clash, Conflicts
    <3>7. QED
      BY <3>5, <3>6 DEF Apart
  <2>2. QED
    BY <1>2, <1>4, <2>1 DEF Isolate, Quarantine
<1>5. ASSUME NEW c \in Owner, DropLease(c) PROVE Apart'
  BY <1>1, <1>2, <1>5 DEF DropLease
<1>6. ASSUME NEW c \in Owner, Settle(c) PROVE Apart'
  BY <1>1, <1>6, SettleTakes DEF IInv
<1>7. ASSUME NEW c \in Owner, Proceed(c) PROVE Apart'
  BY <1>2, <1>3, <1>4, <1>5, <1>7 DEF Proceed, Granted, Refused, Refuse, Park, Wake,
                                      Send, Receive, TimeOut, Finish, vars
<1>8. ASSUME NEW c \in Owner, SweepCommand(c) \/ HostReleases(c) PROVE Apart'
  BY <1>1, <1>8 DEF SweepCommand, Sweep, HostReleases, Release
<1>9. CASE \E c \in Owner, rs \in Scopes, wait \in Waits : HandleCommand(c, rs, wait)
  BY <1>2, <1>9 DEF HandleCommand, Request
<1>10. CASE \E c \in Owner, outcome \in {"known", "failed"} :
              PageEnds(c, outcome) \/ Disconnect(c) \/ Lock(c) \/ AbandonQueued(c)
  BY <1>2, <1>10 DEF PageEnds, Disconnect, Lock, EnterAcquire, AbandonQueued, vars
<1>11. ASSUME NEW c \in Owner, AbandonSent(c) PROVE Apart'
  BY <1>5, <1>11 DEF AbandonSent
<1>12. CASE Clock \/ UNCHANGED allVars
  BY <1>2, <1>12 DEF Clock, Tick, cmdVars, allVars, vars
<1>13. QED
  BY <1>6, <1>7, <1>8, <1>9, <1>10, <1>11, <1>12 DEF CommandNext

(* A claim in the table with the isolation that stands for a script.       *)
Isolated(c) == c \in DOMAIN held /\ held[c].quarantined

(* A step that leaves the scripts, the results, the answers and the places *)
(* of the commands as they are may take the isolation of a script only if  *)
(* somebody lifted it.                                                     *)
LEMMA LiftKeepsPage ==
  ASSUME PageOK, UNCHANGED <<page, step, answer>>,
         \A c \in Owner : result'[c] \in {"known", "failed"} => result[c] = result'[c],
         \A c \in Owner : c \in lifted => c \in lifted',
         \A c \in Owner : Isolated(c) /\ page[c] = "running"
           => Isolated(c)' \/ c \in lifted'
  PROVE  PageOK'
BY DEF PageOK, Isolated

(* A step of one command that leaves the scripts and the isolation of all  *)
(* as they are.                                                            *)
LEMMA StepKeepsPage ==
  ASSUME CommandTypeOK, PageOK, NEW c \in Owner, NEW st \in Step,
         step' = [step EXCEPT ![c] = st],
         UNCHANGED <<page, result, lifted>>,
         \A d \in Owner : d # c => answer'[d] = answer[d],
         \A d \in Owner : Isolated(d) => Isolated(d)',
         page[c] # "none" => st \in {"sent", "answered", "isolated", "done"},
         page[c] = "running" /\ st = "answered" => answer'[c] = "unknown",
         page[c] = "running" /\ st \in {"isolated", "done"}
           => c \in lifted \/ Isolated(c)'
  PROVE  PageOK'
BY DEF PageOK, Isolated, CommandTypeOK

(* What is put under c does not touch the isolation of the others, and     *)
(* keeps that of c if it is a quarantine.                                  *)
LEMMA LeaseKeepsIsolation ==
  ASSUME NEW c, NEW d, Isolated(d), c # d,
         held' = Without({c}) \/ UNCHANGED held
  PROVE  Isolated(d)'
<1>1. CASE UNCHANGED held
  BY <1>1 DEF Isolated
<1>2. CASE held' = Without({c})
  <2>1. DOMAIN held' = DOMAIN held \ {c}
        /\ \A o \in DOMAIN held \ {c} : held'[o] = held[o]
    BY <1>2, WithoutIs
  <2>2. QED
    BY <2>1 DEF Isolated
<1>3. QED
  BY <1>1, <1>2

(* A script that may still act is waited for, or isolated, or was lifted   *)
(* (execute_page_script, quarantine_request, settle_late).                 *)
LEMMA CommandKeepsPage ==
  ASSUME ArbiterAssumption, CommandAssumption, IInv, CommandTypeOK, StageOK, TableOK,
         PageOK, LateOK, [CommandNext]_allVars
  PROVE  PageOK'
<1>0. /\ step \in [Owner -> Step] /\ page \in [Owner -> {"none", "running", "over"}]
      /\ result \in [Owner -> {"none", "known", "failed", "lost"}]
      /\ answer \in [Owner -> Answer]
  BY DEF CommandTypeOK
<1>1. CASE UNCHANGED <<held, page, step, answer, result, lifted>>
  BY <1>1, LiftKeepsPage DEF Isolated
<1>2. ASSUME UNCHANGED held PROVE \A d \in Owner : Isolated(d) => Isolated(d)'
  BY <1>2 DEF Isolated
<1>3. ASSUME NEW c \in Owner, NEW rs \in Scopes, NEW wait \in Waits,
             HandleCommand(c, rs, wait)
      PROVE  PageOK'
  <2>1. page[c] = "none" /\ "acquiring" \in Step
    BY <1>0, <1>3 DEF HandleCommand, PageOK, Step
  <2>2. QED
    BY <1>2, <1>3, <2>1, StepKeepsPage DEF HandleCommand, Request
<1>4. ASSUME NEW c \in Owner, Lock(c) \/ Proceed(c) PROVE PageOK'
  <2>1. CASE Lock(c) \/ ((Park(c) \/ Wake(c)) /\ UNCHANGED cmdVars)
    BY <1>1, <2>1 DEF Lock, EnterAcquire, Park, Wake, cmdVars
  <2>2. CASE Granted(c) \/ Refused(c)
    <3>1. stage[c] = "trying" /\ c \notin DOMAIN held
      BY <2>2 DEF Granted, Grant, Refused, Refuse, IInv, SectionOK, CallerOK
    <3>2. step[c] = "acquiring"
      BY <3>1 DEF StageOK
    <3>3. page[c] = "none"
      BY <3>2 DEF PageOK
    <3>4. CASE Granted(c)
      <4>1. \A d \in Owner : Isolated(d) => Isolated(d)'
        BY <3>1, <3>4 DEF Granted, Grant, Put, Isolated
      <4>2. "leased" \in Step
        BY DEF Step
      <4>3. QED
        BY <3>3, <3>4, <4>1, <4>2, StepKeepsPage DEF Granted
    <3>5. CASE Refused(c)
      <4>1. "done" \in Step /\ \A d \in Owner : d # c => answer'[d] = answer[d]
        BY <1>0, <3>5 DEF Step, Refused
      <4>2. QED
        BY <1>2, <3>3, <3>5, <4>1, StepKeepsPage DEF Refused, Refuse
    <3>6. QED
      BY <2>2, <3>4, <3>5
  <2>3. CASE Send(c)
    <3>1. /\ step[c] = "leased" /\ page[c] # "running"
          /\ page[c] = "none" /\ UNCHANGED <<held, result, lifted>>
      BY <2>3 DEF Send, vars, PageOK
    <3>2. CASE /\ step' = [step EXCEPT ![c] = "sent"]
               /\ page' = [page EXCEPT ![c] = "running"]
               /\ UNCHANGED answer
      <4>1. /\ step'[c] = "sent" /\ page'[c] = "running"
            /\ \A d \in Owner : d # c => step'[d] = step[d] /\ page'[d] = page[d]
        BY <1>0, <3>2
      <4>2. result[c] \notin {"known", "failed"}
        BY <3>1 DEF PageOK
      <4>3. QED
        BY <3>1, <3>2, <4>1, <4>2 DEF PageOK
    <3>3. CASE /\ step' = [step EXCEPT ![c] = "answered"]
               /\ answer' = [answer EXCEPT ![c] = "refused"]
               /\ UNCHANGED page
      <4>1. "answered" \in Step /\ \A d \in Owner : d # c => answer'[d] = answer[d]
        BY <1>0, <3>3 DEF Step
      <4>2. QED
        BY <1>2, <3>1, <3>3, <4>1, StepKeepsPage
    <3>4. QED
      BY <2>3, <3>2, <3>3 DEF Send
  <2>4. CASE Receive(c)
    <3>1. /\ "answered" \in Step
          /\ answer'[c] = AnswerTo(result[c])
          /\ \A d \in Owner : d # c => answer'[d] = answer[d]
      BY <1>0, <2>4 DEF Receive, Step
    <3>2. page[c] = "running" => answer'[c] = "unknown"
      BY <2>4, <3>1 DEF PageOK, AnswerTo
    <3>3. UNCHANGED held
      BY <2>4 DEF Receive, vars
    <3>4. QED
      BY <1>2, <2>4, <3>1, <3>2, <3>3, StepKeepsPage DEF Receive
  <2>5. CASE TimeOut(c)
    <3>1. /\ "answered" \in Step
          /\ answer'[c] = "unknown"
          /\ \A d \in Owner : d # c => answer'[d] = answer[d]
      BY <1>0, <2>5 DEF TimeOut, Step
    <3>2. UNCHANGED held
      BY <2>5 DEF TimeOut, vars
    <3>3. QED
      BY <1>2, <2>5, <3>1, <3>2, StepKeepsPage DEF TimeOut
  <2>6. CASE Isolate(c)
    <3>1. c \in DOMAIN held /\ "isolated" \in Step
      BY <2>6 DEF Isolate, TableOK, Step
    <3>2. CASE SettledSafely(c) /\ UNCHANGED held
      <4>1. page[c] # "running"
        BY <3>2 DEF LateOK, PageOK
      <4>2. QED
        BY <1>2, <2>6, <3>1, <3>2, <4>1, StepKeepsPage DEF Isolate
    <3>3. CASE held' = Put(c, held[c].resources, TRUE, c)
      <4>1. DOMAIN held' = DOMAIN held \cup {c}
        BY <3>3, PutIs
      <4>2. held'[c].quarantined
        BY <3>3, PutIs
      <4>3. \A p \in DOMAIN held : p # c => held'[p] = held[p]
        BY <3>3, PutIs
      <4>4. Isolated(c)'
        BY <4>1, <4>2 DEF Isolated
      <4>5. \A d \in Owner : Isolated(d) => Isolated(d)'
        BY <4>1, <4>3, <4>4 DEF Isolated
      <4>6. QED
        BY <2>6, <3>1, <4>4, <4>5, StepKeepsPage DEF Isolate
    <3>4. QED
      BY <2>6, <3>1, <3>2, <3>3 DEF Isolate, Quarantine
  <2>7. CASE Finish(c)
    <3>1. "done" \in Step /\ step' = [step EXCEPT ![c] = "done"]
          /\ UNCHANGED <<page, result, lifted, answer>>
      BY <2>7 DEF Finish, Step
    <3>2. Isolated(c) => UNCHANGED held
      BY <2>7 DEF Finish, DropLease, Isolated
    <3>3. held' = Without({c}) \/ UNCHANGED held
      BY <2>7 DEF Finish, DropLease
    <3>4. \A d \in Owner : Isolated(d) => Isolated(d)'
      BY <1>2, <3>2, <3>3, LeaseKeepsIsolation
    <3>5. page[c] = "running" => step[c] = "isolated"
      BY <2>7 DEF Finish, PageOK, RequiresQuarantine
    <3>6. page[c] = "running" => c \in lifted \/ Isolated(c)
      BY <3>5 DEF PageOK, Isolated
    <3>7. QED
      BY <3>1, <3>4, <3>6, StepKeepsPage
  <2>8. QED
    BY <1>4, <2>1, <2>2, <2>3, <2>4, <2>5, <2>6, <2>7 DEF Proceed
<1>5. ASSUME NEW c \in Owner, AbandonQueued(c) PROVE PageOK'
  <2>1. page[c] = "none" /\ "done" \in Step
    BY <1>0, <1>5 DEF AbandonQueued, PageOK, Step
  <2>2. QED
    BY <1>2, <1>5, <2>1, StepKeepsPage DEF AbandonQueued
<1>6. ASSUME NEW c \in Owner, AbandonSent(c) PROVE PageOK'
  <2>1. /\ step' = [step EXCEPT ![c] = "done"] /\ UNCHANGED <<page, answer, result>>
        /\ lifted' = lifted \cup {c}
        /\ held' = Without({c}) \/ UNCHANGED held
    BY <1>6 DEF AbandonSent, DropLease
  <2>2. \A d \in Owner : d # c /\ Isolated(d) => Isolated(d)'
    BY <2>1, LeaseKeepsIsolation
  <2>3. QED
    BY <1>0, <2>1, <2>2 DEF PageOK, Isolated
<1>7. ASSUME NEW c \in Owner, NEW outcome \in {"known", "failed"}, PageEnds(c, outcome)
      PROVE  PageOK'
  <2>1. /\ page' = [page EXCEPT ![c] = "over"]
        /\ result' = result \/ result' = [result EXCEPT ![c] = outcome]
        /\ UNCHANGED <<held, step, answer, lifted>>
    BY <1>7 DEF PageEnds, vars
  <2>2. page[c] = "running"
    BY <1>7 DEF PageEnds
  <2>3. page'[c] = "over" /\ \A d \in Owner : d # c => page'[d] = page[d]
    BY <1>0, <2>1
  <2>4. \A d \in Owner : d # c => result'[d] = result[d]
    BY <1>0, <2>1
  <2>5. QED
    BY <2>1, <2>2, <2>3, <2>4 DEF PageOK
<1>8. ASSUME NEW c \in Owner, Disconnect(c) PROVE PageOK'
  BY <1>0, <1>8 DEF Disconnect, vars, PageOK
<1>9. ASSUME NEW c \in Owner, Settle(c) PROVE PageOK'
  <2>1. PICK S \in SUBSET QuarantinedFor(c) :
          held' = Without(S) /\ (S # {} => result[c] = "known")
    BY <1>9, SettleTakes DEF IInv
  <2>2. S \subseteq {c}
    BY <2>1, OwnQuarantine
  <2>3. S # {} => page[c] # "running"
    BY <2>1 DEF PageOK
  <2>4. ASSUME NEW d \in Owner, Isolated(d), page[d] = "running"
        PROVE  Isolated(d)'
    <3>1. d \notin S
      BY <2>2, <2>3, <2>4
    <3>2. DOMAIN held' = DOMAIN held \ S
          /\ \A o \in DOMAIN held \ S : held'[o] = held[o]
      BY <2>1, WithoutIs
    <3>3. QED
      BY <2>4, <3>1, <3>2 DEF Isolated
  <2>5. \A d \in Owner : result'[d] \in {"known", "failed"} => result[d] = result'[d]
    BY <1>0, <1>9 DEF Settle
  <2>6. QED
    BY <1>9, <2>4, <2>5, LiftKeepsPage DEF Settle
<1>10. ASSUME NEW c \in Owner, SweepCommand(c) PROVE PageOK'
  <2>1. held' = Without({c}) /\ lifted' = lifted \cup {c}
        /\ UNCHANGED <<step, answer, page, result>>
    BY <1>10 DEF SweepCommand, Sweep
  <2>2. \A d \in Owner : Isolated(d) => Isolated(d)' \/ d \in lifted'
    BY <2>1, LeaseKeepsIsolation
  <2>3. QED
    BY <2>1, <2>2, LiftKeepsPage
<1>11. ASSUME NEW c \in Owner, HostReleases(c) PROVE PageOK'
  <2>1. PICK S : /\ held' = Without(S)
                 /\ S = {o \in DOMAIN held : held[o].quarantined /\ Matches(o, c)}
    BY <1>11 DEF HostReleases, Release
  <2>2. S \subseteq {c}
    BY <2>1, OwnQuarantine
  <2>3. lifted' = lifted \cup {c} /\ UNCHANGED <<step, answer, page, result>>
    BY <1>11 DEF HostReleases
  <2>4. \A d \in Owner : Isolated(d) => Isolated(d)' \/ d \in lifted'
    BY <2>1, <2>2, <2>3, WithoutIs DEF Isolated
  <2>5. QED
    BY <2>3, <2>4, LiftKeepsPage
<1>12. CASE Clock \/ UNCHANGED allVars
  BY <1>1, <1>12 DEF Clock, Tick, cmdVars, allVars, vars
<1>13. QED
  BY <1>3, <1>4, <1>5, <1>6, <1>7, <1>8, <1>9, <1>10, <1>11, <1>12 DEF CommandNext

-----------------------------------------------------------------------------
(* The theorem                                                             *)

(* A new application, whose journal holds nothing.                         *)
LEMMA CommandStarts ==
  ASSUME ArbiterAssumption, CommandInit
  PROVE  CommandIInv
<1>1. IInv
  <2>1. DOMAIN held = {} /\ held \in [DOMAIN held -> Entry]
    BY DEF CommandInit
  <2>2. late \in Seq(LateRecord)
    BY DEF CommandInit
  <2>3. stage \in [Owner -> Stage] /\ want \in [Owner -> SUBSET Resource]
        /\ deadline \in [Owner -> Nat]
    BY DEF CommandInit, Stage
  <2>4. now \in 0..MaxTime
    BY DEF CommandInit, ArbiterAssumption
  <2>5. TypeOK
    BY <2>1, <2>2, <2>3, <2>4 DEF CommandInit, TypeOK
  <2>6. CallerOK /\ SectionOK
    BY DEF CommandInit, CallerOK, SectionOK, ArbiterAssumption
  <2>7. QED
    BY <2>1, <2>5, <2>6 DEF IInv, ActiveOK, ActiveIsExclusive
<1>2. CommandTypeOK
  BY <1>1 DEF CommandInit, CommandTypeOK, IInv, Step, Answer
<1>3. StageOK /\ TableOK /\ PageOK /\ Apart
  BY DEF CommandInit, StageOK, TableOK, PageOK, Apart
<1>4. LateOK
  <2>1. DOMAIN late = {}
    BY DEF CommandInit
  <2>2. QED
    BY <2>1 DEF LateOK, SettledSafely
<1>5. QED
  BY <1>1, <1>2, <1>3, <1>4 DEF CommandIInv

(* The inductive invariant of the commands, for any number of them.        *)
THEOREM CommandInvariance == CommandSpec => []CommandIInv
<1>1. CommandInit => CommandIInv
  BY CommandStarts, ArbiterAssumption
<1>2. CommandIInv /\ [CommandNext]_allVars => CommandIInv'
  <2> SUFFICES ASSUME CommandIInv, [CommandNext]_allVars PROVE CommandIInv'
    OBVIOUS
  <2> USE ArbiterAssumption, CommandAssumption DEF CommandIInv
  <2>1. IInv' /\ TypeOK'
    BY CommandKeepsIInv DEF IInv
  <2>2. CommandTypeOK'
    BY <2>1, CommandKeepsType
  <2>3. StageOK'
    BY CommandKeepsStage DEF IInv
  <2>4. TableOK' /\ PageOK'
    BY CommandKeepsTable, CommandKeepsPage
  <2>5. LateOK' /\ Apart'
    BY CommandKeepsLate, CommandKeepsApart
  <2>6. QED
    BY <2>1, <2>2, <2>3, <2>4, <2>5
<1>3. QED
  BY <1>1, <1>2, PTL DEF CommandSpec

(* Two scripts that claim conflicting resources are in the page together   *)
(* only if the isolation of one was lifted without knowing its outcome,    *)
(* for any number of commands and in any order of timeouts, late results,  *)
(* grants, sweeps and disconnects (handle_command, execute_page_script).   *)
THEOREM EffectsAreExclusive == CommandSpec => []ExclusiveEffects
<1>1. CommandIInv => ExclusiveEffects
  <2> SUFFICES ASSUME CommandIInv PROVE ExclusiveEffects
    OBVIOUS
  <2>1. ASSUME NEW c \in Owner, page[c] = "running" PROVE ClaimedBy(c)
    BY <2>1 DEF CommandIInv, PageOK, TableOK, ClaimedBy
  <2>2. \A c, d \in DOMAIN held : c # d => ~Clash(held[c].resources, held[d].resources)
    BY DEF CommandIInv, Apart
  <2>3. QED
    BY <2>1, <2>2 DEF ExclusiveEffects
<1>2. QED
  BY <1>1, CommandInvariance, PTL

=============================================================================
