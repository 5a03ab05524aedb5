---------------------------- MODULE CaptureProofs ---------------------------
(***************************************************************************)
(* Theorems about Capture, for any limits, sessions, sources and pages:    *)
(* that its state has its types, and that its readers miss nothing.        *)
(*                                                                         *)
(* The argument.  The store only ages (nothing begins and nothing is       *)
(* stored), draws a source, starts a session, lets sessions follow a       *)
(* page, or adds a batch; each is a relation between two stores, shown     *)
(* once of each operation of the store and used for every step.  What      *)
(* ties the store to the page is their numbers: those of the queue and of  *)
(* an unanswered batch are above whatever the store has seen of their      *)
(* source, those of an answered batch are seen.  So a batch that is        *)
(* resent adds nothing and one that is new adds all of its events, each    *)
(* after the last; and what a session observes behind a reader's cursor    *)
(* does not change any more, but for events that leave when the store is   *)
(* full, whose observers count a drop and whose readers find the gap.      *)
(***************************************************************************)
EXTENDS Capture, FiniteSetTheorems, SequenceTheorems, WellFoundedInduction, TLAPS

-----------------------------------------------------------------------------
(* The state, and the invariants of its parts                              *)

(* The types.                                                              *)
Statuses == {"none", "active", "stopped", "expired", "interrupted"}
SessionType ==
  [status : Statuses, sources : Seq(Sources), start : Nat, end : Nat, dropped : Nat,
   applied : BOOLEAN, late : BOOLEAN, clean : BOOLEAN]
SourceType ==
  [context : Nat, dropped : Nat, interrupted : BOOLEAN, retired : Nat]
Event == [seq : Nat, source : Sources, number : Nat]
StoreType ==
  [session : [Session -> SessionType], source : [Sources -> SourceType],
   events : Seq(Event), seen : SUBSET Event, sequence : Nat, drawn : Nat,
   cleanup : SUBSET Sources]

Replies == {"none", "ok", "failed", "drained", "undrained"}
Confirming == {"confirm_start", "rolled_back", "confirm_stop"}
SerialType ==
  {Idle} \cup [what : {"starting"}, session : Session, context : Nat \ {0}]
         \cup [what : {"stopping"}, session : Session]
         \cup [what : {"following"}, session : {"none"}, context : Nat \ {0}]
         \cup [what : Confirming, session : Session, source : Sources, reply : Replies]
         \cup [what : {"confirm_follow", "cleaning"}, session : {"none"},
               source : Sources, reply : Replies]
Item == [number : Nat, source : Sources, generation : Nat]
PageType ==
  [leases : SUBSET Session, source : Sources \cup {0}, generation : Nat, dropped : Nat,
   number : Nat, queue : Seq(Item), inFlight : BOOLEAN, drain : BOOLEAN]
Message ==
  [what : {"configure", "expire"}, source : Sources, leases : SUBSET Session,
   drain : BOOLEAN, awaited : BOOLEAN]
BatchType ==
  [document : Nat, source : Sources, dropped : Nat, numbers : Seq(Nat), generation : Nat,
   answer : {"none", "continue", "end"}, again : BOOLEAN]
RecordedType ==
  [document : Nat, number : Nat, source : Sources, observers : SUBSET Session]
HistoryType ==
  [recorded : SUBSET RecordedType, lost : SUBSET [document : Nat, number : Nat],
   stored : SUBSET Event, loaded : Nat, begun : [Session -> BOOLEAN]]
ReadingType == [Session -> [cursor : Nat, given : SUBSET Event, gap : BOOLEAN]]

PageTypeOK(pg, scr) ==
  /\ pg \in PageType /\ scr \in Seq(Message)
  /\ pg.leases # {} => pg.source \in Sources

CaptureTypeOK ==
  /\ store \in StoreType /\ serial \in SerialType /\ moved \in BOOLEAN /\ permitted \in BOOLEAN
  /\ document \in Nat \ {0} /\ PageTypeOK(page, script)
  /\ batches \subseteq BatchType /\ reading \in ReadingType /\ history \in HistoryType
  /\ trouble \in Nat

-----------------------------------------------------------------------------
(* The store                                                               *)

(* Who is retained has sources, and what is observed, served or to be      *)
(* cleaned up was drawn.                                                   *)
SourcesKnown(st) ==
  /\ \A s \in Retained(st) :
       /\ st.session[s].sources # <<>>
       /\ \A id \in Sources : Observes(st, s, id) => st.source[id].context # 0
  /\ \A id \in Sources : st.source[id].context # 0 => id <= st.drawn
  /\ \A id \in st.cleanup : id <= st.drawn

(* A source that a page may still deliver for.                             *)
Live(st, id) == st.source[id].context # 0 /\ ~st.source[id].interrupted

(* A document has one live source.                                         *)
OneLive(st) ==
  \A id, jd \in Sources : Live(st, id) /\ Live(st, jd)
                          /\ st.source[id].context = st.source[jd].context => id = jd

(* The store holds the latest events, as many as it has room for,          *)
(* numbered without a gap.                                                 *)
Consecutive(st) ==
  /\ Len(st.events) <= MaxStored /\ Len(st.events) <= st.sequence
  /\ \A i \in DOMAIN st.events : /\ st.events[i].seq + Len(st.events) = st.sequence + i
                                 /\ st.events[i].source <= st.drawn
  /\ st.seen = ToSet(st.events)

(* A session begins and ends at events that the store knows.               *)
RangesOK(st) ==
  \A s \in Retained(st) : /\ 1 <= st.session[s].start /\ st.session[s].start <= st.sequence + 1
                          /\ st.session[s].end <= st.sequence

(* Who captures from an interrupted source, or was stopped without a       *)
(* drain, has counted a drop.                                              *)
DropsTold(st) ==
  \A s \in Session :
    /\ Capturing(st, s) =>
         \A id \in Sources : Observes(st, s, id) /\ st.source[id].interrupted
                             => st.session[s].dropped > 0
    /\ st.session[s].status = "stopped" /\ ~st.session[s].clean => st.session[s].dropped > 0

(* The invariant of the store alone.                                       *)
StoreOK(st) ==
  st \in StoreType /\ SourcesKnown(st) /\ OneLive(st) /\ Consecutive(st) /\ RangesOK(st)
  /\ DropsTold(st)

-----------------------------------------------------------------------------
(* The page and its batches                                                *)

(* The page numbers its events in order, queues them in order, and has     *)
(* one batch of its document on its way.                                   *)
PagesOrdered(doc, pg, bs) ==
  /\ \A i \in DOMAIN pg.queue : pg.queue[i].number <= pg.number
                                /\ pg.queue[i].generation <= pg.generation
  /\ \A i, j \in DOMAIN pg.queue : i < j => pg.queue[i].number < pg.queue[j].number
  /\ \A b \in bs :
       /\ b.document <= doc
       /\ \A i, j \in DOMAIN b.numbers : i < j => b.numbers[i] < b.numbers[j]
       /\ b.document = doc =>
            /\ pg.inFlight /\ b.generation <= pg.generation
            /\ \A i \in DOMAIN b.numbers :
                 /\ b.numbers[i] <= pg.number
                 /\ \A j \in DOMAIN pg.queue : b.numbers[i] < pg.queue[j].number
            /\ \A c \in bs : c.document = doc => c = b

(* The document that a source was drawn for, 0 when it is released.        *)
Context(st, id) == st.source[id].context

(* What the page and the scripts name is drawn, of this document or none.  *)
SourcesOfPage(st, doc, pg, bs) ==
  /\ \A id \in Sources : Context(st, id) <= doc
  /\ pg.source # 0 => pg.source <= st.drawn /\ Context(st, pg.source) \in {0, doc}
  /\ \A i \in DOMAIN pg.queue : /\ pg.queue[i].source <= st.drawn
                                /\ Context(st, pg.queue[i].source) \in {0, doc}
  /\ \A b \in bs : /\ b.source <= st.drawn
                   /\ b.document # doc => ~Live(st, b.source)
                   /\ b.document = doc => Context(st, b.source) \in {0, doc}

(* The store has not seen this number of the source.                       *)
NumberNew(st, stored, id, n) ==
  Context(st, id) # 0 =>
    /\ st.source[id].retired < n
    /\ \A k \in stored : k.source = id => k.number < n

(* The store has, or had it and made room.                                 *)
NumberDone(st, id, n) ==
  Context(st, id) # 0 =>
    n <= st.source[id].retired \/ \E k \in st.seen : k.source = id /\ k.number = n

(* What is queued or on its way unanswered is new to the store; what was   *)
(* answered is not.                                                        *)
NumbersNew(st, doc, pg, bs, stored) ==
  /\ \A id \in Sources : Context(st, id) = doc /\ doc # 0 =>
       /\ st.source[id].retired <= pg.number
       /\ \A k \in stored : k.source = id => k.number <= pg.number
  /\ \A i \in DOMAIN pg.queue : NumberNew(st, stored, pg.queue[i].source, pg.queue[i].number)
  /\ \A b \in bs : b.document = doc /\ ~b.again =>
       \A i \in DOMAIN b.numbers :
         IF b.answer = "continue" THEN NumberDone(st, b.source, b.numbers[i])
         ELSE NumberNew(st, stored, b.source, b.numbers[i])

-----------------------------------------------------------------------------
(* What was stored                                                         *)

(* What was ever stored has one sequence number, and is there as long as   *)
(* the store is wide enough.                                               *)
StoredOK(st, stored) ==
  /\ ToSet(st.events) \subseteq stored
  /\ \A k \in stored :
       /\ 1 <= k.seq /\ k.seq <= st.sequence /\ k.source <= st.drawn
       /\ k.seq + Len(st.events) > st.sequence => k \in ToSet(st.events)
       /\ Context(st, k.source) = 0 \/ k \in st.seen \/ k.number <= st.source[k.source].retired
  /\ \A k, l \in stored : k.source = l.source /\ k.number = l.number => k = l

(* A reader that was told of no gap has been given all that lies between   *)
(* its start and its cursor.                                               *)
ReadersOK(st, stored, rd) ==
  /\ \A s \in Session : rd[s].cursor <= st.sequence
  /\ \A s \in Retained(st) : ~rd[s].gap =>
         \A k \in stored :
           /\ Observes(st, s, k.source) /\ st.session[s].start <= k.seq /\ k.seq <= rd[s].cursor
           /\ Capturing(st, s) \/ k.seq <= st.session[s].end
           => k \in rd[s].given

-----------------------------------------------------------------------------
(* Scripts and leases                                                      *)

(* Who holds the mutex waits for the page.                                 *)
Awaiting(ser) == ser # Idle /\ ser.what \in Confirming \cup {"confirm_follow", "cleaning"}
                 /\ ser.reply = "none"

(* Who holds the mutex is about to draw a source.                          *)
Opening(ser) == ser.what \in {"starting", "following"}

(* The scripts that the page has still to run: the last may be awaited,    *)
(* the first alone may configure, and what it configures is drawn.         *)
ScriptsOK(st, doc, pg, scr, ser) ==
  /\ \A i \in DOMAIN scr :
       /\ scr[i].source <= st.drawn
       /\ scr[i].awaited => i = Len(scr) /\ Awaiting(ser) /\ ~pg.drain
       /\ scr[i].what = "configure" =>
            /\ i = 1 /\ Context(st, scr[i].source) \in {0, doc}
            /\ Context(st, scr[i].source) = 0 /\ pg.source # 0 => ~Live(st, pg.source)
  /\ ser.what = "following" => \A id \in Sources : ~Live(st, id)
  /\ Opening(ser) => ser.context <= doc /\ (scr # <<>> => ser.context = doc)
  /\ "reply" \notin DOMAIN ser \/ ser.reply \in {"none", "failed"} \/ scr = <<>>
  /\ pg.drain => scr = <<>> /\ Awaiting(ser)

(* The session is named somewhere: in the page, in the store, in a script  *)
(* or in what was recorded.                                                *)
Known(st, pg, scr, hist, s) ==
  \/ s \in pg.leases \/ s \in Retained(st)
  \/ \E i \in DOMAIN scr : s \in scr[i].leases
  \/ \E e \in hist.recorded : s \in e.observers

(* A session that is named has begun, and one that is starting is not      *)
(* named yet.                                                              *)
BegunOK(st, pg, scr, ser, hist) ==
  /\ \A s \in Session : Known(st, pg, scr, hist, s) => hist.begun[s]
  /\ ser.what = "starting" =>
       hist.begun[ser.session] /\ ~Known(st, pg, scr, hist, ser.session)
  /\ ser.what = "confirm_start" =>
       /\ scr = <<>> \/ ser.session \notin pg.leases
       /\ \A i \in DOMAIN scr : ser.session \in scr[i].leases => Len(scr) = 1

(* A script leaves out a session that its source serves only while that    *)
(* one is confirmed.                                                       *)
LeasesKept(st, scr, ser) ==
  \A i \in DOMAIN scr : \A s \in Serving(st, scr[i].source) \ scr[i].leases :
     ser.what \in {"confirm_start", "confirm_stop"} /\ ser.session = s

(* A batch that tells the page to end leases finds none to end, or an      *)
(* interrupted source.                                                     *)
EndsFairly(st, doc, pg, bs) ==
  \A b \in bs :
    /\ b.document = doc /\ b.answer = "end"
    /\ b.generation = pg.generation /\ b.source = pg.source
    /\ pg.leases \cap Serving(st, pg.source) # {}
    => st.source[pg.source].interrupted

-----------------------------------------------------------------------------
(* What is recorded for a session                                          *)

(* Where a session has a lease, or was recorded for, it observes the       *)
(* source.                                                                 *)
ObservedBy(st, pg, scr, recorded, s) ==
  /\ s \in pg.leases => Observes(st, s, pg.source)
  /\ \A i \in DOMAIN scr : scr[i].what = "configure" /\ s \in scr[i].leases
                           => Observes(st, s, scr[i].source)
  /\ \A e \in recorded : s \in e.observers => Observes(st, s, e.source)

(* The event is on its way: queued, or in the batch that waits for its     *)
(* answer.                                                                 *)
Pending(doc, pg, bs, e) ==
  /\ e.document = doc
  /\ \/ \E i \in DOMAIN pg.queue : pg.queue[i].number = e.number /\ pg.queue[i].source = e.source
     \/ \E b \in bs : /\ b.document = doc /\ b.answer = "none" /\ b.source = e.source
                      /\ \E i \in DOMAIN b.numbers : b.numbers[i] = e.number

(* While a session is stopped the page gives it no lease again, and when   *)
(* it says drained nothing of the session is on its way.                   *)
DrainOK(doc, pg, scr, bs, ser, recorded) ==
  ser.what = "confirm_stop" =>
       /\ \A i \in DOMAIN scr : scr[i].awaited => ser.session \notin scr[i].leases
       /\ pg.drain => ser.session \notin pg.leases
       /\ ser.reply = "drained" =>
            /\ scr = <<>> /\ ser.session \notin pg.leases
            /\ \A e \in recorded : ser.session \in e.observers => ~Pending(doc, pg, bs, e)

(* All that the sweeps, the operations and the batches rest on.            *)
PartsTyped(doc, pg, bs, scr, ser, stored) ==
  /\ doc \in Nat \ {0} /\ PageTypeOK(pg, scr) /\ bs \subseteq BatchType /\ ser \in SerialType
  /\ stored \subseteq Event
Base(st, doc, pg, bs, scr, ser, stored) ==
  /\ StoreOK(st) /\ PartsTyped(doc, pg, bs, scr, ser, stored) /\ PagesOrdered(doc, pg, bs)
  /\ SourcesOfPage(st, doc, pg, bs) /\ ScriptsOK(st, doc, pg, scr, ser)
  /\ NumbersNew(st, doc, pg, bs, stored) /\ StoredOK(st, stored)

(* The session tells its readers that it has everything.                   *)
Complete(st, s) ==
  st.session[s].status = "stopped" /\ st.session[s].clean /\ st.session[s].dropped = 0

(* The store holds the event within the session.                           *)
StoredFor(st, s, e) ==
  \E i \in DOMAIN st.events :
     LET k == st.events[i]
     IN /\ k.source = e.source /\ k.number = e.number
        /\ st.session[s].start <= k.seq
        /\ Capturing(st, s) \/ k.seq <= st.session[s].end

(* What was recorded is of this document or an earlier one, and was        *)
(* numbered.                                                               *)
RecordedOK(doc, pg, recorded) ==
  \A e \in recorded : e.document <= doc /\ (e.document = doc => e.number <= pg.number)

(* What is recorded for a session, and not known to be lost, is stored     *)
(* when it is complete; and stored or on its way as long as it captures    *)
(* and counted no drop.                                                    *)
Tracks(st, doc, pg, scr, bs, recorded, lost, s) ==
  /\ s \in Retained(st) => ObservedBy(st, pg, scr, recorded, s)
  /\ Complete(st, s) => s \notin pg.leases /\ \A i \in DOMAIN scr : s \notin scr[i].leases
  /\ \A e \in recorded :
       s \in e.observers /\ [document |-> e.document, number |-> e.number] \notin lost =>
         /\ Complete(st, s) => StoredFor(st, s, e)
         /\ Capturing(st, s) /\ st.session[s].dropped = 0
              => StoredFor(st, s, e) \/ Pending(doc, pg, bs, e)

-----------------------------------------------------------------------------
(* How the store ages                                                      *)

(* A session as it may go: it stays, or is forgotten, or is over.          *)
Goes(st, s, me, ended) ==
  me.status # "none" =>
    /\ s \in Retained(st)
    /\ me.sources = st.session[s].sources /\ me.start = st.session[s].start
    /\ st.session[s].dropped <= me.dropped
    /\ st.session[s].late => me.late
    /\ \/ me.status = st.session[s].status /\ me.end = st.session[s].end
       \/ /\ Capturing(st, s) /\ me.status # "active" /\ me.end = st.sequence
          /\ me.status = "stopped" => s \in ended

(* A store that released everything.                                       *)
Released(st) ==
  /\ Retained(st) = {} /\ st.events = <<>> /\ st.seen = {}
  /\ \A id \in Sources : st.source[id].context = 0

(* The events and the sources stay, but may be interrupted.                *)
SameSources(st, t) ==
  /\ t.events = st.events /\ t.seen = st.seen
  /\ \A id \in Sources : /\ t.source[id].context = st.source[id].context
                         /\ t.source[id].retired = st.source[id].retired
                         /\ st.source[id].interrupted => t.source[id].interrupted

(* A store that only ages: nothing begins, nothing is stored.              *)
Ages(st, t, ended) ==
  /\ t.sequence = st.sequence /\ t.drawn = st.drawn
  /\ \A id \in t.cleanup : id <= t.drawn
  /\ Released(t) \/ SameSources(st, t)
  /\ \A s \in Session : Goes(st, s, t.session[s], ended)

(* A store that stays ages.                                                *)
LEMMA AgesReflexive ==
  ASSUME NEW st, NEW ended
  PROVE  StoreOK(st) => Ages(st, st, ended)
BY DEF StoreOK, SourcesKnown, Ages, SameSources, Goes, Retained, StoreType, SessionType

(* And ages again.                                                         *)
LEMMA AgesTransitive ==
  ASSUME NEW a, NEW b, NEW c, NEW S, NEW T, NEW U, a \in StoreType, b \in StoreType, c \in StoreType,
         Ages(a, b, S), Ages(b, c, T), S \subseteq U, T \subseteq U
  PROVE  Ages(a, c, U)
<1>1. c.sequence = a.sequence /\ c.drawn = a.drawn
  BY DEF Ages
<1>2. Released(c) \/ SameSources(a, c)
  <2>1. CASE Released(b) /\ SameSources(b, c)
    <3>1. Retained(c) = {}
      BY <2>1 DEF Ages, Goes, Released, Retained
    <3> QED BY <2>1, <3>1 DEF Released, SameSources
  <2>2. CASE SameSources(a, b) /\ SameSources(b, c)
    BY <2>2 DEF SameSources
  <2> QED BY <2>1, <2>2 DEF Ages
<1>4. \A id \in c.cleanup : id <= c.drawn
  BY DEF Ages
<1>3. ASSUME NEW s \in Session PROVE Goes(a, s, c.session[s], U)
  <2>1. Goes(a, s, b.session[s], S) /\ Goes(b, s, c.session[s], T)
    BY DEF Ages
  <2>2. /\ a.session[s] \in SessionType /\ b.session[s] \in SessionType /\ c.session[s] \in SessionType
        /\ a.sequence = b.sequence
    BY DEF StoreType, Ages
  <2> DEFINE x == a.session[s]  y == b.session[s]  z == c.session[s]
  <2> SUFFICES ASSUME z.status # "none" PROVE Goes(a, s, z, U)
    BY DEF Goes
  <2>3. y.status # "none" /\ x.status # "none"
    BY <2>1 DEF Goes, Retained
  <2>4. z.sources = x.sources /\ z.start = x.start
    BY <2>1, <2>3 DEF Goes
  <2>5. x.dropped <= z.dropped
    <3>1. x.dropped \in Nat /\ y.dropped \in Nat /\ z.dropped \in Nat
      BY <2>2 DEF SessionType
    <3>2. x.dropped <= y.dropped /\ y.dropped <= z.dropped
      BY <2>1, <2>3 DEF Goes
    <3> HIDE DEF x, y, z
    <3> QED BY <3>1, <3>2
  <2>6. x.late => z.late
    BY <2>1, <2>3, Zenon DEF Goes
  <2>7. \/ z.status = x.status /\ z.end = x.end
        \/ /\ Capturing(a, s) /\ z.status # "active" /\ z.end = a.sequence
           /\ z.status = "stopped" => s \in U
    BY <2>1, <2>2, <2>3 DEF Goes, Capturing
  <2> QED BY <2>3, <2>4, <2>5, <2>6, <2>7 DEF Goes, Retained
<1> QED BY <1>1, <1>2, <1>3, <1>4 DEF Ages

(* A store that aged is as sound as it was.                                *)
LEMMA AgedIsOK ==
  ASSUME NEW st, NEW t, NEW ended, StoreOK(st), t \in StoreType, Ages(st, t, ended), DropsTold(t)
  PROVE  StoreOK(t)
<1>1. SourcesKnown(t)
  <2>1. \A s \in Retained(t) : t.session[s].sources # <<>>
        /\ \A id \in Sources : Observes(t, s, id) => t.source[id].context # 0
    BY DEF StoreOK, SourcesKnown, Ages, Goes, Retained, Observes, Released, SameSources
  <2>2. \A id \in Sources : t.source[id].context # 0 => id <= t.drawn
    BY DEF StoreOK, SourcesKnown, Ages, Released, SameSources
  <2>3. \A id \in t.cleanup : id <= t.drawn
    BY DEF Ages
  <2> QED BY <2>1, <2>2, <2>3 DEF SourcesKnown
<1>2. OneLive(t)
  BY DEF StoreOK, OneLive, Live, Ages, Released, SameSources
<1>3. Consecutive(t)
  <2>1. CASE Released(t)
    <3>1. Len(t.events) = 0 /\ DOMAIN t.events = {} /\ ToSet(t.events) = {}
      BY <2>1 DEF Released, ToSet
    <3>2. MaxStored \in Nat /\ t.sequence \in Nat
      BY CaptureConstants DEF StoreType
    <3> QED BY <2>1, <3>1, <3>2 DEF Consecutive, Released
  <2>2. CASE SameSources(st, t)
    BY <2>2 DEF StoreOK, Consecutive, Ages, SameSources
  <2> QED BY <2>1, <2>2 DEF Ages
<1>4. RangesOK(t)
  <2> SUFFICES ASSUME NEW s \in Retained(t)
               PROVE  /\ 1 <= t.session[s].start /\ t.session[s].start <= t.sequence + 1
                      /\ t.session[s].end <= t.sequence
    BY DEF RangesOK
  <2>1. s \in Retained(st) /\ t.session[s].start = st.session[s].start /\ t.sequence = st.sequence
        /\ (t.session[s].end = st.session[s].end \/ t.session[s].end = st.sequence)
    BY DEF Ages, Goes, Retained
  <2>2. st.sequence \in Nat /\ st.session[s].end <= st.sequence
        /\ 1 <= st.session[s].start /\ st.session[s].start <= st.sequence + 1
    BY <2>1 DEF StoreOK, RangesOK, StoreType
  <2> QED BY <2>1, <2>2
<1> QED BY <1>1, <1>2, <1>3, <1>4 DEF StoreOK

-----------------------------------------------------------------------------
(* The operations of the store                                             *)

(* The source that a session is served by is one that it observes.         *)
LEMMA CurrentIn ==
  ASSUME NEW st, StoreOK(st), NEW s \in Retained(st)
  PROVE  Current(st, s) \in Sources /\ Observes(st, s, Current(st, s))
<1>1. st.session[s].sources \in Seq(Sources) /\ st.session[s].sources # <<>> /\ s \in Session
  BY DEF StoreOK, StoreType, SessionType, SourcesKnown, Retained
<1> DEFINE q == st.session[s].sources
<1>2. Len(q) \in DOMAIN q /\ q[Len(q)] \in Sources /\ Current(st, s) = q[Len(q)]
  <2>1. q \in Seq(Sources) /\ q # <<>>
    BY <1>1
  <2> HIDE DEF q
  <2>2. Len(q) \in DOMAIN q /\ q[Len(q)] \in Sources
    BY <2>1
  <2> QED BY <2>2 DEF Current, Last, q
<1> QED BY <1>2 DEF Observes

(* It was drawn.                                                           *)
LEMMA CurrentDrawn ==
  ASSUME NEW st, StoreOK(st)
  PROVE  /\ \A s \in Retained(st) : Current(st, s) <= st.drawn
         /\ \A id \in st.cleanup : id <= st.drawn
<1>1. \A s \in Retained(st) : Current(st, s) <= st.drawn
  BY CurrentIn DEF StoreOK, SourcesKnown
<1> QED BY <1>1 DEF StoreOK, SourcesKnown

(* No session and no source are of their types.                            *)
LEMMA NothingTyped == NoSession \in SessionType /\ NoSource \in SourceType
BY DEF NoSession, NoSource, SessionType, SourceType, Statuses

(* release_if_empty ages the store.                                        *)
LEMMA ReleaseAges ==
  ASSUME NEW st, StoreOK(st)
  PROVE  StoreOK(ReleaseIfEmpty(st)) /\ Ages(st, ReleaseIfEmpty(st), {})
<1> DEFINE t == [st EXCEPT !.events = <<>>, !.seen = {},
                            !.source = [id \in Sources |-> NoSource]]
<1>1. st \in StoreType
  BY DEF StoreOK
<1>2. CASE Retained(st) # {}
  BY <1>1, <1>2, AgesReflexive DEF ReleaseIfEmpty
<1>3. CASE Retained(st) = {}
  <2>1. ReleaseIfEmpty(st) = t
    BY <1>3 DEF ReleaseIfEmpty
  <2>2. /\ t.session = st.session /\ t.sequence = st.sequence /\ t.drawn = st.drawn
        /\ t.events = <<>> /\ t.seen = {} /\ t.source = [id \in Sources |-> NoSource]
        /\ t.cleanup = st.cleanup
    BY <1>1 DEF StoreType
  <2>3. t \in StoreType
    <3>1. <<>> \in Seq(Event) /\ {} \in SUBSET Event
      OBVIOUS
    <3>2. [id \in Sources |-> NoSource] \in [Sources -> SourceType]
      BY NothingTyped
    <3> QED BY <1>1, <3>1, <3>2 DEF StoreType
  <2> HIDE DEF t
  <2>4. Released(t)
    BY <1>3, <2>2 DEF Released, Retained, NoSource
  <2>5. Ages(st, t, {})
    <3>1. Ages(st, st, {})
      BY <1>1, AgesReflexive
    <3> QED BY <2>2, <2>4, <3>1 DEF Ages
  <2>6. DropsTold(t)
    BY <1>3, <2>2 DEF DropsTold, Capturing, Retained
  <2> QED BY <2>1, <2>3, <2>5, <2>6, AgedIsOK
<1> QED BY <1>2, <1>3

(* What changes only the sessions, each as it may go.                      *)
LEMMA SessionsAge ==
  ASSUME NEW st, StoreOK(st), NEW ended, NEW f \in [Session -> SessionType],
         NEW c \in SUBSET Sources, \A id \in c : id <= st.drawn,
         \A s \in Session : Goes(st, s, f[s], ended),
         \A s \in Session : f[s].status = "stopped" /\ ~f[s].clean => f[s].dropped > 0
  PROVE  LET t == [st EXCEPT !.session = f, !.cleanup = c]
         IN StoreOK(t) /\ Ages(st, t, ended)
<1> DEFINE t == [st EXCEPT !.session = f, !.cleanup = c]
<1>1. st \in StoreType
  BY DEF StoreOK
<1>2. /\ t.session = f /\ t.sequence = st.sequence /\ t.drawn = st.drawn
      /\ t.events = st.events /\ t.seen = st.seen /\ t.source = st.source
  BY <1>1 DEF StoreType
<1>3. t \in StoreType
  BY <1>1 DEF StoreType
<1> HIDE DEF t
<1>4. SameSources(st, t)
  BY <1>2 DEF SameSources
<1>9. t.cleanup = c
  BY <1>1 DEF StoreType, t
<1>5. Ages(st, t, ended)
  BY <1>2, <1>4, <1>9 DEF Ages
<1>6. DropsTold(t)
  <2>1. ASSUME NEW s \in Session, Capturing(t, s), NEW id \in Sources, Observes(t, s, id),
               t.source[id].interrupted
        PROVE  t.session[s].dropped > 0
    <3>1. Goes(st, s, f[s], ended) /\ f[s].status = "active"
      BY <1>2, <2>1 DEF Capturing
    <3>2. Capturing(st, s) /\ Observes(st, s, id) /\ st.session[s].dropped <= f[s].dropped
      BY <1>2, <2>1, <3>1 DEF Goes, Capturing, Observes
    <3>3. st.session[s].dropped > 0
      BY <1>2, <2>1, <3>2 DEF StoreOK, DropsTold
    <3>4. st.session[s].dropped \in Nat /\ f[s].dropped \in Nat
      BY <1>1 DEF StoreType, SessionType
    <3> QED BY <1>2, <3>2, <3>3, <3>4
  <2> QED BY <1>2, <2>1 DEF DropsTold
<1> QED BY <1>3, <1>5, <1>6, AgedIsOK DEF t

(* A session that stays goes on.                                           *)
LEMMA SameGoes ==
  ASSUME NEW st, StoreOK(st), NEW s \in Session, NEW ended
  PROVE  /\ Goes(st, s, st.session[s], ended) /\ st.session[s] \in SessionType
         /\ st.session[s].status = "stopped" /\ ~st.session[s].clean
              => st.session[s].dropped > 0
BY DEF StoreOK, StoreType, SessionType, Goes, Retained, DropsTold

(* A session that ends is over.                                            *)
LEMMA EndGoes ==
  ASSUME NEW st, StoreOK(st), NEW s \in Session, Capturing(st, s),
         NEW how \in {"expired", "interrupted", "stopped"}, NEW ended,
         how = "stopped" => s \in ended
  PROVE  LET me == EndSession(st, s, how)
         IN /\ me \in SessionType /\ Goes(st, s, me, ended)
            /\ me.status = how /\ me.dropped = st.session[s].dropped
<1> DEFINE x == st.session[s]  me == EndSession(st, s, how)
<1>1. x \in SessionType /\ st.sequence \in Nat
  BY DEF StoreOK, StoreType
<1>2. /\ me.sources = x.sources /\ me.start = x.start /\ me.dropped = x.dropped
      /\ me.late = x.late /\ me.status = how /\ me.end = st.sequence
  BY <1>1 DEF EndSession, SessionType
<1>3. me \in SessionType
  BY <1>1 DEF EndSession, SessionType, Statuses
<1>4. x.dropped <= me.dropped
  BY <1>1, <1>2 DEF SessionType
<1> HIDE DEF x, me
<1>5. Goes(st, s, me, ended)
  BY <1>2, <1>4 DEF Goes, Capturing, Retained, x
<1> QED BY <1>2, <1>3, <1>5 DEF me, x

(* A session that is forgotten is none.                                    *)
LEMMA NoneGoes ==
  ASSUME NEW st, NEW s, NEW ended
  PROVE  Goes(st, s, NoSession, ended)
BY DEF Goes, NoSession

(* expire_sessions ages the store.                                         *)
LEMMA ExpireAges ==
  ASSUME NEW st, StoreOK(st)
  PROVE  StoreOK(ExpireSessions(st)) /\ Ages(st, ExpireSessions(st), {})
<1> DEFINE over == {s \in Session : Capturing(st, s) /\ st.session[s].late}
           f == [s \in Session |-> IF s \in over THEN EndSession(st, s, "expired")
                                   ELSE st.session[s]]
           c == QueueCleanup(st, {Current(st, s) : s \in over})
           t == [st EXCEPT !.session = f, !.cleanup = c]
<1>1. ExpireSessions(st) = ReleaseIfEmpty(t)
  BY DEF ExpireSessions
<1>2. c \in SUBSET Sources
  <2>1. \A s \in over : Current(st, s) \in Sources
    BY CurrentIn DEF Capturing, Retained
  <2>2. st.cleanup \in SUBSET Sources
    BY DEF StoreOK, StoreType
  <2> QED BY <2>1, <2>2 DEF QueueCleanup
<1>3. ASSUME NEW s \in Session
      PROVE  /\ f[s] \in SessionType /\ Goes(st, s, f[s], {})
             /\ f[s].status = "stopped" /\ ~f[s].clean => f[s].dropped > 0
  <2>1. CASE s \in over
    <3> DEFINE e == EndSession(st, s, "expired")
    <3>1. f[s] = e /\ Capturing(st, s)
      BY <2>1
    <3>2. e \in SessionType /\ Goes(st, s, e, {}) /\ e.status = "expired"
      BY <3>1, EndGoes, Zenon
    <3> HIDE DEF f, e
    <3> QED BY <3>1, <3>2
  <2>2. CASE s \notin over
    <3>1. f[s] = st.session[s]
      BY <2>2
    <3> HIDE DEF f
    <3> QED BY <3>1, SameGoes
  <2> QED BY <2>1, <2>2
<1>4. f \in [Session -> SessionType]
  BY <1>3
<1>7. \A id \in c : id <= st.drawn
  BY CurrentDrawn DEF QueueCleanup, Capturing, Retained
<1> HIDE DEF f, c
<1>5. StoreOK(t) /\ Ages(st, t, {})
  BY <1>2, <1>3, <1>4, <1>7, SessionsAge
<1>6. StoreOK(ReleaseIfEmpty(t)) /\ Ages(t, ReleaseIfEmpty(t), {})
  BY <1>5, ReleaseAges
<1> HIDE DEF t
<1> QED BY <1>1, <1>5, <1>6, AgesTransitive DEF StoreOK

(* So does the check of the domains.                                       *)
LEMMA AuthorizeAges ==
  ASSUME NEW st, StoreOK(st)
  PROVE  StoreOK(AuthorizeDomains(st)) /\ Ages(st, AuthorizeDomains(st), {})
<1> DEFINE f == [s \in Session |-> NoSession]
           c == QueueCleanup(st, {Current(st, s) : s \in Retained(st)})
           t == [st EXCEPT !.session = f, !.cleanup = c]
<1>1. CASE permitted
  BY <1>1, AgesReflexive DEF AuthorizeDomains, StoreOK
<1>2. CASE ~permitted
  <2>1. AuthorizeDomains(st) = ReleaseIfEmpty(t)
    BY <1>2 DEF AuthorizeDomains
  <2>2. c \in SUBSET Sources
    <3>1. \A s \in Retained(st) : Current(st, s) \in Sources
      BY CurrentIn
    <3>2. st.cleanup \in SUBSET Sources
      BY DEF StoreOK, StoreType
    <3> QED BY <3>1, <3>2 DEF QueueCleanup
  <2>3. f \in [Session -> SessionType] /\ \A s \in Session : f[s] = NoSession
    BY NothingTyped
  <2>4. NoSession.status # "stopped"
    BY DEF NoSession
  <2>7. \A s \in Session : Goes(st, s, f[s], {})
    BY <2>3, NoneGoes
  <2>8. \A s \in Session : f[s].status = "stopped" /\ ~f[s].clean => f[s].dropped > 0
    BY <2>3, <2>4
  <2>9. \A id \in c : id <= st.drawn
    BY CurrentDrawn DEF QueueCleanup
  <2> HIDE DEF f, c
  <2>5. StoreOK(t) /\ Ages(st, t, {})
    BY <2>2, <2>3, <2>7, <2>8, <2>9, SessionsAge
  <2>6. StoreOK(ReleaseIfEmpty(t)) /\ Ages(t, ReleaseIfEmpty(t), {})
    BY <2>5, ReleaseAges
  <2> HIDE DEF t
  <2> QED BY <2>1, <2>5, <2>6, AgesTransitive DEF StoreOK
<1> QED BY <1>1, <1>2

(* So does the sweep that every call begins with.                          *)
LEMMA SweptAges ==
  ASSUME NEW st, StoreOK(st)
  PROVE  StoreOK(Swept(st)) /\ Ages(st, Swept(st), {})
<1>1. StoreOK(AuthorizeDomains(st)) /\ Ages(st, AuthorizeDomains(st), {})
  BY AuthorizeAges
<1>2. StoreOK(Swept(st)) /\ Ages(AuthorizeDomains(st), Swept(st), {})
  BY <1>1, ExpireAges DEF Swept
<1> QED BY <1>1, <1>2, AgesTransitive DEF StoreOK

(* One session alone.                                                      *)
LEMMA OneAges ==
  ASSUME NEW st, StoreOK(st), NEW ended, NEW s \in Session, NEW me \in SessionType,
         Goes(st, s, me, ended),
         me.status = "stopped" /\ ~me.clean => me.dropped > 0
  PROVE  LET t == [st EXCEPT !.session[s] = me]
         IN StoreOK(t) /\ Ages(st, t, ended)
<1> DEFINE f == [st.session EXCEPT ![s] = me]
           t == [st EXCEPT !.session = f, !.cleanup = st.cleanup]
<1>1. st \in StoreType
  BY DEF StoreOK
<1>2. t = [st EXCEPT !.session[s] = me] /\ st.cleanup \in SUBSET Sources
  BY <1>1 DEF StoreType
<1>3. /\ f \in [Session -> SessionType]
      /\ \A r \in Session : f[r] = IF r = s THEN me ELSE st.session[r]
  BY <1>1 DEF StoreType
<1>4. \A r \in Session : /\ Goes(st, r, f[r], ended)
                         /\ f[r].status = "stopped" /\ ~f[r].clean => f[r].dropped > 0
  <2> HIDE DEF f
  <2> QED BY <1>3, SameGoes
<1> HIDE DEF f
<1>5. StoreOK(t) /\ Ages(st, t, ended)
  BY <1>2, <1>3, <1>4, CurrentDrawn, SessionsAge
<1> QED BY <1>2, <1>5

(* So does forgetting one session.                                         *)
LEMMA RemoveAges ==
  ASSUME NEW st, StoreOK(st), NEW s \in Session
  PROVE  StoreOK(RemoveSession(st, s)) /\ Ages(st, RemoveSession(st, s), {})
<1> DEFINE t == [st EXCEPT !.session[s] = NoSession]
<1>1. StoreOK(t) /\ Ages(st, t, {})
  BY NoneGoes, NothingTyped, OneAges DEF NoSession
<1>2. StoreOK(ReleaseIfEmpty(t)) /\ Ages(t, ReleaseIfEmpty(t), {})
  BY <1>1, ReleaseAges
<1>3. RemoveSession(st, s) = ReleaseIfEmpty(t)
  BY DEF RemoveSession
<1> HIDE DEF t
<1> QED BY <1>1, <1>2, <1>3, AgesTransitive DEF StoreOK

(* An interruption ages the store, and leaves no source live.              *)
LEMMA InterruptAges ==
  ASSUME NEW st, StoreOK(st)
  PROVE  /\ StoreOK(InterruptWindow(st)) /\ Ages(st, InterruptWindow(st), {})
         /\ \A id \in Sources : ~Live(InterruptWindow(st), id)
<1> DEFINE t == InterruptWindow(st)
           ids == {id \in Sources : st.source[id].context # 0 /\ ~st.source[id].interrupted}
           hit == {s \in Session : Capturing(st, s) /\ \E id \in ids : Observes(st, s, id)}
           src == [id \in Sources |->
                    IF id \in ids THEN [st.source[id] EXCEPT !.interrupted = TRUE]
                    ELSE st.source[id]]
           Hit(s) == [st.session[s] EXCEPT !.applied = FALSE, !.dropped = @ + 1]
           Over(s) == [Hit(s) EXCEPT !.status = "interrupted", !.end = st.sequence]
           ses == [s \in Session |->
                    IF s \notin hit THEN st.session[s]
                    ELSE IF s \in Following THEN Hit(s) ELSE Over(s)]
<1>1. st \in StoreType
  BY DEF StoreOK
<1>2. t = [st EXCEPT !.source = src, !.session = ses]
  BY DEF InterruptWindow
<1>3. /\ t.session = ses /\ t.sequence = st.sequence /\ t.drawn = st.drawn
      /\ t.events = st.events /\ t.seen = st.seen /\ t.source = src /\ t.cleanup = st.cleanup
  BY <1>1, <1>2 DEF StoreType
<1>4. ASSUME NEW id \in Sources
      PROVE  /\ src[id] \in SourceType /\ src[id].context = st.source[id].context
             /\ src[id].retired = st.source[id].retired
             /\ st.source[id].interrupted => src[id].interrupted
             /\ src[id].context # 0 => src[id].interrupted
  <2>1. st.source[id] \in SourceType
    BY <1>1 DEF StoreType
  <2> QED BY <2>1 DEF SourceType
<1>5. ASSUME NEW s \in Session
      PROVE  /\ ses[s] \in SessionType /\ Goes(st, s, ses[s], {})
             /\ s \in hit => ses[s].dropped > 0
             /\ s \notin hit => ses[s] = st.session[s]
             /\ ses[s].status = "stopped" => s \notin hit
  <2>1. st.session[s] \in SessionType /\ st.sequence \in Nat
    BY <1>1 DEF StoreType
  <2> DEFINE x == st.session[s]
  <2>2. CASE s \notin hit
    <3>1. ses[s] = x
      BY <2>2
    <3> HIDE DEF ses, hit
    <3> QED BY <2>2, <3>1, SameGoes
  <2>3. CASE s \in hit /\ s \in Following
    <3>1. ses[s] = Hit(s) /\ x.status = "active"
      BY <2>3 DEF Capturing
    <3>2. /\ Hit(s) \in SessionType /\ Hit(s).sources = x.sources /\ Hit(s).start = x.start
          /\ Hit(s).dropped = x.dropped + 1 /\ Hit(s).late = x.late /\ Hit(s).status = x.status
          /\ Hit(s).end = x.end
      <4>1. x.dropped + 1 \in Nat
        BY <2>1 DEF SessionType
      <4>2. Hit(s) = [x EXCEPT !.applied = FALSE, !.dropped = x.dropped + 1]
        BY <2>1 DEF SessionType
      <4> HIDE DEF Hit
      <4> QED BY <2>1, <4>1, <4>2 DEF SessionType
    <3>3. x.dropped \in Nat
      BY <2>1 DEF SessionType
    <3>4. Goes(st, s, Hit(s), {})
      <4> HIDE DEF Hit
      <4> QED BY <3>1, <3>2, <3>3 DEF Goes, Retained
    <3>5. Hit(s).dropped > 0 /\ Hit(s).status # "stopped"
      BY <3>1, <3>2, <3>3
    <3>6. s \in hit
      BY <2>3
    <3> HIDE DEF Hit, ses, hit
    <3> QED BY <3>1, <3>2, <3>4, <3>5, <3>6
  <2>4. CASE s \in hit /\ s \notin Following
    <3>1. ses[s] = Over(s) /\ x.status = "active"
      BY <2>4 DEF Capturing
    <3>2. /\ Over(s) \in SessionType /\ Over(s).sources = x.sources /\ Over(s).start = x.start
          /\ Over(s).dropped = x.dropped + 1 /\ Over(s).late = x.late
          /\ Over(s).status = "interrupted" /\ Over(s).end = st.sequence
      <4>1. x.dropped + 1 \in Nat
        BY <2>1 DEF SessionType
      <4>2. Over(s) = [x EXCEPT !.applied = FALSE, !.dropped = x.dropped + 1,
                                !.status = "interrupted", !.end = st.sequence]
        BY <2>1 DEF SessionType
      <4> HIDE DEF Over
      <4> QED BY <2>1, <4>1, <4>2 DEF SessionType, Statuses
    <3>3. x.dropped \in Nat
      BY <2>1 DEF SessionType
    <3>4. Goes(st, s, Over(s), {})
      <4> HIDE DEF Over
      <4> QED BY <3>1, <3>2, <3>3 DEF Goes, Retained, Capturing
    <3>5. Over(s).dropped > 0 /\ Over(s).status # "stopped"
      BY <3>1, <3>2, <3>3
    <3>6. s \in hit
      BY <2>4
    <3> HIDE DEF Over, ses, hit
    <3> QED BY <3>1, <3>2, <3>4, <3>5, <3>6
  <2> QED BY <2>2, <2>3, <2>4
<1>6. src \in [Sources -> SourceType] /\ ses \in [Session -> SessionType]
  BY <1>4, <1>5
<1>7. \A id \in Sources : ~Live(t, id)
  <2> HIDE DEF src, ses, t
  <2> QED BY <1>3, <1>4 DEF Live
<1>8. DropsTold(t)
  <2>1. ASSUME NEW s \in Session, Capturing(t, s), NEW id \in Sources, Observes(t, s, id)
        PROVE  t.session[s].dropped > 0
    <3>1. CASE s \in hit
      <4> HIDE DEF src, ses, t, hit
      <4> QED BY <1>3, <1>5, <3>1
    <3>2. CASE s \notin hit
      <4>1. t.session[s] = st.session[s] /\ Capturing(st, s) /\ Observes(st, s, id)
        <5> HIDE DEF src, ses, t, hit
        <5> QED BY <1>3, <1>5, <2>1, <3>2 DEF Capturing, Observes
      <4>2. id \notin ids
        BY <3>2, <4>1
      <4>3. st.source[id].context # 0
        BY <4>1 DEF StoreOK, SourcesKnown, Capturing, Retained
      <4>4. st.source[id].interrupted
        BY <4>2, <4>3
      <4> HIDE DEF src, ses, t, hit
      <4> QED BY <4>1, <4>4 DEF StoreOK, DropsTold
    <3> QED BY <3>1, <3>2
  <2>2. ASSUME NEW s \in Session, t.session[s].status = "stopped", ~t.session[s].clean
        PROVE  t.session[s].dropped > 0
    <3> HIDE DEF src, ses, t, hit
    <3>1. t.session[s] = st.session[s]
      BY <1>3, <1>5, <2>2
    <3> QED BY <2>2, <3>1 DEF StoreOK, DropsTold
  <2> QED BY <2>1, <2>2 DEF DropsTold
<1>9. t \in StoreType
  <2> HIDE DEF src, ses, ids, hit
  <2> QED BY <1>1, <1>2, <1>6 DEF StoreType
<1>10. Ages(st, t, {})
  <2>1. SameSources(st, t)
    <3> HIDE DEF src, ses, t
    <3> QED BY <1>3, <1>4 DEF SameSources
  <2>2. \A id \in t.cleanup : id <= t.drawn
    BY <1>3, CurrentDrawn
  <2> HIDE DEF src, ses, t
  <2> QED BY <1>3, <1>5, <2>1, <2>2 DEF Ages
<1> QED BY <1>7, <1>8, <1>9, <1>10, AgedIsOK

(* So does an acknowledgement of one session.                              *)
LEMMA AcknowledgeAges ==
  ASSUME NEW st, StoreOK(st), NEW s \in Session, NEW ok \in BOOLEAN
  PROVE  StoreOK(Acknowledge(st, s, ok)) /\ Ages(st, Acknowledge(st, s, ok), {})
<1> DEFINE x == st.session[s]
           b == ok /\ Capturing(st, s) /\ ~st.session[s].late
           me == [x EXCEPT !.applied = b]
<1>1. x \in SessionType /\ st \in StoreType
  BY DEF StoreOK, StoreType
<1>2. Acknowledge(st, s, ok) = [st EXCEPT !.session[s] = me]
  BY <1>1 DEF Acknowledge
<1>3. b \in BOOLEAN
  OBVIOUS
<1> HIDE DEF b
<1>4. /\ me \in SessionType /\ me.sources = x.sources /\ me.start = x.start /\ me.end = x.end
      /\ me.status = x.status /\ me.dropped = x.dropped /\ me.late = x.late /\ me.clean = x.clean
  BY <1>1, <1>3 DEF SessionType
<1>5. Goes(st, s, me, {}) /\ (me.status = "stopped" /\ ~me.clean => me.dropped > 0)
  <2> HIDE DEF me
  <2> QED BY <1>4, SameGoes DEF Goes
<1> HIDE DEF me
<1> QED BY <1>2, <1>4, <1>5, OneAges

(* So does that of all sessions of a source.                               *)
LEMMA AcknowledgeSourceAges ==
  ASSUME NEW st, StoreOK(st), NEW source, NEW ok \in BOOLEAN
  PROVE  /\ StoreOK(AcknowledgeSource(st, source, ok))
         /\ Ages(st, AcknowledgeSource(st, source, ok), {})
<1> DEFINE B(s) == ok /\ ~st.session[s].late
           Me(s) == [st.session[s] EXCEPT !.applied = B(s)]
           f == [s \in Session |-> IF Capturing(st, s) /\ Current(st, s) = source
                                   THEN Me(s) ELSE st.session[s]]
<1>1. st \in StoreType /\ st.cleanup \in SUBSET Sources
  BY DEF StoreOK, StoreType
<1>2. AcknowledgeSource(st, source, ok) = [st EXCEPT !.session = f, !.cleanup = st.cleanup]
  BY <1>1 DEF AcknowledgeSource, StoreType
<1>3. ASSUME NEW s \in Session
      PROVE  /\ f[s] \in SessionType /\ Goes(st, s, f[s], {})
             /\ f[s].status = "stopped" /\ ~f[s].clean => f[s].dropped > 0
  <2> DEFINE x == st.session[s]
  <2>1. x \in SessionType
    BY <1>1 DEF StoreType
  <2>2. B(s) \in BOOLEAN
    OBVIOUS
  <2>3. f[s] = Me(s) \/ f[s] = x
    OBVIOUS
  <2> HIDE DEF f, B
  <2>4. LET me == Me(s) IN
        /\ me \in SessionType /\ me.sources = x.sources /\ me.start = x.start /\ me.end = x.end
        /\ me.status = x.status /\ me.dropped = x.dropped /\ me.late = x.late /\ me.clean = x.clean
    BY <2>1, <2>2 DEF SessionType
  <2>5. LET me == Me(s) IN
        Goes(st, s, me, {}) /\ (me.status = "stopped" /\ ~me.clean => me.dropped > 0)
    <3> HIDE DEF Me
    <3> QED BY <2>4, SameGoes DEF Goes
  <2> HIDE DEF Me
  <2> QED BY <2>3, <2>4, <2>5, SameGoes
<1>4. f \in [Session -> SessionType]
  BY <1>3
<1> DEFINE t == [st EXCEPT !.session = f, !.cleanup = st.cleanup]
<1> HIDE DEF f
<1>5. StoreOK(t) /\ Ages(st, t, {})
  BY <1>1, <1>3, <1>4, CurrentDrawn, SessionsAge
<1> QED BY <1>2, <1>5

(* A gap that is noted is counted.                                         *)
LEMMA NoteGapAges ==
  ASSUME NEW st, StoreOK(st), NEW s \in Session
  PROVE  /\ StoreOK(NoteGap(st, s, 1)) /\ Ages(st, NoteGap(st, s, 1), {})
         /\ s \in Retained(NoteGap(st, s, 1)) => NoteGap(st, s, 1).session[s].dropped > 0
<1> DEFINE x == st.session[s]
           me == [x EXCEPT !.dropped = @ + 1]
<1>1. x \in SessionType /\ st \in StoreType
  BY DEF StoreOK, StoreType
<1>2. CASE s \notin Retained(st)
  BY <1>1, <1>2, AgesReflexive DEF NoteGap
<1>3. CASE s \in Retained(st)
  <2>1. NoteGap(st, s, 1) = [st EXCEPT !.session[s] = me]
    BY <1>1, <1>3 DEF NoteGap
  <2>2. NoteGap(st, s, 1).session[s] = me
    BY <1>1, <2>1 DEF StoreType
  <2>3. /\ me \in SessionType /\ me.sources = x.sources /\ me.start = x.start /\ me.end = x.end
        /\ me.status = x.status /\ me.dropped = x.dropped + 1 /\ me.late = x.late /\ me.clean = x.clean
        /\ x.dropped \in Nat
    <3>1. x.dropped \in Nat /\ x.dropped + 1 \in Nat
      BY <1>1 DEF SessionType
    <3>2. me = [x EXCEPT !.dropped = x.dropped + 1]
      BY <1>1 DEF SessionType
    <3> HIDE DEF me, x
    <3> QED BY <1>1, <3>1, <3>2 DEF SessionType
  <2> HIDE DEF me
  <2>4. Goes(st, s, me, {}) /\ me.dropped > 0
    <3>1. x.dropped <= me.dropped /\ me.dropped > 0
      BY <2>3
    <3> QED BY <1>3, <2>3, <3>1 DEF Goes, Retained
  <2> QED BY <2>1, <2>2, <2>3, <2>4, OneAges
<1> QED BY <1>2, <1>3

(* A stop ends the one session, and needs a drain or a drop.               *)
LEMMA StopAges ==
  ASSUME NEW st, StoreOK(st), NEW s \in Session, NEW clean \in BOOLEAN,
         ~clean /\ s \in Retained(st) => st.session[s].dropped > 0
  PROVE  StoreOK(StopSession(st, s, clean))
         /\ Ages(st, StopSession(st, s, clean), IF Capturing(st, s) THEN {s} ELSE {})
<1> DEFINE x == st.session[s]
           y == IF Capturing(st, s) THEN EndSession(st, s, "stopped") ELSE x
           me == [y EXCEPT !.applied = FALSE, !.clean = clean]
           ended == IF Capturing(st, s) THEN {s} ELSE {}
<1>1. x \in SessionType /\ st \in StoreType /\ ended \subseteq Session
  BY DEF StoreOK, StoreType
<1>2. CASE s \notin Retained(st)
  BY <1>1, <1>2, AgesReflexive DEF StopSession
<1>3. CASE s \in Retained(st)
  <2>1. StopSession(st, s, clean) = [st EXCEPT !.session[s] = me]
    BY <1>1, <1>3 DEF StopSession
  <2>2. y \in SessionType /\ Goes(st, s, y, ended) /\ y.dropped = x.dropped
    <3>1. CASE Capturing(st, s)
      BY <3>1, EndGoes, Zenon
    <3>2. CASE ~Capturing(st, s)
      BY <3>2, SameGoes
    <3> QED BY <3>1, <3>2
  <2> HIDE DEF y
  <2>3. /\ me \in SessionType /\ me.sources = y.sources /\ me.start = y.start /\ me.end = y.end
        /\ me.status = y.status /\ me.dropped = y.dropped /\ me.late = y.late /\ me.clean = clean
    BY <2>2 DEF SessionType
  <2> HIDE DEF me
  <2>4. Goes(st, s, me, ended) /\ (me.status = "stopped" /\ ~me.clean => me.dropped > 0)
    <3>1. Goes(st, s, me, ended)
      BY <2>2, <2>3 DEF Goes
    <3> QED BY <1>3, <2>2, <2>3, <3>1
  <2> QED BY <2>1, <2>3, <2>4, OneAges
<1> QED BY <1>2, <1>3

(* A session that passes its deadline ages.                                *)
LEMMA LateAges ==
  ASSUME NEW st, StoreOK(st), NEW s \in Session
  PROVE  LET t == [st EXCEPT !.session[s].late = TRUE]
         IN StoreOK(t) /\ Ages(st, t, {})
<1> DEFINE x == st.session[s]
           me == [x EXCEPT !.late = TRUE]
<1>1. x \in SessionType /\ st \in StoreType
  BY DEF StoreOK, StoreType
<1>2. [st EXCEPT !.session[s].late = TRUE] = [st EXCEPT !.session[s] = me]
  BY <1>1
<1>4. /\ me \in SessionType /\ me.sources = x.sources /\ me.start = x.start /\ me.end = x.end
      /\ me.status = x.status /\ me.dropped = x.dropped /\ me.late /\ me.clean = x.clean
  BY <1>1 DEF SessionType
<1>5. Goes(st, s, me, {}) /\ (me.status = "stopped" /\ ~me.clean => me.dropped > 0)
  <2> HIDE DEF me
  <2> QED BY <1>4, SameGoes DEF Goes
<1> HIDE DEF me
<1>6. StoreOK([st EXCEPT !.session[s] = me]) /\ Ages(st, [st EXCEPT !.session[s] = me], {})
  BY <1>4, <1>5, OneAges
<1> QED BY <1>2, <1>6

(* So does the store that forgets what it was to clean up.                 *)
LEMMA CleanupAges ==
  ASSUME NEW st, StoreOK(st)
  PROVE  LET t == [st EXCEPT !.cleanup = {}]
         IN StoreOK(t) /\ Ages(st, t, {})
<1> DEFINE f == st.session
<1>1. st \in StoreType /\ f \in [Session -> SessionType]
  BY DEF StoreOK, StoreType
<1>2. [st EXCEPT !.cleanup = {}] = [st EXCEPT !.session = f, !.cleanup = {}]
  BY <1>1 DEF StoreType
<1>3. \A s \in Session : /\ Goes(st, s, f[s], {})
                         /\ f[s].status = "stopped" /\ ~f[s].clean => f[s].dropped > 0
  BY SameGoes
<1>4. LET t == [st EXCEPT !.session = f, !.cleanup = {}]
      IN StoreOK(t) /\ Ages(st, t, {})
  BY <1>1, <1>3, SessionsAge
<1> QED BY <1>2, <1>4

-----------------------------------------------------------------------------
(* How the store draws sources and begins sessions                         *)

(* A new source for this context is drawn, which nobody observes.          *)
DrawsNew(st, t, id, context) ==
  /\ t.session = st.session /\ t.sequence = st.sequence
  /\ t.events = st.events /\ t.seen = st.seen
  /\ id = st.drawn + 1 /\ t.drawn = id
  /\ t.source[id].retired = 0
  /\ \A jd \in Sources : ~(Live(st, jd) /\ Context(st, jd) = context)
  /\ \A jd \in Sources \ {id} :
       \/ t.source[jd] = st.source[jd]
       \/ Context(t, jd) = 0 /\ \A s \in Session : ~Observes(st, s, jd)

(* The source for a context is the live one, or is drawn.                  *)
Draws(st, t, id, context) ==
  /\ id \in Sources /\ Live(t, id) /\ Context(t, id) = context
  /\ t = st \/ DrawsNew(st, t, id, context)

(* So it is with the store's source for a context.                         *)
LEMMA SourceDraws ==
  ASSUME NEW st, StoreOK(st), NEW context \in Nat \ {0}, SourceFor(st, context) \in Sources
  PROVE  LET t == WithSource(st, context)
         IN StoreOK(t) /\ Draws(st, t, SourceFor(st, context), context)
<1> DEFINE t == WithSource(st, context)  id == SourceFor(st, context)
           live == LiveSources(st, context)
           used == {jd \in Sources : \E s \in Session : Observes(st, s, jd)}
           new == [NoSource EXCEPT !.context = context]
           src == [jd \in Sources |-> IF jd = st.drawn + 1 THEN new
                                      ELSE IF jd \in used THEN st.source[jd] ELSE NoSource]
<1>1. st \in StoreType
  BY DEF StoreOK
<1>2. CASE live # {}
  <2>1. t = st
    BY <1>2 DEF WithSource
  <2>2. id = CHOOSE jd \in live : TRUE
    BY <1>2 DEF SourceFor
  <2>3. id \in live
    BY <1>2, <2>2
  <2>4. Live(st, id) /\ Context(st, id) = context
    BY <2>3 DEF LiveSources, Live, Context
  <2> QED BY <2>1, <2>4 DEF Draws
<1>3. CASE live = {}
  <2>1. t = [st EXCEPT !.drawn = st.drawn + 1, !.source = src] /\ id = st.drawn + 1
    BY <1>1, <1>3 DEF WithSource, SourceFor, StoreType
  <2>2. /\ t.session = st.session /\ t.sequence = st.sequence /\ t.events = st.events
        /\ t.seen = st.seen /\ t.drawn = id /\ t.source = src /\ t.cleanup = st.cleanup
    BY <1>1, <2>1 DEF StoreType
  <2>3. st.drawn \in Nat /\ id \in Nat
    BY <1>1, <2>1 DEF StoreType
  <2>4. new.context = context /\ new.retired = 0 /\ new.interrupted = FALSE /\ new \in SourceType
    BY DEF NoSource, SourceType
  <2>5. ASSUME NEW jd \in Sources
        PROVE  src[jd] \in SourceType /\ (jd = id => src[jd] = new)
               /\ (jd # id /\ jd \in used => src[jd] = st.source[jd])
               /\ (jd # id /\ jd \notin used => src[jd] = NoSource)
    <3>1. st.source[jd] \in SourceType
      BY <1>1 DEF StoreType
    <3> HIDE DEF new, used, id, live
    <3> QED BY <2>1, <2>4, <3>1, NothingTyped
  <2>6. t \in StoreType
    <3>1. src \in [Sources -> SourceType]
      BY <2>5
    <3> HIDE DEF src, id
    <3> QED BY <1>1, <2>1, <2>3, <3>1 DEF StoreType
  <2>7. NoSource.context = 0
    BY DEF NoSource
  <2>8. \A jd \in Sources : ~(Live(st, jd) /\ Context(st, jd) = context)
    BY <1>3 DEF LiveSources, Live, Context
  <2>9. \A jd \in used : jd \in Sources /\ \E s \in Session : Observes(st, s, jd)
    OBVIOUS
  <2>10. \A jd \in Sources \ used : \A s \in Session : ~Observes(st, s, jd)
    OBVIOUS
  <2>23. id \in Sources
    OBVIOUS
  <2> HIDE DEF src, new, used, id, live, t
  <2>11. Live(t, id) /\ Context(t, id) = context /\ t.source[id].retired = 0
    BY <2>2, <2>4, <2>5, <2>23 DEF Live, Context
  <2>12. \A jd \in Sources \ {id} :
           \/ t.source[jd] = st.source[jd]
           \/ Context(t, jd) = 0 /\ \A s \in Session : ~Observes(st, s, jd)
    BY <2>2, <2>5, <2>7, <2>10 DEF Context
  <2>13. Draws(st, t, id, context)
    BY <2>1, <2>2, <2>8, <2>11, <2>12, <2>23 DEF Draws, DrawsNew
  <2>14. \A s \in Retained(st) : \A jd \in Sources : Observes(st, s, jd) =>
           jd # id /\ t.source[jd] = st.source[jd] /\ st.source[jd].context # 0
    <3> SUFFICES ASSUME NEW s \in Retained(st), NEW jd \in Sources, Observes(st, s, jd)
                 PROVE  jd # id /\ t.source[jd] = st.source[jd] /\ st.source[jd].context # 0
      OBVIOUS
    <3>1. st.source[jd].context # 0 /\ jd <= st.drawn /\ s \in Session
      BY DEF StoreOK, SourcesKnown, Retained
    <3>2. jd # id
      BY <2>1, <2>3, <3>1
    <3> QED BY <2>12, <3>1, <3>2
  <2>15. \A s \in Session : /\ \A jd : Observes(t, s, jd) <=> Observes(st, s, jd)
                            /\ Capturing(t, s) <=> Capturing(st, s)
    BY <2>2 DEF Observes, Capturing
  <2>16. Retained(t) = Retained(st)
    BY <2>2 DEF Retained
  <2>17. SourcesKnown(t)
    <3>1. \A s \in Retained(t) :
            /\ t.session[s].sources # <<>>
            /\ \A jd \in Sources : Observes(t, s, jd) => t.source[jd].context # 0
      BY <2>2, <2>14, <2>15, <2>16 DEF StoreOK, SourcesKnown, Retained
    <3>2. \A jd \in Sources : t.source[jd].context # 0 => jd <= t.drawn
      <4> SUFFICES ASSUME NEW jd \in Sources, t.source[jd].context # 0 PROVE jd <= t.drawn
        OBVIOUS
      <4>1. CASE jd = id
        BY <2>2, <2>3, <4>1
      <4>2. CASE jd # id
        <5>1. st.source[jd].context # 0
          BY <2>12, <4>2 DEF Context
        <5>2. jd <= st.drawn
          BY <5>1 DEF StoreOK, SourcesKnown
        <5> QED BY <2>1, <2>2, <2>3, <5>2 DEF Sources
      <4> QED BY <4>1, <4>2
    <3>3. \A jd \in t.cleanup : jd <= t.drawn
      <4> SUFFICES ASSUME NEW jd \in st.cleanup PROVE jd <= id
        BY <2>2
      <4>1. jd <= st.drawn /\ jd \in Nat
        BY CurrentDrawn DEF StoreOK, StoreType, Sources
      <4> QED BY <2>1, <2>3, <4>1
    <3> QED BY <3>1, <3>2, <3>3 DEF SourcesKnown
  <2>18. OneLive(t)
    <3> SUFFICES ASSUME NEW jd \in Sources, NEW kd \in Sources, Live(t, jd), Live(t, kd),
                        t.source[jd].context = t.source[kd].context
                 PROVE  jd = kd
      BY DEF OneLive
    <3>1. ASSUME NEW ld \in Sources, ld # id, Live(t, ld)
          PROVE  t.source[ld] = st.source[ld] /\ Live(st, ld) /\ t.source[ld].context # context
      <4>1. t.source[ld] = st.source[ld]
        BY <2>12, <3>1 DEF Live, Context
      <4> QED BY <2>8, <3>1, <4>1 DEF Live, Context
    <3> QED BY <2>11, <3>1 DEF StoreOK, OneLive, Context
  <2>19. Consecutive(t)
    <3>1. \A i \in DOMAIN st.events : st.events[i].source <= t.drawn
      <4> SUFFICES ASSUME NEW i \in DOMAIN st.events PROVE st.events[i].source <= t.drawn
        OBVIOUS
      <4>1. st.events[i] \in Event /\ st.events[i].source <= st.drawn
        BY <1>1 DEF StoreOK, Consecutive, StoreType
      <4>2. st.events[i].source \in Nat
        BY <4>1 DEF Event, Sources
      <4> QED BY <2>1, <2>2, <2>3, <4>1, <4>2
    <3> QED BY <2>2, <3>1 DEF StoreOK, Consecutive
  <2>20. RangesOK(t)
    BY <2>2, <2>16 DEF StoreOK, RangesOK
  <2>21. DropsTold(t)
    <3>1. \A s \in Session : Capturing(st, s) => s \in Retained(st)
      BY DEF Capturing, Retained
    <3> QED BY <2>2, <2>14, <2>15, <3>1 DEF StoreOK, DropsTold
  <2>22. StoreOK(t)
    BY <2>6, <2>17, <2>18, <2>19, <2>20, <2>21 DEF StoreOK
  <2> QED BY <2>13, <2>22 DEF t, id
<1> QED BY <1>2, <1>3

(* The sessions but s stay, and s begins at the next event.                *)
Starts(st, t, s, source) ==
  /\ t.source = st.source /\ t.sequence = st.sequence /\ t.drawn = st.drawn
  /\ t.events = st.events /\ t.seen = st.seen
  /\ \A r \in Session \ {s} : t.session[r] = st.session[r]
  /\ t.session[s] = [NoSession EXCEPT !.status = "active", !.sources = <<source>>,
                                      !.start = st.sequence + 1]

(* A session at its start.                                                 *)
LEMMA FirstSession ==
  ASSUME NEW n \in Nat, NEW source \in Sources
  PROVE  LET me == [NoSession EXCEPT !.status = "active", !.sources = <<source>>, !.start = n + 1]
         IN /\ me \in SessionType /\ me.status = "active" /\ me.sources = <<source>>
            /\ me.start = n + 1 /\ me.end = 0 /\ me.dropped = 0 /\ ~me.late /\ ~me.clean
<1>1. <<source>> \in Seq(Sources) /\ n + 1 \in Nat
  OBVIOUS
<1> QED BY <1>1 DEF NoSession, SessionType, Statuses

(* StartAt starts a session on a live source.                              *)
LEMMA StartAtStarts ==
  ASSUME NEW st, StoreOK(st), NEW s \in Session, NEW source \in Sources, Live(st, source)
  PROVE  LET t == StartAt(st, s, source) IN StoreOK(t) /\ Starts(st, t, s, source)
<1> DEFINE t == StartAt(st, s, source)
           me == [NoSession EXCEPT !.status = "active", !.sources = <<source>>,
                                   !.start = st.sequence + 1]
<1>1. st \in StoreType /\ st.sequence \in Nat
  BY DEF StoreOK, StoreType
<1>2. /\ me \in SessionType /\ me.status = "active" /\ me.sources = <<source>>
      /\ me.start = st.sequence + 1 /\ me.end = 0 /\ me.dropped = 0 /\ ~me.late /\ ~me.clean
  BY <1>1, FirstSession
<1>3. t = [st EXCEPT !.session[s] = me]
  BY <1>1 DEF StartAt
<1>15. t.cleanup = st.cleanup
  BY <1>1, <1>3 DEF StoreType
<1> HIDE DEF me
<1>4. t \in StoreType
  <2>1. [st.session EXCEPT ![s] = me] \in [Session -> SessionType]
    BY <1>1, <1>2 DEF StoreType
  <2>2. t = [st EXCEPT !.session = [st.session EXCEPT ![s] = me]]
    BY <1>1, <1>3
  <2> HIDE DEF t
  <2> QED BY <1>1, <2>1, <2>2 DEF StoreType
<1>5. Starts(st, t, s, source)
  BY <1>1, <1>3 DEF Starts, me, StoreType
<1>6. t.session[s] = me
  BY <1>5 DEF Starts, me
<1> HIDE DEF t
<1>7. /\ t.session[s].sources # <<>> /\ \A jd : Observes(t, s, jd) <=> jd = source
      /\ s \in Retained(t) /\ Capturing(t, s)
  <2>1. t.session[s].sources = <<source>>
    BY <1>2, <1>6
  <2>2. DOMAIN <<source>> = {1} /\ <<source>>[1] = source /\ <<source>> # <<>>
    OBVIOUS
  <2>3. \A jd : Observes(t, s, jd) <=> jd = source
    BY <2>1, <2>2 DEF Observes
  <2> QED BY <1>2, <1>6, <2>1, <2>2, <2>3 DEF Retained, Capturing
<1>8. \A r \in Session \ {s} : /\ \A jd : Observes(t, r, jd) <=> Observes(st, r, jd)
                               /\ Capturing(t, r) <=> Capturing(st, r)
                               /\ r \in Retained(t) <=> r \in Retained(st)
  BY <1>5 DEF Starts, Observes, Capturing, Retained
<1>9. SourcesKnown(t)
  <2>1. t.source[source].context # 0
    BY <1>5 DEF Starts, Live
  <2>2. \A r \in Retained(t) :
            /\ t.session[r].sources # <<>>
            /\ \A jd \in Sources : Observes(t, r, jd) => t.source[jd].context # 0
    <3> SUFFICES ASSUME NEW r \in Retained(t)
                 PROVE  /\ t.session[r].sources # <<>>
                        /\ \A jd \in Sources : Observes(t, r, jd) => t.source[jd].context # 0
      OBVIOUS
    <3>1. r \in Session
      BY DEF Retained
    <3>2. CASE r = s
      BY <1>7, <2>1, <3>2
    <3>3. CASE r # s
      BY <1>5, <1>8, <3>1, <3>3 DEF Starts, StoreOK, SourcesKnown
    <3> QED BY <3>2, <3>3
  <2> QED BY <1>5, <1>15, <2>2 DEF Starts, StoreOK, SourcesKnown
<1>10. OneLive(t)
  BY <1>5 DEF Starts, StoreOK, OneLive, Live
<1>11. Consecutive(t)
  BY <1>5 DEF Starts, StoreOK, Consecutive
<1>12. RangesOK(t)
  <2> SUFFICES ASSUME NEW r \in Retained(t)
               PROVE  /\ 1 <= t.session[r].start /\ t.session[r].start <= t.sequence + 1
                      /\ t.session[r].end <= t.sequence
    BY DEF RangesOK
  <2>1. r \in Session
    BY DEF Retained
  <2>2. CASE r = s
    BY <1>1, <1>2, <1>5, <1>6, <2>2 DEF Starts
  <2>3. CASE r # s
    BY <1>5, <1>8, <2>1, <2>3 DEF Starts, StoreOK, RangesOK
  <2> QED BY <2>2, <2>3
<1>13. DropsTold(t)
  <2>1. ~t.source[source].interrupted
    BY <1>5 DEF Starts, Live
  <2>2. ASSUME NEW r \in Session
        PROVE /\ Capturing(t, r) => \A jd \in Sources : Observes(t, r, jd) /\ t.source[jd].interrupted
                                                        => t.session[r].dropped > 0
              /\ t.session[r].status = "stopped" /\ ~t.session[r].clean => t.session[r].dropped > 0
    <3>2. CASE r = s
      BY <1>2, <1>6, <1>7, <2>1, <3>2
    <3>3. CASE r # s
      BY <1>5, <1>8, <3>3 DEF Starts, StoreOK, DropsTold
    <3> QED BY <3>2, <3>3
  <2> QED BY <2>2 DEF DropsTold
<1>14. StoreOK(t)
  BY <1>4, <1>9, <1>10, <1>11, <1>12, <1>13 DEF StoreOK
<1> QED BY <1>5, <1>14 DEF t

(* Those that follow the pages observe this source too.                    *)
Follows(st, t, source) ==
  /\ t.source = st.source /\ t.sequence = st.sequence /\ t.drawn = st.drawn
  /\ t.events = st.events /\ t.seen = st.seen
  /\ \A s \in Session :
       LET x == st.session[s]  me == t.session[s]
       IN /\ me.status = x.status /\ me.start = x.start /\ me.end = x.end
          /\ me.dropped = x.dropped /\ me.late = x.late /\ me.clean = x.clean
          /\ \/ me.sources = x.sources
             \/ Capturing(st, s) /\ me.sources = Append(x.sources, source)

(* FollowSource gives the source to those who capture.                     *)
LEMMA FollowFollows ==
  ASSUME NEW st, StoreOK(st), NEW source \in Sources, Live(st, source)
  PROVE  LET t == FollowSource(st, source) IN StoreOK(t) /\ Follows(st, t, source)
<1> DEFINE t == FollowSource(st, source)
           Me(s) == [st.session[s] EXCEPT !.sources = Append(@, source)]
           f == [s \in Session |->
                  IF Capturing(st, s) /\ s \in Following /\ ~st.session[s].late
                       /\ ~Observes(st, s, source)
                    THEN Me(s) ELSE st.session[s]]
<1>1. st \in StoreType /\ st.sequence \in Nat
  BY DEF StoreOK, StoreType
<1>2. t = [st EXCEPT !.session = f]
  BY Zenon DEF FollowSource
<1>3. ASSUME NEW s \in Session
      PROVE  LET x == st.session[s]  me == f[s]
             IN /\ me \in SessionType
                /\ me.status = x.status /\ me.start = x.start /\ me.end = x.end
                /\ me.dropped = x.dropped /\ me.late = x.late /\ me.clean = x.clean
                /\ \/ me.sources = x.sources
                   \/ Capturing(st, s) /\ me.sources = Append(x.sources, source)
  <2> DEFINE x == st.session[s]
  <2>1. x \in SessionType /\ x.sources \in Seq(Sources) /\ Append(x.sources, source) \in Seq(Sources)
    BY <1>1 DEF StoreType, SessionType
  <2>2. CASE f[s] = x
    <3> HIDE DEF f
    <3> QED BY <2>1, <2>2
  <2>3. CASE f[s] = Me(s) /\ Capturing(st, s)
    <3>1. LET me == Me(s) IN
             /\ me \in SessionType
             /\ me.status = x.status /\ me.start = x.start /\ me.end = x.end
             /\ me.dropped = x.dropped /\ me.late = x.late /\ me.clean = x.clean
             /\ me.sources = Append(x.sources, source)
      BY <2>1 DEF SessionType
    <3> HIDE DEF f, Me
    <3> QED BY <2>3, <3>1
  <2> QED BY <2>2, <2>3
<1>4. f \in [Session -> SessionType]
  BY <1>3
<1> HIDE DEF f
<1>5. /\ t \in StoreType /\ t.session = f
      /\ t.source = st.source /\ t.sequence = st.sequence /\ t.drawn = st.drawn
      /\ t.events = st.events /\ t.seen = st.seen /\ t.cleanup = st.cleanup
  BY <1>1, <1>2, <1>4 DEF StoreType
<1> HIDE DEF t
<1>6. Follows(st, t, source)
  BY <1>3, <1>5 DEF Follows
<1>7. ASSUME NEW s \in Session
      PROVE  /\ Capturing(t, s) <=> Capturing(st, s)
             /\ s \in Retained(t) <=> s \in Retained(st)
             /\ st.session[s].sources # <<>> => t.session[s].sources # <<>>
             /\ \A jd : Observes(t, s, jd) => jd = source \/ Observes(st, s, jd)
  <2>1. st.session[s].sources \in Seq(Sources)
    BY <1>1 DEF StoreType, SessionType
  <2>2. \/ t.session[s].sources = st.session[s].sources
        \/ t.session[s].sources = Append(st.session[s].sources, source)
    BY <1>6 DEF Follows
  <2>3. /\ Capturing(t, s) <=> Capturing(st, s)
        /\ s \in Retained(t) <=> s \in Retained(st)
    BY <1>6 DEF Follows, Capturing, Retained
  <2> DEFINE q == st.session[s].sources
  <2>4. t.session[s].sources = q \/ t.session[s].sources = Append(q, source)
    BY <2>2
  <2>5. q \in Seq(Sources)
    BY <2>1
  <2>6. q # <<>> => t.session[s].sources # <<>>
    <3> HIDE DEF q
    <3> QED BY <2>4, <2>5
  <2>7. ASSUME NEW jd, Observes(t, s, jd), jd # source PROVE Observes(st, s, jd)
    <3>1. PICK i \in DOMAIN t.session[s].sources : t.session[s].sources[i] = jd
      BY <2>7 DEF Observes
    <3>2. i \in DOMAIN q /\ q[i] = jd
      <4> HIDE DEF q
      <4>1. CASE t.session[s].sources = q
        BY <3>1, <4>1
      <4>2. CASE t.session[s].sources = Append(q, source)
        BY <2>5, <2>7, <3>1, <4>2
      <4> QED BY <2>4, <4>1, <4>2
    <3> QED BY <3>2 DEF Observes
  <2> QED BY <2>3, <2>6, <2>7
<1>8. SourcesKnown(t)
  <2>1. \A s \in Retained(t) : s \in Session /\ s \in Retained(st)
    BY <1>7 DEF Retained
  <2>2. \A s \in Retained(st) : st.session[s].sources # <<>>
        /\ \A jd \in Sources : Observes(st, s, jd) => st.source[jd].context # 0
    BY DEF StoreOK, SourcesKnown
  <2>3. st.source[source].context # 0
    BY DEF Live
  <2>4. \A jd \in Sources : t.source[jd].context # 0 => jd <= t.drawn
    BY <1>5 DEF StoreOK, SourcesKnown
  <2>5. \A jd \in t.cleanup : jd <= t.drawn
    BY <1>5, CurrentDrawn
  <2> QED BY <1>5, <1>7, <2>1, <2>2, <2>3, <2>4, <2>5 DEF SourcesKnown
<1>9. OneLive(t)
  BY <1>5 DEF StoreOK, OneLive, Live
<1>10. Consecutive(t)
  BY <1>5 DEF StoreOK, Consecutive
<1>11. RangesOK(t)
  <2>1. \A s \in Retained(t) : s \in Session /\ s \in Retained(st)
    BY <1>7 DEF Retained
  <2> QED BY <1>6, <2>1 DEF StoreOK, RangesOK, Follows
<1>12. DropsTold(t)
  <2>1. ~st.source[source].interrupted
    BY DEF Live
  <2> QED BY <1>6, <1>7, <2>1 DEF StoreOK, DropsTold, Follows
<1>13. StoreOK(t)
  BY <1>5, <1>8, <1>9, <1>10, <1>11, <1>12 DEF StoreOK
<1> QED BY <1>6, <1>13 DEF t

-----------------------------------------------------------------------------
(* How the store adds events                                               *)

(* A set of numbers has a least.                                           *)
LEMMA LeastNatural ==
  ASSUME NEW S \in SUBSET Nat, S # {}
  PROVE  \E n \in S : \A m \in S : n <= m
<1>1. PICK n \in S : \A m \in S : ~ (<<m, n>> \in OpToRel(<, Nat))
  BY WFMin, NatLessThanWellFounded, Zenon
<1>2. \A m \in S : ~(m < n)
  BY <1>1 DEF OpToRel
<1> QED BY <1>2

(* And a greatest, below a bound.                                          *)
LEMMA GreatestIs ==
  ASSUME NEW n \in Nat, NEW S, S \subseteq 0..n, S # {}
  PROVE  Max(S) \in S /\ \A m \in S : m <= Max(S)
<1> DEFINE T == {n - r : r \in S}
<1>1. T \in SUBSET Nat /\ T # {}
  <2>1. \A r \in S : n - r \in Nat
    OBVIOUS
  <2> QED BY <2>1
<1>2. PICK x \in T : \A y \in T : x <= y
  BY <1>1, LeastNatural
<1>3. PICK r \in S : x = n - r
  OBVIOUS
<1>4. \A m \in S : m <= r
  <2> SUFFICES ASSUME NEW m \in S PROVE m <= r
    OBVIOUS
  <2>1. n - m \in T /\ m \in 0..n /\ r \in 0..n
    OBVIOUS
  <2>2. n - r <= n - m
    BY <1>2, <1>3, <2>1
  <2> QED BY <2>1, <2>2
<1>5. \E x1 \in S : \A y \in S : x1 >= y
  BY <1>4
<1>6. Max(S) \in S /\ \A y \in S : Max(S) >= y
  BY <1>5 DEF Max
<1> QED BY <1>6

(* The greater of two.                                                     *)
LEMMA GreaterOf ==
  ASSUME NEW a \in Nat, NEW b \in Nat
  PROVE  Max({a, b}) = IF a <= b THEN b ELSE a
<1> DEFINE m == IF a <= b THEN b ELSE a
<1>1. m \in {a, b} /\ \A y \in {a, b} : m >= y
  OBVIOUS
<1>2. \A x \in {a, b} : (\A y \in {a, b} : x >= y) => x = m
  OBVIOUS
<1> HIDE DEF m
<1>3. Max({a, b}) = m
  BY <1>1, <1>2 DEF Max
<1> QED BY <1>3 DEF m

(* A session that goes on, with perhaps more drops.                        *)
Counts(x, me) ==
  /\ me.status = x.status /\ me.sources = x.sources /\ me.start = x.start /\ me.end = x.end
  /\ me.late = x.late /\ me.clean = x.clean /\ x.dropped <= me.dropped

(* Events become more, and the oldest leave for a cause.                   *)
Adds(st, t, new) ==
  /\ st.sequence <= t.sequence /\ t.drawn = st.drawn /\ t.cleanup = st.cleanup
  /\ st.sequence + Len(t.events) <= t.sequence + Len(st.events)
  /\ \A s \in Session : Counts(st.session[s], t.session[s])
  /\ \A id \in Sources :
       /\ t.source[id].context = st.source[id].context
       /\ t.source[id].interrupted = st.source[id].interrupted
       /\ st.source[id].retired <= t.source[id].retired
       /\ \/ t.source[id].retired = st.source[id].retired
          \/ \E k \in ToSet(st.events) \cup new :
                k.source = id /\ k.number = t.source[id].retired
  /\ ToSet(t.events) \subseteq ToSet(st.events) \cup new
  /\ \A k \in new : st.sequence < k.seq /\ k.seq <= t.sequence
  /\ \A k \in ToSet(st.events) \cup new :
       \/ k \in ToSet(t.events)
       \/ /\ k.number <= t.source[k.source].retired
          /\ k.seq + Len(t.events) <= t.sequence
          /\ \A s \in Session : Observes(st, s, k.source) => t.session[s].dropped > 0

(* Drops are counted for those who observe the source, and for nobody      *)
(* else.                                                                   *)
LEMMA CountsIs ==
  ASSUME NEW st, st \in StoreType, NEW source, NEW n \in Nat
  PROVE  LET t == CountDrops(st, source, n)
             f == t.session
         IN /\ t = [st EXCEPT !.session = f] /\ f \in [Session -> SessionType]
            /\ \A s \in Session : /\ Counts(st.session[s], f[s])
                                  /\ Observes(st, s, source) => f[s].dropped = st.session[s].dropped + n
<1> DEFINE t == CountDrops(st, source, n)
           Me(s) == [st.session[s] EXCEPT !.dropped = @ + n]
           f == [s \in Session |-> IF Observes(st, s, source) THEN Me(s) ELSE st.session[s]]
<1>1. st \in StoreType
  OBVIOUS
<1>2. t = [st EXCEPT !.session = f]
  BY Zenon DEF CountDrops
<1>3. t.session = f
  BY <1>1, <1>2 DEF StoreType
<1>4. ASSUME NEW s \in Session
      PROVE  /\ f[s] \in SessionType /\ Counts(st.session[s], f[s])
             /\ Observes(st, s, source) => f[s].dropped = st.session[s].dropped + n
  <2> DEFINE x == st.session[s]
  <2>1. x \in SessionType /\ x.dropped \in Nat /\ x.dropped + n \in Nat
    BY <1>1 DEF StoreType, SessionType
  <2>2. CASE Observes(st, s, source)
    <3>1. f[s] = Me(s) /\ Me(s) = [x EXCEPT !.dropped = x.dropped + n]
      BY <2>1, <2>2 DEF SessionType
    <3> HIDE DEF Me, f, x
    <3> DEFINE me == [x EXCEPT !.dropped = x.dropped + n]
    <3>2. /\ me \in SessionType /\ me.sources = x.sources /\ me.start = x.start /\ me.end = x.end
          /\ me.status = x.status /\ me.dropped = x.dropped + n /\ me.late = x.late
          /\ me.clean = x.clean
      BY <2>1 DEF SessionType
    <3> HIDE DEF me
    <3>3. x.dropped <= me.dropped
      BY <2>1, <3>2
    <3>4. f[s] = me
      BY <3>1 DEF me
    <3> QED BY <3>2, <3>3, <3>4 DEF Counts, x
  <2>3. CASE ~Observes(st, s, source)
    <3>1. f[s] = x
      BY <2>3
    <3> HIDE DEF f
    <3> QED BY <2>1, <2>3, <3>1 DEF Counts
  <2> QED BY <2>2, <2>3
<1>5. f \in [Session -> SessionType]
  BY <1>4
<1> HIDE DEF f, t
<1>6. /\ t = [st EXCEPT !.session = t.session] /\ t.session \in [Session -> SessionType]
      /\ \A s \in Session : /\ Counts(st.session[s], t.session[s])
                            /\ Observes(st, s, source)
                               => t.session[s].dropped = st.session[s].dropped + n
  BY <1>2, <1>3, <1>4, <1>5
<1> QED BY <1>6 DEF t

(* Who counts more drops goes on.                                          *)
LEMMA CountGoes ==
  ASSUME NEW st, st \in StoreType, NEW s \in Session, NEW me, Counts(st.session[s], me)
  PROVE  Goes(st, s, me, {})
BY DEF Counts, Goes, Retained

(* What is in a sequence.                                                  *)
LEMMA ToSetIs ==
  ASSUME NEW q
  PROVE  \A k : k \in ToSet(q) <=> \E i \in DOMAIN q : k = q[i]
BY DEF ToSet

(* An event as the store keeps it.                                         *)
Kept(st, id, n) == [seq |-> st.sequence + 1, source |-> id, number |-> n]

(* The store that has one event more than may be retained, perhaps.        *)
Appended(st, kept) ==
  [st EXCEPT !.sequence = @ + 1, !.events = Append(@, kept), !.seen = @ \cup {kept}]

(* The events are consecutive still.                                       *)
LEMMA AppendedIs ==
  ASSUME NEW st, StoreOK(st), NEW id \in Sources, id <= st.drawn, NEW n \in Nat
  PROVE  LET kept == Kept(st, id, n)
             u == Appended(st, kept)
         IN /\ u \in StoreType /\ kept \in Event
            /\ u.session = st.session /\ u.source = st.source /\ u.drawn = st.drawn
            /\ u.cleanup = st.cleanup
            /\ u.sequence = st.sequence + 1 /\ u.events = Append(st.events, kept)
            /\ Len(u.events) = Len(st.events) + 1
            /\ \A i \in DOMAIN u.events : /\ u.events[i].seq + Len(u.events) = u.sequence + i
                                          /\ u.events[i].source <= u.drawn
            /\ ToSet(u.events) = ToSet(st.events) \cup {kept}
            /\ u.seen = ToSet(u.events)
<1> DEFINE kept == Kept(st, id, n)
           u == Appended(st, kept)
<1>1. /\ st \in StoreType /\ st.sequence \in Nat /\ st.events \in Seq(Event)
      /\ st.seen \subseteq Event /\ st.seen = ToSet(st.events) /\ Len(st.events) \in Nat
  BY DEF StoreOK, StoreType, Consecutive
<1>2. kept \in Event /\ kept.seq = st.sequence + 1 /\ kept.source = id
  BY <1>1 DEF Event, Kept
<1> HIDE DEF kept
<1>3. u = [st EXCEPT !.sequence = st.sequence + 1, !.events = Append(st.events, kept),
                     !.seen = st.seen \cup {kept}]
  BY <1>1 DEF Appended
<1>4. /\ st.sequence + 1 \in Nat /\ Append(st.events, kept) \in Seq(Event)
      /\ st.seen \cup {kept} \subseteq Event
  BY <1>1, <1>2
<1> HIDE DEF u
<1>5. /\ u \in StoreType /\ u.cleanup = st.cleanup
      /\ u.session = st.session /\ u.source = st.source /\ u.drawn = st.drawn
      /\ u.sequence = st.sequence + 1 /\ u.events = Append(st.events, kept)
      /\ u.seen = st.seen \cup {kept}
  BY <1>1, <1>3, <1>4 DEF StoreType
<1> DEFINE q == st.events  p == Append(q, kept)
<1>6. /\ Len(p) = Len(q) + 1
      /\ \A i \in 1..Len(q) : p[i] = q[i]
      /\ p[Len(q) + 1] = kept
      /\ DOMAIN p = 1..(Len(q) + 1) /\ DOMAIN q = 1..Len(q)
  BY <1>1, <1>2
<1>10. u.events = p
  BY <1>5
<1>11. \A i \in DOMAIN q : /\ q[i].seq + Len(q) = st.sequence + i /\ q[i].source <= st.drawn
                           /\ q[i].seq \in Nat
  <2>1. \A i \in DOMAIN q : q[i].seq + Len(q) = st.sequence + i /\ q[i].source <= st.drawn
    BY DEF StoreOK, Consecutive
  <2>2. q \in Seq(Event)
    BY <1>1
  <2> HIDE DEF q
  <2>3. \A i \in DOMAIN q : q[i] \in Event
    BY <2>2
  <2> QED BY <2>1, <2>3 DEF Event
<1>12. Len(q) \in Nat /\ u.seen = ToSet(q) \cup {kept}
  BY <1>1, <1>5
<1> HIDE DEF q, p
<1>7. ASSUME NEW i \in 1..(Len(q) + 1)
      PROVE  /\ p[i].seq + (Len(q) + 1) = (st.sequence + 1) + i
             /\ p[i].source <= st.drawn
  <2>1. CASE i = Len(q) + 1
    BY <1>1, <1>2, <1>6, <1>12, <2>1
  <2>2. CASE i \in 1..Len(q)
    <3>1. p[i] = q[i] /\ i \in DOMAIN q
      BY <1>6, <2>2
    <3>2. q[i].seq + Len(q) = st.sequence + i /\ q[i].source <= st.drawn /\ q[i].seq \in Nat
      BY <1>11, <3>1
    <3>3. q[i].seq + (Len(q) + 1) = (st.sequence + 1) + i
      <4> DEFINE a == q[i].seq  b == Len(q)  c == st.sequence
      <4>1. a \in Nat /\ b \in Nat /\ c \in Nat /\ i \in Nat /\ a + b = c + i
        BY <1>1, <1>12, <3>2
      <4> HIDE DEF a, b, c
      <4>2. a + (b + 1) = (c + 1) + i
        BY <4>1
      <4> QED BY <4>2 DEF a, b, c
    <3>4. p[i].seq = q[i].seq /\ p[i].source = q[i].source
      BY <3>1
    <3> QED BY <3>2, <3>3, <3>4
  <2> QED BY <1>12, <2>1, <2>2
<1>8. ToSet(p) = ToSet(q) \cup {kept}
  <2>1. ASSUME NEW k, k \in ToSet(p) PROVE k \in ToSet(q) \cup {kept}
    <3>1. PICK i \in DOMAIN p : k = p[i]
      BY <2>1 DEF ToSet
    <3>2. CASE i = Len(q) + 1
      BY <1>6, <3>1, <3>2
    <3>3. CASE i \in 1..Len(q)
      BY <1>6, <3>1, <3>3 DEF ToSet
    <3> QED BY <1>6, <1>12, <3>1, <3>2, <3>3
  <2>2. ASSUME NEW k, k \in ToSet(q) \cup {kept} PROVE k \in ToSet(p)
    <3>1. CASE k = kept
      <4>1. Len(q) + 1 \in DOMAIN p
        BY <1>6, <1>12
      <4> QED BY <1>6, <3>1, <4>1 DEF ToSet
    <3>2. CASE k \in ToSet(q)
      <4>1. PICK i \in DOMAIN q : k = q[i]
        BY <3>2 DEF ToSet
      <4>2. i \in DOMAIN p /\ k = p[i]
        BY <1>6, <1>12, <4>1
      <4> QED BY <4>2 DEF ToSet
    <3> QED BY <2>2, <3>1, <3>2
  <2> QED BY <2>1, <2>2
<1>9. /\ Len(u.events) = Len(q) + 1
      /\ \A i \in DOMAIN u.events : /\ u.events[i].seq + Len(u.events) = u.sequence + i
                                    /\ u.events[i].source <= u.drawn
      /\ ToSet(u.events) = ToSet(q) \cup {kept}
      /\ u.seen = ToSet(u.events)
  <2>1. u.events = p /\ u.sequence = st.sequence + 1 /\ u.drawn = st.drawn
    BY <1>5, <1>10
  <2>2. \A i \in DOMAIN p : p[i].seq + Len(p) = (st.sequence + 1) + i /\ p[i].source <= st.drawn
    BY <1>6, <1>7
  <2> QED BY <1>6, <1>8, <1>12, <2>1, <2>2
<1> QED BY <1>2, <1>5, <1>9 DEF u, q, kept

(* A store that adds events is as sound as it was.                         *)
LEMMA AddsIsOK ==
  ASSUME NEW st, StoreOK(st), NEW t, t \in StoreType, NEW new, Adds(st, t, new), Consecutive(t)
  PROVE  StoreOK(t)
<1>1. st \in StoreType
  BY DEF StoreOK
<1>2. \A s \in Session : /\ Counts(st.session[s], t.session[s])
                         /\ \A id : Observes(t, s, id) <=> Observes(st, s, id)
                         /\ Capturing(t, s) <=> Capturing(st, s)
                         /\ s \in Retained(t) <=> s \in Retained(st)
  BY DEF Adds, Counts, Observes, Capturing, Retained
<1>3. \A id \in Sources : /\ t.source[id].context = st.source[id].context
                          /\ t.source[id].interrupted = st.source[id].interrupted
  BY DEF Adds
<1>4. st.sequence \in Nat /\ t.sequence \in Nat /\ st.sequence <= t.sequence /\ t.drawn = st.drawn
  BY <1>1 DEF StoreType, Adds
<1>5. \A s \in Retained(t) : s \in Session /\ s \in Retained(st)
  BY <1>2 DEF Retained
<1>10. \A id \in t.cleanup : id <= t.drawn
  BY <1>4, CurrentDrawn DEF Adds
<1>6. SourcesKnown(t)
  BY <1>2, <1>3, <1>4, <1>5, <1>10 DEF StoreOK, SourcesKnown, Counts
<1>7. OneLive(t)
  BY <1>3 DEF StoreOK, OneLive, Live
<1>8. RangesOK(t)
  <2> SUFFICES ASSUME NEW s \in Retained(t)
               PROVE  /\ 1 <= t.session[s].start /\ t.session[s].start <= t.sequence + 1
                      /\ t.session[s].end <= t.sequence
    BY DEF RangesOK
  <2>1. /\ t.session[s].start = st.session[s].start /\ t.session[s].end = st.session[s].end
        /\ st.session[s].start \in Nat /\ st.session[s].end \in Nat
    BY <1>1, <1>2, <1>5 DEF Counts, StoreType, SessionType
  <2>2. /\ 1 <= st.session[s].start /\ st.session[s].start <= st.sequence + 1
        /\ st.session[s].end <= st.sequence
    BY <1>5 DEF StoreOK, RangesOK
  <2> QED BY <1>4, <2>1, <2>2
<1>9. DropsTold(t)
  <2> SUFFICES ASSUME NEW s \in Session
               PROVE  /\ Capturing(t, s) => \A id \in Sources : Observes(t, s, id) /\ t.source[id].interrupted
                                                               => t.session[s].dropped > 0
                      /\ t.session[s].status = "stopped" /\ ~t.session[s].clean
                           => t.session[s].dropped > 0
    BY DEF DropsTold
  <2>1. /\ Capturing(st, s) => \A id \in Sources : Observes(st, s, id) /\ st.source[id].interrupted
                                                  => st.session[s].dropped > 0
        /\ st.session[s].status = "stopped" /\ ~st.session[s].clean => st.session[s].dropped > 0
    BY DEF StoreOK, DropsTold
  <2>2. st.session[s].dropped \in Nat /\ t.session[s].dropped \in Nat
        /\ st.session[s].dropped <= t.session[s].dropped
    BY <1>1, <1>2 DEF StoreType, SessionType, Counts
  <2>3. st.session[s].dropped > 0 => t.session[s].dropped > 0
    BY <2>2
  <2>4. t.session[s].status = st.session[s].status /\ (t.session[s].clean = st.session[s].clean)
    BY <1>2 DEF Counts
  <2> QED BY <1>2, <1>3, <2>1, <2>3, <2>4
<1> QED BY <1>6, <1>7, <1>8, <1>9 DEF StoreOK

(* One event more.                                                         *)
LEMMA StoreAdds ==
  ASSUME NEW st, StoreOK(st), NEW id \in Sources, id <= st.drawn, NEW n \in Nat,
         NEW retired \in Nat, retired < n, \A k \in st.seen : k.source = id => k.number < n
  PROVE  LET t == StoreEvent(st, id, n, retired)
             kept == Kept(st, id, n)
         IN StoreOK(t) /\ Adds(st, t, {kept}) /\ t.sequence = st.sequence + 1
            /\ kept \in ToSet(t.events)
<1> DEFINE kept == Kept(st, id, n)
           u == Appended(st, kept)
           t == Trim(u)
           q == u.events
<1>1. StoreEvent(st, id, n, retired) = t
  <2>1. ~(n <= retired \/ \E k \in st.seen : k.source = id /\ k.number = n)
    <3>1. \A k \in st.seen : k \in Event /\ k.number \in Nat
      BY DEF StoreOK, StoreType, Event
    <3> QED BY <3>1
  <2> QED BY <2>1 DEF StoreEvent, Kept, Appended
<1>2. /\ u \in StoreType /\ kept \in Event
      /\ u.session = st.session /\ u.source = st.source /\ u.drawn = st.drawn
      /\ u.cleanup = st.cleanup
      /\ u.sequence = st.sequence + 1 /\ u.events = Append(st.events, kept)
      /\ Len(u.events) = Len(st.events) + 1
      /\ \A i \in DOMAIN u.events : /\ u.events[i].seq + Len(u.events) = u.sequence + i
                                    /\ u.events[i].source <= u.drawn
      /\ ToSet(u.events) = ToSet(st.events) \cup {kept}
      /\ u.seen = ToSet(u.events)
  BY AppendedIs
<1>3. kept.seq = st.sequence + 1 /\ kept.source = id /\ kept.number = n
  BY DEF Kept
<1> HIDE DEF kept, u
<1>4. /\ st \in StoreType /\ st.sequence \in Nat /\ st.drawn \in Nat /\ Len(st.events) \in Nat
      /\ Len(st.events) <= MaxStored /\ Len(st.events) <= st.sequence /\ MaxStored \in Nat \ {0}
  BY CaptureConstants DEF StoreOK, StoreType, Consecutive
<1>5. /\ q \in Seq(Event) /\ Len(q) \in Nat /\ Len(q) >= 1 /\ DOMAIN q = 1..Len(q)
      /\ q # <<>> /\ Head(q) = q[1]
      /\ \A i \in 1..Len(q) : q[i] \in Event /\ q[i].seq \in Nat /\ q[i].number \in Nat
                              /\ q[i].source \in Sources
  <2>1. q \in Seq(Event)
    BY <1>2 DEF StoreType
  <2>2. Len(q) >= 1 /\ Len(q) \in Nat
    BY <1>2, <1>4
  <2> HIDE DEF q
  <2>3. DOMAIN q = 1..Len(q) /\ q # <<>> /\ Head(q) = q[1] /\ \A i \in 1..Len(q) : q[i] \in Event
    BY <2>1, <2>2
  <2> QED BY <2>1, <2>2, <2>3 DEF Event
<1>6. CASE Len(q) <= MaxStored
  <2> DEFINE old == {k \in u.seen : k.seq >= Head(u.events).seq}
  <2>1. t = [u EXCEPT !.seen = old]
    BY <1>5, <1>6 DEF Trim
  <2>2. old = u.seen
    <3>1. \A k \in u.seen : k.seq >= Head(q).seq
      <4> SUFFICES ASSUME NEW k \in u.seen PROVE k.seq >= Head(q).seq
        OBVIOUS
      <4>0. k \in ToSet(q) /\ 1 \in DOMAIN q /\ 1 \in 1..Len(q)
        BY <1>2, <1>5
      <4>1. PICK i \in DOMAIN q : k = q[i]
        BY <4>0 DEF ToSet
      <4>2. q[i].seq + Len(q) = u.sequence + i /\ q[1].seq + Len(q) = u.sequence + 1
        BY <1>2, <4>0
      <4>3. q[i].seq \in Nat /\ q[1].seq \in Nat /\ u.sequence \in Nat
        BY <1>2, <1>4, <1>5, <4>0
      <4> HIDE DEF q
      <4> QED BY <1>5, <4>1, <4>2, <4>3
    <3> QED BY <3>1
  <2>3. t = u
    <3> HIDE DEF t, old
    <3> QED BY <1>2, <2>1, <2>2 DEF StoreType
  <2>5. Adds(st, u, {kept})
    <3>1. \A s \in Session : Counts(st.session[s], u.session[s])
      <4> SUFFICES ASSUME NEW s \in Session PROVE Counts(st.session[s], st.session[s])
        BY <1>2
      <4>1. st.session[s].dropped \in Nat
        BY <1>4 DEF StoreType, SessionType
      <4> QED BY <4>1 DEF Counts
    <3>2. \A jd \in Sources : st.source[jd].retired <= st.source[jd].retired
      BY <1>4 DEF StoreType, SourceType
    <3>3. st.sequence <= u.sequence /\ st.sequence + Len(u.events) <= u.sequence + Len(st.events)
          /\ st.sequence < kept.seq /\ kept.seq <= u.sequence
      BY <1>2, <1>3, <1>4
    <3> QED BY <1>2, <3>1, <3>2, <3>3 DEF Adds
  <2>4. Consecutive(u)
    BY <1>2, <1>4, <1>6 DEF Consecutive
  <2>6. StoreOK(u)
    BY <1>2, <2>4, <2>5, AddsIsOK
  <2> QED BY <1>1, <1>2, <1>3, <2>3, <2>5, <2>6 DEF kept
<1>7. CASE Len(q) > MaxStored
  <2> DEFINE e == Head(q)
             v == CountDrops(u, e.source, 1)
             src == [u.source EXCEPT ![e.source].retired = Max({@, e.number})]
             w == [v EXCEPT !.events = Tail(@), !.source[e.source].retired = Max({@, e.number})]
             old == {k \in u.seen : k.seq >= Head(Tail(q)).seq}
  <2>1. /\ v = [u EXCEPT !.session = v.session] /\ v.session \in [Session -> SessionType]
        /\ \A s \in Session : /\ Counts(u.session[s], v.session[s])
                              /\ Observes(u, s, e.source)
                                   => v.session[s].dropped = u.session[s].dropped + 1
    BY <1>2, CountsIs
  <2>2. Len(q) = MaxStored + 1 /\ Len(q) >= 2
    BY <1>2, <1>4, <1>5, <1>7
  <2>3. /\ Tail(q) \in Seq(Event) /\ Len(Tail(q)) = Len(q) - 1 /\ Tail(q) # <<>>
        /\ DOMAIN Tail(q) = 1..(Len(q) - 1)
        /\ \A i \in 1..(Len(q) - 1) : Tail(q)[i] = q[i + 1]
        /\ Head(Tail(q)) = q[2]
    <3> HIDE DEF q
    <3>1. q \in Seq(Event) /\ Len(q) >= 2 /\ Len(q) \in Nat
      BY <1>5, <2>2
    <3>2. /\ Tail(q) \in Seq(Event) /\ Len(Tail(q)) = Len(q) - 1
          /\ \A i \in 1..(Len(q) - 1) : Tail(q)[i] = q[i + 1]
      BY <3>1
    <3> DEFINE r == Tail(q)
    <3> HIDE DEF r
    <3>3. r \in Seq(Event) /\ Len(r) = Len(q) - 1 /\ \A i \in 1..(Len(q) - 1) : r[i] = q[i + 1]
      BY <3>2 DEF r
    <3>4. r # <<>> /\ DOMAIN r = 1..(Len(q) - 1) /\ Head(r) = r[1] /\ 1 \in 1..(Len(q) - 1)
      BY <3>1, <3>3
    <3>5. Head(r) = q[2]
      BY <3>3, <3>4
    <3> QED BY <3>3, <3>4, <3>5 DEF r
  <2>4. e = q[1] /\ e \in Event /\ e.source \in Sources /\ e.number \in Nat
    BY <1>5
  <2>5. /\ v.events = q /\ v.cleanup = u.cleanup /\ v.source = u.source /\ v.sequence = u.sequence /\ v.drawn = u.drawn
        /\ v.seen = u.seen /\ v \in StoreType
    <3> HIDE DEF v
    <3> QED BY <1>2, <2>1 DEF StoreType
  <2> HIDE DEF v, e, q
  <2>6. w = [v EXCEPT !.events = Tail(q), !.source = src]
    BY <2>5 DEF StoreType
  <2>7. t = [w EXCEPT !.seen = old]
    <3>1. q = u.events
      BY DEF q
    <3>2. Len(u.events) > MaxStored /\ Len(u.events) \in Nat
      BY <1>5, <1>7, <3>1
    <3>3. ~(Len(u.events) <= MaxStored)
      BY <1>4, <3>2
    <3>4. w.events = Tail(q) /\ w.seen = u.seen
      BY <2>5, <2>6 DEF StoreType
    <3> HIDE DEF w
    <3>5. t = [w EXCEPT !.seen = {k \in w.seen : k.seq >= Head(w.events).seq}]
      <4>1. w.events # <<>>
        BY <2>3, <3>4
      <4> QED BY <3>3, <4>1 DEF Trim, w, v, e, q
    <3> QED BY <3>4, <3>5
  <2>8. old = ToSet(Tail(q))
    <3>1. \A i \in 1..Len(q) : (q[i].seq >= q[2].seq) <=> i >= 2
      <4> SUFFICES ASSUME NEW i \in 1..Len(q) PROVE (q[i].seq >= q[2].seq) <=> i >= 2
        OBVIOUS
      <4>1. i \in DOMAIN u.events /\ 2 \in DOMAIN u.events /\ 2 \in 1..Len(q)
        BY <1>5, <2>2 DEF q
      <4>2. q[i].seq + Len(q) = u.sequence + i /\ q[2].seq + Len(q) = u.sequence + 2
        BY <1>2, <4>1 DEF q
      <4> DEFINE a == q[i].seq  b == q[2].seq  l == Len(q)  m == u.sequence
      <4>3. a \in Nat /\ b \in Nat /\ l \in Nat /\ m \in Nat /\ i \in Nat
            /\ a + l = m + i /\ b + l = m + 2
        BY <1>2, <1>4, <1>5, <4>1, <4>2
      <4> HIDE DEF a, b, l, m
      <4>4. (a >= b) <=> i >= 2
        BY <4>3
      <4> QED BY <4>4 DEF a, b
    <3>2. Head(Tail(q)).seq = q[2].seq /\ u.seen = ToSet(q)
      BY <1>2, <2>3 DEF q
    <3>3. ASSUME NEW k, k \in old PROVE k \in ToSet(Tail(q))
      <4>1. PICK i \in DOMAIN q : k = q[i]
        BY <3>2, <3>3 DEF ToSet
      <4>2. i \in 1..Len(q) /\ k.seq >= q[2].seq
        BY <1>5, <3>2, <3>3, <4>1
      <4>3. i >= 2 /\ i - 1 \in 1..(Len(q) - 1) /\ (i - 1) + 1 = i
        BY <1>5, <3>1, <4>1, <4>2
      <4>4. Tail(q)[i - 1] = k /\ i - 1 \in DOMAIN Tail(q)
        BY <2>3, <4>1, <4>3
      <4> QED BY <4>4 DEF ToSet
    <3>4. ASSUME NEW k, k \in ToSet(Tail(q)) PROVE k \in old
      <4>1. PICK i \in DOMAIN Tail(q) : k = Tail(q)[i]
        BY <3>4 DEF ToSet
      <4>2. i \in 1..(Len(q) - 1) /\ i + 1 \in 1..Len(q) /\ i + 1 >= 2 /\ k = q[i + 1]
        BY <1>5, <2>2, <2>3, <4>1
      <4>3. k \in ToSet(q) /\ k.seq >= q[2].seq
        BY <1>5, <3>1, <4>2 DEF ToSet
      <4> QED BY <3>2, <4>3
    <3> QED BY <3>3, <3>4
  <2>9. ASSUME NEW jd \in Sources
        PROVE  /\ src[jd] \in SourceType /\ src[jd].context = u.source[jd].context
               /\ src[jd].interrupted = u.source[jd].interrupted
               /\ u.source[jd].retired <= src[jd].retired
               /\ jd = e.source => e.number <= src[jd].retired
               /\ \/ src[jd].retired = u.source[jd].retired
                  \/ jd = e.source /\ src[jd].retired = e.number
    <3> DEFINE x == u.source[jd]  m == Max({x.retired, e.number})
    <3>1. x \in SourceType /\ x.retired \in Nat /\ u.source \in [Sources -> SourceType]
      BY <1>2 DEF StoreType, SourceType
    <3>2. m = IF x.retired <= e.number THEN e.number ELSE x.retired
      BY <2>4, <3>1, GreaterOf
    <3> HIDE DEF m
    <3>3. m \in Nat /\ x.retired <= m /\ e.number <= m /\ (m = x.retired \/ m = e.number)
      BY <2>4, <3>1, <3>2
    <3>4. CASE jd = e.source
      <4>1. src[jd] = [x EXCEPT !.retired = m]
        BY <3>1, <3>4 DEF m
      <4> HIDE DEF x, src
      <4>2. /\ src[jd] \in SourceType /\ src[jd].context = x.context
            /\ src[jd].interrupted = x.interrupted /\ src[jd].retired = m
        BY <3>1, <3>3, <4>1 DEF SourceType
      <4>3. src[jd].interrupted = u.source[jd].interrupted
        BY <4>2, Zenon DEF x
      <4> QED BY <3>3, <3>4, <4>2, <4>3 DEF x
    <3>5. CASE jd # e.source
      <4>1. src[jd] = x
        BY <3>1, <3>5
      <4>2. x.retired <= x.retired
        BY <3>1
      <4> HIDE DEF src
      <4> QED BY <3>1, <3>5, <4>1, <4>2
    <3> QED BY <3>4, <3>5
  <2>10. src \in [Sources -> SourceType]
    <3>1. src = [jd \in Sources |-> src[jd]]
      BY <1>2 DEF StoreType
    <3> HIDE DEF src
    <3> QED BY <2>9, <3>1
  <2>11. old \subseteq Event
    BY <1>2 DEF StoreType
  <2> HIDE DEF src, old
  <2>12. /\ t \in StoreType /\ t.cleanup = u.cleanup /\ t.session = v.session /\ t.source = src /\ t.events = Tail(q)
         /\ t.seen = old /\ t.sequence = u.sequence /\ t.drawn = u.drawn
    <3>1. /\ w \in StoreType /\ w.cleanup = u.cleanup /\ w.session = v.session /\ w.source = src /\ w.events = Tail(q)
          /\ w.sequence = u.sequence /\ w.drawn = u.drawn
      <4> HIDE DEF w
      <4> QED BY <2>3, <2>5, <2>6, <2>10 DEF StoreType
    <3> HIDE DEF t, w
    <3> QED BY <2>7, <2>11, <3>1 DEF StoreType
  <2> HIDE DEF t
  <2>13. ToSet(t.events) \subseteq ToSet(q)
    <3> SUFFICES ASSUME NEW k \in ToSet(Tail(q)) PROVE k \in ToSet(q)
      BY <2>12
    <3>1. PICK i \in DOMAIN Tail(q) : k = Tail(q)[i]
      BY DEF ToSet
    <3>2. i + 1 \in DOMAIN q /\ k = q[i + 1]
      BY <1>5, <2>2, <2>3, <3>1
    <3> QED BY <3>2 DEF ToSet
  <2>14. \A k \in ToSet(q) : k \in ToSet(t.events) \/ k = e
    <3> SUFFICES ASSUME NEW k \in ToSet(q), k # e PROVE k \in ToSet(Tail(q))
      BY <2>12
    <3>1. PICK i \in DOMAIN q : k = q[i]
      BY DEF ToSet
    <3>2. i # 1 /\ i \in 1..Len(q)
      BY <1>5, <2>4, <3>1
    <3>3. i - 1 \in DOMAIN Tail(q) /\ k = Tail(q)[i - 1]
      <4>1. i - 1 \in 1..(Len(q) - 1) /\ (i - 1) + 1 = i
        BY <1>5, <3>2
      <4> QED BY <2>3, <3>1, <4>1
    <3> QED BY <3>3 DEF ToSet
  <2>15. kept \in ToSet(t.events)
    <3>1. kept \in ToSet(q)
      BY <1>2 DEF q
    <3>2. e.seq + Len(q) = u.sequence + 1
      <4>1. 1 \in DOMAIN u.events
        BY <1>5 DEF q
      <4> QED BY <1>2, <2>4, <4>1 DEF q
    <3>3. kept # e
      <4> DEFINE a == e.seq  l == Len(q)  m == u.sequence
      <4>1. a \in Nat /\ l \in Nat /\ m \in Nat /\ a + l = m + 1 /\ l >= 2 /\ kept.seq = m
        BY <1>2, <1>3, <1>4, <1>5, <2>2, <2>4, <3>2 DEF Event
      <4> HIDE DEF a, l, m
      <4>2. a # m
        BY <4>1
      <4> QED BY <4>1, <4>2 DEF a
    <3> QED BY <2>14, <3>1, <3>3
  <2>16. Len(t.events) = MaxStored
    BY <1>4, <2>2, <2>3, <2>12
  <2>17. Consecutive(t)
    <3>1. Len(t.events) <= MaxStored /\ Len(t.events) <= t.sequence
      <4>1. Len(st.events) + 1 = MaxStored + 1 /\ t.sequence = st.sequence + 1
        BY <1>2, <2>2, <2>12 DEF q
      <4> QED BY <1>4, <2>16, <4>1
    <3>2. t.seen = ToSet(t.events)
      BY <2>8, <2>12
    <3>3. ASSUME NEW i \in DOMAIN t.events
          PROVE  /\ t.events[i].seq + Len(t.events) = t.sequence + i
                 /\ t.events[i].source <= t.drawn
      <4>1. i \in 1..(Len(q) - 1) /\ t.events[i] = q[i + 1] /\ i + 1 \in DOMAIN u.events
            /\ i + 1 \in 1..Len(q)
        BY <1>5, <2>3, <2>12, <3>3 DEF q
      <4>2. q[i + 1].seq + Len(q) = u.sequence + (i + 1) /\ q[i + 1].source <= u.drawn
        BY <1>2, <4>1 DEF q
      <4> DEFINE a == q[i + 1].seq  l == Len(q)  m == u.sequence
      <4>3. a \in Nat /\ l \in Nat /\ m \in Nat /\ i \in Nat /\ a + l = m + (i + 1)
        BY <1>2, <1>4, <1>5, <4>1, <4>2
      <4> HIDE DEF a, l, m
      <4>4. a + (l - 1) = m + i
        BY <4>3
      <4>5. Len(t.events) = l - 1 /\ t.events[i].seq = a /\ t.sequence = m
        BY <2>3, <2>12, <4>1 DEF a, l, m
      <4>6. t.events[i].source <= t.drawn
        BY <2>12, <4>1, <4>2
      <4> QED BY <4>4, <4>5, <4>6
    <3> QED BY <3>1, <3>2, <3>3 DEF Consecutive
  <2>18. Adds(st, t, {kept})
    <3>1. st.sequence <= t.sequence /\ t.drawn = st.drawn /\ t.cleanup = st.cleanup
      BY <1>2, <1>4, <2>12
    <3>2. st.sequence + Len(t.events) <= t.sequence + Len(st.events)
      BY <1>2, <1>4, <2>2, <2>12, <2>16 DEF q
    <3>3. \A s \in Session : Counts(st.session[s], t.session[s])
      BY <1>2, <2>1, <2>12
    <3>4. e \in ToSet(st.events) \cup {kept}
      <4>1. e \in ToSet(q)
        BY <1>5, <2>4 DEF ToSet
      <4> QED BY <1>2, <4>1 DEF q
    <3>5. \A jd \in Sources :
           /\ t.source[jd].context = st.source[jd].context
           /\ t.source[jd].interrupted = st.source[jd].interrupted
           /\ st.source[jd].retired <= t.source[jd].retired
           /\ \/ t.source[jd].retired = st.source[jd].retired
              \/ \E k \in ToSet(st.events) \cup {kept} :
                    k.source = jd /\ k.number = t.source[jd].retired
      <4> SUFFICES ASSUME NEW jd \in Sources
                   PROVE /\ src[jd].context = st.source[jd].context
                         /\ src[jd].interrupted = st.source[jd].interrupted
                         /\ st.source[jd].retired <= src[jd].retired
                         /\ \/ src[jd].retired = st.source[jd].retired
                            \/ \E k \in ToSet(st.events) \cup {kept} :
                                  k.source = jd /\ k.number = src[jd].retired
        BY <2>12
      <4>1. src[jd].interrupted = st.source[jd].interrupted
        BY <1>2, <2>9, Zenon
      <4>2. /\ src[jd].context = st.source[jd].context
            /\ st.source[jd].retired <= src[jd].retired
            /\ \/ src[jd].retired = st.source[jd].retired
               \/ jd = e.source /\ src[jd].retired = e.number
        BY <1>2, <2>9
      <4> QED BY <3>4, <4>1, <4>2
    <3>6. ToSet(t.events) \subseteq ToSet(st.events) \cup {kept}
      BY <1>2, <2>13 DEF q
    <3>7. st.sequence < kept.seq /\ kept.seq <= t.sequence
      BY <1>2, <1>3, <1>4, <2>12
    <3>8. ASSUME NEW k \in ToSet(st.events) \cup {kept}, k \notin ToSet(t.events)
          PROVE  /\ k.number <= t.source[k.source].retired
                 /\ k.seq + Len(t.events) <= t.sequence
                 /\ \A s \in Session : Observes(st, s, k.source) => t.session[s].dropped > 0
      <4>1. k = e
        BY <1>2, <2>14, <3>8 DEF q
      <4>2. e.number <= t.source[e.source].retired
        BY <2>4, <2>9, <2>12
      <4>3. e.seq + Len(t.events) <= t.sequence
        <5>1. 1 \in DOMAIN u.events
          BY <1>5 DEF q
        <5>2. e.seq + Len(q) = u.sequence + 1
          BY <1>2, <2>4, <5>1 DEF q
        <5> DEFINE a == e.seq  l == Len(q)  m == u.sequence
        <5>3. a \in Nat /\ l \in Nat /\ m \in Nat /\ a + l = m + 1
          BY <1>2, <1>4, <1>5, <2>4, <5>2 DEF Event
        <5> HIDE DEF a, l, m
        <5>4. a + (l - 1) <= m
          BY <5>3
        <5>5. Len(t.events) = l - 1 /\ t.sequence = m
          BY <2>3, <2>12 DEF l, m
        <5> QED BY <5>4, <5>5 DEF a
      <4>4. ASSUME NEW s \in Session, Observes(st, s, e.source) PROVE t.session[s].dropped > 0
        <5>1. Observes(u, s, e.source)
          BY <1>2, <4>4 DEF Observes
        <5>2. t.session[s].dropped = u.session[s].dropped + 1
          BY <2>1, <2>12, <5>1
        <5>3. u.session[s].dropped \in Nat
          BY <1>2 DEF StoreType, SessionType
        <5> QED BY <5>2, <5>3
      <4> QED BY <4>1, <4>2, <4>3, <4>4
    <3> QED BY <3>1, <3>2, <3>3, <3>5, <3>6, <3>7, <3>8 DEF Adds
  <2>19. StoreOK(t)
    BY <2>12, <2>17, <2>18, AddsIsOK
  <2>20. t.sequence = st.sequence + 1
    BY <1>2, <2>12
  <2>21. StoreEvent(st, id, n, retired) = t
    BY <1>1 DEF t
  <2> QED BY <2>15, <2>18, <2>19, <2>20, <2>21 DEF kept
<1>8. Len(q) <= MaxStored \/ Len(q) > MaxStored
  BY <1>4, <1>5
<1> QED BY <1>6, <1>7, <1>8

(* What adds twice adds both.                                              *)
LEMMA AddsCompose ==
  ASSUME NEW a, NEW b, NEW c, a \in StoreType, b \in StoreType, c \in StoreType,
         NEW S, NEW T, S \subseteq Event, T \subseteq Event,
         Adds(a, b, S), Adds(b, c, T)
  PROVE  Adds(a, c, S \cup T)
<1>1. /\ a.sequence \in Nat /\ b.sequence \in Nat /\ c.sequence \in Nat
      /\ Len(a.events) \in Nat /\ Len(b.events) \in Nat /\ Len(c.events) \in Nat
  <2>1. a.events \in Seq(Event) /\ b.events \in Seq(Event) /\ c.events \in Seq(Event)
    BY DEF StoreType
  <2> QED BY <2>1 DEF StoreType
<1>2. /\ a.sequence <= b.sequence /\ b.sequence <= c.sequence /\ c.drawn = a.drawn
      /\ a.sequence + Len(b.events) <= b.sequence + Len(a.events)
      /\ b.sequence + Len(c.events) <= c.sequence + Len(b.events)
  BY DEF Adds
<1>3. a.sequence <= c.sequence /\ a.sequence + Len(c.events) <= c.sequence + Len(a.events)
  <2> DEFINE sa == a.sequence  sb == b.sequence  sc == c.sequence
             la == Len(a.events)  lb == Len(b.events)  lc == Len(c.events)
  <2>1. /\ sa \in Nat /\ sb \in Nat /\ sc \in Nat /\ la \in Nat /\ lb \in Nat /\ lc \in Nat
        /\ sa <= sb /\ sb <= sc /\ sa + lb <= sb + la /\ sb + lc <= sc + lb
    BY <1>1, <1>2
  <2> HIDE DEF sa, sb, sc, la, lb, lc
  <2>2. sa <= sc /\ sa + lc <= sc + la
    BY <2>1
  <2> QED BY <2>2 DEF sa, sc, la, lc
<1>4. ASSUME NEW s \in Session
      PROVE  /\ Counts(a.session[s], b.session[s]) /\ Counts(b.session[s], c.session[s])
             /\ Counts(a.session[s], c.session[s])
             /\ b.session[s].dropped \in Nat /\ c.session[s].dropped \in Nat
             /\ b.session[s].dropped <= c.session[s].dropped
             /\ \A id : Observes(b, s, id) <=> Observes(a, s, id)
  <2>1. Counts(a.session[s], b.session[s]) /\ Counts(b.session[s], c.session[s])
    BY DEF Adds
  <2>2. a.session[s].dropped \in Nat /\ b.session[s].dropped \in Nat /\ c.session[s].dropped \in Nat
    BY DEF StoreType, SessionType
  <2>3. a.session[s].dropped <= b.session[s].dropped /\ b.session[s].dropped <= c.session[s].dropped
    BY <2>1 DEF Counts
  <2>4. a.session[s].dropped <= c.session[s].dropped
    BY <2>2, <2>3
  <2>5. Counts(a.session[s], c.session[s])
    BY <2>1, <2>4 DEF Counts
  <2>6. \A id : Observes(b, s, id) <=> Observes(a, s, id)
    BY <2>1 DEF Counts, Observes
  <2> QED BY <2>1, <2>2, <2>3, <2>5, <2>6
<1>5. ToSet(b.events) \subseteq ToSet(a.events) \cup S
      /\ ToSet(c.events) \subseteq ToSet(b.events) \cup T
  BY DEF Adds
<1>6. ASSUME NEW id \in Sources
      PROVE  /\ c.source[id].context = a.source[id].context
             /\ c.source[id].interrupted = a.source[id].interrupted
             /\ a.source[id].retired <= c.source[id].retired
             /\ b.source[id].retired <= c.source[id].retired
             /\ \/ c.source[id].retired = a.source[id].retired
                \/ \E k \in ToSet(a.events) \cup (S \cup T) :
                     k.source = id /\ k.number = c.source[id].retired
  <2>1. /\ b.source[id].context = a.source[id].context
        /\ b.source[id].interrupted = a.source[id].interrupted
        /\ a.source[id].retired <= b.source[id].retired
        /\ \/ b.source[id].retired = a.source[id].retired
           \/ \E k \in ToSet(a.events) \cup S : k.source = id /\ k.number = b.source[id].retired
    BY DEF Adds
  <2>2. /\ c.source[id].context = b.source[id].context
        /\ c.source[id].interrupted = b.source[id].interrupted
        /\ b.source[id].retired <= c.source[id].retired
        /\ \/ c.source[id].retired = b.source[id].retired
           \/ \E k \in ToSet(b.events) \cup T : k.source = id /\ k.number = c.source[id].retired
    BY DEF Adds
  <2>3. a.source[id].retired \in Nat /\ b.source[id].retired \in Nat /\ c.source[id].retired \in Nat
    BY DEF StoreType, SourceType
  <2>4. \/ c.source[id].retired = a.source[id].retired
        \/ \E k \in ToSet(a.events) \cup (S \cup T) :
             k.source = id /\ k.number = c.source[id].retired
    BY <1>5, <2>1, <2>2
  <2>5. c.source[id].interrupted = a.source[id].interrupted
    BY <2>1, <2>2, Zenon
  <2> QED BY <2>1, <2>2, <2>3, <2>4, <2>5
<1>7. \A k \in S \cup T : a.sequence < k.seq /\ k.seq <= c.sequence
  <2> SUFFICES ASSUME NEW k \in S \cup T PROVE a.sequence < k.seq /\ k.seq <= c.sequence
    OBVIOUS
  <2>1. k.seq \in Nat
    BY DEF Event
  <2>2. \/ a.sequence < k.seq /\ k.seq <= b.sequence
        \/ b.sequence < k.seq /\ k.seq <= c.sequence
    BY DEF Adds
  <2> QED BY <1>1, <1>2, <2>1, <2>2
<1>8. ASSUME NEW k \in ToSet(a.events) \cup (S \cup T), k \notin ToSet(c.events)
      PROVE  /\ k.number <= c.source[k.source].retired
             /\ k.seq + Len(c.events) <= c.sequence
             /\ \A s \in Session : Observes(a, s, k.source) => c.session[s].dropped > 0
  <2>1. k \in Event
    <3>1. ToSet(a.events) \subseteq Event
      <4>1. a.events \in Seq(Event)
        BY DEF StoreType
      <4> QED BY <4>1 DEF ToSet
    <3> QED BY <3>1
  <2>2. k.seq \in Nat /\ k.number \in Nat /\ k.source \in Sources
    BY <2>1 DEF Event
  <2>3. CASE k \in ToSet(b.events) \cup T
    <3>1. /\ k.number <= c.source[k.source].retired
          /\ k.seq + Len(c.events) <= c.sequence
          /\ \A s \in Session : Observes(b, s, k.source) => c.session[s].dropped > 0
      BY <1>8, <2>3 DEF Adds
    <3> QED BY <1>4, <3>1
  <2>4. CASE k \notin ToSet(b.events) \cup T
    <3>1. /\ k.number <= b.source[k.source].retired
          /\ k.seq + Len(b.events) <= b.sequence
          /\ \A s \in Session : Observes(a, s, k.source) => b.session[s].dropped > 0
      BY <1>8, <2>4 DEF Adds
    <3>2. b.source[k.source].retired \in Nat /\ c.source[k.source].retired \in Nat
      BY <2>2 DEF StoreType, SourceType
    <3>3. k.number <= c.source[k.source].retired
      BY <1>6, <2>2, <3>1, <3>2
    <3>4. k.seq + Len(c.events) <= c.sequence
      BY <1>1, <1>2, <2>2, <3>1
    <3>5. ASSUME NEW s \in Session, Observes(a, s, k.source) PROVE c.session[s].dropped > 0
      BY <1>4, <3>1, <3>5
    <3> QED BY <3>3, <3>4, <3>5
  <2> QED BY <2>3, <2>4
<1>9. ToSet(c.events) \subseteq ToSet(a.events) \cup (S \cup T)
  BY <1>5
<1> QED BY <1>2, <1>3, <1>4, <1>6, <1>7, <1>8, <1>9 DEF Adds

(* The drops that a batch tells of add no event.                           *)
LEMMA ToldAdds ==
  ASSUME NEW st, StoreOK(st), NEW b \in BatchType
  PROVE  LET t == Told(st, b)
         IN StoreOK(t) /\ Adds(st, t, {}) /\ t.sequence = st.sequence
            /\ t.events = st.events /\ t.seen = st.seen
            /\ \A id \in Sources : t.source[id].retired = st.source[id].retired
<1> DEFINE x == st.source[b.source]
           n == b.dropped - x.dropped
           v == CountDrops(st, b.source, n)
           src == [st.source EXCEPT ![b.source].dropped = b.dropped]
           t == [v EXCEPT !.source[b.source].dropped = b.dropped]
<1>1. /\ st \in StoreType /\ b.source \in Sources /\ b.dropped \in Nat /\ x \in SourceType
      /\ x.dropped \in Nat /\ st.events \in Seq(Event)
  BY DEF StoreOK, StoreType, BatchType, SourceType
<1>2. \A u : /\ u \in StoreType /\ u.sequence = st.sequence /\ u.drawn = st.drawn
             /\ u.cleanup = st.cleanup
             /\ u.events = st.events /\ u.seen = st.seen
             /\ \A s \in Session : Counts(st.session[s], u.session[s])
             /\ \A id \in Sources : /\ u.source[id].context = st.source[id].context
                                    /\ u.source[id].interrupted = st.source[id].interrupted
                                    /\ u.source[id].retired = st.source[id].retired
             => StoreOK(u) /\ Adds(st, u, {})
  <2> SUFFICES ASSUME NEW u, u \in StoreType, u.sequence = st.sequence, u.drawn = st.drawn,
                      u.cleanup = st.cleanup,
                      u.events = st.events, u.seen = st.seen,
                      \A s \in Session : Counts(st.session[s], u.session[s]),
                      \A id \in Sources : /\ u.source[id].context = st.source[id].context
                                          /\ u.source[id].interrupted = st.source[id].interrupted
                                          /\ u.source[id].retired = st.source[id].retired
               PROVE  StoreOK(u) /\ Adds(st, u, {})
    OBVIOUS
  <2>1. st.sequence \in Nat /\ Len(st.events) \in Nat
    BY <1>1 DEF StoreType
  <2>2. \A id \in Sources : st.source[id].retired <= st.source[id].retired
    BY <1>1 DEF StoreType, SourceType
  <2>3. st.sequence <= st.sequence
        /\ st.sequence + Len(st.events) <= st.sequence + Len(st.events)
    BY <2>1
  <2>4. Adds(st, u, {})
    BY <2>2, <2>3 DEF Adds
  <2>5. Consecutive(u)
    BY DEF StoreOK, Consecutive
  <2> QED BY <2>4, <2>5, AddsIsOK
<1>3. CASE b.dropped <= x.dropped
  <2>1. Told(st, b) = st
    BY <1>3 DEF Told
  <2>2. \A s \in Session : Counts(st.session[s], st.session[s])
    <3>1. \A s \in Session : st.session[s].dropped \in Nat
      BY <1>1 DEF StoreType, SessionType
    <3> QED BY <3>1 DEF Counts
  <2>3. StoreOK(st) /\ Adds(st, st, {})
    BY <1>1, <1>2, <2>2
  <2> QED BY <2>1, <2>3
<1>4. CASE ~(b.dropped <= x.dropped)
  <2>1. Told(st, b) = t
    BY <1>4 DEF Told
  <2>2. n \in Nat
    BY <1>1, <1>4
  <2> HIDE DEF n
  <2>3. /\ v = [st EXCEPT !.session = v.session] /\ v.session \in [Session -> SessionType]
        /\ \A s \in Session : Counts(st.session[s], v.session[s])
    BY <1>1, <2>2, CountsIs
  <2> HIDE DEF v
  <2>4. /\ v \in StoreType /\ v.cleanup = st.cleanup /\ v.source = st.source /\ v.sequence = st.sequence
        /\ v.drawn = st.drawn /\ v.events = st.events /\ v.seen = st.seen
    BY <1>1, <2>3 DEF StoreType
  <2>5. t = [v EXCEPT !.source = src]
    BY <2>4 DEF StoreType
  <2>6. ASSUME NEW id \in Sources
        PROVE  /\ src[id] \in SourceType /\ src[id].context = st.source[id].context
               /\ src[id].interrupted = st.source[id].interrupted
               /\ src[id].retired = st.source[id].retired
    <3> DEFINE y == st.source[id]
    <3>1. y \in SourceType /\ st.source \in [Sources -> SourceType]
      BY <1>1 DEF StoreType
    <3>2. src[id] = y \/ src[id] = [y EXCEPT !.dropped = b.dropped]
      BY <1>1, <3>1
    <3> HIDE DEF src, y
    <3>3. /\ src[id] \in SourceType /\ src[id].context = y.context
          /\ src[id].retired = y.retired
      BY <1>1, <3>1, <3>2 DEF SourceType
    <3>4. src[id].interrupted = y.interrupted
      BY <1>1, <3>1, <3>2 DEF SourceType
    <3>5. src[id].interrupted = st.source[id].interrupted
      BY <3>4, Zenon DEF y
    <3> QED BY <3>3, <3>5 DEF y
  <2>7. src \in [Sources -> SourceType]
    <3>1. src = [id \in Sources |-> src[id]]
      BY <1>1 DEF StoreType
    <3> HIDE DEF src
    <3> QED BY <2>6, <3>1
  <2> HIDE DEF src
  <2>8. /\ t \in StoreType /\ t.cleanup = st.cleanup /\ t.session = v.session /\ t.source = src /\ t.sequence = st.sequence
        /\ t.drawn = st.drawn /\ t.events = st.events /\ t.seen = st.seen
    <3> HIDE DEF t
    <3> QED BY <2>4, <2>5, <2>7 DEF StoreType
  <2> HIDE DEF t
  <2>9. \A id \in Sources : /\ t.source[id].context = st.source[id].context
                            /\ t.source[id].interrupted = st.source[id].interrupted
                            /\ t.source[id].retired = st.source[id].retired
    <3>1. \A id \in Sources : t.source[id].interrupted = st.source[id].interrupted
      BY <2>6, <2>8, Zenon
    <3> QED BY <2>6, <2>8, <3>1
  <2>10. StoreOK(t) /\ Adds(st, t, {})
    BY <1>2, <2>3, <2>8, <2>9
  <2> QED BY <2>1, <2>8, <2>9, <2>10
<1> QED BY <1>3, <1>4

-----------------------------------------------------------------------------
(* A batch, event by event                                                 *)

(* The last number of the batch's source that was dropped.                 *)
Retiring(st, b) == st.source[b.source].retired

(* The stores after each event of the batch, so far.                       *)
IsSteps(f, st, b, n) ==
  f = [i \in 0..n |-> IF i = 0 THEN Told(st, b)
                      ELSE StoreEvent(f[i - 1], b.source, b.numbers[i], Retiring(st, b))]

(* There are such stores, as many as the batch has events.                 *)
LEMMA StepsExist ==
  ASSUME NEW st, NEW b
  PROVE  \A n \in Nat : \E f : IsSteps(f, st, b, n)
<1> DEFINE Put(x, i) == StoreEvent(x, b.source, b.numbers[i], Retiring(st, b))
           Has(n) == \E f : IsSteps(f, st, b, n)
           Bad == {n \in Nat : ~Has(n)}
<1>1. SUFFICES ASSUME Bad # {} PROVE FALSE
  OBVIOUS
<1>2. PICK n \in Bad : \A m \in Bad : n <= m
  BY <1>1, LeastNatural
<1>3. CASE n = 0
  <2> DEFINE f == [i \in 0..0 |-> Told(st, b)]
  <2>1. f = [i \in 0..0 |-> IF i = 0 THEN Told(st, b) ELSE Put(f[i - 1], i)]
    OBVIOUS
  <2> QED BY <1>3, <2>1 DEF IsSteps
<1>4. CASE n # 0
  <2>1. n - 1 \in Nat /\ n - 1 \notin Bad
    <3> HIDE DEF Has
    <3> QED BY <1>2, <1>4
  <2>2. PICK g : g = [i \in 0..(n - 1) |-> IF i = 0 THEN Told(st, b) ELSE Put(g[i - 1], i)]
    BY <2>1 DEF IsSteps
  <2> HIDE DEF Put
  <2> DEFINE f == [i \in 0..n |-> IF i = n THEN Put(g[n - 1], n) ELSE g[i]]
  <2>3. ASSUME NEW i \in 0..n
        PROVE f[i] = IF i = 0 THEN Told(st, b) ELSE Put(f[i - 1], i)
    <3>1. CASE i = n
      <4>1. n \in Nat /\ n \in 0..n /\ n - 1 \in 0..n /\ n - 1 # n
        BY <1>4
      <4>2. f[n - 1] = g[n - 1] /\ f[n] = Put(g[n - 1], n)
        BY <4>1
      <4> HIDE DEF f
      <4> QED BY <1>4, <3>1, <4>2
    <3>2. CASE i # n
      <4>1. i \in 0..(n-1) /\ f[i] = g[i] /\ (i # 0 => (i - 1 \in 0..(n - 1) /\ f[i-1] = g[i-1]))
        BY <3>2
      <4>2. g[i] = IF i = 0 THEN Told(st, b) ELSE Put(g[i - 1], i)
        BY <2>2, <4>1
      <4> HIDE DEF f
      <4> QED BY <4>1, <4>2
    <3> QED BY <3>1, <3>2
  <2>4. f = [i \in 0..n |-> f[i]]
    OBVIOUS
  <2>5. f = [i \in 0..n |-> IF i = 0 THEN Told(st, b) ELSE Put(f[i - 1], i)]
    <3> HIDE DEF f
    <3> QED BY <2>3, <2>4
  <2> HIDE DEF f
  <2> QED BY <2>5 DEF IsSteps, Put
<1> QED BY <1>3, <1>4

(* So they are those of the model.                                         *)
LEMMA StepsAre ==
  ASSUME NEW st, NEW b, Len(b.numbers) \in Nat
  PROVE  LET f == IngestSteps(st, b)
         IN /\ f[0] = Told(st, b)
            /\ \A i \in 1..Len(b.numbers) :
                 f[i] = StoreEvent(f[i - 1], b.source, b.numbers[i], Retiring(st, b))
<1> DEFINE n == Len(b.numbers)
           after[i \in 0..n] ==
             IF i = 0 THEN Told(st, b)
             ELSE StoreEvent(after[i - 1], b.source, b.numbers[i], st.source[b.source].retired)
<1>1. IngestSteps(st, b) = after
  BY DEF IngestSteps
<1>2. after = [i \in 0..n |-> IF i = 0 THEN Told(st, b)
               ELSE StoreEvent(after[i - 1], b.source, b.numbers[i], st.source[b.source].retired)]
  <2>1. \E f : f = [i \in 0..n |-> IF i = 0 THEN Told(st, b)
               ELSE StoreEvent(f[i - 1], b.source, b.numbers[i], st.source[b.source].retired)]
    <3>1. \E f : IsSteps(f, st, b, n)
      BY StepsExist
    <3> QED BY <3>1, Zenon DEF IsSteps, Retiring
  <2> QED BY <2>1, Zenon
<1> HIDE DEF after
<1> DEFINE Put(x, i) == StoreEvent(x, b.source, b.numbers[i], st.source[b.source].retired)
<1>3. after = [i \in 0..n |-> IF i = 0 THEN Told(st, b) ELSE Put(after[i - 1], i)]
  BY <1>2
<1> HIDE DEF Put
<1>4. after[0] = Told(st, b) /\ \A i \in 1..n : after[i] = Put(after[i - 1], i)
  <2>1. 0 \in 0..n /\ \A i \in 1..n : i \in 0..n /\ i # 0
    OBVIOUS
  <2> QED BY <1>3, <2>1
<1> QED BY <1>1, <1>4 DEF Put, Retiring

(* The i-th event of a batch, when none was seen before.                   *)
KeptAt(st, b, i) == [seq |-> st.sequence + i, source |-> b.source, number |-> b.numbers[i]]

(* The first i of them.                                                    *)
NewOf(st, b, i) == {KeptAt(st, b, j) : j \in 1..i}

(* No event of the batch was seen before.                                  *)
Fresh(st, b) ==
  /\ b.source <= st.drawn
  /\ \A i, j \in DOMAIN b.numbers : i < j => b.numbers[i] < b.numbers[j]
  /\ \A i \in DOMAIN b.numbers :
       /\ Retiring(st, b) < b.numbers[i]
       /\ \A k \in st.seen : k.source = b.source => k.number < b.numbers[i]

(* Each was.                                                               *)
Done(st, b) ==
  \A i \in DOMAIN b.numbers :
    \/ b.numbers[i] <= Retiring(st, b)
    \/ \E k \in st.seen : k.source = b.source /\ k.number = b.numbers[i]

(* They are events.                                                        *)
LEMMA NewTyped ==
  ASSUME NEW st, st \in StoreType, NEW b \in BatchType, NEW i \in 0..Len(b.numbers)
  PROVE  NewOf(st, b, i) \subseteq Event
<1> SUFFICES ASSUME NEW j \in 1..i PROVE KeptAt(st, b, j) \in Event
  BY DEF NewOf
<1>1. b.numbers \in Seq(Nat) /\ b.source \in Sources /\ st.sequence \in Nat
  BY DEF BatchType, StoreType
<1>2. j \in DOMAIN b.numbers /\ j \in Nat
  BY <1>1
<1>3. b.numbers[j] \in Nat /\ st.sequence + j \in Nat
  BY <1>1, <1>2
<1> QED BY <1>1, <1>3 DEF KeptAt, Event

(* Of a batch that is new each event is stored in turn.                    *)
LEMMA FreshSteps ==
  ASSUME NEW st, StoreOK(st), NEW b \in BatchType, Fresh(st, b)
  PROVE  \A i \in 0..Len(b.numbers) :
           LET t == IngestSteps(st, b)[i]
           IN /\ StoreOK(t) /\ Adds(st, t, NewOf(st, b, i)) /\ t.sequence = st.sequence + i
              /\ i > 0 => KeptAt(st, b, i) \in ToSet(t.events)
<1> DEFINE f == IngestSteps(st, b)  n == Len(b.numbers)
           Good(i) == /\ StoreOK(f[i]) /\ Adds(st, f[i], NewOf(st, b, i))
                      /\ f[i].sequence = st.sequence + i
                      /\ i > 0 => KeptAt(st, b, i) \in ToSet(f[i].events)
           Bad == {i \in 0..n : ~Good(i)}
<1>1. /\ b.numbers \in Seq(Nat) /\ n \in Nat /\ DOMAIN b.numbers = 1..n /\ b.source \in Sources
      /\ st \in StoreType /\ st.sequence \in Nat
      /\ \A i \in 1..n : b.numbers[i] \in Nat
  BY DEF BatchType, StoreOK, StoreType
<1>2. /\ f[0] = Told(st, b)
      /\ \A i \in 1..n : f[i] = StoreEvent(f[i - 1], b.source, b.numbers[i], Retiring(st, b))
  BY <1>1, StepsAre
<1> HIDE DEF f
<1>3. Good(0)
  <2>1. StoreOK(f[0]) /\ Adds(st, f[0], {}) /\ f[0].sequence = st.sequence
    BY <1>2, ToldAdds
  <2>2. NewOf(st, b, 0) = {}
    BY DEF NewOf
  <2>3. f[0].sequence = st.sequence + 0 /\ ~(0 > 0)
    BY <1>1, <2>1
  <2>4. Adds(st, f[0], NewOf(st, b, 0))
    BY <2>1, <2>2
  <2> QED BY <2>1, <2>3, <2>4
<1>4. ASSUME NEW i \in 1..n, Good(i - 1) PROVE Good(i)
  <2> DEFINE x == f[i - 1]  kept == KeptAt(st, b, i)
  <2>1. /\ StoreOK(x) /\ Adds(st, x, NewOf(st, b, i - 1)) /\ x.sequence = st.sequence + (i - 1)
    BY <1>4
  <2>2. i - 1 \in 0..n /\ i \in DOMAIN b.numbers /\ b.numbers[i] \in Nat /\ i > 0
    BY <1>1
  <2>3. f[i] = StoreEvent(x, b.source, b.numbers[i], Retiring(st, b))
    BY <1>2
  <2> HIDE DEF x
  <2>4. x.drawn = st.drawn /\ x \in StoreType
    BY <2>1 DEF Adds, StoreOK
  <2>5. Retiring(st, b) \in Nat /\ Retiring(st, b) < b.numbers[i]
    <3>1. Retiring(st, b) \in Nat
      BY <1>1 DEF Retiring, StoreType, SourceType
    <3> QED BY <2>2, <3>1 DEF Fresh
  <2>6. ASSUME NEW k \in x.seen, k.source = b.source PROVE k.number < b.numbers[i]
    <3>1. k \in ToSet(st.events) \cup NewOf(st, b, i - 1)
      BY <2>1 DEF StoreOK, Consecutive, Adds
    <3>2. CASE k \in ToSet(st.events)
      <4>1. k \in st.seen
        BY <3>2 DEF StoreOK, Consecutive
      <4> QED BY <2>2, <2>6, <4>1 DEF Fresh
    <3>3. CASE k \in NewOf(st, b, i - 1)
      <4>1. PICK j \in 1..(i - 1) : k = KeptAt(st, b, j)
        BY <3>3 DEF NewOf
      <4>2. j \in DOMAIN b.numbers /\ j < i /\ k.number = b.numbers[j]
        BY <1>1, <4>1 DEF KeptAt
      <4> QED BY <2>2, <4>2 DEF Fresh
    <3> QED BY <3>1, <3>2, <3>3
  <2>7. Kept(x, b.source, b.numbers[i]) = kept
    <3>1. x.sequence + 1 = st.sequence + i
      BY <1>1, <2>1
    <3> QED BY <3>1 DEF Kept, KeptAt
  <2>8. /\ StoreOK(f[i]) /\ Adds(x, f[i], {kept}) /\ f[i].sequence = x.sequence + 1
        /\ kept \in ToSet(f[i].events)
    <3>1. b.source <= x.drawn
      BY <2>4 DEF Fresh
    <3> DEFINE g == StoreEvent(x, b.source, b.numbers[i], Retiring(st, b))
               kk == Kept(x, b.source, b.numbers[i])
    <3>2. /\ StoreOK(g) /\ Adds(x, g, {kk}) /\ g.sequence = x.sequence + 1
          /\ kk \in ToSet(g.events)
      BY <1>1, <2>1, <2>2, <2>5, <2>6, <3>1, StoreAdds
    <3> QED BY <2>3, <2>7, <3>2
  <2>9. NewOf(st, b, i - 1) \cup {kept} = NewOf(st, b, i)
    <3>1. 1..i = (1..(i - 1)) \cup {i}
      BY <1>1
    <3> QED BY <3>1 DEF NewOf
  <2>10. NewOf(st, b, i - 1) \subseteq Event /\ {kept} \subseteq Event
    <3>1. NewOf(st, b, i - 1) \subseteq Event /\ NewOf(st, b, i) \subseteq Event
      BY <1>1, <2>2, NewTyped
    <3> QED BY <2>9, <3>1
  <2>11. Adds(st, f[i], NewOf(st, b, i))
    <3>1. f[i] \in StoreType
      BY <2>8 DEF StoreOK
    <3> DEFINE S == NewOf(st, b, i - 1)  T == {kept}  y == f[i]
    <3>2. /\ Adds(st, x, S) /\ Adds(x, y, T) /\ S \subseteq Event /\ T \subseteq Event
          /\ x \in StoreType /\ y \in StoreType /\ st \in StoreType
      BY <1>1, <2>1, <2>4, <2>8, <2>10, <3>1
    <3> HIDE DEF S, T, y
    <3>3. Adds(st, y, S \cup T)
      BY <3>2, AddsCompose
    <3> QED BY <2>9, <3>3 DEF S, T, y
  <2>12. f[i].sequence = st.sequence + i
    BY <1>1, <2>1, <2>8
  <2> QED BY <2>8, <2>11, <2>12
<1> HIDE DEF Good
<1>5. Bad = {}
  <2> SUFFICES ASSUME Bad # {} PROVE FALSE
    OBVIOUS
  <2>1. Bad \in SUBSET Nat
    BY <1>1
  <2>2. PICK i \in Bad : \A m \in Bad : i <= m
    BY <2>1, LeastNatural
  <2>3. i # 0 /\ i \in 1..n
    BY <1>1, <1>3, <2>2
  <2>4. i - 1 \in 0..n /\ ~(i <= i - 1)
    BY <1>1, <2>3
  <2>5. Good(i - 1)
    BY <2>2, <2>4
  <2> QED BY <1>4, <2>2, <2>3, <2>5
<1> QED BY <1>5 DEF Good, f

(* What was stored of a batch, if only for a while.                        *)
StoredBy(st, b) == UNION {ToSet(IngestSteps(st, b)[i].events) : i \in DOMAIN b.numbers}

(* So all of them are.                                                     *)
LEMMA FreshIngest ==
  ASSUME NEW st, StoreOK(st), NEW b \in BatchType, Fresh(st, b),
         NEW stored, ToSet(st.events) \subseteq stored
  PROVE  LET t == IngestBatch(st, b)  new == NewOf(st, b, Len(b.numbers))
         IN /\ StoreOK(t) /\ Adds(st, t, new)
            /\ stored \cup StoredBy(st, b)
                 = stored \cup new
<1> DEFINE f == IngestSteps(st, b)  n == Len(b.numbers)
<1>1. b.numbers \in Seq(Nat) /\ n \in Nat /\ DOMAIN b.numbers = 1..n /\ n \in 0..n
  BY DEF BatchType
<1>2. \A i \in 0..n : /\ StoreOK(f[i]) /\ Adds(st, f[i], NewOf(st, b, i))
                      /\ i > 0 => KeptAt(st, b, i) \in ToSet(f[i].events)
  BY FreshSteps
<1>3. IngestBatch(st, b) = f[n]
  BY DEF IngestBatch
<1> HIDE DEF f
<1>4. ASSUME NEW i \in 1..n PROVE ToSet(f[i].events) \subseteq stored \cup NewOf(st, b, n)
  <2>1. Adds(st, f[i], NewOf(st, b, i))
    BY <1>1, <1>2
  <2>2. ToSet(f[i].events) \subseteq ToSet(st.events) \cup NewOf(st, b, i)
    BY <2>1 DEF Adds
  <2>3. NewOf(st, b, i) \subseteq NewOf(st, b, n)
    <3>1. 1..i \subseteq 1..n
      BY <1>1
    <3> QED BY <3>1 DEF NewOf
  <2> QED BY <2>2, <2>3
<1>5. ASSUME NEW k \in NewOf(st, b, n) PROVE \E i \in 1..n : k \in ToSet(f[i].events)
  <2>1. PICK i \in 1..n : k = KeptAt(st, b, i)
    BY DEF NewOf
  <2>2. i \in 0..n /\ i > 0
    BY <1>1
  <2> QED BY <1>2, <2>1, <2>2
<1>6. stored \cup UNION {ToSet(f[i].events) : i \in 1..n} = stored \cup NewOf(st, b, n)
  BY <1>4, <1>5
<1>7. StoreOK(f[n]) /\ Adds(st, f[n], NewOf(st, b, n))
  BY <1>1, <1>2
<1>8. StoredBy(st, b) = UNION {ToSet(f[i].events) : i \in 1..n}
  BY <1>1 DEF StoredBy, f
<1> QED BY <1>3, <1>6, <1>7, <1>8 DEF f

(* Of a batch that was seen nothing is stored.                             *)
LEMMA DoneIngest ==
  ASSUME NEW st, StoreOK(st), NEW b \in BatchType, Done(st, b),
         NEW stored, ToSet(st.events) \subseteq stored
  PROVE  LET t == IngestBatch(st, b)
         IN /\ StoreOK(t) /\ Adds(st, t, {})
            /\ stored \cup StoredBy(st, b)
                 = stored
<1> DEFINE f == IngestSteps(st, b)  n == Len(b.numbers)  told == Told(st, b)
           Bad == {i \in 0..n : f[i] # told}
<1>1. b.numbers \in Seq(Nat) /\ n \in Nat /\ DOMAIN b.numbers = 1..n /\ n \in 0..n
  BY DEF BatchType
<1>2. /\ f[0] = told
      /\ \A i \in 1..n : f[i] = StoreEvent(f[i - 1], b.source, b.numbers[i], Retiring(st, b))
  BY <1>1, StepsAre
<1>3. /\ StoreOK(told) /\ Adds(st, told, {}) /\ told.events = st.events /\ told.seen = st.seen
  BY ToldAdds
<1>4. IngestBatch(st, b) = f[n]
  BY DEF IngestBatch
<1> HIDE DEF f, told
<1>5. \A i \in 1..n : StoreEvent(told, b.source, b.numbers[i], Retiring(st, b)) = told
  <2> SUFFICES ASSUME NEW i \in 1..n
               PROVE  StoreEvent(told, b.source, b.numbers[i], Retiring(st, b)) = told
    OBVIOUS
  <2>1. \/ b.numbers[i] <= Retiring(st, b)
        \/ \E k \in told.seen : k.source = b.source /\ k.number = b.numbers[i]
    BY <1>1, <1>3 DEF Done
  <2> QED BY <2>1 DEF StoreEvent
<1>6. Bad = {}
  <2> SUFFICES ASSUME Bad # {} PROVE FALSE
    OBVIOUS
  <2>1. Bad \in SUBSET Nat
    BY <1>1
  <2>2. PICK i \in Bad : \A m \in Bad : i <= m
    BY <2>1, LeastNatural
  <2>3. i # 0 /\ i \in 1..n
    BY <1>1, <1>2, <2>2
  <2>4. i - 1 \in 0..n /\ ~(i <= i - 1)
    BY <1>1, <2>3
  <2>5. f[i - 1] = told
    BY <2>2, <2>4
  <2> QED BY <1>2, <1>5, <2>2, <2>3, <2>5
<1>7. f[n] = told /\ \A i \in 1..n : f[i] = told
  <2>1. \A i \in 1..n : i \in 0..n
    BY <1>1
  <2> QED BY <1>1, <1>6, <2>1
<1>8. \A i \in 1..n : ToSet(f[i].events) \subseteq stored
  BY <1>3, <1>7
<1>9. stored \cup UNION {ToSet(f[i].events) : i \in 1..n} = stored
  BY <1>8
<1>10. StoredBy(st, b) = UNION {ToSet(f[i].events) : i \in 1..n}
  BY <1>1 DEF StoredBy, f
<1> QED BY <1>3, <1>4, <1>7, <1>9, <1>10 DEF f

-----------------------------------------------------------------------------
(* The first layer, when the store alone moves                             *)

(* Only the sessions differ.                                               *)
SameElse(st, t) ==
  /\ t.source = st.source /\ t.sequence = st.sequence /\ t.drawn = st.drawn
  /\ t.events = st.events /\ t.seen = st.seen

(* What differs in its sessions only is as sound as it was.                *)
LEMMA SameElseBase ==
  ASSUME NEW st, NEW doc, NEW pg, NEW bs, NEW scr, NEW ser, NEW stored,
         Base(st, doc, pg, bs, scr, ser, stored), NEW t, StoreOK(t), SameElse(st, t)
  PROVE  Base(t, doc, pg, bs, scr, ser, stored)
<1>1. SourcesOfPage(t, doc, pg, bs) /\ ScriptsOK(t, doc, pg, scr, ser)
  BY DEF Base, SameElse, SourcesOfPage, ScriptsOK, Context, Live
<1>2. NumbersNew(t, doc, pg, bs, stored)
  BY DEF Base, SameElse, NumbersNew, NumberNew, NumberDone, Context
<1>3. StoredOK(t, stored)
  BY DEF Base, SameElse, StoredOK, Context
<1> QED BY <1>1, <1>2, <1>3 DEF Base

(* So is what aged.                                                        *)
LEMMA AgesBase ==
  ASSUME NEW st, NEW doc, NEW pg, NEW bs, NEW scr, NEW ser, NEW stored,
         Base(st, doc, pg, bs, scr, ser, stored), NEW t, StoreOK(t), NEW ended, Ages(st, t, ended)
  PROVE  Base(t, doc, pg, bs, scr, ser, stored)
<1>1. t.sequence = st.sequence /\ t.drawn = st.drawn
  BY DEF Ages
<1>2. \A id \in Sources : Context(t, id) = 0 \/ (t.source[id].retired = st.source[id].retired
                                                 /\ Context(t, id) = Context(st, id))
  BY DEF Ages, Released, SameSources, Context
<1>3. \A id \in Sources : Live(t, id) => Live(st, id)
  BY DEF Ages, Released, SameSources, Live
<1>4. PartsTyped(doc, pg, bs, scr, ser, stored)
  BY DEF Base
<1>5. /\ pg.source \in Sources \cup {0}
      /\ \A i \in DOMAIN pg.queue : pg.queue[i].source \in Sources
      /\ \A i \in DOMAIN scr : scr[i].source \in Sources
      /\ \A b \in bs : b.source \in Sources
      /\ \A k \in stored : k.source \in Sources
      /\ doc \in Nat \ {0}
  <2>1. pg.queue \in Seq(Item) /\ scr \in Seq(Message)
    BY <1>4 DEF PartsTyped, PageTypeOK, PageType
  <2>2. \A i \in DOMAIN pg.queue : pg.queue[i] \in Item
    BY <2>1
  <2>3. \A i \in DOMAIN scr : scr[i] \in Message
    BY <2>1
  <2> QED BY <1>4, <2>2, <2>3 DEF PartsTyped, PageTypeOK, PageType, Item, Message, BatchType, Event
<1>6. SourcesOfPage(t, doc, pg, bs)
  <2>1. \A id \in Sources : Context(t, id) <= doc
    BY <1>2, <1>5 DEF Base, SourcesOfPage
  <2> QED BY <1>1, <1>2, <1>3, <1>5, <2>1 DEF Base, SourcesOfPage
<1>7. ScriptsOK(t, doc, pg, scr, ser)
  <2>1. ASSUME NEW i \in DOMAIN scr, scr[i].what = "configure"
        PROVE  /\ Context(t, scr[i].source) \in {0, doc}
               /\ Context(t, scr[i].source) = 0 /\ pg.source # 0 => ~Live(t, pg.source)
    <3>1. CASE Released(t)
      BY <3>1, <1>5 DEF Released, Context, Live
    <3>2. CASE SameSources(st, t)
      BY <3>2, <1>3, <1>5, <2>1 DEF SameSources, Context, Base, ScriptsOK
    <3> QED BY <3>1, <3>2 DEF Ages
  <2>2. ser.what = "following" => \A id \in Sources : ~Live(t, id)
    BY <1>3 DEF Base, ScriptsOK
  <2> QED BY <1>1, <2>1, <2>2 DEF Base, ScriptsOK
<1>8. NumbersNew(t, doc, pg, bs, stored)
  <2>1. \A id \in Sources : \A n : NumberNew(st, stored, id, n) => NumberNew(t, stored, id, n)
    BY <1>2 DEF NumberNew
  <2>2. \A id \in Sources : \A n : NumberDone(st, id, n) => NumberDone(t, id, n)
    BY <1>2 DEF NumberDone, Ages, Released, SameSources, Context
  <2>3. \A id \in Sources : Context(t, id) = doc /\ doc # 0 =>
           /\ t.source[id].retired <= pg.number
           /\ \A k \in stored : k.source = id => k.number <= pg.number
    BY <1>2, <1>5 DEF Base, NumbersNew
  <2>4. \A i \in DOMAIN pg.queue : NumberNew(t, stored, pg.queue[i].source, pg.queue[i].number)
    BY <2>1, <1>5 DEF Base, NumbersNew
  <2>5. \A b \in bs : b.document = doc /\ ~b.again =>
          \A i \in DOMAIN b.numbers :
            IF b.answer = "continue" THEN NumberDone(t, b.source, b.numbers[i])
            ELSE NumberNew(t, stored, b.source, b.numbers[i])
    BY <2>1, <2>2, <1>5 DEF Base, NumbersNew
  <2> QED BY <2>3, <2>4, <2>5 DEF NumbersNew
<1>9. StoredOK(t, stored)
  <2>1. CASE SameSources(st, t)
    BY <1>1, <1>2, <1>5, <2>1 DEF Base, StoredOK, SameSources, Context
  <2>2. CASE Released(t)
    <3>1. t.events = <<>> /\ ToSet(t.events) = {} /\ Len(t.events) = 0
      BY <2>2 DEF Released, ToSet
    <3>2. \A k \in stored : k.seq \in Nat /\ k.seq <= t.sequence /\ t.sequence \in Nat
      BY <1>1, <1>4 DEF Base, StoredOK, StoreOK, StoreType, PartsTyped, Event
    <3>3. \A k \in stored : Context(t, k.source) = 0
      BY <1>5, <2>2 DEF Released, Context
    <3>4. \A k \in stored : ~(k.seq + Len(t.events) > t.sequence)
      BY <3>1, <3>2
    <3> QED BY <1>1, <3>1, <3>3, <3>4 DEF Base, StoredOK
  <2> QED BY <2>1, <2>2 DEF Ages
<1> QED BY <1>4, <1>6, <1>7, <1>8, <1>9 DEF Base

(* The sources that the page and its messages name.                        *)
LEMMA PartsSources ==
  ASSUME NEW doc, NEW pg, NEW bs, NEW scr, NEW ser, NEW stored,
         PartsTyped(doc, pg, bs, scr, ser, stored)
  PROVE  /\ pg.source \in Sources \cup {0}
         /\ \A i \in DOMAIN pg.queue : pg.queue[i] \in Item /\ pg.queue[i].source \in Sources
         /\ \A i \in DOMAIN scr : scr[i] \in Message /\ scr[i].source \in Sources
         /\ \A b \in bs : b.source \in Sources
         /\ \A k \in stored : k.source \in Sources
         /\ doc \in Nat \ {0}
<1>1. pg.queue \in Seq(Item) /\ scr \in Seq(Message)
  BY DEF PartsTyped, PageTypeOK, PageType
<1>2. \A i \in DOMAIN pg.queue : pg.queue[i] \in Item
  BY <1>1
<1>3. \A i \in DOMAIN scr : scr[i] \in Message
  BY <1>1
<1> QED BY <1>2, <1>3 DEF PartsTyped, PageTypeOK, PageType, Item, Message, BatchType, Event

(* What drew a source for this document, or while the page has nothing to  *)
(* run, is sound.                                                          *)
LEMMA DrawsBase ==
  ASSUME NEW st, NEW doc, NEW pg, NEW bs, NEW scr, NEW ser, NEW stored,
         Base(st, doc, pg, bs, scr, ser, stored), ~Opening(ser),
         NEW t, StoreOK(t), NEW id, NEW context \in Nat \ {0}, Draws(st, t, id, context),
         context <= doc, scr # <<>> => context = doc
  PROVE  Base(t, doc, pg, bs, scr, ser, stored)
<1> SUFFICES ASSUME DrawsNew(st, t, id, context) PROVE Base(t, doc, pg, bs, scr, ser, stored)
  BY DEF Draws
<1>1. PartsTyped(doc, pg, bs, scr, ser, stored)
  BY DEF Base
<1>2. /\ pg.source \in Sources \cup {0}
      /\ \A i \in DOMAIN pg.queue : pg.queue[i].source \in Sources
      /\ \A i \in DOMAIN scr : scr[i].source \in Sources
      /\ \A b \in bs : b.source \in Sources
      /\ \A k \in stored : k.source \in Sources
      /\ doc \in Nat \ {0}
  BY <1>1, PartsSources
<1>3. /\ st.drawn \in Nat /\ id = st.drawn + 1 /\ t.drawn = id /\ id \in Sources
      /\ Live(t, id) /\ Context(t, id) = context
      /\ t.events = st.events /\ t.seen = st.seen /\ t.sequence = st.sequence
  BY DEF Base, StoreOK, StoreType, Draws, DrawsNew
<1>4. \A jd \in Sources : jd <= st.drawn => jd # id /\ jd <= t.drawn
  BY <1>3 DEF Sources
<1>5. \A jd \in Sources : jd # id => t.source[jd] = st.source[jd] \/ Context(t, jd) = 0
  BY DEF DrawsNew
<1>6. \A jd \in Sources : jd # id => /\ Context(t, jd) \in {0, Context(st, jd)}
                                     /\ Live(t, jd) => Live(st, jd)
                                     /\ Context(t, jd) # 0 => t.source[jd] = st.source[jd]
                                                              /\ Context(t, jd) = Context(st, jd)
  BY <1>5 DEF Context, Live
<1>7. SourcesOfPage(t, doc, pg, bs)
  <2>1. \A jd \in Sources : Context(t, jd) <= doc
    BY <1>2, <1>3, <1>6 DEF Base, SourcesOfPage
  <2>2. pg.source # 0 => pg.source <= t.drawn /\ Context(t, pg.source) \in {0, doc}
    BY <1>2, <1>4, <1>6 DEF Base, SourcesOfPage
  <2>3. \A i \in DOMAIN pg.queue : /\ pg.queue[i].source <= t.drawn
                                   /\ Context(t, pg.queue[i].source) \in {0, doc}
    BY <1>2, <1>4, <1>6 DEF Base, SourcesOfPage
  <2>4. \A b \in bs : /\ b.source <= t.drawn
                      /\ b.document # doc => ~Live(t, b.source)
                      /\ b.document = doc => Context(t, b.source) \in {0, doc}
    BY <1>2, <1>4, <1>6 DEF Base, SourcesOfPage
  <2> QED BY <2>1, <2>2, <2>3, <2>4 DEF SourcesOfPage
<1>8. ScriptsOK(t, doc, pg, scr, ser)
  <2>1. ASSUME NEW i \in DOMAIN scr
        PROVE  /\ scr[i].source <= t.drawn
               /\ scr[i].what = "configure" =>
                    /\ Context(t, scr[i].source) \in {0, doc}
                    /\ Context(t, scr[i].source) = 0 /\ pg.source # 0 => ~Live(t, pg.source)
    <3>1. scr[i].source <= st.drawn
      BY DEF Base, ScriptsOK
    <3>2. scr[i].source <= t.drawn /\ scr[i].source # id /\ scr[i].source \in Sources
      BY <1>2, <1>4, <3>1
    <3>3. scr[i].what = "configure" => Context(t, scr[i].source) \in {0, doc}
      BY <1>6, <3>2 DEF Base, ScriptsOK
    <3>4. ASSUME pg.source # 0 PROVE ~Live(t, pg.source)
      <4>1. context = doc
        <5>1. scr # <<>>
          BY <1>1 DEF PartsTyped, PageTypeOK
        <5> QED BY <5>1
      <4>2. pg.source \in Sources /\ pg.source <= st.drawn /\ Context(st, pg.source) \in {0, doc}
        BY <1>2, <3>4 DEF Base, SourcesOfPage
      <4>3. ~Live(st, pg.source)
        BY <4>1, <4>2 DEF DrawsNew, Live, Context
      <4> QED BY <1>4, <1>6, <4>2, <4>3
    <3> QED BY <3>2, <3>3, <3>4
  <2>2. ser.what # "following"
    BY DEF Opening
  <2> QED BY <2>1, <2>2 DEF Base, ScriptsOK
<1>9. NumbersNew(t, doc, pg, bs, stored)
  <2>1. \A jd \in Sources : \A n : jd <= st.drawn /\ NumberNew(st, stored, jd, n)
                               => NumberNew(t, stored, jd, n)
    BY <1>4, <1>6 DEF NumberNew
  <2>2. \A jd \in Sources : \A n : jd <= st.drawn /\ NumberDone(st, jd, n) => NumberDone(t, jd, n)
    BY <1>3, <1>4, <1>6 DEF NumberDone
  <2>3. \A k \in stored : k.source <= st.drawn /\ k.source \in Sources
    BY <1>2 DEF Base, StoredOK
  <2>10. \A k \in stored : k.source # id
    BY <1>4, <2>3
  <2>9. pg.number \in Nat
    BY <1>1 DEF PartsTyped, PageTypeOK, PageType
  <2>4. ASSUME NEW jd \in Sources, Context(t, jd) = doc
        PROVE  /\ t.source[jd].retired <= pg.number
               /\ \A k \in stored : k.source = jd => k.number <= pg.number
    <3>1. CASE jd = id
      <4>1. t.source[jd].retired = 0
        BY <3>1 DEF DrawsNew
      <4>2. \A k \in stored : k.source # jd
        BY <3>1, <2>10
      <4> QED BY <4>1, <4>2, <2>9
    <3>2. CASE jd # id
      BY <3>2, <1>2, <1>6, <2>4 DEF Base, NumbersNew
    <3> QED BY <3>1, <3>2
  <2>5. \A i \in DOMAIN pg.queue : NumberNew(t, stored, pg.queue[i].source, pg.queue[i].number)
    BY <2>1, <1>2 DEF Base, NumbersNew, SourcesOfPage
  <2>6. \A b \in bs : b.document = doc /\ ~b.again =>
          \A i \in DOMAIN b.numbers :
            IF b.answer = "continue" THEN NumberDone(t, b.source, b.numbers[i])
            ELSE NumberNew(t, stored, b.source, b.numbers[i])
    BY <2>1, <2>2, <1>2 DEF Base, NumbersNew, SourcesOfPage
  <2> QED BY <2>4, <2>5, <2>6 DEF NumbersNew
<1>10. StoredOK(t, stored)
  <2>1. \A k \in stored : k.source \in Sources /\ k.source <= st.drawn
    BY <1>2 DEF Base, StoredOK
  <2>4. \A k \in stored : k.source # id /\ k.source <= t.drawn
    BY <1>4, <2>1
  <2>2. \A k \in stored : \/ Context(t, k.source) = 0 \/ k \in t.seen
                          \/ k.number <= t.source[k.source].retired
    BY <2>1, <2>4, <1>3, <1>6 DEF Base, StoredOK
  <2> QED BY <2>2, <2>4, <1>3 DEF Base, StoredOK
<1> QED BY <1>1, <1>7, <1>8, <1>9, <1>10 DEF Base

-----------------------------------------------------------------------------
(* The first layer, when the page alone moves                              *)

(* The part of the invariant that is about the page.                       *)
PagePart(st, doc, pg, bs, stored) ==
  PagesOrdered(doc, pg, bs) /\ SourcesOfPage(st, doc, pg, bs) /\ NumbersNew(st, doc, pg, bs, stored)

(* An event gets the next number and is queued, or is dropped.             *)
Records(pg, qg) ==
  /\ qg.number = pg.number + 1 /\ qg.source = pg.source /\ qg.generation = pg.generation
  /\ qg.leases = pg.leases /\ qg.inFlight = pg.inFlight /\ qg.drain = pg.drain
  /\ qg.queue \in {pg.queue, Append(pg.queue, [number |-> pg.number + 1, source |-> pg.source,
                                               generation |-> pg.generation])}

(* Leases end, the queue is discarded, or nothing of it.                   *)
Leaves(pg, qg) ==
  /\ qg.number = pg.number /\ qg.source = pg.source /\ pg.generation <= qg.generation
  /\ qg.leases \subseteq pg.leases /\ qg.queue \in {pg.queue, <<>>}

(* The page takes a configuration.                                         *)
Reconfigures(pg, qg, m) ==
  /\ qg.number = pg.number /\ qg.source = m.source /\ qg.generation = pg.generation + 1
  /\ qg.leases = m.leases /\ qg.inFlight = pg.inFlight /\ qg.queue = pg.queue

(* The first events of the queue, of one source and generation, leave it.  *)
Sends(doc, pg, qg, b) ==
  /\ ~pg.inFlight /\ qg.inFlight /\ qg.number = pg.number /\ qg.source = pg.source
  /\ qg.generation = pg.generation /\ qg.leases = pg.leases /\ qg.drain = pg.drain
  /\ b.document = doc /\ b.answer = "none" /\ ~b.again
  /\ \E count \in 1..Len(pg.queue) :
       /\ b.numbers = [i \in 1..count |-> pg.queue[i].number]
       /\ \A i \in 1..count : b.source = pg.queue[i].source
                              /\ b.generation = pg.queue[i].generation
       /\ qg.queue = SubSeq(pg.queue, count + 1, Len(pg.queue))

(* The queue holds numbered events of sources.                             *)
LEMMA QueueTyped ==
  ASSUME NEW pg, NEW scr, PageTypeOK(pg, scr)
  PROVE  /\ pg.queue \in Seq(Item) /\ DOMAIN pg.queue = 1..Len(pg.queue) /\ Len(pg.queue) \in Nat
         /\ \A i \in DOMAIN pg.queue :
              /\ pg.queue[i] \in Item /\ pg.queue[i].number \in Nat
              /\ pg.queue[i].generation \in Nat /\ pg.queue[i].source \in Sources
<1>1. pg.queue \in Seq(Item)
  BY DEF PageTypeOK, PageType
<1>2. \A i \in DOMAIN pg.queue : pg.queue[i] \in Item
  BY <1>1
<1> QED BY <1>1, <1>2 DEF Item

(* Leases that end and a queue that is discarded keep the page sound.      *)
LEMMA LeavesPart ==
  ASSUME NEW st, NEW doc, NEW pg, NEW bs, NEW stored, PagePart(st, doc, pg, bs, stored),
         PageTypeOK(pg, <<>>), NEW qg, PageTypeOK(qg, <<>>), Leaves(pg, qg),
         bs \subseteq BatchType,
         NEW cs, cs \subseteq bs, \A c \in cs : c.document = doc => qg.inFlight
  PROVE  PagePart(st, doc, qg, cs, stored)
<1>1. /\ DOMAIN qg.queue \subseteq DOMAIN pg.queue
      /\ \A i \in DOMAIN qg.queue : qg.queue[i] = pg.queue[i]
  <2>1. CASE qg.queue = pg.queue
    BY <2>1
  <2>2. CASE qg.queue = <<>>
    BY <2>2
  <2> QED BY <2>1, <2>2 DEF Leaves
<1>2. pg.queue \in Seq(Item) /\ pg.generation \in Nat /\ qg.generation \in Nat
      /\ pg.generation <= qg.generation
  BY DEF PageTypeOK, PageType, Leaves
<1>3. \A i \in DOMAIN pg.queue : pg.queue[i].generation \in Nat
  BY QueueTyped
<1>4. PagesOrdered(doc, qg, cs)
  <2>1. ASSUME NEW i \in DOMAIN qg.queue
        PROVE  qg.queue[i].number <= qg.number /\ qg.queue[i].generation <= qg.generation
    <3>1. pg.queue[i].number <= pg.number /\ pg.queue[i].generation <= pg.generation
      BY <1>1 DEF PagePart, PagesOrdered
    <3>2. pg.queue[i].generation \in Nat
      BY <1>1, <1>3
    <3>3. pg.queue[i].generation <= qg.generation
      BY <1>2, <3>1, <3>2
    <3> QED BY <1>1, <3>1, <3>3 DEF Leaves
  <2>2. \A i, j \in DOMAIN qg.queue : i < j => qg.queue[i].number < qg.queue[j].number
    BY <1>1 DEF PagePart, PagesOrdered
  <2>3. ASSUME NEW b \in cs
        PROVE  /\ b.document <= doc
               /\ \A i, j \in DOMAIN b.numbers : i < j => b.numbers[i] < b.numbers[j]
               /\ b.document = doc =>
                    /\ qg.inFlight /\ b.generation <= qg.generation
                    /\ \A i \in DOMAIN b.numbers :
                         /\ b.numbers[i] <= qg.number
                         /\ \A j \in DOMAIN qg.queue : b.numbers[i] < qg.queue[j].number
                    /\ \A c \in cs : c.document = doc => c = b
    <3>1. b \in bs /\ b \in BatchType
      OBVIOUS
    <3>2. b.document <= doc
               /\ \A i, j \in DOMAIN b.numbers : i < j => b.numbers[i] < b.numbers[j]
      BY <3>1 DEF PagePart, PagesOrdered
    <3>3. SUFFICES ASSUME b.document = doc
                   PROVE  /\ qg.inFlight /\ b.generation <= qg.generation
                          /\ \A i \in DOMAIN b.numbers :
                               /\ b.numbers[i] <= qg.number
                               /\ \A j \in DOMAIN qg.queue : b.numbers[i] < qg.queue[j].number
                          /\ \A c \in cs : c.document = doc => c = b
      BY <3>2
    <3>4. b.generation <= pg.generation /\ b.generation \in Nat
      BY <3>1, <3>3 DEF PagePart, PagesOrdered, BatchType
    <3>5. b.generation <= qg.generation
      BY <3>4, <1>2
    <3>6. \A i \in DOMAIN b.numbers :
                               /\ b.numbers[i] <= qg.number
                               /\ \A j \in DOMAIN qg.queue : b.numbers[i] < qg.queue[j].number
      BY <3>1, <3>3, <1>1 DEF PagePart, PagesOrdered, Leaves
    <3>7. \A c \in cs : c.document = doc => c = b
      BY <3>1, <3>3 DEF PagePart, PagesOrdered
    <3> QED BY <3>3, <3>5, <3>6, <3>7
  <2> QED BY <2>1, <2>2, <2>3 DEF PagesOrdered
<1>5. SourcesOfPage(st, doc, qg, cs)
  BY <1>1 DEF PagePart, SourcesOfPage, Leaves
<1>6. NumbersNew(st, doc, qg, cs, stored)
  BY <1>1 DEF PagePart, NumbersNew, Leaves
<1> QED BY <1>4, <1>5, <1>6 DEF PagePart

(* So does an event that is recorded.                                      *)
LEMMA RecordsPart ==
  ASSUME NEW st, NEW doc, NEW pg, NEW bs, NEW stored, PagePart(st, doc, pg, bs, stored),
         st \in StoreType, doc \in Nat \ {0}, bs \subseteq BatchType, stored \subseteq Event,
         PageTypeOK(pg, <<>>), NEW qg, Records(pg, qg), pg.source \in Sources
  PROVE  PagePart(st, doc, qg, bs, stored)
<1> DEFINE item == [number |-> pg.number + 1, source |-> pg.source, generation |-> pg.generation]
           q == pg.queue  n == pg.number  r == qg.queue
<1>1. q \in Seq(Item) /\ pg.generation \in Nat /\ n \in Nat
  BY DEF PageTypeOK, PageType
<1>2. \A i \in DOMAIN q : q[i] \in Item /\ q[i].number \in Nat /\ q[i].number <= n
  BY QueueTyped DEF PagePart, PagesOrdered
<1>3. pg.source # 0
  BY DEF Sources
<1>4. item.number = n + 1 /\ item.source = pg.source /\ item.generation = pg.generation
  OBVIOUS
<1>5. qg.number = n + 1 /\ qg.source = pg.source /\ qg.generation = pg.generation
      /\ qg.inFlight = pg.inFlight /\ qg.queue \in {q, Append(q, item)}
  BY DEF Records
<1> HIDE DEF item
<1>6. /\ \A i \in DOMAIN q : i \in DOMAIN r /\ r[i] = q[i]
      /\ \A i \in DOMAIN r : i \in DOMAIN q \/ (r[i] = item /\ \A j \in DOMAIN q : j < i)
      /\ \A i, j \in DOMAIN r : i \notin DOMAIN q /\ i < j => FALSE
  <2>1. CASE r = q
    <3> HIDE DEF q, r
    <3> QED BY <2>1
  <2>2. CASE r = Append(q, item)
    <3>1. Len(q) \in Nat /\ DOMAIN q = 1..Len(q) /\ DOMAIN Append(q, item) = 1..(Len(q) + 1)
          /\ (\A i \in 1..Len(q) : Append(q, item)[i] = q[i]) /\ Append(q, item)[Len(q) + 1] = item
      BY <1>1
    <3> HIDE DEF q, r
    <3>2. DOMAIN r = 1..(Len(q) + 1) /\ r[Len(q) + 1] = item /\ \A i \in 1..Len(q) : r[i] = q[i]
      BY <2>2, <3>1
    <3>3. \A i \in DOMAIN r : i \notin DOMAIN q => i = Len(q) + 1
      BY <3>1, <3>2
    <3>4. \A j \in DOMAIN q : j < Len(q) + 1
      BY <3>1
    <3>5. \A j \in DOMAIN r : ~(Len(q) + 1 < j)
      BY <3>1, <3>2
    <3>6. \A i \in DOMAIN q : i \in DOMAIN r
      BY <3>1, <3>2
    <3> QED BY <3>1, <3>2, <3>3, <3>4, <3>5, <3>6
  <2> QED BY <1>5, <2>1, <2>2
<1>7. \A i \in DOMAIN qg.queue : qg.queue[i].number \in Nat /\ qg.queue[i].number <= n + 1
                                 /\ (i \notin DOMAIN q => qg.queue[i].number = n + 1)
  BY <1>1, <1>2, <1>4, <1>6
<1>8. PagesOrdered(doc, qg, bs)
  <2>1. ASSUME NEW i \in DOMAIN qg.queue
        PROVE  qg.queue[i].number <= qg.number /\ qg.queue[i].generation <= qg.generation
    BY <1>1, <1>4, <1>5, <1>6, <1>7 DEF PagePart, PagesOrdered
  <2>2. ASSUME NEW i \in DOMAIN qg.queue, NEW j \in DOMAIN qg.queue, i < j
        PROVE  qg.queue[i].number < qg.queue[j].number
    <3>1. i \in DOMAIN q
      BY <1>6, <2>2
    <3>2. CASE j \in DOMAIN q
      BY <1>6, <2>2, <3>1, <3>2 DEF PagePart, PagesOrdered
    <3>3. CASE j \notin DOMAIN q
      <4>1. qg.queue[j].number = n + 1 /\ qg.queue[i].number <= n /\ qg.queue[i].number \in Nat
        BY <1>2, <1>6, <1>7, <3>1, <3>3
      <4> HIDE DEF n
      <4> QED BY <1>1, <4>1
    <3> QED BY <3>2, <3>3
  <2>3. ASSUME NEW b \in bs
        PROVE  /\ b.document <= doc
               /\ \A i, j \in DOMAIN b.numbers : i < j => b.numbers[i] < b.numbers[j]
               /\ b.document = doc =>
                    /\ qg.inFlight /\ b.generation <= qg.generation
                    /\ \A i \in DOMAIN b.numbers :
                         /\ b.numbers[i] <= qg.number
                         /\ \A j \in DOMAIN qg.queue : b.numbers[i] < qg.queue[j].number
                    /\ \A c \in bs : c.document = doc => c = b
    <3>1. /\ b.document <= doc
          /\ \A i, j \in DOMAIN b.numbers : i < j => b.numbers[i] < b.numbers[j]
          /\ b.document = doc =>
                    /\ qg.inFlight /\ b.generation <= qg.generation
                    /\ \A c \in bs : c.document = doc => c = b
      BY <1>5 DEF PagePart, PagesOrdered
    <3>2. ASSUME b.document = doc, NEW i \in DOMAIN b.numbers
          PROVE  /\ b.numbers[i] <= qg.number
                 /\ \A j \in DOMAIN qg.queue : b.numbers[i] < qg.queue[j].number
      <4>1. b.numbers[i] <= n /\ \A j \in DOMAIN q : b.numbers[i] < q[j].number
        BY <3>2 DEF PagePart, PagesOrdered
      <4>2. b.numbers[i] \in Nat
        BY <3>2 DEF BatchType
      <4> DEFINE m == b.numbers[i]
      <4> HIDE DEF m, n
      <4>3. m <= n + 1 /\ m < n + 1
        BY <4>1, <4>2, <1>1 DEF m
      <4> QED BY <4>1, <4>3, <1>5, <1>6, <1>7 DEF m
    <3> QED BY <3>1, <3>2
  <2> QED BY <2>1, <2>2, <2>3 DEF PagesOrdered
<1>9. SourcesOfPage(st, doc, qg, bs)
  BY <1>3, <1>4, <1>5, <1>6 DEF PagePart, SourcesOfPage
<1>10. \A id \in Sources : Context(st, id) = doc =>
         /\ st.source[id].retired \in Nat /\ st.source[id].retired <= n
         /\ \A k \in stored : k.source = id => k.number \in Nat /\ k.number <= n
  BY DEF PagePart, NumbersNew, StoreType, SourceType, Event
<1>11. NumbersNew(st, doc, qg, bs, stored)
  <2>1. \A id \in Sources : Context(st, id) = doc /\ doc # 0 =>
         /\ st.source[id].retired <= qg.number
         /\ \A k \in stored : k.source = id => k.number <= qg.number
    <3> SUFFICES ASSUME NEW id \in Sources, Context(st, id) = doc
                 PROVE  /\ st.source[id].retired <= qg.number
                        /\ \A k \in stored : k.source = id => k.number <= qg.number
      OBVIOUS
    <3> DEFINE old == st.source[id].retired
    <3>1. old \in Nat /\ old <= n /\ \A k \in stored : k.source = id => k.number \in Nat /\ k.number <= n
      BY <1>10
    <3> HIDE DEF old, n
    <3>2. old <= n + 1 /\ \A k \in stored : k.source = id => k.number <= n + 1
      BY <1>1, <3>1
    <3> QED BY <1>5, <3>2 DEF old
  <2>2. NumberNew(st, stored, pg.source, n + 1)
    <3> SUFFICES ASSUME Context(st, pg.source) # 0
                 PROVE  /\ st.source[pg.source].retired < n + 1
                        /\ \A k \in stored : k.source = pg.source => k.number < n + 1
      BY DEF NumberNew
    <3>1. Context(st, pg.source) = doc
      BY <1>3 DEF PagePart, SourcesOfPage
    <3> DEFINE old == st.source[pg.source].retired
    <3>2. old \in Nat /\ old <= n
          /\ \A k \in stored : k.source = pg.source => k.number \in Nat /\ k.number <= n
      BY <1>10, <3>1
    <3> HIDE DEF old, n
    <3>3. old < n + 1 /\ \A k \in stored : k.source = pg.source => k.number < n + 1
      BY <1>1, <3>2
    <3> QED BY <3>3 DEF old
  <2>3. \A i \in DOMAIN qg.queue : NumberNew(st, stored, qg.queue[i].source, qg.queue[i].number)
    BY <1>4, <1>6, <2>2 DEF PagePart, NumbersNew
  <2> QED BY <2>1, <2>3 DEF PagePart, NumbersNew
<1> QED BY <1>8, <1>9, <1>11 DEF PagePart

(* So does a configuration of a source of this document.                   *)
LEMMA ReconfiguresPart ==
  ASSUME NEW st, NEW doc, NEW pg, NEW bs, NEW stored, PagePart(st, doc, pg, bs, stored),
         bs \subseteq BatchType,
         PageTypeOK(pg, <<>>), NEW qg, NEW m, Reconfigures(pg, qg, m), m.source \in Sources,
         m.source <= st.drawn, Context(st, m.source) \in {0, doc}
  PROVE  PagePart(st, doc, qg, bs, stored)
<1> DEFINE g == pg.generation  h == qg.generation
<1>1. pg.queue \in Seq(Item) /\ g \in Nat /\ h = g + 1
  BY DEF PageTypeOK, PageType, Reconfigures
<1>2. \A i \in DOMAIN pg.queue : pg.queue[i].generation \in Nat /\ pg.queue[i].generation <= g
  BY QueueTyped DEF PagePart, PagesOrdered
<1>3. \A b \in bs : b.generation \in Nat
  BY DEF BatchType
<1>7. \A b \in bs : b.document = doc => b.generation <= g
  BY DEF PagePart, PagesOrdered
<1> HIDE DEF g, h
<1>4. /\ \A i \in DOMAIN pg.queue : pg.queue[i].generation <= h
      /\ \A b \in bs : b.document = doc => b.generation <= h
  BY <1>1, <1>2, <1>3, <1>7
<1>8. \A i \in DOMAIN qg.queue : qg.queue[i].number <= qg.number
                                 /\ qg.queue[i].generation <= qg.generation
  BY <1>4 DEF PagePart, PagesOrdered, Reconfigures, h
<1>9. \A b \in bs : b.document = doc => b.generation <= qg.generation
  BY <1>4 DEF h
<1>5. PagesOrdered(doc, qg, bs)
  BY <1>8, <1>9 DEF PagePart, PagesOrdered, Reconfigures
<1>6. SourcesOfPage(st, doc, qg, bs) /\ NumbersNew(st, doc, qg, bs, stored)
  BY DEF PagePart, SourcesOfPage, NumbersNew, Reconfigures
<1> QED BY <1>5, <1>6 DEF PagePart

(* What is left of a queue whose first items are sent.                     *)
LEMMA RestIs ==
  ASSUME NEW q \in Seq(Item), NEW count \in 1..Len(q), NEW r, r = SubSeq(q, count + 1, Len(q))
  PROVE  /\ DOMAIN r = 1..(Len(q) - count)
         /\ \A i \in DOMAIN r : i + count \in DOMAIN q /\ r[i] = q[i + count]
<1>1. Len(q) \in Nat /\ DOMAIN q = 1..Len(q)
  OBVIOUS
<1>2. count + 1 \in Int /\ Len(q) \in Int /\ count \in Nat /\ count <= Len(q)
  BY <1>1
<1>3. \A i \in (count + 1)..Len(q) : q[i] \in Item
  BY <1>1, <1>2
<1>4. Len(r) = Len(q) - count /\ r \in Seq(Item)
      /\ \A i \in 1..(Len(q) - count) : r[i] = q[count + 1 + i - 1]
  <2>1. /\ SubSeq(q, count + 1, Len(q)) \in Seq(Item)
        /\ Len(SubSeq(q, count + 1, Len(q)))
             = IF count + 1 <= Len(q) THEN Len(q) - (count + 1) + 1 ELSE 0
        /\ \A i \in 1..(Len(q) - (count + 1) + 1) :
             SubSeq(q, count + 1, Len(q))[i] = q[count + 1 + i - 1]
    BY <1>2, <1>3, SubSeqProperties
  <2>2. Len(q) - (count + 1) + 1 = Len(q) - count
    BY <1>2
  <2>3. Len(r) = Len(q) - count
    BY <1>2, <2>1
  <2> QED BY <2>1, <2>2, <2>3
<1>5. DOMAIN r = 1..(Len(q) - count)
  BY <1>4
<1>6. ASSUME NEW i \in DOMAIN r PROVE i + count \in DOMAIN q /\ r[i] = q[i + count]
  <2>1. i + count \in DOMAIN q
    BY <1>1, <1>5
  <2>2. r[i] = q[count + 1 + i - 1]
    BY <1>4, <1>5
  <2> QED BY <2>1, <2>2, <1>5, <1>2, <1>1
<1> QED BY <1>5, <1>6

(* So does a batch that is sent.                                           *)
LEMMA SendsPart ==
  ASSUME NEW st, NEW doc, NEW pg, NEW bs, NEW stored, PagePart(st, doc, pg, bs, stored),
         PageTypeOK(pg, <<>>), NEW qg, NEW b \in BatchType, Sends(doc, pg, qg, b), doc \in Nat \ {0}
  PROVE  PagePart(st, doc, qg, bs \cup {b}, stored)
<1> DEFINE q == pg.queue  r == qg.queue
<1>1. q \in Seq(Item) /\ Len(q) \in Nat /\ DOMAIN q = 1..Len(q)
  BY DEF PageTypeOK, PageType
<1>2. PICK count \in 1..Len(q) :
         /\ b.numbers = [i \in 1..count |-> q[i].number]
         /\ \A i \in 1..count : b.source = q[i].source /\ b.generation = q[i].generation
         /\ r = SubSeq(q, count + 1, Len(q))
  BY DEF Sends
<1>3. /\ DOMAIN r = 1..(Len(q) - count)
      /\ \A i \in DOMAIN r : i + count \in DOMAIN q /\ r[i] = q[i + count]
  <2> HIDE DEF q, r
  <2> QED BY <1>1, <1>2, RestIs
<1>4. DOMAIN b.numbers = 1..count /\ \A i \in 1..count : b.numbers[i] = q[i].number /\ i \in DOMAIN q
  BY <1>1, <1>2
<1>5. \A c \in bs : c.document # doc
  BY DEF PagePart, PagesOrdered, Sends
<1>6. 1 \in 1..count /\ b.source = q[1].source /\ 1 \in DOMAIN q
  BY <1>1, <1>2
<1>7. /\ \A i, j \in DOMAIN q : i < j => q[i].number < q[j].number
      /\ \A i \in DOMAIN q : q[i].number <= pg.number /\ q[i].generation <= pg.generation
  BY DEF PagePart, PagesOrdered
<1>8. \A i \in DOMAIN r : r[i].number <= pg.number /\ r[i].generation <= pg.generation
  BY <1>3, <1>7
<1>9. \A i, j \in DOMAIN r : i < j => r[i].number < r[j].number
  <2> SUFFICES ASSUME NEW i \in DOMAIN r, NEW j \in DOMAIN r, i < j
               PROVE  r[i].number < r[j].number
    OBVIOUS
  <2>1. i + count < j + count /\ i + count \in DOMAIN q /\ j + count \in DOMAIN q
    BY <1>1, <1>3
  <2> QED BY <1>3, <1>7, <2>1
<1>10. \A i \in 1..count, j \in DOMAIN r : b.numbers[i] < r[j].number
  <2> SUFFICES ASSUME NEW i \in 1..count, NEW j \in DOMAIN r PROVE b.numbers[i] < r[j].number
    OBVIOUS
  <2>1. i < j + count /\ i \in DOMAIN q /\ j + count \in DOMAIN q
    BY <1>1, <1>3
  <2> QED BY <1>3, <1>4, <1>7, <2>1
<1>11. \A i, j \in DOMAIN b.numbers : i < j => b.numbers[i] < b.numbers[j]
  BY <1>4, <1>7
<1>12. \A i \in DOMAIN b.numbers : b.numbers[i] <= pg.number
  BY <1>4, <1>7
<1>13. b.generation <= pg.generation
  BY <1>2, <1>6, <1>7
<1>14. b.document = doc /\ doc <= doc /\ qg.number = pg.number /\ qg.inFlight
       /\ qg.generation = pg.generation /\ b.answer = "none" /\ qg.source = pg.source
  BY DEF Sends
<1>15. PagesOrdered(doc, qg, bs \cup {b})
  <2>1. \A c \in bs : c.document <= doc /\ c.document # doc
                      /\ \A i, j \in DOMAIN c.numbers : i < j => c.numbers[i] < c.numbers[j]
    BY <1>5 DEF PagePart, PagesOrdered
  <2>2. \A i \in DOMAIN qg.queue : qg.queue[i].number <= qg.number /\ qg.queue[i].generation <= qg.generation
    BY <1>8, <1>14
  <2>3. \A i \in DOMAIN b.numbers :
                 /\ b.numbers[i] <= qg.number
                 /\ \A j \in DOMAIN qg.queue : b.numbers[i] < qg.queue[j].number
    BY <1>4, <1>10, <1>12, <1>14
  <2>4. \A c \in bs \cup {b} : c.document = doc => c = b
    BY <2>1
  <2>5. b.generation <= qg.generation
    BY <1>13, <1>14
  <2> HIDE DEF q, r
  <2>6. ASSUME NEW c \in bs \cup {b}
        PROVE  /\ c.document <= doc
               /\ \A i, j \in DOMAIN c.numbers : i < j => c.numbers[i] < c.numbers[j]
               /\ c.document = doc =>
                    /\ qg.inFlight /\ c.generation <= qg.generation
                    /\ \A i \in DOMAIN c.numbers :
                         /\ c.numbers[i] <= qg.number
                         /\ \A j \in DOMAIN qg.queue : c.numbers[i] < qg.queue[j].number
                    /\ \A d \in bs \cup {b} : d.document = doc => d = c
    <3>1. CASE c \in bs
      BY <2>1, <3>1
    <3>2. CASE c = b
      BY <3>2, <1>11, <1>14, <2>3, <2>4, <2>5
    <3> QED BY <3>1, <3>2
  <2>7. \A i, j \in DOMAIN qg.queue : i < j => qg.queue[i].number < qg.queue[j].number
    BY <1>9 DEF r
  <2> QED BY <2>2, <2>6, <2>7 DEF PagesOrdered
<1>16. SourcesOfPage(st, doc, qg, bs \cup {b})
  <2>1. \A i \in DOMAIN q : q[i].source <= st.drawn /\ Context(st, q[i].source) \in {0, doc}
    BY DEF PagePart, SourcesOfPage
  <2>2. \A i \in DOMAIN qg.queue : qg.queue[i].source <= st.drawn
                                   /\ Context(st, qg.queue[i].source) \in {0, doc}
    BY <1>3, <2>1
  <2>3. b.source <= st.drawn /\ Context(st, b.source) \in {0, doc}
    BY <1>6, <2>1
  <2> HIDE DEF q, r
  <2> QED BY <1>14, <2>2, <2>3 DEF PagePart, SourcesOfPage
<1>17. NumbersNew(st, doc, qg, bs \cup {b}, stored)
  <2>1. \A i \in DOMAIN q : NumberNew(st, stored, q[i].source, q[i].number)
    BY DEF PagePart, NumbersNew
  <2>2. \A i \in DOMAIN qg.queue : NumberNew(st, stored, qg.queue[i].source, qg.queue[i].number)
    BY <1>3, <2>1
  <2>3. \A i \in DOMAIN b.numbers : NumberNew(st, stored, b.source, b.numbers[i])
    BY <1>2, <1>4, <2>1
  <2> HIDE DEF q, r
  <2>4. \A id \in Sources : Context(st, id) = doc /\ doc # 0 =>
         /\ st.source[id].retired <= qg.number
         /\ \A k \in stored : k.source = id => k.number <= qg.number
    BY <1>14 DEF PagePart, NumbersNew
  <2>5. \A c \in bs \cup {b} : c.document = doc /\ ~c.again =>
          \A i \in DOMAIN c.numbers :
            IF c.answer = "continue" THEN NumberDone(st, c.source, c.numbers[i])
            ELSE NumberNew(st, stored, c.source, c.numbers[i])
    BY <1>5, <1>14, <2>3
  <2> QED BY <2>2, <2>4, <2>5 DEF NumbersNew
<1> QED BY <1>15, <1>16, <1>17 DEF PagePart

(* A new document whose page captures nothing.                             *)
LEMMA NavigatesPart ==
  ASSUME NEW st, NEW doc \in Nat \ {0}, NEW pg, NEW bs, NEW stored, PagePart(st, doc, pg, bs, stored),
         st \in StoreType, bs \subseteq BatchType,
         \A b \in bs : b.source \in Sources, \A id \in Sources : ~Live(st, id)
  PROVE  PagePart(st, doc + 1, OffPage, bs, stored)
<1>1. OffPage.queue = <<>> /\ OffPage.source = 0 /\ DOMAIN OffPage.queue = {}
  BY DEF OffPage
<1>2. \A b \in bs : b.document <= doc /\ b.document <= doc + 1 /\ b.document # doc + 1
  <2>1. \A b \in bs : b.document <= doc /\ b.document \in Nat
    BY DEF PagePart, PagesOrdered, BatchType
  <2> QED BY <2>1
<1>3. \A id \in Sources : Context(st, id) <= doc + 1 /\ Context(st, id) # doc + 1
  <2>1. \A id \in Sources : Context(st, id) <= doc /\ Context(st, id) \in Nat
    BY DEF PagePart, SourcesOfPage, Context, StoreType, SourceType
  <2> QED BY <2>1
<1>4. PagesOrdered(doc + 1, OffPage, bs)
  BY <1>1, <1>2 DEF PagePart, PagesOrdered
<1>5. SourcesOfPage(st, doc + 1, OffPage, bs)
  BY <1>1, <1>2, <1>3 DEF PagePart, SourcesOfPage
<1>6. NumbersNew(st, doc + 1, OffPage, bs, stored)
  BY <1>1, <1>2, <1>3 DEF NumbersNew
<1> QED BY <1>4, <1>5, <1>6 DEF PagePart

-----------------------------------------------------------------------------
(* The first layer, when a batch is answered                               *)

(* A batch is answered: what the store did with it is stored once.         *)
LEMMA AddsBase ==
  ASSUME NEW st, NEW doc, NEW pg, NEW bs, NEW scr, NEW ser, NEW stored,
         Base(st, doc, pg, bs, scr, ser, stored),
         NEW b \in bs, b.document = doc, NEW c \in BatchType,
         c.document = doc, c.source = b.source, c.numbers = b.numbers, c.generation = b.generation,
         NEW t, StoreOK(t), NEW new, new \subseteq Event, Adds(st, t, new),
         \A k \in new : k.source = b.source /\ \E i \in DOMAIN b.numbers : k.number = b.numbers[i],
         \A k \in new : \A l \in new : k.number = l.number => k = l,
         \A k \in new : \A l \in stored : l.source = k.source => l.number < k.number,
         ~c.again => /\ c.answer = "continue"
                     /\ \A i \in DOMAIN b.numbers : NumberDone(t, b.source, b.numbers[i])
  PROVE  Base(t, doc, pg, (bs \ {b}) \cup {c}, scr, ser, stored \cup new)
<1> DEFINE cs == (bs \ {b}) \cup {c}
           now == stored \cup new
<1>1. PartsTyped(doc, pg, bs, scr, ser, stored) /\ PartsTyped(doc, pg, cs, scr, ser, now)
  BY DEF Base, PartsTyped
<1>2. /\ pg.source \in Sources \cup {0}
      /\ \A i \in DOMAIN pg.queue : pg.queue[i].source \in Sources
      /\ \A i \in DOMAIN scr : scr[i].source \in Sources
      /\ \A d \in bs : d.source \in Sources
      /\ \A k \in now : k.source \in Sources
      /\ doc \in Nat \ {0}
  BY <1>1, PartsSources
<1>3. /\ t.drawn = st.drawn
      /\ \A id \in Sources : Context(t, id) = Context(st, id) /\ (Live(t, id) <=> Live(st, id))
  BY DEF Adds, Context, Live
<1>4. \A d \in bs \ {b} : d.document # doc
  BY DEF Base, PagesOrdered
<1> HIDE DEF cs, now
<1>20. \A d \in cs : d \in bs \/ d = c
  BY DEF cs
<1>21. \A d \in cs : d.document = doc => d = c
  BY <1>4 DEF cs
<1>5. PagesOrdered(doc, pg, cs)
  <2>1. ASSUME NEW d \in cs
        PROVE  /\ d.document <= doc
               /\ \A i, j \in DOMAIN d.numbers : i < j => d.numbers[i] < d.numbers[j]
               /\ d.document = doc =>
                    /\ pg.inFlight /\ d.generation <= pg.generation
                    /\ \A i \in DOMAIN d.numbers :
                         /\ d.numbers[i] <= pg.number
                         /\ \A j \in DOMAIN pg.queue : d.numbers[i] < pg.queue[j].number
                    /\ \A e \in cs : e.document = doc => e = d
    <3>1. CASE d = c
      BY <3>1, <1>21 DEF Base, PagesOrdered
    <3>2. CASE d \in bs /\ d # c
      BY <3>2, <1>21 DEF Base, PagesOrdered
    <3> QED BY <3>1, <3>2, <1>20
  <2> QED BY <2>1 DEF Base, PagesOrdered
<1>6. SourcesOfPage(t, doc, pg, cs)
  BY <1>2, <1>3, <1>20 DEF Base, SourcesOfPage
<1>7. ScriptsOK(t, doc, pg, scr, ser)
  <2>1. \A i \in DOMAIN scr :
          /\ scr[i].source <= t.drawn
          /\ scr[i].what = "configure" =>
               /\ Context(t, scr[i].source) \in {0, doc}
               /\ Context(t, scr[i].source) = 0 /\ pg.source # 0 => ~Live(t, pg.source)
    BY <1>2, <1>3 DEF Base, ScriptsOK
  <2>2. ser.what = "following" => \A id \in Sources : ~Live(t, id)
    BY <1>3 DEF Base, ScriptsOK
  <2> QED BY <2>1, <2>2 DEF Base, ScriptsOK
<1>8. /\ st \in StoreType /\ t \in StoreType /\ stored \subseteq Event /\ now \subseteq Event
      /\ st.seen = ToSet(st.events) /\ t.seen = ToSet(t.events) /\ ToSet(st.events) \subseteq stored
  BY DEF Base, StoreOK, Consecutive, StoredOK, PartsTyped, now
<1>9. \A k \in now : k.seq \in Nat /\ k.number \in Nat /\ k.source \in Sources
  BY <1>8 DEF Event
<1>10. \A id \in Sources : st.source[id].retired \in Nat /\ t.source[id].retired \in Nat
  BY <1>8 DEF StoreType, SourceType
<1>11. st.sequence \in Nat /\ t.sequence \in Nat /\ Len(st.events) \in Nat /\ Len(t.events) \in Nat
       /\ st.sequence <= t.sequence
       /\ st.sequence + Len(t.events) <= t.sequence + Len(st.events)
  BY <1>8 DEF StoreType, Adds
<1>12. \A id \in Sources : \A n \in Nat :
         /\ (\A k \in now : k.source = id => k.number < n)
         /\ st.source[id].retired < n
         => t.source[id].retired < n
  BY <1>8 DEF Adds, now
<1>13. NumbersNew(t, doc, pg, cs, now)
  <2>1. ASSUME NEW id \in Sources, Context(t, id) = doc
        PROVE  /\ t.source[id].retired <= pg.number
               /\ \A k \in now : k.source = id => k.number <= pg.number
    <3>1. /\ st.source[id].retired <= pg.number
          /\ \A k \in stored : k.source = id => k.number <= pg.number
      BY <1>2, <1>3, <2>1 DEF Base, NumbersNew
    <3>2. \A k \in new : k.number <= pg.number
      BY DEF Base, PagesOrdered
    <3>3. \A k \in now : k.source = id => k.number <= pg.number
      BY <3>1, <3>2 DEF now
    <3>4. \/ t.source[id].retired = st.source[id].retired
          \/ \E k \in now : k.source = id /\ k.number = t.source[id].retired
      BY <1>8 DEF Adds, now
    <3> QED BY <3>1, <3>3, <3>4
  <2>2. ASSUME NEW i \in DOMAIN pg.queue, Context(t, pg.queue[i].source) # 0
        PROVE  /\ t.source[pg.queue[i].source].retired < pg.queue[i].number
               /\ \A k \in now : k.source = pg.queue[i].source => k.number < pg.queue[i].number
    <3> DEFINE id == pg.queue[i].source  n == pg.queue[i].number
    <3>1. id \in Sources /\ n \in Nat
      BY <1>1, QueueTyped DEF PartsTyped, PageTypeOK
    <3>2. NumberNew(st, stored, id, n) /\ Context(st, id) # 0
      BY <1>3, <2>2, <3>1 DEF Base, NumbersNew
    <3>3. \A k \in new : k.number < n
      BY DEF Base, PagesOrdered
    <3>4. st.source[id].retired < n /\ \A k \in now : k.source = id => k.number < n
      BY <3>2, <3>3 DEF NumberNew, now
    <3> HIDE DEF id, n
    <3>5. t.source[id].retired < n
      BY <1>12, <3>1, <3>4
    <3> QED BY <3>4, <3>5 DEF id, n
  <2>3. ASSUME NEW d \in cs, d.document = doc, ~d.again, NEW i \in DOMAIN d.numbers
        PROVE  d.answer = "continue" /\ NumberDone(t, d.source, d.numbers[i])
    BY <1>21, <2>3
  <2> QED BY <2>1, <2>2, <2>3 DEF NumbersNew, NumberNew
<1>14. StoredOK(t, now)
  <2>1. ToSet(t.events) \subseteq now
    BY <1>8 DEF Adds, now
  <2>2. ASSUME NEW k \in now
        PROVE  /\ 1 <= k.seq /\ k.seq <= t.sequence /\ k.source <= t.drawn
               /\ k.seq + Len(t.events) > t.sequence => k \in ToSet(t.events)
               /\ Context(t, k.source) = 0 \/ k \in t.seen \/ k.number <= t.source[k.source].retired
    <3> DEFINE s == k.seq  v == st.sequence  w == t.sequence  x == Len(st.events)  y == Len(t.events)
               o == st.source[k.source].retired  r == t.source[k.source].retired  n == k.number
    <3>1. s \in Nat /\ v \in Nat /\ w \in Nat /\ x \in Nat /\ y \in Nat /\ v <= w /\ v + y <= w + x
          /\ o \in Nat /\ r \in Nat /\ n \in Nat /\ o <= r
      BY <1>9, <1>10, <1>11 DEF Adds
    <3>2. CASE k \in ToSet(st.events) \cup new
      <4>1. k \in ToSet(t.events) \/ (n <= r /\ s + y <= w)
        BY <3>2 DEF Adds
      <4>2. 1 <= s /\ s <= w
        <5>1. CASE k \in new
          <6>1. v < s /\ s <= w
            BY <5>1 DEF Adds
          <6> HIDE DEF s, v, w
          <6> QED BY <3>1, <6>1
        <5>2. CASE k \in stored
          <6>1. 1 <= s /\ s <= v
            BY <5>2 DEF Base, StoredOK
          <6> HIDE DEF s, v, w
          <6> QED BY <3>1, <6>1
        <5> QED BY <5>1, <5>2 DEF now
      <4>3. k.source <= t.drawn
        <5>1. CASE k \in new
          BY <5>1, <1>3 DEF Base, SourcesOfPage
        <5>2. CASE k \in stored
          BY <5>2, <1>3 DEF Base, StoredOK
        <5> QED BY <5>1, <5>2 DEF now
      <4>4. s + y > w => k \in ToSet(t.events)
        <5> HIDE DEF s, y, w
        <5> QED BY <3>1, <4>1
      <4> QED BY <4>1, <4>2, <4>3, <4>4, <1>8
    <3>3. CASE k \in stored /\ k \notin ToSet(st.events)
      <4>1. /\ 1 <= s /\ s <= v /\ k.source <= st.drawn /\ ~(s + x > v)
            /\ Context(st, k.source) = 0 \/ n <= o
        BY <1>8, <3>3 DEF Base, StoredOK
      <4>2. 1 <= s /\ s <= w /\ ~(s + y > w) /\ (n <= o => n <= r)
        <5> HIDE DEF s, v, w, x, y, n, o, r
        <5> QED BY <3>1, <4>1
      <4> QED BY <1>3, <1>9, <4>1, <4>2
    <3> QED BY <3>2, <3>3 DEF now
  <2>3. ASSUME NEW k \in now, NEW l \in now, k.source = l.source, k.number = l.number
        PROVE  k = l
    <3>1. CASE k \in stored /\ l \in stored
      BY <2>3, <3>1 DEF Base, StoredOK
    <3>2. CASE k \in new /\ l \in new
      BY <2>3, <3>2
    <3>3. CASE k \in new /\ l \in stored
      <4>1. l.number < k.number
        BY <2>3, <3>3
      <4> QED BY <2>3, <4>1, <1>9
    <3>4. CASE l \in new /\ k \in stored
      <4>1. k.number < l.number
        BY <2>3, <3>4
      <4> QED BY <2>3, <4>1, <1>9
    <3> QED BY <3>1, <3>2, <3>3, <3>4 DEF now
  <2> QED BY <2>1, <2>2, <2>3 DEF StoredOK
<1> QED BY <1>1, <1>5, <1>6, <1>7, <1>13, <1>14 DEF Base, cs, now

(* The batch once it is answered.                                          *)
Answered(b, accepted) == [b EXCEPT !.answer = IF accepted THEN "continue" ELSE "end",
                                   !.again = (b.answer # "none")]

(* It has the answer, and is otherwise as it was.                          *)
LEMMA AnsweredIs ==
  ASSUME NEW b \in BatchType, NEW accepted \in BOOLEAN
  PROVE  LET c == Answered(b, accepted)
         IN /\ c \in BatchType /\ c.document = b.document /\ c.source = b.source
            /\ c.numbers = b.numbers /\ c.generation = b.generation /\ c.dropped = b.dropped
            /\ c.answer = (IF accepted THEN "continue" ELSE "end")
            /\ (c.again <=> b.answer # "none")
<1> DEFINE a == IF accepted THEN "continue" ELSE "end"  g == (b.answer # "none")
<1>1. a \in {"none", "continue", "end"} /\ g \in BOOLEAN
  OBVIOUS
<1> HIDE DEF a, g
<1>2. Answered(b, accepted) = [b EXCEPT !.answer = a, !.again = g]
  BY DEF Answered, a, g
<1>3. [b EXCEPT !.answer = a, !.again = g] \in BatchType
      /\ LET c == [b EXCEPT !.answer = a, !.again = g]
         IN /\ c.document = b.document /\ c.source = b.source
            /\ c.numbers = b.numbers /\ c.generation = b.generation /\ c.dropped = b.dropped
            /\ c.answer = a /\ c.again = g
  BY <1>1 DEF BatchType
<1> QED BY <1>2, <1>3 DEF a, g

(* What a batch adds, and that it adds each of its events if none was.     *)
Stores(st, t, b, stored, now) ==
  \E new \in SUBSET Event :
    /\ Adds(st, t, new) /\ now = stored \cup new
    /\ \A k \in new : k.source = b.source
    /\ b.answer # "continue" =>
         \A i \in DOMAIN b.numbers :
           \E k \in new : k.source = b.source /\ k.number = b.numbers[i]

(* A batch that is accepted keeps the invariant, and each of its events    *)
(* is stored if none was.                                                  *)
LEMMA IngestBase ==
  ASSUME NEW st, NEW doc, NEW pg, NEW bs, NEW scr, NEW ser, NEW stored,
         Base(st, doc, pg, bs, scr, ser, stored),
         NEW b \in bs, ~b.again, Live(st, b.source)
  PROVE  LET t == IngestBatch(st, b)
             now == stored \cup StoredBy(st, b)
         IN /\ b.document = doc
            /\ Base(t, doc, pg, (bs \ {b}) \cup {Answered(b, TRUE)}, scr, ser, now)
            /\ Stores(st, t, b, stored, now)
<1> DEFINE t == IngestBatch(st, b)
           now == stored \cup StoredBy(st, b)
           c == Answered(b, TRUE)
           n == Len(b.numbers)
<1>1. /\ b \in BatchType /\ b.source \in Sources /\ b.numbers \in Seq(Nat) /\ n \in Nat
      /\ DOMAIN b.numbers = 1..n
  BY DEF Base, PartsTyped, BatchType
<1>2. /\ c \in BatchType /\ c.document = b.document /\ c.source = b.source
      /\ c.numbers = b.numbers /\ c.generation = b.generation
      /\ c.answer = "continue" /\ (c.again <=> b.answer # "none")
  BY <1>1, AnsweredIs
<1>3. b.document = doc /\ b.source <= st.drawn /\ Context(st, b.source) # 0
  BY DEF Base, SourcesOfPage, Live, Context
<1>4. StoreOK(st) /\ st \in StoreType /\ ToSet(st.events) \subseteq stored /\ st.seen = ToSet(st.events)
      /\ stored \subseteq Event /\ st.sequence \in Nat
  BY DEF Base, StoreOK, StoredOK, Consecutive, PartsTyped, StoreType
<1>5. \A i, j \in 1..n : i < j => b.numbers[i] < b.numbers[j]
  BY <1>1 DEF Base, PagesOrdered
<1>6. \A i \in 1..n : b.numbers[i] \in Nat
  BY <1>1
<1> HIDE DEF c, now, t
<1>7. CASE b.answer = "continue"
  <2>6. \A i \in DOMAIN b.numbers : NumberDone(st, b.source, b.numbers[i])
    BY <1>3, <1>7 DEF Base, NumbersNew
  <2>1. Done(st, b)
    BY <1>3, <2>6 DEF NumberDone, Done, Retiring
  <2>7. StoreOK(t) /\ Adds(st, t, {}) /\ now = stored
    <3>1. StoreOK(st) /\ b \in BatchType /\ Done(st, b) /\ ToSet(st.events) \subseteq stored
      BY <1>1, <1>4, <2>1
    <3>2. StoreOK(t)
      BY <3>1, DoneIngest DEF t
    <3>3. Adds(st, t, {})
      BY <3>1, DoneIngest DEF t
    <3>5. stored \cup StoredBy(st, b) = stored
      BY <3>1, DoneIngest
    <3>4. now = stored
      BY <3>5 DEF now
    <3> QED BY <3>2, <3>3, <3>4
  <2>2. StoreOK(t) /\ Adds(st, t, {}) /\ now = stored \cup {}
    BY <2>7
  <2>3. c.again
    BY <1>2, <1>7
  <2>4. Base(t, doc, pg, (bs \ {b}) \cup {c}, scr, ser, stored \cup {})
    BY <1>2, <1>3, <2>2, <2>3, AddsBase
  <2>5. Stores(st, t, b, stored, now)
    <3> SUFFICES \E new \in SUBSET Event :
          /\ Adds(st, t, new) /\ now = stored \cup new
          /\ \A k \in new : k.source = b.source
          /\ b.answer # "continue" =>
               \A i \in DOMAIN b.numbers :
                 \E k \in new : k.source = b.source /\ k.number = b.numbers[i]
      BY DEF Stores
    <3>1. {} \in SUBSET Event
      OBVIOUS
    <3> WITNESS {} \in SUBSET Event
    <3> QED BY <1>7, <2>2
  <2> QED BY <1>3, <2>2, <2>4, <2>5 DEF c, now, t
<1>8. CASE b.answer # "continue"
  <2> DEFINE new == NewOf(st, b, n)
  <2>1. \A i \in 1..n : /\ Retiring(st, b) < b.numbers[i]
                        /\ \A k \in stored : k.source = b.source => k.number < b.numbers[i]
    BY <1>1, <1>3, <1>8 DEF Base, NumbersNew, NumberNew, Retiring
  <2>2. Fresh(st, b)
    BY <1>1, <1>3, <1>4, <1>5, <2>1 DEF Fresh
  <2>3. StoreOK(t) /\ Adds(st, t, new) /\ now = stored \cup new
    BY <1>1, <1>4, <2>2, FreshIngest DEF t, now
  <2>4. new \subseteq Event
    BY <1>1, <1>4, NewTyped
  <2>5. \A k \in new : \E i \in 1..n : k = KeptAt(st, b, i)
    BY DEF NewOf
  <2>6. \A i \in 1..n : KeptAt(st, b, i) \in new
    BY DEF NewOf
  <2>7. \A i \in 1..n : KeptAt(st, b, i).source = b.source /\ KeptAt(st, b, i).number = b.numbers[i]
    BY DEF KeptAt
  <2> HIDE DEF new
  <2>8. \A k \in new : k.source = b.source /\ \E i \in DOMAIN b.numbers : k.number = b.numbers[i]
    BY <1>1, <2>5, <2>7
  <2>9. \A k \in new : \A l \in stored : l.source = k.source => l.number < k.number
    BY <2>1, <2>5, <2>7
  <2>10. ASSUME NEW k \in new, NEW l \in new, k.number = l.number PROVE k = l
    <3>1. PICK i \in 1..n : k = KeptAt(st, b, i)
      BY <2>5
    <3>2. PICK j \in 1..n : l = KeptAt(st, b, j)
      BY <2>5
    <3> DEFINE x == b.numbers[i]  y == b.numbers[j]
    <3>3. x = y /\ x \in Nat
      BY <2>7, <2>10, <3>1, <3>2, <1>6
    <3>4. (i < j => x < y) /\ (j < i => y < x)
      BY <1>5
    <3> HIDE DEF x, y
    <3>5. i = j
      BY <1>1, <3>3, <3>4
    <3> QED BY <3>1, <3>2, <3>5
  <2>11. \A i \in DOMAIN b.numbers :
           \E k \in new : k.source = b.source /\ k.number = b.numbers[i]
    BY <1>1, <2>6, <2>7
  <2>12. \A i \in DOMAIN b.numbers : NumberDone(t, b.source, b.numbers[i])
    <3>1. t.seen = ToSet(t.events)
      BY <2>3 DEF StoreOK, Consecutive
    <3>2. \A k \in new : k \in ToSet(t.events) \/ k.number <= t.source[k.source].retired
      BY <2>3 DEF Adds
    <3> QED BY <2>11, <3>1, <3>2 DEF NumberDone
  <2>13. Base(t, doc, pg, (bs \ {b}) \cup {c}, scr, ser, stored \cup new)
    BY <1>2, <1>3, <2>3, <2>4, <2>8, <2>9, <2>10, <2>12, AddsBase
  <2>14. Stores(st, t, b, stored, now)
    BY <2>3, <2>4, <2>8, <2>11 DEF Stores
  <2> QED BY <1>3, <2>3, <2>13, <2>14 DEF c, now, t
<1> QED BY <1>7, <1>8

(* Nothing live is there for the batch, or nobody who captures.            *)
LEMMA RefusedBase ==
  ASSUME NEW st, NEW doc, NEW pg, NEW bs, NEW scr, NEW ser, NEW stored,
         Base(st, doc, pg, bs, scr, ser, stored), NEW b \in bs, ~b.again
  PROVE  Base(st, doc, pg, (bs \ {b}) \cup {Answered(b, FALSE)}, scr, ser, stored)
<1> DEFINE c == Answered(b, FALSE)  cs == (bs \ {b}) \cup {c}
<1>1. b \in BatchType
  BY DEF Base, PartsTyped
<1>2. /\ c \in BatchType /\ c.document = b.document /\ c.source = b.source
      /\ c.numbers = b.numbers /\ c.generation = b.generation
      /\ c.answer = "end" /\ (c.again <=> b.answer # "none")
  BY <1>1, AnsweredIs
<1>3. PartsTyped(doc, pg, cs, scr, ser, stored)
  BY <1>2 DEF Base, PartsTyped
<1> HIDE DEF c, cs
<1>4. /\ \A d \in cs : d = c \/ (d \in bs /\ d # b)
  BY DEF cs
<1>5. b.document = doc => \A d \in cs : d.document = doc => d = c
  BY <1>4 DEF Base, PagesOrdered
<1>9. PagesOrdered(doc, pg, bs)
  BY DEF Base
<1>6. PagesOrdered(doc, pg, cs)
  <2>1. ASSUME NEW d \in cs
        PROVE  /\ d.document <= doc
               /\ \A i, j \in DOMAIN d.numbers : i < j => d.numbers[i] < d.numbers[j]
               /\ d.document = doc =>
                    /\ pg.inFlight /\ d.generation <= pg.generation
                    /\ \A i \in DOMAIN d.numbers :
                         /\ d.numbers[i] <= pg.number
                         /\ \A j \in DOMAIN pg.queue : d.numbers[i] < pg.queue[j].number
                    /\ \A e \in cs : e.document = doc => e = d
    <3>1. CASE d = c
      <4>1. d.document = doc => \A e \in cs : e.document = doc => e = d
        BY <1>2, <1>5, <3>1
      <4> QED BY <1>2, <3>1, <4>1, <1>9 DEF PagesOrdered
    <3>2. CASE d \in bs /\ d # b
      <4>1. d.document = doc => \A e \in cs : e.document = doc => e = d
        BY <1>2, <1>4, <3>2, <1>9 DEF PagesOrdered
      <4> QED BY <3>2, <4>1, <1>9 DEF PagesOrdered
    <3> QED BY <3>1, <3>2, <1>4
  <2> QED BY <2>1, <1>9 DEF PagesOrdered
<1>7. SourcesOfPage(st, doc, pg, cs)
  BY <1>2, <1>4 DEF Base, SourcesOfPage
<1>8. NumbersNew(st, doc, pg, cs, stored)
  <2>1. ASSUME NEW d \in cs, d.document = doc, ~d.again, NEW i \in DOMAIN d.numbers
        PROVE  IF d.answer = "continue" THEN NumberDone(st, d.source, d.numbers[i])
               ELSE NumberNew(st, stored, d.source, d.numbers[i])
    <3>1. CASE d = c
      <4>1. b.answer = "none" /\ d.answer = "end" /\ d.source = b.source /\ d.numbers = b.numbers
            /\ b.document = doc
        BY <1>2, <2>1, <3>1
      <4> QED BY <2>1, <4>1 DEF Base, NumbersNew
    <3>2. CASE d \in bs
      BY <2>1, <3>2 DEF Base, NumbersNew
    <3> QED BY <3>1, <3>2, <1>4
  <2> QED BY <2>1 DEF Base, NumbersNew
<1> QED BY <1>3, <1>6, <1>7, <1>8 DEF Base, c, cs

-----------------------------------------------------------------------------
(* The first layer, when the mutex changes hands                           *)

(* What waits for an answer of the page.                                   *)
Answerable == Confirming \cup {"confirm_follow", "cleaning"}

(* What each holder of the mutex knows.                                    *)
LEMMA SerialIs ==
  ASSUME NEW ser \in SerialType
  PROVE  /\ ser = Idle <=> ser.what = "idle"
         /\ ser.what \in {"idle", "starting", "stopping", "following"} \cup Answerable
         /\ ser.what \in {"starting", "following"} => ser.context \in Nat \ {0}
         /\ ser.what \in {"starting", "stopping"} \cup Confirming => ser.session \in Session
         /\ ser.what \in Answerable <=> "reply" \in DOMAIN ser
         /\ ser.what \in Answerable => ser.source \in Sources /\ ser.reply \in Replies
         /\ Awaiting(ser) <=> "reply" \in DOMAIN ser /\ ser.reply = "none"
<1>1. CASE ser = Idle
  BY <1>1 DEF Idle, Answerable, Confirming, Awaiting
<1>2. CASE ser \in [what : {"starting"}, session : Session, context : Nat \ {0}]
  BY <1>2 DEF Idle, Answerable, Confirming, Awaiting
<1>3. CASE ser \in [what : {"stopping"}, session : Session]
  BY <1>3 DEF Idle, Answerable, Confirming, Awaiting
<1>4. CASE ser \in [what : {"following"}, session : {"none"}, context : Nat \ {0}]
  BY <1>4 DEF Idle, Answerable, Confirming, Awaiting
<1>5. CASE ser \in [what : Confirming, session : Session, source : Sources, reply : Replies]
  BY <1>5 DEF Idle, Answerable, Confirming, Awaiting
<1>6. CASE ser \in [what : {"confirm_follow", "cleaning"}, session : {"none"},
                    source : Sources, reply : Replies]
  BY <1>6 DEF Idle, Answerable, Confirming, Awaiting
<1> QED BY <1>1, <1>2, <1>3, <1>4, <1>5, <1>6 DEF SerialType

(* What waits for an answer gets it, once.                                 *)
Answers(ser, after, reply) ==
  /\ after \in SerialType /\ after.what = ser.what
  /\ IF Awaiting(ser)
       THEN /\ after.session = ser.session /\ after.source = ser.source /\ after.reply = reply
            /\ "reply" \in DOMAIN after /\ ~Awaiting(after)
       ELSE after = ser

(* A reply is an answer.                                                   *)
LEMMA ReplyIs ==
  ASSUME NEW ser \in SerialType, NEW reply \in Replies \ {"none"}, Awaiting(ser)
  PROVE  Answers(ser, [ser EXCEPT !.reply = reply], reply)
<1> DEFINE after == [ser EXCEPT !.reply = reply]
<1>1. ser.what \in Answerable /\ "reply" \in DOMAIN ser
  BY SerialIs DEF Awaiting, Answerable
<1>2. CASE ser \in [what : Confirming, session : Session, source : Sources, reply : Replies]
  <2>1. after \in [what : Confirming, session : Session, source : Sources, reply : Replies]
        /\ after.what = ser.what /\ after.session = ser.session /\ after.source = ser.source
        /\ after.reply = reply /\ "reply" \in DOMAIN after
    BY <1>2
  <2>2. after \in SerialType
    BY <2>1 DEF SerialType
  <2> HIDE DEF after
  <2>3. Answers(ser, after, reply)
    BY <2>1, <2>2 DEF Answers, Awaiting
  <2> QED BY <2>3 DEF after
<1>3. CASE ser \in [what : {"confirm_follow", "cleaning"}, session : {"none"},
                    source : Sources, reply : Replies]
  <2>1. after \in [what : {"confirm_follow", "cleaning"}, session : {"none"},
                    source : Sources, reply : Replies]
        /\ after.what = ser.what /\ after.session = ser.session /\ after.source = ser.source
        /\ after.reply = reply /\ "reply" \in DOMAIN after
    BY <1>3
  <2>2. after \in SerialType
    BY <2>1 DEF SerialType
  <2> HIDE DEF after
  <2>3. Answers(ser, after, reply)
    BY <2>1, <2>2 DEF Answers, Awaiting
  <2> QED BY <2>3 DEF after
<1>4. \/ ser \in [what : Confirming, session : Session, source : Sources, reply : Replies]
      \/ ser \in [what : {"confirm_follow", "cleaning"}, session : {"none"},
                    source : Sources, reply : Replies]
  BY <1>1 DEF SerialType, Idle, Answerable, Confirming
<1> QED BY <1>2, <1>3, <1>4

(* So is that of a step.                                                   *)
LEMMA AnsweringIs ==
  ASSUME serial \in SerialType, NEW reply \in Replies \ {"none"}, Answering(reply)
  PROVE  Answers(serial, serial', reply)
<1>1. Awaiting(serial) <=> "reply" \in DOMAIN serial /\ serial.reply = "none"
  BY SerialIs
<1>2. CASE Awaiting(serial)
  BY <1>1, <1>2, ReplyIs DEF Answering
<1>3. CASE ~Awaiting(serial)
  BY <1>1, <1>3 DEF Answering, Answers
<1> QED BY <1>2, <1>3

(* Who does not wait has no script to wait for.                            *)
LEMMA NoneAwaited ==
  ASSUME NEW st, NEW doc, NEW pg, NEW scr, NEW ser, ScriptsOK(st, doc, pg, scr, ser), ~Awaiting(ser)
  PROVE  /\ \A i \in DOMAIN scr : ~scr[i].awaited
         /\ ~pg.drain
BY DEF ScriptsOK

(* Who has the mutex goes on, and nothing was being waited for.            *)
LEMMA SerialBase ==
  ASSUME NEW st, NEW doc, NEW pg, NEW bs, NEW scr, NEW ser, NEW stored,
         Base(st, doc, pg, bs, scr, ser, stored), ~Awaiting(ser),
         NEW after \in SerialType,
         after.what = "following" => \A id \in Sources : ~Live(st, id),
         Opening(after) => after.context <= doc /\ (scr # <<>> => after.context = doc),
         "reply" \notin DOMAIN after \/ after.reply \in {"none", "failed"} \/ scr = <<>>
  PROVE  Base(st, doc, pg, bs, scr, after, stored)
<1>1. /\ \A i \in DOMAIN scr : ~scr[i].awaited
      /\ ~pg.drain
  BY NoneAwaited DEF Base
<1>2. ScriptsOK(st, doc, pg, scr, after)
  BY <1>1 DEF Base, ScriptsOK
<1> QED BY <1>2 DEF Base, PartsTyped

(* The mutex is given up.                                                  *)
LEMMA LeaveBase ==
  ASSUME NEW st, NEW doc, NEW pg, NEW bs, NEW scr, NEW ser, NEW stored,
         Base(st, doc, pg, bs, scr, ser, stored), ~Awaiting(ser)
  PROVE  Base(st, doc, pg, bs, scr, Idle, stored)
<1>1. Idle \in SerialType /\ Idle.what = "idle" /\ "reply" \notin DOMAIN Idle /\ ~Opening(Idle)
  BY DEF SerialType, Idle, Opening
<1> QED BY <1>1, SerialBase

(* A script is sent, and its answer awaited.                               *)
LEMMA SendBase ==
  ASSUME NEW st, NEW doc, NEW pg, NEW bs, NEW scr, NEW ser, NEW stored,
         Base(st, doc, pg, bs, scr, ser, stored), ~Awaiting(ser),
         NEW after \in SerialType, Awaiting(after),
         NEW m \in Message, m.source <= st.drawn, m.awaited,
         m.what = "configure" =>
            /\ scr = <<>> /\ Context(st, m.source) \in {0, doc}
            /\ Context(st, m.source) = 0 /\ pg.source # 0 => ~Live(st, pg.source)
  PROVE  Base(st, doc, pg, bs, Append(scr, m), after, stored)
<1> DEFINE out == Append(scr, m)
<1>1. /\ \A i \in DOMAIN scr : ~scr[i].awaited
      /\ ~pg.drain
  BY NoneAwaited DEF Base
<1>2. scr \in Seq(Message) /\ Len(scr) \in Nat /\ DOMAIN scr = 1..Len(scr)
  BY DEF Base, PartsTyped, PageTypeOK
<1>3. /\ out \in Seq(Message) /\ Len(out) = Len(scr) + 1 /\ DOMAIN out = 1..Len(out)
      /\ out[Len(out)] = m /\ \A i \in 1..Len(scr) : out[i] = scr[i]
  BY <1>2
<1>4. PartsTyped(doc, pg, bs, out, after, stored)
  BY <1>3 DEF Base, PartsTyped, PageTypeOK
<1>5. ~Opening(after) /\ after.reply = "none"
  BY DEF Awaiting, Opening, Confirming
<1> HIDE DEF out
<1>6. \A i \in DOMAIN out : (i \in DOMAIN scr /\ out[i] = scr[i]) \/ (i = Len(out) /\ out[i] = m)
  BY <1>2, <1>3
<1>7. scr = <<>> => Len(out) = 1
  BY <1>2, <1>3
<1>8. ScriptsOK(st, doc, pg, out, after)
  <2>1. ASSUME NEW i \in DOMAIN out
        PROVE  /\ out[i].source <= st.drawn
               /\ out[i].awaited => i = Len(out) /\ Awaiting(after) /\ ~pg.drain
               /\ out[i].what = "configure" =>
                    /\ i = 1 /\ Context(st, out[i].source) \in {0, doc}
                    /\ Context(st, out[i].source) = 0 /\ pg.source # 0 => ~Live(st, pg.source)
    <3>1. CASE i \in DOMAIN scr /\ out[i] = scr[i]
      BY <1>1, <3>1 DEF Base, ScriptsOK
    <3>2. CASE i = Len(out) /\ out[i] = m
      BY <1>1, <1>7, <3>2
    <3> QED BY <1>6, <3>1, <3>2
  <2>2. after.what # "following"
    BY <1>5 DEF Opening
  <2> QED BY <1>1, <1>5, <2>1, <2>2 DEF ScriptsOK
<1> QED BY <1>4, <1>8 DEF Base, out

(* The page takes the first of its scripts.                                *)
LEMMA PopScripts ==
  ASSUME NEW st, NEW doc, NEW pg, NEW scr, NEW ser, ScriptsOK(st, doc, pg, scr, ser),
         scr \in Seq(Message), scr # <<>>, NEW qg, NEW after,
         after = ser \/ (Head(scr).awaited /\ after.what = ser.what /\ "reply" \in DOMAIN after),
         qg.drain => Head(scr).awaited /\ after = ser
  PROVE  ScriptsOK(st, doc, qg, Tail(scr), after)
<1> DEFINE out == Tail(scr)
<1>1. /\ Len(scr) \in Nat \ {0} /\ DOMAIN scr = 1..Len(scr) /\ Head(scr) = scr[1] /\ 1 \in DOMAIN scr
      /\ out \in Seq(Message) /\ Len(out) = Len(scr) - 1 /\ DOMAIN out = 1..(Len(scr) - 1)
      /\ \A i \in DOMAIN out : out[i] = scr[i + 1]
  <2>1. Len(scr) \in Nat /\ DOMAIN scr = 1..Len(scr) /\ Len(scr) # 0
    BY EmptySeq
  <2>2. Len(out) = Len(scr) - 1 /\ DOMAIN out = 1..(Len(scr) - 1)
      /\ \A i \in 1..(Len(scr) - 1) : out[i] = scr[i + 1]
    BY <2>1, HeadTailProperties
  <2> QED BY <2>1, <2>2, HeadTailProperties
<1>2. ~pg.drain
  BY DEF ScriptsOK
<1>3. Head(scr).awaited => Len(scr) = 1 /\ Awaiting(ser) /\ out = <<>>
  BY <1>1, EmptySeq DEF ScriptsOK
<1> HIDE DEF out
<1>4. ASSUME NEW i \in DOMAIN out
      PROVE  /\ out[i].source <= st.drawn
             /\ out[i].awaited => i = Len(out) /\ Awaiting(after) /\ ~qg.drain
             /\ out[i].what # "configure"
  <2>1. i + 1 \in DOMAIN scr /\ out[i] = scr[i + 1] /\ i + 1 # 1
    BY <1>1, <1>4
  <2>2. out[i].source <= st.drawn /\ out[i].what # "configure"
    BY <2>1 DEF ScriptsOK
  <2>3. ~Head(scr).awaited /\ after = ser
    BY <1>1, <1>3, <1>4
  <2>4. ASSUME out[i].awaited PROVE i = Len(out) /\ Awaiting(after) /\ ~qg.drain
    <3>1. i + 1 = Len(scr) /\ Awaiting(ser)
      BY <2>1, <2>4 DEF ScriptsOK
    <3> QED BY <1>1, <2>3, <3>1
  <2> QED BY <2>2, <2>4
<1>5. after.what = ser.what
  BY <1>3
<1>6. Opening(after) => after = ser
  BY <1>3 DEF Opening, Awaiting, Confirming
<1>7. after.what = "following" => \A id \in Sources : ~Live(st, id)
  BY <1>5 DEF ScriptsOK
<1>8. Opening(after) => after.context <= doc /\ (out # <<>> => after.context = doc)
  BY <1>6 DEF ScriptsOK
<1>9. "reply" \notin DOMAIN after \/ after.reply \in {"none", "failed"} \/ out = <<>>
  BY <1>3 DEF ScriptsOK
<1>10. qg.drain => out = <<>> /\ Awaiting(after)
  BY <1>3
<1> QED BY <1>4, <1>7, <1>8, <1>9, <1>10 DEF ScriptsOK, out

(* A drain is over, or nothing of it changes.                              *)
LEMMA DrainScripts ==
  ASSUME NEW st, NEW doc, NEW pg, NEW scr, NEW ser, ScriptsOK(st, doc, pg, scr, ser),
         NEW qg, NEW after, qg.source = pg.source,
         \/ after = ser /\ (qg.drain => pg.drain)
         \/ pg.drain /\ ~qg.drain /\ after.what = ser.what /\ "reply" \in DOMAIN after
  PROVE  ScriptsOK(st, doc, qg, scr, after)
<1>1. CASE after = ser /\ (qg.drain => pg.drain)
  BY <1>1 DEF ScriptsOK
<1>2. CASE pg.drain /\ ~qg.drain /\ after.what = ser.what
  <2>1. scr = <<>> /\ Awaiting(ser) /\ DOMAIN scr = {}
    BY <1>2 DEF ScriptsOK
  <2>2. ~Opening(after)
    BY <1>2, <2>1 DEF Opening, Awaiting, Confirming
  <2> QED BY <1>2, <2>1, <2>2 DEF ScriptsOK, Opening
<1> QED BY <1>1, <1>2

-----------------------------------------------------------------------------
(* What each step of the page is                                           *)

(* What leaves the queue untold to the host is known to be lost.           *)
Ends(doc, pg, qg, lost, more) ==
  /\ Leaves(pg, qg) /\ lost \subseteq more
  /\ qg.queue = pg.queue \/ \A i \in DOMAIN pg.queue :
                              [document |-> doc, number |-> pg.queue[i].number] \in more
  /\ pg.generation < qg.generation \/ qg.leases = pg.leases

(* A drain goes on, or is answered when there is nothing left.             *)
DrainEnds(pg, qg, ser, after) ==
  \/ after = ser /\ qg.drain = pg.drain
  \/ /\ pg.drain /\ ~qg.drain /\ qg.queue = <<>> /\ ~qg.inFlight
     /\ Answers(ser, after, "drained")

(* What a page becomes, but for its drain.                                 *)
LEMMA BecomesIs ==
  ASSUME serial \in SerialType, NEW p \in PageType, Becomes(p)
  PROVE  /\ page' \in PageType /\ DrainEnds(p, page', serial, serial')
         /\ page'.leases = p.leases /\ page'.source = p.source /\ page'.generation = p.generation
         /\ page'.dropped = p.dropped /\ page'.number = p.number /\ page'.queue = p.queue
         /\ page'.inFlight = p.inFlight
<1>1. CASE p.drain /\ Drained(p)
  <2>1. page' = [p EXCEPT !.drain = FALSE] /\ Answering("drained")
    BY <1>1 DEF Becomes
  <2>2. "drained" \in Replies \ {"none"}
    BY DEF Replies
  <2>3. Answers(serial, serial', "drained")
    BY <2>1, <2>2, AnsweringIs
  <2>4. [p EXCEPT !.drain = FALSE] \in PageType
    BY DEF PageType
  <2>5. /\ page'.leases = p.leases /\ page'.source = p.source /\ page'.generation = p.generation
        /\ page'.dropped = p.dropped /\ page'.number = p.number /\ page'.queue = p.queue
        /\ page'.inFlight = p.inFlight /\ page'.drain = FALSE
    BY <2>1 DEF PageType
  <2> QED BY <1>1, <2>1, <2>3, <2>4, <2>5 DEF DrainEnds, Drained
<1>2. CASE ~(p.drain /\ Drained(p))
  BY <1>2 DEF Becomes, DrainEnds
<1> QED BY <1>1, <1>2

(* A discarded queue is empty.                                             *)
LEMMA DiscardedIs ==
  ASSUME NEW p \in PageType
  PROVE  LET q == Discarded(p)
         IN /\ q \in PageType /\ q.leases = p.leases /\ q.source = p.source
            /\ q.generation = p.generation /\ q.number = p.number /\ q.queue = <<>>
            /\ q.inFlight = p.inFlight /\ q.drain = p.drain
<1>1. p.dropped + Len(p.queue) \in Nat /\ <<>> \in Seq(Item)
  BY DEF PageType
<1> DEFINE n == p.dropped + Len(p.queue)
<1>2. Discarded(p) = [p EXCEPT !.dropped = n, !.queue = <<>>]
  BY DEF Discarded, PageType
<1> HIDE DEF n
<1>3. n \in Nat
  BY <1>1 DEF n
<1> QED BY <1>1, <1>2, <1>3 DEF PageType

(* What is lost is known to be.                                            *)
LEMMA LostIs ==
  ASSUME NEW p, NEW numbers
  PROVE  /\ \A i \in DOMAIN p.queue :
              [document |-> document, number |-> p.queue[i].number] \in Lost(Numbers(p.queue))
         /\ \A n \in numbers : [document |-> document, number |-> n] \in Lost(numbers)
BY DEF Lost, Numbers

(* It has its type.                                                        *)
LEMMA LostTyped ==
  ASSUME document \in Nat, NEW numbers \in SUBSET Nat
  PROVE  Lost(numbers) \subseteq [document : Nat, number : Nat]
BY DEF Lost

(* The numbers of a queue.                                                 *)
LEMMA NumbersTyped ==
  ASSUME NEW p, p \in PageType
  PROVE  Numbers(p.queue) \subseteq Nat
<1>1. \A i \in DOMAIN p.queue : p.queue[i].number \in Nat
  <2>1. p.queue \in Seq(Item)
    BY DEF PageType
  <2>2. \A i \in DOMAIN p.queue : p.queue[i] \in Item
    BY <2>1
  <2> QED BY <2>2 DEF Item
<1> QED BY <1>1 DEF Numbers

(* More is known to be lost, and nothing else of the history changes.      *)
LEMMA LosesIs ==
  ASSUME history \in HistoryType, NEW lost \in SUBSET [document : Nat, number : Nat],
         history' = [history EXCEPT !.lost = @ \cup lost]
  PROVE  /\ history' \in HistoryType /\ history'.lost = history.lost \cup lost
         /\ history'.recorded = history.recorded /\ history'.stored = history.stored
         /\ history'.begun = history.begun
<1> DEFINE more == history.lost \cup lost
<1>1. more \in SUBSET [document : Nat, number : Nat]
  BY DEF HistoryType
<1>2. history' = [history EXCEPT !.lost = more]
  OBVIOUS
<1> HIDE DEF more
<1>3. /\ [history EXCEPT !.lost = more] \in HistoryType
  BY <1>1 DEF HistoryType
<1>4. /\ history'.lost = more
      /\ history'.recorded = history.recorded /\ history'.stored = history.stored
      /\ history'.begun = history.begun
  BY <1>2 DEF HistoryType
<1> QED BY <1>2, <1>3, <1>4 DEF more

(* Of the history only what is lost may change.                            *)
SameHistory == /\ history' \in HistoryType
               /\ history'.recorded = history.recorded /\ history'.stored = history.stored
               /\ history'.begun = history.begun

(* Record: the event has the next number, and is queued or known to be     *)
(* lost.                                                                   *)
LEMMA RecordIs ==
  ASSUME CaptureTypeOK, NEW fits \in BOOLEAN, Record(fits)
  PROVE  LET n == page.number + 1
             event == [document |-> document, number |-> n, source |-> page.source,
                       observers |-> page.leases]
         IN /\ page.leases # {} /\ page.source \in Sources /\ PageTypeOK(page', script)
            /\ Records(page, page') /\ event \in RecordedType
            /\ history' \in HistoryType /\ history'.recorded = history.recorded \cup {event}
            /\ history'.stored = history.stored /\ history'.begun = history.begun
            /\ history.lost \subseteq history'.lost
            /\ \/ page'.queue = Append(page.queue, [number |-> n, source |-> page.source,
                                                    generation |-> page.generation])
               \/ [document |-> document, number |-> n] \in history'.lost
<1> DEFINE n == page.number + 1
           item == [number |-> n, source |-> page.source, generation |-> page.generation]
           event == [document |-> document, number |-> n, source |-> page.source,
                     observers |-> page.leases]
           lost == [document |-> document, number |-> n]
           q == Append(page.queue, item)
           d == page.dropped + 1
           all == history.recorded \cup {event}
           gone == history.lost \cup {lost}
<1>1. /\ page \in PageType /\ page.leases # {} /\ page.source \in Sources
      /\ history \in HistoryType /\ document \in Nat /\ script \in Seq(Message)
  BY DEF CaptureTypeOK, PageTypeOK, Record
<1>2. /\ page.number \in Nat /\ page.generation \in Nat /\ page.dropped \in Nat
      /\ page.queue \in Seq(Item) /\ page.leases \in SUBSET Session
  BY <1>1 DEF PageType
<1>3. n \in Nat /\ d \in Nat
  BY <1>2
<1>4. item \in Item /\ event \in RecordedType /\ lost \in [document : Nat, number : Nat]
  BY <1>1, <1>2, <1>3 DEF Item, RecordedType
<1>5. q \in Seq(Item)
  BY <1>2, <1>4
<1>6. /\ all \in SUBSET RecordedType /\ gone \in SUBSET [document : Nat, number : Nat]
  BY <1>1, <1>4 DEF HistoryType
<1>7. Lost({n}) = {lost}
  BY DEF Lost
<1>8. \/ /\ page' = [page EXCEPT !.number = n, !.queue = q]
         /\ history' = [history EXCEPT !.recorded = all]
      \/ /\ page' = [page EXCEPT !.number = n, !.dropped = d]
         /\ history' = [history EXCEPT !.recorded = all, !.lost = gone]
  BY <1>1, <1>7 DEF Record, PageType, HistoryType
<1>9. history.lost \subseteq gone /\ lost \in gone
  OBVIOUS
<1>10. page.number + 1 = n /\ q = Append(page.queue, item)
  OBVIOUS
<1> HIDE DEF n, item, event, lost, q, d, all, gone
<1>11. CASE /\ page' = [page EXCEPT !.number = n, !.queue = q]
            /\ history' = [history EXCEPT !.recorded = all]
  <2>1. page' \in PageType /\ history' \in HistoryType
    BY <1>1, <1>3, <1>5, <1>6, <1>11 DEF PageType, HistoryType
  <2>2. /\ page'.number = n /\ page'.source = page.source /\ page'.generation = page.generation
        /\ page'.leases = page.leases /\ page'.inFlight = page.inFlight
        /\ page'.drain = page.drain /\ page'.queue = q
    BY <1>1, <1>11 DEF PageType
  <2>3. /\ history'.recorded = all /\ history'.stored = history.stored
        /\ history'.begun = history.begun /\ history'.lost = history.lost
    BY <1>1, <1>11 DEF HistoryType
  <2>4. Records(page, page')
    BY <2>2 DEF Records, n, q, item
  <2>5. PageTypeOK(page', script)
    BY <1>1, <2>1, <2>2 DEF PageTypeOK
  <2> QED BY <1>1, <1>4, <2>1, <2>2, <2>3, <2>4, <2>5 DEF n, q, item, event, all
<1>12. CASE /\ page' = [page EXCEPT !.number = n, !.dropped = d]
            /\ history' = [history EXCEPT !.recorded = all, !.lost = gone]
  <2>1. page' \in PageType /\ history' \in HistoryType
    BY <1>1, <1>3, <1>5, <1>6, <1>12 DEF PageType, HistoryType
  <2>2. /\ page'.number = n /\ page'.source = page.source /\ page'.generation = page.generation
        /\ page'.leases = page.leases /\ page'.inFlight = page.inFlight
        /\ page'.drain = page.drain /\ page'.queue = page.queue
    BY <1>1, <1>12 DEF PageType
  <2>3. /\ history'.recorded = all /\ history'.stored = history.stored
        /\ history'.begun = history.begun /\ history'.lost = gone
    BY <1>1, <1>12 DEF HistoryType
  <2>4. Records(page, page')
    BY <2>2 DEF Records, n, q, item
  <2>5. PageTypeOK(page', script)
    BY <1>1, <2>1, <2>2 DEF PageTypeOK
  <2> QED BY <1>1, <1>4, <1>9, <2>1, <2>2, <2>3, <2>4, <2>5 DEF n, q, item, event, all, lost
<1> QED BY <1>8, <1>11, <1>12

(* Flush: the first events of the queue are sent.                          *)
LEMMA FlushIs ==
  ASSUME CaptureTypeOK, Flush
  PROVE  /\ PageTypeOK(page', script)
         /\ \E b \in BatchType : Sends(document, page, page', b) /\ batches' = batches \cup {b}
<1> DEFINE q == page.queue
           first == Head(q)
           Alike(i) == q[i].source = first.source /\ q[i].generation = first.generation
           S == {n \in DOMAIN q : \A i \in 1..n : Alike(i)}
           count == Max(S)
           b == [document |-> document, source |-> first.source, dropped |-> page.dropped,
                 numbers |-> [i \in 1..count |-> q[i].number],
                 generation |-> first.generation, answer |-> "none", again |-> FALSE]
           r == SubSeq(q, count + 1, Len(q))
<1>1. /\ page \in PageType /\ PageTypeOK(page, script) /\ document \in Nat /\ q # <<>> /\ ~page.inFlight
  BY DEF CaptureTypeOK, PageTypeOK, Flush
<1>2. /\ q \in Seq(Item) /\ Len(q) \in Nat /\ DOMAIN q = 1..Len(q) /\ page.dropped \in Nat
      /\ \A i \in DOMAIN q : q[i] \in Item /\ q[i].number \in Nat /\ q[i].source \in Sources
                             /\ q[i].generation \in Nat
  BY <1>1, QueueTyped DEF PageType
<1>3. 1 \in DOMAIN q /\ first = q[1]
  BY <1>1, <1>2, EmptySeq
<1>4. S \subseteq 0..Len(q) /\ 1 \in S
  BY <1>2, <1>3
<1>5. count \in S
  BY <1>2, <1>4, GreatestIs
<1>6. count \in 1..Len(q) /\ \A i \in 1..count : i \in DOMAIN q /\ Alike(i)
  <2>1. count \in DOMAIN q /\ \A i \in 1..count : Alike(i)
    BY <1>5
  <2> HIDE DEF count, Alike
  <2> QED BY <1>2, <2>1
<1>7. batches' = batches \cup {b} /\ page' = [page EXCEPT !.queue = r, !.inFlight = TRUE]
  BY <1>1 DEF Flush, PageType
<1> HIDE DEF count, r, S
<1>8. [i \in 1..count |-> q[i].number] \in Seq(Nat)
  <2>1. count \in Nat /\ \A i \in 1..count : q[i].number \in Nat
    BY <1>2, <1>6
  <2> QED BY <2>1, SeqDef
<1>9. b \in BatchType
  BY <1>1, <1>2, <1>3, <1>8 DEF BatchType
<1>10. r \in Seq(Item)
  <2>1. count + 1 \in Int /\ Len(q) \in Int /\ \A i \in (count + 1)..Len(q) : q[i] \in Item
    BY <1>2, <1>6
  <2> QED BY <2>1, SubSeqProperties DEF r
<1>11. page' \in PageType
  BY <1>1, <1>7, <1>10 DEF PageType
<1>12. /\ page'.inFlight /\ page'.number = page.number /\ page'.source = page.source
       /\ page'.generation = page.generation /\ page'.leases = page.leases
       /\ page'.drain = page.drain /\ page'.queue = r
  BY <1>1, <1>7 DEF PageType
<1>13. PageTypeOK(page', script)
  BY <1>1, <1>11, <1>12 DEF PageTypeOK
<1>14. /\ b.document = document /\ b.answer = "none" /\ ~b.again
       /\ b.numbers = [i \in 1..count |-> q[i].number]
       /\ \A i \in 1..count : b.source = q[i].source /\ b.generation = q[i].generation
  BY <1>6
<1> HIDE DEF b
<1>15. Sends(document, page, page', b)
  BY <1>1, <1>6, <1>12, <1>14 DEF Sends, r
<1> QED BY <1>7, <1>9, <1>13, <1>15

(* A history that stays.                                                   *)
LEMMA StaysIs ==
  ASSUME history \in HistoryType, history' = history
  PROVE  SameHistory /\ history'.lost = history.lost
BY DEF SameHistory

(* A page whose leases were reduced.                                       *)
LEMMA ExpiredIs ==
  ASSUME NEW p \in PageType, NEW leases \in SUBSET Session
  PROVE  LET q == Expired(p, leases)
         IN /\ q \in PageType /\ q.leases = leases /\ q.source = p.source /\ q.number = p.number
            /\ q.inFlight = p.inFlight /\ q.drain = p.drain
            /\ q.queue = (IF leases = {} THEN <<>> ELSE p.queue)
            /\ q.generation = (IF leases = p.leases THEN p.generation ELSE p.generation + 1)
<1> DEFINE g == IF leases = p.leases THEN p.generation ELSE p.generation + 1
           left == [p EXCEPT !.leases = leases, !.generation = g]
           q == Expired(p, leases)
<1>1. p.generation \in Nat
  BY DEF PageType
<1>2. g \in Nat
  BY <1>1
<1>3. q = IF leases = {} THEN Discarded(left) ELSE left
  BY DEF Expired, PageType
<1> HIDE DEF g
<1>4. /\ left \in PageType /\ left.leases = leases /\ left.source = p.source /\ left.number = p.number
      /\ left.inFlight = p.inFlight /\ left.drain = p.drain /\ left.queue = p.queue
      /\ left.generation = g
  BY <1>2 DEF PageType
<1> HIDE DEF left, q
<1>5. CASE leases = {}
  <2>1. q = Discarded(left)
    BY <1>3, <1>5
  <2>2. /\ q \in PageType /\ q.leases = left.leases /\ q.source = left.source
        /\ q.generation = left.generation /\ q.number = left.number /\ q.queue = <<>>
        /\ q.inFlight = left.inFlight /\ q.drain = left.drain
    BY <1>4, <2>1, DiscardedIs
  <2> QED BY <1>4, <1>5, <2>2 DEF g, q
<1>6. CASE leases # {}
  BY <1>3, <1>4, <1>6 DEF g, q
<1> QED BY <1>5, <1>6

(* With the last lease goes the queue, which is known to be lost.          *)
LEMMA ExpiredEnds ==
  ASSUME CaptureTypeOK, NEW leases \in SUBSET page.leases, Expiring(leases), NEW q,
         q.leases = leases, q.source = page.source, q.number = page.number,
         q.queue = (IF leases = {} THEN <<>> ELSE page.queue),
         q.generation = (IF leases = page.leases THEN page.generation ELSE page.generation + 1)
  PROVE  Ends(document, page, q, history.lost, history'.lost) /\ SameHistory
<1>1. /\ page \in PageType /\ history \in HistoryType /\ document \in Nat /\ page.generation \in Nat
  BY DEF CaptureTypeOK, PageTypeOK, PageType
<1>2. Leaves(page, q) /\ (page.generation < q.generation \/ q.leases = page.leases)
  BY <1>1 DEF Leaves
<1>3. CASE leases = {}
  <2> DEFINE lost == Lost(Numbers(page.queue))
  <2>1. lost \in SUBSET [document : Nat, number : Nat]
    BY <1>1, NumbersTyped, LostTyped
  <2>2. history' = [history EXCEPT !.lost = @ \cup lost]
    BY <1>3 DEF Expiring
  <2>3. \A i \in DOMAIN page.queue : [document |-> document, number |-> page.queue[i].number] \in lost
    BY LostIs
  <2> HIDE DEF lost
  <2>4. SameHistory /\ history'.lost = history.lost \cup lost
    BY <1>1, <2>1, <2>2, LosesIs DEF SameHistory
  <2> QED BY <1>2, <2>3, <2>4 DEF Ends
<1>4. CASE leases # {}
  <2>1. SameHistory /\ history'.lost = history.lost
    BY <1>1, <1>4, StaysIs DEF Expiring
  <2> QED BY <1>2, <1>4, <2>1 DEF Ends
<1> QED BY <1>3, <1>4

(* LeaseEnds: a late session loses its lease.                              *)
LEMMA LeaseEndsIs ==
  ASSUME CaptureTypeOK, NEW s \in Session, LeaseEnds(s)
  PROVE  /\ s \in Retained(store) => store.session[s].late
         /\ page'.leases = page.leases \ {s}
         /\ PageTypeOK(page', script) /\ page'.inFlight = page.inFlight
         /\ Ends(document, page, page', history.lost, history'.lost) /\ SameHistory
         /\ DrainEnds(page, page', serial, serial')
<1> DEFINE leases == page.leases \ {s}
           q == Expired(page, leases)
<1>1. /\ page \in PageType /\ PageTypeOK(page, script) /\ serial \in SerialType
      /\ page.leases \in SUBSET Session /\ leases \in SUBSET Session /\ leases \in SUBSET page.leases
  BY DEF CaptureTypeOK, PageTypeOK, PageType
<1>2. Becomes(q) /\ Expiring(leases) /\ (s \in Retained(store) => store.session[s].late)
  BY DEF LeaseEnds
<1> HIDE DEF leases
<1>3. /\ q \in PageType /\ q.leases = leases /\ q.source = page.source /\ q.number = page.number
      /\ q.inFlight = page.inFlight /\ q.drain = page.drain
      /\ q.queue = (IF leases = {} THEN <<>> ELSE page.queue)
      /\ q.generation = (IF leases = page.leases THEN page.generation ELSE page.generation + 1)
  BY <1>1, ExpiredIs
<1> HIDE DEF q
<1>4. /\ page' \in PageType /\ DrainEnds(q, page', serial, serial')
      /\ page'.leases = q.leases /\ page'.source = q.source /\ page'.generation = q.generation
      /\ page'.number = q.number /\ page'.queue = q.queue /\ page'.inFlight = q.inFlight
  BY <1>1, <1>2, <1>3, BecomesIs
<1>5. Ends(document, page, page', history.lost, history'.lost) /\ SameHistory
  BY <1>1, <1>2, <1>3, <1>4, ExpiredEnds
<1>6. DrainEnds(page, page', serial, serial')
  BY <1>3, <1>4 DEF DrainEnds
<1>7. PageTypeOK(page', script)
  BY <1>1, <1>3, <1>4 DEF PageTypeOK
<1> QED BY <1>2, <1>3, <1>4, <1>5, <1>6, <1>7 DEF leases

(* ExpireLeases: the leases that the host does not name end.               *)
LEMMA ExpireLeasesIs ==
  ASSUME CaptureTypeOK, ~page.drain \/ script = <<>>, ExpireLeases
  PROVE  LET m == Head(script)
         IN /\ script # <<>> /\ m.what = "expire" /\ script' = Tail(script)
            /\ page'.leases = (IF m.source = page.source THEN page.leases \cap m.leases
                                                         ELSE page.leases)
            /\ PageTypeOK(page', script) /\ page'.inFlight = page.inFlight
            /\ Ends(document, page, page', history.lost, history'.lost) /\ SameHistory
            /\ ~page'.drain
            /\ IF m.awaited THEN Answers(serial, serial', "ok") ELSE serial' = serial
<1> DEFINE m == Head(script)
           leases == page.leases \cap m.leases
           q == Expired(page, leases)
<1>1. /\ page \in PageType /\ PageTypeOK(page, script) /\ serial \in SerialType
      /\ page.leases \in SUBSET Session /\ leases \in SUBSET Session /\ leases \in SUBSET page.leases
      /\ history \in HistoryType /\ page.generation \in Nat
  BY DEF CaptureTypeOK, PageTypeOK, PageType
<1>2. /\ script # <<>> /\ m.what = "expire" /\ script' = Tail(script) /\ ~page.drain
      /\ IF m.awaited THEN Answering("ok") ELSE serial' = serial
  BY DEF ExpireLeases
<1>3. IF m.awaited THEN Answers(serial, serial', "ok") ELSE serial' = serial
  <2>1. "ok" \in Replies \ {"none"}
    BY DEF Replies
  <2> QED BY <1>1, <1>2, <2>1, AnsweringIs
<1>4. CASE m.source = page.source
  <2>1. Expiring(leases) /\ page' = (IF q.drain /\ Drained(q) THEN [q EXCEPT !.drain = FALSE] ELSE q)
    BY <1>4, Zenon DEF ExpireLeases
  <2> HIDE DEF leases, m
  <2>2. /\ q \in PageType /\ q.leases = leases /\ q.source = page.source /\ q.number = page.number
        /\ q.inFlight = page.inFlight /\ q.drain = page.drain
        /\ q.queue = (IF leases = {} THEN <<>> ELSE page.queue)
        /\ q.generation = (IF leases = page.leases THEN page.generation ELSE page.generation + 1)
    BY <1>1, ExpiredIs
  <2> HIDE DEF q
  <2>3. page' = q
    BY <1>2, <2>1, <2>2
  <2>4. Ends(document, page, page', history.lost, history'.lost) /\ SameHistory
    BY <1>1, <2>1, <2>2, <2>3, ExpiredEnds
  <2>5. PageTypeOK(page', script)
    BY <1>1, <2>2, <2>3 DEF PageTypeOK
  <2> QED BY <1>2, <1>3, <1>4, <2>2, <2>3, <2>4, <2>5 DEF leases, m
<1>5. CASE m.source # page.source
  <2>1. page' = page /\ history' = history
    BY <1>2, <1>5 DEF ExpireLeases
  <2>2. SameHistory /\ history'.lost = history.lost
    BY <1>1, <2>1, StaysIs
  <2>3. Ends(document, page, page', history.lost, history'.lost)
    BY <1>1, <2>1, <2>2 DEF Ends, Leaves
  <2> QED BY <1>1, <1>2, <1>3, <1>5, <2>1, <2>2, <2>3
<1> QED BY <1>4, <1>5

(* AckBatch: the flight is over, and all leases may end with it.           *)
LEMMA AckBatchIs ==
  ASSUME CaptureTypeOK, NEW b, AckBatch(b)
  PROVE  /\ b \in batches /\ b.answer # "none" /\ b.document = document /\ batches' = batches \ {b}
         /\ page'.leases = page.leases \/ (EndsLease(b) /\ page'.leases = {})
         /\ PageTypeOK(page', script) /\ ~page'.inFlight
         /\ Ends(document, page, page', history.lost, history'.lost) /\ SameHistory
         /\ DrainEnds(page, page', serial, serial')
<1> DEFINE landed == [page EXCEPT !.inFlight = FALSE]
           g == page.generation + 1
           off == [landed EXCEPT !.leases = {}, !.generation = g]
           q == Discarded(off)
<1>1. /\ page \in PageType /\ PageTypeOK(page, script) /\ serial \in SerialType /\ document \in Nat
      /\ history \in HistoryType /\ page.generation \in Nat
  BY DEF CaptureTypeOK, PageTypeOK, PageType
<1>2. /\ b \in batches /\ b.answer # "none" /\ b.document = document /\ batches' = batches \ {b}
  BY DEF AckBatch
<1>3. /\ landed \in PageType /\ landed.leases = page.leases /\ landed.source = page.source
      /\ landed.number = page.number /\ landed.generation = page.generation
      /\ landed.queue = page.queue /\ ~landed.inFlight /\ landed.drain = page.drain
  BY <1>1 DEF PageType
<1>4. CASE EndsLease(b)
  <2>1. g \in Nat
    BY <1>1
  <2>2. /\ Becomes(q)
        /\ history' = [history EXCEPT !.lost = @ \cup Lost(Numbers(page.queue))]
    <3>1. [landed EXCEPT !.leases = {}, !.generation = @ + 1] = off
      BY <1>3 DEF PageType
    <3> QED BY <1>4, <3>1 DEF AckBatch
  <2> HIDE DEF landed, g
  <2>3. /\ off \in PageType /\ off.leases = {} /\ off.source = page.source
        /\ off.number = page.number /\ off.generation = g
        /\ off.queue = page.queue /\ ~off.inFlight /\ off.drain = page.drain
    BY <1>3, <2>1 DEF PageType
  <2> HIDE DEF off
  <2>4. /\ q \in PageType /\ q.leases = {} /\ q.source = page.source
        /\ q.generation = g /\ q.number = page.number /\ q.queue = <<>>
        /\ ~q.inFlight /\ q.drain = page.drain
    BY <2>3, DiscardedIs
  <2> HIDE DEF q
  <2>5. /\ page' \in PageType /\ DrainEnds(q, page', serial, serial')
        /\ page'.leases = q.leases /\ page'.source = q.source /\ page'.generation = q.generation
        /\ page'.number = q.number /\ page'.queue = q.queue /\ page'.inFlight = q.inFlight
    BY <1>1, <2>2, <2>4, BecomesIs
  <2> DEFINE lost == Lost(Numbers(page.queue))
  <2>6. /\ lost \in SUBSET [document : Nat, number : Nat]
        /\ \A i \in DOMAIN page.queue : [document |-> document, number |-> page.queue[i].number] \in lost
    BY <1>1, NumbersTyped, LostTyped, LostIs
  <2>13. history' = [history EXCEPT !.lost = @ \cup lost]
    BY <2>2
  <2> HIDE DEF lost
  <2>7. SameHistory /\ history'.lost = history.lost \cup lost
    BY <1>1, <2>6, <2>13, LosesIs DEF SameHistory
  <2>8. page.generation < page'.generation
    BY <1>1, <2>4, <2>5 DEF g
  <2>12. Leaves(page, page')
    <3>1. page.generation <= page'.generation
      BY <1>1, <2>4, <2>5 DEF g
    <3> QED BY <2>4, <2>5, <3>1 DEF Leaves
  <2>14. /\ history.lost \subseteq history'.lost
         /\ \A i \in DOMAIN page.queue :
              [document |-> document, number |-> page.queue[i].number] \in history'.lost
    BY <2>6, <2>7
  <2>9. Ends(document, page, page', history.lost, history'.lost)
    BY <2>8, <2>12, <2>14 DEF Ends
  <2>10. DrainEnds(page, page', serial, serial')
    BY <2>4, <2>5 DEF DrainEnds
  <2>11. PageTypeOK(page', script)
    BY <1>1, <2>4, <2>5 DEF PageTypeOK
  <2> QED BY <1>2, <1>4, <2>4, <2>5, <2>7, <2>9, <2>10, <2>11
<1>5. CASE ~EndsLease(b)
  <2>1. Becomes(landed) /\ history' = history
    BY <1>5 DEF AckBatch
  <2> HIDE DEF landed
  <2>2. /\ page' \in PageType /\ DrainEnds(landed, page', serial, serial')
        /\ page'.leases = landed.leases /\ page'.source = landed.source
        /\ page'.generation = landed.generation
        /\ page'.number = landed.number /\ page'.queue = landed.queue
        /\ page'.inFlight = landed.inFlight
    BY <1>1, <1>3, <2>1, BecomesIs
  <2>3. SameHistory /\ history'.lost = history.lost
    BY <1>1, <2>1, StaysIs
  <2>4. Ends(document, page, page', history.lost, history'.lost)
    BY <1>1, <1>3, <2>2, <2>3 DEF Ends, Leaves
  <2>5. DrainEnds(page, page', serial, serial')
    BY <1>3, <2>2 DEF DrainEnds
  <2>6. PageTypeOK(page', script)
    BY <1>1, <1>3, <2>2 DEF PageTypeOK
  <2> QED BY <1>2, <1>3, <2>2, <2>3, <2>4, <2>5, <2>6
<1> QED BY <1>4, <1>5

(* BatchRejected: what the batch had is known to be lost.                  *)
LEMMA BatchRejectedIs ==
  ASSUME CaptureTypeOK, NEW b, BatchRejected(b)
  PROVE  /\ b \in batches /\ b.answer = "none" /\ b.document = document /\ batches' = batches \ {b}
         /\ page'.leases = page.leases /\ page'.queue = page.queue
         /\ PageTypeOK(page', script) /\ ~page'.inFlight
         /\ Ends(document, page, page', history.lost, history'.lost) /\ SameHistory
         /\ \A i \in DOMAIN b.numbers :
              [document |-> document, number |-> b.numbers[i]] \in history'.lost
         /\ DrainEnds(page, page', serial, serial')
<1> DEFINE d == page.dropped + Len(b.numbers)
           q == [page EXCEPT !.inFlight = FALSE, !.dropped = d]
           lost == Lost(ToSet(b.numbers))
<1>1. /\ page \in PageType /\ PageTypeOK(page, script) /\ serial \in SerialType /\ document \in Nat
      /\ history \in HistoryType /\ page.generation \in Nat
      /\ b \in batches /\ b.answer = "none" /\ b.document = document /\ batches' = batches \ {b}
  BY DEF CaptureTypeOK, PageTypeOK, PageType, BatchRejected
<1>2. b.numbers \in Seq(Nat) /\ page.dropped \in Nat
  BY <1>1 DEF CaptureTypeOK, BatchType, PageType
<1>3. d \in Nat
  BY <1>2
<1>4. Becomes(q) /\ history' = [history EXCEPT !.lost = @ \cup lost]
  <2>1. [page EXCEPT !.inFlight = FALSE, !.dropped = @ + Len(b.numbers)] = q
    BY <1>1 DEF PageType
  <2> QED BY <2>1 DEF BatchRejected
<1>5. ToSet(b.numbers) \in SUBSET Nat /\ \A i \in DOMAIN b.numbers : b.numbers[i] \in ToSet(b.numbers)
  <2>1. \A i \in DOMAIN b.numbers : b.numbers[i] \in Nat
    BY <1>2
  <2> QED BY <2>1, ToSetIs
<1>6. lost \in SUBSET [document : Nat, number : Nat]
      /\ \A i \in DOMAIN b.numbers : [document |-> document, number |-> b.numbers[i]] \in lost
  BY <1>1, <1>5, LostTyped, LostIs
<1> HIDE DEF d, lost
<1>7. /\ q \in PageType /\ q.leases = page.leases /\ q.source = page.source
      /\ q.number = page.number /\ q.generation = page.generation
      /\ q.queue = page.queue /\ ~q.inFlight /\ q.drain = page.drain
  BY <1>1, <1>3 DEF PageType
<1> HIDE DEF q
<1>8. /\ page' \in PageType /\ DrainEnds(q, page', serial, serial')
      /\ page'.leases = q.leases /\ page'.source = q.source
      /\ page'.generation = q.generation
      /\ page'.number = q.number /\ page'.queue = q.queue
      /\ page'.inFlight = q.inFlight
  BY <1>1, <1>4, <1>7, BecomesIs
<1>9. SameHistory /\ history'.lost = history.lost \cup lost
  BY <1>1, <1>4, <1>6, LosesIs DEF SameHistory
<1>10. Ends(document, page, page', history.lost, history'.lost)
  BY <1>1, <1>7, <1>8, <1>9 DEF Ends, Leaves
<1>11. DrainEnds(page, page', serial, serial')
  BY <1>7, <1>8 DEF DrainEnds
<1>12. PageTypeOK(page', script)
  BY <1>1, <1>7, <1>8 DEF PageTypeOK
<1> QED BY <1>1, <1>6, <1>7, <1>8, <1>9, <1>10, <1>11, <1>12

(* Configure: the page has the leases of the script, and answers, or       *)
(* drains first.                                                           *)
LEMMA ConfigureIs ==
  ASSUME CaptureTypeOK, ~page.drain \/ script = <<>>, NEW tried \in {"ok", "failed"}, Configure(tried)
  PROVE  LET m == Head(script)
             empty == page.queue = <<>> /\ ~page.inFlight
         IN /\ script # <<>> /\ m.what = "configure" /\ script' = Tail(script)
            /\ PageTypeOK(page', script) /\ Reconfigures(page, page', m)
            /\ \/ ~m.awaited /\ serial' = serial /\ ~page'.drain
               \/ m.awaited /\ m.drain /\ ~empty /\ serial' = serial /\ page'.drain
               \/ m.awaited /\ m.drain /\ empty /\ Answers(serial, serial', "drained") /\ ~page'.drain
               \/ m.awaited /\ ~m.drain /\ Answers(serial, serial', tried) /\ ~page'.drain
<1> DEFINE m == Head(script)
           g == page.generation + 1
           q == [page EXCEPT !.leases = m.leases, !.source = m.source, !.generation = g]
           r == [q EXCEPT !.drain = TRUE]
           empty == page.queue = <<>> /\ ~page.inFlight
<1>1. /\ page \in PageType /\ PageTypeOK(page, script) /\ serial \in SerialType
      /\ script \in Seq(Message) /\ page.generation \in Nat
  BY DEF CaptureTypeOK, PageTypeOK, PageType
<1>2. /\ script # <<>> /\ m.what = "configure" /\ script' = Tail(script) /\ ~page.drain
  BY DEF Configure
<1>3. m \in Message /\ m.leases \in SUBSET Session /\ m.source \in Sources /\ m.drain \in BOOLEAN
      /\ m.awaited \in BOOLEAN
  <2>1. m \in Message
    BY <1>1, <1>2, HeadTailProperties
  <2> QED BY <2>1 DEF Message
<1>4. g \in Nat
  BY <1>1
<1>5. \/ ~m.awaited /\ page' = q /\ serial' = serial
      \/ m.awaited /\ m.drain /\ empty /\ page' = q /\ Answering("drained")
      \/ m.awaited /\ m.drain /\ ~empty /\ page' = r /\ serial' = serial
      \/ m.awaited /\ ~m.drain /\ page' = q /\ Answering(tried)
  <2>1. [page EXCEPT !.leases = m.leases, !.source = m.source, !.generation = @ + 1] = q
    BY <1>1 DEF PageType
  <2> QED BY <2>1 DEF Configure, Drained
<1> HIDE DEF m, g, empty
<1>6. /\ q \in PageType /\ q.leases = m.leases /\ q.source = m.source
      /\ q.number = page.number /\ q.generation = g
      /\ q.queue = page.queue /\ q.inFlight = page.inFlight /\ q.drain = page.drain
  BY <1>1, <1>3, <1>4 DEF PageType
<1> HIDE DEF q
<1>7. /\ r \in PageType /\ r.leases = m.leases /\ r.source = m.source
      /\ r.number = page.number /\ r.generation = g
      /\ r.queue = page.queue /\ r.inFlight = page.inFlight /\ r.drain
  BY <1>6 DEF PageType
<1> HIDE DEF r
<1>8. page' \in {q, r}
  BY <1>5
<1>9. PageTypeOK(page', script) /\ Reconfigures(page, page', m)
  BY <1>1, <1>3, <1>6, <1>7, <1>8 DEF PageTypeOK, Reconfigures, g
<1>10. "drained" \in Replies \ {"none"} /\ tried \in Replies \ {"none"}
  BY DEF Replies
<1>11. \/ ~m.awaited /\ serial' = serial /\ ~page'.drain
       \/ m.awaited /\ m.drain /\ ~empty /\ serial' = serial /\ page'.drain
       \/ m.awaited /\ m.drain /\ empty /\ Answers(serial, serial', "drained") /\ ~page'.drain
       \/ m.awaited /\ ~m.drain /\ Answers(serial, serial', tried) /\ ~page'.drain
  BY <1>1, <1>2, <1>5, <1>6, <1>7, <1>10, AnsweringIs
<1> QED BY <1>2, <1>9, <1>11 DEF m, empty

(* A drain, or the wait for an answer, is given up.                        *)
LEMMA TimesOutIs ==
  ASSUME CaptureTypeOK, DrainTimesOut \/ ApplyTimesOut
  PROVE  /\ PageTypeOK(page', script) /\ page'.inFlight = page.inFlight /\ ~page'.drain
         /\ page'.leases = page.leases /\ page'.queue = page.queue /\ page'.source = page.source
         /\ page'.number = page.number /\ page'.generation = page.generation
         /\ \E reply \in {"undrained", "failed"} : Answers(serial, serial', reply)
<1>1. /\ page \in PageType /\ PageTypeOK(page, script) /\ serial \in SerialType
  BY DEF CaptureTypeOK, PageTypeOK
<1>2. page' = [page EXCEPT !.drain = FALSE]
  BY DEF DrainTimesOut, ApplyTimesOut
<1>3. /\ page' \in PageType /\ page'.inFlight = page.inFlight /\ ~page'.drain
         /\ page'.leases = page.leases /\ page'.queue = page.queue /\ page'.source = page.source
         /\ page'.number = page.number /\ page'.generation = page.generation
  BY <1>1, <1>2 DEF PageType
<1>4. "undrained" \in Replies \ {"none"} /\ "failed" \in Replies \ {"none"}
  BY DEF Replies
<1>5. CASE DrainTimesOut
  <2>1. Answers(serial, serial', "undrained")
    BY <1>1, <1>4, <1>5, AnsweringIs DEF DrainTimesOut
  <2> QED BY <1>1, <1>3, <2>1 DEF PageTypeOK
<1>6. CASE ApplyTimesOut
  <2>1. Awaiting(serial) /\ serial' = [serial EXCEPT !.reply = "failed"]
    BY <1>1, <1>6, SerialIs DEF ApplyTimesOut
  <2>2. Answers(serial, serial', "failed")
    BY <1>1, <1>4, <2>1, ReplyIs
  <2> QED BY <1>1, <1>3, <2>2 DEF PageTypeOK
<1> QED BY <1>5, <1>6

-----------------------------------------------------------------------------
(* What each step of the host is                                           *)

(* The first layer of the invariant.                                       *)
BaseInv == Base(store, document, page, batches, script, serial, history.stored)

(* The configuration is sent and its answer awaited, or it has failed.     *)
Applied(then, config, context) ==
  /\ serial' \in SerialType /\ serial'.what = then /\ serial'.session = serial.session
  /\ "reply" \in DOMAIN serial' /\ ~Opening(serial')
  /\ \/ /\ Awaiting(serial') /\ script = <<>> /\ context = document
        /\ script' = Append(script, config)
     \/ ~Awaiting(serial') /\ serial'.reply = "failed" /\ script' = script

(* The mutex is free and nothing is sent.                                  *)
Left == serial' = Idle /\ script' = script

(* A configuration names those that its source serves.                     *)
LEMMA ConfigIs ==
  ASSUME NEW st, NEW source \in Sources, NEW excluded, NEW drain \in BOOLEAN
  PROVE  LET m == Config(st, source, excluded, drain)
         IN /\ m \in Message /\ m.what = "configure" /\ m.source = source /\ m.awaited
            /\ m.drain = drain /\ m.leases = Serving(st, source) \ excluded
<1>1. Serving(st, source) \ excluded \in SUBSET Session
  BY DEF Serving
<1> DEFINE leases == Serving(st, source) \ excluded
<1> HIDE DEF leases
<1>2. Config(st, source, excluded, drain)
        = [what |-> "configure", source |-> source, leases |-> leases, drain |-> drain, awaited |-> TRUE]
  BY DEF Config, leases
<1> QED BY <1>1, <1>2 DEF Message, leases

(* apply_source_config sends it, or fails.                                 *)
LEMMA ApplyIs ==
  ASSUME serial \in SerialType, NEW then, NEW config \in Message, NEW context,
         \/ then \in Confirming /\ serial.session \in Session
         \/ then = "confirm_follow" /\ serial.session = "none",
         Apply(then, config, context)
  PROVE  Applied(then, config, context)
<1> DEFINE reply == IF MaySend(config, context) THEN "none" ELSE "failed"
           after == [what |-> then, session |-> serial.session, source |-> config.source,
                     reply |-> reply]
<1>1. serial' = after
  BY DEF Apply, Hold
<1>2. reply \in Replies /\ config.source \in Sources
  BY DEF Replies, Message
<1>3. MaySend(config, context) => reply = "none" /\ script = <<>> /\ context = document
                                  /\ script' = Append(script, config)
  BY DEF Apply, MaySend
<1>4. ~MaySend(config, context) => reply = "failed" /\ script' = script
  BY DEF Apply
<1> HIDE DEF reply
<1>5. after \in SerialType
  BY <1>2 DEF SerialType
<1>6. after.what = then /\ after.session = serial.session /\ "reply" \in DOMAIN after
      /\ after.reply = reply /\ then # "idle"
  BY DEF Confirming
<1>7. ~Opening(serial') /\ serial' # Idle
  BY <1>1, <1>6 DEF Opening, Confirming, Idle
<1>8. Awaiting(serial') <=> reply = "none"
  BY <1>1, <1>6, <1>7 DEF Awaiting
<1> HIDE DEF after
<1> QED BY <1>1, <1>3, <1>4, <1>5, <1>6, <1>7, <1>8 DEF Applied

(* In the invariant: it is of this document, or nothing is live.           *)
LEMMA AppliedBase ==
  ASSUME NEW st, NEW stored, NEW ser,
         Base(st, document, page, batches, script, ser, stored), ~Awaiting(ser),
         NEW then, NEW config \in Message, config.awaited, config.what = "configure",
         config.source <= st.drawn, NEW context, Applied(then, config, context),
         context = document => /\ Context(st, config.source) \in {0, document}
                               /\ Context(st, config.source) = 0 /\ page.source # 0
                                    => ~Live(st, page.source)
  PROVE  Base(st, document, page, batches, script', serial', stored)
<1>1. CASE /\ Awaiting(serial') /\ script = <<>> /\ context = document
           /\ script' = Append(script, config)
  BY <1>1, SendBase DEF Applied
<1>2. CASE ~Awaiting(serial') /\ serial'.reply = "failed" /\ script' = script
  <2>1. serial'.what # "following"
    BY DEF Applied, Opening
  <2>2. Base(st, document, page, batches, script, serial', stored)
    BY <1>2, <2>1, SerialBase DEF Applied
  <2> QED BY <1>2, <2>2
<1> QED BY <1>1, <1>2 DEF Applied

(* What the operations need of the invariant.                              *)
LEMMA BaseStoreOK ==
  ASSUME BaseInv
  PROVE  StoreOK(store) /\ serial \in SerialType /\ store.drawn \in Nat /\ document \in Nat \ {0}
         /\ script \in Seq(Message)
BY DEF BaseInv, Base, PartsTyped, StoreOK, StoreType, PageTypeOK

(* Who has a reply waits no more.                                          *)
LEMMA RepliedIs ==
  ASSUME serial \in SerialType, serial.what \in Answerable, Replied
  PROVE  ~Awaiting(serial) /\ (serial.what \in Confirming => serial.session \in Session)
         /\ serial.source \in Sources
<1>1. serial.reply # "none"
  BY DEF Replied
<1> QED BY <1>1, SerialIs DEF Answerable

(* More sessions may end.                                                  *)
LEMMA AgesWider ==
  ASSUME NEW st, NEW t, NEW S, NEW T, S \subseteq T, Ages(st, t, S)
  PROVE  Ages(st, t, T)
BY DEF Ages, Goes

(* Both may end the same.                                                  *)
LEMMA AgesThen ==
  ASSUME NEW a, NEW b, NEW c, StoreOK(a), StoreOK(b), StoreOK(c), NEW S, Ages(a, b, S), Ages(b, c, S)
  PROVE  Ages(a, c, S)
<1>1. a \in StoreType /\ b \in StoreType /\ c \in StoreType
  BY DEF StoreOK
<1>2. S \subseteq S
  OBVIOUS
<1> QED BY <1>1, <1>2, AgesTransitive

(* BeginSession: sweep, source, session, configuration.                    *)
LEMMA BeginSessionIs ==
  ASSUME BaseInv, BeginSession
  PROVE  /\ serial.session \in Session /\ serial.context \in Nat \ {0}
         /\ serial.what = "starting" /\ ~Awaiting(serial)
         /\ \/ store' = store /\ Left
            \/ \E swept, mid, id :
                 /\ StoreOK(swept) /\ Ages(store, swept, {})
                 /\ StoreOK(mid) /\ Draws(swept, mid, id, serial.context)
                 /\ \/ store' = mid /\ Left
                    \/ /\ StoreOK(store') /\ Starts(mid, store', serial.session, id)
                       /\ Config(store', id, {}, FALSE) \in Message
                       /\ Applied("confirm_start", Config(store', id, {}, FALSE), serial.context)
<1>1. StoreOK(store) /\ serial \in SerialType /\ serial.what = "starting"
  BY BaseStoreOK DEF BeginSession
<1>2. serial.session \in Session /\ serial.context \in Nat \ {0} /\ ~Awaiting(serial)
  BY <1>1, SerialIs DEF Awaiting, Confirming
<1>3. CASE ~permitted
  BY <1>1, <1>2, <1>3 DEF BeginSession, Left, Leave
<1>4. CASE permitted
  <2> DEFINE swept == Swept(store)  mid == WithSource(swept, serial.context)
             id == SourceFor(swept, serial.context)  st == StartAt(mid, serial.session, id)
             config == Config(st, id, {}, FALSE)
  <2>1. /\ id \in Sources
        /\ \/ store' = st /\ Apply("confirm_start", config, serial.context)
           \/ store' = mid /\ Leave /\ UNCHANGED script
    BY <1>4 DEF BeginSession
  <2>2. StoreOK(swept) /\ Ages(store, swept, {})
    BY <1>1, SweptAges
  <2> HIDE DEF swept
  <2>3. StoreOK(mid) /\ Draws(swept, mid, id, serial.context)
    BY <1>2, <2>1, <2>2, SourceDraws
  <2> HIDE DEF mid, id
  <2>4. Live(mid, id)
    BY <2>3 DEF Draws
  <2>5. StoreOK(st) /\ Starts(mid, st, serial.session, id)
    BY <1>2, <2>1, <2>3, <2>4, StartAtStarts
  <2>6. config \in Message
    BY <2>1, ConfigIs
  <2> HIDE DEF st
  <2>7. CASE store' = st /\ Apply("confirm_start", config, serial.context)
    <3>1. Applied("confirm_start", config, serial.context)
      BY <1>1, <1>2, <2>6, <2>7, ApplyIs DEF Confirming
    <3> QED BY <1>1, <1>2, <2>2, <2>3, <2>5, <2>6, <2>7, <3>1
  <2>8. CASE store' = mid /\ Leave /\ UNCHANGED script
    BY <1>1, <1>2, <2>2, <2>3, <2>8 DEF Left, Leave
  <2> QED BY <2>1, <2>7, <2>8
<1> QED BY <1>3, <1>4

(* Follow: a new source, given to those who capture, and configured if     *)
(* there are any.                                                          *)
LEMMA FollowIs ==
  ASSUME BaseInv, Follow
  PROVE  /\ serial.context \in Nat \ {0} /\ serial.what = "following" /\ ~Awaiting(serial)
         /\ \E mid, id :
              /\ StoreOK(mid) /\ Draws(store, mid, id, serial.context)
              /\ DrawsNew(store, mid, id, serial.context)
              /\ StoreOK(store') /\ Follows(mid, store', id)
              /\ \/ Left /\ Serving(store', id) = {}
                 \/ /\ Config(store', id, {}, FALSE) \in Message
                    /\ Applied("confirm_follow", Config(store', id, {}, FALSE), serial.context)
<1>1. StoreOK(store) /\ serial \in SerialType /\ serial.what = "following"
  BY BaseStoreOK DEF Follow
<1>2. serial.context \in Nat \ {0} /\ ~Awaiting(serial)
  BY <1>1, SerialIs DEF Awaiting, Confirming
<1>3. serial.session = "none"
  BY <1>1 DEF SerialType, Idle, Confirming
<1> DEFINE id == SourceFor(store, serial.context)  mid == WithSource(store, serial.context)
           st == FollowSource(mid, id)  config == Config(st, id, {}, FALSE)
<1>4. /\ id \in Sources /\ store' = st
      /\ IF Serving(st, id) # {} THEN Apply("confirm_follow", config, serial.context)
         ELSE Leave /\ UNCHANGED script
  BY DEF Follow
<1>5. StoreOK(mid) /\ Draws(store, mid, id, serial.context)
  BY <1>1, <1>2, <1>4, SourceDraws
<1> HIDE DEF mid, id
<1>6. Live(mid, id) /\ \A jd \in Sources : ~Live(store, jd)
  BY <1>1, <1>5 DEF Draws, BaseInv, Base, ScriptsOK
<1>7. DrawsNew(store, mid, id, serial.context)
  BY <1>4, <1>5, <1>6 DEF Draws
<1>8. StoreOK(st) /\ Follows(mid, st, id)
  BY <1>4, <1>5, <1>6, FollowFollows
<1>9. config \in Message
  BY <1>4, ConfigIs
<1> HIDE DEF st
<1>10. CASE Serving(st, id) # {}
  <2>1. Applied("confirm_follow", config, serial.context)
    BY <1>1, <1>3, <1>4, <1>9, <1>10, ApplyIs
  <2> QED BY <1>1, <1>2, <1>4, <1>5, <1>7, <1>8, <1>9, <2>1
<1>11. CASE Serving(st, id) = {}
  BY <1>1, <1>2, <1>4, <1>5, <1>7, <1>8, <1>11 DEF Left, Leave
<1> QED BY <1>10, <1>11

(* ConfirmStart: the session has its acknowledgement, or is rolled back.   *)
LEMMA ConfirmStartIs ==
  ASSUME BaseInv, ConfirmStart
  PROVE  /\ serial.session \in Session /\ serial.what = "confirm_start" /\ ~Awaiting(serial)
         /\ StoreOK(store') /\ Ages(store, store', {})
         /\ script = <<>> \/ serial.session \notin Retained(store')
         /\ \/ Left
            \/ \E source \in Sources :
                 /\ Observes(store, serial.session, source) /\ serial.session \in Retained(store)
                 /\ serial.session \notin Retained(store')
                 /\ Config(store, source, {serial.session}, TRUE) \in Message
                 /\ Applied("rolled_back", Config(store, source, {serial.session}, TRUE),
                            Context(store, source))
<1> DEFINE s == serial.session
<1>1. StoreOK(store) /\ store \in StoreType /\ serial \in SerialType /\ serial.what = "confirm_start"
      /\ Replied
  BY BaseStoreOK DEF ConfirmStart, StoreOK
<1>2. s \in Session /\ ~Awaiting(serial) /\ serial.reply \in Replies /\ "reply" \in DOMAIN serial
  BY <1>1, RepliedIs, SerialIs DEF Answerable, Confirming
<1> HIDE DEF s
<1>3. CASE ~permitted
  <2>1. store' = AuthorizeDomains(store) /\ Left
    BY <1>3 DEF ConfirmStart, Left, Leave
  <2>2. StoreOK(store') /\ Ages(store, store', {})
    BY <1>1, <2>1, AuthorizeAges
  <2>3. s \notin Retained(store')
    <3> DEFINE t == [store EXCEPT !.session = [r \in Session |-> NoSession],
                    !.cleanup = QueueCleanup(store, {Current(store, r) : r \in Retained(store)})]
    <3>1. store' = ReleaseIfEmpty(t)
      BY <1>3, <2>1 DEF AuthorizeDomains
    <3>2. t.session = [r \in Session |-> NoSession]
      BY <1>1 DEF StoreType
    <3>3. Retained(t) = {}
      BY <3>2 DEF Retained, NoSession
    <3>4. store' = [t EXCEPT !.events = <<>>, !.seen = {}, !.source = [id \in Sources |-> NoSource]]
      BY <3>1, <3>3 DEF ReleaseIfEmpty
    <3>5. store'.session = t.session
      BY <1>1, <3>4 DEF StoreType
    <3> QED BY <3>3, <3>5 DEF Retained
  <2> QED BY <1>1, <1>2, <2>1, <2>2, <2>3 DEF s
<1>4. CASE permitted /\ Succeeded
  <2> DEFINE st == ExpireSessions(store)
  <2>1. /\ Left
        /\ store' = IF s \in Retained(st) THEN Acknowledge(st, s, TRUE) ELSE st
    BY <1>4 DEF ConfirmStart, Left, Leave, s
  <2>2. StoreOK(st) /\ Ages(store, st, {})
    BY <1>1, ExpireAges
  <2> HIDE DEF st
  <2>3. StoreOK(Acknowledge(st, s, TRUE)) /\ Ages(st, Acknowledge(st, s, TRUE), {})
    BY <1>2, <2>2, AcknowledgeAges
  <2>4. Ages(store, Acknowledge(st, s, TRUE), {})
    BY <2>2, <2>3, <1>1, AgesThen
  <2>5. StoreOK(store') /\ Ages(store, store', {})
    BY <2>1, <2>2, <2>3, <2>4
  <2>6. script = <<>>
    <3>1. serial.reply \notin {"none", "failed"}
      BY <1>4 DEF Succeeded
    <3> QED BY <1>2, <3>1 DEF BaseInv, Base, ScriptsOK
  <2> QED BY <1>1, <1>2, <2>1, <2>5, <2>6 DEF s
<1>5. CASE permitted /\ ~Succeeded
  <2> DEFINE source == Current(store, s)  config == Config(store, source, {s}, TRUE)
  <2>1. /\ store' = RemoveSession(store, s)
        /\ IF Capturing(store, s) THEN Apply("rolled_back", config, store.source[source].context)
           ELSE Leave /\ UNCHANGED script
    BY <1>5 DEF ConfirmStart, s
  <2>2. StoreOK(store') /\ Ages(store, store', {})
    BY <1>1, <1>2, <2>1, RemoveAges
  <2>3. s \notin Retained(store')
    <3> DEFINE t == [store EXCEPT !.session[s] = NoSession]
    <3>1. t.session[s] = NoSession
      BY <1>1, <1>2 DEF StoreType
    <3>2. NoSession.status = "none"
      BY DEF NoSession
    <3>3. store' = IF Retained(t) # {} THEN t
             ELSE [t EXCEPT !.events = <<>>, !.seen = {}, !.source = [id \in Sources |-> NoSource]]
      BY <2>1 DEF RemoveSession, ReleaseIfEmpty
    <3>4. store'.session = t.session
      BY <1>1, <3>3 DEF StoreType
    <3> HIDE DEF t
    <3> QED BY <3>1, <3>2, <3>4 DEF Retained
  <2>4. CASE Capturing(store, s)
    <3>1. s \in Retained(store)
      BY <1>2, <2>4 DEF Retained, Capturing
    <3>2. source \in Sources /\ Observes(store, s, source)
      BY <1>1, <3>1, CurrentIn
    <3> HIDE DEF source
    <3>3. config \in Message
      BY <3>2, ConfigIs
    <3>5. Apply("rolled_back", config, Context(store, source))
      BY <2>1, <2>4 DEF Context
    <3>4. Applied("rolled_back", config, Context(store, source))
      BY <1>1, <1>2, <3>3, <3>5, ApplyIs DEF Confirming, s
    <3> QED BY <1>1, <1>2, <2>2, <2>3, <3>1, <3>2, <3>3, <3>4 DEF s
  <2>5. CASE ~Capturing(store, s)
    BY <1>1, <1>2, <2>1, <2>2, <2>3, <2>5 DEF s, Left, Leave
  <2> QED BY <2>4, <2>5
<1> QED BY <1>3, <1>4, <1>5 DEF ConfirmStart

(* A free mutex.                                                           *)
LEMMA IdleIs == /\ Idle.what = "idle" /\ Idle \in SerialType /\ ~Awaiting(Idle) /\ ~Opening(Idle)
                /\ "reply" \notin DOMAIN Idle
BY DEF Idle, SerialType, Awaiting, Opening

(* RolledBack: the store ages.                                             *)
LEMMA RolledBackIs ==
  ASSUME BaseInv, RolledBack
  PROVE  /\ serial.what = "rolled_back" /\ ~Awaiting(serial) /\ Left
         /\ StoreOK(store') /\ Ages(store, store', {})
<1>1. StoreOK(store) /\ serial \in SerialType /\ serial.what = "rolled_back" /\ Replied
  BY BaseStoreOK DEF RolledBack
<1>2. store' = AuthorizeDomains(store) /\ Left
  BY DEF RolledBack, Left, Leave
<1> QED BY <1>1, <1>2, RepliedIs, AuthorizeAges DEF Answerable, Confirming

(* StopCapture: the mutex is taken for the stop, or there is nothing to    *)
(* stop.                                                                   *)
LEMMA StopCaptureIs ==
  ASSUME BaseInv, NEW s \in Session, StopCapture(s)
  PROVE  /\ serial = Idle /\ script' = script
         /\ StoreOK(store') /\ Ages(store, store', {})
         /\ \/ /\ serial' \in SerialType /\ serial'.what = "stopping" /\ serial'.session = s
               /\ store' = store
            \/ serial' = Idle
<1>1. StoreOK(store) /\ serial = Idle /\ script' = script
  BY BaseStoreOK DEF StopCapture
<1>2. CASE Capturing(store, s)
  <2>1. store' = store /\ serial' = [what |-> "stopping", session |-> s]
    BY <1>2 DEF StopCapture, Hold
  <2>2. Ages(store, store, {})
    BY <1>1, AgesReflexive
  <2>3. serial' \in SerialType /\ serial'.what = "stopping" /\ serial'.session = s
    BY <2>1 DEF SerialType
  <2> QED BY <1>1, <2>1, <2>2, <2>3
<1>3. CASE ~Capturing(store, s)
  <2>1. store' = StopSession(store, s, TRUE) /\ serial' = Idle
    BY <1>3 DEF StopCapture, Leave
  <2>2. StoreOK(store') /\ Ages(store, store', {})
    BY <1>1, <1>3, <2>1, StopAges
  <2> QED BY <1>1, <2>1, <2>2
<1> QED BY <1>2, <1>3

(* SendStop: the configuration without the session is sent, or the stop    *)
(* is over.                                                                *)
LEMMA SendStopIs ==
  ASSUME BaseInv, SendStop
  PROVE  /\ serial.session \in Session /\ serial.what = "stopping" /\ ~Awaiting(serial)
         /\ StoreOK(store') /\ Ages(store, store', {})
         /\ \/ Left
            \/ /\ store' = store /\ Capturing(store, serial.session)
               /\ \E source \in Sources :
                    /\ Observes(store, serial.session, source)
                    /\ Config(store, source, {serial.session}, TRUE) \in Message
                    /\ Applied("confirm_stop", Config(store, source, {serial.session}, TRUE),
                               Context(store, source))
<1> DEFINE s == serial.session
<1>1. StoreOK(store) /\ serial \in SerialType /\ serial.what = "stopping"
  BY BaseStoreOK DEF SendStop
<1>2. s \in Session /\ ~Awaiting(serial)
  BY <1>1, SerialIs DEF Awaiting, Confirming
<1>3. CASE s \in Retained(store) /\ Capturing(store, s)
  <2> DEFINE source == Current(store, s)  config == Config(store, source, {s}, TRUE)
  <2>1. store' = store /\ Apply("confirm_stop", config, store.source[source].context)
    BY <1>3 DEF SendStop
  <2>2. source \in Sources /\ Observes(store, s, source)
    BY <1>1, <1>3, CurrentIn
  <2>3. Ages(store, store, {})
    BY <1>1, AgesReflexive
  <2> HIDE DEF source, s
  <2>4. config \in Message
    BY <2>2, ConfigIs
  <2>5. Apply("confirm_stop", config, Context(store, source))
    BY <2>1 DEF Context
  <2> HIDE DEF config
  <2>6. Applied("confirm_stop", config, Context(store, source))
    BY <1>1, <1>2, <2>4, <2>5, ApplyIs DEF Confirming, s
  <2> QED BY <1>1, <1>2, <1>3, <2>1, <2>2, <2>3, <2>4, <2>6 DEF s, config
<1>4. CASE ~(s \in Retained(store) /\ Capturing(store, s))
  <2>1. store' = StopSession(store, s, TRUE) /\ Left
    BY <1>4 DEF SendStop, Leave, Left
  <2>2. ~Capturing(store, s)
    BY <1>2, <1>4 DEF Capturing, Retained
  <2> HIDE DEF s
  <2>3. StoreOK(store') /\ Ages(store, store', {})
    BY <1>1, <1>2, <2>1, <2>2, StopAges
  <2> QED BY <1>1, <1>2, <2>1, <2>3 DEF s
<1> QED BY <1>3, <1>4

(* Who is stopped does not capture, with the drops it had.                 *)
LEMMA StopEnds ==
  ASSUME NEW st, StoreOK(st), NEW s \in Session, NEW clean \in BOOLEAN
  PROVE  /\ ~Capturing(StopSession(st, s, clean), s)
         /\ StopSession(st, s, clean).session[s].dropped = st.session[s].dropped
<1> DEFINE x == st.session[s]
           y == IF Capturing(st, s) THEN EndSession(st, s, "stopped") ELSE x
           me == [y EXCEPT !.applied = FALSE, !.clean = clean]
<1>1. x \in SessionType /\ st \in StoreType /\ x \in SessionType
  BY DEF StoreOK, StoreType
<1>2. CASE s \notin Retained(st)
  BY <1>2 DEF StopSession, Retained, Capturing
<1>3. CASE s \in Retained(st)
  <2>1. StopSession(st, s, clean).session[s] = me
    BY <1>1, <1>3 DEF StopSession, StoreType
  <2>2. y.dropped = x.dropped /\ y.status # "active" /\ y \in SessionType
    <3>1. CASE Capturing(st, s)
      <4> DEFINE e == EndSession(st, s, "stopped")
      <4>1. LET z == EndSession(st, s, "stopped")
            IN z \in SessionType /\ Goes(st, s, z, {s}) /\ z.status = "stopped"
               /\ z.dropped = st.session[s].dropped
        BY <3>1, EndGoes, Zenon
      <4>2. e \in SessionType /\ e.status = "stopped" /\ e.dropped = x.dropped
        BY <4>1
      <4>3. y = e
        BY <3>1
      <4> HIDE DEF e, y, x
      <4> QED BY <4>2, <4>3
    <3>2. CASE ~Capturing(st, s)
      BY <1>1, <3>2 DEF Capturing
    <3> QED BY <3>1, <3>2
  <2> HIDE DEF y, x
  <2>3. me.dropped = y.dropped /\ me.status = y.status
    BY <2>2 DEF SessionType
  <2> QED BY <2>1, <2>2, <2>3 DEF Capturing, x
<1> QED BY <1>2, <1>3

(* ConfirmStop: the session is over, and without a drain it has counted a  *)
(* drop.                                                                   *)
LEMMA ConfirmStopIs ==
  ASSUME BaseInv, ConfirmStop
  PROVE  /\ serial.session \in Session /\ serial.what = "confirm_stop" /\ ~Awaiting(serial) /\ Left
         /\ "reply" \in DOMAIN serial
         /\ StoreOK(store') /\ Ages(store, store', {serial.session})
         /\ ~Capturing(store', serial.session)
         /\ serial.reply # "drained" /\ serial.session \in Retained(store')
              => store'.session[serial.session].dropped > 0
<1> DEFINE s == serial.session
           clean == serial.reply = "drained"
           noted == IF clean THEN store ELSE NoteGap(store, s, 1)
           ended == StopSession(noted, s, clean)
<1>1. StoreOK(store) /\ serial \in SerialType /\ serial.what = "confirm_stop" /\ Replied
  BY BaseStoreOK DEF ConfirmStop
<1>2. s \in Session /\ ~Awaiting(serial) /\ "reply" \in DOMAIN serial
  BY <1>1, RepliedIs, SerialIs DEF Answerable, Confirming
<1>3. store' = AuthorizeDomains(ended) /\ Left
  BY DEF ConfirmStop, Left, Leave
<1> HIDE DEF s
<1>4. /\ StoreOK(noted) /\ Ages(store, noted, {})
      /\ ~clean /\ s \in Retained(noted) => noted.session[s].dropped > 0
  <2>1. CASE clean
    BY <1>1, <2>1, AgesReflexive
  <2>2. CASE ~clean
    BY <1>1, <1>2, <2>2, NoteGapAges
  <2> QED BY <2>1, <2>2
<1>5. clean \in BOOLEAN
  OBVIOUS
<1> HIDE DEF noted, clean
<1>6. StoreOK(ended) /\ Ages(noted, ended, IF Capturing(noted, s) THEN {s} ELSE {})
  BY <1>2, <1>4, <1>5, StopAges
<1>7. ~Capturing(ended, s) /\ ended.session[s].dropped = noted.session[s].dropped
  BY <1>2, <1>4, <1>5, StopEnds
<1> HIDE DEF ended
<1>8. StoreOK(store') /\ Ages(ended, store', {})
  BY <1>3, <1>6, AuthorizeAges
<1>9. Ages(noted, ended, {s}) /\ Ages(store, noted, {s}) /\ Ages(ended, store', {s})
  BY <1>4, <1>6, <1>8, AgesWider
<1>10. Ages(store, store', {s})
  BY <1>1, <1>4, <1>6, <1>8, <1>9, AgesThen
<1>11. ~Capturing(store', s)
  <2>1. Goes(ended, s, store'.session[s], {})
    BY <1>2, <1>8 DEF Ages
  <2> QED BY <1>7, <2>1 DEF Goes, Capturing
<1>12. ASSUME ~clean, s \in Retained(store') PROVE store'.session[s].dropped > 0
  <2>1. Goes(noted, s, store'.session[s], {s})
    <3>1. Ages(noted, store', {s})
      BY <1>4, <1>6, <1>8, <1>9, AgesThen
    <3> QED BY <1>2, <3>1 DEF Ages
  <2>2. s \in Retained(noted) /\ noted.session[s].dropped <= store'.session[s].dropped
    BY <1>12, <2>1 DEF Goes, Retained
  <2>3. noted.session[s].dropped \in Nat /\ store'.session[s].dropped \in Nat
    BY <1>2, <1>4, <1>8 DEF StoreOK, StoreType, SessionType
  <2> QED BY <1>4, <1>12, <2>2, <2>3
<1> QED BY <1>1, <1>2, <1>3, <1>8, <1>10, <1>11, <1>12 DEF s, clean

(* StatusOf: the sweep, and perhaps an interruption.                       *)
LEMMA StatusOfIs ==
  ASSUME BaseInv, NEW s, NEW answered, StatusOf(s, answered)
  PROVE  /\ StoreOK(store') /\ Ages(store, store', {})
         /\ store' = store \/ \A id \in Sources : ~Live(store', id)
<1>1. StoreOK(store)
  BY BaseStoreOK
<1>2. store' = InterruptWindow(store) \/ store' = store
  BY DEF StatusOf
<1> QED BY <1>1, <1>2, InterruptAges, AgesReflexive

(* An interruption after the sweep.                                        *)
LEMMA SweptInterrupted ==
  ASSUME NEW st, StoreOK(st)
  PROVE  LET t == InterruptWindow(Swept(st))
         IN StoreOK(t) /\ Ages(st, t, {}) /\ \A id \in Sources : ~Live(t, id)
<1>1. StoreOK(Swept(st)) /\ Ages(st, Swept(st), {})
  BY SweptAges
<1> DEFINE u == Swept(st)
<1> HIDE DEF u
<1>2. StoreOK(u) /\ Ages(st, u, {})
  BY <1>1 DEF u
<1>3. /\ StoreOK(InterruptWindow(u)) /\ Ages(u, InterruptWindow(u), {})
      /\ \A id \in Sources : ~Live(InterruptWindow(u), id)
  BY <1>2, InterruptAges
<1>4. Ages(st, InterruptWindow(u), {})
  BY <1>2, <1>3, AgesThen
<1> QED BY <1>3, <1>4 DEF u

(* PageHasChanged: all sources are interrupted, and a new one may be       *)
(* drawn.                                                                  *)
LEMMA PageHasChangedIs ==
  ASSUME BaseInv, PageHasChanged
  PROVE  /\ serial = Idle /\ script' = script
         /\ StoreOK(store') /\ Ages(store, store', {}) /\ \A id \in Sources : ~Live(store', id)
         /\ \/ serial' = serial
            \/ /\ serial' \in SerialType /\ serial'.what = "following"
               /\ serial'.context = document
<1>1. StoreOK(store) /\ serial = Idle /\ script' = script /\ document \in Nat \ {0}
  BY BaseStoreOK DEF PageHasChanged
<1>2. store' = InterruptWindow(Swept(store))
  BY DEF PageHasChanged
<1>3. \/ serial' = serial
      \/ serial' = [what |-> "following", session |-> "none", context |-> document]
  BY DEF PageHasChanged, Hold
<1>4. [what |-> "following", session |-> "none", context |-> document] \in SerialType
  BY <1>1 DEF SerialType
<1> QED BY <1>1, <1>2, <1>3, <1>4, SweptInterrupted

(* ConfirmFollow: the store ages.                                          *)
LEMMA ConfirmFollowIs ==
  ASSUME BaseInv, ConfirmFollow
  PROVE  /\ serial.what = "confirm_follow" /\ ~Awaiting(serial) /\ Left
         /\ StoreOK(store') /\ Ages(store, store', {})
<1>1. StoreOK(store) /\ serial \in SerialType /\ serial.what = "confirm_follow" /\ Replied
  BY BaseStoreOK DEF ConfirmFollow
<1>2. store' = AcknowledgeSource(store, serial.source, Succeeded) /\ Left
  BY DEF ConfirmFollow, Left, Leave
<1>3. Succeeded \in BOOLEAN
  BY DEF Succeeded
<1> QED BY <1>1, <1>2, <1>3, RepliedIs, AcknowledgeSourceAges DEF Answerable

(* Cleaned: the store stays.                                               *)
LEMMA CleanedIs ==
  ASSUME BaseInv, Cleaned
  PROVE  /\ serial.what = "cleaning" /\ ~Awaiting(serial) /\ Left
         /\ store' = store /\ StoreOK(store') /\ Ages(store, store', {})
<1>1. StoreOK(store) /\ serial \in SerialType /\ serial.what = "cleaning" /\ Replied
  BY BaseStoreOK DEF Cleaned
<1>2. store' = store /\ Left
  BY DEF Cleaned, Left, Leave
<1> QED BY <1>1, <1>2, RepliedIs, AgesReflexive DEF Answerable

(* Maintain: the sweep, and one source's leases to expire.                 *)
LEMMA MaintainIs ==
  ASSUME BaseInv, Maintain
  PROVE  /\ serial = Idle /\ StoreOK(store') /\ Ages(store, store', {})
         /\ \/ Left
            \/ \E m \in Message :
                 /\ m.source <= store'.drawn /\ m.what = "expire" /\ m.awaited
                 /\ m.leases = Serving(store', m.source) /\ script' = Append(script, m)
                 /\ serial' \in SerialType /\ serial'.what = "cleaning" /\ Awaiting(serial')
<1> DEFINE st == Swept(store)  t == [st EXCEPT !.cleanup = {}]
<1>1. StoreOK(store) /\ serial = Idle
  BY BaseStoreOK DEF Maintain
<1>2. StoreOK(st) /\ Ages(store, st, {})
  BY <1>1, SweptAges
<1>3. /\ store' = t
      /\ IF st.cleanup = {} THEN UNCHANGED <<serial, script>>
           ELSE \E source \in st.cleanup :
                  /\ script' = Append(script,
                       [what |-> "expire", source |-> source,
                        leases |-> Serving(st, source), drain |-> FALSE, awaited |-> TRUE])
                  /\ serial' = [what |-> "cleaning", session |-> "none", source |-> source,
                                reply |-> "none"]
  BY DEF Maintain, Hold
<1> HIDE DEF st
<1>4. StoreOK(t) /\ Ages(st, t, {})
  BY <1>2, CleanupAges
<1>5. t.session = st.session /\ t.drawn = st.drawn /\ st.cleanup \subseteq Sources
  BY <1>2 DEF StoreOK, StoreType
<1> HIDE DEF t
<1>6. StoreOK(store') /\ Ages(store, store', {})
  BY <1>1, <1>2, <1>3, <1>4, AgesThen
<1>7. CASE st.cleanup = {}
  BY <1>1, <1>3, <1>6, <1>7 DEF Left
<1>8. CASE st.cleanup # {}
  <2>1. PICK source \in st.cleanup :
                  /\ script' = Append(script,
                       [what |-> "expire", source |-> source,
                        leases |-> Serving(st, source), drain |-> FALSE, awaited |-> TRUE])
                  /\ serial' = [what |-> "cleaning", session |-> "none", source |-> source,
                                reply |-> "none"]
    BY <1>3, <1>8
  <2>2. source \in Sources /\ source <= store'.drawn
    BY <1>2, <1>3, <1>5, CurrentDrawn
  <2>3. Serving(st, source) = Serving(store', source)
    BY <1>3, <1>5 DEF Serving, Capturing, Current
  <2>4. Serving(st, source) \in SUBSET Session
    BY DEF Serving
  <2> DEFINE l == Serving(st, source)
             m == [what |-> "expire", source |-> source, leases |-> l,
                   drain |-> FALSE, awaited |-> TRUE]
  <2>5. script' = Append(script, m)
    BY <2>1
  <2>6. l = Serving(store', source) /\ l \in SUBSET Session
    BY <2>3, <2>4
  <2> HIDE DEF l
  <2>7. m \in Message /\ m.source = source /\ m.what = "expire" /\ m.awaited /\ m.leases = l
    BY <2>2, <2>6 DEF Message
  <2>8. serial' \in SerialType /\ serial'.what = "cleaning" /\ serial'.reply = "none"
        /\ serial' # Idle
    BY <2>1, <2>2 DEF SerialType, Replies, Idle
  <2>9. Awaiting(serial')
    BY <2>8 DEF Awaiting
  <2> HIDE DEF m
  <2>10. \E n \in Message :
                 /\ n.source <= store'.drawn /\ n.what = "expire" /\ n.awaited
                 /\ n.leases = Serving(store', n.source) /\ script' = Append(script, n)
                 /\ serial' \in SerialType /\ serial'.what = "cleaning" /\ Awaiting(serial')
    BY <2>2, <2>5, <2>6, <2>7, <2>8, <2>9
  <2> QED BY <1>1, <1>6, <2>10
<1> QED BY <1>1, <1>6, <1>7, <1>8

(* Forgotten: the store ages.                                              *)
LEMMA ForgottenIs ==
  ASSUME BaseInv, NEW s \in Session, Forgotten(s)
  PROVE  StoreOK(store') /\ Ages(store, store', {})
BY BaseStoreOK, RemoveAges DEF Forgotten

(* SessionDeadline: the store ages.                                        *)
LEMMA DeadlineIs ==
  ASSUME BaseInv, NEW s \in Session, SessionDeadline(s)
  PROVE  StoreOK(store') /\ Ages(store, store', {})
BY BaseStoreOK, LateAges DEF SessionDeadline

(* Query: the sweep alone.                                                 *)
LEMMA QueryStoreIs ==
  ASSUME BaseInv, NEW s \in Session, Query(s)
  PROVE  StoreOK(store') /\ Ages(store, store', {}) /\ store' = Swept(store)
BY BaseStoreOK, SweptAges DEF Query

(* Navigate: a new document, a page that captures nothing, and no live     *)
(* source.                                                                 *)
LEMMA NavigateIs ==
  ASSUME BaseInv, Navigate
  PROVE  /\ StoreOK(store') /\ Ages(store, store', {}) /\ \A id \in Sources : ~Live(store', id)
         /\ document' = document + 1 /\ page' = OffPage /\ script' = <<>>
BY BaseStoreOK, InterruptAges DEF Navigate

(* Who captures after a sweep is not late.                                 *)
LEMMA SweptNotLate ==
  ASSUME NEW st, StoreOK(st), NEW s \in Session, Capturing(Swept(st), s)
  PROVE  ~Swept(st).session[s].late
<1> DEFINE u == AuthorizeDomains(st)
           over == {r \in Session : Capturing(u, r) /\ u.session[r].late}
           f == [r \in Session |-> IF r \in over THEN EndSession(u, r, "expired") ELSE u.session[r]]
           c == QueueCleanup(u, {Current(u, r) : r \in over})
           t == [u EXCEPT !.session = f, !.cleanup = c]
<1>1. StoreOK(u)
  BY AuthorizeAges
<1>2. Swept(st) = ReleaseIfEmpty(t)
  BY DEF Swept, ExpireSessions
<1> HIDE DEF u
<1>3. u \in StoreType /\ u.session[s] \in SessionType
  BY <1>1 DEF StoreOK, StoreType
<1>4. t.session = f
  BY <1>3 DEF StoreType
<1>5. ReleaseIfEmpty(t).session = f
  <2>1. ReleaseIfEmpty(t) = IF Retained(t) # {} THEN t
             ELSE [t EXCEPT !.events = <<>>, !.seen = {}, !.source = [id \in Sources |-> NoSource]]
    BY DEF ReleaseIfEmpty
  <2>2. t.session = f
    BY <1>4
  <2>3. CASE Retained(t) # {}
    BY <2>1, <2>2, <2>3
  <2>4. CASE Retained(t) = {}
    <3>1. ReleaseIfEmpty(t) = [u EXCEPT !.session = f, !.cleanup = c, !.events = <<>>, !.seen = {},
                                        !.source = [id \in Sources |-> NoSource]]
      BY <2>1, <2>4
    <3> HIDE DEF f, c
    <3> QED BY <1>3, <3>1 DEF StoreType
  <2> QED BY <2>3, <2>4
<1>6. CASE s \in over
  <2>1. f[s] = EndSession(u, s, "expired")
    BY <1>6
  <2>2. f[s].status = "expired"
    BY <1>3, <2>1 DEF EndSession, SessionType
  <2> QED BY <1>2, <1>5, <2>2 DEF Capturing
<1>7. CASE s \notin over
  <2>1. f[s] = u.session[s]
    BY <1>7
  <2>2. Capturing(u, s)
    BY <1>2, <1>5, <2>1 DEF Capturing
  <2>3. ~u.session[s].late
    BY <1>7, <2>2
  <2> QED BY <1>2, <1>5, <2>1, <2>3
<1> QED BY <1>6, <1>7

-----------------------------------------------------------------------------
(* Each step of the page keeps the first layer                             *)

(* The parts of the first layer.                                           *)
LEMMA BaseParts ==
  ASSUME BaseInv
  PROVE  /\ PagePart(store, document, page, batches, history.stored)
         /\ ScriptsOK(store, document, page, script, serial) /\ StoredOK(store, history.stored)
         /\ StoreOK(store) /\ store \in StoreType /\ serial \in SerialType
         /\ PartsTyped(document, page, batches, script, serial, history.stored)
         /\ document \in Nat \ {0} /\ batches \subseteq BatchType /\ history.stored \subseteq Event
         /\ PageTypeOK(page, script) /\ PageTypeOK(page, <<>>) /\ script \in Seq(Message)
         /\ page \in PageType
BY DEF BaseInv, Base, PagePart, PartsTyped, PageTypeOK, StoreOK

(* The first layer from its parts.                                         *)
LEMMA PartsBase ==
  ASSUME StoreOK(store'), PagePart(store', document', page', batches', history'.stored),
         ScriptsOK(store', document', page', script', serial'), StoredOK(store', history'.stored),
         document' \in Nat \ {0}, PageTypeOK(page', script'), batches' \subseteq BatchType,
         serial' \in SerialType, history'.stored \subseteq Event
  PROVE  BaseInv'
BY DEF BaseInv, Base, PagePart, PartsTyped

(* What an answer leaves alone.                                            *)
LEMMA AnswersIs ==
  ASSUME NEW ser \in SerialType, NEW after, NEW reply, Answers(ser, after, reply)
  PROVE  /\ after \in SerialType /\ after.what = ser.what
         /\ Awaiting(ser) => "reply" \in DOMAIN after
         /\ ~Awaiting(ser) => after = ser
BY DEF Answers

(* The queue is sent or discarded, leases end, a flight or a drain ends.   *)
LEMMA EndsBase ==
  ASSUME BaseInv, UNCHANGED <<store, document, script>>, PageTypeOK(page', script),
         Leaves(page, page'), DrainEnds(page, page', serial, serial'),
         history'.stored = history.stored, batches' \subseteq batches,
         \A c \in batches' : c.document = document => page'.inFlight
  PROVE  BaseInv'
<1>1. PageTypeOK(page', <<>>)
  BY DEF PageTypeOK
<1>2. PagePart(store, document, page', batches', history.stored)
  BY <1>1, BaseParts, LeavesPart
<1>3. serial' \in SerialType
  BY BaseParts DEF DrainEnds, Answers
<1>4. \/ serial' = serial /\ (page'.drain => page.drain)
      \/ page.drain /\ ~page'.drain /\ serial'.what = serial.what /\ "reply" \in DOMAIN serial'
  <2>1. CASE serial' = serial /\ page'.drain = page.drain
    BY <2>1
  <2>2. CASE page.drain /\ ~page'.drain /\ Answers(serial, serial', "drained")
    <3>1. Awaiting(serial)
      BY <2>2, BaseParts DEF ScriptsOK
    <3> QED BY <2>2, <3>1, BaseParts, AnswersIs
  <2> QED BY <2>1, <2>2 DEF DrainEnds
<1>5. page'.source = page.source
  BY DEF Leaves
<1>6. ScriptsOK(store, document, page', script, serial')
  BY <1>4, <1>5, BaseParts, DrainScripts
<1> QED BY <1>2, <1>3, <1>6, BaseParts, PartsBase

(* The steps of the page keep the first layer.                             *)
LEMMA LeaseEndsBase ==
  ASSUME CaptureTypeOK, BaseInv, NEW s \in Session, LeaseEnds(s)
  PROVE  BaseInv'
<1>1. /\ PageTypeOK(page', script) /\ page'.inFlight = page.inFlight
      /\ Leaves(page, page') /\ history'.stored = history.stored
      /\ DrainEnds(page, page', serial, serial')
  BY LeaseEndsIs DEF Ends, SameHistory
<1>2. UNCHANGED <<store, document, script, batches>>
  BY DEF LeaseEnds
<1>3. \A c \in batches' : c.document = document => page'.inFlight
  BY <1>1, <1>2 DEF BaseInv, Base, PagesOrdered
<1> QED BY <1>1, <1>2, <1>3, EndsBase

LEMMA AckBatchBase ==
  ASSUME CaptureTypeOK, BaseInv, NEW b, AckBatch(b) \/ BatchRejected(b)
  PROVE  BaseInv'
<1>1. /\ b \in batches /\ b.document = document /\ batches' = batches \ {b}
      /\ PageTypeOK(page', script)
      /\ Leaves(page, page') /\ history'.stored = history.stored
      /\ DrainEnds(page, page', serial, serial')
  BY AckBatchIs, BatchRejectedIs DEF Ends, SameHistory
<1>2. UNCHANGED <<store, document, script>>
  BY DEF AckBatch, BatchRejected
<1>3. \A c \in batches' : c.document # document
  BY <1>1 DEF BaseInv, Base, PagesOrdered
<1> QED BY <1>1, <1>2, <1>3, EndsBase

LEMMA RecordBase ==
  ASSUME CaptureTypeOK, BaseInv, NEW fits \in BOOLEAN, Record(fits)
  PROVE  BaseInv'
<1>1. /\ page.source \in Sources /\ PageTypeOK(page', script)
      /\ Records(page, page') /\ history'.stored = history.stored
  BY RecordIs
<1>2. UNCHANGED <<store, serial, document, script, batches>>
  BY DEF Record
<1>3. PagePart(store, document, page', batches, history.stored)
  BY <1>1, BaseParts, RecordsPart
<1>4. ScriptsOK(store, document, page', script, serial)
  <2>1. page'.source = page.source /\ (page'.drain => page.drain)
    BY <1>1 DEF Records
  <2> QED BY <2>1, BaseParts, DrainScripts
<1> QED BY <1>1, <1>2, <1>3, <1>4, BaseParts, PartsBase

LEMMA FlushBase ==
  ASSUME CaptureTypeOK, BaseInv, Flush
  PROVE  BaseInv'
<1>1. PICK b \in BatchType : Sends(document, page, page', b) /\ batches' = batches \cup {b}
  BY FlushIs
<1>2. UNCHANGED <<store, serial, document, script, history>> /\ PageTypeOK(page', script)
  BY FlushIs DEF Flush
<1>3. PagePart(store, document, page', batches', history.stored)
  BY <1>1, <1>2, BaseParts, SendsPart
<1>4. ScriptsOK(store, document, page', script, serial)
  <2>1. page'.source = page.source /\ (page'.drain => page.drain)
    BY <1>1 DEF Sends
  <2> QED BY <2>1, BaseParts, DrainScripts
<1>5. batches' \subseteq BatchType
  BY <1>1, BaseParts
<1> QED BY <1>2, <1>3, <1>4, <1>5, BaseParts, PartsBase

(* A page that drains has nothing to run.                                  *)
LEMMA NoDrain ==
  ASSUME BaseInv
  PROVE  ~page.drain \/ script = <<>>
BY DEF BaseInv, Base, ScriptsOK

(* The script that the page runs next.                                     *)
LEMMA HeadIs ==
  ASSUME BaseInv, script # <<>>
  PROVE  /\ Head(script) \in Message /\ 1 \in DOMAIN script /\ Head(script) = script[1]
         /\ Tail(script) \in Seq(Message) /\ ~page.drain
         /\ Head(script).awaited => Awaiting(serial)
         /\ Head(script).source <= store.drawn
         /\ Head(script).what = "configure" => Context(store, Head(script).source) \in {0, document}
<1>1. script \in Seq(Message) /\ ~page.drain
  BY BaseParts, NoDrain
<1>2. Head(script) \in Message /\ 1 \in DOMAIN script /\ Head(script) = script[1]
      /\ Tail(script) \in Seq(Message)
  BY <1>1
<1> QED BY <1>1, <1>2, BaseParts DEF ScriptsOK

LEMMA ExpireLeasesBase ==
  ASSUME CaptureTypeOK, BaseInv, ExpireLeases
  PROVE  BaseInv'
<1> DEFINE m == Head(script)
<1>1. /\ script # <<>> /\ script' = Tail(script) /\ PageTypeOK(page', script)
      /\ page'.inFlight = page.inFlight /\ Leaves(page, page') /\ history'.stored = history.stored
      /\ ~page'.drain
      /\ IF m.awaited THEN Answers(serial, serial', "ok") ELSE serial' = serial
  BY NoDrain, ExpireLeasesIs DEF Ends, SameHistory
<1>2. UNCHANGED <<store, document, batches>>
  BY DEF ExpireLeases
<1>3. m.awaited => Awaiting(serial)
  BY <1>1, HeadIs
<1>4. /\ serial' \in SerialType
      /\ serial' = serial \/ (m.awaited /\ serial'.what = serial.what /\ "reply" \in DOMAIN serial')
  BY <1>1, <1>3, BaseParts, AnswersIs
<1>5. ScriptsOK(store, document, page', Tail(script), serial')
  BY <1>1, <1>4, BaseParts, PopScripts
<1>6. PageTypeOK(page', Tail(script)) /\ PageTypeOK(page', <<>>)
  BY <1>1, HeadIs DEF PageTypeOK
<1>7. \A c \in batches : c.document = document => page'.inFlight
  BY <1>1 DEF BaseInv, Base, PagesOrdered
<1>8. PagePart(store, document, page', batches, history.stored)
  BY <1>1, <1>6, <1>7, BaseParts, LeavesPart
<1> QED BY <1>1, <1>2, <1>4, <1>5, <1>6, <1>8, BaseParts, PartsBase

LEMMA ConfigureBase ==
  ASSUME CaptureTypeOK, BaseInv, NEW tried \in {"ok", "failed"}, Configure(tried)
  PROVE  BaseInv'
<1> DEFINE m == Head(script)
<1>1. /\ script # <<>> /\ m.what = "configure" /\ script' = Tail(script) /\ PageTypeOK(page', script)
      /\ Reconfigures(page, page', m)
      /\ \/ ~m.awaited /\ serial' = serial /\ ~page'.drain
         \/ m.awaited /\ serial' = serial /\ page'.drain
         \/ m.awaited /\ (\E reply : Answers(serial, serial', reply)) /\ ~page'.drain
  BY NoDrain, ConfigureIs
<1>2. UNCHANGED <<store, document, batches, history>>
  BY DEF Configure
<1>3. /\ m.awaited => Awaiting(serial)
      /\ m.source \in Sources /\ m.source <= store.drawn /\ Context(store, m.source) \in {0, document}
  BY <1>1, HeadIs DEF Message
<1>4. /\ serial' \in SerialType
      /\ serial' = serial \/ (m.awaited /\ serial'.what = serial.what /\ "reply" \in DOMAIN serial')
      /\ page'.drain => m.awaited /\ serial' = serial
  BY <1>1, <1>3, BaseParts, AnswersIs
<1> HIDE DEF m
<1>5. ScriptsOK(store, document, page', Tail(script), serial')
  <2>1. /\ serial' = serial \/ (Head(script).awaited /\ serial'.what = serial.what
                                 /\ "reply" \in DOMAIN serial')
        /\ page'.drain => Head(script).awaited /\ serial' = serial
    BY <1>4 DEF m
  <2> QED BY <1>1, <2>1, BaseParts, PopScripts
<1>6. PageTypeOK(page', Tail(script)) /\ PageTypeOK(page', <<>>)
  BY <1>1, HeadIs DEF PageTypeOK
<1>8. PagePart(store, document, page', batches, history.stored)
  BY <1>1, <1>3, <1>6, BaseParts, ReconfiguresPart
<1> QED BY <1>1, <1>2, <1>4, <1>5, <1>6, <1>8, BaseParts, PartsBase

(* The scripts of whom nobody waits for any more.                          *)
SameScripts(scr, tcr) ==
  /\ tcr \in Seq(Message) /\ DOMAIN tcr = DOMAIN scr /\ Len(tcr) = Len(scr)
  /\ \A i \in DOMAIN scr : /\ tcr[i].source = scr[i].source /\ tcr[i].what = scr[i].what
                           /\ tcr[i].leases = scr[i].leases
                           /\ tcr[i].awaited => scr[i].awaited

(* Nobody waits for them.                                                  *)
LEMMA UnawaitedIs ==
  ASSUME NEW scr \in Seq(Message)
  PROVE  LET tcr == [i \in DOMAIN scr |-> [scr[i] EXCEPT !.awaited = FALSE]]
         IN SameScripts(scr, tcr) /\ \A i \in DOMAIN tcr : ~tcr[i].awaited
<1> DEFINE tcr == [i \in DOMAIN scr |-> [scr[i] EXCEPT !.awaited = FALSE]]
<1>1. DOMAIN scr = 1..Len(scr) /\ Len(scr) \in Nat
  OBVIOUS
<1>2. ASSUME NEW i \in DOMAIN scr
      PROVE  /\ tcr[i] \in Message /\ ~tcr[i].awaited /\ tcr[i].source = scr[i].source
             /\ tcr[i].what = scr[i].what /\ tcr[i].leases = scr[i].leases
  <2>1. scr[i] \in Message
    BY <1>1
  <2>2. tcr[i] = [scr[i] EXCEPT !.awaited = FALSE]
    OBVIOUS
  <2> QED BY <2>1, <2>2 DEF Message
<1>3. tcr = [i \in 1..Len(scr) |-> tcr[i]]
  BY <1>1
<1> HIDE DEF tcr
<1>4. \A i \in 1..Len(scr) : tcr[i] \in Message
  BY <1>1, <1>2
<1>5. tcr \in Seq(Message) /\ Len(tcr) = Len(scr) /\ DOMAIN tcr = DOMAIN scr
  BY <1>1, <1>3, <1>4, SeqDef
<1>6. SameScripts(scr, tcr) /\ \A i \in DOMAIN tcr : ~tcr[i].awaited
  BY <1>2, <1>5 DEF SameScripts
<1> QED BY <1>6 DEF tcr

LEMMA TimesOutBase ==
  ASSUME CaptureTypeOK, BaseInv, DrainTimesOut \/ ApplyTimesOut
  PROVE  BaseInv'
<1>1. /\ PageTypeOK(page', script) /\ page'.inFlight = page.inFlight /\ ~page'.drain
      /\ page'.leases = page.leases /\ page'.queue = page.queue /\ page'.source = page.source
      /\ page'.number = page.number /\ page'.generation = page.generation
  BY TimesOutIs
<1>2. UNCHANGED <<store, document, batches, history>>
  BY DEF DrainTimesOut, ApplyTimesOut
<1>3. PICK reply : Answers(serial, serial', reply)
  BY TimesOutIs
<1>4. PagePart(store, document, page', batches, history.stored)
  <2>1. \A c \in batches : c.document = document => page'.inFlight
    BY <1>1 DEF BaseInv, Base, PagesOrdered
  <2>2. page.generation \in Nat
    BY BaseParts DEF PageType
  <2>3. Leaves(page, page')
    BY <1>1, <2>2 DEF Leaves
  <2>4. PageTypeOK(page', <<>>)
    BY <1>1 DEF PageTypeOK
  <2> QED BY <2>1, <2>3, <2>4, BaseParts, LeavesPart
<1>5. CASE DrainTimesOut
  <2>1. page.drain /\ script' = script
    BY <1>5 DEF DrainTimesOut
  <2>2. Awaiting(serial)
    BY <2>1, BaseParts DEF ScriptsOK
  <2>3. serial' \in SerialType /\ serial'.what = serial.what /\ "reply" \in DOMAIN serial'
    BY <1>3, <2>2, BaseParts, AnswersIs
  <2>4. ScriptsOK(store, document, page', script, serial')
    BY <1>1, <2>1, <2>3, BaseParts, DrainScripts
  <2> QED BY <1>1, <1>2, <1>4, <2>1, <2>3, <2>4, BaseParts, PartsBase
<1>6. CASE ApplyTimesOut
  <2>1. /\ script' = [i \in DOMAIN script |-> [script[i] EXCEPT !.awaited = FALSE]]
        /\ serial # Idle /\ "reply" \in DOMAIN serial /\ serial.reply = "none"
        /\ serial' = [serial EXCEPT !.reply = "failed"]
    BY <1>6 DEF ApplyTimesOut
  <2>2. Awaiting(serial)
    BY <2>1, BaseParts, SerialIs
  <2>3. Answers(serial, serial', "failed")
    BY <2>1, <2>2, BaseParts, ReplyIs DEF Replies
  <2>4. serial' \in SerialType /\ serial'.what = serial.what /\ "reply" \in DOMAIN serial'
        /\ serial'.reply = "failed"
    BY <2>2, <2>3 DEF Answers
  <2>5. script \in Seq(Message) /\ DOMAIN script = 1..Len(script) /\ Len(script) \in Nat
    BY BaseParts
  <2>6. SameScripts(script, script') /\ \A i \in DOMAIN script' : ~script'[i].awaited
    BY <2>1, <2>5, UnawaitedIs
  <2>7. script' \in Seq(Message) /\ DOMAIN script' = DOMAIN script
    BY <2>6 DEF SameScripts
  <2>8. ~Opening(serial')
    <3>1. serial.what \in Answerable
      BY <2>1, BaseParts, SerialIs
    <3> QED BY <2>4, <3>1 DEF Opening, Answerable, Confirming
  <2>9. ScriptsOK(store, document, page', script', serial')
    <3>1. \A i \in DOMAIN script :
       /\ script[i].source <= store.drawn
       /\ script[i].what = "configure" =>
            /\ i = 1 /\ Context(store, script[i].source) \in {0, document}
            /\ Context(store, script[i].source) = 0 /\ page.source # 0 => ~Live(store, page.source)
      BY BaseParts DEF ScriptsOK
    <3>2. serial'.what # "following"
      BY <2>8 DEF Opening
    <3> HIDE <2>1
    <3> QED BY <1>1, <2>4, <2>6, <2>7, <2>8, <3>1, <3>2 DEF ScriptsOK, SameScripts
  <2>10. PageTypeOK(page', script')
    BY <1>1, <2>7 DEF PageTypeOK
  <2> HIDE <2>1
  <2> QED BY <1>1, <1>2, <1>4, <2>4, <2>9, <2>10, BaseParts, PartsBase
<1> QED BY <1>5, <1>6

-----------------------------------------------------------------------------
(* Each step of the host keeps the first layer                             *)

(* The first layer of another store, script and holder.                    *)
BaseOf(st, scr, ser) == Base(st, document, page, batches, scr, ser, history.stored)

(* A sweep keeps the first layer.                                          *)
LEMMA AgesStays ==
  ASSUME BaseInv, StoreOK(store'), NEW ended, Ages(store, store', ended)
  PROVE  BaseOf(store', script, serial)
BY AgesBase DEF BaseInv, BaseOf

(* The sweep of a step that ends its operation or begins another.          *)
LEMMA AgesLeft ==
  ASSUME BaseInv, ~Awaiting(serial), StoreOK(store'), NEW ended, Ages(store, store', ended)
  PROVE  BaseOf(store', script, Idle)
BY AgesStays, LeaveBase DEF BaseOf

(* The page and what was stored stay.                                      *)
Stays == UNCHANGED <<document, page, batches>> /\ history'.stored = history.stored

(* What a step is, once its parts are.                                     *)
LEMMA BaseGoes ==
  ASSUME Stays, BaseOf(store', script', serial')
  PROVE  BaseInv'
BY DEF Stays, BaseOf, BaseInv

(* A step that only ages the store.                                        *)
LEMMA AgesOnly ==
  ASSUME BaseInv, Stays, UNCHANGED <<script, serial>>, StoreOK(store'), NEW ended,
         Ages(store, store', ended)
  PROVE  BaseInv'
<1>1. BaseOf(store', script, serial)
  BY AgesStays
<1> QED BY <1>1, BaseGoes

(* A step that ages the store and gives up the mutex.                      *)
LEMMA AgesLeaves ==
  ASSUME BaseInv, Stays, ~Awaiting(serial), Left, StoreOK(store'), NEW ended,
         Ages(store, store', ended)
  PROVE  BaseInv'
<1>1. BaseOf(store', script, Idle)
  BY AgesLeft
<1> QED BY <1>1, BaseGoes DEF Left

(* What a configuration says.                                              *)
LEMMA MessageIs ==
  ASSUME NEW st, NEW source \in Sources, NEW excluded, NEW drain \in BOOLEAN
  PROVE  LET m == Config(st, source, excluded, drain)
         IN m.what = "configure" /\ m.source = source /\ m.awaited
BY DEF Config

(* The operations keep the first layer.                                    *)
LEMMA BeginSessionBase ==
  ASSUME BaseInv, BeginSession
  PROVE  BaseInv'
<1>1. Stays
  BY DEF BeginSession, Stays
<1>2. /\ serial.session \in Session /\ serial.context \in Nat \ {0} /\ serial.what = "starting"
      /\ ~Awaiting(serial)
  BY BeginSessionIs
<1>3. CASE store' = store /\ Left
  <2>1. Ages(store, store', {}) /\ StoreOK(store')
    BY <1>3, BaseStoreOK, AgesReflexive
  <2> QED BY <1>1, <1>2, <1>3, <2>1, AgesLeaves
<1>4. ASSUME NEW swept, NEW mid, NEW id,
                 /\ StoreOK(swept) /\ Ages(store, swept, {})
                 /\ StoreOK(mid) /\ Draws(swept, mid, id, serial.context)
                 /\ \/ store' = mid /\ Left
                    \/ /\ StoreOK(store') /\ Starts(mid, store', serial.session, id)
                       /\ Config(store', id, {}, FALSE) \in Message
                       /\ Applied("confirm_start", Config(store', id, {}, FALSE), serial.context)
      PROVE BaseInv'
  <2>1. serial.context <= document /\ (script # <<>> => serial.context = document)
    BY <1>2, BaseParts DEF ScriptsOK, Opening
  <2>2. BaseOf(swept, script, Idle)
    <3>1. BaseOf(store, script, Idle)
      BY <1>2, LeaveBase DEF BaseInv, BaseOf
    <3> QED BY <1>4, <3>1, AgesBase DEF BaseOf
  <2>3. BaseOf(mid, script, Idle)
    BY <1>2, <1>4, <2>1, <2>2, IdleIs, DrawsBase DEF BaseOf
  <2>4. CASE store' = mid /\ Left
    BY <1>1, <2>3, <2>4, BaseGoes DEF Left
  <2>5. CASE /\ StoreOK(store') /\ Starts(mid, store', serial.session, id)
             /\ Config(store', id, {}, FALSE) \in Message
             /\ Applied("confirm_start", Config(store', id, {}, FALSE), serial.context)
    <3>1. SameElse(mid, store') /\ id \in Sources /\ Context(mid, id) = serial.context
          /\ Live(mid, id)
      BY <1>4, <2>5 DEF Draws, Starts, SameElse
    <3>2. BaseOf(store', script, Idle)
      BY <2>3, <2>5, <3>1, SameElseBase DEF BaseOf
    <3>3. Context(store', id) = serial.context /\ id <= store'.drawn /\ serial.context # 0
      BY <1>2, <1>4, <3>1 DEF SameElse, Context, Live, StoreOK, SourcesKnown
    <3> DEFINE config == Config(store', id, {}, FALSE)
    <3>4. config.awaited /\ config.what = "configure" /\ config.source = id /\ config \in Message
      BY <2>5, <3>1, MessageIs
    <3>5. Applied("confirm_start", config, serial.context)
      BY <2>5
    <3> HIDE DEF config
    <3>6. Base(store', document, page, batches, script, Idle, history.stored)
      BY <3>2 DEF BaseOf
    <3>7. BaseOf(store', script', serial')
      BY <3>3, <3>4, <3>5, <3>6, IdleIs, AppliedBase DEF BaseOf
    <3> QED BY <1>1, <3>7, BaseGoes
  <2> QED BY <1>4, <2>4, <2>5
<1> QED BY <1>3, <1>4, BeginSessionIs

LEMMA FollowBase ==
  ASSUME BaseInv, Follow
  PROVE  BaseInv'
<1>1. Stays
  BY DEF Follow, Stays
<1>2. serial.context \in Nat \ {0} /\ serial.what = "following" /\ ~Awaiting(serial)
  BY FollowIs
<1>4. PICK mid, id :
              /\ StoreOK(mid) /\ Draws(store, mid, id, serial.context)
              /\ StoreOK(store') /\ Follows(mid, store', id)
              /\ \/ Left
                 \/ /\ Config(store', id, {}, FALSE) \in Message
                    /\ Applied("confirm_follow", Config(store', id, {}, FALSE), serial.context)
  BY FollowIs
<1>5. serial.context <= document /\ (script # <<>> => serial.context = document)
  BY <1>2, BaseParts DEF ScriptsOK, Opening
<1>6. BaseOf(store, script, Idle)
  BY <1>2, LeaveBase DEF BaseInv, BaseOf
<1>7. BaseOf(mid, script, Idle)
  BY <1>2, <1>4, <1>5, <1>6, IdleIs, DrawsBase DEF BaseOf
<1>8. SameElse(mid, store') /\ id \in Sources /\ Context(mid, id) = serial.context /\ Live(mid, id)
  BY <1>4 DEF Draws, Follows, SameElse
<1>9. BaseOf(store', script, Idle)
  BY <1>4, <1>7, <1>8, SameElseBase DEF BaseOf
<1>10. Context(store', id) = serial.context /\ id <= store'.drawn /\ serial.context # 0
  BY <1>2, <1>4, <1>8 DEF SameElse, Context, Live, StoreOK, SourcesKnown
<1>11. CASE Left
  BY <1>1, <1>9, <1>11, BaseGoes DEF Left
<1>12. CASE /\ Config(store', id, {}, FALSE) \in Message
            /\ Applied("confirm_follow", Config(store', id, {}, FALSE), serial.context)
  <2> DEFINE config == Config(store', id, {}, FALSE)
  <2>1. config.awaited /\ config.what = "configure" /\ config.source = id /\ config \in Message
    BY <1>8, <1>12, MessageIs
  <2>2. Applied("confirm_follow", config, serial.context)
    BY <1>12
  <2> HIDE DEF config
  <2>3. Base(store', document, page, batches, script, Idle, history.stored)
    BY <1>9 DEF BaseOf
  <2>4. BaseOf(store', script', serial')
    BY <1>10, <2>1, <2>2, <2>3, IdleIs, AppliedBase DEF BaseOf
  <2> QED BY <1>1, <2>4, BaseGoes
<1> QED BY <1>4, <1>11, <1>12

(* A configuration of a source that a session observes.                    *)
LEMMA KnownApplied ==
  ASSUME BaseInv, Stays, ~Awaiting(serial), StoreOK(store'), Ages(store, store', {}),
         NEW s \in Retained(store), NEW source \in Sources, Observes(store, s, source), NEW st,
         NEW excluded, Config(st, source, excluded, TRUE) \in Message, NEW then,
         Applied(then, Config(st, source, excluded, TRUE), Context(store, source))
  PROVE  BaseInv'
<1>1. BaseOf(store', script, Idle)
  BY AgesLeft
<1>2. Context(store, source) # 0 /\ source <= store.drawn /\ store'.drawn = store.drawn
  BY BaseStoreOK DEF StoreOK, SourcesKnown, Context, Ages
<1>3. Context(store', source) = Context(store, source)
      \/ \A id \in Sources : Context(store', id) = 0
  BY DEF Ages, SameSources, Released, Context
<1>4. page.source # 0 => page.source \in Sources
  BY BaseParts DEF PageType
<1> DEFINE config == Config(st, source, excluded, TRUE)  context == Context(store, source)
<1>5. config.awaited /\ config.what = "configure" /\ config.source = source /\ config \in Message
  BY MessageIs
<1>6. context = document => /\ Context(store', source) \in {0, document}
                            /\ Context(store', source) = 0 /\ page.source # 0
                                    => ~Live(store', page.source)
  <2> SUFFICES ASSUME context = document
               PROVE  /\ Context(store', source) \in {0, document}
                      /\ Context(store', source) = 0 /\ page.source # 0
                           => ~Live(store', page.source)
    OBVIOUS
  <2>1. CASE Context(store', source) = Context(store, source)
    BY <1>2, <2>1
  <2>2. CASE \A id \in Sources : Context(store', id) = 0
    BY <1>4, <2>2 DEF Live, Context
  <2> QED BY <1>3, <2>1, <2>2
<1>7. Applied(then, config, context)
  OBVIOUS
<1> HIDE DEF config, context
<1>8. Base(store', document, page, batches, script, Idle, history.stored)
  BY <1>1 DEF BaseOf
<1>9. config.source <= store'.drawn
  BY <1>2, <1>5
<1>10. BaseOf(store', script', serial')
  BY <1>5, <1>6, <1>7, <1>8, <1>9, IdleIs, AppliedBase DEF BaseOf
<1> QED BY <1>10, BaseGoes

LEMMA ConfirmStartBase ==
  ASSUME BaseInv, ConfirmStart
  PROVE  BaseInv'
<1>1. Stays
  BY DEF ConfirmStart, Stays
<1>2. ~Awaiting(serial) /\ StoreOK(store') /\ Ages(store, store', {})
  BY ConfirmStartIs
<1>3. CASE Left
  BY <1>1, <1>2, <1>3, AgesLeaves
<1>4. ASSUME NEW source \in Sources,
                 /\ Observes(store, serial.session, source) /\ serial.session \in Retained(store)
                 /\ Config(store, source, {serial.session}, TRUE) \in Message
                 /\ Applied("rolled_back", Config(store, source, {serial.session}, TRUE),
                            Context(store, source))
      PROVE BaseInv'
  BY <1>1, <1>2, <1>4, KnownApplied
<1> QED BY <1>3, <1>4, ConfirmStartIs

LEMMA SendStopBase ==
  ASSUME BaseInv, SendStop
  PROVE  BaseInv'
<1>1. Stays
  BY DEF SendStop, Stays
<1>2. ~Awaiting(serial) /\ StoreOK(store') /\ Ages(store, store', {}) /\ serial.session \in Session
  BY SendStopIs
<1>3. CASE Left
  BY <1>1, <1>2, <1>3, AgesLeaves
<1>4. ASSUME NEW source \in Sources, Capturing(store, serial.session),
                 /\ Observes(store, serial.session, source)
                 /\ Config(store, source, {serial.session}, TRUE) \in Message
                 /\ Applied("confirm_stop", Config(store, source, {serial.session}, TRUE),
                            Context(store, source))
      PROVE BaseInv'
  <2>1. serial.session \in Retained(store)
    BY <1>2, <1>4 DEF Capturing, Retained
  <2> QED BY <1>1, <1>2, <1>4, <2>1, KnownApplied
<1> QED BY <1>3, <1>4, SendStopIs

LEMMA OperationsBase ==
  ASSUME BaseInv, RolledBack \/ ConfirmStop \/ ConfirmFollow \/ Cleaned
  PROVE  BaseInv'
<1>1. Stays
  BY DEF RolledBack, ConfirmStop, ConfirmFollow, Cleaned, Stays
<1>2. ~Awaiting(serial) /\ Left /\ StoreOK(store') /\ \E ended : Ages(store, store', ended)
  BY RolledBackIs, ConfirmStopIs, ConfirmFollowIs, CleanedIs
<1> QED BY <1>1, <1>2, AgesLeaves

LEMMA SweepsBase ==
  ASSUME BaseInv, NEW s \in Session,
         StatusOf(s, TRUE) \/ StatusOf(s, FALSE) \/ SessionDeadline(s) \/ Forgotten(s) \/ Query(s)
  PROVE  BaseInv'
<1>1. Stays /\ UNCHANGED <<script, serial>>
  BY DEF StatusOf, SessionDeadline, Forgotten, Query, Stays
<1>2. StoreOK(store') /\ Ages(store, store', {})
  BY StatusOfIs, DeadlineIs, ForgottenIs, QueryStoreIs
<1> QED BY <1>1, <1>2, AgesOnly

LEMMA StartCaptureBase ==
  ASSUME BaseInv, history \in HistoryType, NEW s \in Session, StartCapture(s)
  PROVE  BaseInv'
<1>1. Stays /\ UNCHANGED <<store, script>> /\ serial = Idle
      /\ serial' = [what |-> "starting", session |-> s, context |-> document]
  BY DEF StartCapture, Stays, Hold, HistoryType
<1>2. /\ serial' \in SerialType /\ serial'.what = "starting" /\ serial'.context = document
      /\ "reply" \notin DOMAIN serial'
  BY <1>1, BaseParts DEF SerialType
<1>3. document <= document
  BY BaseParts
<1>4. BaseOf(store, script, serial')
  BY <1>1, <1>2, <1>3, IdleIs, SerialBase DEF BaseInv, BaseOf
<1> QED BY <1>1, <1>4, BaseGoes

LEMMA StopCaptureBase ==
  ASSUME BaseInv, NEW s \in Session, StopCapture(s)
  PROVE  BaseInv'
<1>1. Stays
  BY DEF StopCapture, Stays
<1>2. /\ serial = Idle /\ script' = script /\ StoreOK(store') /\ Ages(store, store', {})
      /\ \/ serial' \in SerialType /\ serial'.what = "stopping"
         \/ serial' = Idle
  BY StopCaptureIs
<1>3. BaseOf(store', script, Idle)
  BY <1>2, AgesStays
<1>4. CASE serial' = Idle
  BY <1>1, <1>2, <1>3, <1>4, BaseGoes
<1>5. CASE serial' \in SerialType /\ serial'.what = "stopping"
  <2>1. ~Opening(serial') /\ "reply" \notin DOMAIN serial' /\ serial'.what # "following"
    BY <1>5, SerialIs DEF Opening, Answerable, Confirming
  <2>2. BaseOf(store', script, serial')
    BY <1>3, <1>5, <2>1, IdleIs, SerialBase DEF BaseOf
  <2> QED BY <1>1, <1>2, <2>2, BaseGoes
<1> QED BY <1>2, <1>4, <1>5

LEMMA PageHasChangedBase ==
  ASSUME BaseInv, PageHasChanged
  PROVE  BaseInv'
<1>1. Stays
  BY DEF PageHasChanged, Stays
<1>2. /\ serial = Idle /\ script' = script /\ StoreOK(store') /\ Ages(store, store', {})
      /\ \A id \in Sources : ~Live(store', id)
      /\ \/ serial' = serial
         \/ serial' \in SerialType /\ serial'.what = "following" /\ serial'.context = document
  BY PageHasChangedIs
<1>3. BaseOf(store', script, Idle)
  BY <1>2, AgesStays
<1>4. CASE serial' = serial
  BY <1>1, <1>2, <1>3, <1>4, BaseGoes
<1>5. CASE serial' \in SerialType /\ serial'.what = "following" /\ serial'.context = document
  <2>1. "reply" \notin DOMAIN serial'
    BY <1>5, SerialIs DEF Answerable, Confirming
  <2>2. document <= document
    BY BaseParts
  <2>3. BaseOf(store', script, serial')
    BY <1>2, <1>3, <1>5, <2>1, <2>2, IdleIs, SerialBase DEF BaseOf
  <2> QED BY <1>1, <1>2, <2>3, BaseGoes
<1> QED BY <1>2, <1>4, <1>5

LEMMA MaintainBase ==
  ASSUME BaseInv, Maintain
  PROVE  BaseInv'
<1>1. Stays
  BY DEF Maintain, Stays
<1>2. serial = Idle /\ StoreOK(store') /\ Ages(store, store', {})
  BY MaintainIs
<1>3. CASE Left
  BY <1>1, <1>2, <1>3, IdleIs, AgesLeaves
<1>4. ASSUME NEW m \in Message,
                 /\ m.source <= store'.drawn /\ m.what = "expire" /\ m.awaited
                 /\ script' = Append(script, m)
                 /\ serial' \in SerialType /\ serial'.what = "cleaning" /\ Awaiting(serial')
      PROVE BaseInv'
  <2>1. BaseOf(store', script, Idle)
    BY <1>2, AgesStays
  <2>2. BaseOf(store', Append(script, m), serial')
    BY <1>4, <2>1, IdleIs, SendBase DEF BaseOf
  <2> QED BY <1>1, <1>4, <2>2, BaseGoes
<1> QED BY <1>3, <1>4, MaintainIs

LEMMA NavigateBase ==
  ASSUME BaseInv, Navigate
  PROVE  BaseInv'
<1>1. /\ StoreOK(store') /\ Ages(store, store', {}) /\ \A id \in Sources : ~Live(store', id)
      /\ document' = document + 1 /\ page' = OffPage /\ script' = <<>>
      /\ UNCHANGED <<serial, batches, history>>
  BY NavigateIs DEF Navigate
<1>2. Base(store', document, page, batches, script, serial, history.stored)
  BY <1>1, AgesBase DEF BaseInv
<1>3. \A b \in batches : b.source \in Sources
  BY BaseParts DEF BatchType
<1>4. PagePart(store', document + 1, OffPage, batches, history.stored)
  <2>1. PagePart(store', document, page, batches, history.stored) /\ store' \in StoreType
    BY <1>1, <1>2 DEF Base, PagePart, StoreOK
  <2> QED BY <1>1, <1>3, <2>1, BaseParts, NavigatesPart
<1>5. OffPage \in PageType /\ OffPage.leases = {} /\ ~OffPage.drain
  BY DEF OffPage, PageType
<1>6. PageTypeOK(OffPage, <<>>) /\ document + 1 \in Nat \ {0}
  BY <1>5, BaseParts DEF PageTypeOK
<1>7. ScriptsOK(store', document + 1, OffPage, <<>>, serial)
  <2>1. Opening(serial) => serial.context \in Nat /\ serial.context <= document
    BY BaseParts, SerialIs DEF ScriptsOK, Opening
  <2>2. Opening(serial) => serial.context <= document + 1
    BY <2>1, BaseParts
  <2>3. DOMAIN <<>> = {}
    OBVIOUS
  <2> QED BY <1>1, <1>5, <2>2, <2>3 DEF ScriptsOK
<1>8. StoredOK(store', history.stored)
  BY <1>2 DEF Base
<1> QED BY <1>1, <1>4, <1>6, <1>7, <1>8, BaseParts, PartsBase

(* Ingest: after the sweep the batch is refused, or stored.                *)
LEMMA IngestIs ==
  ASSUME BaseInv, history \in HistoryType, NEW b, NEW again \in BOOLEAN, Ingest(b, again)
  PROVE  LET st == Swept(store)
         IN /\ StoreOK(st) /\ Ages(store, st, {}) /\ b \in batches /\ ~b.again
            /\ UNCHANGED <<serial, document, page, script>>
            /\ history'.recorded = history.recorded /\ history'.lost = history.lost
            /\ history'.begun = history.begun /\ history'.loaded = history.loaded
            /\ history' = [history EXCEPT !.stored = history'.stored]
            /\ \/ /\ ~AcceptsSource(st, b.source) /\ store' = st
                  /\ history'.stored = history.stored
                  /\ batches' = (batches \ {b}) \cup {Answered(b, FALSE)}
               \/ /\ AcceptsSource(st, b.source) /\ Live(st, b.source)
                  /\ store' = IngestBatch(st, b)
                  /\ batches' = (batches \ {b}) \cup {Answered(b, TRUE)}
                  /\ history'.stored = history.stored \cup StoredBy(st, b)
<1> DEFINE st == Swept(store)
           accepted == AcceptsSource(st, b.source)
           more == StoredBy(st, b)
           now == IF ~accepted THEN history.stored ELSE history.stored \cup more
<1>1. StoreOK(st) /\ Ages(store, st, {})
  BY BaseStoreOK, SweptAges
<1>2. /\ b \in batches /\ ~b.again /\ (again <=> b.answer # "none")
      /\ store' = IF accepted THEN IngestBatch(st, b) ELSE st
      /\ UNCHANGED <<serial, document, page, script>>
  BY DEF Ingest
<1>3. history' = [history EXCEPT !.stored = now]
  BY DEF Ingest, HistoryType, StoredBy
<1>4. batches' = (batches \ {b}) \cup
             {[b EXCEPT !.answer = IF accepted THEN "continue" ELSE "end", !.again = again]}
  BY DEF Ingest
<1>5. accepted => Live(st, b.source)
  BY DEF AcceptsSource, Live
<1>6. batches' = (batches \ {b}) \cup {Answered(b, accepted)}
  <2>1. again = (b.answer # "none")
    BY <1>2
  <2> QED BY <1>4, <2>1 DEF Answered
<1> HIDE DEF st, accepted, more
<1>7. /\ history'.recorded = history.recorded /\ history'.lost = history.lost
      /\ history'.begun = history.begun /\ history'.loaded = history.loaded
      /\ history'.stored = now
  BY <1>3 DEF HistoryType
<1>8. history' = [history EXCEPT !.stored = history'.stored]
  BY <1>3, <1>7
<1>9. CASE accepted
  <2>1. batches' = (batches \ {b}) \cup {Answered(b, TRUE)}
    BY <1>6, <1>9 DEF Answered
  <2> QED BY <1>1, <1>2, <1>5, <1>7, <1>8, <1>9, <2>1 DEF st, accepted, more
<1>10. CASE ~accepted
  <2>1. batches' = (batches \ {b}) \cup {Answered(b, FALSE)}
    BY <1>6, <1>10 DEF Answered
  <2> QED BY <1>1, <1>2, <1>7, <1>8, <1>10, <2>1 DEF st, accepted
<1> QED BY <1>9, <1>10

(* And keeps the first layer.                                              *)
LEMMA IngestActionBase ==
  ASSUME BaseInv, history \in HistoryType, NEW b, NEW again \in BOOLEAN, Ingest(b, again)
  PROVE  BaseInv'
<1> DEFINE st == Swept(store)
<1>1. /\ StoreOK(st) /\ Ages(store, st, {}) /\ b \in batches /\ ~b.again
      /\ UNCHANGED <<serial, document, page, script>>
      /\ \/ /\ store' = st /\ history'.stored = history.stored
            /\ batches' = (batches \ {b}) \cup {Answered(b, FALSE)}
         \/ /\ Live(st, b.source) /\ store' = IngestBatch(st, b)
            /\ batches' = (batches \ {b}) \cup {Answered(b, TRUE)}
            /\ history'.stored = history.stored \cup StoredBy(st, b)
  <2>1.  /\ StoreOK(st) /\ Ages(store, st, {}) /\ b \in batches /\ ~b.again
            /\ UNCHANGED <<serial, document, page, script>>
            /\ history'.recorded = history.recorded /\ history'.lost = history.lost
            /\ history'.begun = history.begun /\ history'.loaded = history.loaded
            /\ history' = [history EXCEPT !.stored = history'.stored]
            /\ \/ /\ ~AcceptsSource(st, b.source) /\ store' = st
                  /\ history'.stored = history.stored
                  /\ batches' = (batches \ {b}) \cup {Answered(b, FALSE)}
               \/ /\ AcceptsSource(st, b.source) /\ Live(st, b.source)
                  /\ store' = IngestBatch(st, b)
                  /\ batches' = (batches \ {b}) \cup {Answered(b, TRUE)}
                  /\ history'.stored = history.stored \cup StoredBy(st, b)
    BY IngestIs
  <2> HIDE DEF st
  <2> QED BY <2>1
<1> HIDE DEF st
<1>2. Base(st, document, page, batches, script, serial, history.stored)
  BY <1>1, AgesBase DEF BaseInv
<1>3. CASE /\ store' = st /\ history'.stored = history.stored
           /\ batches' = (batches \ {b}) \cup {Answered(b, FALSE)}
  BY <1>1, <1>2, <1>3, RefusedBase DEF BaseInv
<1>4. CASE /\ Live(st, b.source) /\ store' = IngestBatch(st, b)
           /\ batches' = (batches \ {b}) \cup {Answered(b, TRUE)}
           /\ history'.stored = history.stored \cup StoredBy(st, b)
  <2> DEFINE stored == history.stored  doc == document  bs == batches
  <2> HIDE DEF stored, doc, bs
  <2>2. Base(st, doc, page, bs, script, serial, stored) /\ b \in bs /\ ~b.again /\ Live(st, b.source)
    BY <1>1, <1>2, <1>4 DEF stored, doc, bs
  <2>3. Base(IngestBatch(st, b), doc, page, (bs \ {b}) \cup {Answered(b, TRUE)}, script, serial,
             stored \cup StoredBy(st, b))
    BY <2>2, IngestBase
  <2>1. LET t == IngestBatch(st, b)
             now == history.stored \cup StoredBy(st, b)
        IN Base(t, document, page, (batches \ {b}) \cup {Answered(b, TRUE)}, script, serial, now)
    BY <2>3 DEF stored, doc, bs
  <2> QED BY <1>1, <1>4, <2>1 DEF BaseInv
<1> QED BY <1>1, <1>3, <1>4

-----------------------------------------------------------------------------
(* The readers                                                             *)

(* A store that ages has its readers miss nothing.                         *)
LEMMA ReadersAge ==
  ASSUME NEW st, NEW t, NEW ended, StoreOK(st), Ages(st, t, ended), NEW stored, NEW rd,
         ReadersOK(st, stored, rd)
  PROVE  ReadersOK(t, stored, rd)
<1>1. t.sequence = st.sequence
  BY DEF Ages
<1>2. ASSUME NEW s \in Retained(t)
      PROVE  /\ s \in Session /\ s \in Retained(st) /\ t.session[s].start = st.session[s].start
             /\ \A id : Observes(t, s, id) <=> Observes(st, s, id)
             /\ \/ Capturing(st, s)
                \/ ~Capturing(t, s) /\ t.session[s].end = st.session[s].end
  BY DEF Ages, Goes, Retained, Observes, Capturing
<1> QED BY <1>1, <1>2 DEF ReadersOK

(* Nor does one that draws a source.                                       *)
LEMMA ReadersDraw ==
  ASSUME NEW st, NEW t, NEW id, NEW context, Draws(st, t, id, context), NEW stored, NEW rd,
         ReadersOK(st, stored, rd)
  PROVE  ReadersOK(t, stored, rd)
<1>1. t.session = st.session /\ t.sequence = st.sequence
  BY DEF Draws, DrawsNew
<1> QED BY <1>1 DEF ReadersOK, Retained, Observes, Capturing

(* Nor one that starts a session, which begins after all that is stored.   *)
LEMMA ReadersStart ==
  ASSUME NEW st, NEW t, NEW s \in Session, NEW id \in Sources, Starts(st, t, s, id), StoreOK(st),
         NEW stored, stored \subseteq Event, NEW rd, rd \in ReadingType, ReadersOK(st, stored, rd)
  PROVE  ReadersOK(t, stored, rd)
<1>1. st.sequence \in Nat
  BY DEF StoreOK, StoreType
<1>2. t.session[s].start = st.sequence + 1
  BY <1>1, FirstSession DEF Starts
<1>3. \A r \in Session : rd[r].cursor \in Nat /\ rd[r].cursor <= st.sequence
  BY DEF ReadingType, ReadersOK
<1>4. \A k \in stored : k.seq \in Nat
  BY DEF Event
<1>5. \A k \in stored : ~(t.session[s].start <= k.seq /\ k.seq <= rd[s].cursor)
  BY <1>1, <1>2, <1>3, <1>4
<1>6. \A r \in Session \ {s} : /\ r \in Retained(t) <=> r \in Retained(st)
                               /\ t.session[r] = st.session[r]
                               /\ \A jd : Observes(t, r, jd) <=> Observes(st, r, jd)
                               /\ Capturing(t, r) <=> Capturing(st, r)
  BY DEF Starts, Retained, Observes, Capturing
<1>7. t.sequence = st.sequence
  BY DEF Starts
<1>8. ASSUME NEW r \in Retained(t), ~rd[r].gap, NEW k \in stored,
             Observes(t, r, k.source), t.session[r].start <= k.seq, k.seq <= rd[r].cursor,
             Capturing(t, r) \/ k.seq <= t.session[r].end
      PROVE  k \in rd[r].given
  <2>1. r # s /\ r \in Session
    BY <1>5, <1>8 DEF Retained
  <2> QED BY <1>6, <1>8, <2>1 DEF ReadersOK
<1> QED BY <1>3, <1>7, <1>8 DEF ReadersOK

(* Nor one that lets sessions observe a source that nothing is stored of.  *)
LEMMA ReadersFollow ==
  ASSUME NEW st, NEW mid, NEW t, NEW id \in Sources, NEW context, DrawsNew(st, mid, id, context),
         Follows(mid, t, id), StoreOK(st), StoreOK(mid),
         NEW stored, stored \subseteq Event, StoredOK(st, stored), NEW rd, ReadersOK(st, stored, rd)
  PROVE  ReadersOK(t, stored, rd)
<1>1. \A k \in stored : k.source # id
  <2> SUFFICES ASSUME NEW k \in stored PROVE k.source # id
    OBVIOUS
  <2>1. k.source <= st.drawn /\ k.source \in Nat /\ st.drawn \in Nat /\ id = st.drawn + 1
    BY DEF StoredOK, Event, Sources, StoreOK, StoreType, DrawsNew
  <2> QED BY <2>1
<1>2. mid.session = st.session /\ mid.sequence = st.sequence /\ t.sequence = mid.sequence
  BY DEF DrawsNew, Follows
<1>3. ASSUME NEW s \in Session
      PROVE  /\ s \in Retained(t) <=> s \in Retained(st)
             /\ t.session[s].start = st.session[s].start /\ t.session[s].end = st.session[s].end
             /\ Capturing(t, s) <=> Capturing(st, s)
             /\ \A jd : Observes(t, s, jd) /\ jd # id => Observes(st, s, jd)
  <2> DEFINE q == st.session[s].sources  p == t.session[s].sources
  <2>1. q \in Seq(Sources)
    BY DEF StoreOK, StoreType, SessionType
  <2>2. p = q \/ p = Append(q, id)
    BY <1>2 DEF Follows
  <2>3. ASSUME NEW jd, jd # id, NEW i \in DOMAIN p, p[i] = jd PROVE \E j \in DOMAIN q : q[j] = jd
    <3> HIDE DEF p, q
    <3>1. CASE p = q
      BY <2>3, <3>1
    <3>2. CASE p = Append(q, id)
      <4>1. i \in 1..(Len(q) + 1) /\ i # Len(q) + 1
        BY <2>1, <2>3, <3>2
      <4>2. i \in DOMAIN q /\ q[i] = jd
        BY <2>1, <2>3, <3>2, <4>1
      <4> QED BY <4>2
    <3> QED BY <2>2, <3>1, <3>2
  <2>4. \A jd : Observes(t, s, jd) /\ jd # id => Observes(st, s, jd)
    BY <2>3 DEF Observes
  <2> QED BY <1>2, <2>4 DEF Follows, Retained, Capturing
<1>4. \A s \in Retained(t) : s \in Session
  BY DEF Retained
<1> QED BY <1>1, <1>2, <1>3, <1>4 DEF ReadersOK

(* Nor one that adds events, which are behind every cursor.                *)
LEMMA ReadersAdd ==
  ASSUME NEW st, NEW t, NEW new \in SUBSET Event, Adds(st, t, new), StoreOK(st), StoreOK(t),
         NEW stored, NEW rd, rd \in ReadingType, ReadersOK(st, stored, rd)
  PROVE  ReadersOK(t, stored \cup new, rd)
<1>1. st.sequence \in Nat /\ t.sequence \in Nat /\ st.sequence <= t.sequence
  BY DEF StoreOK, StoreType, Adds
<1>2. \A s \in Session : rd[s].cursor \in Nat /\ rd[s].cursor <= st.sequence
  BY DEF ReadingType, ReadersOK
<1>3. \A s \in Session : rd[s].cursor <= t.sequence
  BY <1>1, <1>2
<1>4. \A s \in Session : \A k \in new : ~(k.seq <= rd[s].cursor)
  <2> SUFFICES ASSUME NEW s \in Session, NEW k \in new PROVE ~(k.seq <= rd[s].cursor)
    OBVIOUS
  <2>1. st.sequence < k.seq /\ k.seq \in Nat
    BY DEF Adds, Event
  <2> QED BY <1>1, <1>2, <2>1
<1>5. \A s \in Session : /\ s \in Retained(t) <=> s \in Retained(st)
                         /\ t.session[s].start = st.session[s].start
                         /\ t.session[s].end = st.session[s].end
                         /\ Capturing(t, s) <=> Capturing(st, s)
                         /\ \A jd : Observes(t, s, jd) <=> Observes(st, s, jd)
  BY DEF Adds, Counts, Retained, Capturing, Observes
<1>6. \A s \in Retained(t) : s \in Session
  BY DEF Retained
<1> QED BY <1>3, <1>4, <1>5, <1>6 DEF ReadersOK

(* The events of the store by their numbers.                               *)
LEMMA EventsBySeq ==
  ASSUME NEW st, StoreOK(st)
  PROVE  /\ ToSet(st.events) \subseteq Event
         /\ \A k \in ToSet(st.events) : k.seq <= st.sequence
         /\ \A k, l \in ToSet(st.events) : k.seq = l.seq => k = l
         /\ st.events # <<>> => /\ Head(st.events).seq \in Nat
                                /\ Head(st.events).seq + Len(st.events) = st.sequence + 1
<1> DEFINE q == st.events
<1>1. q \in Seq(Event) /\ st.sequence \in Nat
  BY DEF StoreOK, StoreType
<1>2. \A i \in DOMAIN q : q[i].seq + Len(q) = st.sequence + i
  BY DEF StoreOK, Consecutive
<1> HIDE DEF q
<1>3. Len(q) \in Nat /\ DOMAIN q = 1..Len(q) /\ \A i \in 1..Len(q) : q[i] \in Event
  BY <1>1
<1>4. \A k \in ToSet(q) : \E i \in 1..Len(q) : k = q[i]
  BY <1>3 DEF ToSet
<1>5. ASSUME NEW i \in 1..Len(q) PROVE q[i] \in Event /\ q[i].seq \in Nat /\ q[i].seq <= st.sequence
  <2>1. q[i] \in Event /\ q[i].seq \in Nat
    BY <1>3 DEF Event
  <2> DEFINE a == q[i].seq  l == Len(q)  m == st.sequence
  <2>2. a \in Nat /\ l \in Nat /\ m \in Nat /\ i \in 1..l /\ a + l = m + i
    BY <1>1, <1>2, <1>3, <2>1
  <2> HIDE DEF a, l, m
  <2>3. a <= m
    BY <2>2
  <2> QED BY <2>1, <2>3 DEF a, m
<1>6. ASSUME NEW i \in 1..Len(q), NEW j \in 1..Len(q), q[i].seq = q[j].seq PROVE i = j
  <2> DEFINE a == q[i].seq  l == Len(q)  m == st.sequence
  <2>2. a \in Nat /\ l \in Nat /\ m \in Nat /\ i \in Nat /\ j \in Nat /\ a + l = m + i /\ a + l = m + j
    BY <1>1, <1>2, <1>3, <1>5, <1>6
  <2> HIDE DEF a, l, m
  <2> QED BY <2>2
<1>7. q # <<>> => Head(q).seq \in Nat /\ Head(q).seq + Len(q) = st.sequence + 1
  <2> SUFFICES ASSUME q # <<>> PROVE Head(q).seq \in Nat /\ Head(q).seq + Len(q) = st.sequence + 1
    OBVIOUS
  <2>1. Head(q) = q[1] /\ 1 \in 1..Len(q)
    BY <1>1
  <2> QED BY <1>2, <1>3, <1>5, <2>1
<1> QED BY <1>4, <1>5, <1>6, <1>7 DEF q

(* Query: what is given reaches to the cursor, or a gap is told.           *)
LEMMA QueryIs ==
  ASSUME BaseInv, reading \in ReadingType, ReadersOK(store, history.stored, reading),
         NEW s \in Session, Query(s)
  PROVE  reading' \in ReadingType /\ ReadersOK(store', history'.stored, reading')
<1> DEFINE st == Swept(store)
           me == st.session[s]
           cursor == reading[s].cursor
           asked == Max({cursor, me.start - 1})
           first == IF st.events = <<>> THEN st.sequence + 1 ELSE Head(st.events).seq
           oldest == Max({first, me.start})
           mine == {e \in ToSet(st.events) :
                    /\ e.seq > asked /\ e.seq >= me.start
                    /\ Capturing(st, s) \/ e.seq <= me.end}
           next == {e \in mine : Observes(st, s, e.source)}
           given == {e \in next : \A f \in next : e.seq <= f.seq}
           passed == {e.seq : e \in {f \in mine : \A e \in given : f.seq <= e.seq}}
           all == {asked, oldest - 1} \cup passed
           now == Max(all)
           gap == reading[s].gap \/ Gap(asked, oldest)
           mark == [cursor |-> now, given |-> reading[s].given \cup given, gap |-> gap]
           stored == history.stored
<1>1. /\ s \in Retained(st) /\ store' = st /\ UNCHANGED history
      /\ reading' = [reading EXCEPT ![s] = [cursor |-> now, given |-> @.given \cup given,
                                            gap |-> @.gap \/ Gap(asked, oldest)]]
  BY DEF Query
<1>2. reading' = [reading EXCEPT ![s] = mark]
  BY <1>1 DEF ReadingType
<1>3. StoreOK(st) /\ StoredOK(st, stored) /\ ReadersOK(st, stored, reading) /\ stored \subseteq Event
  <2>1. StoreOK(st) /\ Ages(store, st, {})
    BY BaseStoreOK, SweptAges
  <2> HIDE DEF st
  <2>2. Base(st, document, page, batches, script, serial, history.stored)
    BY <2>1, AgesBase DEF BaseInv
  <2> QED BY <2>1, <2>2, BaseStoreOK, ReadersAge DEF Base, PartsTyped
<1> HIDE DEF st, stored
<1>4. /\ st.sequence \in Nat /\ me.start \in Nat /\ 1 <= me.start /\ me.start <= st.sequence + 1
      /\ cursor \in Nat /\ cursor <= st.sequence
  BY <1>1, <1>3 DEF StoreOK, StoreType, SessionType, RangesOK, ReadersOK, ReadingType
<1>5. first \in Nat /\ first <= st.sequence + 1 /\ (first + Len(st.events) = st.sequence + 1)
  <2>1. Len(st.events) \in Nat
    BY <1>3 DEF StoreOK, StoreType
  <2>2. CASE st.events = <<>>
    BY <1>4, <2>2
  <2>3. CASE st.events # <<>>
    BY <1>3, <1>4, <2>1, <2>3, EventsBySeq
  <2> QED BY <2>2, <2>3
<1> HIDE DEF first
<1>6. /\ asked \in Nat /\ asked <= st.sequence /\ cursor <= asked /\ me.start - 1 <= asked
      /\ asked = cursor \/ asked = me.start - 1
  <2> DEFINE a == me.start - 1
  <2>1. a \in Nat /\ a <= st.sequence
    BY <1>4
  <2> HIDE DEF a
  <2>2. Max({cursor, a}) = IF cursor <= a THEN a ELSE cursor
    BY <1>4, <2>1, GreaterOf
  <2> QED BY <1>4, <2>1, <2>2 DEF a
<1>7. /\ oldest \in Nat /\ oldest <= st.sequence + 1 /\ first <= oldest /\ 1 <= oldest
  <2>1. Max({first, me.start}) = IF first <= me.start THEN me.start ELSE first
    BY <1>4, <1>5, GreaterOf
  <2> QED BY <1>4, <1>5, <2>1
<1> HIDE DEF me, cursor, asked, oldest
<1>8. mine \subseteq Event /\ \A e \in mine : e.seq \in Nat /\ e.seq <= st.sequence
  BY <1>3, EventsBySeq DEF Event
<1>9. given \subseteq mine /\ given \subseteq next
  OBVIOUS
<1>10. passed \subseteq 0..st.sequence
  BY <1>4, <1>8
<1>11. all \subseteq 0..st.sequence /\ all # {}
  BY <1>4, <1>6, <1>7, <1>10
<1> HIDE DEF mine
<1>12. now \in all /\ (\A m \in all : m <= now) /\ now \in Nat /\ now <= st.sequence
  <2> HIDE DEF all
  <2> DEFINE bound == st.sequence
  <2>1. bound \in Nat /\ all \subseteq 0..bound /\ all # {}
    BY <1>4, <1>11
  <2> HIDE DEF all, bound
  <2>2. Max(all) \in all /\ (\A m \in all : m <= Max(all))
    BY <2>1, GreatestIs
  <2>3. now \in all /\ (\A m \in all : m <= now)
    BY <2>2
  <2>5. \A m \in all : m \in Nat /\ m <= bound
    BY <2>1
  <2>4. now \in Nat /\ now <= bound
    BY <2>5, <2>3, Zenon
  <2> QED BY <2>3, <2>4 DEF bound
<1>13. ASSUME ~gap, NEW k \in stored, Observes(st, s, k.source), me.start <= k.seq, k.seq <= now,
              Capturing(st, s) \/ k.seq <= me.end
       PROVE  k \in reading[s].given \cup given
  <2>1. k \in Event /\ k.seq \in Nat
    BY <1>3 DEF Event
  <2>2. ~reading[s].gap /\ oldest - 1 <= asked
    BY <1>6, <1>7, <1>13 DEF Gap
  <2>3. CASE k.seq <= asked
    <3>1. k.seq <= cursor
      BY <1>4, <1>6, <1>13, <2>1, <2>3
    <3> QED BY <1>1, <1>3, <1>13, <2>2, <3>1 DEF ReadersOK, cursor, me
  <2>4. CASE k.seq > asked
    <3>1. k \in ToSet(st.events)
      <4>1. k.seq + Len(st.events) > st.sequence
        <5> DEFINE l == Len(st.events)  m == st.sequence  a == k.seq
        <5>1. l \in Nat /\ m \in Nat /\ a \in Nat /\ first + l = m + 1 /\ a >= first
          <6>1. l \in Nat
            BY <1>3 DEF StoreOK, StoreType
          <6> QED BY <1>4, <1>5, <1>6, <1>7, <2>1, <2>2, <2>4, <6>1
        <5> HIDE DEF l, m, a
        <5>2. a + l > m
          BY <1>5, <5>1
        <5> QED BY <5>2 DEF a, l, m
      <4> QED BY <1>3, <4>1 DEF StoredOK
    <3>2. k \in mine /\ k \in next
      BY <1>13, <2>1, <2>4, <3>1, <1>4 DEF mine
    <3>3. PICK g \in given : TRUE
      <4> DEFINE N == {e.seq : e \in next}
      <4>1. N \in SUBSET Nat /\ N # {}
        BY <1>8, <3>2
      <4>2. PICK n \in N : \A m \in N : n <= m
        BY <4>1, LeastNatural
      <4>3. PICK e \in next : e.seq = n
        OBVIOUS
      <4>4. \A f \in next : e.seq <= f.seq
        BY <4>2, <4>3
      <4> QED BY <4>3, <4>4
    <3>4. g.seq <= k.seq /\ g \in mine
      BY <3>2, <3>3
    <3>5. now \in passed
      <4>1. k.seq \in Nat /\ now # asked /\ now # oldest - 1
        BY <1>6, <1>7, <1>12, <1>13, <2>1, <2>2, <2>4
      <4> QED BY <1>12, <4>1
    <3>6. now <= g.seq
      BY <3>3, <3>5
    <3>7. k.seq = g.seq
      BY <1>8, <1>12, <1>13, <2>1, <3>4, <3>6
    <3>8. k = g
      BY <1>3, <3>1, <3>4, <3>7, EventsBySeq DEF mine
    <3> QED BY <3>3, <3>8
  <2> QED BY <1>6, <2>1, <2>3, <2>4
<1> HIDE DEF given, now, gap
<1>14. mark \in [cursor : Nat, given : SUBSET Event, gap : BOOLEAN]
  <2>1. reading[s] \in [cursor : Nat, given : SUBSET Event, gap : BOOLEAN]
    BY DEF ReadingType
  <2>2. gap \in BOOLEAN
    BY <2>1 DEF gap, Gap
  <2>3. reading[s].given \cup given \in SUBSET Event
    BY <1>8, <1>9, <2>1
  <2> QED BY <1>12, <2>2, <2>3
<1>15. mark.cursor = now /\ mark.given = reading[s].given \cup given /\ (mark.gap <=> gap)
  OBVIOUS
<1> HIDE DEF mark
<1>16. reading' \in ReadingType
  BY <1>2, <1>14 DEF ReadingType
<1>17. reading'[s] = mark /\ \A r \in Session \ {s} : reading'[r] = reading[r]
  BY <1>2 DEF ReadingType
<1>18. \A r \in Session : reading'[r].cursor <= st.sequence
  BY <1>3, <1>12, <1>15, <1>17 DEF ReadersOK
<1>19. ASSUME NEW r \in Retained(st), ~reading'[r].gap, NEW k \in stored,
             Observes(st, r, k.source), st.session[r].start <= k.seq, k.seq <= reading'[r].cursor,
             Capturing(st, r) \/ k.seq <= st.session[r].end
       PROVE k \in reading'[r].given
  <2>1. CASE r = s
    BY <1>13, <1>15, <1>17, <1>19, <2>1 DEF me
  <2>2. CASE r # s
    <3>1. r \in Session
      BY DEF Retained
    <3> QED BY <1>3, <1>17, <1>19, <2>2, <3>1 DEF ReadersOK
  <2> QED BY <2>1, <2>2
<1>20. ReadersOK(st, stored, reading')
  BY <1>18, <1>19 DEF ReadersOK
<1> QED BY <1>1, <1>16, <1>20 DEF stored

-----------------------------------------------------------------------------
(* The readers miss nothing                                                *)

(* The invariant of the readers, but for the count of disturbances.        *)
ReadInv ==
  /\ BaseInv /\ moved \in BOOLEAN /\ permitted \in BOOLEAN
  /\ reading \in ReadingType /\ history \in HistoryType
  /\ ReadersOK(store, history.stored, reading)

(* It implies the types.                                                   *)
LEMMA ReadInvTyped ==
  ASSUME ReadInv, trouble \in Nat
  PROVE  CaptureTypeOK
BY BaseParts DEF ReadInv, CaptureTypeOK

(* A step that ages the store keeps it.                                    *)
LEMMA AgesRead ==
  ASSUME ReadInv, BaseInv', NEW ended, Ages(store, store', ended),
         moved' \in BOOLEAN, permitted' \in BOOLEAN, reading' = reading, SameHistory
  PROVE  ReadInv'
<1>1. StoreOK(store) /\ ReadersOK(store, history.stored, reading)
  BY BaseStoreOK DEF ReadInv
<1>2. ReadersOK(store', history.stored, reading)
  BY <1>1, ReadersAge
<1> QED BY <1>2 DEF ReadInv, SameHistory

(* So does one that leaves the store alone.                                *)
LEMMA StaysRead ==
  ASSUME ReadInv, BaseInv', store' = store,
         moved' \in BOOLEAN, permitted' \in BOOLEAN, reading' = reading, SameHistory
  PROVE  ReadInv'
<1>1. Ages(store, store', {})
  BY BaseStoreOK, AgesReflexive DEF ReadInv
<1> QED BY <1>1, AgesRead

(* The sweeps and what the mutex is held for.                              *)
LEMMA OperationsRead ==
  ASSUME ReadInv,
         \/ \E s \in Session : \/ StopCapture(s) \/ StatusOf(s, TRUE) \/ StatusOf(s, FALSE)
                               \/ SessionDeadline(s) \/ Forgotten(s)
         \/ ConfirmStart \/ RolledBack \/ SendStop \/ ConfirmStop \/ PageHasChanged
         \/ ConfirmFollow \/ Maintain \/ Cleaned \/ Navigate
  PROVE  ReadInv'
<1>1. BaseInv
  BY DEF ReadInv
<1>2. history' = history /\ reading' = reading /\ permitted' = permitted /\ moved' \in {moved, FALSE}
  BY DEF StopCapture, StatusOf, SessionDeadline, Forgotten, ConfirmStart, RolledBack, SendStop,
         ConfirmStop, PageHasChanged, ConfirmFollow, Maintain, Cleaned, Navigate
<1>3. SameHistory /\ moved' \in BOOLEAN /\ permitted' \in BOOLEAN
  BY <1>2 DEF ReadInv, SameHistory
<1>4. CASE \E s \in Session : \/ StopCapture(s) \/ StatusOf(s, TRUE) \/ StatusOf(s, FALSE)
                              \/ SessionDeadline(s) \/ Forgotten(s)
  <2>1. PICK s \in Session : \/ StopCapture(s) \/ StatusOf(s, TRUE) \/ StatusOf(s, FALSE)
                             \/ SessionDeadline(s) \/ Forgotten(s)
    BY <1>4
  <2>2. BaseInv'
    BY <1>1, <2>1, SweepsBase, StopCaptureBase
  <2>3. Ages(store, store', {})
    BY <1>1, <2>1, StopCaptureIs, StatusOfIs, DeadlineIs, ForgottenIs
  <2> QED BY <1>2, <1>3, <2>2, <2>3, AgesRead
<1>5. CASE ConfirmStart
  BY <1>1, <1>2, <1>3, <1>5, ConfirmStartIs, ConfirmStartBase, AgesRead
<1>6. CASE RolledBack
  BY <1>1, <1>2, <1>3, <1>6, RolledBackIs, OperationsBase, AgesRead
<1>7. CASE SendStop
  BY <1>1, <1>2, <1>3, <1>7, SendStopIs, SendStopBase, AgesRead
<1>8. CASE ConfirmStop
  BY <1>1, <1>2, <1>3, <1>8, ConfirmStopIs, OperationsBase, AgesRead
<1>9. CASE PageHasChanged
  BY <1>1, <1>2, <1>3, <1>9, PageHasChangedIs, PageHasChangedBase, AgesRead
<1>10. CASE ConfirmFollow
  BY <1>1, <1>2, <1>3, <1>10, ConfirmFollowIs, OperationsBase, AgesRead
<1>11. CASE Maintain
  BY <1>1, <1>2, <1>3, <1>11, MaintainIs, MaintainBase, AgesRead
<1>12. CASE Cleaned
  BY <1>1, <1>2, <1>3, <1>12, CleanedIs, OperationsBase, AgesRead
<1>13. CASE Navigate
  BY <1>1, <1>2, <1>3, <1>13, NavigateIs, NavigateBase, AgesRead
<1> QED BY <1>4, <1>5, <1>6, <1>7, <1>8, <1>9, <1>10, <1>11, <1>12, <1>13

(* What happens in the page.                                               *)
LEMMA PageRead ==
  ASSUME ReadInv, CaptureTypeOK,
         \/ \E s \in Session : LeaseEnds(s)
         \/ \E b \in batches : AckBatch(b) \/ BatchRejected(b)
         \/ Record(TRUE) \/ Record(FALSE) \/ Flush \/ ExpireLeases
         \/ Configure("ok") \/ Configure("failed") \/ DrainTimesOut \/ ApplyTimesOut
  PROVE  ReadInv'
<1>1. BaseInv
  BY DEF ReadInv
<1>2. UNCHANGED <<store, reading, moved, permitted>>
  BY DEF LeaseEnds, AckBatch, BatchRejected, Record, Flush, ExpireLeases, Configure, DrainTimesOut,
         ApplyTimesOut
<1>3. moved' \in BOOLEAN /\ permitted' \in BOOLEAN
  BY <1>2 DEF ReadInv
<1>4. BaseInv'
  BY <1>1, LeaseEndsBase, AckBatchBase, RecordBase, FlushBase, ExpireLeasesBase, ConfigureBase,
     TimesOutBase
<1>5. SameHistory \/ (history'.stored = history.stored /\ history' \in HistoryType)
  <2>1. CASE \E s \in Session : LeaseEnds(s)
    BY <2>1, LeaseEndsIs
  <2>2. CASE \E b \in batches : AckBatch(b) \/ BatchRejected(b)
    BY <2>2, AckBatchIs, BatchRejectedIs
  <2>3. CASE Record(TRUE) \/ Record(FALSE)
    BY <2>3, RecordIs
  <2>4. CASE ExpireLeases
    BY <1>1, <2>4, ExpireLeasesIs, NoDrain
  <2>5. CASE Flush \/ Configure("ok") \/ Configure("failed") \/ DrainTimesOut \/ ApplyTimesOut
    BY <2>5, StaysIs DEF Flush, Configure, DrainTimesOut, ApplyTimesOut, CaptureTypeOK
  <2> QED BY <2>1, <2>2, <2>3, <2>4, <2>5
<1> QED BY <1>2, <1>3, <1>4, <1>5 DEF ReadInv, SameHistory

(* What happens around the host and the page.                              *)
LEMMA SurroundingsRead ==
  ASSUME ReadInv, \/ \E s \in Session : StartCapture(s)
                  \/ LoadFinished \/ RevokeDomain
  PROVE  ReadInv'
<1>1. CASE \E s \in Session : StartCapture(s)
  <2>1. PICK s \in Session : StartCapture(s)
    BY <1>1
  <2> DEFINE begun == [history.begun EXCEPT ![s] = TRUE]
  <2>2. history' = [history EXCEPT !.begun = begun] /\ UNCHANGED <<store, moved, permitted, reading>>
    BY <2>1 DEF StartCapture
  <2>3. begun \in [Session -> BOOLEAN] /\ history \in HistoryType
    BY DEF ReadInv, HistoryType
  <2> HIDE DEF begun
  <2>4. history' \in HistoryType /\ history'.stored = history.stored
    BY <2>2, <2>3 DEF HistoryType
  <2>5. BaseInv'
    BY <2>1, <2>3, StartCaptureBase DEF ReadInv
  <2> QED BY <2>2, <2>4, <2>5 DEF ReadInv
<1>2. CASE LoadFinished
  <2>1. history' = [history EXCEPT !.loaded = document] /\ moved' = TRUE
        /\ UNCHANGED <<store, serial, permitted, document, page, script, batches, reading>>
    BY <1>2 DEF LoadFinished
  <2>2. document \in Nat /\ history \in HistoryType
    BY BaseParts DEF ReadInv
  <2>3. history' \in HistoryType /\ history'.stored = history.stored
    BY <2>1, <2>2 DEF HistoryType
  <2> QED BY <2>1, <2>3 DEF ReadInv, BaseInv
<1>3. CASE RevokeDomain
  BY <1>3 DEF RevokeDomain, ReadInv, BaseInv
<1> QED BY <1>1, <1>2, <1>3

(* The steps that give a source, a session or an event, and the reader's   *)
(* own.                                                                    *)
LEMMA BeginSessionRead ==
  ASSUME ReadInv, BeginSession
  PROVE  ReadInv'
<1>1. BaseInv /\ BaseInv'
  BY BeginSessionBase DEF ReadInv
<1>2. UNCHANGED <<moved, permitted, reading, history>>
  BY DEF BeginSession
<1>3. StoreOK(store) /\ history.stored \subseteq Event
  BY <1>1, BaseParts
<1>4. ReadersOK(store', history.stored, reading)
  <2>1. CASE store' = store
    BY <2>1 DEF ReadInv
  <2>2. ASSUME NEW swept, NEW mid, NEW id,
               StoreOK(swept), Ages(store, swept, {}), StoreOK(mid),
               Draws(swept, mid, id, serial.context),
               store' = mid \/ Starts(mid, store', serial.session, id)
        PROVE  ReadersOK(store', history.stored, reading)
    <3>1. ReadersOK(swept, history.stored, reading)
      BY <1>3, <2>2, ReadersAge DEF ReadInv
    <3>2. ReadersOK(mid, history.stored, reading)
      BY <2>2, <3>1, ReadersDraw
    <3>3. id \in Sources /\ serial.session \in Session
      BY <1>1, <2>2, BeginSessionIs DEF Draws
    <3> QED BY <1>3, <2>2, <3>2, <3>3, ReadersStart DEF ReadInv
  <2> QED BY <1>1, <2>1, <2>2, BeginSessionIs
<1> QED BY <1>1, <1>2, <1>4 DEF ReadInv

LEMMA FollowRead ==
  ASSUME ReadInv, Follow
  PROVE  ReadInv'
<1>1. BaseInv /\ BaseInv'
  BY FollowBase DEF ReadInv
<1>2. UNCHANGED <<moved, permitted, reading, history>>
  BY DEF Follow
<1>3. StoreOK(store) /\ history.stored \subseteq Event /\ StoredOK(store, history.stored)
  BY <1>1, BaseParts
<1>4. PICK mid, id : /\ StoreOK(mid) /\ Draws(store, mid, id, serial.context)
                     /\ DrawsNew(store, mid, id, serial.context) /\ Follows(mid, store', id)
  BY <1>1, FollowIs
<1>5. id \in Sources
  BY <1>4 DEF Draws
<1>6. ReadersOK(store', history.stored, reading)
  BY <1>3, <1>4, <1>5, ReadersFollow DEF ReadInv
<1> QED BY <1>1, <1>2, <1>6 DEF ReadInv

LEMMA IngestRead ==
  ASSUME ReadInv, NEW b, NEW again \in BOOLEAN, Ingest(b, again)
  PROVE  ReadInv'
<1>1. BaseInv /\ history \in HistoryType /\ reading \in ReadingType
      /\ ReadersOK(store, history.stored, reading)
  BY DEF ReadInv
<1>2. UNCHANGED <<moved, permitted, reading>>
  BY DEF Ingest
<1>3. BaseInv'
  BY <1>1, IngestActionBase
<1>4. /\ StoreOK(Swept(store)) /\ Ages(store, Swept(store), {}) /\ b \in batches /\ ~b.again
      /\ history' = [history EXCEPT !.stored = history'.stored]
  BY <1>1, IngestIs
<1>5. StoreOK(store) /\ StoreOK(store') /\ history'.stored \subseteq Event
  BY <1>1, <1>3, BaseStoreOK DEF BaseInv, Base, PartsTyped
<1>6. history' \in HistoryType
  <2> DEFINE now == history'.stored
  <2>1. now \subseteq Event /\ history' = [history EXCEPT !.stored = now]
    BY <1>4, <1>5
  <2> HIDE DEF now
  <2> QED BY <1>1, <2>1 DEF HistoryType
<1>7. ReadersOK(Swept(store), history.stored, reading)
  BY <1>1, <1>4, <1>5, ReadersAge
<1>8. ReadersOK(store', history'.stored, reading)
  <2>1. CASE store' = Swept(store) /\ history'.stored = history.stored
    BY <1>7, <2>1
  <2>2. CASE /\ Live(Swept(store), b.source) /\ store' = IngestBatch(Swept(store), b)
             /\ history'.stored = history.stored \cup StoredBy(Swept(store), b)
    <3>1. BaseOf(Swept(store), script, serial)
      BY <1>1, <1>4, AgesBase DEF BaseInv, BaseOf
    <3> DEFINE sw == Swept(store)
    <3>3. Base(sw, document, page, batches, script, serial, history.stored)
          /\ b \in batches /\ ~b.again /\ Live(sw, b.source)
      BY <1>4, <2>2, <3>1 DEF BaseOf
    <3>4. store' = IngestBatch(sw, b) /\ history'.stored = history.stored \cup StoredBy(sw, b)
      BY <2>2
    <3> DEFINE had == history.stored  bs == batches
    <3>7. Base(sw, document, page, bs, script, serial, had) /\ b \in bs /\ ~b.again
          /\ Live(sw, b.source)
      BY <3>3
    <3> HIDE DEF sw, had, bs
    <3>8. Stores(sw, IngestBatch(sw, b), b, had, had \cup StoredBy(sw, b))
      BY <3>7, IngestBase
    <3>5. \E new \in SUBSET Event :
            /\ Adds(sw, IngestBatch(sw, b), new)
            /\ history.stored \cup StoredBy(sw, b) = history.stored \cup new
      BY <3>8 DEF Stores, had
    <3>6. \E new \in SUBSET Event :
            Adds(sw, store', new) /\ history'.stored = history.stored \cup new
      BY <3>4, <3>5
    <3>2. PICK new \in SUBSET Event :
            /\ Adds(Swept(store), store', new) /\ history'.stored = history.stored \cup new
      BY <3>6 DEF sw
    <3> QED BY <1>1, <1>4, <1>5, <1>7, <3>2, ReadersAdd
  <2> QED BY <1>1, <2>1, <2>2, IngestIs
<1> QED BY <1>1, <1>2, <1>3, <1>6, <1>8 DEF ReadInv

LEMMA QueryRead ==
  ASSUME ReadInv, NEW s \in Session, Query(s)
  PROVE  ReadInv'
<1>1. BaseInv'
  BY SweepsBase DEF ReadInv
<1>2. UNCHANGED <<moved, permitted, history>>
  BY DEF Query
<1>3. reading' \in ReadingType /\ ReadersOK(store', history'.stored, reading')
  BY QueryIs DEF ReadInv
<1> QED BY <1>1, <1>2, <1>3 DEF ReadInv

(* It holds at first.                                                      *)
LEMMA InitRead ==
  ASSUME CaptureInit
  PROVE  ReadInv /\ trouble \in Nat
<1>1. NoSession \in SessionType /\ NoSource \in SourceType
  BY NothingTyped
<1>2. /\ store.session = [s \in Session |-> NoSession] /\ store.source = [id \in Sources |-> NoSource]
      /\ store.events = <<>> /\ store.seen = {} /\ store.sequence = 0 /\ store.drawn = 0
      /\ store.cleanup = {}
  BY DEF CaptureInit
<1>3. store \in StoreType
  <2> DEFINE f == [s \in Session |-> NoSession]  g == [id \in Sources |-> NoSource]
  <2>1. f \in [Session -> SessionType] /\ g \in [Sources -> SourceType]
    BY <1>1
  <2>2. store = [session |-> f, source |-> g, events |-> <<>>, seen |-> {}, sequence |-> 0,
                 drawn |-> 0, cleanup |-> {}]
    BY DEF CaptureInit
  <2> HIDE DEF f, g
  <2> QED BY <2>1, <2>2 DEF StoreType
<1>4. Retained(store) = {}
  BY <1>2 DEF Retained, NoSession
<1>5. StoreOK(store)
  <2>1. SourcesKnown(store) /\ OneLive(store)
    BY <1>2, <1>4 DEF SourcesKnown, OneLive, Live, NoSource
  <2>2. Consecutive(store)
    <3>1. DOMAIN store.events = {} /\ Len(store.events) = 0 /\ ToSet(store.events) = {}
      BY <1>2 DEF ToSet
    <3> QED BY <1>2, <3>1, CaptureConstants DEF Consecutive
  <2>3. RangesOK(store) /\ DropsTold(store)
    BY <1>2, <1>4 DEF RangesOK, DropsTold, Capturing, NoSession
  <2> QED BY <1>3, <2>1, <2>2, <2>3 DEF StoreOK
<1>6. OffPage \in PageType
  BY DEF OffPage, PageType
<1>7. PartsTyped(document, page, batches, script, serial, history.stored)
  BY <1>6 DEF CaptureInit, PartsTyped, PageTypeOK, SerialType, OffPage
<1>8. PagePart(store, document, page, batches, history.stored)
  <2>1. /\ document = 1 /\ page.queue = <<>> /\ page.source = 0 /\ page.number = 0 /\ batches = {}
        /\ history.stored = {} /\ DOMAIN page.queue = {}
    BY DEF CaptureInit, OffPage
  <2>2. \A id \in Sources : Context(store, id) = 0
    BY <1>2 DEF Context, NoSource
  <2> QED BY <2>1, <2>2 DEF PagePart, PagesOrdered, SourcesOfPage, NumbersNew
<1>9. ScriptsOK(store, document, page, script, serial)
  <2>1. script = <<>> /\ serial = Idle /\ DOMAIN script = {} /\ ~page.drain
    BY DEF CaptureInit, OffPage
  <2> QED BY <2>1, IdleIs DEF ScriptsOK
<1>10. StoredOK(store, history.stored)
  BY <1>2, ToSetIs DEF CaptureInit, StoredOK
<1>11. BaseInv
  BY <1>5, <1>7, <1>8, <1>9, <1>10 DEF BaseInv, Base, PagePart
<1>12. history \in HistoryType
  BY DEF CaptureInit, HistoryType
<1>13. reading \in ReadingType
  BY DEF CaptureInit, ReadingType
<1>14. ReadersOK(store, history.stored, reading)
  BY <1>2, <1>4 DEF CaptureInit, ReadersOK
<1> QED BY <1>11, <1>12, <1>13, <1>14 DEF CaptureInit, ReadInv

(* And after each step.                                                    *)
LEMMA NextRead ==
  ASSUME ReadInv, trouble \in Nat, [CaptureNext]_captureVars
  PROVE  (ReadInv /\ trouble \in Nat)'
<1>1. CaptureTypeOK
  BY ReadInvTyped
<1>2. CASE UNCHANGED captureVars
  BY <1>2 DEF captureVars, ReadInv, BaseInv
<1>3. CASE CaptureNext
  <2>1. trouble' \in Nat
    <3>1. trouble' = trouble \/ trouble' = trouble + 1
      BY <1>3, Zenon DEF CaptureNext, Trouble
    <3> QED BY <3>1
  <2>2. CASE \/ \E s \in Session : \/ StopCapture(s) \/ StatusOf(s, TRUE) \/ StatusOf(s, FALSE)
                                   \/ SessionDeadline(s) \/ Forgotten(s)
             \/ ConfirmStart \/ RolledBack \/ SendStop \/ ConfirmStop \/ PageHasChanged
             \/ ConfirmFollow \/ Maintain \/ Cleaned \/ Navigate
    BY <2>1, <2>2, OperationsRead
  <2>3. CASE \/ \E s \in Session : LeaseEnds(s)
             \/ \E b \in batches : AckBatch(b) \/ BatchRejected(b)
             \/ Record(TRUE) \/ Record(FALSE) \/ Flush \/ ExpireLeases
             \/ Configure("ok") \/ Configure("failed") \/ DrainTimesOut \/ ApplyTimesOut
    BY <1>1, <2>1, <2>3, PageRead
  <2>4. CASE (\E s \in Session : StartCapture(s)) \/ LoadFinished \/ RevokeDomain
    BY <2>1, <2>4, SurroundingsRead
  <2>5. CASE \/ BeginSession \/ Follow \/ \E s \in Session : Query(s)
             \/ \E b \in batches : Ingest(b, TRUE) \/ Ingest(b, FALSE)
    BY <2>1, <2>5, BeginSessionRead, FollowRead, QueryRead, IngestRead
  <2> QED BY <1>3, <2>1, <2>2, <2>3, <2>4, <2>5 DEF CaptureNext, Trouble
<1> QED BY <1>2, <1>3

(* So always.                                                              *)
LEMMA ReadInvHolds == CaptureSpec => [](ReadInv /\ trouble \in Nat)
<1>1. CaptureInit => ReadInv /\ trouble \in Nat
  BY InitRead
<1>2. ReadInv /\ trouble \in Nat /\ [CaptureNext]_captureVars => (ReadInv /\ trouble \in Nat)'
  BY NextRead
<1> QED BY <1>1, <1>2, PTL DEF CaptureSpec

(* Whatever the limits, sessions and sources: the sessions of the store,   *)
(* who holds the mutex, the page with its queue, the scripts and batches   *)
(* between them, and what the readers hold have their types                *)
(* (src/plugin/src/capture/store.rs, SessionState, SourceState,            *)
(* StoredEvent; mod.rs, CaptureService).                                   *)
THEOREM CaptureTypeCorrect == CaptureSpec => []CaptureTypeOK
<1>1. ReadInv /\ trouble \in Nat => CaptureTypeOK
  BY ReadInvTyped
<1> QED BY <1>1, ReadInvHolds, PTL

(* A reader of a session that was told of no gap has been given every      *)
(* event that was stored between the session's start and its cursor, and   *)
(* no event was stored twice, through evictions, sweeps, resent batches    *)
(* and new documents (src/plugin/src/capture/store.rs, query, ingest and   *)
(* enforce_limits).                                                        *)
THEOREM NothingMissed == CaptureSpec => []ReaderMissesNothing
<1>1. ReadInv => ReaderMissesNothing
  <2> SUFFICES ASSUME ReadInv PROVE ReaderMissesNothing
    OBVIOUS
  <2>1. /\ StoredOK(store, history.stored) /\ history.stored \subseteq Event
        /\ store \in StoreType
    BY BaseParts DEF ReadInv
  <2>2. StoredOnce
    BY <2>1 DEF StoredOK, StoredOnce
  <2>3. ASSUME NEW s \in Session, s \in Retained(store), ~reading[s].gap, NEW k \in history.stored,
               Observes(store, s, k.source),
               k.seq \in store.session[s].start..reading[s].cursor,
               Capturing(store, s) \/ k.seq <= store.session[s].end
        PROVE  k \in reading[s].given
    <3>1. k.seq \in Nat /\ store.session[s].start \in Nat /\ reading[s].cursor \in Nat
      BY <2>1 DEF ReadInv, Event, StoreType, SessionType, ReadingType
    <3>2. store.session[s].start <= k.seq /\ k.seq <= reading[s].cursor
      BY <2>3, <3>1
    <3> QED BY <2>3, <3>2 DEF ReadInv, ReadersOK
  <2> QED BY <2>2, <2>3 DEF ReaderMissesNothing, GivenOrGap
<1> QED BY <1>1, ReadInvHolds, PTL
=============================================================================
