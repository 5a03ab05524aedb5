-------------------------- MODULE CaptureStopProofs -------------------------
(***************************************************************************)
(* Theorems about Capture that need to know who has a lease: that none is  *)
(* lost without a cause, and that a session that is complete has           *)
(* everything the page recorded for it.                                    *)
(*                                                                         *)
(* The argument has two more layers.  The second: a script leaves out a    *)
(* session that its source serves only while that session is being         *)
(* confirmed or stopped, and a batch that ends leases comes to a page      *)
(* that has none to lose.  The third: whatever the page recorded for a     *)
(* session is stored, on its way, or known to be lost, as long as the      *)
(* session captures and has counted no drop; when the page says drained    *)
(* nothing of the session is on its way, and it gets no lease again; so a  *)
(* session that is stopped then has it all.                                *)
(***************************************************************************)
EXTENDS CaptureProofs

-----------------------------------------------------------------------------
(* What narrows the store                                                  *)

(* No source is to be served for longer, nor comes to life again.          *)
Narrows(st, t) ==
  /\ Retained(t) \subseteq Retained(st)
  /\ \A id \in Sources :
       /\ Serving(t, id) \subseteq Serving(st, id)
       /\ Serving(t, id) # {} /\ st.source[id].interrupted => t.source[id].interrupted

(* What narrows twice narrows.                                             *)
LEMMA NarrowsThen ==
  ASSUME NEW a, NEW b, NEW c, Narrows(a, b), Narrows(b, c)
  PROVE  Narrows(a, c)
<1>1. ASSUME NEW id \in Sources
      PROVE  /\ Serving(c, id) \subseteq Serving(a, id)
             /\ Serving(c, id) # {} /\ a.source[id].interrupted => c.source[id].interrupted
  BY DEF Narrows
<1> QED BY <1>1 DEF Narrows

(* Who is served captures, is not late, and has this source.               *)
LEMMA ServingIs ==
  ASSUME NEW st, NEW id, NEW s \in Serving(st, id)
  PROVE  /\ s \in Session /\ s \in Retained(st) /\ Capturing(st, s) /\ ~st.session[s].late
         /\ Current(st, s) = id
BY DEF Serving, Retained, Capturing

(* A store that ages narrows.                                              *)
LEMMA AgesNarrows ==
  ASSUME NEW st, NEW t, NEW ended, StoreOK(st), Ages(st, t, ended)
  PROVE  Narrows(st, t)
<1>1. Retained(t) \subseteq Retained(st)
  BY DEF Ages, Goes, Retained
<1>2. ASSUME NEW id \in Sources, NEW s \in Serving(t, id)
      PROVE  s \in Serving(st, id)
  <2>1. s \in Session /\ Goes(st, s, t.session[s], ended) /\ t.session[s].status = "active"
        /\ ~t.session[s].late /\ Current(t, s) = id
    BY <1>2, ServingIs DEF Ages, Capturing
  <2>2. t.session[s].sources = st.session[s].sources
    BY <2>1 DEF Goes
  <2>3. Capturing(st, s)
    BY <2>1 DEF Goes, Capturing
  <2>4. ~st.session[s].late
    BY <2>1, Zenon DEF Goes
  <2> QED BY <2>1, <2>2, <2>3, <2>4 DEF Serving, Current
<1>3. ASSUME NEW id \in Sources, Serving(t, id) # {}, st.source[id].interrupted
      PROVE  t.source[id].interrupted
  <2>1. Retained(t) # {}
    BY <1>3, ServingIs
  <2>2. SameSources(st, t)
    BY <2>1 DEF Ages, Released
  <2> QED BY <1>3, <2>2 DEF SameSources
<1> QED BY <1>1, <1>2, <1>3 DEF Narrows

(* So does one that draws a source, which nobody is served by yet.         *)
LEMMA DrawsNarrows ==
  ASSUME NEW st, NEW t, NEW id, NEW context, StoreOK(st), Draws(st, t, id, context)
  PROVE  Narrows(st, t) /\ Retained(t) = Retained(st)
<1>1. CASE t = st
  BY <1>1 DEF Narrows
<1>2. CASE DrawsNew(st, t, id, context)
  <2>1. t.session = st.session /\ st.drawn \in Nat
    BY <1>2 DEF DrawsNew, StoreOK, StoreType
  <2>2. Retained(t) = Retained(st) /\ \A jd \in Sources : Serving(t, jd) = Serving(st, jd)
    BY <2>1 DEF Retained, Serving, Capturing, Current
  <2>3. ASSUME NEW jd \in Sources, Serving(t, jd) # {}, st.source[jd].interrupted
        PROVE  t.source[jd].interrupted
    <3>1. PICK s \in Serving(st, jd) : TRUE
      BY <2>2, <2>3
    <3>2. s \in Retained(st) /\ Observes(st, s, jd)
      BY <3>1, ServingIs, CurrentIn
    <3>3. s \in Session /\ jd <= st.drawn
      BY <3>2 DEF StoreOK, SourcesKnown, Retained
    <3>4. jd # id
      BY <1>2, <2>1, <3>3 DEF DrawsNew, Sources
    <3> QED BY <1>2, <2>3, <3>2, <3>3, <3>4 DEF DrawsNew
  <2> QED BY <2>2, <2>3 DEF Narrows
<1> QED BY <1>1, <1>2 DEF Draws

(* So does one that adds events.                                           *)
LEMMA AddsNarrows ==
  ASSUME NEW st, NEW t, NEW new, Adds(st, t, new)
  PROVE  Narrows(st, t)
<1>1. \A s \in Session : /\ t.session[s].status = st.session[s].status
                         /\ t.session[s].sources = st.session[s].sources
                         /\ t.session[s].late = st.session[s].late
  BY DEF Adds, Counts
<1>2. Retained(t) = Retained(st)
  BY <1>1 DEF Retained
<1>3. \A id \in Sources : Serving(t, id) = Serving(st, id)
  BY <1>1 DEF Serving, Capturing, Current
<1> QED BY <1>2, <1>3 DEF Narrows, Adds

(* One session more.                                                       *)
LEMMA StartsServes ==
  ASSUME NEW st, NEW t, NEW s \in Session, NEW id \in Sources, Starts(st, t, s, id)
  PROVE  /\ Retained(t) \subseteq Retained(st) \cup {s}
         /\ \A jd \in Sources : /\ Serving(t, jd) \subseteq Serving(st, jd) \cup {s}
                                /\ t.source[jd] = st.source[jd]
<1>1. \A r \in Session \ {s} : t.session[r] = st.session[r]
  BY DEF Starts
<1> QED BY <1>1 DEF Starts, Retained, Serving, Capturing, Current

(* Those who follow move from their sources to this one.                   *)
LEMMA FollowsServes ==
  ASSUME NEW st, NEW t, NEW id \in Sources, Follows(st, t, id), StoreOK(st)
  PROVE  /\ Retained(t) = Retained(st)
         /\ \A jd \in Sources : /\ jd # id => Serving(t, jd) \subseteq Serving(st, jd)
                                /\ t.source[jd] = st.source[jd]
<1>1. Retained(t) = Retained(st)
  BY DEF Follows, Retained
<1>2. ASSUME NEW jd \in Sources, jd # id, NEW s \in Serving(t, jd)
      PROVE  s \in Serving(st, jd)
  <2> DEFINE x == st.session[s]  me == t.session[s]
  <2>1. s \in Session /\ Capturing(t, s) /\ ~me.late /\ Last(me.sources) = jd
    BY <1>2, ServingIs DEF Current
  <2>2. /\ me.status = x.status /\ me.late = x.late
        /\ me.sources = x.sources \/ (Capturing(st, s) /\ me.sources = Append(x.sources, id))
    BY <2>1 DEF Follows
  <2>3. me.sources # Append(x.sources, id)
    <3>1. x.sources \in Seq(Sources)
      BY <1>2, <2>1 DEF StoreOK, StoreType, SessionType
    <3>2. Last(Append(x.sources, id)) = id
      BY <3>1 DEF Last
    <3> QED BY <1>2, <2>1, <3>2
  <2> QED BY <2>1, <2>2, <2>3 DEF Serving, Capturing, Current
<1> QED BY <1>1, <1>2 DEF Follows

-----------------------------------------------------------------------------
(* The second layer, and what keeps it                                     *)

(* The second layer: what the scripts, the answers and the page's leases   *)
(* say of each other.                                                      *)
LeaseInv ==
  /\ BegunOK(store, page, script, serial, history) /\ LeasesKept(store, script, serial)
  /\ EndsFairly(store, document, page, batches)

(* Who may be missing from a script: the session that is being confirmed.  *)
Excused(ser, s) == ser.what \in {"confirm_start", "confirm_stop"} /\ ser.session = s

(* A narrower store is told fairly still.                                  *)
LEMMA FairlyNarrows ==
  ASSUME NEW st, NEW t, NEW doc, NEW pg, NEW bs, EndsFairly(st, doc, pg, bs),
         Narrows(st, t), StoreOK(t)
  PROVE  EndsFairly(t, doc, pg, bs)
<1> SUFFICES ASSUME NEW b \in bs, b.document = doc, b.answer = "end",
                    b.generation = pg.generation, b.source = pg.source,
                    pg.leases \cap Serving(t, pg.source) # {}
             PROVE  t.source[pg.source].interrupted
  BY DEF EndsFairly
<1>1. PICK s \in pg.leases : s \in Serving(t, pg.source)
  OBVIOUS
<1>2. pg.source \in Sources
  BY <1>1, ServingIs, CurrentIn
<1>3. s \in Serving(st, pg.source)
  BY <1>1, <1>2 DEF Narrows
<1>4. st.source[pg.source].interrupted
  BY <1>3 DEF EndsFairly
<1> QED BY <1>1, <1>2, <1>4 DEF Narrows

(* And its scripts leave out nobody else.                                  *)
LEMMA KeptNarrows ==
  ASSUME NEW st, NEW t, NEW scr \in Seq(Message), NEW ser, LeasesKept(st, scr, ser), Narrows(st, t),
         NEW after, \A s \in Session : Excused(ser, s) /\ Capturing(t, s) => Excused(after, s)
  PROVE  LeasesKept(t, scr, after)
<1> SUFFICES ASSUME NEW i \in DOMAIN scr, NEW s \in Serving(t, scr[i].source), s \notin scr[i].leases
             PROVE  Excused(after, s)
  BY DEF LeasesKept, Excused
<1>1. scr[i].source \in Sources
  <2>1. scr[i] \in Message
    OBVIOUS
  <2> QED BY <2>1 DEF Message
<1>2. s \in Serving(st, scr[i].source) /\ s \in Session /\ Capturing(t, s)
  BY <1>1, ServingIs DEF Narrows
<1>3. Excused(ser, s)
  BY <1>2 DEF LeasesKept, Excused
<1> QED BY <1>2, <1>3

(* A script more.                                                          *)
LEMMA AppendIs ==
  ASSUME NEW scr \in Seq(Message), NEW m \in Message
  PROVE  /\ Append(scr, m) \in Seq(Message) /\ Append(scr, m) # <<>>
         /\ Len(Append(scr, m)) = Len(scr) + 1
         /\ \A i \in DOMAIN Append(scr, m) :
              \/ i \in DOMAIN scr /\ Append(scr, m)[i] = scr[i]
              \/ i = Len(scr) + 1 /\ Append(scr, m)[i] = m
<1>1. Len(scr) \in Nat /\ DOMAIN scr = 1..Len(scr)
  OBVIOUS
<1>2. /\ Append(scr, m) \in Seq(Message) /\ Len(Append(scr, m)) = Len(scr) + 1
      /\ DOMAIN Append(scr, m) = 1..(Len(scr) + 1)
      /\ \A i \in 1..Len(scr) : Append(scr, m)[i] = scr[i]
      /\ Append(scr, m)[Len(scr) + 1] = m
  OBVIOUS
<1>3. Append(scr, m) # <<>>
  OBVIOUS
<1> QED BY <1>1, <1>2, <1>3

(* It leaves out only who is excused.                                      *)
LEMMA KeptAppend ==
  ASSUME NEW t, NEW scr \in Seq(Message), NEW m \in Message, NEW after, LeasesKept(t, scr, after),
         \A s \in Serving(t, m.source) \ m.leases : Excused(after, s)
  PROVE  LeasesKept(t, Append(scr, m), after)
<1> SUFFICES ASSUME NEW i \in DOMAIN Append(scr, m), NEW s \in Serving(t, Append(scr, m)[i].source),
                    s \notin Append(scr, m)[i].leases
             PROVE  Excused(after, s)
  BY DEF LeasesKept, Excused
<1>1. CASE i \in DOMAIN scr /\ Append(scr, m)[i] = scr[i]
  BY <1>1 DEF LeasesKept, Excused
<1>2. CASE Append(scr, m)[i] = m
  BY <1>2
<1> QED BY <1>1, <1>2, AppendIs

(* And names only those it gives leases.                                   *)
LEMMA KnownAppend ==
  ASSUME NEW t, NEW pg, NEW scr \in Seq(Message), NEW m \in Message, NEW hist, NEW s,
         Known(t, pg, Append(scr, m), hist, s)
  PROVE  Known(t, pg, scr, hist, s) \/ s \in m.leases
BY AppendIs DEF Known

(* What names nobody new keeps the beginnings.                             *)
LEMMA BegunKept ==
  ASSUME NEW st, NEW pg, NEW scr, NEW ser, NEW hist, BegunOK(st, pg, scr, ser, hist),
         NEW t, NEW qg, NEW tcr, NEW after, NEW hist2, hist2.begun = hist.begun,
         \A s \in Session : Known(t, qg, tcr, hist2, s) => Known(st, pg, scr, hist, s),
         after.what \in {"starting", "confirm_start"} =>
            after.what = ser.what /\ after.session = ser.session /\ after.session \in Session,
         after.what = "confirm_start" =>
            /\ tcr = <<>> \/ after.session \notin qg.leases
            /\ \A i \in DOMAIN tcr : after.session \in tcr[i].leases => Len(tcr) = 1
  PROVE  BegunOK(t, qg, tcr, after, hist2)
BY DEF BegunOK

(* The operations that hold the mutex, but for those that give a session.  *)
OperatesOK ==
  /\ UNCHANGED <<page, document, batches>>
  /\ history'.recorded = history.recorded /\ history'.begun = history.begun
  /\ \A s \in Session : Excused(serial, s) /\ Capturing(store', s) => Excused(serial', s)
  /\ \/ script' = script
     \/ /\ serial'.what \notin {"starting", "confirm_start"}
        /\ \E m \in Message :
             /\ script' = Append(script, m) /\ m.leases \subseteq Retained(store)
             /\ \A s \in Serving(store', m.source) \ m.leases : Excused(serial', s)
  /\ serial'.what \in {"starting", "confirm_start"} =>
       serial'.what = serial.what /\ serial'.session = serial.session

(* They keep the second layer.                                             *)
LEMMA OperatesLease ==
  ASSUME LeaseInv, BaseInv, Narrows(store, store'), StoreOK(store'), OperatesOK
  PROVE  LeaseInv'
<1>1. script \in Seq(Message) /\ serial \in SerialType
  BY BaseStoreOK
<1>2. EndsFairly(store', document', page', batches')
  BY FairlyNarrows DEF LeaseInv, OperatesOK
<1>3. LeasesKept(store', script, serial')
  BY <1>1, KeptNarrows DEF LeaseInv, OperatesOK
<1>4. ASSUME NEW s \in Session, Known(store', page, script, history', s)
      PROVE  Known(store, page, script, history, s)
  BY <1>4 DEF Known, Narrows, OperatesOK
<1>5. serial'.what \in {"starting", "confirm_start"} =>
        serial'.what = serial.what /\ serial'.session = serial.session /\ serial'.session \in Session
  BY <1>1, SerialIs DEF OperatesOK, Confirming
<1>6. CASE script' = script
  <2>1. serial'.what = "confirm_start" =>
            /\ script = <<>> \/ serial'.session \notin page.leases
            /\ \A i \in DOMAIN script : serial'.session \in script[i].leases => Len(script) = 1
    BY <1>5 DEF LeaseInv, BegunOK
  <2>2. BegunOK(store', page, script, serial', history')
    BY <1>4, <1>5, <2>1, BegunKept DEF LeaseInv, OperatesOK
  <2> QED BY <1>2, <1>3, <1>6, <2>2 DEF LeaseInv, OperatesOK
<1>7. ASSUME NEW m \in Message, script' = Append(script, m), m.leases \subseteq Retained(store),
             \A s \in Serving(store', m.source) \ m.leases : Excused(serial', s),
             serial'.what \notin {"starting", "confirm_start"}
      PROVE  LeaseInv'
  <2>1. LeasesKept(store', script', serial')
    BY <1>1, <1>3, <1>7, KeptAppend
  <2>2. ASSUME NEW s \in Session, Known(store', page, script', history', s)
        PROVE  Known(store, page, script, history, s)
    <3>1. Known(store', page, script, history', s) \/ s \in m.leases
      BY <1>1, <1>7, <2>2, KnownAppend
    <3> QED BY <1>4, <1>7, <3>1 DEF Known
  <2>3. BegunOK(store', page, script', serial', history')
    BY <1>7, <2>2, BegunKept DEF LeaseInv, OperatesOK
  <2> QED BY <1>2, <2>1, <2>3 DEF LeaseInv, OperatesOK
<1> QED BY <1>6, <1>7 DEF OperatesOK

-----------------------------------------------------------------------------
(* Each step keeps the second layer                                        *)

(* The page stays.                                                         *)
SamePage == UNCHANGED <<page, document, batches, history>>

(* A free mutex excuses nobody.                                            *)
LEMMA IdleExcuses ==
  ASSUME NEW s
  PROVE  ~Excused(Idle, s) /\ Idle.what \notin {"starting", "confirm_start"}
BY IdleIs DEF Excused

(* The operation is over or gives nothing, and nobody is excused any more. *)
LEMMA LeftLease ==
  ASSUME LeaseInv, BaseInv, SamePage, Narrows(store, store'), StoreOK(store'), Left,
         \A s \in Session : Excused(serial, s) => ~Capturing(store', s)
  PROVE  LeaseInv'
<1>1. OperatesOK
  BY IdleExcuses DEF SamePage, Left, OperatesOK
<1> QED BY <1>1, OperatesLease

(* A sweep alone.                                                          *)
LEMMA SameLease ==
  ASSUME LeaseInv, BaseInv, SamePage, Narrows(store, store'), StoreOK(store'),
         UNCHANGED <<script, serial>>
  PROVE  LeaseInv'
<1>1. OperatesOK
  BY DEF SamePage, OperatesOK
<1> QED BY <1>1, OperatesLease

(* A configuration without the session that is stopped or rolled back.     *)
LEMMA AppliedLease ==
  ASSUME LeaseInv, BaseInv, SamePage, Narrows(store, store'), StoreOK(store'),
         NEW then \in {"rolled_back", "confirm_stop"},
         then = "confirm_stop" \/ serial.session \notin Retained(store'),
         NEW source \in Sources, NEW context,
         Config(store, source, {serial.session}, TRUE) \in Message,
         Applied(then, Config(store, source, {serial.session}, TRUE), context),
         \A s \in Session : Excused(serial, s) => ~Capturing(store', s)
  PROVE  LeaseInv'
<1> DEFINE excluded == {serial.session}
<1> DEFINE m == Config(store, source, excluded, TRUE)
<1>1. m.source = source /\ m.leases = Serving(store, source) \ excluded
  BY DEF Config
<1> HIDE DEF m
<1>2. m \in Message /\ serial'.what = then /\ serial'.session = serial.session
      /\ (script' = script \/ script' = Append(script, m))
  BY DEF Applied, m
<1>3. m.leases \subseteq Retained(store)
  BY <1>1, ServingIs
<1>4. ASSUME NEW s \in Serving(store', m.source) \ m.leases
      PROVE  Excused(serial', s)
  <2>1. s \in Serving(store, source)
    BY <1>1, <1>4 DEF Narrows
  <2>2. s \in excluded /\ s \in Retained(store')
    BY <1>1, <1>4, <2>1, ServingIs
  <2> QED BY <1>2, <2>2 DEF Excused
<1>5. OperatesOK
  BY <1>2, <1>3, <1>4 DEF SamePage, OperatesOK
<1> QED BY <1>5, OperatesLease

(* The operations one by one.                                              *)
LEMMA OperationsLease ==
  ASSUME LeaseInv, BaseInv,
         \/ \E s \in Session : \/ StatusOf(s, TRUE) \/ StatusOf(s, FALSE)
                               \/ SessionDeadline(s) \/ Forgotten(s) \/ Query(s)
         \/ RolledBack \/ ConfirmStop \/ ConfirmFollow \/ Cleaned
  PROVE  LeaseInv'
<1>1. SamePage
  BY DEF SamePage, StatusOf, SessionDeadline, Forgotten, Query, RolledBack, ConfirmStop,
         ConfirmFollow, Cleaned
<1>2. StoreOK(store)
  BY BaseStoreOK
<1>3. CASE \E s \in Session : \/ StatusOf(s, TRUE) \/ StatusOf(s, FALSE)
                              \/ SessionDeadline(s) \/ Forgotten(s) \/ Query(s)
  <2>1. PICK s \in Session : \/ StatusOf(s, TRUE) \/ StatusOf(s, FALSE)
                             \/ SessionDeadline(s) \/ Forgotten(s) \/ Query(s)
    BY <1>3
  <2>2. StoreOK(store') /\ Ages(store, store', {})
    BY <2>1, StatusOfIs, DeadlineIs, ForgottenIs, QueryStoreIs
  <2>3. UNCHANGED <<script, serial>>
    BY <2>1 DEF StatusOf, SessionDeadline, Forgotten, Query
  <2> QED BY <1>1, <1>2, <2>2, <2>3, AgesNarrows, SameLease
<1>4. CASE RolledBack \/ ConfirmStop \/ ConfirmFollow \/ Cleaned
  <2>1. StoreOK(store') /\ Left /\ \E ended : Ages(store, store', ended)
    BY <1>4, RolledBackIs, ConfirmStopIs, ConfirmFollowIs, CleanedIs
  <2>2. Narrows(store, store')
    BY <1>2, <2>1, AgesNarrows
  <2>3. \A s \in Session : Excused(serial, s) => ~Capturing(store', s)
    BY <1>4, RolledBackIs, ConfirmStopIs, ConfirmFollowIs, CleanedIs DEF Excused
  <2> QED BY <1>1, <2>1, <2>2, <2>3, LeftLease
<1> QED BY <1>3, <1>4

LEMMA ConfirmStartLease ==
  ASSUME LeaseInv, BaseInv, ConfirmStart
  PROVE  LeaseInv'
<1>1. SamePage
  BY DEF SamePage, ConfirmStart
<1>2. /\ serial.session \in Session /\ StoreOK(store') /\ Narrows(store, store')
      /\ (script = <<>> \/ serial.session \notin Retained(store'))
  BY ConfirmStartIs, BaseStoreOK, AgesNarrows
<1>3. CASE serial.session \notin Retained(store')
  <2>1. \A s \in Session : Excused(serial, s) => ~Capturing(store', s)
    BY <1>3 DEF Excused, Retained, Capturing
  <2>2. CASE Left
    BY <1>1, <1>2, <2>1, <2>2, LeftLease
  <2>3. ASSUME NEW source \in Sources,
               Config(store, source, {serial.session}, TRUE) \in Message,
               Applied("rolled_back", Config(store, source, {serial.session}, TRUE),
                       Context(store, source))
        PROVE LeaseInv'
    BY <1>1, <1>2, <1>3, <2>1, <2>3, AppliedLease
  <2> QED BY <2>2, <2>3, ConfirmStartIs
<1>4. CASE script = <<>> /\ Left
  <2>1. script' = <<>> /\ DOMAIN script' = {}
    BY <1>4 DEF Left
  <2>2. LeasesKept(store', script', serial')
    BY <2>1 DEF LeasesKept
  <2>3. EndsFairly(store', document', page', batches')
    BY <1>1, <1>2, FairlyNarrows DEF LeaseInv, SamePage
  <2>4. serial'.what \notin {"starting", "confirm_start"}
    BY <1>4, IdleExcuses DEF Left
  <2>5. \A s \in Session : Known(store', page', script', history', s)
                           => Known(store, page, script, history, s)
    BY <1>1, <1>2, <2>1 DEF Known, Narrows, SamePage
  <2>6. BegunOK(store', page', script', serial', history')
    BY <1>1, <2>4, <2>5, BegunKept DEF LeaseInv, SamePage
  <2> QED BY <2>2, <2>3, <2>6 DEF LeaseInv
<1> QED BY <1>2, <1>3, <1>4, ConfirmStartIs

LEMMA StopsLease ==
  ASSUME LeaseInv, BaseInv,
         (\E s \in Session : StopCapture(s)) \/ SendStop \/ PageHasChanged
  PROVE  LeaseInv'
<1>1. SamePage
  BY DEF SamePage, StopCapture, SendStop, PageHasChanged
<1>2. StoreOK(store)
  BY BaseStoreOK
<1>3. ASSUME serial = Idle, StoreOK(store'), Ages(store, store', {}), script' = script,
             serial'.what \notin {"starting", "confirm_start"}
      PROVE  LeaseInv'
  <2>1. OperatesOK
    BY <1>1, <1>3, IdleExcuses DEF SamePage, OperatesOK
  <2> QED BY <1>2, <1>3, <2>1, AgesNarrows, OperatesLease
<1>4. CASE \E s \in Session : StopCapture(s)
  <2>1. serial'.what \notin {"starting", "confirm_start"}
    BY <1>4, StopCaptureIs, IdleIs
  <2> QED BY <1>3, <1>4, <2>1, StopCaptureIs
<1>5. CASE PageHasChanged
  <2>1. serial'.what \notin {"starting", "confirm_start"}
    BY <1>5, PageHasChangedIs, IdleIs
  <2> QED BY <1>3, <1>5, <2>1, PageHasChangedIs
<1>6. CASE SendStop
  <2>1. /\ serial.session \in Session /\ serial.what = "stopping"
        /\ StoreOK(store') /\ Narrows(store, store')
    BY <1>2, <1>6, SendStopIs, AgesNarrows
  <2>2. \A s \in Session : ~Excused(serial, s)
    BY <2>1 DEF Excused
  <2>3. CASE Left
    BY <1>1, <2>1, <2>2, <2>3, LeftLease
  <2>4. ASSUME NEW source \in Sources,
               Config(store, source, {serial.session}, TRUE) \in Message,
               Applied("confirm_stop", Config(store, source, {serial.session}, TRUE),
                       Context(store, source))
        PROVE LeaseInv'
    BY <1>1, <2>1, <2>2, <2>4, AppliedLease
  <2> QED BY <1>6, <2>3, <2>4, SendStopIs
<1> QED BY <1>4, <1>5, <1>6

LEMMA MaintainLease ==
  ASSUME LeaseInv, BaseInv, Maintain
  PROVE  LeaseInv'
<1>1. SamePage
  BY DEF SamePage, Maintain
<1>2. serial = Idle /\ StoreOK(store') /\ Narrows(store, store')
  BY MaintainIs, BaseStoreOK, AgesNarrows
<1>3. \A s \in Session : ~Excused(serial, s)
  BY <1>2, IdleExcuses
<1>4. CASE Left
  BY <1>1, <1>2, <1>3, <1>4, LeftLease
<1>5. ASSUME NEW m \in Message, m.leases = Serving(store', m.source), script' = Append(script, m),
             serial'.what = "cleaning"
      PROVE  LeaseInv'
  <2>1. m.leases \subseteq Retained(store)
    BY <1>2, <1>5, ServingIs DEF Narrows
  <2>2. OperatesOK
    BY <1>1, <1>3, <1>5, <2>1 DEF SamePage, OperatesOK
  <2> QED BY <1>2, <2>2, OperatesLease
<1> QED BY <1>4, <1>5, MaintainIs

(* What is left of the scripts.                                            *)
LEMMA TailIs ==
  ASSUME NEW scr \in Seq(Message), scr # <<>>
  PROVE  /\ Tail(scr) \in Seq(Message) /\ Len(Tail(scr)) = Len(scr) - 1 /\ Len(scr) \in Nat \ {0}
         /\ \A i \in DOMAIN Tail(scr) : i + 1 \in DOMAIN scr /\ Tail(scr)[i] = scr[i + 1]
         /\ Len(scr) = 1 => Tail(scr) = <<>>
<1>1. /\ Len(scr) \in Nat \ {0} /\ DOMAIN scr = 1..Len(scr) /\ Tail(scr) \in Seq(Message)
      /\ Len(Tail(scr)) = Len(scr) - 1
  OBVIOUS
<1>2. DOMAIN Tail(scr) = 1..(Len(scr) - 1)
  BY <1>1
<1>3. \A i \in 1..(Len(scr) - 1) : Tail(scr)[i] = scr[i + 1]
  BY <1>1
<1>4. Len(scr) = 1 => Tail(scr) = <<>>
  <2> DEFINE tcr == Tail(scr)
  <2>1. tcr \in Seq(Message) /\ (Len(scr) = 1 => Len(tcr) = 0)
    BY <1>1
  <2> HIDE DEF tcr
  <2>2. Len(scr) = 1 => tcr = <<>>
    BY <2>1, EmptySeq
  <2> QED BY <2>2 DEF tcr
<1>5. \A i \in 1..(Len(scr) - 1) : i + 1 \in 1..Len(scr)
  BY <1>1
<1> QED BY <1>1, <1>2, <1>3, <1>4, <1>5

(* What is left of the scripts: all of them, or those after the first.     *)
Remain(scr, tcr) ==
  /\ \A i \in DOMAIN tcr : \E j \in DOMAIN scr : /\ tcr[i].leases = scr[j].leases
                                                 /\ tcr[i].source = scr[j].source
                                                 /\ tcr[i].what = scr[j].what
                                                 /\ tcr[i].awaited => scr[j].awaited
  /\ Len(scr) = 1 => tcr = <<>> \/ Len(tcr) = 1
  /\ scr = <<>> => tcr = <<>>

(* It remains.                                                             *)
LEMMA RemainIs ==
  ASSUME NEW scr \in Seq(Message)
  PROVE  /\ Remain(scr, scr)
         /\ scr # <<>> => Remain(scr, Tail(scr))
         /\ \A tcr : SameScripts(scr, tcr) => Remain(scr, tcr)
<1>1. Remain(scr, scr)
  BY DEF Remain
<1>2. scr # <<>> => Remain(scr, Tail(scr))
  BY TailIs DEF Remain
<1>3. ASSUME NEW tcr, SameScripts(scr, tcr) PROVE Remain(scr, tcr)
  <2>1. scr = <<>> => tcr = <<>>
    BY <1>3 DEF SameScripts
  <2> QED BY <1>3, <2>1 DEF SameScripts, Remain
<1> QED BY <1>1, <1>2, <1>3

(* An answer is to the same operation.                                     *)
LEMMA SerialSame ==
  ASSUME NEW ser, NEW after, NEW pg, NEW qg, NEW reply,
         \/ after = ser \/ Answers(ser, after, reply) \/ DrainEnds(pg, qg, ser, after)
  PROVE  after.what = ser.what /\ after.session = ser.session
BY DEF Answers, DrainEnds

(* The scripts that remain leave out nobody else.                          *)
LEMMA RemainKept ==
  ASSUME NEW st, NEW scr, NEW tcr, NEW ser, NEW after, LeasesKept(st, scr, ser), Remain(scr, tcr),
         after.what = ser.what, after.session = ser.session
  PROVE  LeasesKept(st, tcr, after)
BY DEF LeasesKept, Remain

(* A step of the page that gives no lease.                                 *)
LEMMA PageLease ==
  ASSUME LeaseInv, BaseInv, UNCHANGED <<store, document>>, history'.begun = history.begun,
         page'.leases \subseteq page.leases, page'.source = page.source,
         \/ page.generation < page'.generation
         \/ page'.leases = page.leases /\ page'.generation = page.generation,
         \A b \in batches' : b \in batches \/ b.answer # "end",
         Remain(script, script'), serial'.what = serial.what, serial'.session = serial.session,
         \A e \in history'.recorded : e \in history.recorded \/ e.observers = page.leases
  PROVE  LeaseInv'
<1>1. LeasesKept(store', script', serial')
  BY RemainKept DEF LeaseInv
<1>2. EndsFairly(store', document', page', batches')
  <2>1. \A b \in batches : b.document = document =>
           b.generation <= page.generation /\ b.generation \in Nat /\ page.generation \in Nat
    BY BaseParts DEF PagePart, PagesOrdered, BatchType, PageType
  <2>2. ASSUME page.generation < page'.generation, NEW b \in batches', b.document = document,
               b.answer = "end"
        PROVE  b.generation # page'.generation
    <3> DEFINE g == b.generation  p == page.generation  q == page'.generation
    <3>1. g <= p /\ g \in Nat /\ p \in Nat /\ p < q
      BY <2>1, <2>2
    <3> HIDE DEF g, p, q
    <3>2. g # q
      BY <3>1
    <3> QED BY <3>2 DEF g, q
  <2> QED BY <2>2 DEF LeaseInv, EndsFairly
<1>3. ASSUME NEW s, Known(store', page', script', history', s)
      PROVE  Known(store, page, script, history, s)
  BY <1>3 DEF Known, Remain
<1>4. serial \in SerialType
  BY BaseParts
<1>5. serial'.what = "confirm_start" =>
        /\ script' = <<>> \/ serial'.session \notin page'.leases
        /\ \A i \in DOMAIN script' : serial'.session \in script'[i].leases => Len(script') = 1
  BY DEF LeaseInv, BegunOK, Remain
<1>6. serial'.what \in {"starting", "confirm_start"} => serial'.session \in Session
  BY <1>4, SerialIs DEF Confirming
<1>7. BegunOK(store', page', script', serial', history')
  BY <1>3, <1>5, <1>6, BegunKept DEF LeaseInv
<1> QED BY <1>1, <1>2, <1>7 DEF LeaseInv

(* Where leases end the generation moves.                                  *)
LEMMA EndsMoves ==
  ASSUME NEW doc, NEW pg \in PageType, NEW qg \in PageType, NEW lost, NEW more,
         Ends(doc, pg, qg, lost, more)
  PROVE  /\ qg.leases \subseteq pg.leases /\ qg.source = pg.source
         /\ \/ pg.generation < qg.generation
            \/ qg.leases = pg.leases /\ qg.generation = pg.generation
<1> DEFINE g == pg.generation  h == qg.generation
<1>1. g \in Nat /\ h \in Nat
  BY DEF PageType
<1>2. g <= h /\ (g < h \/ qg.leases = pg.leases)
  BY DEF Ends, Leaves
<1> HIDE DEF g, h
<1>3. g < h \/ (qg.leases = pg.leases /\ h = g)
  BY <1>1, <1>2
<1> QED BY <1>3 DEF g, h, Ends, Leaves

(* The steps of the page, but for a configuration.                         *)
LEMMA PageStepsLease ==
  ASSUME LeaseInv, BaseInv, CaptureTypeOK,
         \/ \E s \in Session : LeaseEnds(s)
         \/ \E b \in batches : AckBatch(b) \/ BatchRejected(b)
         \/ Record(TRUE) \/ Record(FALSE) \/ Flush \/ ExpireLeases
         \/ DrainTimesOut \/ ApplyTimesOut
  PROVE  LeaseInv'
<1>1. /\ script \in Seq(Message) /\ Remain(script, script)
      /\ page.generation \in Nat /\ page \in PageType
  <2>1. script \in Seq(Message) /\ page \in PageType
    BY BaseParts
  <2> QED BY <2>1, RemainIs DEF PageType
<1>2. ~page.drain \/ script = <<>>
  BY NoDrain
<1>3. CASE \E s \in Session : LeaseEnds(s)
  <2>1. PICK s \in Session : LeaseEnds(s)
    BY <1>3
  <2>2. /\ Ends(document, page, page', history.lost, history'.lost) /\ SameHistory
        /\ DrainEnds(page, page', serial, serial') /\ page' \in PageType
    BY <2>1, LeaseEndsIs DEF PageTypeOK
  <2>3. UNCHANGED <<store, document, script, batches>>
    BY <2>1 DEF LeaseEnds
  <2> QED BY <1>1, <2>2, <2>3, SerialSame, EndsMoves, PageLease DEF SameHistory
<1>4. CASE \E b \in batches : AckBatch(b) \/ BatchRejected(b)
  <2>1. PICK b \in batches : AckBatch(b) \/ BatchRejected(b)
    BY <1>4
  <2>2. /\ Ends(document, page, page', history.lost, history'.lost) /\ SameHistory
        /\ DrainEnds(page, page', serial, serial') /\ batches' = batches \ {b}
        /\ page' \in PageType
    BY <2>1, AckBatchIs, BatchRejectedIs DEF PageTypeOK
  <2>3. UNCHANGED <<store, document, script>>
    BY <2>1 DEF AckBatch, BatchRejected
  <2> QED BY <1>1, <2>2, <2>3, SerialSame, EndsMoves, PageLease DEF SameHistory
<1>5. CASE Record(TRUE) \/ Record(FALSE)
  <2> DEFINE event == [document |-> document, number |-> page.number + 1, source |-> page.source,
                       observers |-> page.leases]
  <2>3. Records(page, page') /\ history'.begun = history.begun
        /\ history'.recorded = history.recorded \cup {event}
    BY <1>5, RecordIs
  <2>4. event.observers = page.leases
    OBVIOUS
  <2> HIDE DEF event
  <2>1. /\ Records(page, page') /\ history'.begun = history.begun
        /\ \A e \in history'.recorded : e \in history.recorded \/ e.observers = page.leases
    BY <2>3, <2>4
  <2>2. UNCHANGED <<store, serial, document, script, batches>>
    BY <1>5 DEF Record
  <2> QED BY <1>1, <2>1, <2>2, PageLease DEF Records
<1>6. CASE Flush
  <2>1. PICK b \in BatchType : Sends(document, page, page', b) /\ batches' = batches \cup {b}
    BY <1>6, FlushIs
  <2>2. UNCHANGED <<store, serial, document, script, history>>
    BY <1>6 DEF Flush
  <2> QED BY <1>1, <2>1, <2>2, PageLease DEF Sends
<1>7. CASE ExpireLeases
  <2>1. /\ script # <<>> /\ script' = Tail(script)
        /\ Ends(document, page, page', history.lost, history'.lost) /\ SameHistory
        /\ Answers(serial, serial', "ok") \/ serial' = serial
        /\ page' \in PageType
    BY <1>2, <1>7, ExpireLeasesIs DEF PageTypeOK
  <2>2. UNCHANGED <<store, document, batches>>
    BY <1>7 DEF ExpireLeases
  <2>3. Remain(script, script')
    BY <1>1, <2>1, RemainIs
  <2> QED BY <1>1, <2>1, <2>2, <2>3, SerialSame, EndsMoves, PageLease DEF SameHistory
<1>8. CASE DrainTimesOut \/ ApplyTimesOut
  <2>1. /\ page'.leases = page.leases /\ page'.source = page.source
        /\ page'.generation = page.generation
        /\ \E reply \in {"undrained", "failed"} : Answers(serial, serial', reply)
    BY <1>8, TimesOutIs
  <2>2. UNCHANGED <<store, document, batches, history>>
    BY <1>8 DEF DrainTimesOut, ApplyTimesOut
  <2>3. Remain(script, script')
    BY <1>1, <1>8, RemainIs, UnawaitedIs DEF DrainTimesOut, ApplyTimesOut
  <2> QED BY <1>1, <2>1, <2>2, <2>3, SerialSame, PageLease
<1> QED BY <1>3, <1>4, <1>5, <1>6, <1>7, <1>8

(* A configuration gives leases that were kept in its script.              *)
LEMMA ConfigureLease ==
  ASSUME LeaseInv, BaseInv, CaptureTypeOK, NEW tried \in {"ok", "failed"}, Configure(tried)
  PROVE  LeaseInv'
<1> DEFINE m == Head(script)
<1>1. /\ script # <<>> /\ script' = Tail(script) /\ Reconfigures(page, page', m)
      /\ serial' = serial \/ Answers(serial, serial', "drained") \/ Answers(serial, serial', tried)
  BY NoDrain, ConfigureIs
<1>2. UNCHANGED <<store, document, batches, history>>
  BY DEF Configure
<1>3. /\ script \in Seq(Message) /\ page \in PageType /\ serial \in SerialType
      /\ m = script[1] /\ 1 \in DOMAIN script
  BY <1>1, BaseParts, HeadIs
<1> HIDE DEF m
<1>4. serial'.what = serial.what /\ serial'.session = serial.session
  BY <1>1, SerialSame
<1>5. Remain(script, script')
  BY <1>1, <1>3, RemainIs
<1>6. LeasesKept(store', script', serial')
  BY <1>2, <1>4, <1>5, RemainKept DEF LeaseInv
<1>7. ASSUME NEW b \in batches, b.document = document
      PROVE  b.generation # page'.generation
  <2> DEFINE g == b.generation  p == page.generation
  <2>1. g \in Nat /\ p \in Nat /\ g <= p
    BY <1>7, BaseParts DEF PagePart, PagesOrdered, BatchType, PageType
  <2> HIDE DEF g, p
  <2>2. g # p + 1
    BY <2>1
  <2> QED BY <1>1, <2>2 DEF Reconfigures, g, p
<1>8. EndsFairly(store', document', page', batches')
  BY <1>2, <1>7 DEF EndsFairly
<1>9. ASSUME NEW s, Known(store', page', script', history', s)
      PROVE  Known(store, page, script, history, s)
  BY <1>1, <1>2, <1>3, <1>5, <1>9 DEF Known, Remain, Reconfigures
<1>10. serial'.what = "confirm_start" =>
        /\ script' = <<>> \/ serial'.session \notin page'.leases
        /\ \A i \in DOMAIN script' : serial'.session \in script'[i].leases => Len(script') = 1
  <2> SUFFICES ASSUME serial.what = "confirm_start"
               PROVE  /\ script' = <<>> \/ serial.session \notin page'.leases
                      /\ \A i \in DOMAIN script' :
                           serial.session \in script'[i].leases => Len(script') = 1
    BY <1>4
  <2>1. \A i \in DOMAIN script : serial.session \in script[i].leases => Len(script) = 1
    BY DEF LeaseInv, BegunOK
  <2>2. Len(script) = 1 => script' = <<>>
    BY <1>1, <1>3, TailIs
  <2>3. serial.session \in page'.leases => script' = <<>>
    BY <1>1, <1>3, <2>1, <2>2 DEF Reconfigures
  <2>4. ASSUME NEW i \in DOMAIN script', serial.session \in script'[i].leases
        PROVE  Len(script') = 1
    <3>1. script' = <<>>
      BY <1>5, <2>1, <2>2, <2>4 DEF Remain
    <3> QED BY <3>1
  <2> QED BY <2>3, <2>4
<1>11. serial'.what \in {"starting", "confirm_start"} => serial'.session \in Session
  BY <1>3, <1>4, SerialIs DEF Confirming
<1>12. BegunOK(store', page', script', serial', history')
  BY <1>2, <1>4, <1>9, <1>10, <1>11, BegunKept DEF LeaseInv
<1> QED BY <1>6, <1>8, <1>12 DEF LeaseInv

(* A session that is asked for is new.                                     *)
LEMMA StartCaptureLease ==
  ASSUME LeaseInv, BaseInv, history \in HistoryType, NEW s \in Session, StartCapture(s)
  PROVE  LeaseInv'
<1>1. /\ serial = Idle /\ ~history.begun[s] /\ serial'.what = "starting" /\ serial'.session = s
      /\ history' = [history EXCEPT !.begun[s] = TRUE]
      /\ UNCHANGED <<store, document, page, script, batches>>
  BY DEF StartCapture, Hold
<1>2. history'.recorded = history.recorded /\ history'.begun = [history.begun EXCEPT ![s] = TRUE]
  BY <1>1 DEF HistoryType
<1>3. history'.begun[s] /\ \A r \in Session : history.begun[r] => history'.begun[r]
  BY <1>2 DEF HistoryType
<1>4. \A r : Known(store', page', script', history', r) <=> Known(store, page, script, history, r)
  BY <1>1, <1>2 DEF Known
<1>5. BegunOK(store', page', script', serial', history')
  BY <1>1, <1>3, <1>4 DEF LeaseInv, BegunOK
<1>6. \A r : ~Excused(serial, r)
  BY <1>1, IdleExcuses
<1>7. LeasesKept(store', script', serial')
  BY <1>1, <1>6 DEF LeaseInv, LeasesKept, Excused
<1>8. EndsFairly(store', document', page', batches')
  BY <1>1 DEF LeaseInv
<1> QED BY <1>5, <1>7, <1>8 DEF LeaseInv

(* What happens around the host and the page.                              *)
LEMMA SurroundingsLease ==
  ASSUME LeaseInv, BaseInv, history \in HistoryType, LoadFinished \/ RevokeDomain \/ Navigate
  PROVE  LeaseInv'
<1>1. CASE LoadFinished \/ RevokeDomain
  <2>1. UNCHANGED <<store, serial, document, page, script, batches>>
        /\ history'.recorded = history.recorded /\ history'.begun = history.begun
    BY <1>1 DEF LoadFinished, RevokeDomain, HistoryType
  <2>2. \A s : Known(store', page', script', history', s) <=> Known(store, page, script, history, s)
    BY <2>1 DEF Known
  <2>3. BegunOK(store', page', script', serial', history')
    BY <2>1, <2>2 DEF LeaseInv, BegunOK
  <2> QED BY <2>1, <2>3 DEF LeaseInv
<1>2. CASE Navigate
  <2>1. /\ document' = document + 1 /\ page' = OffPage /\ script' = <<>> /\ StoreOK(store')
        /\ Narrows(store, store') /\ UNCHANGED <<serial, batches, history>>
    BY <1>2, NavigateIs, BaseStoreOK, AgesNarrows DEF Navigate
  <2>2. page'.leases = {} /\ DOMAIN script' = {}
    BY <2>1 DEF OffPage
  <2>3. LeasesKept(store', script', serial')
    BY <2>2 DEF LeasesKept
  <2>4. EndsFairly(store', document', page', batches')
    BY <2>2 DEF EndsFairly
  <2>5. \A s : Known(store', page', script', history', s) => Known(store, page, script, history, s)
    BY <2>1, <2>2 DEF Known, Narrows
  <2>6. BegunOK(store', page', script', serial', history')
    BY <2>1, <2>2, <2>5 DEF LeaseInv, BegunOK
  <2> QED BY <2>3, <2>4, <2>6 DEF LeaseInv
<1> QED BY <1>1, <1>2

(* A batch is refused only when no session is served by its source.        *)
LEMMA IngestLease ==
  ASSUME LeaseInv, BaseInv, history \in HistoryType, NEW b, NEW again \in BOOLEAN, Ingest(b, again)
  PROVE  LeaseInv'
<1> DEFINE st == Swept(store)
<1>1. /\ StoreOK(st) /\ Ages(store, st, {}) /\ b \in batches /\ ~b.again
      /\ UNCHANGED <<serial, document, page, script>>
      /\ history'.recorded = history.recorded /\ history'.begun = history.begun
  BY IngestIs
<1>2. StoreOK(store) /\ script \in Seq(Message) /\ b \in BatchType
  BY <1>1, BaseParts
<1>3. Narrows(store, st)
  BY <1>1, <1>2, AgesNarrows
<1>4. Narrows(st, store')
  <2>1. CASE store' = st
    BY <2>1 DEF Narrows
  <2>2. CASE Live(st, b.source) /\ store' = IngestBatch(st, b)
    <3>1. Base(st, document, page, batches, script, serial, history.stored)
      BY <1>1, AgesBase DEF BaseInv
    <3> DEFINE had == history.stored
    <3> HIDE DEF st, had
    <3>2. Stores(st, IngestBatch(st, b), b, had, had \cup StoredBy(st, b))
      BY <1>1, <2>2, <3>1, IngestBase DEF had
    <3> QED BY <2>2, <3>2, AddsNarrows DEF Stores
  <2> QED BY <2>1, <2>2, IngestIs
<1>5. Narrows(store, store')
  BY <1>3, <1>4, NarrowsThen
<1>6. LeasesKept(store', script', serial')
  BY <1>1, <1>2, <1>5, KeptNarrows DEF LeaseInv
<1>7. BegunOK(store', page', script', serial', history')
  <2>1. \A s : Known(store', page', script', history', s) => Known(store, page, script, history, s)
    BY <1>1, <1>5 DEF Known, Narrows
  <2> QED BY <1>1, <2>1 DEF LeaseInv, BegunOK
<1>8. StoreOK(store')
  BY IngestActionBase, BaseStoreOK DEF BaseInv, Base
<1>9. EndsFairly(store', document', page', batches')
  <2>1. EndsFairly(store', document, page, batches)
    BY <1>5, <1>8, FairlyNarrows DEF LeaseInv
  <2>2. CASE ~AcceptsSource(st, b.source) /\ store' = st
             /\ batches' = (batches \ {b}) \cup {Answered(b, FALSE)}
    <3> DEFINE c == Answered(b, FALSE)
    <3>1. c.source = b.source
      BY <1>2, AnsweredIs
    <3> HIDE DEF c, st
    <3>2. ASSUME c.source = page.source, NEW s \in page.leases \cap Serving(st, page.source)
          PROVE  st.source[page.source].interrupted
      <4>1. s \in Session /\ s \in Retained(st) /\ Capturing(st, s) /\ ~st.session[s].late
            /\ Current(st, s) = page.source
        BY <3>2, ServingIs
      <4>2. Observes(st, s, page.source) /\ page.source \in Sources
        BY <1>1, <4>1, CurrentIn
      <4>3. st.source[page.source].context # 0
        BY <1>1, <4>1, <4>2 DEF StoreOK, SourcesKnown
      <4> QED BY <2>2, <3>1, <3>2, <4>1, <4>2, <4>3 DEF AcceptsSource
    <3>3. batches' \subseteq batches \cup {c}
      BY <2>2 DEF c
    <3> QED BY <1>1, <2>1, <2>2, <3>2, <3>3 DEF EndsFairly
  <2>3. CASE batches' = (batches \ {b}) \cup {Answered(b, TRUE)}
    <3>1. Answered(b, TRUE).answer = "continue"
      BY <1>2, AnsweredIs
    <3> QED BY <1>1, <2>1, <2>3, <3>1 DEF EndsFairly
  <2> QED BY <2>2, <2>3, IngestIs
<1> QED BY <1>6, <1>7, <1>9 DEF LeaseInv

(* A session that begins is served, and named in its configuration.        *)
LEMMA BeginSessionLease ==
  ASSUME LeaseInv, BaseInv, BeginSession
  PROVE  LeaseInv'
<1> DEFINE s == serial.session
<1>1. SamePage
  BY DEF SamePage, BeginSession
<1>2. s \in Session /\ serial.what = "starting" /\ script \in Seq(Message) /\ StoreOK(store)
  BY BeginSessionIs, BaseStoreOK
<1>3. \A r : ~Excused(serial, r)
  BY <1>2 DEF Excused
<1>4. ~Known(store, page, script, history, s) /\ history.begun[s]
  BY <1>2 DEF LeaseInv, BegunOK
<1> HIDE DEF s
<1>5. CASE store' = store /\ Left
  <2>1. Narrows(store, store')
    BY <1>5 DEF Narrows
  <2> QED BY <1>1, <1>2, <1>3, <1>5, <2>1, LeftLease
<1>6. ASSUME NEW swept, NEW mid, NEW id, StoreOK(swept), Ages(store, swept, {}),
             StoreOK(mid), Draws(swept, mid, id, serial.context)
      PROVE  Narrows(store, mid) /\ id \in Sources
  BY <1>2, <1>6, AgesNarrows, DrawsNarrows, NarrowsThen DEF Draws
<1>7. ASSUME NEW mid, StoreOK(mid), Narrows(store, mid), store' = mid, Left
      PROVE  LeaseInv'
  BY <1>1, <1>3, <1>7, LeftLease
<1>8. ASSUME NEW mid, NEW id \in Sources, StoreOK(mid), Narrows(store, mid), StoreOK(store'),
             Starts(mid, store', s, id), Config(store', id, {}, FALSE) \in Message,
             Applied("confirm_start", Config(store', id, {}, FALSE), serial.context)
      PROVE  LeaseInv'
  <2> DEFINE m == Config(store', id, {}, FALSE)
  <2>1. m.source = id /\ m.leases = Serving(store', id)
    BY DEF Config
  <2>2. m \in Message
    BY <1>8
  <2>3. serial'.what = "confirm_start" /\ serial'.session = s
        /\ (script' = script \/ (script = <<>> /\ script' = Append(script, m)))
    BY <1>8 DEF Applied, s
  <2> HIDE DEF m
  <2>4. /\ Retained(store') \subseteq Retained(mid) \cup {s}
        /\ \A jd \in Sources : /\ Serving(store', jd) \subseteq Serving(mid, jd) \cup {s}
                               /\ store'.source[jd] = mid.source[jd]
    <3>1. s \in Session /\ Starts(mid, store', s, id)
      BY <1>2, <1>8
    <3>2. Retained(store') \subseteq Retained(mid) \cup {s}
      BY <3>1, StartsServes
    <3>3. ASSUME NEW jd \in Sources
          PROVE  Serving(store', jd) \subseteq Serving(mid, jd) \cup {s}
      BY <1>8, <3>1, StartsServes
    <3>4. store'.source = mid.source
      BY <3>1 DEF Starts
    <3> QED BY <3>2, <3>3, <3>4
  <2>5. /\ s \notin page.leases /\ s \notin Retained(store)
        /\ \A i \in DOMAIN script : s \notin script[i].leases
    BY <1>4 DEF Known
  <2>6. EndsFairly(store', document', page', batches')
    <3>1. EndsFairly(mid, document, page, batches)
      BY <1>8, FairlyNarrows DEF LeaseInv
    <3>2. ASSUME NEW r \in page.leases \cap Serving(store', page.source)
          PROVE  page.source \in Sources /\ r \in Serving(mid, page.source)
      <4>1. page.source \in Sources
        BY <1>8, <3>2, ServingIs, CurrentIn
      <4> QED BY <2>4, <2>5, <3>2, <4>1
    <3>3. ASSUME NEW b \in batches, b.document = document, b.answer = "end",
                 b.generation = page.generation, b.source = page.source,
                 page.leases \cap Serving(store', page.source) # {}
          PROVE  store'.source[page.source].interrupted
      <4>1. mid.source[page.source].interrupted /\ page.source \in Sources
        BY <3>1, <3>2, <3>3 DEF EndsFairly
      <4> QED BY <2>4, <4>1
    <3> QED BY <1>1, <3>3 DEF EndsFairly, SamePage
  <2>7. LeasesKept(store', script, serial')
    <3>1. LeasesKept(mid, script, serial)
      BY <1>2, <1>3, <1>8, KeptNarrows DEF LeaseInv
    <3> SUFFICES ASSUME NEW i \in DOMAIN script, NEW r \in Serving(store', script[i].source),
                        r \notin script[i].leases
                 PROVE  serial'.session = r
      BY <2>3 DEF LeasesKept
    <3>3. script[i] \in Message
      BY <1>2
    <3>4. script[i].source \in Sources
      BY <3>3 DEF Message
    <3>5. r \notin Serving(mid, script[i].source)
      BY <1>3, <3>1 DEF LeasesKept, Excused
    <3> QED BY <2>3, <2>4, <3>4, <3>5
  <2>8. LeasesKept(store', script', serial')
    <3>1. \A r \in Serving(store', m.source) \ m.leases : Excused(serial', r)
      BY <2>1
    <3> QED BY <1>2, <2>2, <2>3, <2>7, <3>1, KeptAppend
  <2>9. ASSUME NEW r \in Session, Known(store', page', script', history', r)
        PROVE  Known(store, page, script, history, r) \/ r = s
    <3>1. m.leases \subseteq Retained(store')
      BY <2>1, ServingIs
    <3>2. Retained(store') \subseteq Retained(store) \cup {s}
      BY <1>8, <2>4 DEF Narrows
    <3>3. Known(store', page, script, history, r) \/ r \in m.leases
      BY <1>1, <1>2, <2>2, <2>3, <2>9, KnownAppend DEF SamePage
    <3> QED BY <3>1, <3>2, <3>3 DEF Known
  <2>10. \A i \in DOMAIN script' : s \in script'[i].leases => Len(script') = 1
    <3>1. CASE script' = script
      BY <2>5, <3>1
    <3>2. CASE script = <<>> /\ script' = Append(script, m)
      BY <3>2
    <3> QED BY <2>3, <3>1, <3>2
  <2>11. history' = history /\ page' = page
    BY <1>1 DEF SamePage
  <2>12. \A r \in Session : Known(store', page', script', history', r) => history'.begun[r]
    BY <1>4, <2>9, <2>11 DEF LeaseInv, BegunOK
  <2>13. BegunOK(store', page', script', serial', history')
    BY <2>3, <2>5, <2>10, <2>11, <2>12 DEF BegunOK
  <2> QED BY <2>6, <2>8, <2>13 DEF LeaseInv
<1> QED
  <2>1. ASSUME NEW swept, NEW mid, NEW id,
               StoreOK(swept), Ages(store, swept, {}), StoreOK(mid),
               Draws(swept, mid, id, serial.context),
               \/ store' = mid /\ Left
               \/ /\ StoreOK(store') /\ Starts(mid, store', serial.session, id)
                  /\ Config(store', id, {}, FALSE) \in Message
                  /\ Applied("confirm_start", Config(store', id, {}, FALSE), serial.context)
        PROVE  LeaseInv'
    <3>1. Narrows(store, mid) /\ id \in Sources
      BY <1>6, <2>1
    <3> QED BY <1>7, <1>8, <2>1, <3>1 DEF s
  <2> QED BY <1>5, <2>1, BeginSessionIs

(* So are those that follow, in a page that had other leases.              *)
LEMMA FollowLease ==
  ASSUME LeaseInv, BaseInv, Follow
  PROVE  LeaseInv'
<1>1. SamePage
  BY DEF SamePage, Follow
<1>2. /\ serial.what = "following" /\ script \in Seq(Message) /\ StoreOK(store)
      /\ store.drawn \in Nat
  BY FollowIs, BaseStoreOK
<1>3. \A r : ~Excused(serial, r)
  BY <1>2 DEF Excused
<1>4. PICK mid, id :
        /\ StoreOK(mid) /\ Draws(store, mid, id, serial.context)
        /\ DrawsNew(store, mid, id, serial.context)
        /\ StoreOK(store') /\ Follows(mid, store', id)
        /\ \/ Left /\ Serving(store', id) = {}
           \/ /\ Config(store', id, {}, FALSE) \in Message
              /\ Applied("confirm_follow", Config(store', id, {}, FALSE), serial.context)
  BY FollowIs
<1> DEFINE m == Config(store', id, {}, FALSE)
<1>5. id \in Sources /\ id = store.drawn + 1 /\ Narrows(store, mid)
  BY <1>2, <1>4, DrawsNarrows DEF Draws, DrawsNew
<1>6. /\ Retained(store') = Retained(mid)
      /\ \A jd \in Sources : /\ jd # id => Serving(store', jd) \subseteq Serving(mid, jd)
                             /\ store'.source[jd] = mid.source[jd]
  BY <1>4, <1>5, FollowsServes
<1>7. m.source = id /\ m.leases = Serving(store', id)
  BY DEF Config
<1>8. /\ serial'.what \in {"idle", "confirm_follow"}
      /\ (script' = script) \/ (m \in Message /\ script' = Append(script, m))
  BY <1>4, IdleIs DEF Left, Applied
<1> HIDE DEF m
<1>9. page.source # id /\ \A i \in DOMAIN script : script[i].source # id
  <2>1. /\ page.source # 0 => page.source <= store.drawn
        /\ \A i \in DOMAIN script : script[i].source <= store.drawn
    BY BaseParts DEF PagePart, SourcesOfPage, ScriptsOK
  <2>2. \A jd \in Sources : jd <= store.drawn => jd # id
    BY <1>2, <1>5 DEF Sources
  <2>3. page.source \in Sources \cup {0} /\ \A i \in DOMAIN script : script[i].source \in Sources
    BY BaseParts, PartsSources
  <2>4. id # 0
    BY <1>2, <1>5
  <2> QED BY <2>1, <2>2, <2>3, <2>4
<1>10. EndsFairly(store', document', page', batches')
  <2>1. EndsFairly(mid, document, page, batches)
    BY <1>4, <1>5, FairlyNarrows DEF LeaseInv
  <2>2. ASSUME NEW r \in page.leases \cap Serving(store', page.source)
        PROVE  page.source \in Sources /\ r \in Serving(mid, page.source)
    <3>1. page.source \in Sources
      BY <1>4, <2>2, ServingIs, CurrentIn
    <3> QED BY <1>6, <1>9, <2>2, <3>1
  <2>3. ASSUME NEW b \in batches, b.document = document, b.answer = "end",
               b.generation = page.generation, b.source = page.source,
               page.leases \cap Serving(store', page.source) # {}
        PROVE  store'.source[page.source].interrupted
    <3>1. mid.source[page.source].interrupted /\ page.source \in Sources
      BY <2>1, <2>2, <2>3 DEF EndsFairly
    <3> QED BY <1>6, <3>1
  <2> QED BY <1>1, <2>3 DEF EndsFairly, SamePage
<1>11. LeasesKept(store', script, serial')
  <2>1. LeasesKept(mid, script, serial)
    BY <1>2, <1>3, <1>5, KeptNarrows DEF LeaseInv
  <2> SUFFICES ASSUME NEW i \in DOMAIN script, NEW r \in Serving(store', script[i].source),
                      r \notin script[i].leases
               PROVE  FALSE
    BY DEF LeasesKept
  <2>2. script[i] \in Message
    BY <1>2
  <2>3. script[i].source \in Sources
    BY <2>2 DEF Message
  <2>4. r \in Serving(mid, script[i].source)
    BY <1>6, <1>9, <2>3
  <2> QED BY <1>3, <2>1, <2>4 DEF LeasesKept, Excused
<1>12. LeasesKept(store', script', serial')
  <2>1. \A r \in Serving(store', m.source) \ m.leases : Excused(serial', r)
    BY <1>7
  <2> QED BY <1>2, <1>8, <1>11, <2>1, KeptAppend
<1>13. ASSUME NEW r \in Session, Known(store', page', script', history', r)
       PROVE  Known(store, page, script, history, r)
  <2>1. m.leases \subseteq Retained(store') /\ Retained(store') \subseteq Retained(store)
    BY <1>5, <1>6, <1>7, ServingIs DEF Narrows
  <2>2. Known(store', page, script, history, r) \/ r \in m.leases
    BY <1>1, <1>2, <1>8, <1>13, KnownAppend DEF SamePage
  <2> QED BY <2>1, <2>2 DEF Known
<1>14. BegunOK(store', page', script', serial', history')
  BY <1>1, <1>8, <1>13, BegunKept DEF LeaseInv, SamePage
<1> QED BY <1>10, <1>12, <1>14 DEF LeaseInv

-----------------------------------------------------------------------------
(* No lease is lost without a cause                                        *)

(* The invariant of the page's leases.                                     *)
PageInv == ReadInv /\ trouble \in Nat /\ LeaseInv

(* The second layer holds at first.                                        *)
LEMMA InitLease ==
  ASSUME CaptureInit
  PROVE  LeaseInv
<1>1. /\ page.leases = {} /\ script = <<>> /\ serial = Idle /\ batches = {}
      /\ history.recorded = {} /\ \A s \in Session : store.session[s].status = "none"
  BY DEF CaptureInit, OffPage, NoSession
<1>2. DOMAIN script = {} /\ Retained(store) = {}
  BY <1>1 DEF Retained
<1>3. \A s : ~Known(store, page, script, history, s)
  BY <1>1, <1>2 DEF Known
<1>4. BegunOK(store, page, script, serial, history)
  BY <1>1, <1>3, IdleExcuses DEF BegunOK
<1>5. LeasesKept(store, script, serial) /\ EndsFairly(store, document, page, batches)
  BY <1>1, <1>2 DEF LeasesKept, EndsFairly
<1> QED BY <1>4, <1>5 DEF LeaseInv

(* And after each step.                                                    *)
LEMMA NextLease ==
  ASSUME PageInv, [CaptureNext]_captureVars
  PROVE  PageInv'
<1>1. CaptureTypeOK /\ BaseInv /\ LeaseInv /\ history \in HistoryType
  BY ReadInvTyped DEF PageInv, ReadInv
<1>2. (ReadInv /\ trouble \in Nat)'
  BY NextRead DEF PageInv
<1>3. CASE UNCHANGED captureVars
  <2>1. LeaseInv'
    BY <1>1, <1>3 DEF captureVars, LeaseInv
  <2> QED BY <1>2, <2>1 DEF PageInv
<1>4. CASE CaptureNext
  <2>1. CASE \/ \E s \in Session : \/ StatusOf(s, TRUE) \/ StatusOf(s, FALSE)
                                   \/ SessionDeadline(s) \/ Forgotten(s) \/ Query(s)
             \/ RolledBack \/ ConfirmStop \/ ConfirmFollow \/ Cleaned
    BY <1>1, <1>2, <2>1, OperationsLease DEF PageInv
  <2>2. CASE (\E s \in Session : StopCapture(s)) \/ SendStop \/ PageHasChanged
    BY <1>1, <1>2, <2>2, StopsLease DEF PageInv
  <2>3. CASE \/ \E s \in Session : LeaseEnds(s)
             \/ \E b \in batches : AckBatch(b) \/ BatchRejected(b)
             \/ Record(TRUE) \/ Record(FALSE) \/ Flush \/ ExpireLeases
             \/ DrainTimesOut \/ ApplyTimesOut
    BY <1>1, <1>2, <2>3, PageStepsLease DEF PageInv
  <2>4. CASE (\E s \in Session : StartCapture(s)) \/ LoadFinished \/ RevokeDomain \/ Navigate
    BY <1>1, <1>2, <2>4, StartCaptureLease, SurroundingsLease DEF PageInv
  <2>5. CASE BeginSession \/ Follow \/ ConfirmStart \/ Maintain
    BY <1>1, <1>2, <2>5, BeginSessionLease, FollowLease, ConfirmStartLease, MaintainLease DEF PageInv
  <2>6. CASE \/ Configure("ok") \/ Configure("failed")
             \/ \E b \in batches : Ingest(b, TRUE) \/ Ingest(b, FALSE)
    BY <1>1, <1>2, <2>6, ConfigureLease, IngestLease DEF PageInv
  <2> QED BY <1>4, <2>1, <2>2, <2>3, <2>4, <2>5, <2>6 DEF CaptureNext, Trouble
<1> QED BY <1>3, <1>4

(* So always.                                                              *)
LEMMA PageInvHolds == CaptureSpec => []PageInv
<1>1. CaptureInit => PageInv
  BY InitRead, InitLease DEF PageInv
<1>2. PageInv /\ [CaptureNext]_captureVars => PageInv'
  BY NextLease
<1> QED BY <1>1, <1>2, PTL DEF CaptureSpec

-----------------------------------------------------------------------------
(* Why a lease is given up.                                                *)
ForCause ==
  \A s \in page.leases \ page'.leases :
       \/ document' # document
       \/ ~Capturing(store, s) \/ store.session[s].late
       \/ store.source[Current(store, s)].interrupted \/ Current(store, s) # page.source
       \/ serial.what = "confirm_stop" /\ serial.session = s
       \/ script # script' /\ store.source[Head(script).source].interrupted

(* A session of this page that goes on.                                    *)
LEMMA HeldIs ==
  ASSUME PageInv, NEW s \in page.leases, Capturing(store, s), ~store.session[s].late,
         Current(store, s) = page.source
  PROVE  /\ s \in Serving(store, page.source) /\ page.source \in Sources
         /\ store.source[page.source].context # 0
<1>1. StoreOK(store) /\ page.leases \subseteq Session
  BY BaseParts DEF PageInv, ReadInv, PageType
<1>2. s \in Session /\ s \in Retained(store)
  BY <1>1 DEF Capturing, Retained
<1>3. page.source \in Sources /\ Observes(store, s, page.source)
  BY <1>1, <1>2, CurrentIn
<1> QED BY <1>1, <1>2, <1>3 DEF Serving, StoreOK, SourcesKnown

(* A script that does not name a session of this page.                     *)
LEMMA UnnamedIs ==
  ASSUME PageInv, script # <<>>, Head(script).source = page.source,
         NEW s \in page.leases, s \notin Head(script).leases, s \in Serving(store, page.source)
  PROVE  serial.what = "confirm_stop" /\ serial.session = s
<1>1. 1 \in DOMAIN script /\ Head(script) = script[1]
  BY HeadIs DEF PageInv, ReadInv
<1>2. Excused(serial, s)
  BY <1>1 DEF PageInv, LeaseInv, LeasesKept, Excused
<1>3. serial.what # "confirm_start"
  BY <1>2 DEF PageInv, LeaseInv, BegunOK, Excused
<1> QED BY <1>2, <1>3 DEF Excused

(* Each step that takes a lease has a cause.                               *)
LEMMA LeavesForCause ==
  ASSUME PageInv, CaptureNext
  PROVE  ForCause
<1> SUFFICES ASSUME NEW s \in page.leases, s \notin page'.leases, document' = document,
                    Capturing(store, s), ~store.session[s].late,
                    ~store.source[Current(store, s)].interrupted, Current(store, s) = page.source
             PROVE  \/ serial.what = "confirm_stop" /\ serial.session = s
                    \/ script # script' /\ store.source[Head(script).source].interrupted
  BY DEF ForCause
<1>1. CaptureTypeOK /\ BaseInv /\ LeaseInv /\ StoreOK(store) /\ (~page.drain \/ script = <<>>)
  BY ReadInvTyped, BaseStoreOK, NoDrain DEF PageInv, ReadInv
<1>2. /\ s \in Serving(store, page.source) /\ page.source \in Sources
      /\ store.source[page.source].context # 0 /\ ~store.source[page.source].interrupted
  BY HeldIs
<1>3. CASE UNCHANGED page
  BY <1>3
<1>4. CASE \E r \in Session : LeaseEnds(r)
  <2>1. PICK r \in Session : LeaseEnds(r)
    BY <1>4
  <2>2. page'.leases = page.leases \ {r} /\ (r \in Retained(store) => store.session[r].late)
    BY <1>1, <2>1, LeaseEndsIs
  <2>3. s \in Retained(store)
    BY <1>2, ServingIs
  <2> QED BY <2>2, <2>3
<1>5. CASE \E b \in batches : AckBatch(b)
  <2>1. PICK b \in batches : AckBatch(b)
    BY <1>5
  <2>2. EndsLease(b) /\ b.document = document
    BY <1>1, <2>1, AckBatchIs
  <2> QED BY <1>1, <1>2, <2>1, <2>2 DEF LeaseInv, EndsFairly, EndsLease
<1>6. CASE (\E b \in batches : BatchRejected(b)) \/ Record(TRUE) \/ Record(FALSE) \/ Flush
           \/ DrainTimesOut \/ ApplyTimesOut
  <2>1. page'.leases = page.leases
    BY <1>1, <1>6, BatchRejectedIs, RecordIs, FlushIs, TimesOutIs DEF Records, Sends
  <2> QED BY <2>1
<1>7. CASE ExpireLeases
  <2>1. /\ script # <<>> /\ Head(script).source = page.source
        /\ page'.leases = page.leases \cap Head(script).leases
    BY <1>1, <1>7, ExpireLeasesIs
  <2> QED BY <1>2, <2>1, UnnamedIs
<1>8. CASE Configure("ok") \/ Configure("failed")
  <2>1. /\ script # <<>> /\ Head(script).what = "configure" /\ script' = Tail(script)
        /\ page'.leases = Head(script).leases
    BY <1>1, <1>8, ConfigureIs DEF Reconfigures
  <2>2. CASE Head(script).source = page.source
    BY <1>2, <2>1, <2>2, UnnamedIs
  <2>3. CASE Head(script).source # page.source
    <3> DEFINE id == Head(script).source  jd == page.source
    <3>1. script \in Seq(Message)
      BY <1>1, BaseStoreOK
    <3>2. script # script'
      <4>1. Len(Tail(script)) = Len(script) - 1 /\ Len(script) \in Nat \ {0}
        BY <2>1, <3>1, TailIs
      <4> DEFINE m == Len(Tail(script))  n == Len(script)
      <4>2. m = n - 1 /\ n \in Nat
        BY <4>1
      <4> HIDE DEF m, n
      <4>3. m # n
        BY <4>2
      <4>4. script # Tail(script)
        BY <4>3 DEF m, n
      <4> QED BY <2>1, <4>4
    <3>3. /\ Context(store, id) \in {0, document} /\ Context(store, jd) \in {0, document}
          /\ Context(store, id) = 0 /\ jd # 0 => ~Live(store, jd)
      <4>1. 1 \in DOMAIN script /\ Head(script) = script[1]
        BY <1>1, <2>1, HeadIs
      <4>2. \A i \in DOMAIN script : script[i].what = "configure" =>
              /\ Context(store, script[i].source) \in {0, document}
              /\ Context(store, script[i].source) = 0 /\ page.source # 0 => ~Live(store, page.source)
        BY <1>1, BaseParts DEF ScriptsOK
      <4>3. page.source # 0 => Context(store, page.source) \in {0, document}
        BY <1>1, BaseParts DEF PagePart, SourcesOfPage
      <4>4. page.source # 0
        BY <1>2 DEF Sources
      <4> QED BY <2>1, <4>1, <4>2, <4>3, <4>4
    <3>4. Live(store, jd) /\ jd # 0 /\ Context(store, jd) # 0
      BY <1>2 DEF Live, Context, Sources
    <3>5. Context(store, id) = Context(store, jd) /\ Context(store, id) # 0
      BY <3>3, <3>4
    <3>6. id \in Sources
      <4>1. Head(script) \in Message
        BY <1>1, <2>1, HeadIs
      <4> QED BY <4>1 DEF Message
    <3>7. store.source[id].interrupted
      <4>1. ~Live(store, id)
        BY <1>1, <1>2, <2>3, <3>4, <3>5, <3>6 DEF StoreOK, OneLive, Context
      <4> QED BY <3>5, <4>1 DEF Live, Context
    <3> QED BY <3>2, <3>7
  <2> QED BY <2>2, <2>3
<1>9. CASE Navigate
  <2>1. document' = document + 1 /\ document \in Nat
    BY <1>1, <1>9, BaseStoreOK DEF Navigate
  <2> QED BY <2>1
<1>10. ASSUME ~UNCHANGED page
       PROVE  \/ \E r \in Session : LeaseEnds(r)
              \/ \E b \in batches : AckBatch(b)
              \/ (\E b \in batches : BatchRejected(b)) \/ Record(TRUE) \/ Record(FALSE) \/ Flush
              \/ DrainTimesOut \/ ApplyTimesOut \/ ExpireLeases
              \/ Configure("ok") \/ Configure("failed") \/ Navigate
  BY <1>10 DEF CaptureNext, Trouble, StartCapture, StopCapture, StatusOf, Query, BeginSession,
     ConfirmStart, RolledBack, SendStop, ConfirmStop, PageHasChanged, Follow, ConfirmFollow,
     Maintain, Cleaned, Ingest, LoadFinished, SessionDeadline, Forgotten, RevokeDomain
<1> QED BY <1>3, <1>4, <1>5, <1>6, <1>7, <1>8, <1>9, <1>10

(* A page takes a session's lease only when its document goes, the         *)
(* session is over or late, its source was interrupted or is not the       *)
(* page's, or it is being stopped; never because another session starts,   *)
(* stops or expires, or because a batch was answered                       *)
(* (src/plugin/src/capture/page.js, configure, expireLeases and the        *)
(* answer to a batch; mod.rs, active_leases).                              *)
THEOREM LeasesLostForCause == CaptureSpec => LeaseLostForCause
<1>1. PageInv /\ [CaptureNext]_captureVars => [ForCause]_captureVars
  BY LeavesForCause
<1>2. CaptureSpec => [][ForCause]_captureVars
  BY <1>1, PageInvHolds, PTL DEF CaptureSpec
<1>3. [][ForCause]_captureVars <=> LeaseLostForCause
  BY PTL DEF ForCause, LeaseLostForCause
<1> QED BY <1>2, <1>3

-----------------------------------------------------------------------------
(* What a session keeps of the store                                       *)

(* A session that is whole: it is complete, or captures and lost nothing.  *)
Whole(st, s) == Complete(st, s) \/ (Capturing(st, s) /\ st.session[s].dropped = 0)

(* What a session is to have, it keeps.                                    *)
Carries(st, t, s) ==
  /\ s \in Retained(t) => /\ s \in Retained(st)
                          /\ \A id \in Sources : Observes(st, s, id) => Observes(t, s, id)
  /\ Complete(t, s) => Complete(st, s)
  /\ Capturing(t, s) /\ t.session[s].dropped = 0 => Capturing(st, s) /\ st.session[s].dropped = 0
  /\ \A e \in RecordedType :
       Whole(t, s) /\ Observes(st, s, e.source) /\ StoredFor(st, s, e) => StoredFor(t, s, e)

(* Who is whole is retained.                                               *)
LEMMA WholeRetained ==
  ASSUME NEW st, NEW s \in Session, Whole(st, s)
  PROVE  s \in Retained(st)
BY DEF Whole, Complete, Capturing, Retained

(* The type of one session.                                                *)
LEMMA SessionIs ==
  ASSUME NEW st, StoreOK(st), NEW s \in Session
  PROVE  /\ st.session[s] \in SessionType /\ st.session[s].dropped \in Nat
         /\ st.session[s].start \in Nat /\ st.session[s].end \in Nat
<1>1. st.session[s] \in SessionType
  BY DEF StoreOK, StoreType
<1> QED BY <1>1 DEF SessionType

(* Drops are never taken back.                                             *)
LEMMA NoDropsBefore ==
  ASSUME NEW st, NEW t, StoreOK(st), StoreOK(t), NEW s \in Session,
         st.session[s].dropped <= t.session[s].dropped, t.session[s].dropped = 0
  PROVE  st.session[s].dropped = 0
<1> DEFINE x == st.session[s].dropped
<1>1. x \in Nat /\ x <= 0
  BY SessionIs
<1> HIDE DEF x
<1>2. x = 0
  BY <1>1
<1> QED BY <1>2 DEF x

(* A store that ages keeps it, but for the session that is stopped.        *)
LEMMA AgesCarries ==
  ASSUME NEW st, NEW t, NEW ended, StoreOK(st), StoreOK(t), Ages(st, t, ended),
         NEW s \in Session \ ended
  PROVE  Carries(st, t, s)
<1> DEFINE x == st.session[s]  me == t.session[s]
<1>1. Goes(st, s, me, ended)
  BY DEF Ages
<1>2. s \in Retained(t) => /\ s \in Retained(st) /\ me.sources = x.sources /\ me.start = x.start
                           /\ x.dropped <= me.dropped
  BY <1>1 DEF Goes, Retained
<1>3. s \in Retained(t) => /\ s \in Retained(st)
                           /\ \A id \in Sources : Observes(st, s, id) => Observes(t, s, id)
  BY <1>2 DEF Observes
<1>4. me.status \in {"active", "stopped"} => me.status = x.status /\ me.end = x.end
  BY <1>1 DEF Goes
<1>5. me.status \in {"active", "stopped"} => s \in Retained(t)
  BY DEF Retained
<1>6. Complete(t, s) => Complete(st, s)
  <2> SUFFICES ASSUME Complete(t, s) PROVE Complete(st, s)
    OBVIOUS
  <2>1. me.status = "stopped" /\ me.dropped = 0 /\ x.status = "stopped" /\ x.dropped <= me.dropped
    BY <1>2, <1>4, <1>5 DEF Complete
  <2>2. x.dropped = 0
    BY <2>1, NoDropsBefore
  <2>3. ~(x.dropped > 0)
    BY <2>2
  <2>4. x.clean
    BY <2>1, <2>3 DEF StoreOK, DropsTold
  <2> QED BY <2>1, <2>2, <2>4 DEF Complete
<1>7. Capturing(t, s) /\ me.dropped = 0 => Capturing(st, s) /\ x.dropped = 0
  BY <1>2, <1>4, <1>5, NoDropsBefore DEF Capturing
<1>8. ASSUME NEW e \in RecordedType, Whole(t, s), StoredFor(st, s, e)
      PROVE  StoredFor(t, s, e)
  <2>1. s \in Retained(t) /\ me.status \in {"active", "stopped"}
    BY <1>8, WholeRetained DEF Whole, Complete, Capturing
  <2>2. t.events = st.events
    BY <2>1 DEF Ages, Released, SameSources
  <2> QED BY <1>2, <1>4, <1>8, <2>1, <2>2 DEF StoredFor, Capturing
<1> QED BY <1>3, <1>6, <1>7, <1>8 DEF Carries

(* So does one that draws a source.                                        *)
LEMMA DrawsCarries ==
  ASSUME NEW st, NEW t, NEW id, NEW context, Draws(st, t, id, context), NEW s \in Session
  PROVE  Carries(st, t, s)
<1>1. t.session = st.session /\ t.events = st.events
  BY DEF Draws, DrawsNew
<1> QED BY <1>1 DEF Carries, Retained, Observes, Complete, Capturing, StoredFor

(* So does one that starts another session.                                *)
LEMMA StartsCarries ==
  ASSUME NEW st, NEW t, NEW r \in Session, NEW id, Starts(st, t, r, id), NEW s \in Session \ {r}
  PROVE  Carries(st, t, s)
<1>1. t.session[s] = st.session[s] /\ t.events = st.events
  BY DEF Starts
<1> QED BY <1>1 DEF Carries, Retained, Observes, Complete, Capturing, StoredFor

(* So does one that lets sessions follow.                                  *)
LEMMA FollowsCarries ==
  ASSUME NEW st, NEW t, NEW id \in Sources, Follows(st, t, id), StoreOK(st), NEW s \in Session
  PROVE  Carries(st, t, s)
<1> DEFINE x == st.session[s]  me == t.session[s]
<1>1. /\ me.status = x.status /\ me.start = x.start /\ me.end = x.end
      /\ me.dropped = x.dropped /\ me.clean = x.clean /\ t.events = st.events
      /\ (me.sources = x.sources \/ me.sources = Append(x.sources, id))
  BY DEF Follows
<1>2. ASSUME NEW jd \in Sources, Observes(st, s, jd)
      PROVE  Observes(t, s, jd)
  <2>1. x.sources \in Seq(Sources)
    BY SessionIs DEF SessionType
  <2>2. PICK i \in DOMAIN x.sources : x.sources[i] = jd
    BY <1>2 DEF Observes
  <2>3. i \in DOMAIN Append(x.sources, id) /\ Append(x.sources, id)[i] = jd
    <3> DEFINE q == x.sources
    <3>1. q \in Seq(Sources) /\ i \in DOMAIN q /\ q[i] = jd
      BY <2>1, <2>2
    <3> HIDE DEF q
    <3>2. i \in DOMAIN Append(q, id) /\ Append(q, id)[i] = jd
      BY <3>1
    <3> QED BY <3>2 DEF q
  <2> QED BY <1>1, <2>2, <2>3 DEF Observes
<1>3. s \in Retained(t) <=> s \in Retained(st)
  BY <1>1 DEF Retained
<1>4. (Complete(t, s) <=> Complete(st, s)) /\ (Capturing(t, s) <=> Capturing(st, s))
  BY <1>1 DEF Complete, Capturing
<1>5. \A e : StoredFor(st, s, e) => StoredFor(t, s, e)
  BY <1>1, <1>4 DEF StoredFor
<1> QED BY <1>1, <1>2, <1>3, <1>4, <1>5 DEF Carries

(* So does one that adds events: what leaves is counted as a drop.         *)
LEMMA AddsCarries ==
  ASSUME NEW st, NEW t, NEW new, Adds(st, t, new), StoreOK(st), StoreOK(t), NEW s \in Session
  PROVE  Carries(st, t, s)
<1> DEFINE x == st.session[s]  me == t.session[s]
<1>1. /\ me.status = x.status /\ me.start = x.start /\ me.end = x.end
      /\ me.sources = x.sources /\ me.clean = x.clean /\ x.dropped <= me.dropped
  BY DEF Adds, Counts
<1>2. s \in Retained(t) <=> s \in Retained(st)
  BY <1>1 DEF Retained
<1>3. Complete(t, s) => Complete(st, s)
  BY <1>1, NoDropsBefore DEF Complete
<1>4. /\ Capturing(t, s) <=> Capturing(st, s)
      /\ me.dropped = 0 => x.dropped = 0
  BY <1>1, NoDropsBefore DEF Capturing
<1>5. ASSUME NEW e \in RecordedType, Whole(t, s), Observes(st, s, e.source), StoredFor(st, s, e)
      PROVE  StoredFor(t, s, e)
  <2>1. PICK i \in DOMAIN st.events :
          LET k == st.events[i]
          IN /\ k.source = e.source /\ k.number = e.number /\ x.start <= k.seq
             /\ Capturing(st, s) \/ k.seq <= x.end
    BY <1>5 DEF StoredFor
  <2> DEFINE k == st.events[i]
  <2>2. k \in ToSet(st.events)
    BY ToSetIs
  <2>3. ~(me.dropped > 0)
    <3>1. me.dropped = 0
      BY <1>5 DEF Whole, Complete
    <3> QED BY <3>1
  <2>4. Observes(st, s, k.source)
    BY <1>5, <2>1
  <2> HIDE DEF k
  <2>5. k \in ToSet(t.events)
    BY <2>2, <2>3, <2>4 DEF Adds
  <2>6. PICK j \in DOMAIN t.events : t.events[j] = k
    BY <2>5, ToSetIs
  <2> QED BY <1>1, <1>4, <2>1, <2>6 DEF StoredFor, k
<1>6. \A id \in Sources : Observes(st, s, id) => Observes(t, s, id)
  BY <1>1 DEF Observes
<1> QED BY <1>2, <1>3, <1>4, <1>5, <1>6 DEF Carries

(* And what keeps it twice.                                                *)
LEMMA CarriesThen ==
  ASSUME NEW a, NEW b, NEW c, NEW s \in Session, Carries(a, b, s), Carries(b, c, s)
  PROVE  Carries(a, c, s)
<1>1. s \in Retained(c) => /\ s \in Retained(b) /\ s \in Retained(a)
                           /\ \A id \in Sources : Observes(a, s, id) => Observes(c, s, id)
  BY DEF Carries
<1>2. Complete(c, s) => Complete(b, s) /\ Complete(a, s)
  BY DEF Carries
<1>3. Capturing(c, s) /\ c.session[s].dropped = 0 =>
        /\ Capturing(b, s) /\ b.session[s].dropped = 0
        /\ Capturing(a, s) /\ a.session[s].dropped = 0
  BY DEF Carries
<1>4. Whole(c, s) => Whole(b, s) /\ s \in Retained(b)
  BY <1>2, <1>3, WholeRetained DEF Whole
<1>5. ASSUME NEW e \in RecordedType, Whole(c, s), Observes(a, s, e.source), StoredFor(a, s, e)
      PROVE  StoredFor(c, s, e)
  <2>1. e.source \in Sources
    BY DEF RecordedType
  <2>2. StoredFor(b, s, e)
    BY <1>4, <1>5 DEF Carries
  <2>3. Observes(b, s, e.source)
    BY <1>4, <1>5, <2>1 DEF Carries
  <2> QED BY <1>5, <2>2, <2>3 DEF Carries
<1> QED BY <1>1, <1>2, <1>3, <1>5 DEF Carries

-----------------------------------------------------------------------------
(* The third layer, when the store moves                                   *)

(* What is recorded for the sessions.                                      *)
TracksAll(st, doc, pg, scr, bs, recorded, lost) ==
  \A s \in Session : Tracks(st, doc, pg, scr, bs, recorded, lost, s)

(* The third layer.                                                        *)
TrackInv ==
  /\ RecordedOK(document, page, history.recorded)
  /\ DrainOK(document, page, script, batches, serial, history.recorded)
  /\ TracksAll(store, document, page, script, batches, history.recorded, history.lost)

(* A store that keeps it tracks what is recorded.                          *)
LEMMA TracksCarries ==
  ASSUME NEW st, NEW t, NEW doc, NEW pg, NEW scr, NEW bs, NEW recorded, NEW lost, NEW s \in Session,
         PageTypeOK(pg, scr), recorded \subseteq RecordedType,
         Tracks(st, doc, pg, scr, bs, recorded, lost, s), Carries(st, t, s)
  PROVE  Tracks(t, doc, pg, scr, bs, recorded, lost, s)
<1>1. s \in pg.leases => pg.source \in Sources
  BY DEF PageTypeOK
<1>2. ASSUME NEW i \in DOMAIN scr PROVE scr[i].source \in Sources
  <2>1. scr[i] \in Message
    BY DEF PageTypeOK
  <2> QED BY <2>1 DEF Message
<1>3. \A e \in recorded : e \in RecordedType /\ e.source \in Sources
  BY DEF RecordedType
<1>4. s \in Retained(t) => /\ s \in Retained(st)
                           /\ \A id \in Sources : Observes(st, s, id) => Observes(t, s, id)
  BY DEF Carries
<1>5. s \in Retained(t) => ObservedBy(t, pg, scr, recorded, s)
  BY <1>1, <1>2, <1>3, <1>4 DEF Tracks, ObservedBy
<1>6. Complete(t, s) => Complete(st, s)
  BY DEF Carries
<1>7. ASSUME NEW e \in recorded, s \in e.observers,
             [document |-> e.document, number |-> e.number] \notin lost,
             Whole(t, s)
      PROVE  /\ Complete(t, s) => StoredFor(t, s, e)
             /\ Capturing(t, s) /\ t.session[s].dropped = 0
                  => StoredFor(t, s, e) \/ Pending(doc, pg, bs, e)
  <2>1. Observes(st, s, e.source)
    BY <1>4, <1>7, WholeRetained DEF Tracks, ObservedBy
  <2>2. StoredFor(st, s, e) => StoredFor(t, s, e)
    BY <1>3, <1>7, <2>1 DEF Carries
  <2>3. Complete(t, s) => StoredFor(st, s, e)
    BY <1>6, <1>7 DEF Tracks
  <2>4. Capturing(t, s) /\ t.session[s].dropped = 0 => StoredFor(st, s, e) \/ Pending(doc, pg, bs, e)
    BY <1>7 DEF Tracks, Carries
  <2> QED BY <2>2, <2>3, <2>4
<1> QED BY <1>5, <1>6, <1>7 DEF Tracks, Whole

(* So it does with a script more, for sessions that observe its source.    *)
LEMMA TracksAppend ==
  ASSUME NEW st, NEW doc, NEW pg, NEW scr \in Seq(Message), NEW bs, NEW recorded, NEW lost,
         NEW s \in Session, NEW m \in Message, Tracks(st, doc, pg, scr, bs, recorded, lost, s),
         s \in m.leases => /\ ~Complete(st, s)
                           /\ m.what = "configure" /\ s \in Retained(st) => Observes(st, s, m.source)
  PROVE  Tracks(st, doc, pg, Append(scr, m), bs, recorded, lost, s)
<1> DEFINE tcr == Append(scr, m)
<1>1. \A i \in DOMAIN tcr : (i \in DOMAIN scr /\ tcr[i] = scr[i]) \/ tcr[i] = m
  BY AppendIs
<1> HIDE DEF tcr
<1>2. s \in Retained(st) => ObservedBy(st, pg, tcr, recorded, s)
  BY <1>1 DEF Tracks, ObservedBy
<1>3. Complete(st, s) => s \notin pg.leases /\ \A i \in DOMAIN tcr : s \notin tcr[i].leases
  BY <1>1 DEF Tracks
<1>4. Tracks(st, doc, pg, tcr, bs, recorded, lost, s)
  BY <1>2, <1>3 DEF Tracks
<1> QED BY <1>4 DEF tcr

(* Leases and scripts become fewer, and what was on its way still is, or   *)
(* is known to be lost.                                                    *)
LEMMA TracksPage ==
  ASSUME NEW st, NEW doc, NEW pg, NEW scr, NEW bs, NEW recorded, NEW lost, NEW s \in Session,
         Tracks(st, doc, pg, scr, bs, recorded, lost, s),
         NEW qg, NEW tcr, NEW cs, NEW more, qg.leases \subseteq pg.leases, qg.source = pg.source,
         Remain(scr, tcr), lost \subseteq more,
         \A e \in recorded : \/ Pending(doc, pg, bs, e) => Pending(doc, qg, cs, e)
                             \/ [document |-> e.document, number |-> e.number] \in more
  PROVE  Tracks(st, doc, qg, tcr, cs, recorded, more, s)
<1>1. s \in Retained(st) => ObservedBy(st, qg, tcr, recorded, s)
  BY DEF Tracks, ObservedBy, Remain
<1>2. Complete(st, s) => s \notin qg.leases /\ \A i \in DOMAIN tcr : s \notin tcr[i].leases
  BY DEF Tracks, Remain
<1> QED BY <1>1, <1>2 DEF Tracks

(* The parts that the steps need.                                          *)
LEMMA TrackParts ==
  ASSUME TrackInv, BaseInv, history \in HistoryType
  PROVE  /\ PageTypeOK(page, script) /\ script \in Seq(Message) /\ history.recorded \subseteq RecordedType
         /\ StoreOK(store) /\ serial \in SerialType
BY BaseParts DEF HistoryType

(* The operations.                                                         *)
LEMMA OperatesTrack ==
  ASSUME TrackInv, BaseInv, history \in HistoryType, SamePage,
         \A s \in Session : Carries(store, store', s),
         \/ script' = script
         \/ \E m \in Message :
              /\ script' = Append(script, m)
              /\ \A s \in m.leases :
                   /\ ~Complete(store', s)
                   /\ m.what = "configure" /\ s \in Retained(store') => Observes(store', s, m.source),
         DrainOK(document, page, script', batches, serial', history.recorded)
  PROVE  TrackInv'
<1>1. RecordedOK(document', page', history'.recorded)
  BY DEF TrackInv, SamePage
<1>2. ASSUME NEW s \in Session
      PROVE  Tracks(store', document, page, script', batches, history.recorded, history.lost, s)
  <2>1. Tracks(store', document, page, script, batches, history.recorded, history.lost, s)
    BY TrackParts, TracksCarries DEF TrackInv, TracksAll
  <2> QED BY <2>1, TrackParts, TracksAppend
<1>3. TracksAll(store', document', page', script', batches', history'.recorded, history'.lost)
  BY <1>2 DEF TracksAll, SamePage
<1>4. DrainOK(document', page', script', batches', serial', history'.recorded)
  BY DEF SamePage
<1> QED BY <1>1, <1>3, <1>4 DEF TrackInv

(* A store that ages keeps it for all.                                     *)
LEMMA AgesAllCarry ==
  ASSUME BaseInv, StoreOK(store'), Ages(store, store', {})
  PROVE  \A s \in Session : Carries(store, store', s)
<1> DEFINE ended == {}
<1>1. StoreOK(store) /\ Ages(store, store', ended) /\ Session \ ended = Session
  BY BaseStoreOK
<1> HIDE DEF ended
<1> QED BY <1>1, AgesCarries

(* Where nobody is stopped, no drain matters.                              *)
LEMMA NoStopDrains ==
  ASSUME NEW doc, NEW pg, NEW scr, NEW bs, NEW ser, NEW recorded, ser.what # "confirm_stop"
  PROVE  DrainOK(doc, pg, scr, bs, ser, recorded)
BY DEF DrainOK

(* The mutex is given up.                                                  *)
LEMMA LeftTrack ==
  ASSUME TrackInv, BaseInv, history \in HistoryType, SamePage, Left,
         \A s \in Session : Carries(store, store', s)
  PROVE  TrackInv'
<1>1. DrainOK(document, page, script', batches, serial', history.recorded)
  BY IdleIs, NoStopDrains DEF Left
<1> QED BY <1>1, OperatesTrack DEF Left

(* A sweep alone.                                                          *)
LEMMA SameTrack ==
  ASSUME TrackInv, BaseInv, history \in HistoryType, SamePage, UNCHANGED <<script, serial>>,
         \A s \in Session : Carries(store, store', s)
  PROVE  TrackInv'
<1>1. DrainOK(document, page, script', batches, serial', history.recorded)
  BY DEF TrackInv
<1> QED BY <1>1, OperatesTrack

(* A session that is served captures and observes its source.              *)
LEMMA ServedIs ==
  ASSUME NEW st, StoreOK(st), NEW t, NEW s, Carries(st, t, s), NEW source \in Sources,
         s \in Serving(st, source)
  PROVE  /\ ~Complete(t, s)
         /\ s \in Retained(t) => Observes(t, s, source)
<1>1. s \in Session /\ s \in Retained(st) /\ Capturing(st, s) /\ Current(st, s) = source
  BY ServingIs
<1>2. ~Complete(st, s)
  BY <1>1 DEF Complete, Capturing
<1>3. Observes(st, s, source)
  BY <1>1, CurrentIn
<1> QED BY <1>2, <1>3 DEF Carries

(* The operations one by one.                                              *)
LEMMA OperationsTrack ==
  ASSUME TrackInv, BaseInv, history \in HistoryType,
         \/ \E s \in Session : \/ StatusOf(s, TRUE) \/ StatusOf(s, FALSE)
                               \/ SessionDeadline(s) \/ Forgotten(s) \/ Query(s)
         \/ RolledBack \/ ConfirmFollow \/ Cleaned
  PROVE  TrackInv'
<1>1. SamePage
  BY DEF SamePage, StatusOf, SessionDeadline, Forgotten, Query, RolledBack, ConfirmFollow, Cleaned
<1>2. CASE \E s \in Session : \/ StatusOf(s, TRUE) \/ StatusOf(s, FALSE)
                              \/ SessionDeadline(s) \/ Forgotten(s) \/ Query(s)
  <2>1. PICK s \in Session : \/ StatusOf(s, TRUE) \/ StatusOf(s, FALSE)
                             \/ SessionDeadline(s) \/ Forgotten(s) \/ Query(s)
    BY <1>2
  <2>2. StoreOK(store') /\ Ages(store, store', {})
    BY <2>1, StatusOfIs, DeadlineIs, ForgottenIs, QueryStoreIs
  <2>3. UNCHANGED <<script, serial>>
    BY <2>1 DEF StatusOf, SessionDeadline, Forgotten, Query
  <2> QED BY <1>1, <2>2, <2>3, AgesAllCarry, SameTrack
<1>3. CASE RolledBack \/ ConfirmFollow \/ Cleaned
  <2>1. StoreOK(store') /\ Left /\ Ages(store, store', {})
    BY <1>3, RolledBackIs, ConfirmFollowIs, CleanedIs
  <2> QED BY <1>1, <2>1, AgesAllCarry, LeftTrack
<1> QED BY <1>2, <1>3

(* Who is served is not complete.                                          *)
LEMMA ServingIncomplete ==
  ASSUME NEW st, NEW id, NEW s \in Serving(st, id)
  PROVE  ~Complete(st, s)
BY ServingIs DEF Complete, Capturing

(* Nothing is sent, and nobody is being stopped.                           *)
LEMMA QuietTrack ==
  ASSUME TrackInv, BaseInv, history \in HistoryType, SamePage, StoreOK(store'),
         Ages(store, store', {}), script' = script, serial'.what # "confirm_stop"
  PROVE  TrackInv'
<1>1. DrainOK(document, page, script', batches, serial', history.recorded)
  BY NoStopDrains
<1> QED BY <1>1, AgesAllCarry, OperatesTrack

(* The leases of a configuration are of sessions that its source serves.   *)
LEMMA ServesTrack ==
  ASSUME TrackInv, BaseInv, history \in HistoryType, SamePage, StoreOK(store'),
         Ages(store, store', {}), NEW source \in Sources, NEW excluded,
         Config(store, source, excluded, TRUE) \in Message,
         \/ script' = script
         \/ script' = Append(script, Config(store, source, excluded, TRUE)),
         DrainOK(document, page, script', batches, serial', history.recorded)
  PROVE  TrackInv'
<1> DEFINE m == Config(store, source, excluded, TRUE)
<1>1. m.source = source /\ m.leases \subseteq Serving(store, source)
  BY DEF Config
<1>2. m \in Message /\ (script' = script \/ script' = Append(script, m))
  OBVIOUS
<1> HIDE DEF m
<1>3. \A s \in Session : Carries(store, store', s)
  BY AgesAllCarry
<1>4. ASSUME NEW s \in m.leases
      PROVE  /\ ~Complete(store', s)
             /\ m.what = "configure" /\ s \in Retained(store') => Observes(store', s, m.source)
  <2>1. s \in Serving(store, source) /\ Carries(store, store', s)
    BY <1>1, <1>3, ServingIs
  <2> QED BY <1>1, <2>1, BaseStoreOK, ServedIs
<1> QED BY <1>2, <1>3, <1>4, OperatesTrack

(* The stop is asked for, or the page has changed.                         *)
LEMMA StopsTrack ==
  ASSUME TrackInv, BaseInv, history \in HistoryType,
         (\E s \in Session : StopCapture(s)) \/ PageHasChanged
  PROVE  TrackInv'
<1>1. SamePage
  BY DEF SamePage, StopCapture, PageHasChanged
<1>2. CASE \E s \in Session : StopCapture(s)
  <2>1. serial'.what # "confirm_stop"
    BY <1>2, StopCaptureIs, IdleIs
  <2> QED BY <1>1, <1>2, <2>1, StopCaptureIs, QuietTrack
<1>3. CASE PageHasChanged
  <2>1. serial'.what # "confirm_stop"
    BY <1>3, PageHasChangedIs, IdleIs
  <2> QED BY <1>1, <1>3, <2>1, PageHasChangedIs, QuietTrack
<1> QED BY <1>2, <1>3

(* The other operations that send scripts.                                 *)
LEMMA ConfirmStartTrack ==
  ASSUME TrackInv, BaseInv, history \in HistoryType, ConfirmStart
  PROVE  TrackInv'
<1>1. SamePage
  BY DEF SamePage, ConfirmStart
<1>2. StoreOK(store') /\ Ages(store, store', {})
  BY ConfirmStartIs
<1>3. CASE Left
  BY <1>1, <1>2, <1>3, AgesAllCarry, LeftTrack
<1>4. ASSUME NEW source \in Sources,
             Config(store, source, {serial.session}, TRUE) \in Message,
             Applied("rolled_back", Config(store, source, {serial.session}, TRUE),
                     Context(store, source))
      PROVE TrackInv'
  <2> DEFINE excluded == {serial.session}
  <2>1. DrainOK(document, page, script', batches, serial', history.recorded)
    BY <1>4, NoStopDrains DEF Applied
  <2>2. script' = script \/ script' = Append(script, Config(store, source, excluded, TRUE))
    BY <1>4 DEF Applied
  <2>3. Config(store, source, excluded, TRUE) \in Message
    BY <1>4
  <2> HIDE DEF excluded
  <2> QED BY <1>1, <1>2, <2>1, <2>2, <2>3, ServesTrack
<1> QED BY <1>3, <1>4, ConfirmStartIs

LEMMA SendStopTrack ==
  ASSUME TrackInv, BaseInv, history \in HistoryType, SendStop
  PROVE  TrackInv'
<1>1. SamePage
  BY DEF SamePage, SendStop
<1>2. /\ serial.session \in Session /\ ~Awaiting(serial)
      /\ StoreOK(store') /\ Ages(store, store', {})
  BY SendStopIs
<1>3. CASE Left
  BY <1>1, <1>2, <1>3, AgesAllCarry, LeftTrack
<1>4. ASSUME NEW source \in Sources,
             Config(store, source, {serial.session}, TRUE) \in Message,
             Applied("confirm_stop", Config(store, source, {serial.session}, TRUE),
                     Context(store, source))
      PROVE TrackInv'
  <2> DEFINE excluded == {serial.session}
  <2> DEFINE m == Config(store, source, excluded, TRUE)
  <2>1. m \in Message /\ (script' = script \/ script' = Append(script, m))
        /\ serial'.session = serial.session /\ serial' \in SerialType
        /\ "reply" \in DOMAIN serial' /\ serial'.reply # "drained"
    <3>1. Awaiting(serial') => serial'.reply = "none"
      BY DEF Awaiting
    <3> QED BY <1>4, <3>1 DEF Applied
  <2>2. serial.session \notin m.leases
    BY DEF Config
  <2>3. \A i \in DOMAIN script : ~script[i].awaited
    BY <1>2, BaseParts, NoneAwaited
  <2>4. ~page.drain
    BY <1>2, BaseParts, NoneAwaited
  <2>5. script \in Seq(Message)
    BY BaseParts
  <2> HIDE DEF m, excluded
  <2>6. \A i \in DOMAIN script' : script'[i].awaited => serial'.session \notin script'[i].leases
    BY <2>1, <2>2, <2>3, <2>5, AppendIs
  <2>7. DrainOK(document, page, script', batches, serial', history.recorded)
    BY <2>1, <2>4, <2>6 DEF DrainOK
  <2> QED BY <1>1, <1>2, <2>1, <2>7, ServesTrack DEF m
<1> QED BY <1>3, <1>4, SendStopIs

LEMMA MaintainTrack ==
  ASSUME TrackInv, BaseInv, history \in HistoryType, Maintain
  PROVE  TrackInv'
<1>1. SamePage
  BY DEF SamePage, Maintain
<1>2. StoreOK(store') /\ Ages(store, store', {})
  BY MaintainIs
<1>3. \A s \in Session : Carries(store, store', s)
  BY <1>2, AgesAllCarry
<1>4. CASE Left
  BY <1>1, <1>3, <1>4, LeftTrack
<1>5. ASSUME NEW m \in Message, m.what = "expire", m.leases = Serving(store', m.source),
             script' = Append(script, m), serial'.what = "cleaning"
      PROVE  TrackInv'
  <2>1. \A s \in m.leases : ~Complete(store', s)
    BY <1>5, ServingIncomplete
  <2>2. DrainOK(document, page, script', batches, serial', history.recorded)
    BY <1>5, NoStopDrains
  <2> QED BY <1>1, <1>3, <1>5, <2>1, <2>2, OperatesTrack
<1> QED BY <1>4, <1>5, MaintainIs

LEMMA SurroundingsTrack ==
  ASSUME TrackInv, BaseInv, history \in HistoryType,
         (\E s \in Session : StartCapture(s)) \/ LoadFinished \/ RevokeDomain
  PROVE  TrackInv'
<1>1. /\ UNCHANGED <<store, document, page, script, batches>>
      /\ history'.recorded = history.recorded /\ history'.lost = history.lost
      /\ serial'.what # "confirm_stop" \/ serial' = serial
  BY DEF StartCapture, Hold, LoadFinished, RevokeDomain, HistoryType
<1>2. DrainOK(document', page', script', batches', serial', history'.recorded)
  BY <1>1, NoStopDrains DEF TrackInv
<1> QED BY <1>1, <1>2 DEF TrackInv

(* The session that is stopped.                                            *)
LEMMA StoppedTracks ==
  ASSUME TrackInv, BaseInv, history \in HistoryType, ConfirmStop
  PROVE  Tracks(store', document, page, script, batches, history.recorded, history.lost,
                serial.session)
<1> DEFINE r == serial.session  x == store.session[r]  me == store'.session[r]
           recorded == history.recorded  lost == history.lost
<1>1. /\ r \in Session /\ serial.what = "confirm_stop" /\ StoreOK(store')
      /\ Ages(store, store', {r}) /\ ~Capturing(store', r) /\ StoreOK(store)
      /\ serial.reply # "drained" /\ r \in Retained(store') => me.dropped > 0
  BY ConfirmStopIs, BaseStoreOK
<1>2. Tracks(store, document, page, script, batches, recorded, lost, r)
  BY <1>1 DEF TrackInv, TracksAll
<1>3. serial.reply = "drained" =>
        /\ script = <<>> /\ r \notin page.leases
        /\ \A e \in recorded : r \in e.observers => ~Pending(document, page, batches, e)
  BY <1>1 DEF TrackInv, DrainOK
<1>4. Goes(store, r, me, {r})
  BY <1>1 DEF Ages
<1> HIDE DEF r, recorded, lost
<1>5. r \in Retained(store') =>
        /\ r \in Retained(store) /\ me.sources = x.sources /\ me.start = x.start
        /\ x.dropped <= me.dropped
        /\ \/ me.status = x.status /\ me.end = x.end
           \/ Capturing(store, r) /\ me.end = store.sequence
  BY <1>4 DEF Goes, Retained
<1>6. r \in Retained(store') => ObservedBy(store', page, script, recorded, r)
  BY <1>2, <1>5 DEF Tracks, ObservedBy, Observes
<1>7. ASSUME ~Complete(store', r)
      PROVE  Tracks(store', document, page, script, batches, recorded, lost, r)
  <2>1. ~Capturing(store', r)
    BY <1>1
  <2> QED BY <1>6, <1>7, <2>1 DEF Tracks
<1>8. ASSUME Complete(store', r)
      PROVE  Tracks(store', document, page, script, batches, recorded, lost, r)
  <2>1. r \in Retained(store') /\ me.status = "stopped" /\ me.dropped = 0 /\ ~(me.dropped > 0)
    <3>1. r \in Retained(store') /\ me.status = "stopped" /\ me.dropped = 0
      BY <1>1, <1>8 DEF Complete, Retained
    <3> QED BY <3>1
  <2>2. script = <<>> /\ r \notin page.leases
        /\ \A e \in recorded : r \in e.observers => ~Pending(document, page, batches, e)
    BY <1>1, <1>3, <2>1
  <2>3. x.dropped = 0 /\ ~(x.dropped > 0)
    <3>1. x.dropped = 0
      BY <1>1, <1>5, <2>1, NoDropsBefore
    <3> QED BY <3>1
  <2>4. store'.events = store.events
    BY <1>1, <2>1 DEF Ages, Released, SameSources
  <2>5. ASSUME NEW e \in recorded, r \in e.observers,
               [document |-> e.document, number |-> e.number] \notin lost
        PROVE  StoredFor(store', r, e)
    <3>1. CASE me.status = x.status /\ me.end = x.end
      <4>1. Complete(store, r)
        BY <1>1, <2>1, <2>3, <3>1 DEF Complete, StoreOK, DropsTold
      <4>2. StoredFor(store, r, e)
        BY <1>2, <2>5, <4>1 DEF Tracks
      <4>3. ~Capturing(store, r)
        BY <4>1 DEF Complete, Capturing
      <4> QED BY <1>5, <2>1, <2>4, <3>1, <4>2, <4>3 DEF StoredFor
    <3>2. CASE Capturing(store, r) /\ me.end = store.sequence
      <4>1. StoredFor(store, r, e)
        BY <1>2, <2>2, <2>3, <2>5, <3>2 DEF Tracks
      <4>2. \A i \in DOMAIN store.events : store.events[i].seq <= store.sequence
        <5>1. \A k \in ToSet(store.events) : k.seq <= store.sequence
          BY <1>1, EventsBySeq
        <5> QED BY <5>1, ToSetIs
      <4> QED BY <1>5, <2>1, <2>4, <3>2, <4>1, <4>2 DEF StoredFor
    <3> QED BY <1>5, <2>1, <3>1, <3>2
  <2>6. DOMAIN script = {}
    BY <2>2
  <2>7. ~Capturing(store', r)
    BY <1>1
  <2> QED BY <1>6, <2>2, <2>5, <2>6, <2>7 DEF Tracks
<1> QED BY <1>7, <1>8 DEF r, recorded, lost

(* A stop that the page confirmed, or did not.                             *)
LEMMA ConfirmStopTrack ==
  ASSUME TrackInv, BaseInv, history \in HistoryType, ConfirmStop
  PROVE  TrackInv'
<1>1. SamePage /\ Left /\ StoreOK(store') /\ Ages(store, store', {serial.session})
  BY ConfirmStopIs DEF SamePage, ConfirmStop
<1>2. ASSUME NEW s \in Session \ {serial.session}
      PROVE  Tracks(store', document, page, script, batches, history.recorded, history.lost, s)
  <2> DEFINE ended == {serial.session}
  <2>1. s \in Session \ ended /\ Ages(store, store', ended)
    BY <1>1
  <2> HIDE DEF ended
  <2>2. Carries(store, store', s)
    BY <1>1, <2>1, BaseStoreOK, AgesCarries
  <2>3. Tracks(store, document, page, script, batches, history.recorded, history.lost, s)
    BY DEF TrackInv, TracksAll
  <2> QED BY <2>2, <2>3, TrackParts, TracksCarries
<1>3. TracksAll(store', document, page, script, batches, history.recorded, history.lost)
  BY <1>2, StoppedTracks DEF TracksAll
<1>4. DrainOK(document, page, script', batches, serial', history.recorded)
  BY <1>1, IdleIs, NoStopDrains DEF Left
<1> QED BY <1>1, <1>3, <1>4 DEF TrackInv, SamePage, Left

(* A configuration is sent for what the store serves now.                  *)
LEMMA GivesTrack ==
  ASSUME TrackInv, BaseInv, history \in HistoryType, SamePage, StoreOK(store'),
         NEW r, ~Known(store, page, script, history, r),
         \A s \in Session \ {r} : Carries(store, store', s),
         serial'.what # "confirm_stop", NEW source \in Sources,
         Config(store', source, {}, FALSE) \in Message,
         \/ script' = script
         \/ script' = Append(script, Config(store', source, {}, FALSE)),
         r \in Session => ~Complete(store', r)
  PROVE  TrackInv'
<1> DEFINE m == Config(store', source, {}, FALSE)
           recorded == history.recorded  lost == history.lost
<1>1. m.source = source /\ m.leases = Serving(store', source)
      /\ m \in Message /\ (script' = script \/ script' = Append(script, m))
  BY DEF Config
<1> HIDE DEF m
<1>2. ASSUME NEW s \in m.leases
      PROVE  ~Complete(store', s) /\ Observes(store', s, m.source)
  BY <1>1, ServingIncomplete, ServingIs, CurrentIn
<1>3. DrainOK(document, page, script', batches, serial', recorded)
  BY NoStopDrains
<1>4. ASSUME NEW s \in Session
      PROVE  Tracks(store', document, page, script, batches, recorded, lost, s)
  <2>1. CASE s = r
    BY <2>1 DEF Known, Tracks, ObservedBy
  <2>2. CASE s \in Session \ {r}
    <3>1. Tracks(store, document, page, script, batches, recorded, lost, s)
      BY DEF TrackInv, TracksAll
    <3> QED BY <2>2, <3>1, TrackParts, TracksCarries
  <2> QED BY <2>1, <2>2
<1>5. ASSUME NEW s \in Session
      PROVE  Tracks(store', document, page, script', batches, recorded, lost, s)
  BY <1>1, <1>2, <1>4, TrackParts, TracksAppend
<1>6. TracksAll(store', document, page, script', batches, recorded, lost)
  BY <1>5 DEF TracksAll
<1> QED BY <1>3, <1>6 DEF TrackInv, SamePage

(* A session begins, for which nothing is recorded.                        *)
LEMMA BeginSessionTrack ==
  ASSUME TrackInv, BaseInv, LeaseInv, history \in HistoryType, BeginSession
  PROVE  TrackInv'
<1> DEFINE r == serial.session
<1>1. SamePage
  BY DEF SamePage, BeginSession
<1>2. r \in Session /\ serial.what = "starting" /\ StoreOK(store)
  BY BeginSessionIs, BaseStoreOK
<1>3. ~Known(store, page, script, history, r)
  BY <1>2 DEF LeaseInv, BegunOK
<1> HIDE DEF r
<1>4. CASE store' = store /\ Left
  <2>1. \A s \in Session : Carries(store, store', s)
    BY <1>4 DEF Carries
  <2> QED BY <1>1, <1>4, <2>1, LeftTrack
<1>5. ASSUME NEW swept, NEW mid, NEW id, StoreOK(swept), Ages(store, swept, {}),
             StoreOK(mid), Draws(swept, mid, id, serial.context)
      PROVE  id \in Sources /\ \A s \in Session : Carries(store, mid, s)
  <2> DEFINE ended == {}
  <2>1. Ages(store, swept, ended) /\ Session \ ended = Session
    BY <1>5
  <2> HIDE DEF ended
  <2>2. ASSUME NEW s \in Session PROVE Carries(store, mid, s)
    <3>1. Carries(store, swept, s)
      BY <1>2, <1>5, <2>1, AgesCarries
    <3>2. Carries(swept, mid, s)
      BY <1>5, DrawsCarries
    <3> QED BY <3>1, <3>2, CarriesThen
  <2> QED BY <1>5, <2>2 DEF Draws
<1>6. ASSUME NEW mid, NEW id \in Sources, \A s \in Session : Carries(store, mid, s),
             StoreOK(store'), Starts(mid, store', r, id),
             Config(store', id, {}, FALSE) \in Message,
             Applied("confirm_start", Config(store', id, {}, FALSE), serial.context)
      PROVE  TrackInv'
  <2>1. ASSUME NEW s \in Session \ {r} PROVE Carries(store, store', s)
    <3>1. Carries(mid, store', s)
      BY <1>2, <1>6, StartsCarries
    <3> QED BY <1>6, <3>1, CarriesThen
  <2>2. ~Complete(store', r)
    BY <1>6 DEF Starts, Complete, NoSession
  <2>3. serial'.what # "confirm_stop"
        /\ (script' = script \/ script' = Append(script, Config(store', id, {}, FALSE)))
    BY <1>6 DEF Applied
  <2> QED BY <1>1, <1>3, <1>6, <2>1, <2>2, <2>3, GivesTrack
<1> QED
  <2>1. ASSUME NEW swept, NEW mid, NEW id,
               StoreOK(swept), Ages(store, swept, {}), StoreOK(mid),
               Draws(swept, mid, id, serial.context),
               \/ store' = mid /\ Left
               \/ /\ StoreOK(store') /\ Starts(mid, store', serial.session, id)
                  /\ Config(store', id, {}, FALSE) \in Message
                  /\ Applied("confirm_start", Config(store', id, {}, FALSE), serial.context)
        PROVE  TrackInv'
    <3>1. id \in Sources /\ \A s \in Session : Carries(store, mid, s)
      BY <1>5, <2>1
    <3>2. CASE store' = mid /\ Left
      BY <1>1, <3>1, <3>2, LeftTrack
    <3> QED BY <1>6, <2>1, <3>1, <3>2 DEF r
  <2> QED BY <1>4, <2>1, BeginSessionIs

(* Sessions follow the page to its new source.                             *)
LEMMA FollowTrack ==
  ASSUME TrackInv, BaseInv, history \in HistoryType, Follow
  PROVE  TrackInv'
<1>1. SamePage /\ StoreOK(store)
  BY BaseStoreOK DEF SamePage, Follow
<1>2. PICK mid, id :
        /\ StoreOK(mid) /\ Draws(store, mid, id, serial.context)
        /\ StoreOK(store') /\ Follows(mid, store', id)
        /\ \/ Left /\ Serving(store', id) = {}
           \/ /\ Config(store', id, {}, FALSE) \in Message
              /\ Applied("confirm_follow", Config(store', id, {}, FALSE), serial.context)
  BY FollowIs
<1>3. id \in Sources
  BY <1>2 DEF Draws
<1>4. ASSUME NEW s \in Session PROVE Carries(store, store', s)
  <2>1. Carries(store, mid, s)
    BY <1>2, DrawsCarries
  <2>2. Carries(mid, store', s)
    BY <1>2, <1>3, FollowsCarries
  <2> QED BY <2>1, <2>2, CarriesThen
<1>5. CASE Left
  BY <1>1, <1>4, <1>5, LeftTrack
<1>6. CASE /\ Config(store', id, {}, FALSE) \in Message
           /\ Applied("confirm_follow", Config(store', id, {}, FALSE), serial.context)
  <2>1. serial'.what # "confirm_stop"
        /\ (script' = script \/ script' = Append(script, Config(store', id, {}, FALSE)))
    BY <1>6 DEF Applied
  <2> DEFINE m == Config(store', id, {}, FALSE)
  <2>2. m.source = id /\ m.leases = Serving(store', id)
    BY DEF Config
  <2>3. m \in Message /\ (script' = script \/ script' = Append(script, m))
    BY <1>6, <2>1
  <2> HIDE DEF m
  <2>4. ASSUME NEW s \in m.leases
        PROVE  ~Complete(store', s) /\ Observes(store', s, m.source)
    BY <1>2, <2>2, ServingIncomplete, ServingIs, CurrentIn
  <2>5. DrainOK(document, page, script', batches, serial', history.recorded)
    BY <2>1, NoStopDrains
  <2> QED BY <1>1, <1>4, <2>3, <2>4, <2>5, OperatesTrack
<1> QED BY <1>2, <1>5, <1>6

-----------------------------------------------------------------------------
(* The third layer, when a batch is answered                               *)

(* An event is on its way in this batch.                                   *)
InBatch(doc, b, e) ==
  /\ b.document = doc /\ b.answer = "none" /\ b.source = e.source
  /\ \E i \in DOMAIN b.numbers : b.numbers[i] = e.number

(* What is on its way is in this batch or elsewhere.                       *)
LEMMA PendingIs ==
  ASSUME NEW doc, NEW pg, NEW bs, NEW b, NEW rest, NEW e, bs \ {b} \subseteq rest, Pending(doc, pg, bs, e)
  PROVE  /\ e.document = doc
         /\ Pending(doc, pg, rest, e) \/ InBatch(doc, b, e)
<1>1. PICK c \in bs \cup {b} :
        \/ \E i \in DOMAIN pg.queue : pg.queue[i].number = e.number /\ pg.queue[i].source = e.source
        \/ c \in bs /\ c.document = doc /\ c.answer = "none" /\ c.source = e.source
           /\ \E i \in DOMAIN c.numbers : c.numbers[i] = e.number
  BY DEF Pending
<1>2. e.document = doc
  BY DEF Pending
<1>3. CASE \E i \in DOMAIN pg.queue : pg.queue[i].number = e.number /\ pg.queue[i].source = e.source
  BY <1>2, <1>3 DEF Pending
<1>4. CASE c \in bs /\ c.document = doc /\ c.answer = "none" /\ c.source = e.source
           /\ \E i \in DOMAIN c.numbers : c.numbers[i] = e.number
  <2>1. CASE c = b
    BY <1>2, <1>4, <2>1 DEF InBatch
  <2>2. CASE c # b
    BY <1>2, <1>4, <2>2 DEF Pending
  <2> QED BY <2>1, <2>2
<1> QED BY <1>1, <1>3, <1>4

(* What a batch brings is stored for a session that captures its source.   *)
LEMMA BatchStored ==
  ASSUME NEW st, NEW t, NEW b, NEW stored, NEW now, Stores(st, t, b, stored, now),
         StoreOK(st), StoreOK(t), NEW doc, NEW e, InBatch(doc, b, e),
         NEW s \in Session, Capturing(t, s), t.session[s].dropped = 0, Observes(st, s, e.source)
  PROVE  StoredFor(t, s, e)
<1>1. PICK new \in SUBSET Event :
        /\ Adds(st, t, new)
        /\ b.answer # "continue" =>
             \A i \in DOMAIN b.numbers :
               \E k \in new : k.source = b.source /\ k.number = b.numbers[i]
  BY DEF Stores
<1>2. PICK k \in new : k.source = e.source /\ k.number = e.number
  <2>1. PICK i \in DOMAIN b.numbers : b.numbers[i] = e.number
    BY DEF InBatch
  <2> QED BY <1>1, <2>1 DEF InBatch
<1>3. ~(t.session[s].dropped > 0)
  OBVIOUS
<1>4. k \in ToSet(t.events)
  BY <1>1, <1>2, <1>3 DEF Adds
<1>5. PICK i \in DOMAIN t.events : k = t.events[i]
  BY <1>4, ToSetIs
<1>6. t.session[s].start <= k.seq
  <2> DEFINE a == st.session[s].start  n == st.sequence  q == k.seq
  <2>1. s \in Retained(st) /\ t.session[s].start = a
    BY <1>1 DEF Adds, Counts, Capturing, Retained
  <2>2. a <= n + 1 /\ a \in Nat /\ n \in Nat /\ q \in Nat /\ n < q
    <3>1. a <= n + 1
      BY <2>1 DEF StoreOK, RangesOK
    <3>2. n < q
      BY <1>1 DEF Adds
    <3>3. n \in Nat
      BY DEF StoreOK, StoreType
    <3>4. q \in Nat
      BY DEF Event
    <3> QED BY <3>1, <3>2, <3>3, <3>4, SessionIs
  <2> HIDE DEF a, n, q
  <2>3. a <= q
    BY <2>2
  <2> QED BY <2>1, <2>3 DEF q
<1> QED BY <1>2, <1>5, <1>6 DEF StoredFor

(* A batch is refused only to whom nothing whole captures its source.      *)
LEMMA RefusedIs ==
  ASSUME NEW st, StoreOK(st), NEW id \in Sources, ~AcceptsSource(st, id),
         NEW s \in Session, Capturing(st, s), ~st.session[s].late, Observes(st, s, id)
  PROVE  st.session[s].dropped # 0
<1>1. s \in Retained(st)
  BY DEF Capturing, Retained
<1>2. st.source[id].context # 0
  BY <1>1 DEF StoreOK, SourcesKnown
<1>3. st.source[id].interrupted
  BY <1>2 DEF AcceptsSource
<1>4. st.session[s].dropped > 0
  BY <1>3 DEF StoreOK, DropsTold
<1>5. ASSUME st.session[s].dropped = 0 PROVE FALSE
  <2>1. ~(st.session[s].dropped > 0)
    BY <1>5
  <2> QED BY <1>4, <2>1
<1> QED BY <1>5

(* A batch that comes, for the first time or again.                        *)
LEMMA IngestTrack ==
  ASSUME TrackInv, BaseInv, history \in HistoryType, NEW b, NEW again \in BOOLEAN, Ingest(b, again)
  PROVE  TrackInv'
<1> DEFINE st == Swept(store)  recorded == history.recorded  lost == history.lost
           had == history.stored  ended == {}
<1>1. /\ StoreOK(st) /\ Ages(store, st, ended) /\ b \in batches /\ ~b.again
      /\ UNCHANGED <<serial, document, page, script>>
      /\ history'.recorded = recorded /\ history'.lost = lost
      /\ \/ ~AcceptsSource(st, b.source) /\ store' = st
            /\ batches' = (batches \ {b}) \cup {Answered(b, FALSE)}
         \/ Live(st, b.source) /\ store' = IngestBatch(st, b)
            /\ batches' = (batches \ {b}) \cup {Answered(b, TRUE)}
  BY IngestIs
<1>2. StoreOK(store) /\ b \in BatchType /\ b.source \in Sources
  <2>1. StoreOK(store) /\ b \in BatchType
    BY <1>1, BaseParts
  <2> QED BY <2>1 DEF BatchType
<1>3. StoreOK(store')
  BY IngestActionBase, BaseStoreOK DEF BaseInv, Base
<1>4. Live(st, b.source) /\ store' = IngestBatch(st, b) =>
        Stores(st, store', b, had, had \cup StoredBy(st, b))
  <2>1. Base(st, document, page, batches, script, serial, had)
    BY <1>1, AgesBase DEF BaseInv
  <2> HIDE DEF st, had
  <2> SUFFICES ASSUME Live(st, b.source), store' = IngestBatch(st, b)
               PROVE  Stores(st, store', b, had, had \cup StoredBy(st, b))
    OBVIOUS
  <2>2. Stores(st, IngestBatch(st, b), b, had, had \cup StoredBy(st, b))
    BY <1>1, <2>1, IngestBase
  <2> QED BY <2>2
<1>5. \A s \in Session : Capturing(st, s) => ~st.session[s].late
  BY <1>2, SweptNotLate
<1>6. \E c : batches' = (batches \ {b}) \cup {c} /\ c.answer # "none"
  <2>1. \A accepted \in BOOLEAN : Answered(b, accepted).answer # "none"
    BY <1>2, AnsweredIs
  <2> QED BY <1>1, <2>1
<1>7. TracksAll(store, document, page, script, batches, recorded, lost)
      /\ DrainOK(document, page, script, batches, serial, recorded)
      /\ RecordedOK(document, page, recorded)
  BY DEF TrackInv
<1>8. Session \ ended = Session
  OBVIOUS
<1>9. recorded \subseteq RecordedType
  BY TrackParts
<1> HIDE DEF st, recorded, lost, had, ended
<1>10. ASSUME NEW s \in Session
       PROVE  /\ Tracks(st, document, page, script, batches, recorded, lost, s)
              /\ Tracks(store', document, page, script, batches, recorded, lost, s)
  <2>1. Carries(store, st, s)
    BY <1>1, <1>2, <1>8, AgesCarries
  <2>2. Carries(st, store', s)
    <3>1. CASE store' = st
      BY <3>1 DEF Carries
    <3>2. CASE Stores(st, store', b, had, had \cup StoredBy(st, b))
      BY <1>1, <1>3, <3>2, AddsCarries DEF Stores
    <3> QED BY <1>1, <1>4, <3>1, <3>2
  <2>3. Tracks(store, document, page, script, batches, recorded, lost, s)
    BY <1>7 DEF TracksAll
  <2>4. Tracks(st, document, page, script, batches, recorded, lost, s)
    BY <1>9, <2>1, <2>3, TrackParts, TracksCarries
  <2> QED BY <1>9, <2>2, <2>4, TrackParts, TracksCarries
<1>11. ASSUME NEW s \in Session
       PROVE  Tracks(store', document, page, script, batches', recorded, lost, s)
  <2>1. Tracks(st, document, page, script, batches, recorded, lost, s)
        /\ Tracks(store', document, page, script, batches, recorded, lost, s)
    BY <1>10
  <2>2. ASSUME NEW e \in recorded, s \in e.observers,
               [document |-> e.document, number |-> e.number] \notin lost,
               Capturing(store', s), store'.session[s].dropped = 0
        PROVE  StoredFor(store', s, e) \/ Pending(document, page, batches', e)
    <3>1. StoredFor(store', s, e) \/ Pending(document, page, batches, e)
      BY <2>1, <2>2 DEF Tracks
    <3> SUFFICES ASSUME Pending(document, page, batches, e), InBatch(document, b, e)
                 PROVE  StoredFor(store', s, e)
      BY <1>6, <3>1, PendingIs
    <3>2. CASE ~AcceptsSource(st, b.source) /\ store' = st
      <4>1. Observes(st, s, b.source)
        <5>1. s \in Retained(st)
          BY <2>2, <3>2 DEF Capturing, Retained
        <5> QED BY <2>1, <2>2, <5>1 DEF Tracks, ObservedBy, InBatch
      <4> QED BY <1>1, <1>2, <1>5, <2>2, <3>2, <4>1, RefusedIs
    <3>3. CASE Stores(st, store', b, had, had \cup StoredBy(st, b))
      <4>1. s \in Retained(st)
        <5>1. PICK new \in SUBSET Event : Adds(st, store', new)
          BY <3>3 DEF Stores
        <5> QED BY <2>2, <5>1 DEF Adds, Counts, Capturing, Retained
      <4>2. Observes(st, s, e.source)
        BY <2>1, <2>2, <4>1 DEF Tracks, ObservedBy
      <4> QED BY <1>1, <1>3, <2>2, <3>3, <4>2, BatchStored
    <3> QED BY <1>1, <1>4, <3>2, <3>3
  <2> QED BY <2>1, <2>2 DEF Tracks
<1>12. \A e : Pending(document, page, batches', e) => Pending(document, page, batches, e)
  BY <1>6 DEF Pending
<1>13. DrainOK(document, page, script, batches', serial, recorded)
  BY <1>7, <1>12 DEF DrainOK
<1>14. TracksAll(store', document, page, script, batches', recorded, lost)
  BY <1>11 DEF TracksAll
<1> QED BY <1>1, <1>7, <1>13, <1>14 DEF TrackInv

(* A new document: whatever was on its way, the sources are interrupted    *)
(* and drops counted.                                                      *)
LEMMA NavigateTrack ==
  ASSUME TrackInv, BaseInv, history \in HistoryType, Navigate
  PROVE  TrackInv'
<1> DEFINE recorded == history.recorded  lost == history.lost  ended == {}
<1>1. /\ StoreOK(store') /\ Ages(store, store', ended) /\ \A id \in Sources : ~Live(store', id)
      /\ document' = document + 1 /\ page' = OffPage /\ script' = <<>>
      /\ UNCHANGED <<serial, batches, history>> /\ StoreOK(store) /\ document \in Nat
  BY NavigateIs, BaseParts DEF Navigate
<1>2. page'.leases = {} /\ page'.queue = <<>> /\ ~page'.drain /\ DOMAIN script' = {}
  BY <1>1 DEF OffPage
<1>3. \A e \in recorded : e.document # document'
  <2>1. \A e \in recorded : e.document <= document /\ e.document \in Nat
    BY TrackParts DEF TrackInv, RecordedOK, RecordedType
  <2> QED BY <1>1, <2>1
<1>4. RecordedOK(document', page', recorded)
  <2>1. \A e \in recorded : e.document <= document /\ e.document \in Nat
    BY TrackParts DEF TrackInv, RecordedOK, RecordedType
  <2>2. \A e \in recorded : e.document <= document'
    BY <1>1, <2>1
  <2> QED BY <1>3, <2>2 DEF RecordedOK
<1>5. Session \ ended = Session /\ recorded \subseteq RecordedType
  BY TrackParts
<1>6. TracksAll(store, document, page, script, batches, recorded, lost)
  BY DEF TrackInv
<1> HIDE DEF recorded, lost, ended
<1>7. ASSUME NEW s \in Session
      PROVE  Tracks(store', document', page', script', batches, recorded, lost, s)
  <2>1. Carries(store, store', s)
    BY <1>1, <1>5, AgesCarries
  <2>2. Tracks(store, document, page, script, batches, recorded, lost, s)
    BY <1>6 DEF TracksAll
  <2>3. Tracks(store', document, page, script, batches, recorded, lost, s)
    BY <1>5, <2>1, <2>2, TrackParts, TracksCarries
  <2>4. ASSUME NEW e \in recorded, s \in e.observers,
               [document |-> e.document, number |-> e.number] \notin lost,
               Capturing(store', s), store'.session[s].dropped = 0
        PROVE  FALSE
    <3>1. s \in Retained(store')
      BY <2>4 DEF Capturing, Retained
    <3>2. Observes(store', s, e.source) /\ e.source \in Sources
      BY <1>5, <2>3, <2>4, <3>1 DEF Tracks, ObservedBy, RecordedType
    <3>3. store'.source[e.source].interrupted
      BY <1>1, <3>1, <3>2 DEF StoreOK, SourcesKnown, Live
    <3>4. ~(store'.session[s].dropped > 0)
      BY <2>4
    <3> QED BY <1>1, <2>4, <3>2, <3>3, <3>4 DEF StoreOK, DropsTold
  <2> QED BY <1>2, <2>3, <2>4 DEF Tracks, ObservedBy
<1>8. TracksAll(store', document', page', script', batches, recorded, lost)
  BY <1>7 DEF TracksAll
<1>9. DrainOK(document', page', script', batches, serial, recorded)
  BY <1>1, <1>2, <1>3 DEF DrainOK, Pending
<1> QED BY <1>1, <1>4, <1>8, <1>9 DEF TrackInv, recorded, lost

-----------------------------------------------------------------------------
(* The third layer, when the page moves                                    *)

(* The event is known to be lost.                                          *)
Gone(e, lost) == [document |-> e.document, number |-> e.number] \in lost

(* What leaves the queue or its batch unsent is known to be lost.          *)
LEMMA EndsPending ==
  ASSUME NEW doc, NEW pg, NEW qg, NEW lost, NEW more, Ends(doc, pg, qg, lost, more),
         NEW bs, NEW cs, NEW e, Pending(doc, pg, bs, e),
         \A c \in bs \ cs : InBatch(doc, c, e) /\ e.document = doc => Gone(e, more)
  PROVE  Pending(doc, qg, cs, e) \/ Gone(e, more)
<1>1. e.document = doc
  BY DEF Pending
<1>2. CASE \E i \in DOMAIN pg.queue : pg.queue[i].number = e.number /\ pg.queue[i].source = e.source
  <2>1. PICK i \in DOMAIN pg.queue : pg.queue[i].number = e.number /\ pg.queue[i].source = e.source
    BY <1>2
  <2>2. CASE qg.queue = pg.queue
    BY <1>1, <2>1, <2>2 DEF Pending
  <2>3. CASE [document |-> doc, number |-> pg.queue[i].number] \in more
    BY <1>1, <2>1, <2>3 DEF Gone
  <2> QED BY <2>2, <2>3 DEF Ends
<1>3. CASE \E b \in bs : InBatch(doc, b, e)
  <2>1. PICK b \in bs : InBatch(doc, b, e)
    BY <1>3
  <2>2. CASE b \in cs
    BY <1>1, <2>1, <2>2 DEF Pending, InBatch
  <2> QED BY <1>1, <2>1, <2>2
<1> QED BY <1>2, <1>3 DEF Pending, InBatch

(* Nothing comes to be on its way.                                         *)
LEMMA EndsFewer ==
  ASSUME NEW doc, NEW pg, NEW qg, qg.queue \in {pg.queue, <<>>}, NEW bs, NEW cs, cs \subseteq bs,
         NEW e, Pending(doc, qg, cs, e)
  PROVE  Pending(doc, pg, bs, e)
<1>1. qg.queue = pg.queue \/ DOMAIN qg.queue = {}
  OBVIOUS
<1> QED BY <1>1 DEF Pending

(* What was drained stays so.                                              *)
LEMMA DrainKept ==
  ASSUME NEW doc, NEW pg, NEW scr, NEW bs, NEW ser, NEW recorded,
         DrainOK(doc, pg, scr, bs, ser, recorded),
         NEW qg, NEW tcr, NEW cs, NEW after, qg.leases \subseteq pg.leases, Remain(scr, tcr),
         qg.drain => pg.drain, after.what = ser.what, after.session = ser.session,
         \A e \in recorded : Pending(doc, qg, cs, e) => Pending(doc, pg, bs, e),
         \/ after = ser \/ after.reply # "drained"
         \/ /\ tcr = <<>> /\ (ser.what = "confirm_stop" => ser.session \notin qg.leases)
            /\ \A e : ~Pending(doc, qg, cs, e)
  PROVE  DrainOK(doc, qg, tcr, cs, after, recorded)
<1> SUFFICES ASSUME ser.what = "confirm_stop"
             PROVE  DrainOK(doc, qg, tcr, cs, after, recorded)
  BY DEF DrainOK
<1>1. \A i \in DOMAIN tcr : tcr[i].awaited => after.session \notin tcr[i].leases
  BY DEF DrainOK, Remain
<1>2. qg.drain => after.session \notin qg.leases
  BY DEF DrainOK
<1>3. after.reply = "drained" =>
        /\ tcr = <<>> /\ after.session \notin qg.leases
        /\ \A e \in recorded : after.session \in e.observers => ~Pending(doc, qg, cs, e)
  BY DEF DrainOK, Remain
<1> QED BY <1>1, <1>2, <1>3 DEF DrainOK

(* Nothing is left when a drain is answered.                               *)
LEMMA NothingPending ==
  ASSUME NEW doc, NEW pg, NEW bs, NEW e, PagesOrdered(doc, pg, bs), pg.queue = <<>>, ~pg.inFlight
  PROVE  ~Pending(doc, pg, bs, e)
<1>1. DOMAIN pg.queue = {} /\ \A b \in bs : b.document # doc
  BY DEF PagesOrdered
<1> QED BY <1>1 DEF Pending

(* A step of the page that records nothing.                                *)
LEMMA PageTrack ==
  ASSUME TrackInv, history \in HistoryType, UNCHANGED <<store, document>>,
         history'.recorded = history.recorded, history.lost \subseteq history'.lost,
         page'.leases \subseteq page.leases, page'.source = page.source, page'.number = page.number,
         Remain(script, script'),
         \A e \in history.recorded : Pending(document, page, batches, e) =>
            Pending(document, page', batches', e) \/ Gone(e, history'.lost),
         DrainOK(document, page', script', batches', serial', history.recorded)
  PROVE  TrackInv'
<1>1. RecordedOK(document', page', history'.recorded)
  BY DEF TrackInv, RecordedOK
<1>2. ASSUME NEW s \in Session
      PROVE  Tracks(store, document, page', script', batches', history.recorded, history'.lost, s)
  <2>1. Tracks(store, document, page, script, batches, history.recorded, history.lost, s)
    BY DEF TrackInv, TracksAll
  <2> QED BY <2>1, TracksPage DEF Gone
<1>3. TracksAll(store', document', page', script', batches', history'.recorded, history'.lost)
  BY <1>2 DEF TracksAll
<1> QED BY <1>1, <1>3 DEF TrackInv

(* Leases end, what is queued is given up or a batch is over.              *)
LEMMA EndsTrack ==
  ASSUME TrackInv, BaseInv, BaseInv', CaptureTypeOK, UNCHANGED <<store, document>>,
         Ends(document, page, page', history.lost, history'.lost), SameHistory,
         Remain(script, script'), batches' \subseteq batches,
         \/ DrainEnds(page, page', serial, serial')
         \/ ~page'.drain /\ (serial' = serial \/ Answers(serial, serial', "ok")),
         \A c \in batches \ batches' : \A e \in history.recorded :
            InBatch(document, c, e) /\ e.document = document => Gone(e, history'.lost)
  PROVE  TrackInv'
<1>1. /\ page'.leases \subseteq page.leases /\ page'.source = page.source /\ page'.number = page.number
      /\ page'.queue \in {page.queue, <<>>} /\ history.lost \subseteq history'.lost
  BY DEF Ends, Leaves
<1>2. ASSUME NEW e \in history.recorded, Pending(document, page, batches, e)
      PROVE  Pending(document, page', batches', e) \/ Gone(e, history'.lost)
  BY <1>2, EndsPending
<1>3. \A e \in history.recorded :
         Pending(document, page', batches', e) => Pending(document, page, batches, e)
  BY <1>1, EndsFewer
<1>4. DrainOK(document, page, script, batches, serial, history.recorded)
      /\ PagesOrdered(document, page', batches') /\ (page.drain => script = <<>>)
  <2>1. PagesOrdered(document', page', batches')
    BY DEF BaseInv, Base
  <2>2. page.drain => script = <<>>
    BY NoDrain
  <2> QED BY <2>1, <2>2 DEF TrackInv
<1>5. serial'.what = serial.what /\ serial'.session = serial.session
  BY SerialSame
<1>6. DrainOK(document, page', script', batches', serial', history.recorded)
  <2>1. CASE serial' = serial /\ (page'.drain => page.drain)
    BY <1>1, <1>3, <1>4, <1>5, <2>1, DrainKept
  <2>2. CASE ~page'.drain /\ Answers(serial, serial', "ok")
    <3>1. serial' = serial \/ serial'.reply # "drained"
      BY <2>2 DEF Answers
    <3> QED BY <1>1, <1>3, <1>4, <1>5, <2>2, <3>1, DrainKept
  <2>3. CASE page.drain /\ ~page'.drain /\ page'.queue = <<>> /\ ~page'.inFlight
    <3>1. \A e : ~Pending(document, page', batches', e)
      BY <1>4, <2>3, NothingPending
    <3>2. script' = <<>>
      BY <1>4, <2>3 DEF Remain
    <3>3. serial.what = "confirm_stop" => serial.session \notin page'.leases
      BY <1>1, <1>4, <2>3 DEF DrainOK
    <3> QED BY <1>1, <1>3, <1>4, <1>5, <2>3, <3>1, <3>2, <3>3, DrainKept
  <2> QED BY <2>1, <2>2, <2>3 DEF DrainEnds
<1>7. history \in HistoryType /\ history'.recorded = history.recorded
  BY DEF CaptureTypeOK, SameHistory
<1> QED BY <1>1, <1>2, <1>6, <1>7, PageTrack

(* The steps that end leases, flights and drains.                          *)
LEMMA EndingsTrack ==
  ASSUME TrackInv, BaseInv, BaseInv', CaptureTypeOK,
         \/ \E s \in Session : LeaseEnds(s)
         \/ \E b \in batches : AckBatch(b) \/ BatchRejected(b)
         \/ ExpireLeases
  PROVE  TrackInv'
<1>1. script \in Seq(Message) /\ Remain(script, script) /\ (~page.drain \/ script = <<>>)
  BY BaseParts, RemainIs, NoDrain
<1>2. CASE \E s \in Session : LeaseEnds(s)
  <2>1. PICK s \in Session : LeaseEnds(s)
    BY <1>2
  <2>2. UNCHANGED <<store, document, script, batches>>
    BY <2>1 DEF LeaseEnds
  <2> QED BY <1>1, <2>1, <2>2, LeaseEndsIs, EndsTrack
<1>3. CASE \E b \in batches : AckBatch(b) \/ BatchRejected(b)
  <2>1. PICK b \in batches : AckBatch(b) \/ BatchRejected(b)
    BY <1>3
  <2>2. UNCHANGED <<store, document, script>>
    BY <2>1 DEF AckBatch, BatchRejected
  <2>3. /\ Ends(document, page, page', history.lost, history'.lost) /\ SameHistory
        /\ DrainEnds(page, page', serial, serial') /\ batches' = batches \ {b}
        /\ \/ b.answer # "none"
           \/ \A i \in DOMAIN b.numbers :
                [document |-> document, number |-> b.numbers[i]] \in history'.lost
    BY <2>1, AckBatchIs, BatchRejectedIs
  <2>4. ASSUME NEW e \in history.recorded, InBatch(document, b, e)
        PROVE  e.document = document => Gone(e, history'.lost)
    BY <2>3, <2>4 DEF InBatch, Gone
  <2> QED BY <1>1, <2>2, <2>3, <2>4, EndsTrack
<1>4. CASE ExpireLeases
  <2>1. /\ script # <<>> /\ script' = Tail(script)
        /\ Ends(document, page, page', history.lost, history'.lost) /\ SameHistory /\ ~page'.drain
        /\ Answers(serial, serial', "ok") \/ serial' = serial
    BY <1>1, <1>4, ExpireLeasesIs
  <2>2. UNCHANGED <<store, document, batches>> /\ Remain(script, script')
    BY <1>1, <1>4, <2>1, RemainIs DEF ExpireLeases
  <2> QED BY <2>1, <2>2, EndsTrack
<1> QED BY <1>2, <1>3, <1>4

(* What is on its way is in the queue and the batches.                     *)
LEMMA SamePending ==
  ASSUME NEW doc, NEW pg, NEW qg, qg.queue = pg.queue, NEW bs, NEW e
  PROVE  Pending(doc, pg, bs, e) <=> Pending(doc, qg, bs, e)
BY DEF Pending

(* A drain, or the wait for an answer, is given up.                        *)
LEMMA TimesOutTrack ==
  ASSUME TrackInv, BaseInv, CaptureTypeOK, DrainTimesOut \/ ApplyTimesOut
  PROVE  TrackInv'
<1>1. /\ ~page'.drain /\ page'.leases = page.leases /\ page'.queue = page.queue
      /\ page'.source = page.source /\ page'.number = page.number
  BY TimesOutIs
<1>2. PICK reply \in {"undrained", "failed"} : Answers(serial, serial', reply)
  BY TimesOutIs
<1>3. UNCHANGED <<store, document, batches, history>> /\ history \in HistoryType
  BY DEF DrainTimesOut, ApplyTimesOut, CaptureTypeOK
<1>4. Remain(script, script')
  <2>1. script \in Seq(Message)
    BY BaseParts
  <2> QED BY <2>1, RemainIs, UnawaitedIs DEF DrainTimesOut, ApplyTimesOut
<1>5. serial'.what = serial.what /\ serial'.session = serial.session
      /\ (serial' = serial \/ serial'.reply # "drained")
  BY <1>2 DEF Answers
<1>6. \A e : Pending(document, page, batches, e) <=> Pending(document, page', batches', e)
  BY <1>1, <1>3, SamePending
<1>7. DrainOK(document, page', script', batches', serial', history.recorded)
  BY <1>1, <1>4, <1>5, <1>6, DrainKept DEF TrackInv
<1> QED BY <1>1, <1>3, <1>4, <1>6, <1>7, PageTrack

(* The first events of the queue are as much on their way in the batch.    *)
LEMMA SendsPending ==
  ASSUME NEW doc, NEW pg, NEW qg, NEW b, Sends(doc, pg, qg, b), pg.queue \in Seq(Item),
         NEW bs, NEW e
  PROVE  Pending(doc, qg, bs \cup {b}, e) <=> Pending(doc, pg, bs, e)
<1> DEFINE q == pg.queue  r == qg.queue
           Has(i) == q[i].number = e.number /\ q[i].source = e.source
<1>1. PICK count \in 1..Len(q) :
        /\ b.numbers = [i \in 1..count |-> q[i].number]
        /\ \A i \in 1..count : b.source = q[i].source
        /\ r = SubSeq(q, count + 1, Len(q))
  BY DEF Sends
<1>2. q \in Seq(Item) /\ Len(q) \in Nat /\ DOMAIN q = 1..Len(q)
  OBVIOUS
<1> DEFINE n == Len(q)
<1> HIDE DEF q, r
<1>3. DOMAIN r = 1..(n - count) /\ \A i \in 1..(n - count) : r[i] = q[i + count]
  BY <1>1, <1>2, RestIs
<1>4. \A i \in 1..(n - count) : i + count \in 1..n
  BY <1>2
<1>5. \A i \in 1..n : i \in 1..count \/ \E j \in 1..(n - count) : i = j + count
  <2> SUFFICES ASSUME NEW i \in 1..n, i \notin 1..count
               PROVE  \E j \in 1..(n - count) : i = j + count
    OBVIOUS
  <2>1. i - count \in 1..(n - count) /\ i = (i - count) + count
    BY <1>2
  <2> QED BY <2>1
<1>6. 1..count \subseteq 1..n
  BY <1>2
<1>7. InBatch(doc, b, e) <=> \E i \in 1..count : Has(i)
  <2>1. DOMAIN b.numbers = 1..count /\ \A i \in 1..count : b.numbers[i] = q[i].number
    BY <1>1
  <2>2. b.document = doc /\ b.answer = "none"
    BY DEF Sends
  <2>3. \A i \in 1..count : b.source = q[i].source
    BY <1>1
  <2> QED BY <2>1, <2>2, <2>3 DEF InBatch
<1>8. (\E i \in DOMAIN q : Has(i)) <=>
        \/ \E i \in 1..count : Has(i)
        \/ \E i \in DOMAIN r : r[i].number = e.number /\ r[i].source = e.source
  <2>1. ASSUME NEW i \in DOMAIN q, Has(i), i \notin 1..count
        PROVE  \E j \in DOMAIN r : r[j].number = e.number /\ r[j].source = e.source
    <3>1. PICK j \in 1..(n - count) : i = j + count
      BY <1>2, <1>5, <2>1
    <3> QED BY <1>3, <2>1, <3>1
  <2>2. ASSUME NEW i \in DOMAIN r, r[i].number = e.number, r[i].source = e.source
        PROVE  \E j \in DOMAIN q : Has(j)
    <3>1. i \in 1..(n - count) /\ Has(i + count)
      BY <1>3, <2>2
    <3>2. i + count \in DOMAIN q
      BY <1>2, <1>4, <3>1
    <3> QED BY <3>1, <3>2
  <2> QED BY <1>2, <1>6, <2>1, <2>2
<1>9. Pending(doc, pg, bs, e) <=>
        e.document = doc /\ ((\E i \in DOMAIN q : Has(i)) \/ \E c \in bs : InBatch(doc, c, e))
  BY DEF Pending, InBatch, q
<1>10. Pending(doc, qg, bs \cup {b}, e) <=>
        /\ e.document = doc
        /\ \/ \E i \in DOMAIN r : r[i].number = e.number /\ r[i].source = e.source
           \/ \E c \in bs \cup {b} : InBatch(doc, c, e)
  BY DEF Pending, InBatch, r
<1> HIDE DEF Has
<1> QED BY <1>7, <1>8, <1>9, <1>10

(* A batch is sent.                                                        *)
LEMMA FlushTrack ==
  ASSUME TrackInv, BaseInv, CaptureTypeOK, Flush
  PROVE  TrackInv'
<1>1. PICK b \in BatchType : Sends(document, page, page', b) /\ batches' = batches \cup {b}
  BY FlushIs
<1>2. UNCHANGED <<store, serial, document, script, history>> /\ history \in HistoryType
  BY DEF Flush, CaptureTypeOK
<1>3. page.queue \in Seq(Item) /\ Remain(script, script)
  <2>1. page \in PageType /\ script \in Seq(Message)
    BY BaseParts
  <2> QED BY <2>1, RemainIs DEF PageType
<1>4. \A e : Pending(document, page', batches', e) <=> Pending(document, page, batches, e)
  BY <1>1, <1>3, SendsPending
<1>5. /\ page'.leases = page.leases /\ page'.source = page.source /\ page'.number = page.number
      /\ page'.drain = page.drain
  BY <1>1 DEF Sends
<1>6. DrainOK(document, page', script', batches', serial', history.recorded)
  BY <1>2, <1>3, <1>4, <1>5, DrainKept DEF TrackInv
<1> QED BY <1>2, <1>3, <1>4, <1>5, <1>6, PageTrack

(* An event is recorded for those who have leases, and queued, or known    *)
(* to be lost.                                                             *)
LEMMA RecordTrack ==
  ASSUME TrackInv, BaseInv, CaptureTypeOK, NEW fits \in BOOLEAN, Record(fits)
  PROVE  TrackInv'
<1> DEFINE n == page.number + 1  recorded == history.recorded
           event == [document |-> document, number |-> n, source |-> page.source,
                     observers |-> page.leases]
           item == [number |-> n, source |-> page.source, generation |-> page.generation]
<1>1. /\ Records(page, page') /\ history'.recorded = recorded \cup {event}
      /\ history.lost \subseteq history'.lost
      /\ \/ page'.queue = Append(page.queue, item)
         \/ [document |-> document, number |-> n] \in history'.lost
  BY RecordIs
<1>2. UNCHANGED <<store, serial, document, script, batches>>
  BY DEF Record
<1>3. /\ page.queue \in Seq(Item) /\ script \in Seq(Message) /\ page.number \in Nat
      /\ \A e \in recorded : e.number \in Nat
  <2>1. page \in PageType /\ script \in Seq(Message) /\ recorded \subseteq RecordedType
    BY BaseParts DEF CaptureTypeOK, HistoryType
  <2> QED BY <2>1 DEF PageType, RecordedType
<1>4. /\ page'.number = n /\ page'.source = page.source /\ page'.leases = page.leases
      /\ page'.drain = page.drain /\ page'.queue \in {page.queue, Append(page.queue, item)}
  BY <1>1 DEF Records
<1>5. item.number = n /\ item.source = page.source
  OBVIOUS
<1>6. /\ event.document = document /\ event.number = n /\ event.source = page.source
      /\ event.observers = page.leases
  OBVIOUS
<1>7. \A e \in recorded : e.document <= document /\ (e.document = document => e.number <= page.number)
  BY DEF TrackInv, RecordedOK
<1>8. document <= document
  BY DEF CaptureTypeOK
<1>9. n <= n /\ \A e \in recorded : e.number <= page.number => e.number <= n /\ e.number # n
  BY <1>3
<1> HIDE DEF n, recorded, event, item
<1>10. RecordedOK(document, page', recorded \cup {event})
  BY <1>4, <1>6, <1>7, <1>8, <1>9 DEF RecordedOK
<1> DEFINE q == page.queue
<1>11. /\ \A i \in DOMAIN q : i \in DOMAIN Append(q, item) /\ Append(q, item)[i] = q[i]
       /\ \A i \in DOMAIN Append(q, item) : \/ i \in DOMAIN q /\ Append(q, item)[i] = q[i]
                                            \/ Append(q, item)[i] = item
       /\ \E i \in DOMAIN Append(q, item) : Append(q, item)[i] = item
  <2> DEFINE len == Len(q)
  <2>1. q \in Seq(Item) /\ len \in Nat /\ DOMAIN q = 1..len
    BY <1>3
  <2> HIDE DEF q
  <2>2. DOMAIN Append(q, item) = 1..(len + 1) /\ Append(q, item)[len + 1] = item
        /\ \A i \in 1..len : Append(q, item)[i] = q[i]
    BY <2>1
  <2> HIDE DEF len
  <2>3. 1..len \subseteq 1..(len + 1) /\ len + 1 \in 1..(len + 1)
        /\ \A i \in 1..(len + 1) : i \in 1..len \/ i = len + 1
    BY <2>1
  <2> QED BY <2>1, <2>2, <2>3
<1> HIDE DEF q
<1>12. ASSUME NEW e, Pending(document, page, batches, e)
       PROVE  Pending(document, page', batches, e)
  BY <1>4, <1>11, <1>12 DEF Pending, q
<1>13. ASSUME NEW e \in recorded, Pending(document, page', batches, e)
       PROVE  Pending(document, page, batches, e)
  <2>1. e.number # item.number
    BY <1>5, <1>7, <1>9, <1>13 DEF Pending
  <2>2. CASE page'.queue = q
    BY <1>13, <2>2 DEF Pending, q
  <2>3. CASE page'.queue = Append(q, item)
    <3>1. CASE \E i \in DOMAIN Append(q, item) :
                 Append(q, item)[i].number = e.number /\ Append(q, item)[i].source = e.source
      <4>1. \E i \in DOMAIN q : q[i].number = e.number /\ q[i].source = e.source
        BY <1>11, <2>1, <3>1
      <4> QED BY <1>13, <4>1 DEF Pending, q
    <3>2. CASE \E b \in batches : InBatch(document, b, e)
      BY <1>13, <3>2 DEF Pending, InBatch
    <3> QED BY <1>13, <2>3, <3>1, <3>2 DEF Pending, InBatch
  <2> QED BY <1>4, <2>2, <2>3 DEF q
<1>14. Pending(document, page', batches, event) \/ Gone(event, history'.lost)
  <2>1. CASE page'.queue = Append(q, item)
    BY <1>5, <1>6, <1>11, <2>1 DEF Pending
  <2>2. CASE [document |-> document, number |-> n] \in history'.lost
    BY <1>6, <2>2 DEF Gone
  <2> QED BY <1>1, <2>1, <2>2 DEF q
<1>15. ASSUME NEW s \in Session
       PROVE  Tracks(store, document, page', script, batches, recorded \cup {event}, history'.lost, s)
  <2>1. Tracks(store, document, page, script, batches, recorded, history.lost, s)
    BY DEF TrackInv, TracksAll, recorded
  <2>2. s \in Retained(store) => ObservedBy(store, page', script, recorded \cup {event}, s)
    BY <1>4, <1>6, <2>1 DEF Tracks, ObservedBy
  <2>3. Complete(store, s) => s \notin page'.leases /\ \A i \in DOMAIN script : s \notin script[i].leases
    BY <1>4, <2>1 DEF Tracks
  <2>4. ASSUME NEW e \in recorded, s \in e.observers,
               [document |-> e.document, number |-> e.number] \notin history'.lost
        PROVE  /\ Complete(store, s) => StoredFor(store, s, e)
               /\ Capturing(store, s) /\ store.session[s].dropped = 0
                    => StoredFor(store, s, e) \/ Pending(document, page', batches, e)
    BY <1>1, <1>12, <2>1, <2>4 DEF Tracks
  <2>5. ASSUME s \in event.observers,
               [document |-> event.document, number |-> event.number] \notin history'.lost
        PROVE  ~Complete(store, s) /\ Pending(document, page', batches, event)
    BY <1>4, <1>6, <1>14, <2>3, <2>5 DEF Gone
  <2> QED BY <2>2, <2>3, <2>4, <2>5 DEF Tracks
<1>16. TracksAll(store, document, page', script, batches, recorded \cup {event}, history'.lost)
  BY <1>15 DEF TracksAll
<1>17. DrainOK(document, page', script, batches, serial, recorded \cup {event})
  <2>1. DrainOK(document, page, script, batches, serial, recorded)
    BY DEF TrackInv, recorded
  <2> QED BY <1>4, <1>6, <1>13, <2>1 DEF DrainOK
<1> QED BY <1>1, <1>2, <1>10, <1>16, <1>17 DEF TrackInv

(* A configuration: a drain that is answered at once found nothing on its  *)
(* way.                                                                    *)
LEMMA ConfigureTrack ==
  ASSUME TrackInv, BaseInv, BaseInv', CaptureTypeOK, NEW tried \in {"ok", "failed"}, Configure(tried)
  PROVE  TrackInv'
<1> DEFINE m == Head(script)  recorded == history.recorded
           empty == page.queue = <<>> /\ ~page.inFlight
<1>1. /\ script # <<>> /\ script' = Tail(script) /\ Reconfigures(page, page', m)
      /\ m.what = "configure"
      /\ \/ serial' = serial /\ ~page'.drain
         \/ m.awaited /\ serial' = serial /\ page'.drain
         \/ m.awaited /\ empty /\ Answers(serial, serial', "drained") /\ ~page'.drain
         \/ Answers(serial, serial', tried) /\ ~page'.drain
  BY NoDrain, ConfigureIs
<1>2. UNCHANGED <<store, document, batches, history>>
  BY DEF Configure
<1>3. script \in Seq(Message) /\ m = script[1] /\ 1 \in DOMAIN script
  BY <1>1, BaseParts, HeadIs
<1> HIDE DEF m
<1>4. serial'.what = serial.what /\ serial'.session = serial.session
  BY <1>1, SerialSame
<1>5. Remain(script, script')
  BY <1>1, <1>3, RemainIs
<1>6. page'.number = page.number /\ page'.queue = page.queue /\ page'.leases = m.leases
      /\ page'.source = m.source /\ page'.inFlight = page.inFlight
  BY <1>1 DEF Reconfigures
<1>7. \A e : Pending(document, page, batches, e) <=> Pending(document, page', batches, e)
  BY <1>6, SamePending
<1>8. /\ DrainOK(document, page, script, batches, serial, recorded)
      /\ RecordedOK(document, page, recorded)
      /\ \A s \in Session : Tracks(store, document, page, script, batches, recorded, history.lost, s)
  BY DEF TrackInv, TracksAll
<1> HIDE DEF recorded
<1>9. ASSUME NEW s \in Session
      PROVE  Tracks(store, document, page', script', batches, recorded, history.lost, s)
  <2>1. Tracks(store, document, page, script, batches, recorded, history.lost, s)
    BY <1>8
  <2>2. s \in Retained(store) => ObservedBy(store, page', script', recorded, s)
    BY <1>1, <1>3, <1>5, <1>6, <2>1 DEF Tracks, ObservedBy, Remain
  <2>3. Complete(store, s) => s \notin page'.leases /\ \A i \in DOMAIN script' : s \notin script'[i].leases
    BY <1>3, <1>5, <1>6, <2>1 DEF Tracks, Remain
  <2> QED BY <1>7, <2>1, <2>2, <2>3 DEF Tracks
<1>10. DrainOK(document, page', script', batches, serial', recorded)
  <2> SUFFICES ASSUME serial.what = "confirm_stop"
               PROVE  DrainOK(document, page', script', batches, serial', recorded)
    BY <1>4 DEF DrainOK
  <2>1. \A i \in DOMAIN script : script[i].awaited => serial.session \notin script[i].leases
    BY <1>8 DEF DrainOK
  <2>2. m.awaited => serial.session \notin page'.leases
    BY <1>3, <1>6, <2>1
  <2>3. \A i \in DOMAIN script' : script'[i].awaited => serial.session \notin script'[i].leases
    BY <1>5, <2>1 DEF Remain
  <2>4. page'.drain => m.awaited
    BY <1>1
  <2>5. serial.reply # "drained"
    BY <1>1, <1>8 DEF DrainOK
  <2>6. serial'.reply = "drained" => m.awaited /\ empty
    BY <1>1, <2>5 DEF Answers
  <2>7. m.awaited => script' = <<>>
    <3>1. m.awaited => Len(script) = 1
      BY <1>3, BaseParts DEF ScriptsOK
    <3> QED BY <1>1, <1>3, <3>1, TailIs
  <2>8. empty => \A e : ~Pending(document, page', batches, e)
    <3>1. PagesOrdered(document', page', batches')
      BY DEF BaseInv, Base
    <3> QED BY <1>2, <1>6, <3>1, NothingPending
  <2> QED BY <1>4, <2>2, <2>3, <2>4, <2>6, <2>7, <2>8 DEF DrainOK
<1>11. RecordedOK(document, page', recorded)
  BY <1>6, <1>8 DEF RecordedOK
<1>12. TracksAll(store, document, page', script', batches, recorded, history.lost)
  BY <1>9 DEF TracksAll
<1> QED BY <1>2, <1>10, <1>11, <1>12 DEF TrackInv, recorded

-----------------------------------------------------------------------------
(* Nothing is lost untold                                                  *)

(* The third layer holds at first.                                         *)
LEMMA InitTrack ==
  ASSUME CaptureInit
  PROVE  TrackInv
<1>1. /\ page.leases = {} /\ script = <<>> /\ serial = Idle /\ history.recorded = {}
      /\ \A s \in Session : store.session[s].status = "none"
  BY DEF CaptureInit, OffPage, NoSession
<1>2. DOMAIN script = {} /\ \A s \in Session : ~Complete(store, s)
  BY <1>1 DEF Complete
<1>3. RecordedOK(document, page, history.recorded)
  BY <1>1 DEF RecordedOK
<1>4. DrainOK(document, page, script, batches, serial, history.recorded)
  BY <1>1, IdleIs, NoStopDrains
<1>5. TracksAll(store, document, page, script, batches, history.recorded, history.lost)
  BY <1>1, <1>2 DEF TracksAll, Tracks, ObservedBy
<1> QED BY <1>3, <1>4, <1>5 DEF TrackInv

(* The invariant of what is recorded.                                      *)
StopInv == PageInv /\ TrackInv

(* And after each step.                                                    *)
LEMMA NextTrack ==
  ASSUME StopInv, [CaptureNext]_captureVars
  PROVE  StopInv'
<1>1. /\ CaptureTypeOK /\ BaseInv /\ LeaseInv /\ history \in HistoryType /\ TrackInv /\ PageInv
  BY ReadInvTyped DEF StopInv, PageInv, ReadInv
<1>2. PageInv'
  BY <1>1, NextLease
<1>3. BaseInv'
  BY <1>2 DEF PageInv, ReadInv
<1>4. CASE UNCHANGED captureVars
  <2>1. TrackInv'
    BY <1>1, <1>4 DEF captureVars, TrackInv
  <2> QED BY <1>2, <2>1 DEF StopInv
<1>5. CASE CaptureNext
  <2>1. CASE \/ \E s \in Session : \/ StatusOf(s, TRUE) \/ StatusOf(s, FALSE)
                                   \/ SessionDeadline(s) \/ Forgotten(s) \/ Query(s)
             \/ RolledBack \/ ConfirmFollow \/ Cleaned
    BY <1>1, <1>2, <2>1, OperationsTrack DEF StopInv
  <2>2. CASE (\E s \in Session : StopCapture(s)) \/ PageHasChanged
    BY <1>1, <1>2, <2>2, StopsTrack DEF StopInv
  <2>3. CASE SendStop \/ ConfirmStop \/ ConfirmStart \/ Maintain
    BY <1>1, <1>2, <2>3, SendStopTrack, ConfirmStopTrack, ConfirmStartTrack, MaintainTrack DEF StopInv
  <2>4. CASE BeginSession \/ Follow
    BY <1>1, <1>2, <2>4, BeginSessionTrack, FollowTrack DEF StopInv
  <2>5. CASE (\E s \in Session : StartCapture(s)) \/ LoadFinished \/ RevokeDomain
    BY <1>1, <1>2, <2>5, SurroundingsTrack DEF StopInv
  <2>6. CASE \/ Navigate
             \/ \E b \in batches : Ingest(b, TRUE) \/ Ingest(b, FALSE)
    BY <1>1, <1>2, <2>6, NavigateTrack, IngestTrack DEF StopInv
  <2>7. CASE \/ \E s \in Session : LeaseEnds(s)
             \/ \E b \in batches : AckBatch(b) \/ BatchRejected(b)
             \/ ExpireLeases
    BY <1>1, <1>2, <1>3, <2>7, EndingsTrack DEF StopInv
  <2>8. CASE Record(TRUE) \/ Record(FALSE) \/ Flush \/ DrainTimesOut \/ ApplyTimesOut
    BY <1>1, <1>2, <2>8, RecordTrack, FlushTrack, TimesOutTrack DEF StopInv
  <2>9. CASE Configure("ok") \/ Configure("failed")
    BY <1>1, <1>2, <1>3, <2>9, ConfigureTrack DEF StopInv
  <2> QED BY <1>5, <2>1, <2>2, <2>3, <2>4, <2>5, <2>6, <2>7, <2>8, <2>9 DEF CaptureNext, Trouble
<1> QED BY <1>4, <1>5

(* Who is complete has what was recorded for it.                           *)
LEMMA TracksComplete ==
  ASSUME StopInv
  PROVE  StoppedIsComplete
<1> SUFFICES ASSUME NEW s \in Session, store.session[s].status = "stopped",
                    store.session[s].clean, store.session[s].dropped = 0,
                    NEW e \in history.recorded, s \in e.observers,
                    [document |-> e.document, number |-> e.number] \notin history.lost
             PROVE  \E i \in DOMAIN store.events :
                      /\ store.events[i].source = e.source /\ store.events[i].number = e.number
                      /\ store.events[i].seq \in store.session[s].start..store.session[s].end
  BY DEF StoppedIsComplete
<1>1. Complete(store, s) /\ ~Capturing(store, s)
  BY DEF Complete, Capturing
<1>2. StoredFor(store, s, e)
  BY <1>1 DEF StopInv, TrackInv, TracksAll, Tracks
<1>3. StoreOK(store)
  BY BaseStoreOK DEF StopInv, PageInv, ReadInv
<1>4. PICK i \in DOMAIN store.events :
        /\ store.events[i].source = e.source /\ store.events[i].number = e.number
        /\ store.session[s].start <= store.events[i].seq
        /\ store.events[i].seq <= store.session[s].end
  BY <1>1, <1>2 DEF StoredFor
<1>5. store.events[i].seq \in Nat
  <2>1. store.events[i] \in ToSet(store.events) /\ ToSet(store.events) \subseteq Event
    BY <1>3, EventsBySeq, ToSetIs
  <2> QED BY <2>1 DEF Event
<1>6. store.events[i].seq \in store.session[s].start..store.session[s].end
  <2> DEFINE a == store.session[s].start  b == store.session[s].end  q == store.events[i].seq
  <2>1. a \in Nat /\ b \in Nat /\ q \in Nat /\ a <= q /\ q <= b
    BY <1>3, <1>4, <1>5, SessionIs
  <2> HIDE DEF a, b, q
  <2>2. q \in a..b
    BY <2>1
  <2> QED BY <2>2 DEF a, b, q
<1> QED BY <1>4, <1>6

(* A session that is complete, stopped after a drain and without a drop,   *)
(* has in the store, within its range, every event that the page recorded  *)
(* for it and does not know to be lost; and its readers miss nothing       *)
(* (src/plugin/src/capture/mod.rs, stop and drain; page.js, flush and      *)
(* drain; store.rs, ingest, stop and query).                               *)
THEOREM NothingLostUntold == CaptureSpec => []NoEventLostUntold
<1>1. CaptureInit => StopInv
  BY InitRead, InitLease, InitTrack DEF StopInv, PageInv
<1>2. StopInv /\ [CaptureNext]_captureVars => StopInv'
  BY NextTrack
<1>3. StopInv => StoppedIsComplete
  BY TracksComplete
<1> QED BY <1>1, <1>2, <1>3, NothingMissed, PTL DEF CaptureSpec, NoEventLostUntold
=============================================================================
