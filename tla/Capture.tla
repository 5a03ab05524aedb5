------------------------------ MODULE Capture ------------------------------
(***************************************************************************)
(* Capture of a window's IPC (src/plugin/src/capture/).  The page wraps    *)
(* `invoke`, queues what it observes and sends it in batches; the host     *)
(* keeps sessions and the sources (documents) they observe, numbers the    *)
(* events it accepts and serves them by cursor.  start, stop, status, the  *)
(* move to a new document and the maintenance task hold one mutex; the     *)
(* batches, the lifecycle of the window and the queries do not.            *)
(*                                                                         *)
(* One window and one authorization domain.  An event is its number in the *)
(* document that recorded it; previews, filters, invocations and byte      *)
(* budgets are left out.  Scripts reach a document in the order in which   *)
(* they were sent.                                                         *)
(***************************************************************************)
EXTENDS Naturals, Sequences, SequencesExt, FiniteSetsExt

CONSTANTS Session,      \* capture sessions that are started
          Following,    \* those with followPages
          Queried,      \* those that somebody reads
          MaxStored,    \* max_events, the events that are retained
          MaxSources,   \* bound: sources drawn
          MaxDocuments, \* bound: documents the window shows
          MaxTrouble,   \* bound: disturbances (the actions of Trouble)
          MaxRecorded   \* bound: events the pages record

ASSUME CaptureConstants ==
  /\ Following \subseteq Session /\ Queried \subseteq Session
  /\ MaxStored \in Nat \ {0} /\ MaxSources \in Nat
  /\ MaxDocuments \in Nat \ {0} /\ MaxRecorded \in Nat /\ MaxTrouble \in Nat

VARIABLES
  store,      \* the Store behind its own lock
  serial,     \* who has the `operations` mutex and what he does there
  moved,      \* whether a finished load waits for page_changed
  permitted,  \* whether the domain is authorized
  document,   \* the document of the window
  page,       \* its capture controller
  script,     \* scripts sent to it that have not run
  batches,    \* batches on their way and their answers
  reading,    \* what the reader of each session was given
  history,    \* ghost: what was recorded, lost in the page, and stored
  trouble     \* how often something was disturbed

captureVars == <<store, serial, moved, permitted, document, page, script, batches,
                 reading, history, trouble>>

Sources == 1..MaxSources
NoSession == [status |-> "none", sources |-> <<>>, start |-> 0, end |-> 0, dropped |-> 0,
              applied |-> FALSE, late |-> FALSE, clean |-> FALSE]
NoSource == [context |-> 0, dropped |-> 0, interrupted |-> FALSE, retired |-> 0]
Idle == [what |-> "idle"]
OffPage == [leases |-> {}, source |-> 0, generation |-> 0, dropped |-> 0, number |-> 0,
            queue |-> <<>>, inFlight |-> FALSE, drain |-> FALSE]

-----------------------------------------------------------------------------
(* The store                                                               *)

Capturing(st, s) == st.session[s].status = "active"
Retained(st) == {s \in Session : st.session[s].status # "none"}
Observes(st, s, source) == \E i \in DOMAIN st.session[s].sources :
                             st.session[s].sources[i] = source
Current(st, s) == Last(st.session[s].sources)

(* Both the list of sessions a source's page must serve, as config has it. *)
Serving(st, source) ==
  {s \in Session : Capturing(st, s) /\ ~st.session[s].late /\ Current(st, s) = source}

ReleaseIfEmpty(st) ==
  IF Retained(st) # {} THEN st
  ELSE [st EXCEPT !.events = <<>>, !.seen = {},
                  !.source = [id \in Sources |-> NoSource]]

EndSession(st, s, how) ==
  [st.session[s] EXCEPT !.status = how, !.end = st.sequence, !.applied = FALSE]

(* The page of at most one source waits to be cleaned, the last one.       *)
QueueCleanup(st, sources) == IF sources = {} THEN st.cleanup ELSE sources

ExpireSessions(st) ==
  LET over == {s \in Session : Capturing(st, s) /\ st.session[s].late}
  IN ReleaseIfEmpty(
       [st EXCEPT !.session = [s \in Session |->
                    IF s \in over THEN EndSession(st, s, "expired") ELSE @[s]],
                  !.cleanup = QueueCleanup(st, {Current(st, s) : s \in over})])

AuthorizeDomains(st) ==
  IF permitted THEN st
  ELSE ReleaseIfEmpty(
         [st EXCEPT !.session = [s \in Session |-> NoSession],
                    !.cleanup = QueueCleanup(st, {Current(st, s) : s \in Retained(st)})])

Swept(st) == ExpireSessions(AuthorizeDomains(st))

AcceptsSource(st, source) ==
  /\ st.source[source].context # 0 /\ ~st.source[source].interrupted
  /\ \E s \in Session : Capturing(st, s) /\ ~st.session[s].late /\ Observes(st, s, source)

CountDrops(st, source, n) ==
  [st EXCEPT !.session = [s \in Session |->
     IF Observes(st, s, source) THEN [st.session[s] EXCEPT !.dropped = @ + n] ELSE @[s]]]

Trim(st) ==
  LET trimmed == IF Len(st.events) <= MaxStored THEN st
                 ELSE LET e == Head(st.events)
                      IN [CountDrops(st, e.source, 1) EXCEPT
                            !.events = Tail(@),
                            !.source[e.source].retired = Max({@, e.number})]
      oldest == IF trimmed.events = <<>> THEN trimmed.sequence + 1
                                         ELSE Head(trimmed.events).seq
  IN [trimmed EXCEPT !.seen = {k \in @ : k.seq >= oldest}]

(* Mutant: what is still retained is not compared.                         *)
StoreEventUnlessRetired(st, source, number, retired) ==
  IF number <= retired THEN st
  ELSE LET kept == [seq |-> st.sequence + 1, source |-> source, number |-> number]
       IN Trim([st EXCEPT !.sequence = @ + 1, !.events = Append(@, kept),
                          !.seen = @ \cup {kept}])

(* retired: retired_sequence as it was before the batch.                   *)
StoreEvent(st, source, number, retired) ==
  IF number <= retired \/ \E k \in st.seen : k.source = source /\ k.number = number
    THEN st
    ELSE LET kept == [seq |-> st.sequence + 1, source |-> source, number |-> number]
         IN Trim([st EXCEPT !.sequence = @ + 1, !.events = Append(@, kept),
                            !.seen = @ \cup {kept}])

(* The drops that a batch reports count once.                              *)
Told(st, b) ==
  IF b.dropped <= st.source[b.source].dropped THEN st
  ELSE [CountDrops(st, b.source, b.dropped - st.source[b.source].dropped) EXCEPT
          !.source[b.source].dropped = b.dropped]

(* The store after each event of a batch.                                  *)
IngestSteps(st, b) ==
  LET after[i \in 0..Len(b.numbers)] ==
        IF i = 0 THEN Told(st, b)
        ELSE StoreEvent(after[i - 1], b.source, b.numbers[i], st.source[b.source].retired)
  IN after

IngestBatch(st, b) == IngestSteps(st, b)[Len(b.numbers)]

InterruptWindow(st) ==
  LET ids == {id \in Sources : st.source[id].context # 0 /\ ~st.source[id].interrupted}
      hit == {s \in Session : Capturing(st, s) /\ \E id \in ids : Observes(st, s, id)}
      Hit(s) == [st.session[s] EXCEPT !.applied = FALSE, !.dropped = @ + 1]
  IN [st EXCEPT !.source = [id \in Sources |->
                  IF id \in ids THEN [@[id] EXCEPT !.interrupted = TRUE] ELSE @[id]],
                !.session = [s \in Session |->
                  IF s \notin hit THEN @[s]
                  ELSE IF s \in Following THEN Hit(s)
                  ELSE [Hit(s) EXCEPT !.status = "interrupted", !.end = st.sequence]]]

(* source(): the live source of this context, or a new one.                *)
LiveSources(st, context) ==
  {id \in Sources : st.source[id].context = context /\ ~st.source[id].interrupted}

SourceFor(st, context) ==
  IF LiveSources(st, context) # {} THEN CHOOSE id \in LiveSources(st, context) : TRUE
  ELSE st.drawn + 1

WithSource(st, context) ==
  IF LiveSources(st, context) # {} THEN st
  ELSE LET used == {id \in Sources : \E s \in Session : Observes(st, s, id)}
       IN [st EXCEPT !.drawn = @ + 1,
                     !.source = [id \in Sources |->
                       IF id = st.drawn + 1 THEN [NoSource EXCEPT !.context = context]
                       ELSE IF id \in used THEN @[id] ELSE NoSource]]

FollowSource(st, source) ==
  [st EXCEPT !.session = [s \in Session |->
     IF Capturing(st, s) /\ s \in Following /\ ~st.session[s].late
          /\ ~Observes(st, s, source)
       THEN [st.session[s] EXCEPT !.sources = Append(@, source)] ELSE @[s]]]

StartAt(st, s, source) ==
  [st EXCEPT !.session[s] = [NoSession EXCEPT !.status = "active", !.sources = <<source>>,
                                              !.start = st.sequence + 1]]

RemoveSession(st, s) == ReleaseIfEmpty([st EXCEPT !.session[s] = NoSession])

Acknowledge(st, s, ok) ==
  [st EXCEPT !.session[s].applied = ok /\ Capturing(st, s) /\ ~st.session[s].late]

AcknowledgeSource(st, source, ok) ==
  [st EXCEPT !.session = [s \in Session |->
     IF Capturing(st, s) /\ Current(st, s) = source
       THEN [@[s] EXCEPT !.applied = ok /\ ~st.session[s].late] ELSE @[s]]]

NoteGap(st, s, n) ==
  IF s \in Retained(st) THEN [st EXCEPT !.session[s].dropped = @ + n] ELSE st

(* stop, whose result tells whether the page confirmed its cleanup.        *)
StopSession(st, s, clean) ==
  IF s \notin Retained(st) THEN st
  ELSE [st EXCEPT !.session[s] =
          [(IF Capturing(st, s) THEN EndSession(st, s, "stopped") ELSE @)
             EXCEPT !.applied = FALSE, !.clean = clean]]

-----------------------------------------------------------------------------
(* The operations, one at a time behind the mutex                          *)

Hold(what) == serial' = what
Leave == serial' = Idle

(* apply: the runtime is probed, the context is compared, and then the     *)
(* configuration is sent.  The probe answers after every earlier script.   *)
MaySend(config, context) ==
  script = <<>> /\ context = document /\ (config.leases # {} => permitted)

Config(st, source, excluded, drain) ==
  [what |-> "configure", source |-> source, leases |-> Serving(st, source) \ excluded,
   drain |-> drain, awaited |-> TRUE]

Apply(then, config, context) ==
  /\ script' = IF MaySend(config, context) THEN Append(script, config) ELSE script
  /\ Hold([what |-> then, session |-> serial.session, source |-> config.source,
           reply |-> IF MaySend(config, context) THEN "none" ELSE "failed"])

(* ipc_capture start: the execution context first.                         *)
StartCapture(s) ==
  /\ serial = Idle /\ permitted /\ ~history.begun[s]
  /\ Hold([what |-> "starting", session |-> s, context |-> document])
  /\ history' = [history EXCEPT !.begun[s] = TRUE]
  /\ UNCHANGED <<store, moved, permitted, document, page, script, batches, reading>>

(* It may be refused: too late, or too many sessions are retained.         *)
BeginSession ==
  /\ serial.what = "starting"
  /\ IF ~permitted
       THEN Leave /\ UNCHANGED <<store, script>>
       ELSE LET swept == WithSource(Swept(store), serial.context)
                source == SourceFor(Swept(store), serial.context)
                st == StartAt(swept, serial.session, source)
            IN /\ source \in Sources
               /\ \/ /\ store' = st
                     /\ Apply("confirm_start", Config(st, source, {}, FALSE), serial.context)
                  \/ store' = swept /\ Leave /\ UNCHANGED script
  /\ UNCHANGED <<moved, permitted, document, page, batches, reading, history>>

Succeeded == serial.reply \in {"ok", "drained", "undrained"}
Replied == serial.reply # "none"

(* The page's acknowledgement, or a rollback: what others have of the page *)
(* is applied again.                                                       *)
ConfirmStart ==
  /\ serial.what = "confirm_start" /\ Replied
  /\ LET s == serial.session IN
     \/ /\ ~permitted
        /\ store' = AuthorizeDomains(store) /\ Leave /\ UNCHANGED script
     \/ /\ permitted /\ Succeeded
        /\ LET st == ExpireSessions(store)
           IN store' = IF s \in Retained(st) THEN Acknowledge(st, s, TRUE) ELSE st
        /\ Leave /\ UNCHANGED script
     \/ /\ permitted /\ ~Succeeded
        /\ store' = RemoveSession(store, s)
        /\ IF Capturing(store, s)
             THEN LET source == Current(store, s)
                  IN Apply("rolled_back", Config(store, source, {s}, TRUE),
                           store.source[source].context)
             ELSE Leave /\ UNCHANGED script
  /\ UNCHANGED <<moved, permitted, document, page, batches, reading, history>>

RolledBack ==
  /\ serial.what = "rolled_back" /\ Replied /\ Leave
  /\ store' = AuthorizeDomains(store)
  /\ UNCHANGED <<moved, permitted, document, page, script, batches, reading, history>>

(* ipc_capture stop: the page first.                                       *)
StopCapture(s) ==
  /\ serial = Idle /\ permitted /\ s \in Retained(store) /\ ~store.session[s].clean
  /\ IF Capturing(store, s)
       THEN /\ Hold([what |-> "stopping", session |-> s])
            /\ UNCHANGED store
       ELSE store' = StopSession(store, s, TRUE) /\ Leave
  /\ UNCHANGED <<moved, permitted, document, page, script, batches, reading, history>>

SendStop ==
  /\ serial.what = "stopping"
  /\ LET s == serial.session IN
     IF s \in Retained(store) /\ Capturing(store, s)
       THEN LET source == Current(store, s)
            IN /\ Apply("confirm_stop", Config(store, source, {s}, TRUE),
                        store.source[source].context)
               /\ UNCHANGED store
       ELSE store' = StopSession(store, s, TRUE) /\ Leave /\ UNCHANGED script
  /\ UNCHANGED <<moved, permitted, document, page, batches, reading, history>>

ConfirmStop ==
  /\ serial.what = "confirm_stop" /\ Replied
  /\ LET clean == serial.reply = "drained"
         noted == IF clean THEN store ELSE NoteGap(store, serial.session, 1)
     IN store' = AuthorizeDomains(StopSession(noted, serial.session, clean))
  /\ Leave
  /\ UNCHANGED <<moved, permitted, document, page, script, batches, reading, history>>

(* ipc_capture status.  A page that is silent, or has another context or   *)
(* no capture, interrupts what observes the window.                        *)
StatusOf(s, answered) ==
  /\ serial = Idle /\ permitted /\ s \in Retained(store)
  /\ LET matches == /\ answered /\ page.leases # {}
                    /\ store.source[Current(store, s)].context = document
         desired == Capturing(store, s) /\ ~store.session[s].late
     IN store' = IF desired /\ ~matches THEN InterruptWindow(store) ELSE store
  /\ UNCHANGED <<serial, moved, permitted, document, page, script, batches, reading, history>>

(* page_changed, after a load has finished.                                *)
PageHasChanged ==
  /\ serial = Idle /\ moved /\ moved' = FALSE
  /\ LET st == InterruptWindow(Swept(store))
     IN /\ store' = st
        /\ \/ Hold([what |-> "following", session |-> "none", context |-> document])
              /\ \E s \in Following : Capturing(st, s) /\ ~st.session[s].late
           \/ UNCHANGED serial
  /\ UNCHANGED <<permitted, document, page, script, batches, reading, history>>

Follow ==
  /\ serial.what = "following"
  /\ LET source == SourceFor(store, serial.context)
         st == FollowSource(WithSource(store, serial.context), source)
     IN /\ source \in Sources
        /\ store' = st
        /\ IF Serving(st, source) # {}
             THEN Apply("confirm_follow", Config(st, source, {}, FALSE), serial.context)
             ELSE Leave /\ UNCHANGED script
  /\ UNCHANGED <<moved, permitted, document, page, batches, reading, history>>

ConfirmFollow ==
  /\ serial.what = "confirm_follow" /\ Replied
  /\ store' = AcknowledgeSource(store, serial.source, Succeeded)
  /\ Leave
  /\ UNCHANGED <<moved, permitted, document, page, script, batches, reading, history>>

(* The maintenance task.  The leases that the page keeps are those of now. *)
Maintain ==
  /\ serial = Idle
  /\ LET st == Swept(store)
     IN /\ st # store \/ st.cleanup # {}
        /\ store' = [st EXCEPT !.cleanup = {}]
        /\ IF st.cleanup = {} THEN UNCHANGED <<serial, script>>
           ELSE \E source \in st.cleanup :
                  /\ script' = Append(script,
                       [what |-> "expire", source |-> source,
                        leases |-> Serving(st, source), drain |-> FALSE, awaited |-> TRUE])
                  /\ Hold([what |-> "cleaning", session |-> "none", source |-> source,
                           reply |-> "none"])
  /\ UNCHANGED <<moved, permitted, document, page, batches, reading, history>>

Cleaned ==
  /\ serial.what = "cleaning" /\ Replied /\ Leave
  /\ UNCHANGED <<store, moved, permitted, document, page, script, batches, reading, history>>

(* The host stops waiting; the script stays.                               *)
ApplyTimesOut ==
  /\ serial # Idle /\ "reply" \in DOMAIN serial /\ serial.reply = "none"
  /\ serial' = [serial EXCEPT !.reply = "failed"]
  /\ script' = [i \in DOMAIN script |-> [script[i] EXCEPT !.awaited = FALSE]]
  /\ page' = [page EXCEPT !.drain = FALSE]
  /\ UNCHANGED <<store, moved, permitted, document, batches, reading, history>>

(* 15 minutes after its end.                                               *)
Forgotten(s) ==
  /\ s \in Retained(store) /\ ~Capturing(store, s)
  /\ store' = RemoveSession(store, s)
  /\ UNCHANGED <<serial, moved, permitted, document, page, script, batches, reading, history>>

-----------------------------------------------------------------------------
(* The page                                                                *)

Numbers(q) == {q[i].number : i \in DOMAIN q}

(* Events of this document that never leave it.                            *)
Lost(numbers) == {[document |-> document, number |-> n] : n \in numbers}

Discarded(p) == [p EXCEPT !.dropped = @ + Len(p.queue), !.queue = <<>>]

Answering(reply) ==
  serial' = IF "reply" \in DOMAIN serial /\ serial.reply = "none"
              THEN [serial EXCEPT !.reply = reply] ELSE serial

(* Mutant: a batch in flight is not waited for.                            *)
DrainedQueue(p) == p.queue = <<>>

Drained(p) == p.queue = <<>> /\ ~p.inFlight

(* Whoever empties the queue or ends the flight notifies a drain.          *)
Becomes(p) ==
  IF p.drain /\ Drained(p)
    THEN page' = [p EXCEPT !.drain = FALSE] /\ Answering("drained")
    ELSE page' = p /\ UNCHANGED serial

(* record and enqueue; an event or a queue may be too large.               *)
Record(fits) ==
  /\ page.leases # {} /\ Cardinality(history.recorded) < MaxRecorded
  /\ LET n == page.number + 1
         item == [number |-> n, source |-> page.source, generation |-> page.generation]
         event == [document |-> document, number |-> n, source |-> page.source,
                   observers |-> page.leases]
     IN IF fits
          THEN /\ page' = [page EXCEPT !.number = n, !.queue = Append(@, item)]
               /\ history' = [history EXCEPT !.recorded = @ \cup {event}]
          ELSE /\ page' = [page EXCEPT !.number = n, !.dropped = @ + 1]
               /\ history' = [history EXCEPT !.recorded = @ \cup {event},
                                             !.lost = @ \cup Lost({n})]
  /\ UNCHANGED <<store, serial, moved, permitted, document, script, batches, reading>>

(* One batch of one source and generation.                                 *)
Flush ==
  /\ page.queue # <<>> /\ ~page.inFlight
  /\ LET first == Head(page.queue)
         Alike(i) == /\ page.queue[i].source = first.source
                     /\ page.queue[i].generation = first.generation
         count == Max({n \in DOMAIN page.queue : \A i \in 1..n : Alike(i)})
     IN /\ batches' = batches \cup
             {[document |-> document, source |-> first.source, dropped |-> page.dropped,
               numbers |-> [i \in 1..count |-> page.queue[i].number],
               generation |-> first.generation, answer |-> "none", again |-> FALSE]}
        /\ page' = [page EXCEPT !.queue = SubSeq(@, count + 1, Len(@)), !.inFlight = TRUE]
  /\ UNCHANGED <<store, serial, moved, permitted, document, script, reading, history>>

(* push_capture_events.  The transport may hand a batch over again.        *)
Ingest(b, again) ==
  /\ b \in batches /\ ~b.again /\ again = (b.answer # "none")
  /\ LET st == Swept(store)
         accepted == AcceptsSource(st, b.source)
         next == IF accepted THEN IngestBatch(st, b) ELSE st
     IN /\ store' = next
        /\ history' = [history EXCEPT !.stored = IF ~accepted THEN @ ELSE @ \cup
             UNION {ToSet(IngestSteps(st, b)[i].events) : i \in DOMAIN b.numbers}]
        /\ batches' = (batches \ {b}) \cup
             {[b EXCEPT !.answer = IF accepted THEN "continue" ELSE "end",
                        !.again = again]}
  /\ UNCHANGED <<serial, moved, permitted, document, page, script, reading>>

(* Mutant: an answer ends the lease whatever was configured since.         *)
EndsLeaseAnyway(b) == b.answer = "end"

EndsLease(b) ==
  b.answer = "end" /\ b.generation = page.generation /\ b.source = page.source

(* The page hears of its batch.                                            *)
AckBatch(b) ==
  /\ b \in batches /\ b.answer # "none" /\ b.document = document
  /\ batches' = batches \ {b}
  /\ LET landed == [page EXCEPT !.inFlight = FALSE]
     IN IF EndsLease(b)
          THEN /\ Becomes(Discarded([landed EXCEPT !.leases = {}, !.generation = @ + 1]))
               /\ history' = [history EXCEPT !.lost = @ \cup Lost(Numbers(page.queue))]
          ELSE Becomes(landed) /\ UNCHANGED history
  /\ UNCHANGED <<store, moved, permitted, document, script, reading>>

(* The call fails before it is handled: the payload limit, the transport.  *)
BatchRejected(b) ==
  /\ b \in batches /\ b.answer = "none" /\ b.document = document
  /\ batches' = batches \ {b}
  /\ Becomes([page EXCEPT !.inFlight = FALSE, !.dropped = @ + Len(b.numbers)])
  /\ history' = [history EXCEPT !.lost = @ \cup Lost(ToSet(b.numbers))]
  /\ UNCHANGED <<store, moved, permitted, document, script, reading>>

(* configure; an enabled hook is tried with a call of its own.             *)
Configure(tried) ==
  /\ script # <<>> /\ Head(script).what = "configure" /\ script' = Tail(script)
  /\ tried = "failed" => Head(script).awaited /\ ~Head(script).drain
  /\ LET m == Head(script)
         configured == [page EXCEPT !.leases = m.leases, !.source = m.source,
                                    !.generation = @ + 1]
     IN IF ~m.awaited THEN page' = configured /\ UNCHANGED serial
        ELSE IF m.drain
          THEN IF Drained(page) THEN page' = configured /\ Answering("drained")
               ELSE page' = [configured EXCEPT !.drain = TRUE] /\ UNCHANGED serial
          ELSE page' = configured /\ Answering(tried)
  /\ UNCHANGED <<store, moved, permitted, document, batches, reading, history>>

DrainTimesOut ==
  /\ page.drain /\ page' = [page EXCEPT !.drain = FALSE] /\ Answering("undrained")
  /\ UNCHANGED <<store, moved, permitted, document, script, batches, reading, history>>

Expired(p, leases) ==
  LET left == [p EXCEPT !.leases = leases,
                        !.generation = IF leases = p.leases THEN @ ELSE @ + 1]
  IN IF leases = {} THEN Discarded(left) ELSE left

Expiring(leases) ==
  history' = IF leases = {} THEN [history EXCEPT !.lost = @ \cup Lost(Numbers(page.queue))]
                               ELSE history

ExpireLeases ==
  /\ script # <<>> /\ Head(script).what = "expire" /\ script' = Tail(script)
  /\ LET m == Head(script)
         leases == IF m.source = page.source THEN page.leases \cap m.leases ELSE page.leases
         p == IF m.source = page.source THEN Expired(page, leases) ELSE page
     IN /\ page' = IF p.drain /\ Drained(p) THEN [p EXCEPT !.drain = FALSE] ELSE p
        /\ IF m.awaited THEN Answering("ok") ELSE UNCHANGED serial
        /\ IF m.source = page.source THEN Expiring(leases) ELSE UNCHANGED history
  /\ UNCHANGED <<store, moved, permitted, document, batches, reading>>

(* The page's own watchdog, which starts later than the host's clock.      *)
LeaseEnds(s) ==
  /\ s \in page.leases /\ (s \in Retained(store) => store.session[s].late)
  /\ Becomes(Expired(page, page.leases \ {s}))
  /\ Expiring(page.leases \ {s})
  /\ UNCHANGED <<store, moved, permitted, document, script, batches, reading>>

-----------------------------------------------------------------------------
(* The surroundings                                                        *)

(* A load starts: window_closed; it has finished: page_changed is spawned. *)
Navigate ==
  /\ document < MaxDocuments /\ document' = document + 1
  /\ store' = InterruptWindow(store)
  /\ page' = OffPage /\ script' = <<>>
  /\ UNCHANGED <<serial, moved, permitted, batches, reading, history>>

LoadFinished ==
  /\ document > 1 /\ ~moved /\ history.loaded < document
  /\ moved' = TRUE /\ history' = [history EXCEPT !.loaded = document]
  /\ UNCHANGED <<store, serial, permitted, document, page, script, batches, reading>>

SessionDeadline(s) ==
  /\ Capturing(store, s) /\ ~store.session[s].late
  /\ store' = [store EXCEPT !.session[s].late = TRUE]
  /\ UNCHANGED <<serial, moved, permitted, document, page, script, batches, reading, history>>

RevokeDomain ==
  /\ permitted /\ permitted' = FALSE
  /\ UNCHANGED <<store, serial, moved, document, page, script, batches, reading, history>>

(* Mutant: one event may be missing.                                       *)
GapBeyondOne(asked, oldest) == asked + 2 < oldest

Gap(asked, oldest) == asked + 1 < oldest

(* ipc_query with the cursor of the query before; limit 1.                 *)
Query(s) ==
  /\ permitted /\ s \in Queried \cap Retained(Swept(store))
  /\ LET st == Swept(store)
         me == st.session[s]
         asked == Max({reading[s].cursor, me.start - 1})
         first == IF st.events = <<>> THEN st.sequence + 1 ELSE Head(st.events).seq
         oldest == Max({first, me.start})
         mine == {e \in ToSet(st.events) :
                    /\ e.seq > asked /\ e.seq >= me.start
                    /\ Capturing(st, s) \/ e.seq <= me.end}
         next == {e \in mine : Observes(st, s, e.source)}
         given == {e \in next : \A f \in next : e.seq <= f.seq}
         passed == {e.seq : e \in {f \in mine : \A e \in given : f.seq <= e.seq}}
     IN /\ store' = st
        /\ reading' = [reading EXCEPT
             ![s] = [cursor |-> Max({asked, oldest - 1} \cup passed),
                     given |-> @.given \cup given,
                     gap |-> @.gap \/ Gap(asked, oldest)]]
  /\ UNCHANGED <<serial, moved, permitted, document, page, script, batches, history>>

-----------------------------------------------------------------------------
CaptureInit ==
  /\ store = [session |-> [s \in Session |-> NoSession],
              source |-> [id \in Sources |-> NoSource],
              events |-> <<>>, seen |-> {}, sequence |-> 0, drawn |-> 0, cleanup |-> {}]
  /\ serial = Idle /\ moved = FALSE /\ permitted = TRUE
  /\ document = 1 /\ page = OffPage /\ script = <<>> /\ batches = {}
  /\ reading = [s \in Session |-> [cursor |-> 0, given |-> {}, gap |-> FALSE]]
  /\ history = [recorded |-> {}, lost |-> {}, stored |-> {}, loaded |-> 1,
                begun |-> [s \in Session |-> FALSE]]
  /\ trouble = 0

(* A disturbance; MaxTrouble bounds how many there are.                    *)
Trouble ==
  /\ trouble < MaxTrouble /\ trouble' = trouble + 1
  /\ \/ \E s \in Session : StatusOf(s, FALSE) \/ SessionDeadline(s) \/ Forgotten(s)
     \/ \E b \in batches : Ingest(b, TRUE) \/ BatchRejected(b)
     \/ Record(FALSE) \/ Configure("failed") \/ DrainTimesOut \/ ApplyTimesOut
     \/ Navigate \/ RevokeDomain

CaptureNext ==
  \/ /\ UNCHANGED trouble
     /\ \/ \E s \in Session : StartCapture(s) \/ StopCapture(s) \/ StatusOf(s, TRUE)
                              \/ Query(s) \/ LeaseEnds(s)
        \/ BeginSession \/ ConfirmStart \/ RolledBack \/ SendStop \/ ConfirmStop
        \/ PageHasChanged \/ Follow \/ ConfirmFollow \/ Maintain \/ Cleaned
        \/ Record(TRUE) \/ Flush \/ Configure("ok") \/ ExpireLeases
        \/ \E b \in batches : Ingest(b, FALSE) \/ AckBatch(b)
        \/ LoadFinished
  \/ Trouble

CaptureSpec == CaptureInit /\ [][CaptureNext]_captureVars

-----------------------------------------------------------------------------
(* A session that was stopped cleanly and counts no drops has every event  *)
(* its page recorded for it and did not itself drop: none was left in the  *)
(* queue, in flight, refused after the stop or fell out of its range       *)
(* (src/plugin/src/capture/mod.rs, stop; page.js, drain).                  *)
StoppedIsComplete ==
  \A s \in Session :
    LET me == store.session[s]
    IN me.status = "stopped" /\ me.clean /\ me.dropped = 0 =>
         \A e \in history.recorded :
           s \in e.observers /\ [document |-> e.document, number |-> e.number] \notin history.lost
             => \E i \in DOMAIN store.events :
                  LET k == store.events[i]
                  IN /\ k.source = e.source /\ k.number = e.number
                     /\ k.seq \in me.start..me.end

(* A reader that follows its cursor gets every event stored for its        *)
(* session, in its range, once and none that another session alone         *)
(* observed, or is told of a gap; and each event is stored once, whatever  *)
(* is sent again (src/plugin/src/capture/store.rs, query and ingest).      *)
GivenOrGap ==
  \A s \in Session :
    LET me == store.session[s]
    IN s \in Retained(store) /\ ~reading[s].gap =>
         \A k \in history.stored :
           /\ Observes(store, s, k.source) /\ k.seq \in me.start..reading[s].cursor
           /\ Capturing(store, s) \/ k.seq <= me.end
           => k \in reading[s].given

StoredOnce ==
  \A k, l \in history.stored :
    k.source = l.source /\ k.number = l.number => k = l

ReaderMissesNothing == GivenOrGap /\ StoredOnce

(* No event is lost untold: neither between the page and the store of a    *)
(* session that stopped cleanly, nor between the store and a reader        *)
(* (src/plugin/src/capture/mod.rs, stop; store.rs, query).                 *)
NoEventLostUntold == StoppedIsComplete /\ ReaderMissesNothing

(* The page gives a session's lease up only when the session is over or    *)
(* has lost its document, or for its own stop: not for answers to batches  *)
(* of before, the cleanup of what expired, nor another session's start or  *)
(* rollback.  The last cause is the fault that StopChangesOnlyItself shows *)
(* (src/plugin/src/capture/page.js, done, expireLeases and configure).     *)
LeaseLostForCause ==
  [][\A s \in page.leases \ page'.leases :
       \/ document' # document
       \/ ~Capturing(store, s) \/ store.session[s].late
       \/ store.source[Current(store, s)].interrupted \/ Current(store, s) # page.source
       \/ serial.what = "confirm_stop" /\ serial.session = s
       \/ script # script' /\ store.source[Head(script).source].interrupted]_captureVars

(* docs/inspection-design.md: "`stop` changes only that session."          *)
StopChangesOnlyItself ==
  [][\A s \in page.leases \ page'.leases :
       serial.what = "confirm_stop" /\ script # script' =>
         \/ s = serial.session \/ document' # document
         \/ ~Capturing(store, s) \/ store.session[s].late
         \/ store.source[Current(store, s)].interrupted]_captureVars
=============================================================================
