------------------------------ MODULE Bridge ------------------------------
(***************************************************************************)
(* The bridge of plugin/src/bridge.rs between the application and the page *)
(* of one window, with the window's identity (plugin/src/identity.rs).     *)
(* Every document that loads gets a fresh key and connects by WebSocket; a *)
(* hello with the current key makes its socket the window's client.  A     *)
(* request is sent over that socket or, when there is none, by evaluating  *)
(* a script natively; a page that is not ready refuses it and it is tried  *)
(* again under the same id.  After a timeout the bridge keeps listening.   *)
(*                                                                         *)
(* The clients lock is held over each registration, removal and enqueue,   *)
(* so each is one step.  A connection task ends in three: it leaves its    *)
(* loop, removes its client, rejects its pending requests.  A document     *)
(* answers on the socket it has when the script ends.                      *)
(***************************************************************************)
EXTENDS Naturals, FiniteSets

CONSTANTS
  Conn,      \* connections, by conn_id
  Request,   \* requests, each with an id of its own
  MaxKeys,   \* bound on the bridge keys drawn
  MaxPins,   \* bound on the pins held
  None       \* no connection

ASSUME BridgeAssumption == MaxKeys \in Nat \ {0} /\ MaxPins \in Nat /\ None \notin Conn

VARIABLES
  key,         \* the window's bridge_key, 0 when it is not in WINDOWS
  drawn,       \* how many keys have been drawn
  alive,       \* the window has a page
  pageKey,     \* BRIDGE_KEY of the document, 0 before the bridge is injected
  ws,          \* the document's socket
  init,        \* the key in an init script on its way to the page, 0 if none
  inbox,       \* messages of the page each connection task has not read
  commands,    \* requests sent on the document's socket and not yet started
  evals,       \* requests injected natively and not yet started
  running,     \* scripts running in the document, by the way they came
  task,        \* where each connection task is
  client,      \* the connection registered for the window, and its key
  registry,    \* the ConnectionState that mirrors it
  destroying,  \* remove_destroyed_window is under way
  pins,        \* pins taken and held
  pc,          \* where the caller of execute_page_script is
  pending,     \* the connection each pending entry waits for
  value,       \* what has come through the request's oneshot channel
  watch,       \* requests with a late settlement task
  answer,      \* what the caller was told
  settled,     \* what the late hook was told
  runs         \* history: how often the body of each script started

identity == <<key, drawn>>
page == <<alive, pageKey, ws, init, commands, evals, running>>
server == <<task, inbox, client, registry, destroying>>
calls == <<pc, pending, value, watch, answer, settled>>
vars == <<identity, page, server, pins, calls, runs>>

-----------------------------------------------------------------------------
(* Types                                                                   *)

BridgeKey == 0..MaxKeys
Message == [key: BridgeKey] \cup [request: Request, value: {"done", "not_run"}]
ConnectionState == [key: BridgeKey, conn: Conn \cup {None}, revision: Nat]
Pin == [key: BridgeKey, connection: ConnectionState, conn: Conn \cup {None}]

NoClient == [conn |-> None, key |-> 0]
NoEntry == [key |-> 0, conn |-> None, revision |-> 0]

PC == {"new", "trying", "probing", "fallback", "on_socket", "on_event",
       "expired", "over", "dropped"}

TypeOK ==
  /\ key \in BridgeKey /\ drawn \in BridgeKey
  /\ alive \in BOOLEAN
  /\ pageKey \in BridgeKey /\ init \in BridgeKey
  /\ ws \in Conn \cup {None}
  /\ commands \subseteq Request /\ evals \subseteq Request
  /\ running \subseteq Request \X {"socket", "event"}
  /\ task \in [Conn -> {"unused", "open", "left", "removed", "gone"}]
  /\ inbox \in [Conn -> SUBSET Message]
  /\ client \in [conn: Conn \cup {None}, key: BridgeKey]
  /\ registry \in ConnectionState
  /\ destroying \in BOOLEAN
  /\ pins \subseteq Pin
  /\ pc \in [Request -> PC]
  /\ pending \in [Request -> Conn \cup {None}]
  /\ value \in [Request -> {"none", "done", "not_run", "lost"}]
  /\ watch \subseteq Request
  /\ answer \in [Request -> {"none", "done", "not_dispatched", "unknown"}]
  /\ settled \in [Request -> {"none", "known", "lost"}]
  /\ runs \in [Request -> Nat]

-----------------------------------------------------------------------------
(* Identity and connections                                                *)

Verify(k) == k # 0 /\ k = key

(* bridge_key: the window's key, drawn when the label has none.            *)
Ensured == IF key = 0 THEN drawn + 1 ELSE key
EnsureKey ==
  /\ Ensured <= MaxKeys
  /\ key' = Ensured
  /\ drawn' = IF key = 0 THEN Ensured ELSE drawn

(* Mutant of SetConnection: the revision counts connections only, and the  *)
(* state before one and after it is the same.                              *)
SetConnectionUncounted(state, c) == [state EXCEPT !.conn = c]

SetConnection(state, c) ==
  IF state.conn = c THEN state
  ELSE [state EXCEPT !.conn = c, !.revision = @ + 1]

(* tx.is_closed: the task has ended and dropped its receiver.              *)
Closed(c) == c # None /\ task[c] = "gone"

Current(pin) ==
  /\ ~Closed(pin.conn)
  /\ Verify(pin.key)
  /\ registry = pin.connection

(* pin_connection: the client's key, or the window's, which begins a new   *)
(* entry when the old one is of another key.                               *)
TakePin ==
  LET k     == IF client = NoClient THEN Ensured ELSE client.key
      entry == IF registry.key = k THEN registry
               ELSE [key |-> k, conn |-> client.conn, revision |-> 0]
      pin   == [key |-> k, connection |-> entry, conn |-> client.conn]
  IN  /\ Cardinality(pins) < MaxPins
      /\ IF client = NoClient THEN EnsureKey ELSE UNCHANGED identity
      /\ registry' = entry
      /\ pins' = pins \cup {pin}
      /\ UNCHANGED <<page, task, inbox, client, destroying, calls, runs>>

DropPin(pin) ==
  /\ pins' = pins \ {pin}
  /\ UNCHANGED <<identity, page, server, calls, runs>>

-----------------------------------------------------------------------------
(* Windows and documents (lib.rs)                                          *)

NoDocument ==
  /\ pageKey' = 0
  /\ ws' = None
  /\ commands' = {}
  /\ running' = {}

(* on_webview_ready.                                                       *)
WebviewReady ==
  /\ ~alive
  /\ EnsureKey
  /\ alive' = TRUE
  /\ UNCHANGED <<pageKey, ws, init, commands, evals, running, server, pins, calls, runs>>

(* on_page_load, Started: the key is rotated, the old document ends.  What *)
(* was injected natively may still run, in the new one.                    *)
Navigate ==
  /\ alive /\ key # 0 /\ drawn < MaxKeys
  /\ key' = drawn + 1 /\ drawn' = drawn + 1
  /\ NoDocument
  /\ \E kept \in SUBSET evals : evals' = kept
  /\ UNCHANGED <<alive, init, server, pins, calls, runs>>

(* RunEvent::WindowEvent Destroyed; the cleanup of the bridge is a task.   *)
Destroyed ==
  /\ alive
  /\ alive' = FALSE
  /\ key' = 0
  /\ NoDocument
  /\ init' = 0 /\ evals' = {}
  /\ destroying' = TRUE
  /\ UNCHANGED <<drawn, task, inbox, client, registry, pins, calls, runs>>

(* Mutant of RemoveDestroyedWindow: whatever has the label is removed.     *)
RemoveWhateverIsThere ==
  /\ destroying
  /\ destroying' = FALSE
  /\ client' = NoClient /\ registry' = NoEntry
  /\ UNCHANGED <<identity, page, task, inbox, pins, calls, runs>>

RemoveDestroyedWindow ==
  /\ destroying
  /\ destroying' = FALSE
  /\ IF registry # NoEntry /\ ~Verify(registry.key)
     THEN client' = NoClient /\ registry' = NoEntry
     ELSE UNCHANGED <<client, registry>>
  /\ UNCHANGED <<identity, page, task, inbox, pins, calls, runs>>

(* webview.eval of the init script, made with the key of that moment.      *)
InjectBridge ==
  /\ alive /\ init = 0
  /\ EnsureKey
  /\ init' = key'
  /\ UNCHANGED <<alive, pageKey, ws, commands, evals, running, server, pins, calls, runs>>

Say(c, message) == inbox' = [inbox EXCEPT ![c] = @ \cup {message}]

(* The init script in the document: the first takes effect, and a later    *)
(* one rebinds the document to its key.                                    *)
RunInit ==
  /\ alive /\ init # 0
  /\ pageKey' = init
  /\ init' = 0
  /\ IF ws # None THEN Say(ws, [key |-> init]) ELSE UNCHANGED inbox
  /\ UNCHANGED <<identity, alive, ws, commands, evals, running,
                 task, client, registry, destroying, pins, calls, runs>>

(* connect, then hello once the socket is open.                            *)
Connect(c) ==
  /\ alive /\ pageKey # 0 /\ ws = None
  /\ task[c] = "unused"
  /\ ws' = c
  /\ task' = [task EXCEPT ![c] = "open"]
  /\ Say(c, [key |-> pageKey])
  /\ UNCHANGED <<identity, alive, pageKey, init, commands, evals, running,
                 client, registry, destroying, pins, calls, runs>>

(* The socket breaks under the document, which will reconnect.             *)
SocketLost ==
  /\ ws # None
  /\ ws' = None /\ commands' = {}
  /\ UNCHANGED <<identity, alive, pageKey, init, evals, running, server, pins,
                 calls, runs>>

-----------------------------------------------------------------------------
(* The connection tasks                                                    *)

Read(c, message) == inbox' = [inbox EXCEPT ![c] = @ \ {message}]

Hello(c, k) ==
  /\ task[c] = "open" /\ [key |-> k] \in inbox[c]
  /\ Read(c, [key |-> k])
  /\ IF Verify(k)
     THEN /\ client' = [conn |-> c, key |-> k]
          /\ registry' = SetConnection([registry EXCEPT !.key = k], c)
     ELSE UNCHANGED <<client, registry>>
  /\ UNCHANGED <<identity, page, task, destroying, pins, calls, runs>>

(* A result resolves the pending entry of its own connection, if any.      *)
Result(c, message) ==
  /\ task[c] = "open" /\ message \in inbox[c] /\ "request" \in DOMAIN message
  /\ Read(c, message)
  /\ LET q == message.request IN
     IF pending[q] = c
     THEN /\ value' = [value EXCEPT ![q] = message.value]
          /\ pending' = [pending EXCEPT ![q] = None]
     ELSE UNCHANGED <<value, pending>>
  /\ UNCHANGED <<identity, page, task, client, registry, destroying, pins, pc,
                 watch, answer, settled, runs>>

(* The task leaves its loop: the page closed the socket, or it failed.     *)
LeaveLoop(c) ==
  /\ task[c] = "open"
  /\ task' = [task EXCEPT ![c] = "left"]
  /\ inbox' = [inbox EXCEPT ![c] = {}]
  /\ IF ws = c THEN ws' = None /\ commands' = {} ELSE UNCHANGED <<ws, commands>>
  /\ UNCHANGED <<identity, alive, pageKey, init, evals, running, client,
                 registry, destroying, pins, calls, runs>>

(* Mutant of Disconnect: the mirror forgets a connection that is not its.  *)
DisconnectMirrorOfAnother(c) ==
  /\ task[c] = "left"
  /\ task' = [task EXCEPT ![c] = "removed"]
  /\ client' = IF client.conn = c THEN NoClient ELSE client
  /\ registry' = SetConnection(registry, None)
  /\ UNCHANGED <<identity, page, inbox, destroying, pins, calls, runs>>

(* disconnect_bridge_client: only its own registration.                    *)
Disconnect(c) ==
  /\ task[c] = "left"
  /\ task' = [task EXCEPT ![c] = "removed"]
  /\ IF client.conn = c
     THEN client' = NoClient /\ registry' = SetConnection(registry, None)
     ELSE UNCHANGED <<client, registry>>
  /\ UNCHANGED <<identity, page, inbox, destroying, pins, calls, runs>>

(* reject_connection_pending.                                              *)
Reject(c) ==
  /\ value' = [q \in Request |-> IF pending[q] = c THEN "lost" ELSE value[q]]
  /\ pending' = [q \in Request |-> IF pending[q] = c THEN None ELSE pending[q]]

(* Mutant of RejectPending: before the client is removed, not after.       *)
RejectEarly(c) ==
  /\ \/ task[c] = "left" /\ Reject(c) /\ UNCHANGED task
     \/ task[c] = "removed" /\ task' = [task EXCEPT ![c] = "gone"]
        /\ UNCHANGED <<value, pending>>
  /\ UNCHANGED <<identity, page, inbox, client, registry, destroying, pins, pc,
                 watch, answer, settled, runs>>

(* The guard of the task, dropped when everything else is done.            *)
RejectPending(c) ==
  /\ task[c] = "removed"
  /\ Reject(c)
  /\ task' = [task EXCEPT ![c] = "gone"]
  /\ UNCHANGED <<identity, page, inbox, client, registry, destroying, pins, pc,
                 watch, answer, settled, runs>>

-----------------------------------------------------------------------------
(* execute_page_script                                                     *)

At(q, from, to) ==
  /\ pc[q] \in from
  /\ pc' = [pc EXCEPT ![q] = to]

Tell(q, what) == answer' = [answer EXCEPT ![q] = what]

Call(q) ==
  /\ At(q, {"new"}, "trying")
  /\ UNCHANGED <<identity, page, server, pins, pending, value, watch, answer,
                 settled, runs>>

Reachable == client # NoClient /\ Verify(client.key)

(* execute_js_ws: registered and enqueued under the clients lock.  A       *)
(* command for a socket the document no longer has goes nowhere.           *)
SendOnSocket(q) ==
  /\ Reachable
  /\ At(q, {"trying"}, "on_socket")
  /\ pending' = [pending EXCEPT ![q] = client.conn]
  /\ commands' = IF ws = client.conn THEN commands \cup {q} ELSE commands
  /\ UNCHANGED <<identity, alive, pageKey, ws, init, evals, running, server,
                 pins, value, watch, answer, settled, runs>>

(* No client, or one of a previous document: nothing was sent.             *)
NoSocket(q) ==
  /\ ~Reachable
  /\ At(q, {"trying"}, "probing")
  /\ UNCHANGED <<identity, page, server, pins, pending, value, watch, answer,
                 settled, runs>>

(* eval_channel_answers: whether a harmless script comes back.             *)
Probe(q, answers) ==
  /\ answers => alive
  /\ At(q, {"probing"}, IF answers THEN "fallback" ELSE "trying")
  /\ UNCHANGED <<identity, page, server, pins, pending, value, watch, answer,
                 settled, runs>>

(* enqueue_eval: injected, or an error of a webview that may hold it.      *)
SendByEval(q, ok) ==
  /\ alive
  /\ At(q, {"fallback"}, IF ok THEN "on_event" ELSE "over")
  /\ evals' = evals \cup {q}
  /\ IF ok THEN UNCHANGED answer ELSE Tell(q, "unknown")
  /\ UNCHANGED <<identity, alive, pageKey, ws, init, commands, running, server,
                 pins, pending, value, watch, settled, runs>>

(* The deadline between two attempts (ensure_budget, unready), or a window *)
(* or a desktop that takes no script: nothing of this request is in the    *)
(* page.                                                                   *)
GiveUp(q) ==
  /\ At(q, {"trying", "probing", "fallback"}, "over")
  /\ Tell(q, "not_dispatched")
  /\ UNCHANGED <<identity, page, server, pins, pending, value, watch, settled, runs>>

(* Mutant of Answered: a request that lost its connection is tried again.  *)
AnsweredOrRetried(q) ==
  /\ value[q] # "none"
  /\ At(q, {"on_socket", "on_event"},
        IF value[q] \in {"not_run", "lost"} THEN "trying" ELSE "over")
  /\ value' = [value EXCEPT ![q] = "none"]
  /\ IF value[q] = "done" THEN Tell(q, "done") ELSE UNCHANGED answer
  /\ UNCHANGED <<identity, page, server, pins, pending, watch, settled, runs>>

(* Mutant of Answered: the page's refusal is told as its result.           *)
AnsweredVerbatim(q) ==
  /\ value[q] # "none"
  /\ At(q, {"on_socket", "on_event"}, "over")
  /\ value' = [value EXCEPT ![q] = "none"]
  /\ Tell(q, IF value[q] = "lost" THEN "unknown" ELSE value[q])
  /\ UNCHANGED <<identity, page, server, pins, pending, watch, settled, runs>>

(* Mutant of Answered: a request that lost its connection was not sent.    *)
AnsweredNotSent(q) ==
  /\ value[q] # "none"
  /\ At(q, {"on_socket", "on_event"}, IF value[q] = "not_run" THEN "trying" ELSE "over")
  /\ value' = [value EXCEPT ![q] = "none"]
  /\ CASE value[q] = "done" -> Tell(q, "done")
       [] value[q] = "lost" -> Tell(q, "not_dispatched")
       [] OTHER -> UNCHANGED answer
  /\ UNCHANGED <<identity, page, server, pins, pending, watch, settled, runs>>

(* The result, or the loss of the connection; a page that was not ready is *)
(* tried again under the same id.                                          *)
Answered(q) ==
  /\ value[q] # "none"
  /\ At(q, {"on_socket", "on_event"}, IF value[q] = "not_run" THEN "trying" ELSE "over")
  /\ value' = [value EXCEPT ![q] = "none"]
  /\ CASE value[q] = "done" -> Tell(q, "done")
       [] value[q] = "lost" -> Tell(q, "unknown")
       [] OTHER -> UNCHANGED answer
  /\ UNCHANGED <<identity, page, server, pins, pending, watch, settled, runs>>

(* Mutant of TimeOut: the event of an evaluated script has no deadline.    *)
TimeOutOnSocket(q) ==
  /\ value[q] = "none"
  /\ At(q, {"on_socket"}, "expired")
  /\ UNCHANGED <<identity, page, server, pins, pending, value, watch, answer,
                 settled, runs>>

TimeOut(q) ==
  /\ value[q] = "none"
  /\ At(q, {"on_socket", "on_event"}, "expired")
  /\ UNCHANGED <<identity, page, server, pins, pending, value, watch, answer,
                 settled, runs>>

(* watch_late_settlement takes the channel over, with what may have come.  *)
WatchLate(q) ==
  /\ At(q, {"expired"}, "over")
  /\ Tell(q, "unknown")
  /\ watch' = watch \cup {q}
  /\ UNCHANGED <<identity, page, server, pins, pending, value, settled, runs>>

(* Mutant of Settle: there is no end to LATE_SETTLEMENT_WINDOW.            *)
SettleWhenItComes(q) ==
  /\ q \in watch /\ value[q] # "none"
  /\ watch' = watch \ {q}
  /\ pending' = [pending EXCEPT ![q] = None]
  /\ settled' = [settled EXCEPT ![q] =
                   IF value[q] \in {"done", "not_run"} THEN "known" ELSE "lost"]
  /\ UNCHANGED <<identity, page, server, pins, pc, value, answer, runs>>

(* The late result, or the end of LATE_SETTLEMENT_WINDOW.                  *)
Settle(q) ==
  /\ q \in watch
  /\ watch' = watch \ {q}
  /\ pending' = [pending EXCEPT ![q] = None]
  /\ settled' = [settled EXCEPT ![q] =
                   IF value[q] \in {"done", "not_run"} THEN "known" ELSE "lost"]
  /\ UNCHANGED <<identity, page, server, pins, pc, value, answer, runs>>

(* The caller's future is dropped; its guard takes the entry away.         *)
Abandon(q) ==
  /\ At(q, {"trying", "probing", "fallback", "on_socket", "on_event"}, "dropped")
  /\ pending' = [pending EXCEPT ![q] = None]
  /\ UNCHANGED <<identity, page, server, pins, value, watch, answer, settled, runs>>

-----------------------------------------------------------------------------
(* The document                                                            *)

(* Whoever listens for the event of an evaluated script.                   *)
Listening(q) == (pc[q] \in {"on_event", "expired"} \/ q \in watch) /\ value[q] = "none"

(* sendResult uses the socket the document has now, if any; the event goes *)
(* to its listener.                                                        *)
Reply(q, way, what) ==
  IF way = "event"
  THEN /\ value' = IF Listening(q) THEN [value EXCEPT ![q] = what] ELSE value
       /\ UNCHANGED inbox
  ELSE /\ IF ws = None THEN UNCHANGED inbox
          ELSE Say(ws, [request |-> q, value |-> what])
       /\ UNCHANGED value

(* A script leaves the socket or the queue of evaluations.                 *)
Begin(q, way) ==
  IF way = "socket"
  THEN q \in commands /\ commands' = commands \ {q} /\ UNCHANGED evals
  ELSE alive /\ q \in evals /\ evals' = evals \ {q} /\ UNCHANGED commands

(* page_gate throws before the script starts.                              *)
Refuse(q, way) ==
  /\ Begin(q, way)
  /\ Reply(q, way, "not_run")
  /\ UNCHANGED <<identity, alive, pageKey, ws, init, running, task, client, registry,
                 destroying, pins, pc, pending, watch, answer, settled, runs>>

Run(q, way) ==
  /\ Begin(q, way)
  /\ running' = running \cup {<<q, way>>}
  /\ runs' = [runs EXCEPT ![q] = @ + 1]
  /\ UNCHANGED <<identity, alive, pageKey, ws, init, server, pins, calls>>

Finish(q, way) ==
  /\ <<q, way>> \in running
  /\ running' = running \ {<<q, way>>}
  /\ Reply(q, way, "done")
  /\ UNCHANGED <<identity, alive, pageKey, ws, init, commands, evals, task, client,
                 registry, destroying, pins, pc, pending, watch, answer, settled, runs>>

-----------------------------------------------------------------------------
Init ==
  /\ key = 1 /\ drawn = 1
  /\ alive = TRUE /\ pageKey = 0 /\ ws = None /\ init = 0
  /\ commands = {} /\ evals = {} /\ running = {}
  /\ task = [c \in Conn |-> "unused"]
  /\ inbox = [c \in Conn |-> {}]
  /\ client = NoClient /\ registry = NoEntry /\ destroying = FALSE
  /\ pins = {}
  /\ pc = [q \in Request |-> "new"]
  /\ pending = [q \in Request |-> None]
  /\ value = [q \in Request |-> "none"]
  /\ watch = {}
  /\ answer = [q \in Request |-> "none"]
  /\ settled = [q \in Request |-> "none"]
  /\ runs = [q \in Request |-> 0]

Window == WebviewReady \/ Navigate \/ Destroyed \/ InjectBridge \/ RunInit

Connection(c) ==
  \/ \E k \in 1..MaxKeys : Hello(c, k)
  \/ \E message \in inbox[c] : Result(c, message)
  \/ LeaveLoop(c)
  \/ Disconnect(c)
  \/ RejectPending(c)

Caller(q) ==
  \/ Call(q)
  \/ SendOnSocket(q)
  \/ NoSocket(q)
  \/ \E b \in BOOLEAN : Probe(q, b) \/ SendByEval(q, b)
  \/ GiveUp(q)
  \/ Answered(q)
  \/ TimeOut(q)
  \/ WatchLate(q)
  \/ Settle(q)

Script(q, way) == Refuse(q, way) \/ Run(q, way) \/ Finish(q, way)

(* What happens whether or not anybody holds a pin.                        *)
Traffic ==
  \/ Window
  \/ RemoveDestroyedWindow
  \/ SocketLost
  \/ \E c \in Conn : Connect(c) \/ Connection(c)
  \/ \E q \in Request :
       \/ Caller(q)
       \/ Abandon(q)
       \/ \E way \in {"socket", "event"} : Script(q, way)

Next == Traffic \/ TakePin \/ \E pin \in pins : DropPin(pin)

Spec == Init /\ [][Next]_vars

(* The runtime polls callers and late watches, and timers fire.  The       *)
(* deadline is absolute: a page that refuses again and again does not      *)
(* postpone it.                                                            *)
Fairness ==
  \A q \in Request :
    /\ WF_vars(SendOnSocket(q) \/ NoSocket(q) \/ Answered(q) \/ WatchLate(q))
    /\ WF_vars(Settle(q))
    /\ SF_vars(GiveUp(q) \/ TimeOut(q))

FairSpec == Spec /\ Fairness

-----------------------------------------------------------------------------
(* Properties                                                              *)

(* However often a request is tried, over the socket and by evaluation,    *)
(* refused, timed out or disconnected, its script starts at most once      *)
(* (execute_page_script).                                                  *)
AtMostOnce == \A q \in Request : runs[q] <= 1

(* A script is on its way to the page, or in it.                           *)
InPage(q) == q \in commands \cup evals \/ \E way \in {"socket", "event"} : <<q, way>> \in running

(* What is told is true: `not dispatched' of a request that never ran and  *)
(* never will; a result, told to the caller or late to the arbiter, only   *)
(* when the script is over.  A quarantine lifted by it hides nothing.      *)
AnswersAreTrue ==
  \A q \in Request :
    /\ answer[q] = "not_dispatched" => runs[q] = 0 /\ ~InPage(q)
    /\ answer[q] = "done" \/ settled[q] = "known" => ~InPage(q)

(* No request is left behind: whatever a pending entry waits for can still *)
(* answer it or reject it (disconnect_bridge_client and the guard of the   *)
(* connection task, against an enqueue in between).                        *)
NothingStranded ==
  \A q \in Request : pending[q] # None => task[pending[q]] # "gone"

(* The registry that authorisations read without the clients lock says     *)
(* what the clients say.                                                   *)
MirrorAgrees ==
  client # NoClient =>
    registry.conn = client.conn /\ registry.key = client.key

(* A pin that is no longer current never becomes current again, whatever   *)
(* reconnects: reloads, hellos, destruction and recreation of the window.  *)
PinStaysStale == [][\A pin \in pins : ~Current(pin) => ~Current(pin)']_vars

(* A registered connection makes way for one that greets with the current  *)
(* key, or because its own task ends or the window was destroyed; the late *)
(* end of another connection, or cleanup, does not remove it.              *)
ClientLeavesForCause ==
  [][client # NoClient /\ client'.conn # client.conn =>
       \/ client' # NoClient /\ Verify(client'.key)
       \/ task[client.conn] = "left"
       \/ ~Verify(client.key)]_vars

(* Every call ends, whatever the page does.                                *)
EveryCallEnds ==
  \A q \in Request : pc[q] = "trying" ~> pc[q] \in {"over", "dropped"}

(* Every request that timed out is settled, at the latest as lost, and     *)
(* leaves nothing in the pending map.                                      *)
TimedOutIsSettled ==
  \A q \in Request : q \in watch ~> settled[q] # "none" /\ pending[q] = None

=============================================================================
