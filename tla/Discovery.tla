----------------------------- MODULE Discovery -----------------------------
(***************************************************************************)
(* How a client finds the application it is meant for among those that     *)
(* Startup starts and ends (src/crates/client/src/discovery.rs), connects  *)
(* to it, and sends it calls (src/crates/client/src/lib.rs).  The client   *)
(* is the command line, which makes one call, or the standalone MCP server *)
(* (src/crates/mcp-server/src/main.rs), which connects again on demand; a  *)
(* call holds the lock that a reconnection needs, so calls are in turn.    *)
(*                                                                         *)
(* Left out: explicit hosts and ports, constraints by instance and by      *)
(* project, which restrict the candidates as the application id does, and  *)
(* the records of the app data directory, which add ports to the scan.  A  *)
(* process that wants a token and one whose plugin predates identities     *)
(* both refuse to say who they are.                                        *)
(***************************************************************************)
EXTENDS Startup

CONSTANTS
  Client,      \* clients
  Near,        \* the directories near each client's working directory
  Workspace,   \* the applications whose workspace contains it
  Foreign,     \* those known to belong to another project than it
  Wants,       \* the application id that it insists on, or AnyApp
  AnyApp,      \* no constraint
  OptIn,       \* clients that may attach to any application
  Refusing,    \* processes that do not tell a client their identity
  NoProc,      \* no process
  MaxCalls     \* bound: calls of a client

ASSUME DiscoveryConstants ==
  /\ NoProc \notin Proc
  /\ MaxCalls \in Nat
  /\ Near \in [Client -> SUBSET Dirs]

VARIABLES
  clients,   \* what each client is doing, and what its ConnectorClient holds
  finds,     \* what its resolve_connection has found so far
  messages   \* its calls: where each is, who got it, what the caller was told

discoveryVars == <<startupVars, clients, finds, messages>>

(* An application that was found: the process that answered at a port.     *)
NoFinds ==
  [records |-> {}, hints |-> {}, probed |-> {}, stale |-> {}, candidates |-> {},
   nearby |-> {}, others |-> {}, refused |-> FALSE]

ClientAt(c, at) == clients' = [clients EXCEPT ![c].at = at]
Found(c, f) == finds' = [finds EXCEPT ![c] = f]

(* The call that a client is at.                                           *)
TheCall(c) == messages[c][clients[c].call]
TellClient(c, word) == messages' = [messages EXCEPT ![c][clients[c].call].told = word]

Constrained(c) == Wants[c] # AnyApp
Wanted(c, p) == Wants[c] \in {AnyApp, App[p]}

-----------------------------------------------------------------------------
(* resolve_connection                                                      *)

(* discover_instances: the files are read one right after the other.       *)
ReadRecords(c) ==
  /\ clients[c].at = "reading" /\ ClientAt(c, "probing")
  /\ LET read == {pidFile[d] : d \in Near[c]} \ {NoRecord}
         kept == {r \in read : Wanted(c, r.proc)}
     IN Found(c, [NoFinds EXCEPT !.records = kept, !.hints = kept])
  /\ UNCHANGED <<startupVars, messages>>

(* Mutant: a process with the recorded id is taken for the recorded one.   *)
ProvesPidOnly(p, hint) == proc[p].pid = hint.pid

(* validate_identity against the record: the pid, the start and the ids.   *)
Proves(p, hint) == p = hint.proc

HintAnswered(c, f, p, hint) ==
  LET found == [proc |-> p, port |-> hint.port] IN
  IF p \in Refusing THEN [f EXCEPT !.refused = TRUE]
  ELSE IF ~Wanted(c, p) THEN f
  ELSE IF ~Proves(p, hint) THEN [f EXCEPT !.stale = @ \cup {App[hint.proc]}]
  ELSE IF Constrained(c) \/ App[p] \in Workspace[c]
    THEN [f EXCEPT !.candidates = @ \cup {found}]
    ELSE [f EXCEPT !.nearby = @ \cup {found}]

(* The record of a dead process or of a failed start is stale, and so is   *)
(* one whose endpoint does not answer in time, or answers as another.      *)
ProbeHint(c) ==
  /\ clients[c].at = "probing"
  /\ \E hint \in finds[c].hints :
       LET f == [finds[c] EXCEPT !.hints = @ \ {hint}]
           stale == [f EXCEPT !.stale = @ \cup {App[hint.proc]}]
           tried(g) == [g EXCEPT !.probed = @ \cup {hint.port}]
       IN IF ~PidIsAlive(hint.pid) \/ hint.failed THEN Found(c, stale)
          ELSE IF hint.port \in f.probed THEN Found(c, f)
          ELSE \/ Found(c, tried(stale))
               \/ \E p \in Serving(hint.port) : Found(c, tried(HintAnswered(c, f, p, hint)))
  /\ UNCHANGED <<startupVars, clients, messages>>

(* The scan of the other ports, each at its own moment.                    *)
ScanPort(c) ==
  /\ clients[c].at = "probing" /\ finds[c].hints = {}
  /\ \E port \in Port \ finds[c].probed :
       LET f == [finds[c] EXCEPT !.probed = @ \cup {port}] IN
       \/ Found(c, f)
       \/ \E p \in Serving(port) \ Refusing :
            LET found == [proc |-> p, port |-> port] IN
            /\ Wanted(c, p)
            /\ IF Constrained(c) \/ App[p] \in Workspace[c]
                 THEN Found(c, [f EXCEPT !.candidates = @ \cup {found}])
                 ELSE Found(c, [f EXCEPT !.others = @ \cup {found}])
  /\ UNCHANGED <<startupVars, clients, messages>>

(* stale_record_gate and project_gate on what only the scan found.         *)
Fallback(c, f) ==
  IF Constrained(c) THEN {}
  ELSE IF c \in OptIn THEN f.others
  ELSE IF f.stale # {} /\ ~f.refused THEN {o \in f.others : App[o.proc] \in f.stale}
  ELSE IF Cardinality(f.others) = 1 THEN {o \in f.others : App[o.proc] \notin Foreign[c]}
  ELSE f.others

Choices(c, f) ==
  IF f.candidates # {} THEN f.candidates
  ELSE IF f.nearby # {} THEN f.nearby ELSE Fallback(c, f)

(* select_unique; the instance is then pinned for the life of the client.  *)
Resolve(c) ==
  /\ clients[c].at = "probing" /\ finds[c].hints = {} /\ finds[c].probed = Port
  /\ LET choices == Choices(c, finds[c])
         pinnable(r) == clients[c].pin \in {NoProc, r.proc}
     IN \/ \E r \in choices :
             /\ choices = {r}
             /\ clients' = [clients EXCEPT ![c].at = IF pinnable(r) THEN "connecting" ELSE "idle",
                                         ![c].pin = IF pinnable(r) THEN r.proc ELSE @,
                                         ![c].target = IF pinnable(r) THEN r.port ELSE @]
             /\ IF pinnable(r) THEN UNCHANGED messages
                ELSE TellClient(c, IF App[r.proc] = App[clients[c].pin] THEN "restarted" ELSE "error")
        \/ Cardinality(choices) # 1 /\ ClientAt(c, "idle") /\ TellClient(c, "error")
  /\ UNCHANGED <<startupVars, finds>>

-----------------------------------------------------------------------------
(* ensure_connected, connect                                               *)

IsConnected(c) == clients[c].queue = "open"

(* The next call: on the connection there is, on one to the cached target, *)
(* or on one that has to be discovered.                                    *)
BeginCall(c) ==
  /\ clients[c].at = "idle" /\ clients[c].call < MaxCalls
  /\ clients' = [clients EXCEPT
       ![c].call = @ + 1,
       ![c].at = IF IsConnected(c) THEN "calling"
                 ELSE IF clients[c].target # NoPort THEN "reconnecting" ELSE "reading"]
  /\ UNCHANGED <<startupVars, finds, messages>>

(* What the old connection did not write is dropped.                       *)
Dropped(c) ==
  [messages EXCEPT ![c] = [n \in DOMAIN @ |->
     IF @[n].at = "queued" THEN [@[n] EXCEPT !.at = "lost"] ELSE @[n]]]

(* Whoever accepts at the port.                                            *)
Dial(c) ==
  /\ clients[c].at \in {"reconnecting", "connecting"}
  /\ \E p \in Serving(clients[c].target) :
       clients' = [clients EXCEPT ![c].at = IF @ = "connecting" THEN "verifying" ELSE "reverifying",
                                ![c].peer = p, ![c].queue = "open"]
  /\ messages' = Dropped(c) /\ Found(c, NoFinds)
  /\ UNCHANGED startupVars

(* Mutant: whoever answers is taken for the instance that is pinned.       *)
VerifiedAnyPeer(c) == TRUE

(* verify_app_identity on the new connection.                              *)
VerifiedPeer(c) == clients[c].peer = clients[c].pin

VerifyInstance(c) ==
  /\ clients[c].at \in {"verifying", "reverifying"}
  /\ IsConnected(c) /\ Living(clients[c].peer) /\ clients[c].peer \notin Refusing
  /\ VerifiedPeer(c) /\ ClientAt(c, "calling")
  /\ UNCHANGED <<startupVars, finds, messages>>

(* Nobody accepts, or not the pinned instance: when that was the cached    *)
(* target, the application is discovered anew.                             *)
CannotConnect(c) ==
  /\ clients[c].at \in {"reconnecting", "connecting", "verifying", "reverifying"}
  /\ LET again == clients[c].at \in {"reconnecting", "reverifying"} IN
     /\ clients' = [clients EXCEPT ![c].at = IF again THEN "reading" ELSE "idle",
                                 ![c].peer = NoProc, ![c].queue = "none"]
     /\ messages' = IF again THEN Dropped(c)
                 ELSE [Dropped(c) EXCEPT ![c][clients[c].call].told = "error"]
  /\ Found(c, NoFinds) /\ UNCHANGED startupVars

-----------------------------------------------------------------------------
(* send_with_timeout, and the task that owns the socket                    *)

Enqueue(c) ==
  /\ clients[c].at = "calling"
  /\ IF IsConnected(c)
       THEN /\ ClientAt(c, "waiting")
            /\ messages' = [messages EXCEPT ![c][clients[c].call].at = "queued"]
       ELSE ClientAt(c, "idle") /\ TellClient(c, "not dispatched")
  /\ UNCHANGED <<startupVars, finds>>

Write(c) ==
  /\ IsConnected(c)
  /\ \E n \in DOMAIN messages[c] :
       /\ messages[c][n].at = "queued"
       /\ messages' = [messages EXCEPT ![c][n].at = "written", ![c][n].by = clients[c].peer]
  /\ UNCHANGED <<startupVars, clients, finds>>

(* The process may read what was written after the client has gone.        *)
Receive(c) ==
  /\ \E n \in DOMAIN messages[c] :
       /\ messages[c][n].at = "written" /\ Living(messages[c][n].by)
       /\ messages' = [messages EXCEPT ![c][n].at = "received"]
  /\ UNCHANGED <<startupVars, clients, finds>>

Replied(c) ==
  /\ clients[c].at = "waiting" /\ IsConnected(c)
  /\ TheCall(c).at = "received" /\ Living(TheCall(c).by)
  /\ ClientAt(c, "idle") /\ TellClient(c, "reply")
  /\ UNCHANGED <<startupVars, finds>>

Timeout(c) ==
  /\ clients[c].at = "waiting"
  /\ ClientAt(c, "idle") /\ TellClient(c, "outcome unknown")
  /\ UNCHANGED <<startupVars, finds>>

(* The socket fails or the peer closes it: the queue is closed, and what   *)
(* is pending is rejected.                                                 *)
TaskEnds(c) ==
  /\ IsConnected(c)
  /\ LET waits == clients[c].at = "waiting" IN
     /\ clients' = [clients EXCEPT ![c].queue = "closed", ![c].at = IF waits THEN "idle" ELSE @]
     /\ messages' = IF waits
                   THEN [Dropped(c) EXCEPT ![c][clients[c].call].told = "outcome unknown"]
                   ELSE Dropped(c)
  /\ UNCHANGED <<startupVars, finds>>

-----------------------------------------------------------------------------
DiscoveryInit ==
  /\ StartupInit
  /\ clients = [c \in Client |->
       [at |-> "idle", call |-> 0, target |-> NoPort, peer |-> NoProc, queue |-> "none",
        pin |-> NoProc]]
  /\ finds = [c \in Client |-> NoFinds]
  /\ messages = [c \in Client |-> [n \in 1 .. MaxCalls |->
       [at |-> "new", by |-> NoProc, told |-> "nothing"]]]

ClientStep(c) ==
  \/ ReadRecords(c) \/ ProbeHint(c) \/ ScanPort(c) \/ Resolve(c)
  \/ BeginCall(c) \/ Dial(c) \/ VerifyInstance(c) \/ CannotConnect(c)
  \/ Enqueue(c) \/ Write(c) \/ Receive(c) \/ Replied(c) \/ Timeout(c) \/ TaskEnds(c)

DiscoveryNext ==
  \/ StartupStep /\ UNCHANGED <<clients, finds, messages>>
  \/ \E c \in Client : ClientStep(c)

DiscoverySpec == DiscoveryInit /\ [][DiscoveryNext]_discoveryVars

-----------------------------------------------------------------------------
(* All the calls of a client that anybody receives are received by one     *)
(* process, the one that discovery chose, though processes exit and crash  *)
(* between the probe, the connection and each call and others take their   *)
(* ports; and a caller is never told of a reply nobody gave, or that a     *)
(* call was not dispatched that was received                               *)
(* (src/crates/client/src/lib.rs:183 and 316).                             *)
RequestsReachTheirInstance ==
  \A c \in Client : \A n \in DOMAIN messages[c] :
    LET call == messages[c][n] IN
    /\ call.at = "received" => call.by = clients[c].pin
    /\ call.at = "received" => call.told \in {"nothing", "reply", "outcome unknown"}
    /\ call.told = "reply" => call.at = "received"

(* A client that insists on nothing and finds a record near its directory  *)
(* only ever attaches to an application that such a record names, or whose *)
(* workspace it is in, however stale the records are and whoever has the   *)
(* port or the process id of a record by then; unless some recorded        *)
(* application refuses its identity (discovery.rs:695, 114 and 848).       *)
RecordsAreHeeded ==
  \A c \in Client :
    LET f == finds[c] IN
    (clients[c].at = "connecting" /\ Wants[c] = AnyApp /\ c \notin OptIn
       /\ f.records # {} /\ ~f.refused)
      => App[clients[c].pin] \in {App[r.proc] : r \in f.records} \cup Workspace[c]

(* Whom a client finds and whom its calls reach: the two above together.   *)
(* (src/crates/client/src/discovery.rs:695 and lib.rs:183.)                *)
RightInstance == RequestsReachTheirInstance /\ RecordsAreHeeded

(* The standalone MCP server reconnects when the application restarts: a   *)
(* call is never refused when all there is to it is that another process   *)
(* of the same application runs now (docs/release-notes/0.17.0.md:9).      *)
RestartIsFollowed ==
  \A c \in Client : \A n \in DOMAIN messages[c] : messages[c][n].told # "restarted"
=============================================================================
