--------------------------- MODULE BridgeProofs ---------------------------
(***************************************************************************)
(* Theorems about Bridge, for any set of connections and requests and any  *)
(* number of documents: its connections and the pins of them, then its     *)
(* calls: a script runs at most once, and what its caller is told is true. *)
(***************************************************************************)
EXTENDS Bridge, TLAPS

(* The groups of variables are always seen as what they contain.           *)
USE DEF identity, page, server, calls, vars

-----------------------------------------------------------------------------
(* Types                                                                   *)

LEMMA NoKey == 0 \in BridgeKey
BY BridgeAssumption DEF BridgeKey

LEMMA NothingTyped ==
  /\ NoClient \in [conn: Conn \cup {None}, key: BridgeKey]
  /\ NoEntry \in ConnectionState
BY NoKey DEF NoClient, NoEntry, ConnectionState

LEMMA SetConnectionTyped ==
  ASSUME NEW state \in ConnectionState, NEW c \in Conn \cup {None}
  PROVE  SetConnection(state, c) \in ConnectionState
<1>1. state.revision \in Nat /\ state.revision + 1 \in Nat
  BY DEF ConnectionState
<1>2. [state EXCEPT !.conn = c, !.revision = @ + 1] \in ConnectionState
  BY <1>1 DEF ConnectionState
<1>3. QED
  BY <1>2 DEF SetConnection

LEMMA InitTypes == Init => TypeOK
<1> SUFFICES ASSUME Init
             PROVE  TypeOK
  OBVIOUS
<1>1. 1 \in BridgeKey /\ 0 \in BridgeKey
  BY BridgeAssumption DEF BridgeKey
<1>2. /\ task \in [Conn -> {"unused", "open", "left", "removed", "gone"}]
      /\ inbox \in [Conn -> SUBSET Message]
  BY DEF Init
<1>3. /\ pc \in [Request -> PC]
      /\ pending \in [Request -> Conn \cup {None}]
      /\ value \in [Request -> {"none", "done", "not_run", "lost"}]
      /\ answer \in [Request -> {"none", "done", "not_dispatched", "unknown"}]
      /\ settled \in [Request -> {"none", "known", "lost"}]
      /\ runs \in [Request -> Nat]
  BY DEF Init, PC
<1>4. QED
  BY <1>1, <1>2, <1>3, NothingTyped DEF Init, TypeOK

(* One kind of step at a time: windows and documents.                      *)
LEMMA WindowTypes ==
  ASSUME TypeOK, Window \/ SocketLost \/ RemoveDestroyedWindow
  PROVE  TypeOK'
<1>1. CASE WebviewReady
  BY <1>1, BridgeAssumption DEF WebviewReady, EnsureKey, Ensured, TypeOK, BridgeKey
<1>2. CASE Navigate
  BY <1>2, BridgeAssumption DEF Navigate, NoDocument, TypeOK, BridgeKey
<1>3. CASE Destroyed
  BY <1>3, NoKey DEF Destroyed, NoDocument, TypeOK
<1>4. CASE InjectBridge
  BY <1>4, BridgeAssumption DEF InjectBridge, EnsureKey, Ensured, TypeOK, BridgeKey
<1>5. CASE RunInit
  <2>1. [key |-> init] \in Message
    BY DEF TypeOK, Message
  <2>2. inbox' \in [Conn -> SUBSET Message]
    BY <1>5, <2>1 DEF RunInit, Say, TypeOK
  <2>3. QED
    BY <1>5, <2>2, NoKey DEF RunInit, TypeOK
<1>6. CASE SocketLost
  BY <1>6 DEF SocketLost, TypeOK
<1>7. CASE RemoveDestroyedWindow
  BY <1>7, NothingTyped DEF RemoveDestroyedWindow, TypeOK
<1>8. QED
  BY <1>1, <1>2, <1>3, <1>4, <1>5, <1>6, <1>7 DEF Window

LEMMA ConnectionTypes ==
  ASSUME TypeOK, NEW c \in Conn, Connect(c) \/ Connection(c)
  PROVE  TypeOK'
<1>1. CASE Connect(c)
  BY <1>1 DEF Connect, Say, TypeOK, Message
<1>2. ASSUME NEW k \in 1..MaxKeys, Hello(c, k)
      PROVE  TypeOK'
  <2>1. k \in BridgeKey
    BY BridgeAssumption DEF BridgeKey
  <2>2. [registry EXCEPT !.key = k] \in ConnectionState
    BY <2>1 DEF TypeOK, ConnectionState
  <2>3. QED
    BY <1>2, <2>1, <2>2, SetConnectionTyped DEF Hello, Read, TypeOK
<1>3. ASSUME NEW message \in inbox[c], Result(c, message)
      PROVE  TypeOK'
  <2>1. message \in [request: Request, value: {"done", "not_run"}]
    BY <1>3 DEF Result, TypeOK, Message
  <2>2. QED
    BY <1>3, <2>1 DEF Result, Read, TypeOK
<1>4. CASE LeaveLoop(c)
  BY <1>4 DEF LeaveLoop, TypeOK
<1>5. CASE Disconnect(c)
  BY <1>5, NothingTyped, SetConnectionTyped DEF Disconnect, TypeOK
<1>6. CASE RejectPending(c)
  BY <1>6 DEF RejectPending, Reject, TypeOK
<1>7. QED
  BY <1>1, <1>2, <1>3, <1>4, <1>5, <1>6 DEF Connection

LEMMA PinTypes ==
  ASSUME TypeOK, TakePin \/ \E pin \in pins : DropPin(pin)
  PROVE  TypeOK'
<1>1. CASE TakePin
  <2> DEFINE k     == IF client = NoClient THEN Ensured ELSE client.key
             entry == IF registry.key = k THEN registry
                      ELSE [key |-> k, conn |-> client.conn, revision |-> 0]
  <2>1. k \in BridgeKey /\ key' \in BridgeKey /\ drawn' \in BridgeKey
    BY <1>1, BridgeAssumption DEF TakePin, EnsureKey, Ensured, TypeOK, BridgeKey
  <2>2. entry \in ConnectionState
    BY <2>1 DEF TypeOK, ConnectionState
  <2>3. /\ registry' = entry
        /\ pins' = pins \cup {[key |-> k, connection |-> entry, conn |-> client.conn]}
    BY <1>1 DEF TakePin
  <2>4. [key |-> k, connection |-> entry, conn |-> client.conn] \in Pin
    BY <2>1, <2>2 DEF Pin, TypeOK
  <2>5. UNCHANGED <<page, task, inbox, client, destroying, calls, runs>>
    BY <1>1 DEF TakePin
  <2> HIDE DEF k, entry
  <2>6. QED
    BY <2>1, <2>2, <2>3, <2>4, <2>5 DEF TypeOK
<1>2. CASE \E pin \in pins : DropPin(pin)
  BY <1>2 DEF DropPin, TypeOK
<1>3. QED
  BY <1>1, <1>2

LEMMA CallerTypes ==
  ASSUME TypeOK, NEW q \in Request, Caller(q) \/ Abandon(q)
  PROVE  TypeOK'
<1>1. CASE Call(q)
  BY <1>1 DEF Call, At, TypeOK, PC
<1>2. CASE SendOnSocket(q)
  BY <1>2 DEF SendOnSocket, At, TypeOK, PC
<1>3. CASE NoSocket(q)
  BY <1>3 DEF NoSocket, At, TypeOK, PC
<1>4. ASSUME NEW b \in BOOLEAN, Probe(q, b)
      PROVE  TypeOK'
  BY <1>4 DEF Probe, At, TypeOK, PC
<1>5. ASSUME NEW b \in BOOLEAN, SendByEval(q, b)
      PROVE  TypeOK'
  BY <1>5 DEF SendByEval, At, Tell, TypeOK, PC
<1>6. CASE GiveUp(q)
  BY <1>6 DEF GiveUp, At, Tell, TypeOK, PC
<1>7. CASE Answered(q)
  BY <1>7 DEF Answered, At, Tell, TypeOK, PC
<1>8. CASE TimeOut(q)
  BY <1>8 DEF TimeOut, At, TypeOK, PC
<1>9. CASE WatchLate(q)
  BY <1>9 DEF WatchLate, At, Tell, TypeOK, PC
<1>10. CASE Settle(q)
  BY <1>10 DEF Settle, TypeOK
<1>11. CASE Abandon(q)
  BY <1>11 DEF Abandon, At, TypeOK, PC
<1>12. QED
  BY <1>1, <1>2, <1>3, <1>4, <1>5, <1>6, <1>7, <1>8, <1>9, <1>10, <1>11 DEF Caller

LEMMA ReplyTypes ==
  ASSUME TypeOK, NEW q \in Request, NEW way, NEW what \in {"done", "not_run"},
         Reply(q, way, what)
  PROVE  /\ value' \in [Request -> {"none", "done", "not_run", "lost"}]
         /\ inbox' \in [Conn -> SUBSET Message]
BY DEF Reply, Say, TypeOK, Message

LEMMA ScriptTypes ==
  ASSUME TypeOK, NEW q \in Request, NEW way \in {"socket", "event"}, Script(q, way)
  PROVE  TypeOK'
<1>1. CASE Refuse(q, way)
  BY <1>1, ReplyTypes DEF Refuse, Begin, TypeOK
<1>2. CASE Run(q, way)
  BY <1>2 DEF Run, Begin, TypeOK
<1>3. CASE Finish(q, way)
  BY <1>3, ReplyTypes DEF Finish, TypeOK
<1>4. QED
  BY <1>1, <1>2, <1>3 DEF Script

LEMMA NextTypes == TypeOK /\ [Next]_vars => TypeOK'
<1> SUFFICES ASSUME TypeOK, [Next]_vars
             PROVE  TypeOK'
  OBVIOUS
<1>1. CASE UNCHANGED vars
  BY <1>1 DEF TypeOK
<1>2. CASE Next
  BY <1>2, WindowTypes, ConnectionTypes, PinTypes, CallerTypes, ScriptTypes DEF Next, Traffic
<1>3. QED
  BY <1>1, <1>2

(* The bridge's variables keep their types.                                *)
THEOREM TypeCorrect == Spec => []TypeOK
BY InitTypes, NextTypes, PTL DEF Spec

-----------------------------------------------------------------------------
(* The inductive invariant                                                 *)

(* The mirror has the connection of the clients, and their key.            *)
Mirror ==
  /\ registry.conn = client.conn
  /\ client.conn = None => client = NoClient
  /\ client # NoClient => registry.key = client.key

(* A registered connection is served by a task that has yet to remove it,  *)
(* a pending entry waits for one that has yet to reject it.                *)
Tasks ==
  /\ client.conn # None => task[client.conn] \in {"open", "left"}
  /\ \A q \in Request :
       pending[q] # None => task[pending[q]] \in {"open", "left", "removed"}

(* While the key of a pin is the window's, so is the mirror's, which is    *)
(* what the pin saw or has moved on.                                       *)
Pins ==
  /\ key <= drawn
  /\ \A pin \in pins :
       /\ pin.key # 0
       /\ pin.key <= drawn
       /\ pin.key = key =>
            /\ registry.key = key
            /\ \/ registry = pin.connection
               \/ registry.revision > pin.connection.revision
  /\ client # NoClient => client.key # 0 /\ client.key <= drawn

BridgeInv == TypeOK /\ Mirror /\ Tasks /\ Pins

LEMMA InitInv == Init => BridgeInv
<1> SUFFICES ASSUME Init
             PROVE  BridgeInv
  OBVIOUS
<1>1. Mirror /\ Pins
  BY DEF Init, Mirror, Pins, NoClient, NoEntry
<1>2. Tasks
  BY DEF Init, Tasks, NoClient
<1>3. QED
  BY <1>1, <1>2, InitTypes DEF BridgeInv

(* Only these steps touch the clients and their mirror.                    *)
LEMMA WhatRegisters ==
  ASSUME Next
  PROVE  \/ UNCHANGED <<client, registry>>
         \/ TakePin
         \/ RemoveDestroyedWindow
         \/ \E c \in Conn : Disconnect(c) \/ \E k \in 1..MaxKeys : Hello(c, k)
<1>1. CASE Window \/ SocketLost
  BY <1>1 DEF Window, SocketLost, WebviewReady, Navigate, Destroyed, InjectBridge, RunInit
<1>2. CASE \E pin \in pins : DropPin(pin)
  BY <1>2 DEF DropPin
<1>3. CASE \E c \in Conn : Connect(c) \/ Connection(c)
  BY <1>3 DEF Connect, Connection, Result, LeaveLoop, RejectPending
<1>4. ASSUME NEW q \in Request, Caller(q) \/ Abandon(q)
      PROVE  UNCHANGED <<client, registry>>
  BY <1>4 DEF Caller, Call, SendOnSocket, NoSocket, Probe, SendByEval, GiveUp,
              Answered, TimeOut, WatchLate, Settle, Abandon
<1>5. ASSUME NEW q \in Request, NEW way \in {"socket", "event"}, Script(q, way)
      PROVE  UNCHANGED <<client, registry>>
  BY <1>5 DEF Script, Refuse, Run, Finish
<1>6. QED
  BY <1>1, <1>2, <1>3, <1>4, <1>5 DEF Next, Traffic

LEMMA SetConnectionMirrors ==
  ASSUME NEW state \in ConnectionState, NEW c \in Conn \cup {None}
  PROVE  /\ SetConnection(state, c).conn = c
         /\ SetConnection(state, c).key = state.key
         /\ SetConnection(state, c).revision \in Nat
         /\ \/ SetConnection(state, c) = state
            \/ SetConnection(state, c).revision > state.revision
<1> DEFINE moved == [state EXCEPT !.conn = c, !.revision = @ + 1]
<1>1. /\ moved.conn = c /\ moved.key = state.key
      /\ moved.revision = state.revision + 1
  BY DEF ConnectionState
<1>2. state.revision \in Nat
  BY DEF ConnectionState
<1> HIDE DEF moved
<1>3. SetConnection(state, c) = IF state.conn = c THEN state ELSE moved
  BY DEF SetConnection, moved
<1>4. QED
  BY <1>1, <1>2, <1>3

LEMMA MirrorStep == BridgeInv /\ Next => Mirror'
<1> SUFFICES ASSUME BridgeInv, Next
             PROVE  Mirror'
  OBVIOUS
<1> USE DEF BridgeInv
<1>0. registry \in ConnectionState /\ client.conn \in Conn \cup {None}
  BY DEF TypeOK
<1>1. CASE UNCHANGED <<client, registry>>
  BY <1>1 DEF Mirror
<1>2. CASE TakePin
  <2>1. client' = client
    BY <1>2 DEF TakePin
  <2>2. CASE client = NoClient
    BY <1>2, <2>1, <2>2 DEF TakePin, Mirror
  <2>3. CASE client # NoClient
    BY <1>2, <2>1, <2>3 DEF TakePin, Mirror
  <2>4. QED
    BY <2>2, <2>3
<1>3. CASE RemoveDestroyedWindow
  BY <1>3 DEF RemoveDestroyedWindow, Mirror, NoClient, NoEntry
<1>4. ASSUME NEW c \in Conn, Disconnect(c)
      PROVE  Mirror'
  BY <1>0, <1>4, SetConnectionMirrors DEF Disconnect, Mirror, NoClient
<1>5. ASSUME NEW c \in Conn, NEW k \in 1..MaxKeys, Hello(c, k)
      PROVE  Mirror'
  <2> DEFINE greeted == [registry EXCEPT !.key = k]
  <2>1. greeted \in ConnectionState /\ greeted.key = k
    BY <1>0, BridgeAssumption DEF ConnectionState, BridgeKey
  <2> HIDE DEF greeted
  <2>2. SetConnection(greeted, c).conn = c /\ SetConnection(greeted, c).key = k
    BY <2>1, SetConnectionMirrors
  <2>3. CASE Verify(k)
    BY <1>5, <2>2, <2>3, BridgeAssumption DEF Hello, Mirror, greeted, NoClient
  <2>4. CASE ~Verify(k)
    BY <1>5, <2>4 DEF Hello, Mirror
  <2>5. QED
    BY <2>3, <2>4
<1>6. QED
  BY <1>1, <1>2, <1>3, <1>4, <1>5, WhatRegisters

(* Only the task itself moves on, and only forward.                        *)
LEMMA WhatMovesTasks ==
  ASSUME Next
  PROVE  \/ UNCHANGED task
         \/ \E c \in Conn : Connect(c) \/ LeaveLoop(c) \/ Disconnect(c) \/ RejectPending(c)
<1>1. CASE Window \/ SocketLost \/ RemoveDestroyedWindow \/ TakePin
  BY <1>1 DEF Window, SocketLost, WebviewReady, Navigate, Destroyed, InjectBridge, RunInit,
              RemoveDestroyedWindow, TakePin
<1>2. CASE \E pin \in pins : DropPin(pin)
  BY <1>2 DEF DropPin
<1>3. CASE \E c \in Conn : Connect(c) \/ Connection(c)
  BY <1>3 DEF Connection, Result, Hello
<1>4. ASSUME NEW q \in Request, Caller(q) \/ Abandon(q)
      PROVE  UNCHANGED task
  BY <1>4 DEF Caller, Call, SendOnSocket, NoSocket, Probe, SendByEval, GiveUp,
              Answered, TimeOut, WatchLate, Settle, Abandon
<1>5. ASSUME NEW q \in Request, NEW way \in {"socket", "event"}, Script(q, way)
      PROVE  UNCHANGED task
  BY <1>5 DEF Script, Refuse, Run, Finish
<1>6. QED
  BY <1>1, <1>2, <1>3, <1>4, <1>5 DEF Next, Traffic

(* A pending entry is new on the registered connection, or as it was.      *)
LEMMA WhatWaits ==
  ASSUME TypeOK, Next, NEW q \in Request, pending'[q] # None
  PROVE  pending'[q] = pending[q] \/ pending'[q] = client.conn
<1>1. CASE Window \/ SocketLost \/ RemoveDestroyedWindow \/ TakePin
  BY <1>1 DEF Window, SocketLost, WebviewReady, Navigate, Destroyed, InjectBridge, RunInit,
              RemoveDestroyedWindow, TakePin
<1>2. CASE \E pin \in pins : DropPin(pin)
  BY <1>2 DEF DropPin
<1>3. CASE \E c \in Conn : Connect(c) \/ Connection(c)
  <2>1. PICK c \in Conn : Connect(c) \/ Connection(c)
    BY <1>3
  <2>2. CASE RejectPending(c)
    BY <2>2 DEF RejectPending, Reject
  <2>3. CASE \E message \in inbox[c] : Result(c, message)
    BY <2>3 DEF Result, TypeOK
  <2>4. CASE UNCHANGED pending
    BY <2>4
  <2>5. QED
    BY <2>1, <2>2, <2>3, <2>4 DEF Connect, Connection, Hello, LeaveLoop, Disconnect
<1>4. ASSUME NEW p \in Request, Caller(p) \/ Abandon(p)
      PROVE  pending'[q] = pending[q] \/ pending'[q] = client.conn
  <2>1. CASE SendOnSocket(p)
    BY <1>4, <2>1 DEF SendOnSocket, TypeOK
  <2>2. CASE Settle(p) \/ Abandon(p)
    BY <1>4, <2>2 DEF Settle, Abandon, TypeOK
  <2>3. CASE UNCHANGED pending
    BY <2>3
  <2>4. QED
    BY <1>4, <2>1, <2>2, <2>3 DEF Caller, Call, NoSocket, Probe, SendByEval, GiveUp,
                                  Answered, TimeOut, WatchLate
<1>5. ASSUME NEW p \in Request, NEW way \in {"socket", "event"}, Script(p, way)
      PROVE  UNCHANGED pending
  BY <1>5 DEF Script, Refuse, Run, Finish
<1>6. QED
  BY <1>1, <1>2, <1>3, <1>4, <1>5 DEF Next, Traffic

LEMMA TasksStep == BridgeInv /\ Next => Tasks'
<1> SUFFICES ASSUME BridgeInv, Next
             PROVE  Tasks'
  OBVIOUS
<1> USE DEF BridgeInv
(* Where a task may go.                                                    *)
<1>1. \A c \in Conn : task[c] \in {"open", "left"} =>
        \/ task'[c] \in {"open", "left"}
        \/ Disconnect(c)
  BY WhatMovesTasks DEF Connect, LeaveLoop, Disconnect, RejectPending, TypeOK
<1>2. \A c \in Conn : task[c] \in {"open", "left", "removed"} =>
        \/ task'[c] \in {"open", "left", "removed"}
        \/ RejectPending(c)
  BY WhatMovesTasks DEF Connect, LeaveLoop, Disconnect, RejectPending, TypeOK
<1>3. client'.conn # None => task'[client'.conn] \in {"open", "left"}
  <2> SUFFICES ASSUME client'.conn # None
               PROVE  task'[client'.conn] \in {"open", "left"}
    OBVIOUS
  <2>1. CASE client' = client
    <3>1. client.conn \in Conn /\ task[client.conn] \in {"open", "left"}
      BY <2>1 DEF Tasks, TypeOK
    <3>2. ~Disconnect(client.conn)
      BY <2>1 DEF Disconnect, NoClient
    <3>3. QED
      BY <2>1, <3>1, <3>2, <1>1
  <2>2. CASE client' # client
    <3>0. client' # NoClient
      BY DEF NoClient
    <3>1. PICK c \in Conn, k \in 1..MaxKeys : Hello(c, k)
      <4>1. ~TakePin /\ ~RemoveDestroyedWindow /\ \A c \in Conn : ~Disconnect(c)
        BY <2>2, <3>0 DEF TakePin, RemoveDestroyedWindow, Disconnect
      <4>2. QED
        BY <2>2, <4>1, WhatRegisters
    <3>2. task[c] = "open" /\ task' = task /\ client'.conn = c
      BY <2>2, <3>1 DEF Hello
    <3>3. QED
      BY <3>2
  <2>3. QED
    BY <2>1, <2>2
<1>4. ASSUME NEW q \in Request, pending'[q] # None
      PROVE  task'[pending'[q]] \in {"open", "left", "removed"}
  <2>1. /\ pending'[q] \in Conn
        /\ task[pending'[q]] \in {"open", "left", "removed"}
    BY <1>4, WhatWaits DEF Tasks, TypeOK
  <2>2. ~RejectPending(pending'[q])
    BY <1>4 DEF RejectPending, Reject
  <2>3. QED
    BY <1>2, <2>1, <2>2
<1>5. QED
  BY <1>3, <1>4 DEF Tasks

(* A key that is drawn was never anyone's before.                          *)
LEMMA KeysAreFresh ==
  ASSUME TypeOK, Next
  PROVE  \/ UNCHANGED identity
         \/ key' = 0 /\ drawn' = drawn
         \/ key' = drawn + 1 /\ drawn' = drawn + 1
<1>1. CASE Window \/ SocketLost \/ RemoveDestroyedWindow \/ TakePin
  BY <1>1 DEF Window, SocketLost, WebviewReady, Navigate, Destroyed, InjectBridge, RunInit,
              RemoveDestroyedWindow, TakePin, EnsureKey, Ensured
<1>2. CASE \E pin \in pins : DropPin(pin)
  BY <1>2 DEF DropPin
<1>3. CASE \E c \in Conn : Connect(c) \/ Connection(c)
  BY <1>3 DEF Connect, Connection, Hello, Result, LeaveLoop, Disconnect, RejectPending
<1>4. ASSUME NEW q \in Request, Caller(q) \/ Abandon(q)
      PROVE  UNCHANGED identity
  BY <1>4 DEF Caller, Call, SendOnSocket, NoSocket, Probe, SendByEval, GiveUp,
              Answered, TimeOut, WatchLate, Settle, Abandon
<1>5. ASSUME NEW q \in Request, NEW way \in {"socket", "event"}, Script(q, way)
      PROVE  UNCHANGED identity
  BY <1>5 DEF Script, Refuse, Run, Finish
<1>6. QED
  BY <1>1, <1>2, <1>3, <1>4, <1>5 DEF Next, Traffic

(* While the mirror is of the window's key, it changes only with its       *)
(* revision, for as long as the window keeps that key.                     *)
LEMMA RevisionCounts ==
  ASSUME BridgeInv, Next, key # 0, key' = key, registry.key = key
  PROVE  /\ registry'.key = key
         /\ registry' = registry \/ registry'.revision > registry.revision
<1> USE DEF BridgeInv
<1>0. registry \in ConnectionState
  BY DEF TypeOK
<1>1. CASE UNCHANGED <<client, registry>>
  BY <1>1
<1>2. CASE TakePin
  <2>1. Ensured = key /\ (client # NoClient => client.key = key)
    BY DEF Ensured, Mirror
  <2>2. QED
    BY <1>2, <2>1 DEF TakePin
<1>3. CASE RemoveDestroyedWindow
  BY <1>3 DEF RemoveDestroyedWindow, Verify
<1>4. ASSUME NEW c \in Conn, Disconnect(c)
      PROVE  /\ registry'.key = key
             /\ registry' = registry \/ registry'.revision > registry.revision
  BY <1>0, <1>4, SetConnectionMirrors DEF Disconnect
<1>5. ASSUME NEW c \in Conn, NEW k \in 1..MaxKeys, Hello(c, k)
      PROVE  /\ registry'.key = key
             /\ registry' = registry \/ registry'.revision > registry.revision
  <2>1. CASE Verify(k)
    <3>1. [registry EXCEPT !.key = k] = registry
      BY <1>0, <2>1 DEF Verify, ConnectionState
    <3>2. registry' = SetConnection(registry, c)
      BY <1>5, <2>1, <3>1 DEF Hello
    <3>3. QED
      BY <1>0, <3>2, SetConnectionMirrors
  <2>2. CASE ~Verify(k)
    BY <1>5, <2>2 DEF Hello
  <2>3. QED
    BY <2>1, <2>2
<1>6. QED
  BY <1>1, <1>2, <1>3, <1>4, <1>5, WhatRegisters

LEMMA WhatPins ==
  ASSUME Next
  PROVE  pins' \subseteq pins \/ TakePin
<1>1. CASE Window \/ SocketLost \/ RemoveDestroyedWindow
  BY <1>1 DEF Window, SocketLost, WebviewReady, Navigate, Destroyed, InjectBridge, RunInit,
              RemoveDestroyedWindow
<1>2. CASE \E pin \in pins : DropPin(pin)
  BY <1>2 DEF DropPin
<1>3. CASE \E c \in Conn : Connect(c) \/ Connection(c)
  BY <1>3 DEF Connect, Connection, Hello, Result, LeaveLoop, Disconnect, RejectPending
<1>4. ASSUME NEW q \in Request, Caller(q) \/ Abandon(q)
      PROVE  UNCHANGED pins
  BY <1>4 DEF Caller, Call, SendOnSocket, NoSocket, Probe, SendByEval, GiveUp,
              Answered, TimeOut, WatchLate, Settle, Abandon
<1>5. ASSUME NEW q \in Request, NEW way \in {"socket", "event"}, Script(q, way)
      PROVE  UNCHANGED pins
  BY <1>5 DEF Script, Refuse, Run, Finish
<1>6. QED
  BY <1>1, <1>2, <1>3, <1>4, <1>5 DEF Next, Traffic

LEMMA PinsStep == BridgeInv /\ Next => Pins'
<1> SUFFICES ASSUME BridgeInv, Next
             PROVE  Pins'
  OBVIOUS
<1> USE DEF BridgeInv
<1> DEFINE Kept(pin) == /\ pin.key # 0
                        /\ pin.key <= drawn'
                        /\ pin.key = key' =>
                             /\ registry'.key = key'
                             /\ \/ registry' = pin.connection
                                \/ registry'.revision > pin.connection.revision
<1>0. key \in Nat /\ drawn \in Nat /\ key <= drawn
  BY BridgeAssumption DEF TypeOK, BridgeKey, Pins
<1>1. /\ key' \in Nat /\ drawn' \in Nat
      /\ key' <= drawn' /\ drawn <= drawn'
      /\ key' \in {0, key} \/ key' > drawn
  BY <1>0, KeysAreFresh
<1>2. ASSUME NEW pin \in pins
      PROVE  Kept(pin)
  <2>1. /\ pin.key \in Nat /\ pin.connection.revision \in Nat
        /\ registry.revision \in Nat /\ registry'.revision \in Nat
    BY BridgeAssumption, NextTypes DEF TypeOK, Pin, ConnectionState, BridgeKey
  <2>2. pin.key # 0 /\ pin.key <= drawn'
    BY <1>0, <1>1, <2>1 DEF Pins
  <2>3. ASSUME pin.key = key'
        PROVE  /\ registry'.key = key'
               /\ \/ registry' = pin.connection
                  \/ registry'.revision > pin.connection.revision
    <3>1. key' = key /\ key # 0 /\ pin.key = key
      BY <1>0, <1>1, <2>1, <2>2, <2>3 DEF Pins
    <3>2. /\ registry.key = key
          /\ \/ registry = pin.connection
             \/ registry.revision > pin.connection.revision
      BY <3>1 DEF Pins
    <3>3. /\ registry'.key = key
          /\ registry' = registry \/ registry'.revision > registry.revision
      BY <3>1, <3>2, RevisionCounts
    <3>4. QED
      BY <2>1, <3>1, <3>2, <3>3
  <2>4. QED
    BY <2>2, <2>3
<1>3. client' # NoClient => client'.key # 0 /\ client'.key <= drawn'
  <2>1. CASE client' = client
    <3>1. client.key \in Nat
      BY BridgeAssumption DEF TypeOK, BridgeKey
    <3>2. QED
      BY <1>0, <1>1, <2>1, <3>1 DEF Pins
  <2>2. CASE client' # client /\ client' # NoClient
    <3>1. ~TakePin /\ ~RemoveDestroyedWindow /\ \A c \in Conn : ~Disconnect(c)
      BY <2>2 DEF TakePin, RemoveDestroyedWindow, Disconnect
    <3>2. PICK c \in Conn, k \in 1..MaxKeys : Hello(c, k)
      BY <2>2, <3>1, WhatRegisters
    <3>3. client'.key = key /\ key # 0
      BY <2>2, <3>2 DEF Hello, Verify
    <3>4. QED
      BY <1>0, <1>1, <3>3
  <2>3. QED
    BY <2>1, <2>2
<1>4. ASSUME TakePin, NEW pin \in pins' \ pins
      PROVE  Kept(pin)
  <2> DEFINE k == IF client = NoClient THEN Ensured ELSE client.key
  <2>1. pin.key = k /\ pin.connection = registry'
    BY <1>4 DEF TakePin
  <2>2. k # 0 /\ k <= drawn'
    <3>1. CASE client = NoClient
      BY <1>0, <1>4, <3>1 DEF TakePin, EnsureKey, Ensured
    <3>2. CASE client # NoClient
      BY <1>4, <3>2 DEF TakePin, Pins
    <3>3. QED
      BY <3>1, <3>2
  <2>3. registry'.key = k
    BY <1>4 DEF TakePin
  <2> HIDE DEF k
  <2>4. QED
    BY <2>1, <2>2, <2>3
<1> HIDE DEF Kept
<1>5. \A pin \in pins' : Kept(pin)
  BY <1>2, <1>4, WhatPins
<1>6. QED
  BY <1>1, <1>3, <1>5 DEF Pins, Kept

LEMMA InvStep == BridgeInv /\ [Next]_vars => BridgeInv'
<1>1. ASSUME BridgeInv, Next
      PROVE  BridgeInv'
  <2>1. TypeOK'
    BY <1>1, NextTypes DEF BridgeInv
  <2>2. QED
    BY <1>1, <2>1, MirrorStep, TasksStep, PinsStep DEF BridgeInv
<1>2. ASSUME BridgeInv, UNCHANGED vars
      PROVE  BridgeInv'
  BY <1>2 DEF BridgeInv, TypeOK, Mirror, Tasks, Pins
<1>3. QED
  BY <1>1, <1>2

(* What the bridge is built on holds of every execution of it: the mirror, *)
(* the tasks that serve it, and what is left of a pin.                     *)
THEOREM Invariance == Spec => []BridgeInv
BY InitInv, InvStep, PTL DEF Spec

-----------------------------------------------------------------------------
(* What it is for                                                          *)

(* The registry that is read without the clients lock says what the        *)
(* clients say (bridge.rs: register, disconnect_bridge_client,             *)
(* remove_destroyed_window).                                               *)
THEOREM MirrorAlwaysAgrees == Spec => []MirrorAgrees
<1>1. BridgeInv => MirrorAgrees
  BY DEF BridgeInv, Mirror, MirrorAgrees
<1>2. QED
  BY <1>1, Invariance, PTL

(* No pending entry outlives the task that can answer or reject it         *)
(* (bridge.rs: the end of a connection task against a send in between).    *)
THEOREM NoneStranded == Spec => []NothingStranded
<1>1. BridgeInv => NothingStranded
  BY DEF BridgeInv, Tasks, NothingStranded
<1>2. QED
  BY <1>1, Invariance, PTL

LEMMA GoneIsFinal ==
  ASSUME TypeOK, Next, NEW c \in Conn, task[c] = "gone"
  PROVE  task'[c] = "gone"
BY WhatMovesTasks DEF Connect, LeaveLoop, Disconnect, RejectPending, TypeOK

(* What was authorised over a pin that has gone stale stays stale, through *)
(* every reconnection and reload (bridge.rs: pin_connection, is_current).  *)
THEOREM StaleForEver == Spec => PinStaysStale
<1>1. ASSUME BridgeInv, Next, NEW pin \in pins, Current(pin)'
      PROVE  Current(pin)
  <2>0. TypeOK /\ TypeOK' /\ Pins
    BY <1>1, NextTypes DEF BridgeInv
  <2>1. /\ pin.conn \in Conn \cup {None}
        /\ pin.key \in Nat /\ pin.connection.revision \in Nat
        /\ registry.revision \in Nat
        /\ key \in Nat /\ drawn \in Nat
    BY <2>0, BridgeAssumption DEF TypeOK, Pin, ConnectionState, BridgeKey
  <2>2. /\ ~(pin.conn # None /\ task'[pin.conn] = "gone")
        /\ pin.key # 0 /\ pin.key = key'
        /\ registry' = pin.connection
    BY <1>1 DEF Current, Closed, Verify
  <2>3. ~Closed(pin.conn)
    BY <1>1, <2>0, <2>1, <2>2, GoneIsFinal DEF Closed
  <2>4. key' = key /\ Verify(pin.key)
    BY <1>1, <2>0, <2>1, <2>2, KeysAreFresh DEF Pins, Verify
  <2>5. /\ registry.key = key
        /\ registry = pin.connection \/ registry.revision > pin.connection.revision
    BY <2>0, <2>2, <2>4 DEF Pins
  <2>6. registry' = registry \/ registry'.revision > registry.revision
    BY <1>1, <2>2, <2>4, <2>5, RevisionCounts
  <2>7. registry = pin.connection
    BY <2>1, <2>2, <2>5, <2>6
  <2>8. QED
    BY <2>3, <2>4, <2>7 DEF Current
<1>2. BridgeInv /\ [Next]_vars => [\A pin \in pins : ~Current(pin) => ~Current(pin)']_vars
  BY <1>1
<1>3. QED
  BY <1>2, Invariance, PTL DEF Spec, PinStaysStale

(* The late end of a connection, or of a window, never removes a client    *)
(* that is not its own (bridge.rs: disconnect_bridge_client,               *)
(* remove_destroyed_window).                                               *)
THEOREM LeavesForCause == Spec => ClientLeavesForCause
<1> DEFINE Cause == \/ client' # NoClient /\ Verify(client'.key)
                    \/ task[client.conn] = "left"
                    \/ ~Verify(client.key)
<1>1. ASSUME BridgeInv, Next, client # NoClient, client'.conn # client.conn
      PROVE  Cause
  <2>1. CASE RemoveDestroyedWindow
    BY <1>1, <2>1 DEF RemoveDestroyedWindow, BridgeInv, Mirror
  <2>2. ASSUME NEW c \in Conn, Disconnect(c)
        PROVE  Cause
    BY <1>1, <2>2 DEF Disconnect
  <2>3. ASSUME NEW c \in Conn, NEW k \in 1..MaxKeys, Hello(c, k)
        PROVE  Cause
    BY <1>1, <2>3, BridgeAssumption DEF Hello, NoClient
  <2>4. QED
    BY <1>1, <2>1, <2>2, <2>3, WhatRegisters DEF TakePin
<1>2. BridgeInv /\ [Next]_vars =>
        [client # NoClient /\ client'.conn # client.conn => Cause]_vars
  BY <1>1
<1>3. QED
  BY <1>2, Invariance, PTL DEF Spec, ClientLeavesForCause

-----------------------------------------------------------------------------
(* Where a request can be                                                  *)

(* A reply to the request that the task of c has not read.                 *)
Came(q, c, v) == [request |-> q, value |-> v] \in inbox[c]

Values == {"done", "not_run"}

(* The request is not in the page twice.                                   *)
OnePlace(q) ==
  /\ q \in commands => /\ q \notin evals
                       /\ <<q, "socket">> \notin running /\ <<q, "event">> \notin running
  /\ q \in evals => <<q, "socket">> \notin running /\ <<q, "event">> \notin running
  /\ ~(<<q, "socket">> \in running /\ <<q, "event">> \in running)

(* What is evaluated natively has no pending entry, and a value in the     *)
(* channel has used up the entry.                                          *)
OneWay(q) ==
  pending[q] # None => value[q] = "none" /\ q \notin evals /\ <<q, "event">> \notin running

(* A reply comes once, when the request has left the page.                 *)
OneReply(q) ==
  /\ value[q] \in Values => ~InPage(q)
  /\ \A c \in Conn, v \in Values : Came(q, c, v) =>
       /\ ~InPage(q)
       /\ value[q] \notin Values
       /\ \A d \in Conn, w \in Values : Came(q, d, w) => c = d /\ v = w

(* The body starts when the request is taken up, and a refusal means that  *)
(* it did not.                                                             *)
Runs(q) ==
  /\ runs[q] <= 1
  /\ q \in commands \cup evals => runs[q] = 0
  /\ value[q] = "not_run" => runs[q] = 0
  /\ \A c \in Conn : Came(q, c, "not_run") => runs[q] = 0

(* Between two attempts there is no trace of the request.                  *)
Untouched(q) ==
  /\ runs[q] = 0 /\ ~InPage(q)
  /\ pending[q] = None /\ value[q] = "none"
  /\ \A c \in Conn, v \in Values : ~Came(q, c, v)

Attempts(q) ==
  pc[q] \in {"new", "trying", "probing", "fallback"} => Untouched(q)

Told(q) ==
  /\ q \in watch \/ answer[q] # "none" \/ settled[q] # "none" => pc[q] = "over"
  /\ answer[q] = "not_dispatched" => runs[q] = 0 /\ ~InPage(q)
  /\ answer[q] = "done" \/ settled[q] = "known" => ~InPage(q)

Place(q) ==
  OnePlace(q) /\ OneWay(q) /\ OneReply(q) /\ Runs(q) /\ Attempts(q) /\ Told(q)

CallInv == TypeOK /\ \A q \in Request : Place(q)

-----------------------------------------------------------------------------
(* Steps that are no business of a request, or lose its traces             *)

Same(q) ==
  /\ pc'[q] = pc[q] /\ pending'[q] = pending[q] /\ value'[q] = value[q]
  /\ q \in watch' <=> q \in watch
  /\ answer'[q] = answer[q] /\ settled'[q] = settled[q]
  /\ runs'[q] = runs[q]

Loses(q) ==
  /\ q \in commands' => q \in commands
  /\ q \in evals' => q \in evals
  /\ \A way \in {"socket", "event"} : <<q, way>> \in running' => <<q, way>> \in running

LosesReply(q) == \A c \in Conn, v \in Values : Came(q, c, v)' => Came(q, c, v)

LEMMA InPageLost == \A q : Loses(q) /\ InPage(q)' => InPage(q)
BY DEF Loses, InPage

LEMMA QuietPlace ==
  ASSUME NEW q \in Request, Place(q), Same(q), Loses(q), LosesReply(q)
  PROVE  Place(q)'
<1> USE DEF Place, Same
<1>1. OnePlace(q)'
  BY DEF OnePlace, Loses
<1>2. OneWay(q)'
  BY DEF OneWay, Loses
<1>3. OneReply(q)'
  BY InPageLost DEF OneReply, LosesReply
<1>4. Runs(q)'
  BY DEF Runs, Loses, LosesReply, Values
<1>5. Attempts(q)'
  BY InPageLost DEF Attempts, Untouched, LosesReply
<1>6. Told(q)'
  BY InPageLost DEF Told
<1>7. QED
  BY <1>1, <1>2, <1>3, <1>4, <1>5, <1>6

(* A connection greets with its page key: no reply is put in an inbox.     *)
LEMMA HelloIsNoReply ==
  \A k, request, reply : [key |-> k] # [request |-> request, value |-> reply]
<1> SUFFICES ASSUME NEW k, NEW request, NEW reply,
                    [key |-> k] = [request |-> request, value |-> reply]
             PROVE  FALSE
  OBVIOUS
<1>1. "request" \in DOMAIN [request |-> request, value |-> reply]
  OBVIOUS
<1>2. "request" \notin DOMAIN [key |-> k]
  OBVIOUS
<1> QED
  BY <1>1, <1>2

LEMMA GreetingLosesReply ==
  ASSUME inbox \in [Conn -> SUBSET Message], NEW q \in Request, NEW k,
         inbox' = inbox \/ \E d : Say(d, [key |-> k])
  PROVE  LosesReply(q)
<1> SUFFICES ASSUME NEW c \in Conn, NEW reply \in Values, Came(q, c, reply)'
             PROVE  Came(q, c, reply)
  BY DEF LosesReply
<1>1. inbox'[c] = inbox[c] \/ inbox'[c] = inbox[c] \cup {[key |-> k]}
  BY DEF Say
<1> QED
  BY <1>1, HelloIsNoReply DEF Came

LEMMA WindowQuiet ==
  ASSUME TypeOK, NEW q \in Request,
         Window \/ SocketLost \/ RemoveDestroyedWindow \/ TakePin
           \/ \E pin \in pins : DropPin(pin)
  PROVE  Same(q) /\ Loses(q) /\ LosesReply(q)
<1>1. Same(q)
  BY DEF Window, SocketLost, WebviewReady, Navigate, Destroyed, InjectBridge, RunInit,
         RemoveDestroyedWindow, TakePin, DropPin, Same
<1>2. Loses(q)
  BY DEF Window, SocketLost, WebviewReady, Navigate, Destroyed, NoDocument, InjectBridge,
         RunInit, RemoveDestroyedWindow, TakePin, DropPin, Loses
<1>3. LosesReply(q)
  <2>1. CASE RunInit
    BY <2>1, GreetingLosesReply DEF RunInit, TypeOK
  <2>2. CASE UNCHANGED inbox
    BY <2>2 DEF LosesReply, Came
  <2>3. QED
    BY <2>1, <2>2 DEF Window, SocketLost, WebviewReady, Navigate, Destroyed, InjectBridge,
                      RemoveDestroyedWindow, TakePin, DropPin
<1>4. QED
  BY <1>1, <1>2, <1>3

(* A connection task too, but for results and rejections.                  *)
LEMMA ConnectionQuiet ==
  ASSUME TypeOK, NEW q \in Request, NEW d \in Conn,
         Connect(d) \/ LeaveLoop(d) \/ Disconnect(d) \/ \E k \in 1..MaxKeys : Hello(d, k)
  PROVE  Same(q) /\ Loses(q) /\ LosesReply(q)
<1>1. Same(q)
  BY DEF Connect, LeaveLoop, Disconnect, Hello, Same
<1>2. Loses(q)
  BY DEF Connect, LeaveLoop, Disconnect, Hello, Loses
<1>3. LosesReply(q)
  <2>1. CASE Connect(d)
    BY <2>1, GreetingLosesReply DEF Connect, TypeOK
  <2>2. CASE LeaveLoop(d)
    BY <2>2 DEF LeaveLoop, LosesReply, Came, TypeOK
  <2>3. CASE Disconnect(d)
    BY <2>3 DEF Disconnect, LosesReply, Came
  <2>4. CASE \E k \in 1..MaxKeys : Hello(d, k)
    BY <2>4 DEF Hello, Read, LosesReply, Came, TypeOK
  <2>5. QED
    BY <2>1, <2>2, <2>3, <2>4
<1>4. QED
  BY <1>1, <1>2, <1>3

(* And whatever concerns another request.                                  *)
LEMMA OthersQuiet ==
  ASSUME TypeOK, NEW q \in Request, NEW p \in Request \ {q},
         \/ Caller(p) \/ Abandon(p)
         \/ \E way \in {"socket", "event"} : Script(p, way)
  PROVE  Same(q) /\ Loses(q) /\ LosesReply(q)
<1>1. CASE Caller(p) \/ Abandon(p)
  <2>1. Same(q)
    BY <1>1 DEF Caller, Call, SendOnSocket, NoSocket, Probe, SendByEval, GiveUp, Answered,
                TimeOut, WatchLate, Settle, Abandon, At, Tell, Same, TypeOK
  <2>2. Loses(q)
    BY <1>1 DEF Caller, Call, SendOnSocket, NoSocket, Probe, SendByEval, GiveUp, Answered,
                TimeOut, WatchLate, Settle, Abandon, Loses
  <2>3. UNCHANGED inbox
    BY <1>1 DEF Caller, Call, SendOnSocket, NoSocket, Probe, SendByEval, GiveUp, Answered,
                TimeOut, WatchLate, Settle, Abandon
  <2>4. QED
    BY <2>1, <2>2, <2>3 DEF LosesReply, Came
<1>2. ASSUME NEW way \in {"socket", "event"}, Script(p, way)
      PROVE  Same(q) /\ Loses(q) /\ LosesReply(q)
  <2>1. Same(q)
    BY <1>2 DEF Script, Refuse, Run, Finish, Reply, Same, TypeOK
  <2>2. Loses(q)
    BY <1>2 DEF Script, Refuse, Run, Finish, Begin, Loses
  <2>3. LosesReply(q)
    BY <1>2 DEF Script, Refuse, Run, Finish, Reply, Say, LosesReply, Came, TypeOK
  <2>4. QED
    BY <2>1, <2>2, <2>3
<1>3. QED
  BY <1>1, <1>2

-----------------------------------------------------------------------------
(* The steps of the request's own call                                     *)

LEMMA InitPlace == Init => CallInv
<1> SUFFICES ASSUME Init, NEW q \in Request
             PROVE  Place(q)
  BY InitTypes DEF CallInv
<1>1. ~InPage(q) /\ \A c \in Conn, v \in Values : ~Came(q, c, v)
  BY DEF Init, InPage, Came
<1>2. QED
  BY <1>1 DEF Init, Place, OnePlace, OneWay, OneReply, Runs, Attempts, Untouched, Told, Values

(* Its place in the page and its replies are left alone by all of them but *)
(* the two that send.                                                      *)
LEMMA CallerQuiet ==
  ASSUME TypeOK, NEW q \in Request,
         \/ Call(q) \/ NoSocket(q) \/ \E b \in BOOLEAN : Probe(q, b)
         \/ GiveUp(q) \/ Answered(q) \/ TimeOut(q) \/ WatchLate(q) \/ Settle(q) \/ Abandon(q)
  PROVE  UNCHANGED <<commands, evals, running, inbox, runs>>
BY DEF Call, NoSocket, Probe, GiveUp, Answered, TimeOut, WatchLate, Settle, Abandon

LEMMA CallerPlace ==
  ASSUME TypeOK, NEW q \in Request, Place(q),
         \/ Call(q) \/ NoSocket(q) \/ \E b \in BOOLEAN : Probe(q, b)
         \/ GiveUp(q) \/ Answered(q) \/ TimeOut(q) \/ WatchLate(q) \/ Settle(q) \/ Abandon(q)
  PROVE  Place(q)'
<1> USE DEF Place
<1>1. UNCHANGED <<commands, evals, running, inbox, runs>>
  BY CallerQuiet
<1>2. /\ InPage(q)' <=> InPage(q)
      /\ \A c \in Conn, v \in Values : Came(q, c, v)' <=> Came(q, c, v)
  BY <1>1 DEF InPage, Came
(* What they do to the channel and the entry.                              *)
<1>3. /\ pending'[q] \in {None, pending[q]}
      /\ value'[q] \in {"none", value[q]}
  BY DEF Call, NoSocket, Probe, GiveUp, Answered, TimeOut, WatchLate, Settle, Abandon, TypeOK
<1>4. OnePlace(q)' /\ OneWay(q)' /\ OneReply(q)' /\ Runs(q)'
  BY <1>1, <1>2, <1>3 DEF OnePlace, OneWay, OneReply, Runs, Values
<1>5. Attempts(q)'
  <2>1. CASE Call(q) \/ NoSocket(q) \/ \E b \in BOOLEAN : Probe(q, b)
    <3>1. pc[q] \in {"new", "trying", "probing", "fallback"}
      BY <2>1 DEF Call, NoSocket, Probe, At
    <3>2. pending' = pending /\ value' = value
      BY <2>1 DEF Call, NoSocket, Probe
    <3>3. QED
      BY <1>1, <1>2, <3>1, <3>2 DEF Attempts, Untouched
  <2>2. CASE Answered(q)
    <3>1. SUFFICES ASSUME value[q] = "not_run"
                   PROVE  Untouched(q)'
      BY <2>2 DEF Answered, At, Attempts, TypeOK
    <3>2. value'[q] = "none" /\ pending'[q] = None
      BY <2>2, <3>1 DEF Answered, OneWay, TypeOK
    <3>3. runs[q] = 0 /\ ~InPage(q) /\ \A c \in Conn, v \in Values : ~Came(q, c, v)
      BY <3>1 DEF Runs, OneReply, Values
    <3>4. QED
      BY <1>1, <1>2, <3>2, <3>3 DEF Untouched
  <2>3. CASE GiveUp(q) \/ TimeOut(q) \/ WatchLate(q) \/ Abandon(q)
    BY <2>3 DEF GiveUp, TimeOut, WatchLate, Abandon, At, Attempts, TypeOK
  <2>4. CASE Settle(q)
    BY <2>4 DEF Settle, Told, Attempts
  <2>5. QED
    BY <2>1, <2>2, <2>3, <2>4
<1>6. Told(q)'
  <2>1. CASE Call(q) \/ NoSocket(q) \/ TimeOut(q) \/ Abandon(q) \/ \E b \in BOOLEAN : Probe(q, b)
    <3>1. pc[q] # "over"
      BY <2>1 DEF Call, NoSocket, TimeOut, Abandon, Probe, At
    <3>2. watch' = watch /\ answer' = answer /\ settled' = settled
      BY <2>1 DEF Call, NoSocket, TimeOut, Abandon, Probe
    <3>3. QED
      BY <3>1, <3>2 DEF Told
  <2>2. CASE GiveUp(q)
    BY <1>1, <1>2, <2>2 DEF GiveUp, At, Tell, Told, Attempts, Untouched, TypeOK
  <2>3. CASE Answered(q)
    <3>1. /\ pc[q] # "over" /\ watch' = watch /\ settled' = settled
          /\ pc'[q] = IF value[q] = "not_run" THEN "trying" ELSE "over"
          /\ value[q] \in Values \/ value[q] = "lost"
      BY <2>3 DEF Answered, At, TypeOK, Values
    <3>2. answer'[q] = CASE value[q] = "done" -> "done"
                         [] value[q] = "lost" -> "unknown"
                         [] OTHER -> answer[q]
      BY <2>3 DEF Answered, Tell, TypeOK
    <3>3. q \notin watch /\ answer[q] = "none" /\ settled[q] = "none"
      BY <3>1 DEF Told
    <3>4. CASE value[q] = "done"
      BY <1>2, <3>1, <3>2, <3>3, <3>4 DEF Told, OneReply, Values
    <3>5. CASE value[q] = "lost"
      BY <3>1, <3>2, <3>3, <3>5 DEF Told
    <3>6. CASE value[q] = "not_run"
      BY <3>1, <3>2, <3>3, <3>6 DEF Told
    <3>7. QED
      BY <3>1, <3>4, <3>5, <3>6 DEF Values
  <2>4. CASE WatchLate(q)
    BY <1>1, <1>2, <2>4 DEF WatchLate, At, Tell, Told, TypeOK
  <2>5. CASE Settle(q)
    <3>1. /\ q \in watch /\ q \notin watch' /\ pc' = pc /\ answer' = answer
          /\ settled'[q] = IF value[q] \in Values THEN "known" ELSE "lost"
      BY <2>5 DEF Settle, TypeOK, Values
    <3>2. QED
      BY <1>1, <1>2, <3>1 DEF Told, OneReply
  <2>6. QED
    BY <2>1, <2>2, <2>3, <2>4, <2>5
<1>7. QED
  BY <1>4, <1>5, <1>6

(* The two that send find no trace of it.                                  *)
LEMMA SendPlace ==
  ASSUME TypeOK, NEW q \in Request, Place(q),
         SendOnSocket(q) \/ \E b \in BOOLEAN : SendByEval(q, b)
  PROVE  Place(q)'
<1> USE DEF Place
<1>1. Untouched(q)
  BY DEF SendOnSocket, SendByEval, At, Attempts
<1>2. /\ q \notin commands \cup evals
      /\ <<q, "socket">> \notin running /\ <<q, "event">> \notin running
  BY <1>1 DEF Untouched, InPage
<1>3. UNCHANGED <<running, inbox, runs, value, watch, settled>>
  BY DEF SendOnSocket, SendByEval
<1>4. ~(q \in commands' /\ q \in evals')
  BY <1>2 DEF SendOnSocket, SendByEval
<1>5. pending'[q] # None => q \notin evals'
  BY <1>1, <1>2 DEF SendOnSocket, SendByEval, Untouched
<1>6. \A c \in Conn, v \in Values : ~Came(q, c, v)'
  BY <1>1, <1>3 DEF Untouched, Came
<1>7. OnePlace(q)' /\ OneWay(q)' /\ OneReply(q)' /\ Runs(q)'
  BY <1>1, <1>2, <1>3, <1>4, <1>5, <1>6 DEF OnePlace, OneWay, OneReply, Runs, Untouched, Values
<1>8. /\ pc'[q] \in {"on_socket", "on_event", "over"}
      /\ pc[q] # "over"
      /\ answer'[q] # "none" => answer'[q] = "unknown" /\ pc'[q] = "over"
  BY DEF SendOnSocket, SendByEval, At, Tell, Told, TypeOK
<1>9. Attempts(q)' /\ Told(q)'
  BY <1>3, <1>8 DEF Attempts, Told
<1>10. QED
  BY <1>7, <1>9

(* A script moves on in the page, and its reply leaves it.                 *)
LEMMA ScriptPlace ==
  ASSUME TypeOK, NEW q \in Request, Place(q),
         NEW way \in {"socket", "event"}, Script(q, way)
  PROVE  Place(q)'
<1> USE DEF Place
<1>1. InPage(q)
  BY DEF Script, Refuse, Run, Finish, Begin, InPage
<1>2. /\ value[q] \notin Values
      /\ \A c \in Conn, v \in Values : ~Came(q, c, v)
      /\ pc[q] \notin {"new", "trying", "probing", "fallback"}
      /\ answer[q] \notin {"done", "not_dispatched"} /\ settled[q] # "known"
  BY <1>1 DEF OneReply, Attempts, Untouched, Told
<1>3. UNCHANGED <<pc, pending, watch, answer, settled>>
  BY DEF Script, Refuse, Run, Finish
<1>4. Attempts(q)' /\ Told(q)'
  BY <1>2, <1>3 DEF Attempts, Told
<1>5. CASE Run(q, way)
  <2>1. UNCHANGED <<inbox, value>>
    BY <1>5 DEF Run
  <2>2. /\ runs[q] = 0 /\ runs'[q] = 1
        /\ q \notin commands' /\ q \notin evals'
        /\ running' = running \cup {<<q, way>>}
        /\ <<q, "socket">> \notin running /\ <<q, "event">> \notin running
    BY <1>5 DEF Run, Begin, Runs, OnePlace, TypeOK
  <2>3. way = "event" => q \in evals
    BY <1>5 DEF Run, Begin
  <2>4. \A c \in Conn, v \in Values : ~Came(q, c, v)'
    BY <1>2, <2>1 DEF Came
  <2>5. OnePlace(q)' /\ OneWay(q)'
    BY <1>3, <2>1, <2>2, <2>3 DEF OnePlace, OneWay
  <2>6. OneReply(q)' /\ Runs(q)'
    BY <1>2, <2>1, <2>2, <2>4 DEF OneReply, Runs, Values
  <2>7. QED
    BY <1>4, <2>5, <2>6
<1>6. CASE Refuse(q, way) \/ Finish(q, way)
  <2> DEFINE what == IF Refuse(q, way) THEN "not_run" ELSE "done"
  <2>1. Reply(q, way, what) /\ what \in Values /\ UNCHANGED runs
    BY <1>6 DEF Refuse, Finish, Values
  <2>2. /\ q \notin commands' /\ q \notin evals'
        /\ <<q, "socket">> \notin running' /\ <<q, "event">> \notin running'
    BY <1>6 DEF Refuse, Finish, Begin, OnePlace
  <2>3. ~InPage(q)'
    BY <2>2 DEF InPage
  <2>4. Refuse(q, way) => runs[q] = 0
    BY DEF Refuse, Begin, Runs
  <2>5. way = "event" => pending[q] = None
    BY <1>6 DEF Refuse, Finish, Begin, OneWay
  <2> HIDE DEF what
  <2>6. CASE way = "event"
    <3>1. inbox' = inbox /\ value'[q] \in {value[q], what}
      BY <2>1, <2>6 DEF Reply, TypeOK
    <3>2. \A c \in Conn, v \in Values : ~Came(q, c, v)'
      BY <1>2, <3>1 DEF Came
    <3>3. OnePlace(q)' /\ OneWay(q)'
      BY <1>3, <2>2, <2>5, <2>6 DEF OnePlace, OneWay
    <3>4. OneReply(q)'
      BY <2>3, <3>2 DEF OneReply
    <3>5. Runs(q)'
      BY <2>1, <2>2, <2>4, <3>1, <3>2 DEF Runs, Values, what
    <3>6. QED
      BY <1>4, <3>3, <3>4, <3>5
  <2>7. CASE way = "socket"
    <3>1. value' = value
      BY <2>1, <2>7 DEF Reply
    <3>2. \A c \in Conn, v \in Values : Came(q, c, v)' => c = ws /\ v = what
      BY <1>2, <2>1, <2>7 DEF Reply, Say, Came, TypeOK
    <3>3. OnePlace(q)' /\ OneWay(q)'
      BY <1>3, <2>2, <3>1 DEF OnePlace, OneWay
    <3>4. OneReply(q)'
      BY <1>2, <2>3, <3>1, <3>2 DEF OneReply
    <3>5. Runs(q)'
      BY <1>2, <2>1, <2>2, <2>4, <3>1, <3>2 DEF Runs, Values, what
    <3>6. QED
      BY <1>4, <3>3, <3>4, <3>5
  <2>8. QED
    BY <2>6, <2>7
<1>7. QED
  BY <1>5, <1>6 DEF Script

(* A reply that is read fills the channel it was meant for, or is dropped. *)
LEMMA ResultPlace ==
  ASSUME TypeOK, NEW q \in Request, Place(q), NEW d \in Conn,
         RejectPending(d) \/ \E message \in inbox[d] : Result(d, message)
  PROVE  Place(q)'
<1> USE DEF Place
<1>1. UNCHANGED <<commands, evals, running, pc, watch, answer, settled, runs>>
  BY DEF RejectPending, Result
<1>2. InPage(q)' <=> InPage(q)
  BY <1>1 DEF InPage
<1>3. OnePlace(q)' /\ Told(q)'
  BY <1>1, <1>2 DEF OnePlace, Told
<1>4. CASE RejectPending(d)
  <2>1. inbox' = inbox
    BY <1>4 DEF RejectPending
  <2>2. \/ pending'[q] = None /\ value'[q] = "lost" /\ pending[q] = d /\ d # None
        \/ pending'[q] = pending[q] /\ value'[q] = value[q]
    BY <1>4, BridgeAssumption DEF RejectPending, Reject
  <2>3. \A c \in Conn, v \in Values : Came(q, c, v)' <=> Came(q, c, v)
    BY <2>1 DEF Came
  <2>4. OneWay(q)' /\ OneReply(q)' /\ Runs(q)' /\ Attempts(q)'
    BY <1>1, <1>2, <2>2, <2>3 DEF OneWay, OneReply, Runs, Attempts, Untouched, Values
  <2>5. QED
    BY <1>3, <2>4
<1>5. ASSUME NEW message \in inbox[d], Result(d, message)
      PROVE  Place(q)'
  <2>1. message \in [request: Request, value: Values]
    BY <1>5 DEF Result, TypeOK, Message, Values
  <2>2. /\ LosesReply(q)
        /\ ~Came(message.request, d, message.value)'
    BY <1>5, <2>1 DEF Result, Read, LosesReply, Came, TypeOK
  <2>3. Came(message.request, d, message.value)
    BY <1>5, <2>1 DEF Came
  <2>4. CASE message.request = q /\ pending[q] = d
    <3>1. value'[q] = message.value /\ pending'[q] = None
      BY <1>5, <2>4 DEF Result, TypeOK
    <3>2. \A c \in Conn, v \in Values : ~Came(q, c, v)'
      BY <2>1, <2>2, <2>3, <2>4 DEF OneReply, LosesReply
    <3>3. ~InPage(q) /\ (message.value = "not_run" => runs[q] = 0)
      BY <2>1, <2>3, <2>4 DEF OneReply, Runs
    <3>4. pc[q] \notin {"new", "trying", "probing", "fallback"}
      BY <2>4, BridgeAssumption DEF Attempts, Untouched
    <3>5. OneWay(q)' /\ OneReply(q)' /\ Runs(q)' /\ Attempts(q)'
      BY <1>1, <1>2, <3>1, <3>2, <3>3, <3>4 DEF OneWay, OneReply, Runs, Attempts, Values
    <3>6. QED
      BY <1>3, <3>5
  <2>5. CASE ~(message.request = q /\ pending[q] = d)
    <3>1. Same(q) /\ Loses(q)
      BY <1>1, <1>5, <2>1, <2>5 DEF Result, Same, Loses, TypeOK
    <3>2. QED
      BY <2>2, <3>1, QuietPlace
  <2>6. QED
    BY <2>4, <2>5
<1>6. QED
  BY <1>4, <1>5

-----------------------------------------------------------------------------
(* The theorems                                                            *)

LEMMA NextPlace ==
  ASSUME TypeOK, Next, NEW q \in Request, Place(q)
  PROVE  Place(q)'
<1>1. CASE \/ Window \/ SocketLost \/ RemoveDestroyedWindow \/ TakePin
           \/ \E pin \in pins : DropPin(pin)
  BY <1>1, WindowQuiet, QuietPlace
<1>2. ASSUME NEW c \in Conn, Connect(c) \/ Connection(c)
      PROVE  Place(q)'
  <2>1. CASE RejectPending(c) \/ \E message \in inbox[c] : Result(c, message)
    BY <2>1, ResultPlace
  <2>2. CASE Connect(c) \/ LeaveLoop(c) \/ Disconnect(c) \/ \E k \in 1..MaxKeys : Hello(c, k)
    BY <2>2, ConnectionQuiet, QuietPlace
  <2>3. QED
    BY <1>2, <2>1, <2>2 DEF Connection
<1>3. ASSUME NEW p \in Request,
             \/ Caller(p) \/ Abandon(p)
             \/ \E way \in {"socket", "event"} : Script(p, way)
      PROVE  Place(q)'
  <2>1. CASE p # q
    BY <1>3, <2>1, OthersQuiet, QuietPlace
  <2>2. CASE p = q
    <3>1. CASE \E way \in {"socket", "event"} : Script(q, way)
      BY <3>1, ScriptPlace
    <3>2. CASE SendOnSocket(q) \/ \E b \in BOOLEAN : SendByEval(q, b)
      BY <3>2, SendPlace
    <3>3. CASE \/ Call(q) \/ NoSocket(q) \/ \E b \in BOOLEAN : Probe(q, b)
               \/ GiveUp(q) \/ Answered(q) \/ TimeOut(q) \/ WatchLate(q) \/ Settle(q)
               \/ Abandon(q)
      BY <3>3, CallerPlace
    <3>4. QED
      BY <1>3, <2>2, <3>1, <3>2, <3>3 DEF Caller
  <2>3. QED
    BY <2>1, <2>2
<1>4. QED
  BY <1>1, <1>2, <1>3 DEF Next, Traffic

LEMMA CallInvStep == CallInv /\ [Next]_vars => CallInv'
<1>1. ASSUME CallInv, Next
      PROVE  CallInv'
  BY <1>1, NextTypes, NextPlace DEF CallInv
<1>2. ASSUME CallInv, UNCHANGED vars
      PROVE  CallInv'
  <2>1. TypeOK'
    BY <1>2, NextTypes DEF CallInv
  <2>2. ASSUME NEW q \in Request
        PROVE  Place(q)'
    BY <1>2, QuietPlace DEF CallInv, Same, Loses, LosesReply, Came
  <2>3. QED
    BY <2>1, <2>2 DEF CallInv
<1>3. QED
  BY <1>1, <1>2

(* Every request is in one place at a time: on its way, in the page, in    *)
(* the channel or with its caller.                                         *)
THEOREM CallInvariance == Spec => []CallInv
BY InitPlace, CallInvStep, PTL DEF Spec

(* The body of a script starts at most once, over two transports, retries, *)
(* refusals, timeouts and reconnections (bridge.rs: execute_page_script).  *)
THEOREM RunsAtMostOnce == Spec => []AtMostOnce
<1>1. CallInv => AtMostOnce
  BY DEF CallInv, Place, Runs, AtMostOnce
<1>2. QED
  BY <1>1, CallInvariance, PTL

(* A caller that is told `not dispatched' may repeat its request, and one  *)
(* that is told a result, in time or late, may lift its quarantine         *)
(* (bridge.rs: PageDispatchError, watch_late_settlement).                  *)
THEOREM ToldTheTruth == Spec => []AnswersAreTrue
<1>1. CallInv => AnswersAreTrue
  BY DEF CallInv, Place, Told, AnswersAreTrue
<1>2. QED
  BY <1>1, CallInvariance, PTL

=============================================================================
