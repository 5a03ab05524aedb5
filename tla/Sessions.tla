------------------------------ MODULE Sessions ------------------------------
(***************************************************************************)
(* The sessions of the MCP endpoint (src/plugin/src/mcp.rs).  Streamable   *)
(* HTTP: initialize opens a session, every request refreshes it, and any   *)
(* request, of whomever, drops those that were idle for too long.  Legacy  *)
(* SSE: a stream is a session, and replies to what is posted for it travel *)
(* on the stream.  A handler reads the clock before it awaits the lock of  *)
(* the sessions, and is dropped with the connection of its client.         *)
(*                                                                         *)
(* What a tool call does is CommandLeases'.  Of the headers only the       *)
(* session is modelled, and whether the protocol version they may state is *)
(* the session's; bodies and status codes are left out.                    *)
(***************************************************************************)
EXTENDS Naturals, FiniteSets

CONSTANTS Post,         \* requests that may be under way
          Stream,       \* legacy streams
          MaxSessions,  \* bound: initialize requests
          IdleTTL,      \* STREAMABLE_SESSION_IDLE_TTL_MS
          MaxWait,      \* bound: how long a handler awaits the lock
          EndOfTime     \* bound: the clock

ASSUME SessionConstants ==
  MaxSessions \in Nat /\ IdleTTL \in Nat /\ MaxWait \in Nat /\ EndOfTime \in Nat

SessionId == 1..MaxSessions

VARIABLES
  wall,     \* the wall clock
  posts,    \* the handler of each request
  sessions, \* id -> when it was last seen
  opened,   \* how many sessions were opened
  streams,  \* the connection of each legacy stream
  legacy,   \* legacy_sessions
  removals, \* tasks that LegacySessionGuard spawned
  refreshed \* ghost: when a session last accepted a request

sessionVars == <<wall, posts, sessions, opened, streams, legacy, removals, refreshed>>

NoPost == [at |-> "none", kind |-> "none", session |-> 0, agrees |-> TRUE, now |-> 0]

Running(session) == [NoPost EXCEPT !.at = "running", !.session = session]

SessionsInit ==
  /\ wall = 0 /\ posts = [p \in Post |-> NoPost] /\ sessions = <<>> /\ opened = 0
  /\ streams = [s \in Stream |-> "none"] /\ legacy = {} /\ removals = {}
  /\ refreshed = [id \in SessionId |-> 0]

-----------------------------------------------------------------------------
(* Streamable HTTP                                                         *)

(* What passed the checks of its headers: the session it names may have    *)
(* ended.                                                                  *)
Arrive(p, kind, id, agrees) ==
  /\ posts[p].at = "none"
  /\ posts' = [posts EXCEPT ![p] = [at |-> "waiting", kind |-> kind, session |-> id,
                                    agrees |-> agrees, now |-> wall]]
  /\ UNCHANGED <<wall, sessions, opened, streams, legacy, removals, refreshed>>

(* prune_idle_sessions; saturating_sub *)
Unpruned(at) == {id \in DOMAIN sessions : at <= sessions[id] + IdleTTL}

Opened(p) ==
  /\ posts[p].at = "waiting" /\ posts[p].kind = "initialize"
  /\ opened < MaxSessions /\ opened' = opened + 1
  /\ sessions' = [id \in Unpruned(posts[p].now) \cup {opened'} |->
       IF id = opened' THEN posts[p].now ELSE sessions[id]]
  /\ refreshed' = [refreshed EXCEPT ![opened'] = wall]
  /\ posts' = [posts EXCEPT ![p] = NoPost]
  /\ UNCHANGED <<wall, streams, legacy, removals>>

(* Mutant: a request does not refresh its session.                         *)
SeenWhenOpened(id, at) == sessions[id]

SeenAt(id, at) == at

(* require_streamable_session, and the method of a request; notifications  *)
(* and responses end here.                                                 *)
Require(p) ==
  /\ posts[p].at = "waiting" /\ posts[p].kind = "request"
  /\ LET id == posts[p].session
         kept == Unpruned(posts[p].now)
         accepted == id \in kept /\ posts[p].agrees
     IN /\ sessions' = [k \in kept |->
             IF accepted /\ k = id THEN SeenAt(k, posts[p].now) ELSE sessions[k]]
        /\ refreshed' = IF accepted THEN [refreshed EXCEPT ![id] = wall] ELSE refreshed
        /\ \/ accepted /\ posts' = [posts EXCEPT ![p] = Running(id)]
           \/ posts' = [posts EXCEPT ![p] = NoPost]
  /\ UNCHANGED <<wall, opened, streams, legacy, removals>>

(* streamable_delete prunes nothing, and stops no call that is running.    *)
Delete(p) ==
  /\ posts[p].at = "waiting" /\ posts[p].kind = "delete"
  /\ sessions' = [id \in DOMAIN sessions \ {posts[p].session} |-> sessions[id]]
  /\ posts' = [posts EXCEPT ![p] = NoPost]
  /\ UNCHANGED <<wall, opened, streams, legacy, removals, refreshed>>

(* The reply, or the client has gone and axum drops the handler: on the    *)
(* way to the lock, in the tool call, or before a reply was delivered.     *)
EndPost(p) ==
  /\ posts[p].at # "none"
  /\ posts' = [posts EXCEPT ![p] = NoPost]
  /\ UNCHANGED <<wall, sessions, opened, streams, legacy, removals, refreshed>>

-----------------------------------------------------------------------------
(* Legacy SSE                                                              *)
OpenStream(s) ==
  /\ streams[s] = "none"
  /\ streams' = [streams EXCEPT ![s] = "open"]
  /\ legacy' = legacy \cup {s}
  /\ UNCHANGED <<wall, posts, sessions, opened, removals, refreshed>>

(* The receiver and LegacySessionGuard are dropped with the stream.        *)
CloseStream(s) ==
  /\ streams[s] = "open"
  /\ streams' = [streams EXCEPT ![s] = "closed"]
  /\ removals' = removals \cup {s}
  /\ UNCHANGED <<wall, posts, sessions, opened, legacy, refreshed>>

DropStream(s) ==
  /\ s \in removals /\ removals' = removals \ {s}
  /\ legacy' = legacy \ {s}
  /\ UNCHANGED <<wall, posts, sessions, opened, streams, refreshed>>

MayPost(s) == s \in legacy /\ streams[s] = "open"

(* legacy_message_post: refused, or it runs with a sender of the stream.   *)
PostMessage(p, s) ==
  /\ posts[p].at = "none" /\ MayPost(s)
  /\ posts' = [posts EXCEPT ![p] = Running(s)]
  /\ UNCHANGED <<wall, sessions, opened, streams, legacy, removals, refreshed>>

-----------------------------------------------------------------------------
SessionTick ==
  /\ wall < EndOfTime /\ wall' = wall + 1
  /\ \A p \in Post : posts[p].at = "waiting" => wall' <= posts[p].now + MaxWait
  /\ UNCHANGED <<posts, sessions, opened, streams, legacy, removals, refreshed>>

SessionsNext ==
  \/ \E p \in Post :
       \/ Arrive(p, "initialize", 0, TRUE)
       \/ \E id \in 1..opened : Arrive(p, "delete", id, TRUE)
       \/ \E id \in 1..opened, agrees \in BOOLEAN : Arrive(p, "request", id, agrees)
       \/ Opened(p) \/ Require(p) \/ Delete(p) \/ EndPost(p)
       \/ \E s \in Stream : PostMessage(p, s)
  \/ \E s \in Stream : OpenStream(s) \/ CloseStream(s) \/ DropStream(s)
  \/ SessionTick

SessionsSpec == SessionsInit /\ [][SessionsNext]_sessionVars

-----------------------------------------------------------------------------
DeletedBy(p, id) ==
  posts[p].at = "waiting" /\ posts[p].kind = "delete" /\ posts[p].session = id
  /\ posts'[p] = NoPost

(* A session ends only when its client deletes it or has not used it for   *)
(* as long as idle sessions are kept, less what a handler awaits the lock  *)
(* (two requests may pass each other on the way to it), whoever else opens *)
(* sessions meanwhile and prunes; and a legacy session ends with its       *)
(* stream (mcp.rs, prune_idle_sessions: "Drop Streamable HTTP sessions     *)
(* that have been idle past the TTL").                                     *)
SessionsEndForCause == [][
  /\ \A id \in DOMAIN sessions \ DOMAIN sessions' :
       (\E p \in Post : DeletedBy(p, id)) \/ wall + MaxWait > refreshed[id] + IdleTTL
  /\ \A s \in legacy \ legacy' : streams[s] = "closed"
]_sessionVars
=============================================================================
