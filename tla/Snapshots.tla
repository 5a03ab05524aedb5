----------------------------- MODULE Snapshots -----------------------------
(***************************************************************************)
(* The cache of DOM snapshots of one window (src/plugin/src/state.rs,      *)
(* push_dom) and the sessions of files beside it (handlers.rs,             *)
(* dom_snapshot): explicit snapshots of several callers, and those that    *)
(* the page pushes on its own in the background.                           *)
(*                                                                         *)
(* A snapshot is its number; its refs, its text and its files are those of *)
(* that number.  The raw HTML, modes and ages are left out.                *)
(***************************************************************************)
EXTENDS Naturals, Sequences, FiniteSets

CONSTANTS
  Snapper,      \* calls of dom_snapshot
  MaxSessions,  \* MAX_SESSIONS, the directories that a prune keeps
  MaxPushes,    \* bound: background pushes
  Index         \* the files beside the subtrees: layout.txt, refs.json, meta.json

ASSUME SnapshotConstants == MaxSessions \in Nat \ {0} /\ MaxPushes \in Nat

VARIABLES
  taken,       \* snapshots that the page took
  background,  \* which of them it pushed on its own
  generations, \* DOM_GENERATION
  cache,       \* the window's DomEntry
  pushing,     \* background pushes that have their generation, not the lock
  snapper,     \* what each call is doing
  sessions,    \* the directories below snapshots/, the last modified last
  pruner,      \* who has snapshot_prune_lock, and what is left to remove
  evicted,     \* history: the snapshots whose directory a prune set out to remove
  unwritten,   \* history: the index files that could not be written
  unremoved    \* history: the snapshots whose directory could not be removed

failures == <<unwritten, unremoved>>
snapshotVars == <<taken, background, generations, cache, pushing, snapper, sessions,
                  pruner, evicted, failures>>

(* Snapshot 0 is none.  refs stands for refs, snapshot and meta.           *)
NoDom == [generation |-> 0, explicit |-> FALSE, refs |-> 0, text |-> 0, session |-> 0]

-----------------------------------------------------------------------------
(* push_dom                                                                *)

(* The entry that is cached; a background push keeps an explicit snapshot. *)
Merged(generation, snapshot, explicit) ==
  IF cache.explicit /\ ~explicit
    THEN [cache EXCEPT !.generation = generation]
    ELSE [generation |-> generation, explicit |-> explicit, refs |-> snapshot,
          text |-> 0, session |-> 0]

(* The page takes a snapshot on its own and invokes push_dom, which draws  *)
(* a generation before it waits for the lock.                              *)
PushBackground ==
  /\ Cardinality(background) < MaxPushes
  /\ taken' = taken + 1 /\ background' = background \cup {taken + 1}
  /\ generations' = generations + 1
  /\ pushing' = pushing \cup {[snapshot |-> taken + 1, generation |-> generations + 1]}
  /\ UNCHANGED <<cache, snapper, sessions, pruner, evicted, failures>>

InsertBackground(p) ==
  /\ p \in pushing /\ pushing' = pushing \ {p}
  /\ cache' = Merged(p.generation, p.snapshot, FALSE)
  /\ UNCHANGED <<taken, background, generations, snapper, sessions, pruner, evicted,
                 failures>>

-----------------------------------------------------------------------------
(* dom_snapshot                                                            *)

To(c, at) == snapper' = [snapper EXCEPT ![c].at = at]

TakeSnapshot(c) ==
  /\ snapper[c].at = "new"
  /\ taken' = taken + 1
  /\ snapper' = [snapper EXCEPT ![c].at = "answered", ![c].snapshot = taken + 1]
  /\ UNCHANGED <<background, generations, cache, pushing, sessions, pruner, evicted, failures>>

DrawGeneration(c) ==
  /\ snapper[c].at = "answered"
  /\ generations' = generations + 1
  /\ snapper' = [snapper EXCEPT ![c].at = "pushing", ![c].generation = generations + 1]
  /\ UNCHANGED <<taken, background, cache, pushing, sessions, pruner, evicted, failures>>

(* A page that did not split its snapshot writes no files.                 *)
InsertSnapshot(c) ==
  /\ snapper[c].at = "pushing"
  /\ cache' = Merged(snapper[c].generation, snapper[c].snapshot, TRUE)
  /\ To(c, "split") \/ To(c, "inline")
  /\ UNCHANGED <<taken, background, generations, pushing, sessions, pruner, evicted, failures>>

Exists(s) == \E i \in DOMAIN sessions : sessions[i].snapshot = s

(* A directory is there once; without it the older and the newer remain.   *)
Place(s) == CHOOSE i \in DOMAIN sessions : sessions[i].snapshot = s
Others(s) ==
  IF ~Exists(s) THEN sessions
  ELSE [i \in 1 .. (Len(sessions) - 1) |-> sessions[IF i < Place(s) THEN i ELSE i + 1]]

(* Each file that is written makes the directory the newest.               *)
Touch(s, files) == sessions' = Append(Others(s), [snapshot |-> s, files |-> files])

CreateSession(c) ==
  /\ snapper[c].at = "split"
  /\ \/ Touch(snapper[c].snapshot, {}) /\ To(c, "writing")
     \/ UNCHANGED sessions /\ To(c, "inline")
  /\ UNCHANGED <<taken, background, generations, cache, pushing, pruner, evicted, failures>>

(* The subtrees; one that cannot be written, because the disk is full or   *)
(* the directory was pruned meanwhile, takes the others with it, unless    *)
(* the directory cannot be removed either, which is ignored.               *)
WriteSubtrees(c) ==
  /\ snapper[c].at = "writing"
  /\ \/ Exists(snapper[c].snapshot)
        /\ Touch(snapper[c].snapshot, {"subtrees"}) /\ To(c, "indexing")
        /\ UNCHANGED unremoved
     \/ sessions' = Others(snapper[c].snapshot) /\ To(c, "inline")
        /\ UNCHANGED unremoved
     \/ UNCHANGED sessions /\ To(c, "inline")
        /\ unremoved' = unremoved \cup {snapper[c].snapshot}
  /\ UNCHANGED <<taken, background, generations, cache, pushing, pruner, evicted, unwritten>>

(* layout.txt, refs.json and meta.json: any of them may fail, and all do   *)
(* if the directory was pruned meanwhile.  That is logged, and the call    *)
(* goes on as if they were there.                                          *)
WriteIndex(c) ==
  /\ snapper[c].at = "indexing"
  /\ \E written \in SUBSET Index :
       /\ \/ Exists(snapper[c].snapshot)
             /\ Touch(snapper[c].snapshot, {"subtrees"} \cup written)
          \/ written = {} /\ UNCHANGED sessions
       /\ unwritten' = unwritten \cup [snapshot: {snapper[c].snapshot}, file: Index \ written]
  /\ To(c, "patch")
  /\ UNCHANGED <<taken, background, generations, cache, pushing, pruner, evicted, unremoved>>

(* Mutant: whatever the window has now is patched.                         *)
StillOwnAnyway(c) == cache # NoDom

StillOwn(c) == cache.generation = snapper[c].generation

PatchEntry(c) ==
  /\ snapper[c].at = "patch"
  /\ cache' = IF StillOwn(c)
                THEN [cache EXCEPT !.text = snapper[c].snapshot,
                                   !.session = snapper[c].snapshot]
                ELSE cache
  /\ To(c, "prune")
  /\ UNCHANGED <<taken, background, generations, pushing, sessions, pruner, evicted, failures>>

(* prune_old_snapshots: the directory is read once, then those beyond the  *)
(* newest are removed one after the other; one that gets a file meanwhile  *)
(* loses those it had, but stays.  What fails is ignored: nothing can be   *)
(* listed, or one of them cannot be removed.                               *)
Excess == {sessions[i].snapshot : i \in 1 .. (Len(sessions) - MaxSessions)}

ListSessions(c) ==
  /\ snapper[c].at = "prune" /\ pruner = {}
  /\ \/ pruner' = {[caller |-> c, doomed |-> Excess]} /\ To(c, "pruning")
        /\ UNCHANGED unremoved
     \/ unremoved' = unremoved \cup Excess /\ To(c, "files") /\ UNCHANGED pruner
  /\ UNCHANGED <<taken, background, generations, cache, pushing, sessions, evicted, unwritten>>

BeingWritten(s) ==
  \E d \in Snapper : snapper[d].at \in {"writing", "indexing"} /\ snapper[d].snapshot = s

RemoveSession(c) ==
  \E p \in pruner :
    /\ p.caller = c
    /\ \/ \E s \in p.doomed :
            /\ pruner' = {[p EXCEPT !.doomed = @ \ {s}]}
            /\ evicted' = evicted \cup {s} /\ UNCHANGED snapper
            /\ \/ sessions' = Others(s) /\ UNCHANGED unremoved
               \/ BeingWritten(s) /\ UNCHANGED <<sessions, unremoved>>
               \/ UNCHANGED sessions /\ unremoved' = unremoved \cup {s}
       \/ /\ p.doomed = {} /\ pruner' = {} /\ To(c, "files")
          /\ UNCHANGED <<sessions, evicted, unremoved>>
    /\ UNCHANGED <<taken, background, generations, cache, pushing, unwritten>>

-----------------------------------------------------------------------------
SnapshotInit ==
  /\ taken = 0 /\ background = {} /\ generations = 0 /\ cache = NoDom /\ pushing = {}
  /\ snapper = [c \in Snapper |-> [at |-> "new", snapshot |-> 0, generation |-> 0]]
  /\ sessions = <<>> /\ pruner = {} /\ evicted = {} /\ unwritten = {} /\ unremoved = {}

SnapshotNext ==
  \/ PushBackground
  \/ \E p \in pushing : InsertBackground(p)
  \/ \E c \in Snapper :
       \/ TakeSnapshot(c) \/ DrawGeneration(c) \/ InsertSnapshot(c)
       \/ CreateSession(c) \/ WriteSubtrees(c) \/ WriteIndex(c) \/ PatchEntry(c)
       \/ ListSessions(c) \/ RemoveSession(c)

SnapshotSpec == SnapshotInit /\ [][SnapshotNext]_snapshotVars

-----------------------------------------------------------------------------
(* However pushes, patches, writes and prunes interleave, the refs that    *)
(* callers resolve, the text that is searched and the files that are named *)
(* belong to one snapshot, an explicit one as soon as there was one.  A    *)
(* session that is named has all its subtrees until it is evicted, and     *)
(* layout.txt, refs.json and meta.json too but for those whose write       *)
(* failed: that is only logged, and the reply names refs.json all the      *)
(* same.  No more than MaxSessions remain once every call is over, besides *)
(* those that the file system did not let go                               *)
(* (src/plugin/src/handlers.rs:752, 762, 813 and 828, state.rs:218).       *)
OneSnapshot ==
  /\ cache.text \in {0, cache.refs} /\ cache.session \in {0, cache.refs}
  /\ cache.refs \in background =>
       \A c \in Snapper : snapper[c].at \in {"new", "answered", "pushing"}

FilesDue(s) == {"subtrees"} \cup {f \in Index : [snapshot |-> s, file |-> f] \notin unwritten}

FilesOfSnapshot(s) ==
  \/ s \in evicted
  \/ \E i \in DOMAIN sessions : sessions[i].snapshot = s /\ FilesDue(s) \subseteq sessions[i].files

NothingIsMixed ==
  /\ OneSnapshot
  /\ cache.session # 0 => FilesOfSnapshot(cache.session)
  /\ \A c \in Snapper : snapper[c].at = "files" => FilesOfSnapshot(snapper[c].snapshot)
  /\ (\A c \in Snapper : snapper[c].at \in {"inline", "files"}) =>
       Cardinality({i \in DOMAIN sessions : sessions[i].snapshot \notin unremoved}) <= MaxSessions
=============================================================================
