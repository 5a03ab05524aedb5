------------------------------ MODULE Picker ------------------------------
(***************************************************************************)
(* The element picker (src/plugin/src/picker/): a person points at an      *)
(* element of a window.  The host keeps an Entry and a lease of the window *)
(* for every picker and a task (run) that starts the page's surface, polls *)
(* it, cancels it and waits for its cleanup; the page (page.js) holds the  *)
(* surface itself, which swallows the input of the window while it is up.  *)
(* Host and page speak through scripts that may be slow, may be lost with  *)
(* their document and may run after the host stopped waiting for them.     *)
(*                                                                         *)
(* One window; a window that is destroyed and created again is one more    *)
(* document.  A repeated start with the key of an existing picker returns  *)
(* that picker and changes nothing.  What was selected, images, revisions  *)
(* and warnings are left out.                                              *)
(***************************************************************************)
EXTENDS Naturals, FiniteSets

CONSTANTS Picker,     \* picker ids, drawn at random in the code
          NoPicker,   \* no picker in the page
          MaxActive,  \* pickers that may be active at once
          MaxDocs     \* bound: documents the window shows

ASSUME PickerConstants == /\ NoPicker \notin Picker
                          /\ MaxActive \in Nat \ {0}
                          /\ MaxDocs \in Nat \ {0}

VARIABLES
  entry,        \* the Entry of each picker
  at,           \* what its run task does next
  asked,        \* the command that task sent last
  answer,       \* what the page answered to it, if anything
  shooting,     \* its capture task: "idle", "working" or "done"
  authorized,   \* whether the client's authorization stands
  doc,          \* the document of the window
  surface,      \* the page's `current`
  wire          \* scripts sent to the document that have not run

hostVars == <<entry, at, asked, answer, shooting, authorized>>
pageVars == <<doc, surface, wire>>
pickerVars == <<hostVars, pageVars>>

ActiveStatus == {"created", "installing", "awaiting_selection"}
EndStatus == {"cancelled", "expired", "target_changed", "failed"}
Unanswered == [kind |-> "none"]

Entries ==
  [status: {"none"} \cup ActiveStatus \cup EndStatus \cup {"selected"},
   cleanup: {"pending", "confirmed", "unconfirmed", "context_destroyed"},
   sequence: Nat, shot: {"none", "pending", "captured", "cancelled", "failed"},
   cancelCapture: BOOLEAN, selection: BOOLEAN, complete: BOOLEAN,
   context: 0..MaxDocs, pinned: BOOLEAN, lease: BOOLEAN,
   late: BOOLEAN, spent: BOOLEAN]

(* What the page tells of its surface.                                     *)
Reports == [kind: {"report"}, status: {"awaiting_selection", "selected"} \cup EndStatus,
            cleanup: {"pending", "confirmed", "unconfirmed"}, sequence: Nat]
Answers == Reports \cup [kind: {"refused", "refused_clean"}] \cup {Unanswered}

Surfaces == [picker: Picker \cup {NoPicker},
             status: {"awaiting_selection", "selected"} \cup EndStatus,
             cleanup: {"pending", "confirmed", "unconfirmed"}, sequence: Nat]

(* A reaped record is "gone"; its run task ended long before.              *)
At == {"none", "spawned", "preparing", "starting", "loop", "status", "cancel",
       "awaiting", "failed_call", "giveup", "giveup_waiting", "release", "done", "gone"}

PickerTypeOK ==
  /\ entry \in [Picker -> Entries]
  /\ at \in [Picker -> At]
  /\ asked \in [Picker -> {"none", "start", "status", "cancel"}]
  /\ answer \in [Picker -> Answers]
  /\ shooting \in [Picker -> {"idle", "working", "done"}]
  /\ authorized \in BOOLEAN
  /\ doc \in 1..MaxDocs
  /\ surface \in Surfaces
  /\ wire \subseteq [picker: Picker, cmd: {"start", "status", "cancel"}, awaited: BOOLEAN]

-----------------------------------------------------------------------------
(* An entry and what may happen to it (the methods of Entry)               *)

Active(e) == e.status \in ActiveStatus
CleanedUp(e) == e.cleanup \in {"confirmed", "context_destroyed"}

(* No status but the first terminal one is ever recorded.                  *)
Terminal(e, status) ==
  IF Active(e)
    THEN [e EXCEPT !.status = status,
                   !.shot = IF status # "selected" /\ @ = "pending" THEN "cancelled" ELSE @]
    ELSE e

Abandoned(e, shot) ==
  [e EXCEPT !.cancelCapture = TRUE, !.shot = IF @ = "pending" THEN shot ELSE @]

BeginTargetCleanup(e) == Abandoned(Terminal(e, "target_changed"), "failed")

RevokeEntry(e) ==
  [Abandoned(Terminal(e, "cancelled"), "cancelled") EXCEPT !.selection = FALSE]

Confirmed(e) == [e EXCEPT !.cleanup = "confirmed", !.lease = FALSE]
ContextDestroyed(e) == [e EXCEPT !.cleanup = "context_destroyed", !.lease = FALSE]

PageUnavailable(e) ==
  IF e.cleanup = "context_destroyed" THEN e ELSE ContextDestroyed(BeginTargetCleanup(e))

(* The status of an accepted report; sane: its selection passes
   sanitize_selection.                                                     *)
Heard(e, r, sane) ==
  IF r.status = "selected" /\ Active(e) /\ ~e.late
    THEN IF sane THEN [Terminal(e, "selected") EXCEPT !.selection = TRUE]
                 ELSE Terminal(e, "failed")
  ELSE IF r.status \in EndStatus THEN Terminal(e, r.status)
  ELSE IF r.status = "awaiting_selection" /\ Active(e) THEN [e EXCEPT !.status = r.status]
  ELSE e

(* Mutant: whatever ends the cleanup gives the lease back.                 *)
HeardAnyCleanup(e, r) ==
  [e EXCEPT !.cleanup = IF r.cleanup = "pending" THEN @ ELSE r.cleanup,
            !.lease = @ /\ r.cleanup = "pending"]

HeardCleanup(e, r) ==
  [e EXCEPT !.cleanup = IF r.cleanup = "pending" THEN @ ELSE r.cleanup,
            !.lease = @ /\ r.cleanup # "confirmed"]

Accept(e, r, sane) ==
  IF e.cleanup = "context_destroyed" \/ r.sequence <= e.sequence
    THEN e
    ELSE [HeardCleanup(Heard(e, r, sane), r) EXCEPT !.sequence = r.sequence]

(* Mutant: the loop waits for the page without a deadline.                 *)
RefreshWithoutDeadline(e) ==
  LET revoked == IF authorized THEN e ELSE RevokeEntry(e)
  IN IF e.pinned THEN revoked ELSE BeginTargetCleanup(revoked)

(* What the loop does to the entry before it looks.                        *)
Refresh(e) ==
  LET revoked == IF authorized THEN e ELSE RevokeEntry(e)
      current == IF e.pinned THEN revoked ELSE BeginTargetCleanup(revoked)
  IN IF ~e.late THEN current
     ELSE LET expired == Terminal(current, "expired")
          IN IF expired.shot = "pending" THEN Abandoned(expired, "failed") ELSE expired

Change(p, e) == entry' = [entry EXCEPT ![p] = e]
Goto(p, step) == at' = [at EXCEPT ![p] = step]

Kept(p) == at[p] \notin {"none", "gone"}
Leased == \E p \in Picker : entry[p].lease

-----------------------------------------------------------------------------
(* Requests of clients, whose authorization was checked when they came     *)

Blank == [status |-> "none", cleanup |-> "pending", sequence |-> 0, shot |-> "none",
          cancelCapture |-> FALSE, selection |-> FALSE, complete |-> FALSE,
          context |-> 0, pinned |-> FALSE, lease |-> FALSE, late |-> FALSE, spent |-> FALSE]

Created(shot) == [Blank EXCEPT !.status = "created", !.shot = shot, !.lease = TRUE]

Busy(p) == Kept(p) /\ (Active(entry[p]) \/ entry[p].cleanup = "pending")

(* reserve: the lease, which nothing else may have, and the memory that the
   record needs: without it the record ends.                               *)
Reserve(p) ==
  /\ at[p] = "none"
  /\ Cardinality({q \in Picker : Busy(q)}) < MaxActive
  /\ ~Leased
  /\ \E shot \in {"none", "pending"} :
       \/ Change(p, Created(shot)) /\ Goto(p, "spawned")
       \/ /\ Change(p, [Confirmed(Terminal(Created(shot), "failed")) EXCEPT !.complete = TRUE])
          /\ Goto(p, "done")
  /\ UNCHANGED <<asked, answer, shooting, authorized, pageVars>>

(* action = "cancel".  Of a picker that ended with its cleanup unconfirmed
   it asks the page once more; the page's answer is complete when it is
   given, so asking and hearing are one step.                              *)
Cancel(p) ==
  /\ Kept(p)
  /\ LET ended == Terminal(entry[p], "cancelled")
         cancelled == IF ended.shot = "pending" THEN Abandoned(ended, "cancelled") ELSE ended
     IN \/ Change(p, cancelled) /\ UNCHANGED surface
        \/ /\ cancelled.complete /\ cancelled.cleanup = "unconfirmed"
           /\ surface.picker = p /\ cancelled.context = doc
           /\ \E told \in {surface, [surface EXCEPT !.cleanup = "confirmed",
                                                    !.sequence = @ + 1]} :
                /\ told = surface \/ surface.cleanup = "unconfirmed"
                /\ surface' = told
                /\ Change(p, Accept(cancelled, [kind |-> "report", status |-> told.status,
                                                cleanup |-> told.cleanup,
                                                sequence |-> told.sequence], TRUE))
  /\ UNCHANGED <<at, asked, answer, shooting, authorized, doc, wire>>

(* Registry::reap, minutes after its capture task ended.                   *)
Reap(p) ==
  /\ at[p] = "done" /\ entry[p].complete /\ ~entry[p].lease
  /\ shooting[p] # "working"
  /\ Goto(p, "gone") /\ Change(p, Blank)
  /\ UNCHANGED <<asked, answer, shooting, authorized, pageVars>>

-----------------------------------------------------------------------------
(* The run task                                                            *)

EndEarly(p, e) ==
  Change(p, [Confirmed(e) EXCEPT !.complete = TRUE]) /\ Goto(p, "done")

(* From the spawn to the pin of the connection.                            *)
Begin(p) ==
  /\ at[p] = "spawned"
  /\ IF Active(entry[p]) /\ ~entry[p].late
       THEN Change(p, [entry[p] EXCEPT !.status = "installing", !.pinned = TRUE])
              /\ Goto(p, "preparing")
       ELSE EndEarly(p, Terminal(entry[p], "expired"))
  /\ UNCHANGED <<asked, answer, shooting, authorized, pageVars>>

Prepare(p) ==
  /\ at[p] = "preparing"
  /\ \/ Change(p, [entry[p] EXCEPT !.context = doc]) /\ Goto(p, "starting")
     \/ EndEarly(p, Terminal(entry[p], "failed"))
  /\ UNCHANGED <<asked, answer, shooting, authorized, pageVars>>

Send(p, cmd) ==
  /\ wire' = IF entry[p].context = doc
               THEN wire \cup {[picker |-> p, cmd |-> cmd, awaited |-> TRUE]} ELSE wire
  /\ asked' = [asked EXCEPT ![p] = cmd]
  /\ Goto(p, "awaiting")

NotStarted(e) == Confirmed(Terminal(e, "failed"))

(* The start, which is permitted once more at the moment it is sent.       *)
StartSurface(p) ==
  /\ at[p] = "starting"
  /\ LET e == entry[p] IN
     IF authorized /\ Active(e)
       THEN IF e.pinned /\ ~e.late
              THEN Send(p, "start") /\ UNCHANGED entry
              ELSE Change(p, NotStarted(e)) /\ Goto(p, "loop") /\ UNCHANGED <<asked, wire>>
       ELSE /\ Change(p, LET cancelled == Terminal(e, "cancelled")
                         IN IF e.cleanup = "context_destroyed" THEN cancelled
                                                               ELSE Confirmed(cancelled))
            /\ Goto(p, "loop") /\ UNCHANGED <<asked, wire>>
  /\ UNCHANGED <<answer, shooting, authorized, doc, surface>>

(* The bridge could not hand the start to the page at all.                 *)
StartNotDispatched(p) ==
  /\ at[p] = "starting" /\ authorized /\ Active(entry[p])
  /\ Change(p, NotStarted(entry[p])) /\ Goto(p, "loop")
  /\ UNCHANGED <<asked, answer, shooting, authorized, pageVars>>

(* The top of the loop: look at the entry, then act on what was seen.      *)
Look(p) ==
  /\ at[p] = "loop"
  /\ LET e == Refresh(entry[p])
         needsCapture == e.shot = "pending"
     IN /\ Change(p, e)
        /\ shooting' = IF e.status = "selected" /\ needsCapture /\ authorized
                            /\ shooting[p] = "idle"
                         THEN [shooting EXCEPT ![p] = "working"] ELSE shooting
        /\ Goto(p, IF ~Active(e) /\ CleanedUp(e) /\ ~needsCapture THEN "release"
                   ELSE IF ~Active(e) /\ ~CleanedUp(e) /\ e.spent
                     THEN IF needsCapture THEN "giveup_waiting" ELSE "giveup"
                   ELSE IF ~Active(e) /\ (e.status # "selected" \/ e.cancelCapture)
                     THEN "cancel" ELSE "status")
  /\ UNCHANGED <<asked, answer, authorized, pageVars>>

(* The entry was unlocked since Look: its cleanup may be another by now.   *)
GiveUpCleanup(p) ==
  /\ at[p] \in {"giveup", "giveup_waiting"}
  /\ Change(p, [entry[p] EXCEPT !.cleanup = "unconfirmed"])
  /\ Goto(p, IF at[p] = "giveup" THEN "release" ELSE "loop")
  /\ UNCHANGED <<asked, answer, shooting, authorized, pageVars>>

(* page_call: a status of an active picker needs its connection.           *)
Poll(p) ==
  /\ at[p] \in {"status", "cancel"}
  /\ IF at[p] = "status" /\ Active(entry[p]) /\ ~entry[p].pinned
       THEN /\ asked' = [asked EXCEPT ![p] = "status"]
            /\ Goto(p, "failed_call") /\ UNCHANGED wire
       ELSE Send(p, at[p])
  /\ UNCHANGED <<entry, answer, shooting, authorized, doc, surface>>

Answered(p) == at[p] = "awaiting" /\ answer[p] # Unanswered
Hung(p) == answer' = [answer EXCEPT ![p] = Unanswered]

(* page_call looks at the connection once more before it gives what the
   page answered to a start or to a status of an active picker: the answer
   is dropped if the connection is another by then.                        *)
LostPin(p) ==
  /\ Answered(p) /\ ~entry[p].pinned
  /\ \/ /\ asked[p] = "start"
        /\ Change(p, Terminal(entry[p], "failed")) /\ Goto(p, "loop")
     \/ asked[p] = "status" /\ UNCHANGED entry /\ Goto(p, "failed_call")
  /\ Hung(p)
  /\ UNCHANGED <<asked, shooting, authorized, pageVars>>

(* A report, of the start or of a poll; the connection may be lost between
   that look and this one.                                                 *)
Report(p) ==
  /\ Answered(p) /\ answer[p].kind = "report"
  /\ LET e == IF authorized THEN entry[p] ELSE RevokeEntry(entry[p])
     IN IF Active(e) /\ ~e.pinned
          THEN Change(p, BeginTargetCleanup(e))
          ELSE \E sane \in BOOLEAN : Change(p, Accept(e, answer[p], sane))
  /\ Goto(p, "loop") /\ Hung(p)
  /\ UNCHANGED <<asked, shooting, authorized, pageVars>>

(* A start that the page refused; "refused_clean" proves that nothing was
   put up.                                                                 *)
StartRefused(p) ==
  /\ Answered(p) /\ asked[p] = "start" /\ answer[p].kind # "report"
  /\ Change(p, LET failed == Terminal(entry[p], "failed")
               IN IF answer[p].kind = "refused_clean" THEN Confirmed(failed) ELSE failed)
  /\ Goto(p, "loop") /\ Hung(p)
  /\ UNCHANGED <<asked, shooting, authorized, pageVars>>

PollRefused(p) ==
  /\ Answered(p) /\ asked[p] # "start" /\ answer[p].kind # "report"
  /\ Goto(p, "failed_call") /\ Hung(p)
  /\ UNCHANGED <<entry, asked, shooting, authorized, pageVars>>

(* The host stops waiting.  The script stays where it is; a late status is
   dropped, for it does nothing that the next one does not do.             *)
StopWaiting(p) ==
  {IF m.picker = p THEN [m EXCEPT !.awaited = FALSE] ELSE m
     : m \in {n \in wire : n.picker # p \/ n.cmd # "status"}}

CallTimedOut(p) ==
  /\ at[p] = "awaiting" /\ answer[p] = Unanswered
  /\ wire' = StopWaiting(p)
  /\ IF asked[p] = "start"
       THEN Change(p, Terminal(entry[p], "failed")) /\ Goto(p, "loop")
       ELSE UNCHANGED entry /\ Goto(p, "failed_call")
  /\ UNCHANGED <<asked, answer, shooting, authorized, doc, surface>>

(* After a failed poll the document is probed.  A slow answer over the same
   connection, from the same document, leaves an active picker as it is.   *)
Probe(p) ==
  /\ at[p] = "failed_call"
  /\ LET e == entry[p] IN
     \E probe \in {"answered", "slow", "failed"} :
       \/ /\ e.cleanup = "context_destroyed" \/ (probe = "answered" /\ doc # e.context)
          /\ Change(p, PageUnavailable(e)) /\ Goto(p, "release")
       \/ /\ e.cleanup # "context_destroyed" /\ ~(probe = "answered" /\ doc # e.context)
          /\ \/ /\ Active(e) /\ asked[p] = "status" /\ e.pinned /\ probe # "failed"
                /\ UNCHANGED entry
             \/ Change(p, BeginTargetCleanup(e))
          /\ Goto(p, "loop")
  /\ UNCHANGED <<asked, answer, shooting, authorized, pageVars>>

(* The release of the selected node was asked for and waited on, for at
   most 300 ms; whatever came of it, this follows.                         *)
Finish(p) ==
  /\ at[p] = "release"
  /\ LET e == [entry[p] EXCEPT !.complete = TRUE]
     IN Change(p, IF authorized THEN e ELSE RevokeEntry(e))
  /\ Goto(p, "done")
  /\ UNCHANGED <<asked, answer, shooting, authorized, pageVars>>

RunTask(p) ==
  \/ Begin(p) \/ Prepare(p) \/ StartSurface(p) \/ StartNotDispatched(p)
  \/ Look(p) \/ GiveUpCleanup(p) \/ Poll(p)
  \/ LostPin(p) \/ Report(p) \/ StartRefused(p) \/ PollRefused(p) \/ CallTimedOut(p)
  \/ Probe(p) \/ Finish(p)

(* capture and save_image                                                  *)
CaptureEnds(p) ==
  /\ shooting[p] = "working"
  /\ shooting' = [shooting EXCEPT ![p] = "done"]
  /\ LET e == entry[p] IN
     \/ /\ authorized /\ e.shot = "pending" /\ e.pinned /\ ~e.late /\ ~e.cancelCapture
        /\ Change(p, [e EXCEPT !.shot = "captured"])
     \/ /\ authorized /\ ~e.pinned
        /\ Change(p, BeginTargetCleanup(e))
     \/ Change(p, [e EXCEPT !.shot = IF @ = "pending" THEN "failed" ELSE @])
  /\ UNCHANGED <<at, asked, answer, authorized, pageVars>>

-----------------------------------------------------------------------------
(* The page                                                                *)

Ask(m, given) ==
  answer' = IF m.awaited THEN [answer EXCEPT ![m.picker] = given] ELSE answer

Snapshot(s) ==
  [kind |-> "report", status |-> s.status, cleanup |-> s.cleanup, sequence |-> s.sequence]

FinishSurface(status) == [surface EXCEPT !.status = status, !.sequence = @ + 1]

Ran(m) == wire' = wire \ {m}
PageOnly == UNCHANGED <<entry, at, asked, shooting, authorized, doc>>

PageStart(m) ==
  /\ m \in wire /\ m.cmd = "start" /\ Ran(m)
  /\ \/ /\ surface.picker = m.picker
        /\ Ask(m, Snapshot(surface)) /\ UNCHANGED surface
     \/ /\ surface.picker \notin {m.picker, NoPicker}
        /\ surface.status = "awaiting_selection" \/ surface.cleanup = "pending"
        /\ Ask(m, [kind |-> "refused"]) /\ UNCHANGED surface
     \/ /\ \/ surface.picker = NoPicker
           \/ /\ surface.picker # m.picker
              /\ surface.status # "awaiting_selection" /\ surface.cleanup # "pending"
        /\ \/ Ask(m, [kind |-> "refused_clean"]) /\ UNCHANGED surface
           \/ /\ surface' = [picker |-> m.picker, status |-> "awaiting_selection",
                             cleanup |-> "pending", sequence |-> 1]
              /\ Ask(m, Snapshot(surface'))
  /\ PageOnly

PageStatus(m) ==
  /\ m \in wire /\ m.cmd \in {"status", "cancel"} /\ Ran(m)
  /\ IF surface.picker # m.picker
       THEN Ask(m, [kind |-> "refused"]) /\ UNCHANGED surface
       ELSE /\ \/ UNCHANGED surface /\ (m.cmd = "cancel" => surface.status # "awaiting_selection")
               \/ /\ m.cmd = "status" /\ surface.cleanup = "unconfirmed"
                  /\ surface' = [surface EXCEPT !.cleanup = "confirmed", !.sequence = @ + 1]
               \/ /\ m.cmd = "cancel" /\ surface.status = "awaiting_selection"
                  /\ surface' = FinishSurface("cancelled")
            /\ Ask(m, Snapshot(surface'))
  /\ PageOnly

(* A person selects or presses Escape, the page's watchdog fires, or the   *)
(* page runtime is disposed of or suspended.                               *)
UserEnds ==
  /\ surface.picker # NoPicker /\ surface.status = "awaiting_selection"
  /\ \E status \in {"selected", "cancelled", "expired", "target_changed"} : surface' = FinishSurface(status)
  /\ UNCHANGED <<hostVars, doc, wire>>

(* The guard drains, or its hard timer fires.                              *)
TornDown ==
  /\ surface.picker # NoPicker
  /\ surface.status # "awaiting_selection" /\ surface.cleanup = "pending"
  /\ \E cleanup \in {"confirmed", "unconfirmed"} :
       surface' = [surface EXCEPT !.cleanup = cleanup, !.sequence = @ + 1]
  /\ UNCHANGED <<hostVars, doc, wire>>

-----------------------------------------------------------------------------
(* The surroundings                                                        *)

NoSurface == [picker |-> NoPicker, status |-> "cancelled", cleanup |-> "confirmed",
              sequence |-> 0]

WindowClosed(p) ==
  LET e == entry[p]
  IN IF Kept(p) /\ (~e.complete \/ e.lease)
       THEN [ContextDestroyed(BeginTargetCleanup(e)) EXCEPT !.pinned = FALSE]
       ELSE [e EXCEPT !.pinned = FALSE]

(* A page load starts, or the window is destroyed and created again.       *)
PageChanged ==
  /\ doc < MaxDocs
  /\ doc' = doc + 1
  /\ surface' = NoSurface /\ wire' = {}
  /\ entry' = [p \in Picker |-> WindowClosed(p)]
  /\ UNCHANGED <<at, asked, answer, shooting, authorized>>

ConnectionLost(p) ==
  /\ entry[p].pinned
  /\ Change(p, [entry[p] EXCEPT !.pinned = FALSE])
  /\ UNCHANGED <<at, asked, answer, shooting, authorized, pageVars>>

Unauthorize ==
  /\ authorized /\ authorized' = FALSE
  /\ UNCHANGED <<entry, at, asked, answer, shooting, pageVars>>

DeadlinePasses(p) ==
  /\ Kept(p) /\ ~entry[p].complete /\ ~entry[p].late
  /\ Change(p, [entry[p] EXCEPT !.late = TRUE])
  /\ UNCHANGED <<at, asked, answer, shooting, authorized, pageVars>>

CleanupBudgetSpent(p) ==
  /\ Kept(p) /\ ~entry[p].complete /\ ~Active(entry[p]) /\ ~entry[p].spent
  /\ Change(p, [entry[p] EXCEPT !.spent = TRUE])
  /\ UNCHANGED <<at, asked, answer, shooting, authorized, pageVars>>

-----------------------------------------------------------------------------
PickerInit ==
  /\ entry = [p \in Picker |-> Blank]
  /\ at = [p \in Picker |-> "none"]
  /\ asked = [p \in Picker |-> "none"]
  /\ answer = [p \in Picker |-> Unanswered]
  /\ shooting = [p \in Picker |-> "idle"]
  /\ authorized = TRUE
  /\ doc = 1 /\ surface = NoSurface /\ wire = {}

PickerNext ==
  \/ \E p \in Picker :
       \/ Reserve(p) \/ Cancel(p) \/ Reap(p)
       \/ RunTask(p) \/ CaptureEnds(p)
       \/ ConnectionLost(p) \/ DeadlinePasses(p) \/ CleanupBudgetSpent(p)
  \/ \E m \in wire : PageStart(m) \/ PageStatus(m)
  \/ UserEnds \/ TornDown
  \/ PageChanged \/ Unauthorize

PickerSpec == PickerInit /\ [][PickerNext]_pickerVars

(* The host's tasks run, its calls and its captures time out and its clock *)
(* advances; the page, the person and the client owe nothing.              *)
PickerFairness ==
  \A p \in Picker :
    /\ WF_pickerVars(RunTask(p)) /\ WF_pickerVars(CaptureEnds(p))
    /\ WF_pickerVars(DeadlinePasses(p)) /\ WF_pickerVars(CleanupBudgetSpent(p))

FairPickerSpec == PickerSpec /\ PickerFairness

-----------------------------------------------------------------------------
(* Nothing else has the window while a picker's surface swallows its input *)
(* or its removal is not confirmed: neither a start that runs after the    *)
(* host gave it up, nor a cancel, a revocation or a slow answer gives the  *)
(* lease back early (src/plugin/src/picker/mod.rs, Entry::accept).         *)
LeaseCoversSurface ==
  \A p \in Picker :
    surface.picker = p /\ surface.cleanup # "confirmed" => entry[p].lease

(* Every picker completes, whatever the page, the person and the           *)
(* connection do.                                                          *)
EveryPickerCompletes ==
  \A p \in Picker : at[p] = "spawned" ~> entry[p].complete

(* Nor is the lease kept for nothing: of a picker that is complete, only a *)
(* cleanup that the page did not confirm keeps the window.                 *)
OnlyUnconfirmedKeepsLease ==
  \A p \in Picker : entry[p].complete /\ entry[p].lease => entry[p].cleanup = "unconfirmed"

(* A picker has the window exactly as long as its surface may need it.     *)
LeaseFollowsSurface == LeaseCoversSurface /\ OnlyUnconfirmedKeepsLease
=============================================================================
