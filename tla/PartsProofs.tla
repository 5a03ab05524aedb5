---------------------------- MODULE PartsProofs -----------------------------
(***************************************************************************)
(* Theorems about four of the parts of the plugin that share no state: about *)
(* Picker, for any pickers and any number of documents, that a picker has  *)
(* the window as long as its surface may need it and for no other reason   *)
(* longer; about Batch, for any number of actions and any specification    *)
(* that validate accepts, that actions run in order and all are reported;  *)
(* about Artifacts, for any number of saves, prunes, failures and kills,   *)
(* that what a caller was told is saved stays; about Logs, for any number  *)
(* of entries, documents and readers, that an entry is stored once or lost *)
(* for a cause, and that a reader finds what was flushed.                  *)
(*                                                                         *)
(* The arguments.  A surface is put up only by the one start that is sent, *)
(* and that is sent while the entry has the lease.  What gives the lease   *)
(* back is that the start was not sent, that the page refused it, that the *)
(* page confirmed the removal, or that the document is another one: in     *)
(* each case no start is out and no surface is up that is not removed.     *)
(*                                                                         *)
(* The count of an action is the number of its dependencies that are not   *)
(* over, and the queue holds the actions whose count is zero, each of them *)
(* once.  So when the queue is empty and nothing runs, every action that is *)
(* not over waits for another that is not; but validate found all actions  *)
(* in the rounds of Kahn's algorithm, and one in the earliest round that   *)
(* has any cannot wait for another.                                        *)
(*                                                                         *)
(* The lines of a prune are sorted, so what it lets go has as many others  *)
(* before it as are kept.  Two artifacts of one name are of one millisecond *)
(* and in the order of their saves: when the older one is kept, so is the  *)
(* other, and its file is not deleted.                                     *)
(*                                                                         *)
(* The numbers of the lines in a buffer are consecutive, so what is pending *)
(* are its last lines, and exactly those were not handed over.  Every entry *)
(* is in one place, a buffer, a push, a reply or a log, or it is lost; an  *)
(* answered flush leaves nothing in the buffer.                            *)
(***************************************************************************)
EXTENDS Picker, Batch, Artifacts, Logs, FiniteSetTheorems, WellFoundedInduction, TLAPS

-----------------------------------------------------------------------------
(* Picker: the lease of a picker                                           *)

StartOut(p) == \E m \in wire : m.picker = p /\ m.cmd = "start"

PickerOK(p) ==
  /\ at[p] \in {"none", "spawned", "preparing", "starting"} =>
       /\ surface.picker # p /\ \A m \in wire : m.picker # p
       /\ answer[p] = Unanswered
  /\ (at[p] \in {"spawned", "preparing", "starting"} /\ Active(entry[p])) => entry[p].lease
  /\ StartOut(p) => /\ entry[p].lease /\ entry[p].context = doc
                    /\ surface.picker # p /\ at[p] # "gone"
  /\ (surface.picker = p /\ at[p] # "gone") => entry[p].context = doc
  /\ (surface.picker = p /\ surface.cleanup # "confirmed") => entry[p].lease
  /\ answer[p].kind = "refused_clean" => ~StartOut(p) /\ surface.picker # p
  /\ (answer[p].kind = "report" /\ answer[p].cleanup = "confirmed") =>
       ~StartOut(p) /\ (surface.picker = p => surface.cleanup = "confirmed")
  /\ entry[p].cleanup \in {"confirmed", "context_destroyed"} => ~entry[p].lease
  /\ entry[p].complete => at[p] = "done"
  /\ (at[p] \in {"release", "done"} /\ entry[p].lease) => entry[p].cleanup = "unconfirmed"

(* A picker's start is sent once.                                          *)
StartsOnce ==
  \A m, n \in wire : (m.cmd = "start" /\ n.cmd = "start" /\ m.picker = n.picker) => m = n

PickerIInv == PickerTypeOK /\ StartsOnce /\ \A p \in Picker : PickerOK(p)

-----------------------------------------------------------------------------
(* What happens to an entry                                                *)

(* e has become f, and that says nothing of its surface.                   *)
SameSurface(f, e) ==
  /\ f \in Entries
  /\ f.lease = e.lease /\ f.cleanup = e.cleanup
  /\ f.complete = e.complete /\ f.context = e.context
  /\ Active(f) => Active(e)

LEMMA TerminalKeeps ==
  ASSUME NEW e \in Entries, NEW status \in EndStatus \cup {"selected"}
  PROVE  SameSurface(Terminal(e, status), e)
<1>1. CASE Active(e)
  <2>1. PICK shot \in {"none", "pending", "captured", "cancelled", "failed"} :
          Terminal(e, status) = [e EXCEPT !.status = status, !.shot = shot]
    BY <1>1 DEF Terminal, Entries
  <2> QED BY <1>1, <2>1 DEF SameSurface, Entries, Active, EndStatus
<1>2. CASE ~Active(e)
  BY <1>2 DEF Terminal, SameSurface
<1> QED BY <1>1, <1>2

LEMMA AbandonedKeeps ==
  ASSUME NEW e \in Entries, NEW shot \in {"none", "pending", "captured", "cancelled", "failed"}
  PROVE  SameSurface(Abandoned(e, shot), e)
BY DEF SameSurface, Abandoned, Entries, Active

LEMMA CleanupBegins ==
  ASSUME NEW e \in Entries
  PROVE  SameSurface(BeginTargetCleanup(e), e) /\ ~Active(BeginTargetCleanup(e))
<1>1. SameSurface(Terminal(e, "target_changed"), e) /\ ~Active(Terminal(e, "target_changed"))
  BY TerminalKeeps DEF EndStatus, Terminal, Active, ActiveStatus, Entries
<1>2. SameSurface(BeginTargetCleanup(e), Terminal(e, "target_changed"))
  BY <1>1, AbandonedKeeps DEF SameSurface, BeginTargetCleanup
<1> QED BY <1>1, <1>2 DEF SameSurface

LEMMA RevokeKeeps ==
  ASSUME NEW e \in Entries
  PROVE  SameSurface(RevokeEntry(e), e)
<1> DEFINE t == Terminal(e, "cancelled")
           a == Abandoned(t, "cancelled")
<1>1. SameSurface(t, e)
  BY TerminalKeeps DEF EndStatus
<1>2. SameSurface(a, t)
  BY <1>1, AbandonedKeeps DEF SameSurface
<1> HIDE DEF t, a
<1>3. SameSurface([a EXCEPT !.selection = FALSE], a)
  BY <1>2 DEF SameSurface, Entries, Active
<1> QED BY <1>1, <1>2, <1>3 DEF SameSurface, RevokeEntry, t, a

(* What gives the lease back.                                              *)
LEMMA LeaseReturned ==
  ASSUME NEW e \in Entries
  PROVE  /\ Confirmed(e) \in Entries /\ ContextDestroyed(e) \in Entries
         /\ ~Confirmed(e).lease /\ ~ContextDestroyed(e).lease
         /\ Confirmed(e).cleanup = "confirmed"
         /\ ContextDestroyed(e).cleanup = "context_destroyed"
         /\ Confirmed(e).complete = e.complete /\ ContextDestroyed(e).complete = e.complete
         /\ Confirmed(e).context = e.context /\ ContextDestroyed(e).context = e.context
         /\ (Active(Confirmed(e)) <=> Active(e)) /\ (Active(ContextDestroyed(e)) <=> Active(e))
BY DEF Entries, Confirmed, ContextDestroyed, Active

LEMMA HeardKeeps ==
  ASSUME NEW e \in Entries, NEW r \in Reports, NEW sane \in BOOLEAN
  PROVE  SameSurface(Heard(e, r, sane), e)
<1> DEFINE t == Terminal(e, "selected")
<1>1. SameSurface(t, e)
  BY TerminalKeeps
<1> HIDE DEF t
<1>2. SameSurface([t EXCEPT !.selection = TRUE], e)
  BY <1>1 DEF SameSurface, Entries, Active
<1>3. SameSurface(Terminal(e, "failed"), e)
  BY TerminalKeeps DEF EndStatus
<1>4. r.status \in EndStatus => SameSurface(Terminal(e, r.status), e)
  BY TerminalKeeps
<1>5. (r.status = "awaiting_selection" /\ Active(e)) => SameSurface([e EXCEPT !.status = r.status], e)
  BY DEF SameSurface, Entries, Active, ActiveStatus
<1>6. SameSurface(e, e)
  BY DEF SameSurface
<1> QED BY <1>2, <1>3, <1>4, <1>5, <1>6 DEF Heard, t

(* A report gives the lease back exactly when the removal is confirmed.    *)
LEMMA AcceptedReport ==
  ASSUME NEW e \in Entries, NEW r \in Reports, NEW sane \in BOOLEAN
  PROVE  LET f == Accept(e, r, sane)
         IN /\ f \in Entries /\ f.complete = e.complete /\ f.context = e.context
            /\ \/ f.lease = e.lease /\ f.cleanup = e.cleanup
               \/ f.lease = e.lease /\ f.cleanup = "unconfirmed" /\ e.cleanup # "context_destroyed"
               \/ ~f.lease /\ f.cleanup = "confirmed" /\ r.cleanup = "confirmed"
<1> DEFINE h == Heard(e, r, sane)
           c == HeardCleanup(h, r)
<1>1. SameSurface(h, e)
  BY HeardKeeps
<1> HIDE DEF h
<1>2. /\ c \in Entries /\ c.complete = h.complete /\ c.context = h.context
      /\ \/ c.lease = h.lease /\ c.cleanup = h.cleanup
         \/ c.lease = h.lease /\ c.cleanup = "unconfirmed"
         \/ ~c.lease /\ c.cleanup = "confirmed" /\ r.cleanup = "confirmed"
  <2>1. CASE r.cleanup = "pending"
    <3>1. c = [h EXCEPT !.cleanup = h.cleanup, !.lease = h.lease]
      BY <1>1, <2>1 DEF HeardCleanup, SameSurface, Entries
    <3> QED BY <1>1, <3>1 DEF SameSurface, Entries
  <2>2. CASE r.cleanup = "unconfirmed"
    <3>1. c = [h EXCEPT !.cleanup = "unconfirmed", !.lease = h.lease]
      BY <1>1, <2>2 DEF HeardCleanup, SameSurface, Entries
    <3> QED BY <1>1, <3>1 DEF SameSurface, Entries
  <2>3. CASE r.cleanup = "confirmed"
    <3>1. c = [h EXCEPT !.cleanup = "confirmed", !.lease = FALSE]
      BY <1>1, <2>3 DEF HeardCleanup, SameSurface, Entries
    <3> QED BY <1>1, <2>3, <3>1 DEF SameSurface, Entries
  <2> QED BY <2>1, <2>2, <2>3 DEF Reports
<1>3. r.sequence \in Nat
  BY DEF Reports
<1> HIDE DEF c
<1>4. LET f == [c EXCEPT !.sequence = r.sequence]
      IN f \in Entries /\ f.complete = c.complete /\ f.context = c.context /\ f.lease = c.lease /\ f.cleanup = c.cleanup
  BY <1>2, <1>3 DEF Entries
<1>5. Accept(e, r, sane) = e \/ (e.cleanup # "context_destroyed" /\ Accept(e, r, sane) = [c EXCEPT !.sequence = r.sequence])
  BY DEF Accept, c, h
<1> QED BY <1>1, <1>2, <1>4, <1>5 DEF SameSurface

LEMMA RefreshKeeps ==
  ASSUME NEW e \in Entries
  PROVE  SameSurface(Refresh(e), e)
<1> DEFINE revoked == IF authorized THEN e ELSE RevokeEntry(e)
           current == IF e.pinned THEN revoked ELSE BeginTargetCleanup(revoked)
           expired == Terminal(current, "expired")
<1>1. SameSurface(revoked, e)
  BY RevokeKeeps DEF SameSurface
<1>2. SameSurface(current, revoked)
  BY <1>1, CleanupBegins DEF SameSurface
<1>3. SameSurface(expired, current)
  BY <1>2, TerminalKeeps DEF SameSurface, EndStatus
<1>4. SameSurface(Abandoned(expired, "failed"), expired)
  BY <1>3, AbandonedKeeps DEF SameSurface
<1>5. Refresh(e) \in {current, expired, Abandoned(expired, "failed")}
  BY DEF Refresh
<1> HIDE DEF revoked, current, expired
<1> QED BY <1>1, <1>2, <1>3, <1>4, <1>5 DEF SameSurface

LEMMA FirstEntry ==
  /\ Blank \in Entries /\ ~Blank.lease /\ ~Blank.complete /\ Blank.cleanup = "pending"
  /\ ~Active(Blank)
  /\ \A shot \in {"none", "pending"} :
       /\ Created(shot) \in Entries /\ Created(shot).lease
       /\ ~Created(shot).complete /\ Created(shot).cleanup = "pending"
<1>1. /\ Blank \in Entries /\ ~Blank.lease /\ ~Blank.complete /\ Blank.cleanup = "pending"
      /\ Blank.status = "none"
  BY PickerConstants DEF Blank, Entries
<1>2. ASSUME NEW shot \in {"none", "pending"}
      PROVE  /\ Created(shot) \in Entries /\ Created(shot).lease
             /\ ~Created(shot).complete /\ Created(shot).cleanup = "pending"
  BY <1>1 DEF Created, Entries, ActiveStatus
<1> QED BY <1>1, <1>2 DEF Active, ActiveStatus

-----------------------------------------------------------------------------
(* What a step leaves alone                                                *)

(* For q: its entry and its task stay, nothing new is sent for it, and its *)
(* surface, if it is up, is not un-removed.                                *)
Untouched(q) ==
  /\ entry'[q] = entry[q] /\ at'[q] = at[q] /\ answer'[q] = answer[q]
  /\ doc' = doc
  /\ \A m \in wire' : m.picker = q => \E n \in wire : n.picker = q /\ n.cmd = m.cmd
  /\ surface'.picker = q =>
       /\ surface.picker = q
       /\ surface.cleanup = "confirmed" => surface'.cleanup = "confirmed"

LEMMA UntouchedStays ==
  ASSUME NEW q \in Picker, PickerOK(q), Untouched(q)
  PROVE  PickerOK(q)'
<1>1. StartOut(q)' => StartOut(q)
  BY DEF Untouched, StartOut
<1>2. Active(entry[q])' <=> Active(entry[q])
  BY DEF Untouched, Active
<1> QED BY <1>1, <1>2 DEF Untouched, PickerOK

(* A step of one picker's host side, which sends no start.                 *)
HostStep(p) ==
  /\ \A q \in Picker \ {p} : entry'[q] = entry[q] /\ at'[q] = at[q] /\ answer'[q] = answer[q]
  /\ answer'[p] \in {answer[p], Unanswered}
  /\ doc' = doc /\ surface' = surface
  /\ StartsOnce'
  /\ \A m \in wire' : m.picker # p => m \in wire
  /\ \A m \in wire' : (m.picker = p /\ m.cmd = "start") => StartOut(p)
  /\ at'[p] \in {"none", "spawned", "preparing", "starting"} => wire' = wire

LEMMA OthersStay ==
  ASSUME PickerIInv, NEW p \in Picker, HostStep(p)
  PROVE  \A q \in Picker \ {p} : PickerOK(q)'
<1>1. \A q \in Picker \ {p} : Untouched(q)
  BY DEF HostStep, Untouched
<1> QED BY <1>1, UntouchedStays DEF PickerIInv

(* The entry changes in what does not concern its surface, and the task    *)
(* goes on without sending.                                                *)
LEMMA EntryGoesOn ==
  ASSUME PickerIInv, NEW p \in Picker, HostStep(p),
         SameSurface(entry'[p], entry[p]),
         at'[p] = "gone" <=> at[p] = "gone",
         at'[p] \in {"none", "spawned", "preparing", "starting"} =>
           at[p] \in {"none", "spawned", "preparing", "starting"} /\ (at[p] = "none" => at'[p] = "none"),
         at'[p] \in {"release", "done"} =>
           \/ at[p] = "release" \/ at'[p] = at[p]
           \/ entry[p].cleanup \in {"confirmed", "context_destroyed", "unconfirmed"},
         at[p] = "done" => at'[p] = "done"
  PROVE  StartsOnce' /\ (\A q \in Picker : PickerOK(q)')
<1>1. PickerOK(p)
  BY DEF PickerIInv
<1>2. StartOut(p)' => StartOut(p)
  BY DEF HostStep, StartOut
<1>3. Active(entry[p])' => Active(entry[p])
  BY DEF SameSurface, Active
<1>4. PickerOK(p)'
  BY <1>1, <1>2, <1>3 DEF HostStep, SameSurface, PickerOK, Unanswered
<1> QED BY <1>4, OthersStay DEF HostStep

(* The cleanup is given up, or the page could not confirm it.              *)
LEMMA CleanupFails ==
  ASSUME PickerIInv, NEW p \in Picker, HostStep(p),
         entry'[p].lease = entry[p].lease, entry'[p].context = entry[p].context,
         entry'[p].complete = entry[p].complete,
         entry'[p].cleanup \in {entry[p].cleanup, "unconfirmed"},
         at[p] \notin {"gone", "done"},
         at'[p] = "loop" \/ (at'[p] = "release" /\ entry'[p].cleanup = "unconfirmed")
  PROVE  StartsOnce' /\ (\A q \in Picker : PickerOK(q)')
<1>1. PickerOK(p)
  BY DEF PickerIInv
<1>2. StartOut(p)' => StartOut(p)
  BY DEF HostStep, StartOut
<1>3. PickerOK(p)'
  BY <1>1, <1>2 DEF HostStep, PickerOK, Unanswered
<1> QED BY <1>3, OthersStay DEF HostStep

(* The lease goes back where nothing of the picker is in the document.     *)
Absent(p) == ~StartOut(p) /\ (surface.picker = p => surface.cleanup = "confirmed")

LEMMA LeaseGoesBack ==
  ASSUME PickerIInv, NEW p \in Picker, HostStep(p), Absent(p),
         ~entry'[p].lease,
         surface.picker # p \/ entry'[p].context = entry[p].context,
         at[p] # "gone" /\ at'[p] # "gone",
         at'[p] \notin {"none", "spawned", "preparing", "starting"},
         entry'[p].complete => at'[p] = "done"
  PROVE  StartsOnce' /\ (\A q \in Picker : PickerOK(q)')
<1>1. PickerOK(p)
  BY DEF PickerIInv
<1>2. StartOut(p)' => StartOut(p)
  BY DEF HostStep, StartOut
<1>3. PickerOK(p)'
  BY <1>1, <1>2 DEF HostStep, Absent, PickerOK, Unanswered
<1> QED BY <1>3, OthersStay DEF HostStep

(* The step changes the entry of p and its task only.                      *)
LEMMA Changed ==
  ASSUME PickerIInv, NEW p \in Picker, NEW e \in Entries, NEW step \in At,
         Change(p, e), at' = [at EXCEPT ![p] = step],
         asked' \in [Picker -> {"none", "start", "status", "cancel"}],
         doc' = doc, surface' = surface, wire' = wire,
         shooting' \in [Picker -> {"idle", "working", "done"}], authorized' \in BOOLEAN,
         answer' = answer \/ answer' = [answer EXCEPT ![p] = Unanswered]
  PROVE  /\ PickerTypeOK' /\ HostStep(p)
         /\ entry'[p] = e /\ at'[p] = step
<1>1. Unanswered \in Answers
  BY DEF Answers
<1>2. PickerTypeOK'
  BY <1>1 DEF PickerIInv, PickerTypeOK, Change
<1>3. entry'[p] = e /\ at'[p] = step
  BY DEF PickerIInv, PickerTypeOK, Change
<1>4. HostStep(p)
  <2>1. answer \in [Picker -> Answers]
    BY DEF PickerIInv, PickerTypeOK
  <2>2. /\ \A q \in Picker \ {p} : answer'[q] = answer[q]
        /\ answer'[p] \in {answer[p], Unanswered}
    BY <2>1
  <2>3. \A q \in Picker \ {p} : entry'[q] = entry[q] /\ at'[q] = at[q]
    BY DEF PickerIInv, PickerTypeOK, Change
  <2>4. StartsOnce'
    BY DEF PickerIInv, StartsOnce
  <2> QED BY <2>2, <2>3, <2>4 DEF HostStep, StartOut
<1> QED BY <1>2, <1>3, <1>4

LEMMA KeptHere ==
  ASSUME PickerIInv, NEW p \in Picker
  PROVE  /\ entry[p] \in Entries /\ at[p] \in At /\ at = [at EXCEPT ![p] = at[p]]
         /\ entry = [entry EXCEPT ![p] = entry[p]]
         /\ asked \in [Picker -> {"none", "start", "status", "cancel"}]
         /\ PickerOK(p) /\ StartsOnce /\ answer[p] \in Answers
         /\ shooting \in [Picker -> {"idle", "working", "done"}] /\ authorized \in BOOLEAN
         /\ (at[p] \in {"none", "spawned", "preparing", "starting"} => Absent(p))
BY DEF PickerIInv, PickerTypeOK, PickerOK, StartOut, Absent

LEMMA Ended ==
  ASSUME NEW e \in Entries
  PROVE  LET f == [Confirmed(e) EXCEPT !.complete = TRUE]
         IN f \in Entries /\ ~f.lease /\ f.complete
<1> DEFINE c == Confirmed(e)
<1>1. c \in Entries /\ ~c.lease
  BY LeaseReturned
<1> HIDE DEF c
<1>2. LET f == [c EXCEPT !.complete = TRUE]
      IN f \in Entries /\ ~f.lease /\ f.complete
  BY <1>1 DEF Entries
<1> QED BY <1>2 DEF c

(* The run task ends before anything was sent.                             *)
LEMMA EndsEarly ==
  ASSUME PickerIInv, NEW p \in Picker, NEW e \in Entries, EndEarly(p, e),
         at[p] \in {"spawned", "preparing", "starting"},
         UNCHANGED <<asked, answer, shooting, authorized, pageVars>>
  PROVE  PickerIInv'
<1> DEFINE f == [Confirmed(e) EXCEPT !.complete = TRUE]
<1>1. f \in Entries /\ ~f.lease /\ f.complete /\ "done" \in At
  BY Ended DEF At
<1>2. Change(p, f) /\ at' = [at EXCEPT ![p] = "done"]
  BY DEF EndEarly, Goto
<1> HIDE DEF f
<1>3. PickerTypeOK' /\ HostStep(p) /\ entry'[p] = f /\ at'[p] = "done"
  BY <1>1, <1>2, KeptHere, Changed DEF pageVars
<1>4. surface.picker # p /\ Absent(p)
  BY KeptHere DEF PickerOK
<1> QED BY <1>1, <1>3, <1>4, LeaseGoesBack DEF PickerIInv

LEMMA ReserveStep ==
  ASSUME PickerIInv, NEW p \in Picker, Reserve(p)
  PROVE  PickerIInv'
<1>1. at[p] = "none" /\ UNCHANGED <<asked, answer, shooting, authorized, pageVars>>
  BY DEF Reserve
<1>2. /\ surface.picker # p /\ Absent(p) /\ ~StartOut(p) /\ \A m \in wire : m.picker # p
      /\ answer[p] = Unanswered
  BY <1>1, KeptHere DEF PickerOK, StartOut
<1>3. PICK shot \in {"none", "pending"} :
        \/ Change(p, Created(shot)) /\ Goto(p, "spawned")
        \/ /\ Change(p, [Confirmed(Terminal(Created(shot), "failed")) EXCEPT !.complete = TRUE])
           /\ Goto(p, "done")
  BY DEF Reserve
<1>4. CASE Change(p, Created(shot)) /\ Goto(p, "spawned")
  <2>1. Created(shot) \in Entries /\ "spawned" \in At
    BY FirstEntry DEF At
  <2>2. PickerTypeOK' /\ HostStep(p) /\ entry'[p] = Created(shot) /\ at'[p] = "spawned"
    BY <1>1, <1>4, <2>1, KeptHere, Changed DEF pageVars, Goto
  <2>3. StartOut(p)' => StartOut(p)
    BY <2>2 DEF HostStep, StartOut
  <2>4. PickerOK(p)'
    BY <1>1, <1>2, <2>2, <2>3, FirstEntry DEF PickerOK, pageVars, Unanswered
  <2> QED BY <2>2, <2>4, OthersStay DEF PickerIInv, HostStep
<1>5. CASE /\ Change(p, [Confirmed(Terminal(Created(shot), "failed")) EXCEPT !.complete = TRUE])
           /\ Goto(p, "done")
  <2> DEFINE f == [Confirmed(Terminal(Created(shot), "failed")) EXCEPT !.complete = TRUE]
  <2>1. Terminal(Created(shot), "failed") \in Entries
    BY FirstEntry, TerminalKeeps DEF EndStatus, SameSurface
  <2>2. f \in Entries /\ ~f.lease /\ "done" \in At
    BY <2>1, Ended DEF At
  <2> HIDE DEF f
  <2>3. PickerTypeOK' /\ HostStep(p) /\ entry'[p] = f /\ at'[p] = "done"
    BY <1>1, <1>5, <2>2, KeptHere, Changed DEF pageVars, Goto, f
  <2> QED BY <1>1, <1>2, <2>2, <2>3, LeaseGoesBack DEF PickerIInv
<1> QED BY <1>3, <1>4, <1>5

LEMMA CancelStep ==
  ASSUME PickerIInv, NEW p \in Picker, Cancel(p)
  PROVE  PickerIInv'
<1> DEFINE ended == Terminal(entry[p], "cancelled")
           cancelled == IF ended.shot = "pending" THEN Abandoned(ended, "cancelled") ELSE ended
<1>1. SameSurface(ended, entry[p])
  BY KeptHere, TerminalKeeps DEF EndStatus
<1>2. SameSurface(cancelled, ended)
  BY <1>1, AbandonedKeeps DEF SameSurface
<1>3. SameSurface(cancelled, entry[p])
  BY <1>1, <1>2 DEF SameSurface
<1>4. Kept(p) /\ UNCHANGED <<at, asked, answer, shooting, authorized, doc, wire>>
  BY DEF Cancel
<1>5. CASE Change(p, cancelled) /\ UNCHANGED surface
  <2>1. PickerTypeOK' /\ HostStep(p) /\ entry'[p] = cancelled /\ at'[p] = at[p]
    <3> HIDE DEF cancelled
    <3> QED BY <1>3, <1>4, <1>5, KeptHere, Changed DEF SameSurface
  <2> QED BY <1>3, <1>4, <2>1, EntryGoesOn DEF PickerIInv, Kept
<1>6. CASE ~(Change(p, cancelled) /\ UNCHANGED surface)
  <2>1. PICK shown \in {surface, [surface EXCEPT !.cleanup = "confirmed", !.sequence = @ + 1]} :
          /\ surface.picker = p /\ surface' = shown
          /\ Change(p, Accept(cancelled, [kind |-> "report", status |-> shown.status,
                                          cleanup |-> shown.cleanup,
                                          sequence |-> shown.sequence], TRUE))
    BY <1>6 DEF Cancel
  <2>2. surface \in Surfaces
    BY DEF PickerIInv, PickerTypeOK
  <2>3. /\ shown \in Surfaces /\ shown.picker = p
        /\ surface.cleanup = "confirmed" => shown.cleanup = "confirmed"
        /\ shown.cleanup # "confirmed" => surface.cleanup # "confirmed"
    <3>1. PICK next \in Nat : next = surface.sequence + 1
      BY <2>2 DEF Surfaces
    <3>2. [surface EXCEPT !.cleanup = "confirmed", !.sequence = @ + 1]
            = [surface EXCEPT !.cleanup = "confirmed", !.sequence = next]
      BY <2>2, <3>1 DEF Surfaces
    <3>3. [surface EXCEPT !.cleanup = "confirmed", !.sequence = next] \in Surfaces
      BY <2>2 DEF Surfaces
    <3>4. shown = surface \/ shown = [surface EXCEPT !.cleanup = "confirmed", !.sequence = next]
      BY <2>1, <3>2
    <3> HIDE <3>1, <3>2
    <3> QED BY <2>1, <2>2, <3>3, <3>4 DEF Surfaces
  <2> DEFINE r == [kind |-> "report", status |-> shown.status, cleanup |-> shown.cleanup,
                   sequence |-> shown.sequence]
             f == Accept(cancelled, r, TRUE)
  <2>4. r \in Reports /\ r.cleanup = shown.cleanup
    BY <2>3 DEF Reports, Surfaces
  <2>5. cancelled \in Entries
    BY <1>3 DEF SameSurface
  <2> HIDE DEF cancelled, r
  <2>6. /\ f \in Entries /\ f.complete = cancelled.complete /\ f.context = cancelled.context
        /\ \/ f.lease = cancelled.lease /\ f.cleanup = cancelled.cleanup
           \/ /\ f.lease = cancelled.lease /\ f.cleanup = "unconfirmed"
              /\ cancelled.cleanup # "context_destroyed"
           \/ ~f.lease /\ f.cleanup = "confirmed" /\ r.cleanup = "confirmed"
    BY <2>4, <2>5, AcceptedReport
  <2>7. Change(p, f)
    BY <2>1 DEF r
  <2> HIDE DEF f
  <2>8. /\ entry' = [entry EXCEPT ![p] = f] /\ entry'[p] = f
        /\ \A q \in Picker \ {p} : entry'[q] = entry[q]
    BY <2>7 DEF Change, PickerIInv, PickerTypeOK
  <2>9. PickerTypeOK'
    BY <1>4, <2>1, <2>3, <2>6, <2>8 DEF PickerIInv, PickerTypeOK
  <2>10. \A q \in Picker \ {p} : Untouched(q)
    BY <1>4, <2>1, <2>3, <2>8 DEF Untouched
  <2>11. PickerOK(p)'
    <3>1. PickerOK(p) /\ at[p] # "none" /\ at[p] # "gone"
      BY <1>4, KeptHere DEF Kept
    <3>2. surface'.picker = p /\ surface'.cleanup = shown.cleanup
      BY <2>1, <2>3
    <3>3. at[p] \notin {"spawned", "preparing", "starting"} /\ ~StartOut(p)
      BY <2>1, <3>1 DEF PickerOK
    <3>4. ~StartOut(p)'
      BY <1>4, <3>3 DEF StartOut
    <3>5. f.context = doc /\ (f.complete => at[p] = "done")
      BY <1>3, <2>1, <2>6, <3>1 DEF PickerOK, SameSurface
    <3>6. shown.cleanup # "confirmed" => f.lease
      BY <1>3, <2>1, <2>3, <2>4, <2>6, <3>1 DEF PickerOK, SameSurface
    <3>7. f.cleanup \in {"confirmed", "context_destroyed"} => ~f.lease
      BY <1>3, <2>6, <3>1 DEF PickerOK, SameSurface
    <3>8. (at[p] \in {"release", "done"} /\ f.lease) => f.cleanup = "unconfirmed"
      BY <1>3, <2>6, <3>1 DEF PickerOK, SameSurface
    <3>9. /\ answer[p].kind = "refused_clean" => surface.picker # p
          /\ (answer[p].kind = "report" /\ answer[p].cleanup = "confirmed") =>
               (surface.picker = p => surface.cleanup = "confirmed")
      BY <3>1 DEF PickerOK
    <3> QED BY <1>4, <2>1, <2>3, <2>8, <3>1, <3>2, <3>3, <3>4, <3>5, <3>6, <3>7, <3>8, <3>9 DEF PickerOK
  <2>12. StartsOnce'
    BY <1>4 DEF PickerIInv, StartsOnce
  <2> QED BY <2>9, <2>10, <2>11, <2>12, UntouchedStays DEF PickerIInv
<1> QED BY <1>5, <1>6

LEMMA ReapStep ==
  ASSUME PickerIInv, NEW p \in Picker, Reap(p)
  PROVE  PickerIInv'
<1>1. /\ ~entry[p].lease /\ UNCHANGED <<asked, answer, shooting, authorized, pageVars>>
      /\ Change(p, Blank) /\ at' = [at EXCEPT ![p] = "gone"]
  BY DEF Reap, Goto
<1>2. Blank \in Entries /\ "gone" \in At
  BY FirstEntry DEF At
<1>3. PickerTypeOK' /\ HostStep(p) /\ entry'[p] = Blank /\ at'[p] = "gone"
  BY <1>1, <1>2, KeptHere, Changed DEF pageVars
<1>4. StartOut(p)' => StartOut(p)
  BY <1>3 DEF HostStep, StartOut
<1>5. PickerOK(p)'
  BY <1>1, <1>3, <1>4, FirstEntry, KeptHere DEF PickerOK, pageVars
<1> QED BY <1>3, <1>5, OthersStay DEF PickerIInv, HostStep

LEMMA BeginStep ==
  ASSUME PickerIInv, NEW p \in Picker, Begin(p)
  PROVE  PickerIInv'
<1>1. at[p] = "spawned" /\ UNCHANGED <<asked, answer, shooting, authorized, pageVars>>
  BY DEF Begin
<1>2. CASE Active(entry[p]) /\ ~entry[p].late
  <2> DEFINE f == [entry[p] EXCEPT !.status = "installing", !.pinned = TRUE]
  <2>1. Change(p, f) /\ at' = [at EXCEPT ![p] = "preparing"] /\ "preparing" \in At
    BY <1>2 DEF Begin, Goto, At
  <2>2. SameSurface(f, entry[p])
    BY <1>2, KeptHere DEF SameSurface, Entries, Active, ActiveStatus
  <2> HIDE DEF f
  <2>3. PickerTypeOK' /\ HostStep(p) /\ entry'[p] = f /\ at'[p] = "preparing"
    BY <1>1, <2>1, <2>2, KeptHere, Changed DEF pageVars, SameSurface
  <2> QED BY <1>1, <2>2, <2>3, EntryGoesOn DEF PickerIInv
<1>3. CASE ~(Active(entry[p]) /\ ~entry[p].late)
  <2>1. Terminal(entry[p], "expired") \in Entries
    BY KeptHere, TerminalKeeps DEF EndStatus, SameSurface
  <2> QED BY <1>1, <1>3, <2>1, EndsEarly DEF Begin
<1> QED BY <1>2, <1>3

LEMMA PrepareStep ==
  ASSUME PickerIInv, NEW p \in Picker, Prepare(p)
  PROVE  PickerIInv'
<1>1. at[p] = "preparing" /\ UNCHANGED <<asked, answer, shooting, authorized, pageVars>>
  BY DEF Prepare
<1>2. CASE Change(p, [entry[p] EXCEPT !.context = doc]) /\ Goto(p, "starting")
  <2> DEFINE f == [entry[p] EXCEPT !.context = doc]
  <2>1. f \in Entries /\ f.lease = entry[p].lease /\ f.cleanup = entry[p].cleanup
        /\ f.complete = entry[p].complete /\ f.status = entry[p].status
    <3>1. doc \in 0..MaxDocs
      BY PickerConstants DEF PickerIInv, PickerTypeOK
    <3> QED BY <3>1, KeptHere DEF Entries
  <2>2. Change(p, f) /\ at' = [at EXCEPT ![p] = "starting"] /\ "starting" \in At
    BY <1>2 DEF Goto, At
  <2> HIDE DEF f
  <2>3. PickerTypeOK' /\ HostStep(p) /\ entry'[p] = f /\ at'[p] = "starting"
    BY <1>1, <2>1, <2>2, KeptHere, Changed DEF pageVars
  <2>4. StartOut(p)' => StartOut(p)
    BY <2>3 DEF HostStep, StartOut
  <2>5. ~StartOut(p) /\ surface.picker # p /\ (\A m \in wire : m.picker # p) /\ PickerOK(p)
    BY <1>1, KeptHere DEF PickerOK, StartOut
  <2>6. PickerOK(p)'
    BY <1>1, <2>1, <2>3, <2>4, <2>5 DEF PickerOK, pageVars, Active
  <2> QED BY <2>3, <2>6, OthersStay DEF PickerIInv, HostStep
<1>3. CASE EndEarly(p, Terminal(entry[p], "failed"))
  <2>1. Terminal(entry[p], "failed") \in Entries
    BY KeptHere, TerminalKeeps DEF EndStatus, SameSurface
  <2> QED BY <1>1, <1>3, <2>1, EndsEarly
<1> QED BY <1>2, <1>3 DEF Prepare


(* A command other than the start is sent.                                 *)
LEMMA CommandSent ==
  ASSUME PickerIInv, NEW p \in Picker, NEW cmd \in {"status", "cancel"}, Send(p, cmd),
         at[p] \in {"status", "cancel"},
         UNCHANGED <<entry, answer, shooting, authorized, doc, surface>>
  PROVE  PickerIInv'
<1>1. wire' = wire \/ wire' = wire \cup {[picker |-> p, cmd |-> cmd, awaited |-> TRUE]}
  BY DEF Send
<1>2. at' = [at EXCEPT ![p] = "awaiting"] /\ asked' = [asked EXCEPT ![p] = cmd] /\ "awaiting" \in At
  BY DEF Send, Goto, At
<1>3. PickerTypeOK'
  <2> DEFINE m == [picker |-> p, cmd |-> cmd, awaited |-> TRUE]
  <2>1. m \in [picker: Picker, cmd: {"start", "status", "cancel"}, awaited: BOOLEAN]
    OBVIOUS
  <2>2. wire' \subseteq [picker: Picker, cmd: {"start", "status", "cancel"}, awaited: BOOLEAN]
    <3>1. wire' = wire \/ wire' = wire \cup {m}
      BY <1>1
    <3> HIDE DEF m
    <3> QED BY <3>1, <2>1 DEF PickerIInv, PickerTypeOK
  <2>3. at' \in [Picker -> At] /\ asked' \in [Picker -> {"none", "start", "status", "cancel"}]
    BY <1>2 DEF PickerIInv, PickerTypeOK
  <2> QED BY <2>2, <2>3 DEF PickerIInv, PickerTypeOK
<1>4. HostStep(p) /\ at'[p] = "awaiting"
  BY <1>1, <1>2 DEF PickerIInv, PickerTypeOK, HostStep, StartOut, StartsOnce
<1>5. SameSurface(entry[p], entry[p])
  BY KeptHere DEF SameSurface
<1> QED BY <1>3, <1>4, <1>5, EntryGoesOn DEF PickerIInv

LEMMA StartSent ==
  ASSUME PickerIInv, NEW p \in Picker, at[p] = "starting", Active(entry[p]), Send(p, "start"),
         UNCHANGED <<entry, answer, shooting, authorized, doc, surface>>
  PROVE  PickerIInv'
<1> DEFINE m == [picker |-> p, cmd |-> "start", awaited |-> TRUE]
<1>1. wire' = wire \/ (wire' = wire \cup {m} /\ entry[p].context = doc)
  BY DEF Send
<1>2. at' = [at EXCEPT ![p] = "awaiting"] /\ asked' = [asked EXCEPT ![p] = "start"] /\ "awaiting" \in At
  BY DEF Send, Goto, At
<1>3. PickerTypeOK'
  <2>1. m \in [picker: Picker, cmd: {"start", "status", "cancel"}, awaited: BOOLEAN]
    OBVIOUS
  <2>2. wire' \subseteq [picker: Picker, cmd: {"start", "status", "cancel"}, awaited: BOOLEAN]
    <3> HIDE DEF m
    <3> QED BY <1>1, <2>1 DEF PickerIInv, PickerTypeOK
  <2>3. at' \in [Picker -> At] /\ asked' \in [Picker -> {"none", "start", "status", "cancel"}]
    BY <1>2 DEF PickerIInv, PickerTypeOK
  <2> QED BY <2>2, <2>3 DEF PickerIInv, PickerTypeOK
<1>4. at'[p] = "awaiting" /\ \A q \in Picker \ {p} : at'[q] = at[q]
  BY <1>2 DEF PickerIInv, PickerTypeOK
<1>5. /\ PickerOK(p) /\ (\A n \in wire : n.picker # p) /\ surface.picker # p /\ entry[p].lease
      /\ answer[p] = Unanswered /\ StartsOnce
  BY KeptHere DEF PickerOK
<1>6. StartsOnce'
  <2>1. m.picker = p
    OBVIOUS
  <2> HIDE DEF m
  <2> QED BY <1>1, <1>5, <2>1 DEF StartsOnce
<1>7. \A q \in Picker \ {p} : Untouched(q)
  BY <1>1, <1>4 DEF Untouched
<1>8. PickerOK(p)'
  <2>1. StartOut(p)' => entry[p].context = doc
    BY <1>1, <1>5 DEF StartOut
  <2> QED BY <1>4, <1>5, <2>1 DEF PickerOK, Unanswered
<1> QED BY <1>3, <1>6, <1>7, <1>8, UntouchedStays DEF PickerIInv

(* The start was not sent, and never will be.                              *)
LEMMA NeverSent ==
  ASSUME PickerIInv, NEW p \in Picker, NEW e \in Entries, Change(p, e), Goto(p, "loop"),
         ~e.lease, e.complete = entry[p].complete,
         at[p] = "starting", UNCHANGED <<asked, answer, shooting, authorized, pageVars>>
  PROVE  PickerIInv'
<1>1. at' = [at EXCEPT ![p] = "loop"] /\ "loop" \in At
  BY DEF Goto, At
<1>2. PickerTypeOK' /\ HostStep(p) /\ entry'[p] = e /\ at'[p] = "loop"
  BY <1>1, KeptHere, Changed DEF pageVars
<1>3. surface.picker # p /\ Absent(p) /\ ~entry[p].complete
  BY KeptHere DEF PickerOK
<1> QED BY <1>2, <1>3, LeaseGoesBack DEF PickerIInv

LEMMA NotStartedEntry ==
  ASSUME NEW e \in Entries
  PROVE  LET f == NotStarted(e) IN f \in Entries /\ ~f.lease /\ f.complete = e.complete
BY TerminalKeeps, LeaseReturned DEF NotStarted, EndStatus, SameSurface

LEMMA StartSurfaceStep ==
  ASSUME PickerIInv, NEW p \in Picker, StartSurface(p)
  PROVE  PickerIInv'
<1>1. at[p] = "starting" /\ UNCHANGED <<answer, shooting, authorized, doc, surface>>
  BY DEF StartSurface
<1>2. CASE authorized /\ Active(entry[p]) /\ entry[p].pinned /\ ~entry[p].late
  BY <1>1, <1>2, StartSent DEF StartSurface
<1>3. CASE authorized /\ Active(entry[p]) /\ ~(entry[p].pinned /\ ~entry[p].late)
  <2>1. Change(p, NotStarted(entry[p])) /\ Goto(p, "loop") /\ UNCHANGED <<asked, wire>>
    BY <1>3 DEF StartSurface
  <2> QED BY <1>1, <2>1, KeptHere, NotStartedEntry, NeverSent DEF pageVars
<1>4. CASE ~(authorized /\ Active(entry[p]))
  <2> DEFINE cancelled == Terminal(entry[p], "cancelled")
             f == IF entry[p].cleanup = "context_destroyed" THEN cancelled ELSE Confirmed(cancelled)
  <2>1. Change(p, f) /\ Goto(p, "loop") /\ UNCHANGED <<asked, wire>>
    BY <1>4 DEF StartSurface
  <2>2. SameSurface(cancelled, entry[p])
    BY KeptHere, TerminalKeeps DEF EndStatus
  <2> HIDE DEF cancelled
  <2>3. f \in Entries /\ ~f.lease /\ f.complete = entry[p].complete
    BY <2>2, KeptHere, LeaseReturned DEF PickerOK, SameSurface
  <2> QED BY <1>1, <2>1, <2>3, NeverSent DEF pageVars
<1> QED BY <1>2, <1>3, <1>4

LEMMA StartNotDispatchedStep ==
  ASSUME PickerIInv, NEW p \in Picker, StartNotDispatched(p)
  PROVE  PickerIInv'
BY KeptHere, NotStartedEntry, NeverSent DEF StartNotDispatched

LEMMA LookStep ==
  ASSUME PickerIInv, NEW p \in Picker, Look(p)
  PROVE  PickerIInv'
<1> DEFINE e == Refresh(entry[p])
<1>1. at[p] = "loop" /\ Change(p, e) /\ UNCHANGED <<asked, answer, authorized, pageVars>>
  BY DEF Look
<1>2. SameSurface(e, entry[p])
  BY KeptHere, RefreshKeeps
<1>3. shooting' \in [Picker -> {"idle", "working", "done"}]
  BY KeptHere DEF Look
<1>4. PICK step \in At :
        /\ at' = [at EXCEPT ![p] = step]
        /\ step \in {"release", "giveup_waiting", "giveup", "cancel", "status"}
        /\ step = "release" => CleanedUp(e)
  BY DEF Look, Goto, At
<1> HIDE DEF e
<1>5. PickerTypeOK' /\ HostStep(p) /\ entry'[p] = e /\ at'[p] = step
  BY <1>1, <1>2, <1>3, <1>4, KeptHere, Changed DEF pageVars, SameSurface
<1>6. step = "release" => entry[p].cleanup \in {"confirmed", "context_destroyed"}
  BY <1>2, <1>4 DEF SameSurface, CleanedUp
<1> QED BY <1>1, <1>2, <1>4, <1>5, <1>6, EntryGoesOn DEF PickerIInv

LEMMA GiveUpCleanupStep ==
  ASSUME PickerIInv, NEW p \in Picker, GiveUpCleanup(p)
  PROVE  PickerIInv'
<1> DEFINE f == [entry[p] EXCEPT !.cleanup = "unconfirmed"]
<1>1. /\ at[p] \in {"giveup", "giveup_waiting"} /\ Change(p, f)
      /\ UNCHANGED <<asked, answer, shooting, authorized, pageVars>>
  BY DEF GiveUpCleanup
<1>2. PICK step \in At : at' = [at EXCEPT ![p] = step] /\ step \in {"release", "loop"}
  BY DEF GiveUpCleanup, Goto, At
<1>3. /\ f \in Entries /\ f.lease = entry[p].lease /\ f.context = entry[p].context
      /\ f.complete = entry[p].complete /\ f.cleanup = "unconfirmed"
  BY KeptHere DEF Entries
<1> HIDE DEF f
<1>4. PickerTypeOK' /\ HostStep(p) /\ entry'[p] = f /\ at'[p] = step
  <2>1. f \in Entries /\ Change(p, f) /\ at' = [at EXCEPT ![p] = step]
    BY <1>1, <1>2, <1>3
  <2>2. UNCHANGED <<asked, answer, shooting, authorized, doc, surface, wire>>
    BY <1>1 DEF pageVars
  <2> QED BY <2>1, <2>2, KeptHere, Changed
<1> QED BY <1>1, <1>2, <1>3, <1>4, CleanupFails DEF PickerIInv

LEMMA PollStep ==
  ASSUME PickerIInv, NEW p \in Picker, Poll(p)
  PROVE  PickerIInv'
<1>1. at[p] \in {"status", "cancel"} /\ UNCHANGED <<entry, answer, shooting, authorized, doc, surface>>
  BY DEF Poll
<1>2. CASE Send(p, at[p])
  BY <1>1, <1>2, CommandSent
<1>3. CASE ~Send(p, at[p])
  <2>1. /\ asked' = [asked EXCEPT ![p] = "status"] /\ wire' = wire
        /\ at' = [at EXCEPT ![p] = "failed_call"] /\ "failed_call" \in At
    BY <1>3 DEF Poll, Goto, At
  <2>2. asked' \in [Picker -> {"none", "start", "status", "cancel"}]
    BY <2>1, KeptHere
  <2>3. SameSurface(entry[p], entry[p]) /\ Change(p, entry[p])
    BY <1>1, KeptHere DEF SameSurface, Change
  <2>4. PickerTypeOK' /\ HostStep(p) /\ entry'[p] = entry[p] /\ at'[p] = "failed_call"
    BY <1>1, <2>1, <2>2, <2>3, KeptHere, Changed
  <2> QED BY <1>1, <2>3, <2>4, EntryGoesOn DEF PickerIInv
<1> QED BY <1>2, <1>3

-----------------------------------------------------------------------------
(* What the task does with an answer, or without one                       *)

LEMMA ReportStep ==
  ASSUME PickerIInv, NEW p \in Picker, Report(p)
  PROVE  PickerIInv'
<1> DEFINE e == IF authorized THEN entry[p] ELSE RevokeEntry(entry[p])
<1>1. /\ at[p] = "awaiting" /\ answer[p].kind = "report"
      /\ UNCHANGED <<asked, shooting, authorized, doc, surface, wire>>
      /\ answer' = [answer EXCEPT ![p] = Unanswered]
  BY DEF Report, Answered, Hung, pageVars
<1>2. at' = [at EXCEPT ![p] = "loop"] /\ "loop" \in At
  BY DEF Report, Goto, At
<1>3. SameSurface(e, entry[p])
  BY KeptHere, RevokeKeeps DEF SameSurface
<1>4. answer[p] \in Reports
  BY <1>1, KeptHere DEF Answers, Unanswered
<1>5. PICK sane \in BOOLEAN : \/ Change(p, BeginTargetCleanup(e))
                              \/ Change(p, Accept(e, answer[p], sane))
  BY DEF Report
<1> HIDE DEF e
<1>6. CASE Change(p, BeginTargetCleanup(e))
  <2> DEFINE f == BeginTargetCleanup(e)
  <2>1. SameSurface(f, entry[p]) /\ Change(p, f)
    BY <1>3, <1>6, CleanupBegins DEF SameSurface
  <2> HIDE DEF f
  <2>2. PickerTypeOK' /\ HostStep(p) /\ entry'[p] = f /\ at'[p] = "loop"
    <3>1. f \in Entries
      BY <2>1 DEF SameSurface
    <3> QED BY <1>1, <1>2, <2>1, <3>1, KeptHere, Changed
  <2> QED BY <1>1, <2>1, <2>2, EntryGoesOn DEF PickerIInv
<1>7. CASE Change(p, Accept(e, answer[p], sane))
  <2> DEFINE f == Accept(e, answer[p], sane)
  <2>1. /\ f \in Entries /\ f.complete = e.complete /\ f.context = e.context
        /\ \/ f.lease = e.lease /\ f.cleanup = e.cleanup
           \/ f.lease = e.lease /\ f.cleanup = "unconfirmed" /\ e.cleanup # "context_destroyed"
           \/ ~f.lease /\ f.cleanup = "confirmed" /\ answer[p].cleanup = "confirmed"
    BY <1>3, <1>4, AcceptedReport DEF SameSurface
  <2>2. Change(p, f)
    BY <1>7
  <2> HIDE DEF f
  <2>3. PickerTypeOK' /\ HostStep(p) /\ entry'[p] = f /\ at'[p] = "loop"
    BY <1>1, <1>2, <2>1, <2>2, KeptHere, Changed
  <2>4. f.complete = entry[p].complete /\ f.context = entry[p].context
    BY <1>3, <2>1 DEF SameSurface
  <2>5. CASE f.lease = e.lease /\ f.cleanup \in {e.cleanup, "unconfirmed"}
    BY <1>1, <1>3, <2>3, <2>4, <2>5, CleanupFails DEF PickerIInv, SameSurface
  <2>6. CASE ~f.lease /\ answer[p].cleanup = "confirmed"
    <3>1. Absent(p) /\ ~entry[p].complete
      BY <1>1, <2>6, KeptHere DEF PickerOK, Absent
    <3> QED BY <1>1, <2>3, <2>4, <2>6, <3>1, LeaseGoesBack DEF PickerIInv
  <2> QED BY <2>1, <2>5, <2>6
<1> QED BY <1>5, <1>6, <1>7

LEMMA LostPinStep ==
  ASSUME PickerIInv, NEW p \in Picker, LostPin(p)
  PROVE  PickerIInv'
<1>1. /\ at[p] = "awaiting"
      /\ UNCHANGED <<asked, shooting, authorized, doc, surface, wire>>
      /\ answer' = [answer EXCEPT ![p] = Unanswered]
  BY DEF LostPin, Answered, Hung, pageVars
<1>2. PICK f \in {entry[p], Terminal(entry[p], "failed")}, step \in {"loop", "failed_call"} :
        Change(p, f) /\ at' = [at EXCEPT ![p] = step]
  <2>1. CASE Change(p, Terminal(entry[p], "failed")) /\ Goto(p, "loop")
    <3> WITNESS Terminal(entry[p], "failed") \in {entry[p], Terminal(entry[p], "failed")},
                "loop" \in {"loop", "failed_call"}
    <3> QED BY <2>1 DEF Goto
  <2>2. CASE UNCHANGED entry /\ Goto(p, "failed_call")
    <3>1. Change(p, entry[p])
      BY <2>2, KeptHere DEF Change, PickerIInv, PickerTypeOK
    <3> WITNESS entry[p] \in {entry[p], Terminal(entry[p], "failed")},
                "failed_call" \in {"loop", "failed_call"}
    <3> QED BY <2>2, <3>1 DEF Goto
  <2> QED BY <2>1, <2>2 DEF LostPin
<1>3. SameSurface(f, entry[p])
  BY <1>2, KeptHere, TerminalKeeps DEF EndStatus, SameSurface
<1>4. f \in Entries /\ f.complete = entry[p].complete /\ f.context = entry[p].context
      /\ step \in At
  BY <1>2, <1>3 DEF SameSurface, At
<1>5. PickerTypeOK' /\ HostStep(p) /\ entry'[p] = f /\ at'[p] = step
  BY <1>1, <1>2, <1>4, KeptHere, Changed
<1> QED BY <1>1, <1>2, <1>3, <1>5, EntryGoesOn DEF PickerIInv

LEMMA StartRefusedStep ==
  ASSUME PickerIInv, NEW p \in Picker, StartRefused(p)
  PROVE  PickerIInv'
<1> DEFINE failed == Terminal(entry[p], "failed")
           f == IF answer[p].kind = "refused_clean" THEN Confirmed(failed) ELSE failed
<1>1. /\ at[p] = "awaiting" /\ Change(p, f)
      /\ UNCHANGED <<asked, shooting, authorized, doc, surface, wire>>
      /\ answer' = [answer EXCEPT ![p] = Unanswered]
  BY DEF StartRefused, Answered, Hung, pageVars
<1>2. at' = [at EXCEPT ![p] = "loop"] /\ "loop" \in At
  BY DEF StartRefused, Goto, At
<1>3. SameSurface(failed, entry[p])
  BY KeptHere, TerminalKeeps DEF EndStatus
<1> HIDE DEF failed
<1>4. /\ f \in Entries /\ f.complete = entry[p].complete /\ f.context = entry[p].context
      /\ \/ SameSurface(f, entry[p])
         \/ ~f.lease /\ answer[p].kind = "refused_clean"
  BY <1>3, LeaseReturned DEF SameSurface
<1> HIDE DEF f
<1>5. PickerTypeOK' /\ HostStep(p) /\ entry'[p] = f /\ at'[p] = "loop"
  BY <1>1, <1>2, <1>4, KeptHere, Changed
<1>6. CASE SameSurface(f, entry[p])
  BY <1>1, <1>5, <1>6, EntryGoesOn DEF PickerIInv
<1>7. CASE ~f.lease /\ answer[p].kind = "refused_clean"
  <2>1. Absent(p) /\ ~entry[p].complete
    BY <1>1, <1>7, KeptHere DEF PickerOK, Absent
  <2> QED BY <1>1, <1>4, <1>5, <1>7, <2>1, LeaseGoesBack DEF PickerIInv
<1> QED BY <1>4, <1>6, <1>7

LEMMA PollRefusedStep ==
  ASSUME PickerIInv, NEW p \in Picker, PollRefused(p)
  PROVE  PickerIInv'
<1>1. /\ at[p] = "awaiting" /\ entry' = entry
      /\ UNCHANGED <<asked, shooting, authorized, doc, surface, wire>>
      /\ answer' = [answer EXCEPT ![p] = Unanswered]
  BY DEF PollRefused, Answered, Hung, pageVars
<1>2. at' = [at EXCEPT ![p] = "failed_call"] /\ "failed_call" \in At
  BY DEF PollRefused, Goto, At
<1>3. SameSurface(entry[p], entry[p]) /\ Change(p, entry[p])
  BY <1>1, KeptHere DEF SameSurface, Change
<1>4. PickerTypeOK' /\ HostStep(p) /\ entry'[p] = entry[p] /\ at'[p] = "failed_call"
  BY <1>1, <1>2, <1>3, KeptHere, Changed
<1> QED BY <1>1, <1>3, <1>4, EntryGoesOn DEF PickerIInv

(* The host stops waiting: every start that is out stays out, and is one.  *)
LEMMA WaitingStops ==
  ASSUME PickerIInv, NEW p \in Picker, wire' = StopWaiting(p)
  PROVE  /\ wire' \subseteq [picker: Picker, cmd: {"start", "status", "cancel"}, awaited: BOOLEAN]
         /\ StartsOnce'
         /\ \A m \in wire' : m.picker # p => m \in wire
         /\ \A m \in wire' : (m.picker = p /\ m.cmd = "start") => StartOut(p)
<1> DEFINE Messages == [picker: Picker, cmd: {"start", "status", "cancel"}, awaited: BOOLEAN]
           Left(m) == IF m.picker = p THEN [m EXCEPT !.awaited = FALSE] ELSE m
<1>1. wire \subseteq Messages /\ StartsOnce
  BY DEF PickerIInv, PickerTypeOK
<1>2. ASSUME NEW m \in Messages
      PROVE  /\ Left(m) \in Messages /\ Left(m).picker = m.picker /\ Left(m).cmd = m.cmd
             /\ m.picker # p => Left(m) = m
  OBVIOUS
<1>3. \A m \in wire' : \E n \in wire : m = Left(n)
  BY DEF StopWaiting
<1> HIDE DEF Left, Messages
<1>4. \A m \in wire' : \E n \in wire :
        m = Left(n) /\ m \in Messages /\ m.picker = n.picker /\ m.cmd = n.cmd
  BY <1>1, <1>2, <1>3
<1>5. StartsOnce'
  BY <1>1, <1>4 DEF StartsOnce
<1>6. \A m \in wire' : m.picker # p => m \in wire
  BY <1>1, <1>2, <1>4
<1> QED BY <1>4, <1>5, <1>6 DEF StartOut, Messages

LEMMA CallTimedOutStep ==
  ASSUME PickerIInv, NEW p \in Picker, CallTimedOut(p)
  PROVE  PickerIInv'
<1>1. /\ at[p] = "awaiting" /\ wire' = StopWaiting(p)
      /\ UNCHANGED <<asked, answer, shooting, authorized, doc, surface>>
  BY DEF CallTimedOut
<1>2. SameSurface(Terminal(entry[p], "failed"), entry[p]) /\ SameSurface(entry[p], entry[p])
  BY KeptHere, TerminalKeeps DEF EndStatus, SameSurface
<1>3. PICK f \in Entries, step \in At :
        /\ SameSurface(f, entry[p]) /\ step \in {"loop", "failed_call"}
        /\ entry' = [entry EXCEPT ![p] = f] /\ at' = [at EXCEPT ![p] = step]
  <2>1. CASE asked[p] = "start"
    BY <1>2, <2>1 DEF CallTimedOut, Goto, At, Change, SameSurface
  <2>2. CASE asked[p] # "start"
    BY <1>2, <2>2, KeptHere DEF CallTimedOut, Goto, At
  <2> QED BY <2>1, <2>2
<1>4. PickerTypeOK'
  BY <1>1, <1>3, WaitingStops DEF PickerIInv, PickerTypeOK
<1>5. /\ entry'[p] = f /\ at'[p] = step
      /\ \A q \in Picker \ {p} : entry'[q] = entry[q] /\ at'[q] = at[q]
  BY <1>3 DEF PickerIInv, PickerTypeOK
<1>6. HostStep(p)
  BY <1>1, <1>3, <1>5, WaitingStops DEF HostStep
<1> QED BY <1>1, <1>3, <1>4, <1>5, <1>6, EntryGoesOn DEF PickerIInv

LEMMA ProbeStep ==
  ASSUME PickerIInv, NEW p \in Picker, Probe(p)
  PROVE  PickerIInv'
<1> DEFINE e == entry[p]
<1>1. at[p] = "failed_call" /\ UNCHANGED <<asked, answer, shooting, authorized, doc, surface, wire>>
  BY DEF Probe, pageVars
<1>2. "release" \in At /\ "loop" \in At
  BY DEF At
<1>3. CASE /\ e.cleanup = "context_destroyed" \/ doc # e.context
           /\ Change(p, PageUnavailable(e)) /\ Goto(p, "release")
  <2> DEFINE f == PageUnavailable(e)
  <2>1. f \in Entries /\ ~f.lease /\ f.complete = e.complete /\ f.context = e.context
    <3>1. SameSurface(BeginTargetCleanup(e), e)
      BY KeptHere, CleanupBegins
    <3> QED BY <3>1, KeptHere, LeaseReturned DEF PageUnavailable, PickerOK, SameSurface
  <2>2. e.cleanup # "context_destroyed" => Absent(p)
    BY <1>1, <1>3, KeptHere DEF PickerOK, Absent
  <2>3. e.cleanup = "context_destroyed" => f = e
    BY DEF PageUnavailable
  <2>4. Change(p, f) /\ at' = [at EXCEPT ![p] = "release"]
    BY <1>3 DEF Goto
  <2> HIDE DEF f
  <2>5. PickerTypeOK' /\ HostStep(p) /\ entry'[p] = f /\ at'[p] = "release"
    BY <1>1, <1>2, <2>1, <2>4, KeptHere, Changed
  <2>6. ~entry[p].complete
    BY <1>1, KeptHere DEF PickerOK
  <2>7. CASE e.cleanup = "context_destroyed"
    <3>1. SameSurface(f, e)
      BY <2>1, <2>3, <2>7 DEF SameSurface
    <3> QED BY <1>1, <2>5, <2>7, <3>1, EntryGoesOn DEF PickerIInv
  <2>8. CASE e.cleanup # "context_destroyed"
    BY <1>1, <2>1, <2>2, <2>5, <2>6, <2>8, LeaseGoesBack DEF PickerIInv
  <2> QED BY <2>7, <2>8
<1>4. CASE UNCHANGED entry /\ Goto(p, "loop")
  <2>1. SameSurface(e, e) /\ Change(p, e) /\ at' = [at EXCEPT ![p] = "loop"]
    BY <1>4, KeptHere DEF SameSurface, Change, Goto
  <2>2. PickerTypeOK' /\ HostStep(p) /\ entry'[p] = e /\ at'[p] = "loop"
    BY <1>1, <1>2, <2>1, KeptHere, Changed
  <2> QED BY <1>1, <2>1, <2>2, EntryGoesOn DEF PickerIInv
<1>5. CASE Change(p, BeginTargetCleanup(e)) /\ Goto(p, "loop")
  <2> DEFINE f == BeginTargetCleanup(e)
  <2>1. SameSurface(f, e) /\ Change(p, f) /\ at' = [at EXCEPT ![p] = "loop"]
    BY <1>5, KeptHere, CleanupBegins DEF Goto
  <2> HIDE DEF f
  <2>2. PickerTypeOK' /\ HostStep(p) /\ entry'[p] = f /\ at'[p] = "loop"
    BY <1>1, <1>2, <2>1, KeptHere, Changed DEF SameSurface
  <2> QED BY <1>1, <2>1, <2>2, EntryGoesOn DEF PickerIInv
<1> QED BY <1>3, <1>4, <1>5 DEF Probe

LEMMA FinishStep ==
  ASSUME PickerIInv, NEW p \in Picker, Finish(p)
  PROVE  PickerIInv'
<1> DEFINE e == [entry[p] EXCEPT !.complete = TRUE]
           f == IF authorized THEN e ELSE RevokeEntry(e)
<1>1. /\ at[p] = "release" /\ Change(p, f) /\ at' = [at EXCEPT ![p] = "done"] /\ "done" \in At
      /\ UNCHANGED <<asked, answer, shooting, authorized, doc, surface, wire>>
  BY DEF Finish, Goto, At, pageVars
<1>2. /\ e \in Entries /\ e.lease = entry[p].lease /\ e.cleanup = entry[p].cleanup
      /\ e.context = entry[p].context
  BY KeptHere DEF Entries
<1> HIDE DEF e
<1>3. /\ f \in Entries /\ f.lease = entry[p].lease /\ f.cleanup = entry[p].cleanup
      /\ f.context = entry[p].context
  BY <1>2, RevokeKeeps DEF SameSurface
<1> HIDE DEF f
<1>4. PickerTypeOK' /\ HostStep(p) /\ entry'[p] = f /\ at'[p] = "done"
  BY <1>1, <1>3, KeptHere, Changed
<1>5. StartOut(p)' => StartOut(p)
  BY <1>4 DEF HostStep, StartOut
<1>6. PickerOK(p)'
  BY <1>1, <1>3, <1>4, <1>5, KeptHere DEF PickerOK, HostStep
<1> QED BY <1>4, <1>6, OthersStay DEF PickerIInv, HostStep

-----------------------------------------------------------------------------
(* What happens to the entry beside its task                               *)

LEMMA BesideTheTask ==
  ASSUME PickerIInv, NEW p \in Picker, NEW e, SameSurface(e, entry[p]), Change(p, e),
         shooting' \in [Picker -> {"idle", "working", "done"}],
         UNCHANGED <<at, asked, answer, authorized, pageVars>>
  PROVE  PickerIInv'
<1>1. PickerTypeOK' /\ HostStep(p) /\ entry'[p] = e /\ at'[p] = at[p]
  <2>1. /\ e \in Entries /\ at[p] \in At /\ at' = [at EXCEPT ![p] = at[p]]
        /\ UNCHANGED <<asked, answer, authorized, doc, surface, wire>>
    BY KeptHere DEF SameSurface, pageVars
  <2> QED BY <2>1, KeptHere, Changed
<1> QED BY <1>1, EntryGoesOn DEF PickerIInv

LEMMA CaptureEndsStep ==
  ASSUME PickerIInv, NEW p \in Picker, CaptureEnds(p)
  PROVE  PickerIInv'
<1>1. /\ shooting' \in [Picker -> {"idle", "working", "done"}]
      /\ UNCHANGED <<at, asked, answer, authorized, pageVars>>
  BY KeptHere DEF CaptureEnds
<1>2. PICK shot \in {"none", "pending", "captured", "cancelled", "failed"} :
        Change(p, BeginTargetCleanup(entry[p])) \/ Change(p, [entry[p] EXCEPT !.shot = shot])
  BY KeptHere DEF CaptureEnds, Entries
<1>3. SameSurface([entry[p] EXCEPT !.shot = shot], entry[p])
  BY KeptHere DEF SameSurface, Entries, Active
<1> QED BY <1>1, <1>2, <1>3, KeptHere, CleanupBegins, BesideTheTask

LEMMA ConnectionLostStep ==
  ASSUME PickerIInv, NEW p \in Picker, ConnectionLost(p)
  PROVE  PickerIInv'
<1>1. SameSurface([entry[p] EXCEPT !.pinned = FALSE], entry[p])
  BY KeptHere DEF SameSurface, Entries, Active
<1> QED BY <1>1, KeptHere, BesideTheTask DEF ConnectionLost

LEMMA DeadlinePassesStep ==
  ASSUME PickerIInv, NEW p \in Picker, DeadlinePasses(p)
  PROVE  PickerIInv'
<1>1. SameSurface([entry[p] EXCEPT !.late = TRUE], entry[p])
  BY KeptHere DEF SameSurface, Entries, Active
<1> QED BY <1>1, KeptHere, BesideTheTask DEF DeadlinePasses

LEMMA CleanupBudgetSpentStep ==
  ASSUME PickerIInv, NEW p \in Picker, CleanupBudgetSpent(p)
  PROVE  PickerIInv'
<1>1. SameSurface([entry[p] EXCEPT !.spent = TRUE], entry[p])
  BY KeptHere DEF SameSurface, Entries, Active
<1> QED BY <1>1, KeptHere, BesideTheTask DEF CleanupBudgetSpent

-----------------------------------------------------------------------------
(* The page and the surroundings                                           *)

LEMMA PageKeepsType ==
  ASSUME PickerIInv, NEW m \in wire, NEW given \in Answers, Ask(m, given), Ran(m), PageOnly,
         surface' \in Surfaces
  PROVE  PickerTypeOK'
BY DEF PickerIInv, PickerTypeOK, Ask, Ran, PageOnly

LEMMA SnapshotIsReport ==
  ASSUME NEW s \in Surfaces
  PROVE  /\ Snapshot(s) \in Reports /\ Snapshot(s) \in Answers
         /\ Snapshot(s).kind = "report" /\ Snapshot(s).cleanup = s.cleanup
BY DEF Snapshot, Reports, Answers, Surfaces

(* What a script of picker p does in the page, and what it answers: the    *)
(* surface of no other picker is put up or soiled.                         *)
LEMMA ScriptRuns ==
  ASSUME PickerIInv, NEW m \in wire, NEW given \in Answers, Ask(m, given), Ran(m), PageOnly,
         surface' \in Surfaces,
         \A q \in Picker \ {m.picker} : surface'.picker = q => surface' = surface,
         surface'.picker = m.picker =>
           \/ surface.picker = m.picker
              /\ (surface.cleanup = "confirmed" => surface'.cleanup = "confirmed")
           \/ m.cmd = "start",
         given.kind = "refused_clean" => m.cmd = "start" /\ surface' = surface /\ surface.picker # m.picker,
         given.kind = "report" => surface'.picker = m.picker /\ given.cleanup = surface'.cleanup
  PROVE  PickerIInv'
<1> DEFINE p == m.picker
<1>1. PickerTypeOK'
  BY PageKeepsType
<1>2. p \in Picker /\ surface \in Surfaces /\ answer \in [Picker -> Answers] /\ PickerOK(p) /\ StartsOnce
  BY DEF PickerIInv, PickerTypeOK
<1>3. wire' = wire \ {m} /\ UNCHANGED <<entry, at, doc>>
  BY DEF Ran, PageOnly
<1>4. StartsOnce'
  BY <1>2, <1>3 DEF StartsOnce
<1>5. \A q \in Picker \ {p} : answer'[q] = answer[q]
  BY <1>2 DEF Ask
<1>6. \A q \in Picker \ {p} : Untouched(q)
  BY <1>3, <1>5 DEF Untouched
<1>7. PickerOK(p)'
  <2>1. StartOut(p)' => StartOut(p)
    BY <1>3 DEF StartOut
  <2>2. m.cmd = "start" => StartOut(p) /\ ~StartOut(p)'
    BY <1>2, <1>3 DEF StartOut, StartsOnce
  <2>3. at[p] \notin {"none", "spawned", "preparing", "starting"}
    BY <1>2 DEF PickerOK
  <2>4. answer'[p] = answer[p] \/ answer'[p] = given
    BY <1>2 DEF Ask
  <2>5. StartOut(p)' => surface'.picker # p
    BY <1>2, <2>1, <2>2 DEF PickerOK
  <2>6. surface'.picker = p =>
          /\ at[p] # "gone" => entry[p].context = doc
          /\ surface'.cleanup # "confirmed" => entry[p].lease
    BY <1>2, <2>2 DEF PickerOK
  <2>7. answer'[p].kind = "refused_clean" => ~StartOut(p)' /\ surface'.picker # p
    <3>1. CASE answer'[p] = given
      BY <2>2, <3>1
    <3>2. CASE answer'[p] = answer[p]
      BY <1>2, <2>1, <2>2, <3>2 DEF PickerOK
    <3> QED BY <2>4, <3>1, <3>2
  <2>8. (answer'[p].kind = "report" /\ answer'[p].cleanup = "confirmed") =>
          ~StartOut(p)' /\ (surface'.picker = p => surface'.cleanup = "confirmed")
    <3>1. CASE answer'[p] = given
      BY <2>5, <3>1
    <3>2. CASE answer'[p] = answer[p]
      BY <1>2, <2>1, <2>2, <3>2 DEF PickerOK
    <3> QED BY <2>4, <3>1, <3>2
  <2>9. Active(entry[p])' <=> Active(entry[p])
    BY <1>3 DEF Active
  <2>10. StartOut(p)' => entry[p].lease /\ entry[p].context = doc /\ at[p] # "gone"
    BY <1>2, <2>1 DEF PickerOK
  <2>11. /\ entry[p].cleanup \in {"confirmed", "context_destroyed"} => ~entry[p].lease
         /\ entry[p].complete => at[p] = "done"
         /\ (at[p] \in {"release", "done"} /\ entry[p].lease) => entry[p].cleanup = "unconfirmed"
    BY <1>2 DEF PickerOK
  <2> HIDE DEF p
  <2> QED BY <1>3, <2>3, <2>5, <2>6, <2>7, <2>8, <2>9, <2>10, <2>11 DEF PickerOK
<1> QED BY <1>1, <1>4, <1>6, <1>7, UntouchedStays DEF PickerIInv

LEMMA PageStartStep ==
  ASSUME PickerIInv, NEW m \in wire, PageStart(m)
  PROVE  PickerIInv'
<1>1. /\ m.cmd = "start" /\ Ran(m) /\ PageOnly
      /\ surface \in Surfaces /\ m.picker \in Picker /\ NoPicker \notin Picker
  BY PickerConstants DEF PageStart, PickerIInv, PickerTypeOK
<1>2. [kind |-> "refused"] \in Answers /\ [kind |-> "refused_clean"] \in Answers
  BY DEF Answers
<1>3. CASE surface.picker = m.picker /\ Ask(m, Snapshot(surface)) /\ UNCHANGED surface
  BY <1>1, <1>3, SnapshotIsReport, ScriptRuns
<1>4. CASE Ask(m, [kind |-> "refused"]) /\ UNCHANGED surface
  BY <1>1, <1>2, <1>4, ScriptRuns
<1>5. CASE surface.picker # m.picker /\ Ask(m, [kind |-> "refused_clean"]) /\ UNCHANGED surface
  BY <1>1, <1>2, <1>5, ScriptRuns
<1>6. CASE /\ surface' = [picker |-> m.picker, status |-> "awaiting_selection",
                          cleanup |-> "pending", sequence |-> 1]
           /\ Ask(m, Snapshot(surface'))
  <2>1. surface' \in Surfaces /\ surface'.picker = m.picker
    BY <1>1, <1>6 DEF Surfaces
  <2> QED BY <1>1, <1>6, <2>1, SnapshotIsReport, ScriptRuns
<1> QED BY <1>1, <1>3, <1>4, <1>5, <1>6 DEF PageStart

(* What may become of a surface that is up.                                *)
LEMMA SurfaceEnds ==
  ASSUME NEW s \in Surfaces
  PROVE  /\ \A status \in {"selected", "cancelled", "expired", "target_changed"} :
              LET t == [s EXCEPT !.status = status, !.sequence = @ + 1]
              IN t \in Surfaces /\ t.picker = s.picker /\ t.cleanup = s.cleanup
         /\ \A cleanup \in {"confirmed", "unconfirmed"} :
              LET t == [s EXCEPT !.cleanup = cleanup, !.sequence = @ + 1]
              IN t \in Surfaces /\ t.picker = s.picker /\ t.cleanup = cleanup
<1>1. PICK next \in Nat : next = s.sequence + 1
  BY DEF Surfaces
<1>2. ASSUME NEW status \in {"selected", "cancelled", "expired", "target_changed"}
      PROVE  LET t == [s EXCEPT !.status = status, !.sequence = @ + 1]
             IN t \in Surfaces /\ t.picker = s.picker /\ t.cleanup = s.cleanup
  <2> DEFINE t == [s EXCEPT !.status = status, !.sequence = next]
  <2>1. [s EXCEPT !.status = status, !.sequence = @ + 1] = t
    BY <1>1 DEF Surfaces
  <2>2. t \in Surfaces /\ t.picker = s.picker /\ t.cleanup = s.cleanup
    <3> HIDE <1>1, <2>1
    <3> QED BY DEF Surfaces, EndStatus
  <2> HIDE DEF t
  <2> QED BY <2>1, <2>2
<1>3. ASSUME NEW cleanup \in {"confirmed", "unconfirmed"}
      PROVE  LET t == [s EXCEPT !.cleanup = cleanup, !.sequence = @ + 1]
             IN t \in Surfaces /\ t.picker = s.picker /\ t.cleanup = cleanup
  <2> DEFINE t == [s EXCEPT !.cleanup = cleanup, !.sequence = next]
  <2>1. [s EXCEPT !.cleanup = cleanup, !.sequence = @ + 1] = t
    BY <1>1 DEF Surfaces
  <2>2. t \in Surfaces /\ t.picker = s.picker /\ t.cleanup = cleanup
    <3> HIDE <1>1, <2>1
    <3> QED BY DEF Surfaces
  <2> HIDE DEF t
  <2> QED BY <2>1, <2>2
<1> QED BY <1>2, <1>3

LEMMA PageStatusStep ==
  ASSUME PickerIInv, NEW m \in wire, PageStatus(m)
  PROVE  PickerIInv'
<1>1. /\ m.cmd \in {"status", "cancel"} /\ Ran(m) /\ PageOnly
      /\ surface \in Surfaces /\ m.picker \in Picker
  BY DEF PageStatus, PickerIInv, PickerTypeOK
<1>2. CASE surface.picker # m.picker
  <2>1. [kind |-> "refused"] \in Answers
    BY DEF Answers
  <2> QED BY <1>1, <1>2, <2>1, ScriptRuns DEF PageStatus
<1>3. CASE surface.picker = m.picker
  <2>1. /\ surface' \in Surfaces /\ surface'.picker = m.picker
        /\ surface.cleanup = "confirmed" => surface'.cleanup = "confirmed"
    <3>1. CASE UNCHANGED surface
      BY <1>1, <1>3, <3>1
    <3>2. CASE surface' = [surface EXCEPT !.cleanup = "confirmed", !.sequence = @ + 1]
      BY <1>1, <1>3, <3>2, SurfaceEnds
    <3>3. CASE surface' = FinishSurface("cancelled")
      BY <1>1, <1>3, <3>3, SurfaceEnds DEF FinishSurface
    <3> QED BY <1>3, <3>1, <3>2, <3>3 DEF PageStatus
  <2>2. Ask(m, Snapshot(surface'))
    BY <1>3 DEF PageStatus
  <2> QED BY <1>1, <1>3, <2>1, <2>2, SnapshotIsReport, ScriptRuns
<1> QED BY <1>2, <1>3

(* The surface moves by itself.                                            *)
LEMMA SurfaceStep ==
  ASSUME PickerIInv, surface' \in Surfaces, surface'.picker = surface.picker,
         surface.cleanup = "confirmed" => surface'.cleanup = "confirmed",
         UNCHANGED <<hostVars, doc, wire>>
  PROVE  PickerIInv'
<1>1. PickerTypeOK' /\ StartsOnce'
  BY DEF PickerIInv, PickerTypeOK, StartsOnce, hostVars
<1>2. \A q \in Picker : Untouched(q)
  BY DEF Untouched, hostVars
<1> QED BY <1>1, <1>2, UntouchedStays DEF PickerIInv

LEMMA UserEndsStep ==
  ASSUME PickerIInv, UserEnds
  PROVE  PickerIInv'
<1>1. PICK status \in {"selected", "cancelled", "expired", "target_changed"} :
        surface' = FinishSurface(status)
  BY DEF UserEnds
<1>2. surface \in Surfaces
  BY DEF PickerIInv, PickerTypeOK
<1>3. surface' \in Surfaces /\ surface'.picker = surface.picker /\ surface'.cleanup = surface.cleanup
  BY <1>1, <1>2, SurfaceEnds DEF FinishSurface
<1> QED BY <1>3, SurfaceStep DEF UserEnds

LEMMA TornDownStep ==
  ASSUME PickerIInv, TornDown
  PROVE  PickerIInv'
<1>1. PICK cleanup \in {"confirmed", "unconfirmed"} :
        surface' = [surface EXCEPT !.cleanup = cleanup, !.sequence = @ + 1]
  BY DEF TornDown
<1>2. surface \in Surfaces
  BY DEF PickerIInv, PickerTypeOK
<1>3. surface' \in Surfaces /\ surface'.picker = surface.picker
  BY <1>1, <1>2, SurfaceEnds
<1> QED BY <1>3, SurfaceStep DEF TornDown

LEMMA UnauthorizeStep ==
  ASSUME PickerIInv, Unauthorize
  PROVE  PickerIInv'
<1>1. PickerTypeOK' /\ StartsOnce'
  BY DEF PickerIInv, PickerTypeOK, StartsOnce, Unauthorize, pageVars
<1>2. \A q \in Picker : Untouched(q)
  BY DEF Untouched, Unauthorize, pageVars
<1> QED BY <1>1, <1>2, UntouchedStays DEF PickerIInv

LEMMA WindowClosedEntry ==
  ASSUME PickerIInv, NEW p \in Picker
  PROVE  LET f == WindowClosed(p)
         IN /\ f \in Entries /\ f.complete = entry[p].complete
            /\ Kept(p) => ~f.lease
            /\ f.lease => f.cleanup \notin {"confirmed", "context_destroyed"}
            /\ (Active(f) /\ Kept(p)) => entry[p].complete
<1> DEFINE e == entry[p]
           b == BeginTargetCleanup(e)
           c == ContextDestroyed(b)
<1>1. e \in Entries /\ PickerOK(p)
  BY KeptHere
<1>2. SameSurface(b, e) /\ ~Active(b)
  BY <1>1, CleanupBegins
<1> HIDE DEF b
<1>3. c \in Entries /\ ~c.lease /\ c.complete = e.complete /\ ~Active(c)
  BY <1>2, LeaseReturned DEF SameSurface
<1> HIDE DEF c
<1>4. ASSUME NEW g \in Entries
      PROVE  LET f == [g EXCEPT !.pinned = FALSE]
             IN /\ f \in Entries /\ f.lease = g.lease /\ f.complete = g.complete
                /\ f.cleanup = g.cleanup /\ (Active(f) <=> Active(g))
  BY DEF Entries, Active
<1>5. CASE Kept(p) /\ (~e.complete \/ e.lease)
  <2>1. WindowClosed(p) = [c EXCEPT !.pinned = FALSE]
    BY <1>5 DEF WindowClosed, c, b
  <2> QED BY <1>3, <1>4, <2>1
<1>6. CASE ~(Kept(p) /\ (~e.complete \/ e.lease))
  <2>1. WindowClosed(p) = [e EXCEPT !.pinned = FALSE]
    BY <1>6 DEF WindowClosed
  <2> QED BY <1>1, <1>4, <1>6, <2>1 DEF PickerOK
<1> QED BY <1>5, <1>6

LEMMA PageChangedStep ==
  ASSUME PickerIInv, PageChanged
  PROVE  PickerIInv'
<1>1. /\ doc < MaxDocs /\ doc' = doc + 1 /\ surface' = NoSurface /\ wire' = {}
      /\ entry' = [p \in Picker |-> WindowClosed(p)]
      /\ UNCHANGED <<at, asked, answer, shooting, authorized>>
  BY DEF PageChanged
<1>2. PickerTypeOK'
  <2>1. entry' \in [Picker -> Entries]
    BY <1>1, WindowClosedEntry
  <2>2. doc' \in 1..MaxDocs
    BY <1>1, PickerConstants DEF PickerIInv, PickerTypeOK
  <2>3. surface' \in Surfaces
    BY <1>1 DEF NoSurface, Surfaces, EndStatus
  <2> QED BY <1>1, <2>1, <2>2, <2>3 DEF PickerIInv, PickerTypeOK
<1>3. StartsOnce'
  BY <1>1 DEF StartsOnce
<1>4. ASSUME NEW p \in Picker
      PROVE  PickerOK(p)'
  <2>1. ~StartOut(p)' /\ surface'.picker # p /\ \A m \in wire' : m.picker # p
    BY <1>1, PickerConstants DEF StartOut, NoSurface
  <2>2. entry'[p] = WindowClosed(p) /\ PickerOK(p)
    BY <1>1 DEF PickerIInv
  <2>3. (at[p] \in {"spawned", "preparing", "starting"} /\ Active(entry[p])') => entry'[p].lease
    BY <2>2, WindowClosedEntry DEF PickerOK, Kept, Active
  <2>4. entry'[p].cleanup \in {"confirmed", "context_destroyed"} => ~entry'[p].lease
    BY <2>2, WindowClosedEntry
  <2>5. entry'[p].complete => at[p] = "done"
    BY <2>2, WindowClosedEntry DEF PickerOK
  <2>6. (at[p] \in {"release", "done"} /\ entry'[p].lease) => entry'[p].cleanup = "unconfirmed"
    BY <2>2, WindowClosedEntry DEF Kept
  <2> QED BY <1>1, <2>1, <2>2, <2>3, <2>4, <2>5, <2>6 DEF PickerOK
<1> QED BY <1>2, <1>3, <1>4 DEF PickerIInv

-----------------------------------------------------------------------------
(* The invariant and what follows                                          *)

LEMMA PickerStarts ==
  ASSUME PickerInit
  PROVE  PickerIInv
<1>1. PickerTypeOK
  BY FirstEntry, PickerConstants
     DEF PickerInit, PickerTypeOK, Answers, Surfaces, NoSurface, EndStatus, At
<1>2. StartsOnce
  BY DEF PickerInit, StartsOnce
<1>3. ASSUME NEW p \in Picker
      PROVE  PickerOK(p)
  BY FirstEntry, PickerConstants DEF PickerInit, PickerOK, StartOut, NoSurface, Unanswered
<1> QED BY <1>1, <1>2, <1>3 DEF PickerIInv

LEMMA TaskStep ==
  ASSUME PickerIInv, NEW p \in Picker, RunTask(p)
  PROVE  PickerIInv'
<1>1. ASSUME Begin(p) PROVE PickerIInv'             BY <1>1, BeginStep
<1>2. ASSUME Prepare(p) PROVE PickerIInv'           BY <1>2, PrepareStep
<1>3. ASSUME StartSurface(p) PROVE PickerIInv'      BY <1>3, StartSurfaceStep
<1>4. ASSUME StartNotDispatched(p) PROVE PickerIInv' BY <1>4, StartNotDispatchedStep
<1>5. ASSUME Look(p) PROVE PickerIInv'              BY <1>5, LookStep
<1>6. ASSUME GiveUpCleanup(p) PROVE PickerIInv'     BY <1>6, GiveUpCleanupStep
<1>7. ASSUME Poll(p) PROVE PickerIInv'              BY <1>7, PollStep
<1>8. ASSUME Report(p) PROVE PickerIInv'            BY <1>8, ReportStep
<1>9. ASSUME StartRefused(p) PROVE PickerIInv'      BY <1>9, StartRefusedStep
<1>10. ASSUME PollRefused(p) PROVE PickerIInv'      BY <1>10, PollRefusedStep
<1>11. ASSUME CallTimedOut(p) PROVE PickerIInv'     BY <1>11, CallTimedOutStep
<1>12. ASSUME Probe(p) PROVE PickerIInv'            BY <1>12, ProbeStep
<1>13. ASSUME Finish(p) PROVE PickerIInv'           BY <1>13, FinishStep
<1>14. ASSUME LostPin(p) PROVE PickerIInv'          BY <1>14, LostPinStep
<1> QED BY <1>1, <1>2, <1>3, <1>4, <1>5, <1>6, <1>7, <1>8, <1>9, <1>10, <1>11, <1>12, <1>13,
           <1>14
        DEF RunTask

LEMMA PickerStep ==
  ASSUME PickerIInv, [PickerNext]_pickerVars
  PROVE  PickerIInv'
<1>1. ASSUME NEW p \in Picker, Reserve(p) PROVE PickerIInv'            BY <1>1, ReserveStep
<1>2. ASSUME NEW p \in Picker, Cancel(p) PROVE PickerIInv'             BY <1>2, CancelStep
<1>3. ASSUME NEW p \in Picker, Reap(p) PROVE PickerIInv'               BY <1>3, ReapStep
<1>4. ASSUME NEW p \in Picker, RunTask(p) PROVE PickerIInv'            BY <1>4, TaskStep
<1>5. ASSUME NEW p \in Picker, CaptureEnds(p) PROVE PickerIInv'        BY <1>5, CaptureEndsStep
<1>6. ASSUME NEW p \in Picker, ConnectionLost(p) PROVE PickerIInv'     BY <1>6, ConnectionLostStep
<1>7. ASSUME NEW p \in Picker, DeadlinePasses(p) PROVE PickerIInv'     BY <1>7, DeadlinePassesStep
<1>8. ASSUME NEW p \in Picker, CleanupBudgetSpent(p) PROVE PickerIInv' BY <1>8, CleanupBudgetSpentStep
<1>9. ASSUME NEW m \in wire, PageStart(m) PROVE PickerIInv'            BY <1>9, PageStartStep
<1>10. ASSUME NEW m \in wire, PageStatus(m) PROVE PickerIInv'          BY <1>10, PageStatusStep
<1>11. ASSUME UserEnds PROVE PickerIInv'                               BY <1>11, UserEndsStep
<1>12. ASSUME TornDown PROVE PickerIInv'                               BY <1>12, TornDownStep
<1>13. ASSUME PageChanged PROVE PickerIInv'                            BY <1>13, PageChangedStep
<1>14. ASSUME Unauthorize PROVE PickerIInv'                            BY <1>14, UnauthorizeStep
<1>15. CASE UNCHANGED pickerVars
  <2>1. PickerTypeOK' /\ StartsOnce'
    BY <1>15 DEF PickerIInv, PickerTypeOK, StartsOnce, pickerVars, hostVars, pageVars
  <2>2. \A q \in Picker : Untouched(q)
    BY <1>15 DEF Untouched, pickerVars, hostVars, pageVars
  <2> QED BY <2>1, <2>2, UntouchedStays DEF PickerIInv
<1> QED BY <1>1, <1>2, <1>3, <1>4, <1>5, <1>6, <1>7, <1>8, <1>9, <1>10, <1>11, <1>12,
           <1>13, <1>14, <1>15 DEF PickerNext

(* In every state: what the page has of a picker agrees with the lease its *)
(* entry has, and a start is out at most once.                             *)
THEOREM PickerInvariance == PickerSpec => []PickerIInv
<1> QED BY PickerStarts, PickerStep, PTL DEF PickerSpec

(* The picker's state keeps its type.                                      *)
THEOREM PickerTypeCorrect == PickerSpec => []PickerTypeOK
<1>1. PickerIInv => PickerTypeOK
  BY DEF PickerIInv
<1> QED BY <1>1, PickerInvariance, PTL

(* Nothing else has the window while a surface is up or its removal is not *)
(* confirmed, and a complete picker keeps the window only for a removal    *)
(* that the page did not confirm (src/plugin/src/picker/mod.rs,            *)
(* Entry::accept and Registry::run).                                       *)
THEOREM LeaseFollows == PickerSpec => []LeaseFollowsSurface
<1>1. PickerIInv => LeaseFollowsSurface
  BY DEF PickerIInv, PickerOK, LeaseFollowsSurface, LeaseCoversSurface, OnlyUnconfirmedKeepsLease
<1> QED BY <1>1, PickerInvariance, PTL

-----------------------------------------------------------------------------
(* Batch: actions, their order and their reports                           *)

-----------------------------------------------------------------------------
(* The rounds of validate                                                  *)

LEMMA LeastNatural ==
  ASSUME NEW S \in SUBSET Nat, S # {}
  PROVE  \E n \in S : \A m \in S : n <= m
<1>1. PICK n \in S : \A m \in S : ~ (<<m, n>> \in OpToRel(<, Nat))
  BY WFMin, NatLessThanWellFounded, Zenon
<1>2. \A m \in S : ~(m < n)
  BY <1>1 DEF OpToRel
<1> QED BY <1>2

IsRounds(round, p, n) ==
  round = [k \in 0..n |->
             IF k = 0 THEN {} ELSE {i \in Actions : Deps(p, i) \subseteq round[k - 1]}]

LEMMA RoundsExist ==
  ASSUME NEW p
  PROVE  \A n \in Nat : \E round : IsRounds(round, p, n)
<1> DEFINE Has(n) == \E round : IsRounds(round, p, n)
           Bad == {n \in Nat : ~Has(n)}
<1>1. SUFFICES ASSUME Bad # {} PROVE FALSE
  OBVIOUS
<1>2. PICK n \in Bad : \A m \in Bad : n <= m
  BY <1>1, LeastNatural
<1>3. CASE n = 0
  <2> DEFINE f == [k \in 0..0 |-> {}]
  <2>1. f = [k \in 0..0 |-> IF k = 0 THEN {} ELSE {i \in Actions : Deps(p, i) \subseteq f[k - 1]}]
    OBVIOUS
  <2> QED BY <1>3, <2>1 DEF IsRounds
<1>4. CASE n # 0
  <2>1. n - 1 \in Nat /\ n - 1 \notin Bad
    <3> HIDE DEF Has
    <3> QED BY <1>2, <1>4
  <2>2. PICK g : g = [k \in 0..(n-1) |->
             IF k = 0 THEN {} ELSE {i \in Actions : Deps(p, i) \subseteq g[k - 1]}]
    BY <2>1 DEF IsRounds
  <2> DEFINE f == [k \in 0..n |-> IF k = n THEN {i \in Actions : Deps(p, i) \subseteq g[n - 1]} ELSE g[k]]
  <2>3. ASSUME NEW k \in 0..n
        PROVE f[k] = IF k = 0 THEN {} ELSE {i \in Actions : Deps(p, i) \subseteq f[k - 1]}
    <3>1. CASE k = n
      <4>1. n \in Nat /\ n \in 0..n /\ n - 1 \in 0..n /\ n - 1 # n
        BY <1>4
      <4>2. f[n - 1] = g[n - 1] /\ f[n] = {i \in Actions : Deps(p, i) \subseteq g[n - 1]}
        BY <4>1
      <4> QED BY <1>4, <3>1, <4>2
    <3>2. CASE k # n
      <4>1. k \in 0..(n-1) /\ f[k] = g[k] /\ (k # 0 => (k - 1 \in 0..(n - 1) /\ f[k-1] = g[k-1]))
        BY <3>2
      <4>2. g[k] = IF k = 0 THEN {} ELSE {i \in Actions : Deps(p, i) \subseteq g[k - 1]}
        BY <2>2, <4>1
      <4> QED BY <4>1, <4>2
    <3> QED BY <3>1, <3>2
  <2>4. f = [k \in 0..n |->
             IF k = 0 THEN {} ELSE {i \in Actions : Deps(p, i) \subseteq f[k - 1]}]
    BY <2>3
  <2> HIDE DEF f
  <2> QED BY <2>4 DEF IsRounds
<1> QED BY <1>3, <1>4

LEMMA RoundsAre ==
  ASSUME NEW p
  PROVE  \E round : /\ Resolved(p) = round[NumActions]
                    /\ \A k \in 0..NumActions : round[k] =
                       IF k = 0 THEN {} ELSE {i \in Actions : Deps(p, i) \subseteq round[k - 1]}
<1> DEFINE round[k \in 0..NumActions] ==
        IF k = 0 THEN {} ELSE {i \in Actions : Deps(p, i) \subseteq round[k - 1]}
<1>1. Resolved(p) = round[NumActions]
  BY DEF Resolved
<1>2. round = [k \in 0..NumActions |-> 
        IF k = 0 THEN {} ELSE {i \in Actions : Deps(p, i) \subseteq round[k - 1]}]
  <2>1. \E r : r = [k \in 0..NumActions |->
          IF k = 0 THEN {} ELSE {i \in Actions : Deps(p, i) \subseteq r[k - 1]}]
    <3>1. \E r : IsRounds(r, p, NumActions)
      BY BatchConstants, RoundsExist
    <3> QED BY <3>1, Zenon DEF IsRounds
  <2> QED BY <2>1, Zenon
<1> HIDE DEF round
<1>3. \A k \in 0..NumActions : round[k] =
                       IF k = 0 THEN {} ELSE {i \in Actions : Deps(p, i) \subseteq round[k - 1]}
  BY <1>2
<1> QED BY <1>1, <1>3
-----------------------------------------------------------------------------
(* The invariant                                                           *)

Open(i) == {d \in Deps(plan, i) : ~Over(d)}
Free == {i \in Actions : state[i] = "pending" /\ remaining[i] = 0}

(* The queue q holds the actions of S, each once, in sets that are not     *)
(* empty.                                                                  *)
Queued(q, S) ==
  /\ q \in Seq(SUBSET Actions)
  /\ \A k \in DOMAIN q : q[k] # {} /\ q[k] \subseteq S
  /\ \A i \in S : \E k \in DOMAIN q : i \in q[k]
  /\ \A j, k \in DOMAIN q : q[j] \cap q[k] # {} => j = k

(* The count of an action is that of its dependencies that are not over,   *)
(* none is started before they are, and what is free is queued.            *)
CountsOK ==
  /\ \A i \in Actions : remaining[i] = Cardinality(Open(i))
  /\ \A i \in Actions : state[i] # "unreached"
  /\ \A i \in Actions : state[i] # "pending" => Open(i) = {}
  /\ Queued(ready, Free)

(* An action is skipped and the batch is aborted for a reason.             *)
ReasonsOK ==
  /\ \A i \in Actions : state[i] = "skipped" => FailedDependency(i) \/ abort
  /\ abort <=> (plan.stopOnError /\ \E i \in Actions : state[i] = "failed")

BatchIInv ==
  /\ BatchTypeOK /\ Validated(plan)
  /\ phase # "reported" => CountsOK
  /\ ReasonsOK /\ DependenciesHold
  /\ Cardinality(Running) <= plan.max
  /\ phase = "reported" => \A i \in Actions : Over(i)

-----------------------------------------------------------------------------
(* The queue                                                               *)

LEMMA NextIsQueued ==
  ASSUME NEW S \in SUBSET Actions, Queued(ready, S), ready # <<>>
  PROVE  /\ 1 \in DOMAIN ready /\ Head(ready) = ready[1] /\ NextReady \in ready[1]
         /\ NextReady \in S /\ ready \in Seq(SUBSET Actions)
<1>1. /\ ready \in Seq(SUBSET Actions) /\ 1 \in DOMAIN ready /\ Head(ready) = ready[1]
      /\ ready[1] # {} /\ ready[1] \subseteq S
  BY DEF Queued
<1>2. Head(ready) \in SUBSET Nat /\ Head(ready) # {}
  BY <1>1, BatchConstants DEF Actions
<1>3. \E i \in Head(ready) : \A j \in Head(ready) : i <= j
  BY <1>2, LeastNatural
<1>4. NextReady \in Head(ready)
  BY <1>3 DEF NextReady
<1> QED BY <1>1, <1>4

LEMMA PoppedQueue ==
  ASSUME NEW S \in SUBSET Actions, Queued(ready, S), ready # <<>>
  PROVE  Queued(Popped, S \ {NextReady})
<1> DEFINE n == NextReady
<1>1. /\ 1 \in DOMAIN ready /\ Head(ready) = ready[1] /\ n \in ready[1]
      /\ ready \in Seq(SUBSET Actions)
  BY NextIsQueued
<1>2. /\ \A k \in DOMAIN ready : ready[k] # {} /\ ready[k] \subseteq S
      /\ \A i \in S : \E k \in DOMAIN ready : i \in ready[k]
      /\ \A j, k \in DOMAIN ready : ready[j] \cap ready[k] # {} => j = k
  BY DEF Queued
<1> HIDE DEF n
<1>3. \A k \in DOMAIN ready : k # 1 => n \notin ready[k]
  BY <1>1, <1>2
<1>4. CASE ready[1] = {n}
  <2>1. Popped = Tail(ready)
    BY <1>1, <1>4 DEF Popped, n
  <2>2. /\ Tail(ready) \in Seq(SUBSET Actions)
        /\ \A k \in DOMAIN Tail(ready) : k + 1 \in DOMAIN ready /\ k + 1 # 1 /\ Tail(ready)[k] = ready[k + 1]
        /\ \A k \in DOMAIN ready : k # 1 => k - 1 \in DOMAIN Tail(ready) /\ ready[k] = Tail(ready)[k - 1]
        /\ \A k \in DOMAIN ready : k \in Nat
        /\ \A k \in DOMAIN Tail(ready) : k \in Nat
    <3>1. /\ Tail(ready) \in Seq(SUBSET Actions)
          /\ DOMAIN ready = 1..Len(ready) /\ DOMAIN Tail(ready) = 1..Len(Tail(ready))
          /\ Len(ready) \in Nat /\ Len(Tail(ready)) = Len(ready) - 1
      BY <1>1
    <3>2. \A k \in 1..(Len(ready) - 1) : Tail(ready)[k] = ready[k + 1]
      BY <1>1
    <3>3. ASSUME NEW k \in DOMAIN Tail(ready)
          PROVE  /\ k + 1 \in DOMAIN ready /\ k + 1 # 1 /\ k \in Nat
                 /\ Tail(ready)[k] = ready[k + 1]
      BY <3>1, <3>2, <3>3
    <3>4. ASSUME NEW k \in DOMAIN ready, k # 1
          PROVE  k - 1 \in DOMAIN Tail(ready) /\ ready[k] = Tail(ready)[k - 1]
      <4>1. k - 1 \in 1..(Len(ready) - 1) /\ (k - 1) + 1 = k
        BY <3>1, <3>4
      <4> QED BY <3>1, <3>2, <4>1
    <3> QED BY <3>1, <3>3, <3>4
  <2> DEFINE t == Tail(ready)
  <2> HIDE DEF t
  <2>3. \A k \in DOMAIN t : t[k] # {} /\ t[k] \subseteq S \ {n}
    BY <1>2, <1>3, <2>2 DEF t
  <2>4. \A i \in S \ {n} : \E k \in DOMAIN t : i \in t[k]
    BY <1>2, <1>4, <2>2 DEF t
  <2>5. \A j, k \in DOMAIN t : t[j] \cap t[k] # {} => j = k
    <3>1. ASSUME NEW j \in DOMAIN t, NEW k \in DOMAIN t, t[j] \cap t[k] # {}
          PROVE  j + 1 = k + 1
      BY <1>2, <2>2, <3>1 DEF t
    <3> QED BY <2>2, <3>1 DEF t
  <2> QED BY <2>1, <2>2, <2>3, <2>4, <2>5 DEF Queued, t, n
<1>5. CASE ready[1] # {n}
  <2> DEFINE t == [ready EXCEPT ![1] = @ \ {n}]
  <2>1. Popped = t
    BY <1>1, <1>5 DEF Popped, n
  <2>2. t \in Seq(SUBSET Actions) /\ DOMAIN t = DOMAIN ready
    BY <1>1
  <2>3. t[1] = ready[1] \ {n} /\ \A k \in DOMAIN ready : k # 1 => t[k] = ready[k]
    BY <1>1
  <2> HIDE DEF t
  <2>4. \A k \in DOMAIN t : t[k] # {} /\ t[k] \subseteq S \ {n} /\ t[k] \subseteq ready[k]
    BY <1>1, <1>2, <1>3, <1>5, <2>2, <2>3
  <2>5. \A i \in S \ {n} : \E k \in DOMAIN t : i \in t[k]
    BY <1>1, <1>2, <2>2, <2>3
  <2>6. \A j, k \in DOMAIN t : t[j] \cap t[k] # {} => j = k
    BY <1>2, <2>2, <2>4
  <2> QED BY <2>1, <2>2, <2>4, <2>5, <2>6 DEF Queued, n
<1> QED BY <1>4, <1>5

LEMMA AppendedQueue ==
  ASSUME NEW S \in SUBSET Actions, NEW q, Queued(q, S),
         NEW U \in SUBSET Actions, U # {}, U \cap S = {}
  PROVE  Queued(Append(q, U), S \cup U)
<1>1. q \in Seq(SUBSET Actions)
  BY DEF Queued
<1> DEFINE t == Append(q, U)
           n == Len(q) + 1
<1>2. /\ t \in Seq(SUBSET Actions) /\ n \in DOMAIN t /\ t[n] = U
      /\ \A k \in DOMAIN q : k \in DOMAIN t /\ t[k] = q[k]
      /\ \A k \in DOMAIN t : k = n \/ k \in DOMAIN q
  BY <1>1
<1> HIDE DEF t, n
<1> QED BY <1>2 DEF Queued, t

-----------------------------------------------------------------------------
(* Dependencies                                                            *)

LEMMA OpenIsFinite ==
  ASSUME plan \in Plans, NEW i \in Actions
  PROVE  /\ Deps(plan, i) \subseteq Actions
         /\ IsFiniteSet(Open(i)) /\ Cardinality(Open(i)) \in Nat
         /\ Cardinality(Open(i)) = 0 <=> Open(i) = {}
<1>1. Deps(plan, i) \subseteq Actions
  BY BatchConstants DEF Deps, Plans, Actions
<1>2. IsFiniteSet(Actions)
  BY FS_Interval, BatchConstants DEF Actions
<1>3. Open(i) \in SUBSET Actions
  BY <1>1 DEF Open
<1>4. IsFiniteSet(Open(i))
  BY <1>2, <1>3, FS_Subset
<1> QED BY <1>1, <1>4, FS_CardinalityType, FS_EmptySet

LEMMA RunningIsFinite == IsFiniteSet(Running) /\ Cardinality(Running) \in Nat
<1>1. IsFiniteSet(Actions)
  BY FS_Interval, BatchConstants DEF Actions
<1>2. Running \in SUBSET Actions
  BY DEF Running
<1> QED BY <1>1, <1>2, FS_Subset, FS_CardinalityType

(* i is over now, and its dependents wait for one less: those that waited  *)
(* for nothing else are queued.                                            *)
LEMMA DependentsReleased ==
  ASSUME BatchIInv, phase = "starting" \/ phase = "waiting",
         NEW i \in Actions, ~Over(i), Open(i) = {},
         NEW word \in {"ok", "failed", "skipped"}, state' = [state EXCEPT ![i] = word],
         NEW queue, Queued(queue, Free \ {i}), ReleaseDependents(i, queue), plan' = plan
  PROVE  CountsOK' /\ remaining' \in [Actions -> Int] /\ ready' \in Seq(SUBSET Actions)
<1> DEFINE unblocked == {d \in Actions : i \in Deps(plan, d) /\ remaining[d] = 1}
<1>1. /\ plan \in Plans /\ state \in [Actions -> ActionStates] /\ remaining \in [Actions -> Int]
      /\ CountsOK
  BY DEF BatchIInv, BatchTypeOK
<1>2. /\ \A j \in Actions : Over(j)' <=> (Over(j) \/ j = i)
      /\ \A j \in Actions : j # i => state'[j] = state[j]
      /\ state'[i] = word
  BY <1>1 DEF Over
<1>3. \A j \in Actions : Open(j)' = Open(j) \ {i}
  BY <1>1, <1>2, OpenIsFinite DEF Open
<1>4. \A j \in Actions : i \in Open(j) <=> i \in Deps(plan, j)
  BY DEF Open
<1>5. \A j \in Actions : remaining'[j] = IF i \in Deps(plan, j) THEN remaining[j] - 1 ELSE remaining[j]
  BY DEF ReleaseDependents
<1>6. remaining' \in [Actions -> Int]
  BY <1>1 DEF ReleaseDependents
<1>7. ASSUME NEW j \in Actions
      PROVE  /\ remaining'[j] = Cardinality(Open(j)')
             /\ remaining[j] = Cardinality(Open(j)) /\ remaining[j] \in Nat
             /\ remaining[j] = 0 <=> Open(j) = {}
             /\ state[j] # "pending" => Open(j) = {}
  <2>1. remaining[j] = Cardinality(Open(j)) /\ IsFiniteSet(Open(j))
    BY <1>1, OpenIsFinite DEF CountsOK
  <2>2. Cardinality(Open(j) \ {i}) = IF i \in Open(j) THEN Cardinality(Open(j)) - 1
                                                     ELSE Cardinality(Open(j))
    BY <2>1, FS_RemoveElement
  <2>3. remaining'[j] = Cardinality(Open(j)')
    BY <1>3, <1>4, <1>5, <2>1, <2>2
  <2> QED BY <1>1, <2>1, <2>3, OpenIsFinite DEF CountsOK
<1>8. unblocked \in SUBSET Actions /\ unblocked \cap (Free \ {i}) = {}
  BY DEF Free
<1>9. Free' = (Free \ {i}) \cup unblocked
  <2>1. ASSUME NEW j \in Free \ {i}
        PROVE  j \in Free'
    <3>1. j \in Actions /\ state'[j] = "pending" /\ Open(j) = {} /\ remaining[j] = 0
      BY <1>2, <1>7 DEF Free
    <3> QED BY <1>4, <1>5, <3>1 DEF Free
  <2>2. ASSUME NEW j \in unblocked
        PROVE  j \in Free'
    <3>1. j \in Actions /\ i \in Deps(plan, j) /\ i \in Open(j)
      BY <1>4
    <3>2. j # i /\ state[j] = "pending"
      BY <1>7, <3>1
    <3> QED BY <1>2, <1>5, <3>1, <3>2 DEF Free
  <2>3. ASSUME NEW j \in Free'
        PROVE  j \in (Free \ {i}) \cup unblocked
    <3>1. j \in Actions /\ state'[j] = "pending" /\ remaining'[j] = 0
      BY DEF Free
    <3>2. j # i /\ state[j] = "pending"
      BY <1>2, <3>1
    <3>3. CASE i \in Deps(plan, j)
      BY <1>5, <1>7, <3>1, <3>3
    <3>4. CASE i \notin Deps(plan, j)
      BY <1>5, <3>1, <3>2, <3>4 DEF Free
    <3> QED BY <3>3, <3>4
  <2> QED BY <2>1, <2>2, <2>3
<1>10. Queued(ready', Free') /\ ready' \in Seq(SUBSET Actions)
  <2>1. Free \ {i} \in SUBSET Actions
    BY DEF Free
  <2>2. ready' = IF unblocked = {} THEN queue ELSE Append(queue, unblocked)
    BY DEF ReleaseDependents
  <2> HIDE DEF unblocked
  <2>3. Queued(ready', (Free \ {i}) \cup unblocked)
    <3>1. CASE unblocked = {}
      BY <2>2, <3>1
    <3>2. CASE unblocked # {}
      BY <1>8, <2>1, <2>2, <3>2, AppendedQueue
    <3> QED BY <3>1, <3>2
  <2> QED BY <1>9, <2>3 DEF Queued
<1>11. \A j \in Actions : state'[j] # "unreached" /\ (state'[j] # "pending" => Open(j)' = {})
  BY <1>1, <1>2, <1>3, <1>7 DEF CountsOK
<1>12. (\A j \in Actions : remaining[j] = Cardinality(Open(j)))'
  BY <1>7
<1>13. Queued(ready, Free)'
  BY <1>10 DEF Queued
<1> QED BY <1>6, <1>10, <1>11, <1>12, <1>13 DEF CountsOK

(* What was decided stays so when i is over.                               *)
LEMMA DecisionsStay ==
  ASSUME BatchIInv, NEW i \in Actions, ~Over(i),
         NEW word \in {"running", "ok", "failed", "skipped"}, state' = [state EXCEPT ![i] = word],
         plan' = plan,
         word \in {"running", "ok", "failed"} =>
           (\A d \in Deps(plan, i) : Over(d)) /\ (\A d \in plan.dependsOn[i] : state[d] = "ok")
  PROVE  /\ DependenciesHold'
         /\ \A j \in Actions : FailedDependency(j) => FailedDependency(j)'
<1>1. /\ plan \in Plans /\ state \in [Actions -> ActionStates] /\ DependenciesHold
  BY DEF BatchIInv, BatchTypeOK
<1>2. /\ \A j \in Actions : j # i => state'[j] = state[j]
      /\ state'[i] = word /\ state[i] \notin {"ok", "failed", "skipped"}
  BY <1>1 DEF Over
<1>3. \A j \in Actions : Deps(plan, j) \subseteq Actions /\ plan.dependsOn[j] \subseteq Actions
  BY <1>1, OpenIsFinite DEF Plans
<1>4. ASSUME NEW j \in Actions, state'[j] \in {"running", "ok", "failed"}
      PROVE  /\ \A d \in Deps(plan, j) : Over(d)'
             /\ \A d \in plan.dependsOn[j] : state'[d] = "ok"
  <2>1. /\ \A d \in Deps(plan, j) : Over(d)
        /\ \A d \in plan.dependsOn[j] : state[d] = "ok"
    BY <1>1, <1>2, <1>4 DEF DependenciesHold
  <2>2. i \notin Deps(plan, j) /\ i \notin plan.dependsOn[j]
    BY <1>2, <2>1
  <2>3. \A d \in Deps(plan, j) : state'[d] = state[d]
    BY <1>2, <1>3, <2>2
  <2> QED BY <1>2, <1>3, <2>1, <2>2, <2>3 DEF Over
<1>5. DependenciesHold'
  BY <1>4 DEF DependenciesHold
<1>6. ASSUME NEW j \in Actions, FailedDependency(j)
      PROVE  FailedDependency(j)'
  BY <1>2, <1>3, <1>6 DEF FailedDependency
<1> QED BY <1>5, <1>6

-----------------------------------------------------------------------------
(* The steps                                                               *)

LEMMA BatchStarts ==
  ASSUME BatchInit
  PROVE  BatchIInv
<1>1. plan \in Plans /\ Validated(plan) /\ abort = FALSE /\ phase = "starting"
  BY DEF BatchInit
<1>2. \A i \in Actions : state[i] = "pending" /\ remaining[i] = Cardinality(Deps(plan, i))
  BY DEF BatchInit
<1>3. \A i \in Actions : Open(i) = Deps(plan, i)
  BY <1>1, <1>2, OpenIsFinite DEF Open, Over
<1>4. BatchTypeOK
  <2>1. state \in [Actions -> ActionStates]
    BY DEF BatchInit, ActionStates
  <2>2. remaining \in [Actions -> Int]
    BY <1>1, <1>3, OpenIsFinite DEF BatchInit
  <2>3. ready \in Seq(SUBSET Actions)
    <3>1. PICK free \in SUBSET Actions : ready = IF free = {} THEN <<>> ELSE <<free>>
      BY DEF BatchInit
    <3>2. <<>> \in Seq(SUBSET Actions) /\ <<free>> \in Seq(SUBSET Actions)
      OBVIOUS
    <3> QED BY <3>1, <3>2
  <2> QED BY <1>1, <2>1, <2>2, <2>3 DEF BatchTypeOK
<1>5. CountsOK
  <2> DEFINE free == {i \in Actions : Deps(plan, i) = {}}
  <2>1. free = Free
    BY <1>1, <1>2, <1>3, OpenIsFinite DEF Free
  <2>2. ready = IF free = {} THEN <<>> ELSE <<free>>
    BY DEF BatchInit
  <2>3. free \in SUBSET Actions
    OBVIOUS
  <2> HIDE DEF free
  <2>4. Queued(ready, free)
    <3>1. CASE free = {}
      BY <2>2, <3>1 DEF Queued
    <3>2. CASE free # {}
      <4>1. ready = <<free>>
        BY <2>2, <3>2
      <4>2. <<free>> \in Seq(SUBSET Actions)
        BY <2>3
      <4>3. DOMAIN <<free>> = {1} /\ <<free>>[1] = free
        OBVIOUS
      <4> QED BY <3>2, <4>1, <4>2, <4>3 DEF Queued
    <3> QED BY <3>1, <3>2
  <2> QED BY <1>2, <1>3, <2>1, <2>4 DEF CountsOK
<1>6. Running = {}
  BY <1>2 DEF Running
<1>7. Cardinality(Running) <= plan.max
  BY <1>1, <1>6, FS_EmptySet DEF Plans, Actions
<1> QED BY <1>1, <1>2, <1>4, <1>5, <1>7 DEF BatchIInv, ReasonsOK, DependenciesHold

(* What is queued may start: all that it waits for is over.                *)
LEMMA NextIsFree ==
  ASSUME BatchIInv, phase = "starting", ready # <<>>
  PROVE  /\ NextReady \in Actions /\ state[NextReady] = "pending" /\ ~Over(NextReady)
         /\ Open(NextReady) = {} /\ Queued(Popped, Free \ {NextReady})
         /\ plan \in Plans
         /\ \A d \in Deps(plan, NextReady) : Over(d)
<1>1. CountsOK /\ Queued(ready, Free) /\ Free \in SUBSET Actions /\ plan \in Plans
  BY DEF BatchIInv, CountsOK, Free, BatchTypeOK
<1>2. NextReady \in Free /\ Queued(Popped, Free \ {NextReady})
  BY <1>1, NextIsQueued, PoppedQueue
<1>3. remaining[NextReady] = Cardinality(Open(NextReady)) /\ remaining[NextReady] = 0
  BY <1>1, <1>2 DEF CountsOK, Free
<1>4. Open(NextReady) = {}
  BY <1>1, <1>2, <1>3, OpenIsFinite DEF Free
<1> QED BY <1>1, <1>2, <1>4 DEF Free, Over, Open

LEMMA SkipActionStep ==
  ASSUME BatchIInv, SkipAction
  PROVE  BatchIInv'
<1>1. /\ phase = "starting" /\ ready # <<>>
      /\ FailedDependency(NextReady) \/ abort
      /\ UNCHANGED <<plan, abort, phase>>
  BY DEF SkipAction
<1>2. PICK i \in Actions : i = NextReady
  BY <1>1, NextIsFree
<1>3. /\ state' = [state EXCEPT ![i] = "skipped"] /\ ReleaseDependents(i, Popped)
      /\ FailedDependency(i) \/ abort
  BY <1>1, <1>2 DEF SkipAction
<1>4. state[i] = "pending" /\ ~Over(i) /\ Open(i) = {} /\ Queued(Popped, Free \ {i})
  BY <1>1, <1>2, NextIsFree
<1> HIDE <1>2
<1>5. CountsOK' /\ remaining' \in [Actions -> Int] /\ ready' \in Seq(SUBSET Actions)
  <2> DEFINE q == Popped
  <2>1. Queued(q, Free \ {i}) /\ ReleaseDependents(i, q)
    BY <1>3, <1>4
  <2> HIDE DEF q
  <2> QED BY <1>1, <1>3, <1>4, <2>1, DependentsReleased
<1>6. DependenciesHold' /\ \A j \in Actions : FailedDependency(j) => FailedDependency(j)'
  BY <1>1, <1>3, <1>4, DecisionsStay
<1>7. state \in [Actions -> ActionStates]
  BY DEF BatchIInv, BatchTypeOK
<1>8. /\ \A j \in Actions : j # i => state'[j] = state[j]
      /\ state'[i] = "skipped" /\ state' \in [Actions -> ActionStates]
  BY <1>3, <1>7 DEF ActionStates
<1>9. ReasonsOK'
  <2>1. ASSUME NEW j \in Actions, state'[j] = "skipped"
        PROVE  FailedDependency(j)' \/ abort'
    <3>1. FailedDependency(j) \/ abort
      BY <1>3, <1>8, <2>1 DEF BatchIInv, ReasonsOK
    <3> QED BY <1>1, <1>6, <3>1
  <2>2. (\E j \in Actions : state'[j] = "failed") <=> \E j \in Actions : state[j] = "failed"
    BY <1>4, <1>8
  <2> QED BY <1>1, <2>1, <2>2 DEF BatchIInv, ReasonsOK
<1>10. Running' = Running
  BY <1>4, <1>8 DEF Running
<1>11. BatchTypeOK'
  BY <1>1, <1>5, <1>8 DEF BatchIInv, BatchTypeOK
<1> QED BY <1>1, <1>5, <1>6, <1>9, <1>10, <1>11 DEF BatchIInv, Validated

LEMMA StartActionStep ==
  ASSUME BatchIInv, StartAction
  PROVE  BatchIInv'
<1>1. /\ phase = "starting" /\ ready # <<>> /\ ~FailedDependency(NextReady)
      /\ Cardinality(Running) < plan.max /\ ready' = Popped
      /\ UNCHANGED <<plan, remaining, abort, phase>>
  BY DEF StartAction
<1>2. PICK i \in Actions : i = NextReady
  BY <1>1, NextIsFree
<1>3. state' = [state EXCEPT ![i] = "running"] /\ ~FailedDependency(i)
  BY <1>1, <1>2 DEF StartAction
<1>4. /\ state[i] = "pending" /\ ~Over(i) /\ Open(i) = {} /\ Queued(Popped, Free \ {i})
      /\ plan \in Plans /\ \A d \in Deps(plan, i) : Over(d)
  BY <1>1, <1>2, NextIsFree
<1> HIDE <1>2
<1>5. state \in [Actions -> ActionStates]
  BY DEF BatchIInv, BatchTypeOK
<1>6. /\ \A j \in Actions : j # i => state'[j] = state[j]
      /\ state'[i] = "running" /\ state' \in [Actions -> ActionStates]
  BY <1>3, <1>5 DEF ActionStates
<1>7. \A d \in plan.dependsOn[i] : state[d] = "ok"
  <2>1. \A d \in plan.dependsOn[i] : d \in Deps(plan, i) /\ state[d] \notin {"failed", "skipped"}
    BY <1>3 DEF FailedDependency, Deps
  <2> QED BY <1>4, <2>1 DEF Over
<1>8. DependenciesHold' /\ \A j \in Actions : FailedDependency(j) => FailedDependency(j)'
  BY <1>1, <1>3, <1>4, <1>7, DecisionsStay
<1>9. \A j \in Actions : Open(j)' = Open(j)
  <2>1. \A j \in Actions : Over(j)' <=> Over(j)
    BY <1>4, <1>6 DEF Over
  <2> QED BY <1>1, <1>4, <2>1, OpenIsFinite DEF Open
<1>10. Free' = Free \ {i}
  BY <1>1, <1>4, <1>6 DEF Free
<1>11. CountsOK'
  <2>1. CountsOK
    BY <1>1 DEF BatchIInv
  <2>2. Queued(ready', Free')
    BY <1>1, <1>4, <1>10
  <2>3. \A j \in Actions : state'[j] # "unreached" /\ (state'[j] # "pending" => Open(j)' = {})
    BY <1>4, <1>6, <1>9, <2>1 DEF CountsOK
  <2>4. (\A j \in Actions : remaining[j] = Cardinality(Open(j)))'
    BY <1>1, <1>9, <2>1 DEF CountsOK
  <2>5. Queued(ready, Free)'
    BY <2>2 DEF Queued
  <2> QED BY <2>3, <2>4, <2>5 DEF CountsOK
<1>12. ReasonsOK'
  <2>1. ASSUME NEW j \in Actions, state'[j] = "skipped"
        PROVE  FailedDependency(j)' \/ abort'
    <3>1. FailedDependency(j) \/ abort
      BY <1>6, <2>1 DEF BatchIInv, ReasonsOK
    <3> QED BY <1>1, <1>8, <3>1
  <2>2. (\E j \in Actions : state'[j] = "failed") <=> \E j \in Actions : state[j] = "failed"
    BY <1>4, <1>6
  <2> QED BY <1>1, <2>1, <2>2 DEF BatchIInv, ReasonsOK
<1>13. (Cardinality(Running) <= plan.max)'
  <2>1. Running' = Running \cup {i} /\ i \notin Running
    BY <1>4, <1>6 DEF Running
  <2>2. Cardinality(Running') = Cardinality(Running) + 1
    BY <2>1, RunningIsFinite, FS_AddElement
  <2> QED BY <1>1, <1>4, <2>2, RunningIsFinite DEF Plans, Actions
<1>14. ready' \in Seq(SUBSET Actions)
  BY <1>1, <1>4 DEF Queued
<1>15. BatchTypeOK'
  BY <1>1, <1>6, <1>14 DEF BatchIInv, BatchTypeOK
<1> QED BY <1>1, <1>8, <1>11, <1>12, <1>13, <1>15 DEF BatchIInv, Validated

LEMMA WaitStep ==
  ASSUME BatchIInv, Wait
  PROVE  BatchIInv'
<1>1. phase = "starting" /\ phase' = "waiting" /\ UNCHANGED <<plan, state, remaining, ready, abort>>
  BY DEF Wait
<1> QED BY <1>1 DEF BatchIInv, BatchTypeOK, Validated, CountsOK, Open, Free, Queued, Over,
                    ReasonsOK, FailedDependency, DependenciesHold, Running

LEMMA CompleteStep ==
  ASSUME BatchIInv, NEW i \in Actions, Complete(i)
  PROVE  BatchIInv'
<1>1. phase = "waiting" /\ state[i] = "running" /\ phase' = "starting" /\ plan' = plan
  BY DEF Complete, Running
<1>2. PICK success \in BOOLEAN :
        /\ state' = [state EXCEPT ![i] = IF success THEN "ok" ELSE "failed"]
        /\ abort' = (abort \/ (~success /\ plan.stopOnError))
  BY DEF Complete
<1>3. PICK word \in {"ok", "failed"} :
        /\ state' = [state EXCEPT ![i] = word] /\ (word = "failed" <=> ~success)
  BY <1>2
<1>4. state \in [Actions -> ActionStates] /\ plan \in Plans /\ CountsOK /\ abort \in BOOLEAN
  BY <1>1 DEF BatchIInv, BatchTypeOK
<1>5. /\ \A j \in Actions : j # i => state'[j] = state[j]
      /\ state'[i] = word /\ state' \in [Actions -> ActionStates]
  BY <1>3, <1>4 DEF ActionStates
<1>6. ~Over(i) /\ Open(i) = {} /\ i \notin Free
  BY <1>1, <1>4 DEF Over, CountsOK, Free
<1>7. Queued(ready, Free \ {i}) /\ ReleaseDependents(i, ready)
  <2>1. Free \ {i} = Free
    BY <1>6
  <2> QED BY <1>4, <2>1 DEF CountsOK, Complete
<1>8. CountsOK' /\ remaining' \in [Actions -> Int] /\ ready' \in Seq(SUBSET Actions)
  <2> DEFINE q == ready
  <2>1. Queued(q, Free \ {i}) /\ ReleaseDependents(i, q)
    BY <1>7
  <2> HIDE DEF q
  <2> QED BY <1>1, <1>3, <1>6, <2>1, DependentsReleased
<1>9. DependenciesHold' /\ \A j \in Actions : FailedDependency(j) => FailedDependency(j)'
  <2>1. (\A d \in Deps(plan, i) : Over(d)) /\ (\A d \in plan.dependsOn[i] : state[d] = "ok")
    BY <1>1 DEF BatchIInv, DependenciesHold
  <2> QED BY <1>1, <1>3, <1>6, <2>1, DecisionsStay
<1>10. ReasonsOK'
  <2>1. ASSUME NEW j \in Actions, state'[j] = "skipped"
        PROVE  FailedDependency(j)' \/ abort'
    <3>1. FailedDependency(j) \/ abort
      BY <1>5, <2>1 DEF BatchIInv, ReasonsOK
    <3> QED BY <1>2, <1>9, <3>1
  <2>2. (\E j \in Actions : state'[j] = "failed")
          <=> ((\E j \in Actions : state[j] = "failed") \/ word = "failed")
    BY <1>1, <1>5
  <2>3. abort <=> (plan.stopOnError /\ \E j \in Actions : state[j] = "failed")
    BY DEF BatchIInv, ReasonsOK
  <2>4. abort' <=> (abort \/ (word = "failed" /\ plan.stopOnError))
    BY <1>2, <1>3
  <2>5. abort' <=> (plan'.stopOnError /\ \E j \in Actions : state'[j] = "failed")
    BY <1>1, <2>2, <2>3, <2>4
  <2> QED BY <2>1, <2>5 DEF ReasonsOK
<1>11. (Cardinality(Running) <= plan.max)'
  <2>1. Running' = Running \ {i}
    BY <1>5 DEF Running
  <2>2. Cardinality(Running') <= Cardinality(Running) /\ Cardinality(Running') \in Nat
    <3>1. IsFiniteSet(Running \ {i}) /\ Cardinality(Running \ {i}) <= Cardinality(Running)
      <4> DEFINE R == Running
      <4>1. IsFiniteSet(R) /\ Cardinality(R) \in Nat
        BY RunningIsFinite
      <4> HIDE DEF R
      <4>2. /\ IsFiniteSet(R \ {i})
            /\ Cardinality(R \ {i}) = IF i \in R THEN Cardinality(R) - 1 ELSE Cardinality(R)
        BY <4>1, FS_RemoveElement
      <4>3. Cardinality(R \ {i}) <= Cardinality(R)
        BY <4>1, <4>2
      <4> QED BY <4>2, <4>3 DEF R
    <3> QED BY <2>1, <3>1, FS_CardinalityType
  <2>3. Cardinality(Running) <= plan.max /\ plan.max \in Nat
    BY <1>4, BatchConstants DEF BatchIInv, Plans, Actions
  <2> QED BY <1>1, <2>2, <2>3, RunningIsFinite
<1>12. BatchTypeOK'
  BY <1>1, <1>2, <1>4, <1>5, <1>8 DEF BatchIInv, BatchTypeOK
<1> QED BY <1>1, <1>8, <1>9, <1>10, <1>11, <1>12 DEF BatchIInv, Validated

(* When nothing is queued and nothing runs, all is over: round by round,   *)
(* an action of which every dependency is over would be free.              *)
LEMMA NothingIsForgotten ==
  ASSUME BatchIInv, phase = "starting", ready = <<>>, Running = {}
  PROVE  \A i \in Actions : Over(i)
<1>1. /\ plan \in Plans /\ state \in [Actions -> ActionStates] /\ CountsOK
      /\ Resolved(plan) = Actions
  BY DEF BatchIInv, BatchTypeOK, Validated
<1>2. Free = {}
  BY <1>1 DEF CountsOK, Queued
<1>3. ASSUME NEW i \in Actions, \A d \in Deps(plan, i) : Over(d)
      PROVE  Over(i)
  <2>1. Open(i) = {}
    BY <1>3 DEF Open
  <2>2. remaining[i] = 0
    BY <1>1, <2>1, FS_EmptySet DEF CountsOK
  <2>3. state[i] # "pending" /\ state[i] # "running" /\ state[i] # "unreached"
    BY <1>1, <1>2, <2>2 DEF Free, CountsOK, Running
  <2> QED BY <1>1, <2>3 DEF ActionStates, Over
<1>4. PICK round : /\ Resolved(plan) = round[NumActions]
                   /\ \A k \in 0..NumActions : round[k] =
                        IF k = 0 THEN {} ELSE {i \in Actions : Deps(plan, i) \subseteq round[k - 1]}
  BY RoundsAre
<1> DEFINE Late == {k \in 0..NumActions : \E i \in round[k] : ~Over(i)}
<1>5. Late = {}
  <2>1. SUFFICES ASSUME Late # {} PROVE FALSE
    OBVIOUS
  <2>2. Late \in SUBSET Nat
    BY BatchConstants
  <2>3. PICK k \in Late : \A m \in Late : k <= m
    BY <2>1, <2>2, LeastNatural
  <2>4. PICK i \in round[k] : ~Over(i)
    BY <2>3
  <2>5. k \in 0..NumActions /\ k \in Nat /\ k # 0
    <3>1. k \in 0..NumActions
      BY <2>3
    <3>2. round[0] = {}
      <4>1. 0 \in 0..NumActions
        BY BatchConstants
      <4> QED BY <1>4, <4>1
    <3> QED BY <2>4, <3>1, <3>2, BatchConstants
  <2>6. k - 1 \in 0..NumActions /\ k - 1 \notin Late
    <3>1. k - 1 \in 0..NumActions /\ ~(k <= k - 1)
      BY <2>5, BatchConstants
    <3> HIDE DEF Late
    <3> QED BY <2>3, <3>1
  <2>7. i \in Actions /\ Deps(plan, i) \subseteq round[k - 1]
    BY <1>4, <2>4, <2>5
  <2>8. \A d \in round[k - 1] : Over(d)
    BY <2>6
  <2> QED BY <1>3, <2>4, <2>7, <2>8
<1>6. NumActions \in 0..NumActions
  BY BatchConstants
<1>7. \A i \in round[NumActions] : Over(i)
  BY <1>5, <1>6
<1> QED BY <1>1, <1>4, <1>7

LEMMA ReportBatchStep ==
  ASSUME BatchIInv, ReportBatch
  PROVE  BatchIInv'
<1>1. /\ phase = "starting" /\ ready = <<>> /\ Running = {} /\ phase' = "reported"
      /\ UNCHANGED <<plan, remaining, ready, abort>>
  BY DEF ReportBatch
<1>2. \A i \in Actions : Over(i)
  BY <1>1, NothingIsForgotten
<1>3. state' = state
  <2>1. state \in [Actions -> ActionStates] /\ \A i \in Actions : state[i] # "pending"
    BY <1>2 DEF BatchIInv, BatchTypeOK, Over
  <2>2. state' = [i \in Actions |-> IF state[i] = "pending" THEN "unreached" ELSE state[i]]
    BY DEF ReportBatch
  <2> QED BY <2>1, <2>2
<1> QED BY <1>1, <1>2, <1>3 DEF BatchIInv, BatchTypeOK, Validated, Over,
                                ReasonsOK, FailedDependency, DependenciesHold, Running

LEMMA BatchStep ==
  ASSUME BatchIInv, [BatchNext]_batchVars
  PROVE  BatchIInv'
<1>1. CASE UNCHANGED batchVars
  BY <1>1 DEF batchVars, BatchIInv, BatchTypeOK, Validated, CountsOK, Open, Free, Queued, Over,
              ReasonsOK, FailedDependency, DependenciesHold, Running
<1> QED BY <1>1, SkipActionStep, StartActionStep, WaitStep, CompleteStep, ReportBatchStep
        DEF BatchNext

(* In every state: counts, queue and reasons agree with what is over.      *)
THEOREM BatchInvariance == BatchSpec => []BatchIInv
<1> QED BY BatchStarts, BatchStep, PTL DEF BatchSpec

(* A batch of any size starts an action only when everything it waits for  *)
(* is over and what it depends on has succeeded, never runs more than      *)
(* maxParallel at once, and reports every action                           *)
(* (src/crates/client/src/batch.rs, run_batch_outcomes).                   *)
THEOREM BatchRunsInOrder == BatchSpec => []RunsInOrder
<1>1. BatchIInv => RunsInOrder
  BY DEF BatchIInv, RunsInOrder, Accounted, ReasonsOK
<1> QED BY <1>1, BatchInvariance, PTL

-----------------------------------------------------------------------------
(* Artifacts: what is saved                                                *)

Paths == [at: Nat, kind: Kinds, attempt: Nat]
Saved == [path: Paths, created: Nat, content: Nat]
Savings == [step: {"append"}, artifact: Saved]
Prunings == [step: {"prune"}, chosen: SUBSET Saved, doomed: SUBSET Saved, kept: Seq(Saved)]

ArtifactTypeOK ==
  /\ saves \in Nat /\ millis \in Nat
  /\ manifest \in Seq(Saved) /\ told \subseteq Saved
  /\ work \in {NoWork} \cup Savings \cup Prunings

(* A save has a number of its own; of one millisecond, the lines are in    *)
(* the order of the saves.                                                 *)
Ordered(lines) ==
  \A i, j \in DOMAIN lines : i < j =>
    /\ lines[i].content # lines[j].content
    /\ lines[i].created = lines[j].created => lines[i].content < lines[j].content

ManifestOK ==
  /\ Ordered(manifest) /\ ToSet(manifest) \subseteq told
  /\ \A a \in told : a.content <= saves /\ a.created = a.path.at

(* A file is from the last save under its name.                            *)
FilesOK ==
  /\ \A a \in told : a.path \in DOMAIN files => a.content <= files[a.path]
  /\ \A p \in DOMAIN files : files[p] \in Nat /\ files[p] <= saves

SavingOK ==
  work.step = "append" =>
    /\ work.artifact.content = saves /\ work.artifact.created = work.artifact.path.at
    /\ work.artifact.path \in DOMAIN files /\ files[work.artifact.path] = saves
    /\ \A a \in told : a.content < saves

PruningOK ==
  work.step = "prune" =>
    /\ work.chosen \subseteq let_go
    /\ \A a \in work.doomed, b \in told \ let_go : a.path # b.path
    /\ Ordered(work.kept) /\ ToSet(work.kept) \subseteq ToSet(manifest)
    /\ ToSet(manifest) \ work.chosen \subseteq ToSet(work.kept)

ArtifactIInv == ArtifactTypeOK /\ ManifestOK /\ FilesOK /\ SavingOK /\ PruningOK /\ SavedIsKept

-----------------------------------------------------------------------------
LEMMA WorkSteps ==
  ASSUME ArtifactTypeOK
  PROVE  /\ NoWork.step = "none"
         /\ work.step = "append" => work \in Savings
         /\ work.step = "prune" => work \in Prunings
         /\ work.step = "none" => work = NoWork
BY DEF ArtifactTypeOK, NoWork, Savings, Prunings

LEMMA SetOf == ASSUME NEW q \in Seq(Saved) PROVE ToSet(q) = {q[i] : i \in 1..Len(q)} /\ ToSet(q) \subseteq Saved
BY DEF ToSet

LEMMA InitArtifact == ArtifactInit => ArtifactIInv
<1> SUFFICES ASSUME ArtifactInit PROVE ArtifactIInv
  OBVIOUS
<1> USE DEF ArtifactInit
<1>1. work.step = "none" /\ ToSet(manifest) = {} /\ DOMAIN manifest = {} /\ DOMAIN files = {}
  BY DEF NoWork, ToSet
<1>2. ArtifactTypeOK
  BY DEF ArtifactTypeOK
<1>3. ManifestOK
  BY <1>1 DEF ManifestOK, Ordered
<1>4. FilesOK /\ SavingOK /\ PruningOK /\ SavedIsKept
  BY <1>1 DEF FilesOK, SavingOK, PruningOK, SavedIsKept
<1> QED BY <1>2, <1>3, <1>4 DEF ArtifactIInv

-----------------------------------------------------------------------------
(* A save                                                                  *)

LEMMA FreeIsFree ==
  ASSUME NEW requested \in Paths, FreeAttempts(requested) # {}
  PROVE  FreePath(requested) \in Paths /\ FreePath(requested) \notin DOMAIN files
         /\ FreePath(requested).at = requested.at
<1> DEFINE n == Min(FreeAttempts(requested))
<1>1. FreeAttempts(requested) \in SUBSET Nat
  BY DEF FreeAttempts
<1>2. n \in FreeAttempts(requested)
  <2>1. \E k \in FreeAttempts(requested) : \A m \in FreeAttempts(requested) : k <= m
    BY <1>1, LeastNatural
  <2> QED BY <2>1 DEF Min
<1>3. n \in 0..49 /\ [requested EXCEPT !.attempt = n] \notin DOMAIN files
  BY <1>2 DEF FreeAttempts
<1>4. FreePath(requested) = [requested EXCEPT !.attempt = n]
  BY DEF FreePath
<1> HIDE DEF n
<1> QED BY <1>3, <1>4 DEF Paths

LEMMA SaveFileKeeps ==
  ASSUME ArtifactIInv, NEW kind \in Kinds, NEW overwrite \in BOOLEAN, SaveFile(kind, overwrite)
  PROVE  ArtifactIInv'
<1> DEFINE path == IF overwrite THEN Requested(kind) ELSE FreePath(Requested(kind))
           new == [path |-> path, created |-> millis, content |-> saves + 1]
<1>1. /\ work = NoWork /\ saves' = saves + 1
      /\ files' = [p \in DOMAIN files \cup {path} |-> IF p = path THEN saves + 1 ELSE files[p]]
      /\ work' = [step |-> "append", artifact |-> new]
      /\ let_go' = IF overwrite THEN let_go \cup {a \in told : a.path = path} ELSE let_go
      /\ UNCHANGED <<manifest, millis, faults, told>>
      /\ ~overwrite => FreeAttempts(Requested(kind)) # {}
  BY DEF SaveFile
<1>2. ArtifactTypeOK /\ ManifestOK /\ FilesOK /\ SavedIsKept /\ saves \in Nat /\ millis \in Nat
      /\ told \subseteq Saved
  BY DEF ArtifactIInv, ArtifactTypeOK
<1>3. Requested(kind) \in Paths /\ Requested(kind).at = millis
  BY <1>2 DEF Requested, Paths
<1>4. /\ path \in Paths /\ path.at = millis
      /\ ~overwrite => path \notin DOMAIN files
  BY <1>1, <1>3, FreeIsFree
<1> HIDE DEF path
<1>5. new \in Saved /\ new.path = path /\ new.created = millis /\ new.content = saves + 1
  BY <1>2, <1>4 DEF Saved
<1> HIDE DEF new
<1>6. work' \in Savings /\ work'.step = "append" /\ work'.artifact = new
  BY <1>1, <1>5 DEF Savings
<1>7. ArtifactTypeOK'
  BY <1>1, <1>2, <1>6 DEF ArtifactTypeOK
<1>8. \A a \in told : a.content \in Nat /\ a.content <= saves /\ a.created = a.path.at
  BY <1>2 DEF ManifestOK, Saved
<1>9. ManifestOK'
  <2>1. Ordered(manifest)' /\ ToSet(manifest)' = ToSet(manifest)
    BY <1>1, <1>2 DEF ManifestOK, Ordered
  <2>2. \A a \in told : a.content <= saves + 1
    BY <1>2, <1>8
  <2> QED BY <1>1, <1>2, <1>8, <2>1, <2>2 DEF ManifestOK
<1>10. files'[path] = saves + 1 /\ DOMAIN files' = DOMAIN files \cup {path}
       /\ \A p \in DOMAIN files : p # path => files'[p] = files[p]
  BY <1>1
<1>11. FilesOK'
  <2>1. \A a \in told : a.path \in DOMAIN files' => a.content <= files'[a.path]
    <3> SUFFICES ASSUME NEW a \in told, a.path \in DOMAIN files'
                 PROVE  a.content <= files'[a.path]
      OBVIOUS
    <3>1. CASE a.path = path
      BY <3>1, <1>2, <1>8, <1>10
    <3>2. CASE a.path # path
      BY <3>2, <1>2, <1>10 DEF FilesOK
    <3> QED BY <3>1, <3>2
  <2>2. \A p \in DOMAIN files' : files'[p] \in Nat /\ files'[p] <= saves'
    <3> SUFFICES ASSUME NEW p \in DOMAIN files'
                 PROVE  files'[p] \in Nat /\ files'[p] <= saves + 1
      BY <1>1
    <3>1. CASE p = path
      BY <3>1, <1>2, <1>10
    <3>2. CASE p # path
      BY <3>2, <1>2, <1>10 DEF FilesOK
    <3> QED BY <3>1, <3>2
  <2> QED BY <1>1, <2>1, <2>2 DEF FilesOK
<1>12. SavingOK'
  <2>1. \A a \in told : a.content < saves + 1
    BY <1>2, <1>8
  <2> QED BY <1>1, <1>4, <1>5, <1>6, <1>10, <2>1 DEF SavingOK
<1>13. PruningOK'
  BY <1>6 DEF PruningOK
<1>14. SavedIsKept'
  <2> SUFFICES ASSUME NEW a \in told, a \notin let_go' PROVE Whole(a)'
    BY <1>1 DEF SavedIsKept
  <2>1. a \notin let_go
    BY <1>1
  <2>2. Whole(a)
    BY <1>2, <2>1 DEF SavedIsKept
  <2>3. a.path # path
    <3>1. CASE overwrite
      BY <1>1, <3>1
    <3>2. CASE ~overwrite
      BY <1>4, <2>2, <3>2 DEF Whole
    <3> QED BY <3>1, <3>2
  <2> QED BY <1>1, <1>10, <2>2, <2>3 DEF Whole
<1> QED BY <1>7, <1>9, <1>11, <1>12, <1>13, <1>14 DEF ArtifactIInv

LEMMA AppendedSet ==
  ASSUME NEW q \in Seq(Saved), NEW e \in Saved
  PROVE  /\ Append(q, e) \in Seq(Saved) /\ Len(Append(q, e)) = Len(q) + 1
         /\ DOMAIN Append(q, e) = 1 .. (Len(q) + 1)
         /\ \A i \in 1..Len(q) : Append(q, e)[i] = q[i]
         /\ Append(q, e)[Len(q) + 1] = e
         /\ ToSet(Append(q, e)) = ToSet(q) \cup {e}
<1> DEFINE r == Append(q, e)  n == Len(q)
<1>1. /\ r \in Seq(Saved) /\ Len(r) = n + 1 /\ DOMAIN r = 1 .. (n + 1) /\ n \in Nat
      /\ \A i \in 1..n : r[i] = q[i]
      /\ r[n + 1] = e
  OBVIOUS
<1>2. ToSet(r) = {r[i] : i \in 1 .. (n + 1)} /\ ToSet(q) = {q[i] : i \in 1..n}
  BY <1>1 DEF ToSet
<1> HIDE DEF r, n
<1>3. \A x : x \in {r[i] : i \in 1 .. (n + 1)} => x \in {q[i] : i \in 1..n} \cup {e}
  <2> SUFFICES ASSUME NEW i \in 1 .. (n + 1) PROVE r[i] \in {q[j] : j \in 1..n} \cup {e}
    OBVIOUS
  <2>1. i \in 1..n \/ i = n + 1
    BY <1>1
  <2> QED BY <1>1, <2>1
<1>4. \A x : x \in {q[i] : i \in 1..n} \cup {e} => x \in {r[i] : i \in 1 .. (n + 1)}
  <2>1. n + 1 \in 1 .. (n + 1) /\ \A i \in 1..n : i \in 1 .. (n + 1)
    BY <1>1
  <2> QED BY <1>1, <2>1
<1>5. ToSet(r) = ToSet(q) \cup {e}
  BY <1>2, <1>3, <1>4
<1> QED BY <1>1, <1>5 DEF r, n

LEMMA AppendEntryKeeps ==
  ASSUME ArtifactIInv, AppendEntry
  PROVE  ArtifactIInv'
<1> DEFINE new == work.artifact
<1>1. /\ work.step = "append" /\ work' = NoWork
      /\ UNCHANGED <<files, saves, millis, let_go>>
  BY DEF AppendEntry
<1>2. ArtifactTypeOK /\ ManifestOK /\ FilesOK /\ SavingOK /\ SavedIsKept
      /\ saves \in Nat /\ millis \in Nat /\ told \subseteq Saved /\ manifest \in Seq(Saved)
  BY DEF ArtifactIInv, ArtifactTypeOK
<1>3. work'.step = "none" /\ work' \in {NoWork}
  BY <1>1 DEF NoWork
<1>4. SavingOK' /\ PruningOK'
  BY <1>3 DEF SavingOK, PruningOK
<1>5. /\ new \in Saved /\ new.content = saves /\ new.created = new.path.at
      /\ new.path \in DOMAIN files /\ files[new.path] = saves
      /\ \A a \in told : a.content < saves
  BY <1>1, <1>2, WorkSteps DEF SavingOK, Savings
<1> HIDE DEF new
<1>6. CASE manifest' = Append(manifest, new) /\ told' = told \cup {new}
  <2> DEFINE n == Len(manifest)
  <2>1. /\ manifest' \in Seq(Saved) /\ Len(manifest') = n + 1
        /\ DOMAIN manifest' = 1 .. (n + 1) /\ DOMAIN manifest = 1..n
        /\ \A i \in 1..n : manifest'[i] = manifest[i]
        /\ manifest'[n + 1] = new
        /\ ToSet(manifest') = ToSet(manifest) \cup {new} /\ n \in Nat
    BY <1>2, <1>5, <1>6, AppendedSet
  <2> HIDE DEF n
  <2>2. ArtifactTypeOK'
    BY <1>1, <1>2, <1>3, <1>5, <1>6, <2>1 DEF ArtifactTypeOK
  <2>3. Ordered(manifest')
    <3> SUFFICES ASSUME NEW i \in 1 .. (n + 1), NEW j \in 1 .. (n + 1), i < j
                 PROVE  /\ manifest'[i].content # manifest'[j].content
                        /\ manifest'[i].created = manifest'[j].created =>
                             manifest'[i].content < manifest'[j].content
      BY <2>1 DEF Ordered
    <3>1. CASE j \in 1..n
      <4>1. i \in 1..n
        BY <2>1, <3>1
      <4> QED BY <1>2, <2>1, <3>1, <4>1 DEF ManifestOK, Ordered
    <3>2. CASE j = n + 1
      <4>1. i \in 1..n
        BY <2>1, <3>2
      <4>2. manifest[i] \in ToSet(manifest)
        BY <2>1, <4>1 DEF ToSet
      <4>3. manifest[i].content < saves /\ manifest[i].content \in Nat
        BY <1>2, <1>5, <4>2 DEF ManifestOK, Saved
      <4> QED BY <1>2, <1>5, <2>1, <3>2, <4>1, <4>3
    <3> QED BY <2>1, <3>1, <3>2
  <2>4. ManifestOK'
    BY <1>1, <1>2, <1>5, <1>6, <2>1, <2>3 DEF ManifestOK
  <2>5. FilesOK'
    BY <1>1, <1>2, <1>5, <1>6 DEF FilesOK
  <2>6. SavedIsKept'
    BY <1>1, <1>2, <1>5, <1>6, <2>1 DEF SavedIsKept, Whole
  <2> QED BY <1>4, <2>2, <2>4, <2>5, <2>6 DEF ArtifactIInv
<1>7. CASE UNCHANGED <<manifest, told>>
  <2>1. ArtifactTypeOK'
    BY <1>1, <1>2, <1>3, <1>7 DEF ArtifactTypeOK
  <2>2. ManifestOK' /\ FilesOK' /\ SavedIsKept'
    BY <1>1, <1>2, <1>7 DEF ManifestOK, Ordered, FilesOK, SavedIsKept, Whole
  <2> QED BY <1>4, <2>1, <2>2 DEF ArtifactIInv
<1> QED BY <1>6, <1>7 DEF AppendEntry, new

-----------------------------------------------------------------------------
(* A prune                                                                 *)

LEMMA LesserOf ==
  ASSUME NEW a \in Nat, NEW b \in Nat
  PROVE  Min({a, b}) = IF a <= b THEN a ELSE b
<1> DEFINE m == IF a <= b THEN a ELSE b
<1>1. m \in {a, b} /\ \A y \in {a, b} : m <= y
  OBVIOUS
<1>2. \A x \in {a, b} : (\A y \in {a, b} : x <= y) => x = m
  OBVIOUS
<1> HIDE DEF m
<1>3. Min({a, b}) = m
  BY <1>1, <1>2 DEF Min
<1> QED BY <1>3 DEF m

(* What a prune decides from the lines that it read.                       *)
FirstKept(lines, keep, matching) ==
  IF matching THEN SubSeq(lines, 1, Min({keep, Len(lines)})) ELSE lines

LEMMA LinesRead ==
  ASSUME ArtifactIInv, NEW order \in Bijection(DOMAIN manifest, DOMAIN manifest),
         NewestFirst(order), NEW lines, lines = [i \in DOMAIN order |-> manifest[order[i]]]
  PROVE  /\ lines \in Seq(Saved) /\ Len(lines) = Len(manifest)
         /\ ToSet(lines) = ToSet(manifest) /\ Ordered(lines)
         /\ \A i, j \in DOMAIN lines : i < j => lines[i].created >= lines[j].created
<1> DEFINE n == Len(manifest)
<1>1. manifest \in Seq(Saved) /\ n \in Nat /\ DOMAIN manifest = 1..n
      /\ \A i \in 1..n : manifest[i] \in Saved
  BY DEF ArtifactIInv, ArtifactTypeOK
<1>2. Ordered(manifest)
  BY DEF ArtifactIInv, ManifestOK
<1> HIDE DEF n
<1>3. /\ order \in [1..n -> 1..n]
      /\ \A i, j \in 1..n : order[i] = order[j] => i = j
      /\ \A j \in 1..n : \E i \in 1..n : order[i] = j
  BY <1>1 DEF Bijection, Injection, IsInjective, Surjection
<1>4. /\ lines \in [1..n -> Saved] /\ DOMAIN lines = 1..n
      /\ \A i \in 1..n : lines[i] = manifest[order[i]]
  BY <1>1, <1>3
<1>5. lines \in Seq(Saved) /\ Len(lines) = n
  BY <1>1, <1>4
<1>6. ToSet(lines) = ToSet(manifest)
  <2>1. ToSet(lines) = {lines[i] : i \in 1..n} /\ ToSet(manifest) = {manifest[i] : i \in 1..n}
    BY <1>1, <1>4 DEF ToSet
  <2> QED BY <1>3, <1>4, <2>1
<1>7. ASSUME NEW i \in 1..n, NEW j \in 1..n, i < j
      PROVE  /\ lines[i].content # lines[j].content
             /\ lines[i].created >= lines[j].created
             /\ lines[i].created = lines[j].created => lines[i].content < lines[j].content
  <2>1. /\ order[i] \in 1..n /\ order[j] \in 1..n /\ order[i] # order[j]
        /\ lines[i] = manifest[order[i]] /\ lines[j] = manifest[order[j]]
    BY <1>1, <1>3, <1>4, <1>7
  <2>2. manifest[order[i]].content # manifest[order[j]].content
    <3>1. CASE order[i] < order[j]
      BY <1>1, <1>2, <2>1, <3>1 DEF Ordered
    <3>2. CASE order[j] < order[i]
      BY <1>1, <1>2, <2>1, <3>2 DEF Ordered
    <3> QED BY <1>1, <2>1, <3>1, <3>2
  <2>3. \/ manifest[order[i]].created > manifest[order[j]].created
        \/ manifest[order[i]].created = manifest[order[j]].created /\ order[i] < order[j]
    BY <1>3, <1>7 DEF NewestFirst
  <2>4. manifest[order[i]].created \in Nat /\ manifest[order[j]].created \in Nat
    BY <1>1, <2>1 DEF Saved
  <2>5. manifest[order[i]].created >= manifest[order[j]].created
    BY <2>3, <2>4
  <2>6. manifest[order[i]].created = manifest[order[j]].created =>
          manifest[order[i]].content < manifest[order[j]].content
    BY <1>1, <1>2, <2>1, <2>3, <2>4 DEF Ordered
  <2> QED BY <2>1, <2>2, <2>5, <2>6
<1>8. Ordered(lines) /\ \A i, j \in DOMAIN lines : i < j => lines[i].created >= lines[j].created
  BY <1>4, <1>7 DEF Ordered
<1> QED BY <1>5, <1>6, <1>8 DEF n

LEMMA FirstLines ==
  ASSUME NEW lines \in Seq(Saved), NEW keep \in Nat, NEW matching \in BOOLEAN, Ordered(lines)
  PROVE  LET kept == FirstKept(lines, keep, matching)
             n == Len(lines)
         IN  /\ kept \in Seq(Saved) /\ Ordered(kept) /\ ToSet(kept) \subseteq ToSet(lines)
             /\ \A x \in ToSet(kept) : matching => (\E i \in 1..n : i <= keep /\ lines[i] = x)
             /\ \A j \in 1..n : lines[j] \notin ToSet(kept) => (matching /\ j > keep)
<1> DEFINE kept == FirstKept(lines, keep, matching)
           n == Len(lines)
           k == IF ~matching THEN n ELSE IF keep <= n THEN keep ELSE n
<1>1. n \in Nat /\ DOMAIN lines = 1..n /\ k \in 0..n /\ (matching => k <= keep)
      /\ (\A i \in 1..n : lines[i] \in Saved)
      /\ \A i \in 1..n : i > k => (matching /\ i > keep)
  OBVIOUS
<1>2. kept \in Seq(Saved) /\ Len(kept) = k /\ \A i \in 1..k : kept[i] = lines[i]
  <2>1. CASE matching
    <3>1. kept = SubSeq(lines, 1, k)
      BY <1>1, <2>1, LesserOf DEF FirstKept
    <3> QED BY <1>1, <3>1
  <2>2. CASE ~matching
    BY <1>1, <2>2 DEF FirstKept
  <2> QED BY <2>1, <2>2
<1> HIDE DEF kept, n, k
<1>3. DOMAIN kept = 1..k
  BY <1>1, <1>2
<1>4. ToSet(kept) = {kept[i] : i \in 1..k} /\ ToSet(lines) = {lines[i] : i \in 1..n}
  BY <1>1, <1>3 DEF ToSet
<1>5. Ordered(kept)
  BY <1>1, <1>2, <1>3 DEF Ordered
<1>6. \A x \in ToSet(kept) : \E i \in 1..n : i <= k /\ lines[i] = x
  BY <1>1, <1>2, <1>4
<1>7. ToSet(kept) \subseteq ToSet(lines)
  BY <1>4, <1>6
<1>8. \A x \in ToSet(kept) : matching => \E i \in 1..n : i <= keep /\ lines[i] = x
  BY <1>1, <1>6
<1>9. \A i \in 1..n : lines[i] \notin ToSet(kept) => i > k
  BY <1>1, <1>2, <1>4
<1>10. \A i \in 1..n : lines[i] \notin ToSet(kept) => matching /\ i > keep
  BY <1>1, <1>9
<1> QED BY <1>2, <1>5, <1>7, <1>8, <1>10 DEF kept, n

(* Of a line after the first keep, those are others and no older.          *)
LEMMA LateIsSuperfluous ==
  ASSUME NEW keep \in Nat, NEW lines \in Seq(Saved), Ordered(lines),
         \A i, j \in DOMAIN lines : i < j => lines[i].created >= lines[j].created,
         ToSet(lines) = ToSet(manifest), NEW p \in 1..Len(lines), p > keep
  PROVE  lines[p] \in Superfluous(keep)
<1> DEFINE n == Len(lines)
           B == {b \in ToSet(manifest) \ {lines[p]} : b.created >= lines[p].created}
           f == [j \in 1..keep |-> lines[j]]
<1>1. n \in Nat /\ DOMAIN lines = 1..n /\ ToSet(manifest) = {lines[j] : j \in 1..n}
  <2>1. n \in Nat /\ DOMAIN lines = 1..n
    OBVIOUS
  <2> HIDE DEF n
  <2>2. ToSet(lines) = {lines[j] : j \in DOMAIN lines}
    BY DEF ToSet
  <2> QED BY <2>1, <2>2
<1> HIDE DEF n
<1>2. p \in 1..n
  BY DEF n
<1>3. IsFiniteSet(B)
  <2>1. IsFiniteSet(1..n)
    BY <1>1, FS_Interval
  <2>2. IsFiniteSet(ToSet(manifest))
    <3>1. lines \in Surjection(1..n, ToSet(manifest))
      <4>1. lines \in [1..n -> ToSet(manifest)]
        BY <1>1
      <4> QED BY <1>1, <4>1 DEF Surjection
    <3> QED BY <2>1, <3>1, FS_Surjection, Zenon
  <2> QED BY <2>2, FS_Subset
<1>4. ASSUME NEW j \in 1..keep PROVE j \in 1..n /\ j < p
  BY <1>1, <1>2
<1>5. ASSUME NEW j \in 1..keep PROVE lines[j] \in B
  <2>1. lines[j].content # lines[p].content /\ lines[j].created >= lines[p].created
    BY <1>1, <1>2, <1>4 DEF Ordered
  <2>2. lines[j] # lines[p]
    BY <2>1
  <2> QED BY <1>1, <1>4, <2>1, <2>2
<1>6. ASSUME NEW j \in 1..keep, NEW k \in 1..keep, lines[j] = lines[k] PROVE j = k
  <2>1. j \in 1..n /\ k \in 1..n
    BY <1>4
  <2>2. CASE j < k
    BY <1>1, <1>6, <2>1, <2>2 DEF Ordered
  <2>3. CASE k < j
    BY <1>1, <1>6, <2>1, <2>3 DEF Ordered
  <2> QED BY <2>2, <2>3
<1> HIDE DEF B
<1>7. f \in Injection(1..keep, B)
  <2>1. f \in [1..keep -> B]
    BY <1>5
  <2>2. \A j, k \in 1..keep : f[j] = f[k] => j = k
    BY <1>6
  <2> QED BY <2>1, <2>2 DEF Injection, IsInjective
<1> HIDE DEF f
<1>8. Cardinality(1..keep) <= Cardinality(B)
  BY <1>3, <1>7, FS_Injection, Zenon
<1>9. Cardinality(1..keep) = keep
  <2>1. IF 1 > keep THEN Cardinality(1..keep) = 0 ELSE Cardinality(1..keep) = keep - 1 + 1
    BY FS_Interval
  <2> QED BY <2>1
<1>10. Cardinality(B) \in Nat /\ Cardinality(B) >= keep
  <2>1. Cardinality(B) \in Nat
    BY <1>3, FS_CardinalityType
  <2> QED BY <1>8, <1>9, <2>1
<1>11. lines[p] \in ToSet(manifest)
  BY <1>1, <1>2
<1> QED BY <1>10, <1>11 DEF Superfluous, B

LEMMA PruneReadKeeps ==
  ASSUME ArtifactIInv, NEW keep \in Nat, NEW matching \in BOOLEAN, NEW delete \in BOOLEAN,
         PruneRead(keep, matching, delete)
  PROVE  ArtifactIInv'
<1>1. PICK order \in Bijection(DOMAIN manifest, DOMAIN manifest) :
        /\ NewestFirst(order)
        /\ LET lines == [i \in DOMAIN order |-> manifest[order[i]]]
               kept == IF matching THEN SubSeq(lines, 1, Min({keep, Len(lines)})) ELSE lines
               chosen == ToSet(lines) \ ToSet(kept)
           IN work' = [step |-> "prune", chosen |-> chosen,
                       doomed |-> IF delete THEN chosen ELSE {}, kept |-> kept]
  BY DEF PruneRead
<1> DEFINE lines == [i \in DOMAIN order |-> manifest[order[i]]]
           kept == FirstKept(lines, keep, matching)
           chosen == ToSet(lines) \ ToSet(kept)
           doomed == IF delete THEN chosen ELSE {}
<1>2. /\ work' = [step |-> "prune", chosen |-> chosen, doomed |-> doomed, kept |-> kept]
      /\ let_go' = IF matching THEN let_go \cup Superfluous(keep) ELSE let_go
      /\ UNCHANGED <<files, manifest, saves, millis, faults, told>>
  BY <1>1 DEF PruneRead, FirstKept, counters
<1>3. /\ lines \in Seq(Saved) /\ Len(lines) = Len(manifest)
      /\ ToSet(lines) = ToSet(manifest) /\ Ordered(lines)
      /\ \A i, j \in DOMAIN lines : i < j => lines[i].created >= lines[j].created
  BY <1>1, LinesRead
<1> HIDE DEF lines
<1>4. /\ kept \in Seq(Saved) /\ Ordered(kept) /\ ToSet(kept) \subseteq ToSet(lines)
      /\ \A x \in ToSet(kept) : matching => (\E i \in 1..Len(lines) : i <= keep /\ lines[i] = x)
      /\ \A i \in 1..Len(lines) : lines[i] \notin ToSet(kept) => (matching /\ i > keep)
  BY <1>3, FirstLines
<1> HIDE DEF kept
<1>5. ToSet(lines) = {lines[i] : i \in 1..Len(lines)} /\ ToSet(lines) \subseteq Saved
      /\ DOMAIN lines = 1..Len(lines) /\ Len(lines) \in Nat
  BY <1>3, SetOf
<1>6. chosen \in SUBSET Saved /\ doomed \in SUBSET Saved /\ doomed \subseteq chosen
  BY <1>5
<1>7. \A x \in chosen : \E i \in 1..Len(lines) : lines[i] = x /\ matching /\ i > keep
  BY <1>4, <1>5
<1>8. chosen \subseteq let_go'
  <2> SUFFICES ASSUME NEW x \in chosen PROVE x \in let_go'
    OBVIOUS
  <2>1. PICK i \in 1..Len(lines) : lines[i] = x /\ matching /\ i > keep
    BY <1>7
  <2>2. lines[i] \in Superfluous(keep)
    BY <1>3, <2>1, LateIsSuperfluous
  <2> QED BY <1>2, <2>1, <2>2
<1>9. let_go \subseteq let_go'
  BY <1>2
<1>10. work' \in Prunings /\ work'.step = "prune" /\ work'.chosen = chosen
       /\ work'.doomed = doomed /\ work'.kept = kept
  BY <1>2, <1>4, <1>6 DEF Prunings
<1>11. ArtifactTypeOK /\ ManifestOK /\ FilesOK /\ SavedIsKept
  BY DEF ArtifactIInv
<1>12. \A a \in doomed, b \in told \ let_go' : a.path # b.path
  <2> SUFFICES ASSUME NEW a \in chosen, NEW b \in told, b \notin let_go', a.path = b.path
               PROVE  FALSE
    BY <1>6
  <2>1. b \in ToSet(manifest) /\ b.path \in DOMAIN files /\ files[b.path] = b.content
    BY <1>9, <1>11 DEF SavedIsKept, Whole
  <2>2. PICK p \in 1..Len(lines) : lines[p] = a /\ matching /\ p > keep
    BY <1>7
  <2>3. PICK q \in 1..Len(lines) : lines[q] = b
    BY <1>3, <1>5, <2>1
  <2>4. a \in told /\ a.created = b.created /\ a.content <= b.content
    <3>1. a \in told
      BY <1>3, <1>5, <1>11, <2>2 DEF ManifestOK
    <3> QED BY <1>11, <2>1, <3>1 DEF ManifestOK, FilesOK
  <2>5. a.content \in Nat /\ b.content \in Nat /\ p \in Nat /\ q \in Nat
    BY <1>5, <2>2, <2>3 DEF Saved
  <2>6. p # q
    BY <1>8, <2>2, <2>3
  <2>7. ~(q < p)
    BY <1>3, <1>5, <2>2, <2>3, <2>4, <2>5 DEF Ordered
  <2>8. q > keep
    BY <2>2, <2>5, <2>6, <2>7
  <2>9. b \notin ToSet(kept)
    <3> SUFFICES ASSUME b \in ToSet(kept) PROVE FALSE
      OBVIOUS
    <3>1. PICK r \in 1..Len(lines) : r <= keep /\ lines[r] = b
      BY <1>4, <2>2
    <3>2. r < q
      BY <1>5, <2>8, <3>1
    <3> QED BY <1>3, <1>5, <2>3, <3>1, <3>2 DEF Ordered
  <2>10. b \in chosen
    BY <1>3, <2>1, <2>9
  <2> QED BY <1>8, <2>10
<1>13. PruningOK'
  <2>1. ToSet(work'.kept) \subseteq ToSet(manifest')
    BY <1>2, <1>3, <1>4, <1>10
  <2>2. ToSet(manifest') \ work'.chosen \subseteq ToSet(work'.kept)
    BY <1>2, <1>3, <1>10
  <2>3. Ordered(work'.kept)
    BY <1>4, <1>10
  <2> QED BY <1>2, <1>8, <1>10, <1>12, <2>1, <2>2, <2>3 DEF PruningOK, Ordered
<1> HIDE DEF chosen, doomed
<1>14. SavingOK'
  BY <1>10 DEF SavingOK
<1>15. ArtifactTypeOK'
  BY <1>2, <1>10, <1>11 DEF ArtifactTypeOK
<1>16. ManifestOK' /\ FilesOK'
  BY <1>2, <1>11 DEF ManifestOK, Ordered, FilesOK
<1>17. SavedIsKept'
  BY <1>2, <1>9, <1>11 DEF SavedIsKept, Whole
<1> QED BY <1>13, <1>14, <1>15, <1>16, <1>17 DEF ArtifactIInv

LEMMA PruneDeleteKeeps ==
  ASSUME ArtifactIInv, PruneDelete
  PROVE  ArtifactIInv'
<1>1. PICK a \in work.doomed :
        /\ work' = [work EXCEPT !.doomed = @ \ {a}]
        /\ \/ files' = [p \in DOMAIN files \ {a.path} |-> files[p]]
           \/ UNCHANGED files
  BY DEF PruneDelete
<1>2. work.step = "prune" /\ UNCHANGED <<manifest, saves, millis, faults, told, let_go>>
  BY DEF PruneDelete, counters
<1>3. ArtifactTypeOK /\ ManifestOK /\ FilesOK /\ PruningOK /\ SavedIsKept
  BY DEF ArtifactIInv
<1>4. work \in Prunings
  BY <1>2, <1>3, WorkSteps
<1>5. /\ work' \in Prunings /\ work'.step = "prune" /\ work'.chosen = work.chosen
      /\ work'.kept = work.kept /\ work'.doomed = work.doomed \ {a}
  BY <1>1, <1>2, <1>4 DEF Prunings
<1>6. ArtifactTypeOK' /\ SavingOK'
  BY <1>2, <1>3, <1>5 DEF ArtifactTypeOK, SavingOK
<1>7. PruningOK'
  BY <1>2, <1>3, <1>5 DEF PruningOK, Ordered
<1>8. ManifestOK'
  BY <1>2, <1>3 DEF ManifestOK, Ordered
<1>9. /\ DOMAIN files' \subseteq DOMAIN files
      /\ \A p \in DOMAIN files' : files'[p] = files[p]
      /\ \A p \in DOMAIN files : p # a.path => p \in DOMAIN files'
  BY <1>1
<1>10. FilesOK'
  BY <1>2, <1>3, <1>9 DEF FilesOK
<1>11. SavedIsKept'
  <2> SUFFICES ASSUME NEW b \in told, b \notin let_go PROVE Whole(b)'
    BY <1>2 DEF SavedIsKept
  <2>1. Whole(b) /\ a.path # b.path
    BY <1>2, <1>3 DEF SavedIsKept, PruningOK
  <2> QED BY <1>2, <1>9, <2>1 DEF Whole
<1> QED BY <1>6, <1>7, <1>8, <1>10, <1>11 DEF ArtifactIInv

LEMMA LastOnes ==
  ASSUME NEW S, NEW q \in Seq(S), NEW m \in 1 .. (Len(q) + 1)
  PROVE  /\ SubSeq(q, m, Len(q)) \in Seq(S)
         /\ Len(SubSeq(q, m, Len(q))) = Len(q) - m + 1
         /\ \A j \in 1 .. (Len(q) - m + 1) : SubSeq(q, m, Len(q))[j] = q[m + j - 1]
<1>1. \A j \in 1 .. (Len(q) - m + 1) : SubSeq(q, m, Len(q))[j] = q[m + j - 1]
  OBVIOUS
<1>2. SubSeq(q, m, Len(q)) \in Seq(S)
  OBVIOUS
<1>3. Len(SubSeq(q, m, Len(q))) = Len(q) - m + 1
  OBVIOUS
<1> QED BY <1>1, <1>2, <1>3

(* What the rewrite leaves, all of it or a part.                           *)
LEMMA RewriteKeeps ==
  ASSUME ArtifactIInv, work.step = "prune", work' = NoWork,
         UNCHANGED <<files, saves, millis, told>>, NEW n \in 0..Len(work.kept),
         manifest' = SubSeq(work.kept, 1, n),
         \/ n = Len(work.kept) /\ let_go' = let_go
         \/ let_go' = let_go \cup ToSet(SubSeq(work.kept, n + 1, Len(work.kept)))
  PROVE  ArtifactIInv'
<1> DEFINE kept == work.kept  rest == SubSeq(kept, n + 1, Len(kept))
<1>1. ArtifactTypeOK /\ ManifestOK /\ FilesOK /\ PruningOK /\ SavedIsKept
  BY DEF ArtifactIInv
<1>2. kept \in Seq(Saved) /\ Len(kept) \in Nat /\ DOMAIN kept = 1..Len(kept)
  BY <1>1, WorkSteps DEF Prunings
<1>3. Ordered(kept) /\ ToSet(kept) \subseteq ToSet(manifest)
      /\ ToSet(manifest) \ let_go \subseteq ToSet(kept)
  BY <1>1 DEF PruningOK
<1> HIDE DEF kept
<1>4. manifest' \in Seq(Saved) /\ Len(manifest') = n /\ DOMAIN manifest' = 1..n
      /\ \A i \in 1..n : manifest'[i] = kept[i]
  BY <1>2 DEF kept
<1>5. /\ ToSet(manifest') = {kept[i] : i \in 1..n}
      /\ ToSet(kept) = {kept[i] : i \in 1..Len(kept)}
  BY <1>2, <1>4 DEF ToSet
<1>6. n \in Nat /\ n <= Len(kept) /\ (\A i \in 1..n : i \in 1..Len(kept))
  BY <1>2 DEF kept
<1>7. Ordered(manifest')
  BY <1>2, <1>3, <1>4, <1>6 DEF Ordered
<1>8. ToSet(manifest') \subseteq ToSet(kept)
  BY <1>5, <1>6
<1>9. ToSet(kept) \ ToSet(manifest') \subseteq let_go'
  <2> SUFFICES ASSUME NEW i \in 1..Len(kept), kept[i] \notin ToSet(manifest')
               PROVE  kept[i] \in let_go'
    BY <1>5
  <2>1. i > n /\ i \in Nat
    BY <1>2, <1>5, <1>6
  <2>2. let_go' = let_go \cup ToSet(rest)
    BY <1>2, <2>1 DEF kept
  <2>3. rest \in Seq(Saved) /\ Len(rest) = Len(kept) - n /\ DOMAIN rest = 1 .. (Len(kept) - n)
        /\ \A j \in 1 .. (Len(kept) - n) : rest[j] = kept[n + j]
    <3>1. n + 1 \in 1 .. (Len(kept) + 1)
      BY <1>2, <1>6
    <3>2. rest \in Seq(Saved) /\ Len(rest) = Len(kept) - (n + 1) + 1
      BY <1>2, <3>1, LastOnes
    <3>3. \A j \in 1 .. (Len(kept) - (n + 1) + 1) : rest[j] = kept[(n + 1) + j - 1]
      BY <1>2, <3>1, LastOnes
    <3> HIDE DEF rest
    <3>7. Len(kept) - (n + 1) + 1 = Len(kept) - n
      BY <1>2, <1>6
    <3>4. \A j \in 1 .. (Len(kept) - n) : (n + 1) + j - 1 = n + j
      BY <1>2, <1>6
    <3>5. \A j \in 1 .. (Len(kept) - n) : rest[j] = kept[n + j]
      BY <3>3, <3>4, <3>7
    <3>6. DOMAIN rest = 1 .. (Len(kept) - n)
      BY <3>2, <3>7
    <3> QED BY <3>2, <3>5, <3>6, <3>7
  <2>4. i - n \in 1 .. (Len(kept) - n) /\ n + (i - n) = i
    BY <1>2, <1>6, <2>1
  <2> HIDE DEF rest
  <2>5. rest[i - n] = kept[i] /\ rest[i - n] \in ToSet(rest)
    BY <2>3, <2>4 DEF ToSet
  <2> QED BY <2>2, <2>5
<1>10. let_go \subseteq let_go'
  OBVIOUS
<1>11. work'.step = "none" /\ work' \in {NoWork}
  BY DEF NoWork
<1>12. ArtifactTypeOK'
  BY <1>1, <1>4, <1>11 DEF ArtifactTypeOK
<1>13. ManifestOK'
  BY <1>1, <1>3, <1>7, <1>8 DEF ManifestOK
<1>14. FilesOK' /\ SavingOK' /\ PruningOK'
  BY <1>1, <1>11 DEF FilesOK, SavingOK, PruningOK
<1>15. SavedIsKept'
  <2> SUFFICES ASSUME NEW a \in told, a \notin let_go' PROVE Whole(a)'
    BY DEF SavedIsKept
  <2>1. Whole(a) /\ a \notin let_go
    BY <1>1, <1>10 DEF SavedIsKept
  <2>2. a \in ToSet(manifest')
    BY <1>3, <1>9, <2>1 DEF Whole
  <2> QED BY <2>1, <2>2 DEF Whole
<1> QED BY <1>12, <1>13, <1>14, <1>15 DEF ArtifactIInv

(* The work ends, and nothing that is stored changes.                      *)
LEMMA NoMoreWork ==
  ASSUME ArtifactIInv, work' \in {work, NoWork}, millis' \in Nat,
         UNCHANGED <<files, manifest, saves, told, let_go>>
  PROVE  ArtifactIInv'
<1>1. ArtifactTypeOK /\ ManifestOK /\ FilesOK /\ SavingOK /\ PruningOK /\ SavedIsKept
  BY DEF ArtifactIInv
<1>2. ArtifactTypeOK'
  BY <1>1 DEF ArtifactTypeOK
<1>3. ManifestOK' /\ FilesOK' /\ SavedIsKept'
  BY <1>1 DEF ManifestOK, Ordered, FilesOK, SavedIsKept, Whole
<1>4. SavingOK' /\ PruningOK'
  <2>1. CASE work' = work
    BY <1>1, <2>1 DEF SavingOK, PruningOK, Ordered
  <2>2. CASE work' = NoWork
    BY <2>2 DEF NoWork, SavingOK, PruningOK
  <2> QED BY <2>1, <2>2
<1> QED BY <1>1, <1>2, <1>3, <1>4 DEF ArtifactIInv

LEMMA PruneWriteKeeps ==
  ASSUME ArtifactIInv, PruneWrite
  PROVE  ArtifactIInv'
<1>1. work.step = "prune" /\ work' = NoWork /\ UNCHANGED <<files, saves, millis, told>>
  BY DEF PruneWrite
<1>2. millis \in Nat /\ work.kept \in Seq(Saved)
  BY <1>1, WorkSteps DEF ArtifactIInv, ArtifactTypeOK, Prunings
<1>3. CASE manifest' = work.kept /\ UNCHANGED let_go
  <2>1. Len(work.kept) \in 0..Len(work.kept) /\ manifest' = SubSeq(work.kept, 1, Len(work.kept))
    BY <1>2, <1>3
  <2> QED BY <1>1, <1>3, <2>1, RewriteKeeps
<1>4. CASE \E n \in 0..Len(work.kept) :
             /\ manifest' = SubSeq(work.kept, 1, n)
             /\ let_go' = let_go \cup ToSet(SubSeq(work.kept, n + 1, Len(work.kept)))
  BY <1>1, <1>4, RewriteKeeps
<1>5. CASE UNCHANGED <<manifest, let_go>>
  BY <1>1, <1>2, <1>5, NoMoreWork
<1> QED BY <1>3, <1>4, <1>5 DEF PruneWrite

-----------------------------------------------------------------------------
LEMMA ArtifactStep == ArtifactIInv /\ [ArtifactNext]_artifactVars => ArtifactIInv'
<1> SUFFICES ASSUME ArtifactIInv, [ArtifactNext]_artifactVars PROVE ArtifactIInv'
  OBVIOUS
<1>1. CASE \E kind \in Kinds, overwrite \in BOOLEAN : SaveFile(kind, overwrite)
  BY <1>1, SaveFileKeeps
<1>2. CASE AppendEntry
  BY <1>2, AppendEntryKeeps
<1>3. CASE \E keep \in Keeps, matching, delete \in BOOLEAN : PruneRead(keep, matching, delete)
  <2>1. PICK keep \in Keeps, matching \in BOOLEAN, delete \in BOOLEAN :
          PruneRead(keep, matching, delete)
    BY <1>3
  <2>2. keep \in Nat
    BY ArtifactConstants
  <2> QED BY <2>1, <2>2, PruneReadKeeps
<1>4. CASE PruneDelete
  BY <1>4, PruneDeleteKeeps
<1>5. CASE PruneWrite
  BY <1>5, PruneWriteKeeps
<1>6. CASE Killed
  BY <1>6, NoMoreWork DEF Killed, ArtifactIInv, ArtifactTypeOK
<1>7. CASE NextMilli
  BY <1>7, NoMoreWork DEF NextMilli, ArtifactIInv, ArtifactTypeOK
<1>8. CASE UNCHANGED artifactVars
  BY <1>8, NoMoreWork DEF artifactVars, ArtifactIInv, ArtifactTypeOK
<1> QED BY <1>1, <1>2, <1>3, <1>4, <1>5, <1>6, <1>7, <1>8 DEF ArtifactNext

(* The inductive invariant of the artifacts.                               *)
THEOREM ArtifactInvariance == ArtifactSpec => []ArtifactIInv
<1> QED BY InitArtifact, ArtifactStep, PTL DEF ArtifactSpec

(* What a caller was told is saved stays listed and keeps its content,     *)
(* for any number of saves, prunes, failures and kills (handlers.rs,       *)
(* write_unique_artifact, append_artifact_manifest and artifact_prune).    *)
THEOREM SavedStays == ArtifactSpec => []SavedIsKept
<1>1. ArtifactIInv => SavedIsKept
  BY DEF ArtifactIInv
<1> QED BY <1>1, ArtifactInvariance, PTL

-----------------------------------------------------------------------------
(* Logs: where the entries are                                             *)

Lines == [seq: Nat, entry: Nat]
Pages == [load: Nat, bridged: BOOLEAN, early: Seq(Lines), dropped: BOOLEAN,
          buffer: Seq(Lines), seq: Nat, pushed: Nat]
Batches == [log: LogNames, entries: Seq(Nat)]
Readers == [at: {"none", "asked", "reply", "read"}, before: SUBSET Nat, batch: Seq(Nat),
            flushed: BOOLEAN]

LogTypeOK ==
  /\ frontend \in Pages /\ pushes \subseteq Batches /\ reader \in Readers
  /\ log \in [LogNames -> Seq(Nat)] /\ logged \in Nat
  /\ handed \subseteq 1..logged

OwnLines(q, n) ==
  /\ \A i \in DOMAIN q : q[i].entry \in 1..n
  /\ \A i, j \in DOMAIN q : q[i].entry = q[j].entry => i = j

(* The numbers of the lines are consecutive, up to the last one drawn.     *)
Numbered(q, top) ==
  /\ Len(q) <= top
  /\ \A i \in DOMAIN q : q[i].seq = (top - Len(q)) + i

(* Early lines were never handed over; when one was dropped, there are so  *)
(* many that the bridge has no room for the line that tells of it.         *)
EarlyOK ==
  /\ OwnLines(frontend.early, logged)
  /\ \A i \in DOMAIN frontend.early : frontend.early[i].entry \notin handed
  /\ IF frontend.bridged THEN frontend.early = <<>>
     ELSE /\ frontend.buffer = <<>> /\ frontend.seq = 0 /\ frontend.pushed = 0
          /\ frontend.dropped => Len(frontend.early) >= MaxBuffer

(* The lines up to the last that was pushed were handed over.              *)
BufferOK ==
  /\ OwnLines(frontend.buffer, logged) /\ Numbered(frontend.buffer, frontend.seq)
  /\ frontend.pushed <= frontend.seq
  /\ \A i \in DOMAIN frontend.buffer :
       (frontend.buffer[i].seq <= frontend.pushed) <=> (frontend.buffer[i].entry \in handed)

Once(q) == \A i, j \in DOMAIN q : q[i] = q[j] => i = j

(* An entry is in one place, or lost.                                      *)
PlacesOK ==
  /\ \A name \in LogNames : Once(log[name])
  /\ \A p \in pushes : Once(p.entries) /\ ToSet(p.entries) \cap ToSet(reader.batch) = {}
  /\ \A p, q \in pushes : p # q => ToSet(p.entries) \cap ToSet(q.entries) = {}
  /\ Once(reader.batch)
  /\ Stored \cap (Travelling \cup OwnBuffers) = {} /\ Travelling \cap OwnBuffers = {}
  /\ Stored \cup Travelling \subseteq 1..logged
  /\ 1..logged \subseteq Stored \cup Travelling \cup OwnBuffers \cup lost

ReaderOK ==
  /\ reader.before \subseteq 1..logged
  /\ (reader.at # "reply") => reader.batch = <<>>
  /\ (reader.at = "asked") => ~reader.flushed
  /\ (reader.flushed /\ reader.at \in {"reply", "read"}) =>
       reader.before \subseteq Stored \cup Travelling \cup lost

LogIInv == LogTypeOK /\ EarlyOK /\ BufferOK /\ PlacesOK /\ ReaderOK /\ due \subseteq handed

-----------------------------------------------------------------------------
(* Sequences                                                               *)

LEMMA GreaterOf ==
  ASSUME NEW a \in Nat, NEW b \in Nat
  PROVE  Max({a, b}) = IF a <= b THEN b ELSE a
<1> DEFINE m == IF a <= b THEN b ELSE a
<1>1. m \in {a, b} /\ \A y \in {a, b} : m >= y
  OBVIOUS
<1>2. \A x \in {a, b} : (\A y \in {a, b} : x >= y) => x = m
  OBVIOUS
<1> HIDE DEF m
<1>3. Max({a, b}) = m
  BY <1>1, <1>2 DEF Max
<1> QED BY <1>3 DEF m

(* The lines from the one after the k-th on.                               *)
LEMMA AfterThe ==
  ASSUME NEW S, NEW q \in Seq(S), NEW k \in 0..Len(q)
  PROVE  /\ SubSeq(q, k + 1, Len(q)) \in Seq(S)
         /\ Len(SubSeq(q, k + 1, Len(q))) = Len(q) - k
         /\ \A j \in 1 .. (Len(q) - k) : SubSeq(q, k + 1, Len(q))[j] = q[k + j]
<1> DEFINE n == Len(q)  r == SubSeq(q, k + 1, n)
<1>1. n \in Nat /\ k \in Nat /\ k + 1 \in 1 .. (n + 1) /\ n - (k + 1) + 1 = n - k
      /\ \A j \in 1 .. (n - k) : (k + 1) + j - 1 = k + j
  OBVIOUS
<1>2. /\ r \in Seq(S) /\ Len(r) = n - (k + 1) + 1
      /\ \A j \in 1 .. (n - (k + 1) + 1) : r[j] = q[(k + 1) + j - 1]
  BY <1>1, LastOnes
<1> HIDE DEF n, r
<1>3. \A j \in 1 .. (n - k) : r[j] = q[k + j]
  BY <1>1, <1>2
<1> QED BY <1>1, <1>2, <1>3 DEF n, r

LEMMA CappedIs ==
  ASSUME NEW q \in Seq(Lines)
  PROVE  \E m \in 0..Len(q) :
           /\ m = IF Len(q) <= MaxBuffer THEN Len(q) ELSE MaxBuffer
           /\ Capped(q) \in Seq(Lines) /\ Len(Capped(q)) = m
           /\ \A i \in 1..m : Capped(q)[i] = q[(Len(q) - m) + i]
<1> DEFINE n == Len(q)  m == IF n <= MaxBuffer THEN n ELSE MaxBuffer
<1>1. n \in Nat /\ MaxBuffer \in Nat
  BY LogConstants
<1>2. Min({n, MaxBuffer}) = m
  BY <1>1, LesserOf
<1>3. m \in 0..n /\ n - m \in 0..n /\ n - (n - m) = m
  BY <1>1
<1>4. Capped(q) = SubSeq(q, (n - m) + 1, n)
  BY <1>2 DEF Capped
<1> HIDE DEF m
<1>5. /\ Capped(q) \in Seq(Lines) /\ Len(Capped(q)) = n - (n - m)
      /\ \A j \in 1 .. (n - (n - m)) : Capped(q)[j] = q[(n - m) + j]
  BY <1>3, <1>4, AfterThe
<1>6. \A j \in 1..m : Capped(q)[j] = q[(n - m) + j]
  BY <1>3, <1>5
<1>7. Len(Capped(q)) = m
  BY <1>3, <1>5
<1>8. m = IF n <= MaxBuffer THEN n ELSE MaxBuffer
  BY DEF m
<1> QED BY <1>3, <1>5, <1>6, <1>7, <1>8

LEMMA EntriesIs ==
  ASSUME NEW q \in Seq(Lines)
  PROVE  EntriesOf(q) = {q[i].entry : i \in 1..Len(q)} \ {Dropped}
<1>1. Range(q) = {q[i] : i \in 1..Len(q)}
  BY DEF Range
<1>2. {l.entry : l \in {q[i] : i \in 1..Len(q)}} = {q[i].entry : i \in 1..Len(q)}
  OBVIOUS
<1> QED BY <1>1, <1>2 DEF EntriesOf

LEMMA OwnEntries ==
  ASSUME NEW q \in Seq(Lines), NEW n \in Nat, OwnLines(q, n)
  PROVE  EntriesOf(q) = {q[i].entry : i \in 1..Len(q)} /\ EntriesOf(q) \subseteq 1..n
<1>1. DOMAIN q = 1..Len(q) /\ 0 \notin 1..n
  OBVIOUS
<1>2. \A i \in 1..Len(q) : q[i].entry \in 1..n
  BY <1>1 DEF OwnLines
<1> QED BY <1>1, <1>2, EntriesIs DEF Dropped

LEMMA CappedKeeps ==
  ASSUME NEW q \in Seq(Lines), NEW n \in Nat, NEW top \in Nat, OwnLines(q, n), Numbered(q, top)
  PROVE  /\ Capped(q) \in Seq(Lines) /\ OwnLines(Capped(q), n) /\ Numbered(Capped(q), top)
         /\ EntriesOf(Capped(q)) \subseteq EntriesOf(q)
         /\ \A i \in DOMAIN Capped(q) : \E j \in DOMAIN q : Capped(q)[i] = q[j]
<1> DEFINE c == Capped(q)  k == Len(q)
<1>1. PICK m \in 0..k : c \in Seq(Lines) /\ Len(c) = m /\ \A i \in 1..m : c[i] = q[(k - m) + i]
  BY CappedIs
<1>2. k \in Nat /\ m \in Nat /\ m <= k /\ DOMAIN q = 1..k /\ DOMAIN c = 1..m
  BY <1>1
<1> HIDE DEF c, k
<1>3. \A i \in 1..m : (k - m) + i \in 1..k
  BY <1>2
<1>4. OwnLines(c, n)
  <2>1. \A i \in 1..m : c[i].entry \in 1..n
    BY <1>1, <1>2, <1>3 DEF OwnLines
  <2>2. ASSUME NEW i \in 1..m, NEW j \in 1..m, c[i].entry = c[j].entry PROVE i = j
    <3>1. (k - m) + i \in 1..k /\ (k - m) + j \in 1..k
      BY <1>3
    <3>2. q[(k - m) + i].entry = q[(k - m) + j].entry
      BY <1>1, <2>2
    <3>3. (k - m) + i = (k - m) + j
      BY <1>2, <3>1, <3>2 DEF OwnLines
    <3> QED BY <1>2, <3>3
  <2> QED BY <1>2, <2>1, <2>2 DEF OwnLines
<1>5. Numbered(c, top)
  <2>1. m <= top
    BY <1>2 DEF Numbered, k
  <2>2. ASSUME NEW i \in 1..m PROVE c[i].seq = (top - m) + i
    <3>1. q[(k - m) + i].seq = (top - k) + ((k - m) + i)
      BY <1>2, <1>3 DEF Numbered, k
    <3> QED BY <1>1, <1>2, <3>1
  <2> QED BY <1>1, <1>2, <2>1, <2>2 DEF Numbered
<1>6. EntriesOf(c) = {c[i].entry : i \in 1..m} /\ EntriesOf(q) = {q[i].entry : i \in 1..k}
  BY <1>1, <1>4, OwnEntries DEF k
<1>7. EntriesOf(c) \subseteq EntriesOf(q)
  BY <1>1, <1>3, <1>6
<1>8. \A i \in DOMAIN c : \E j \in DOMAIN q : c[i] = q[j]
  BY <1>1, <1>2, <1>3
<1> QED BY <1>1, <1>4, <1>5, <1>7, <1>8 DEF c

LEMMA JoinedIs ==
  ASSUME NEW a \in Seq(Nat), NEW b \in Seq(Nat), Once(a), Once(b), ToSet(a) \cap ToSet(b) = {}
  PROVE  a \o b \in Seq(Nat) /\ Once(a \o b) /\ ToSet(a \o b) = ToSet(a) \cup ToSet(b)
<1> DEFINE c == a \o b  n == Len(a)  k == Len(b)
<1>1. /\ c \in Seq(Nat) /\ n \in Nat /\ k \in Nat /\ Len(c) = n + k /\ DOMAIN c = 1 .. (n + k)
      /\ DOMAIN a = 1..n /\ DOMAIN b = 1..k
  OBVIOUS
<1>2. (\A i \in 1..n : c[i] = a[i]) /\ (\A i \in 1 .. (n + k) : i > n => c[i] = b[i - n])
  OBVIOUS
<1>3. /\ ToSet(a) = {a[i] : i \in 1..n} /\ ToSet(b) = {b[i] : i \in 1..k}
      /\ ToSet(c) = {c[i] : i \in 1 .. (n + k)}
  BY <1>1 DEF ToSet
<1> HIDE DEF c, n, k
<1>4. \A i \in 1 .. (n + k) : (i \in 1..n /\ c[i] \in ToSet(a)) \/ (i > n /\ i - n \in 1..k /\ c[i] \in ToSet(b))
  <2> SUFFICES ASSUME NEW i \in 1 .. (n + k)
               PROVE  (i \in 1..n /\ c[i] \in ToSet(a)) \/ (i > n /\ i - n \in 1..k /\ c[i] \in ToSet(b))
    OBVIOUS
  <2>1. CASE i <= n
    BY <1>1, <1>2, <1>3, <2>1
  <2>2. CASE i > n
    <3>1. i - n \in 1..k
      BY <1>1, <2>2
    <3> QED BY <1>2, <1>3, <2>2, <3>1
  <2> QED BY <1>1, <2>1, <2>2
<1>5. ASSUME NEW i \in 1 .. (n + k), NEW j \in 1 .. (n + k), c[i] = c[j] PROVE i = j
  <2>1. CASE i \in 1..n /\ j \in 1..n
    BY <1>1, <1>2, <1>5, <2>1 DEF Once
  <2>2. CASE i > n /\ j > n
    <3>1. i - n \in 1..k /\ j - n \in 1..k /\ b[i - n] = b[j - n]
      BY <1>1, <1>2, <1>5, <2>2
    <3>2. i - n = j - n
      BY <1>1, <3>1 DEF Once
    <3> QED BY <1>1, <3>2
  <2>3. CASE i \in 1..n /\ j > n
    BY <1>1, <1>4, <1>5, <2>3
  <2>4. CASE i > n /\ j \in 1..n
    BY <1>1, <1>4, <1>5, <2>4
  <2> QED BY <1>4, <2>1, <2>2, <2>3, <2>4
<1>6. Once(c)
  BY <1>1, <1>5 DEF Once
<1>7. ToSet(c) \subseteq ToSet(a) \cup ToSet(b)
  BY <1>3, <1>4
<1>8. ToSet(a) \subseteq ToSet(c)
  <2>1. \A i \in 1..n : i \in 1 .. (n + k) /\ c[i] = a[i]
    BY <1>1, <1>2
  <2> QED BY <1>3, <2>1
<1>9. ToSet(b) \subseteq ToSet(c)
  <2>1. \A i \in 1..k : (n + i) \in 1 .. (n + k) /\ n + i > n /\ (n + i) - n = i
    BY <1>1
  <2>2. \A i \in 1..k : c[n + i] = b[i]
    BY <1>2, <2>1
  <2> QED BY <1>3, <2>1, <2>2
<1> QED BY <1>1, <1>6, <1>7, <1>8, <1>9 DEF c

LEMMA NothingIn == ToSet(<<>>) = {} /\ Once(<<>>) /\ <<>> \in Seq(Nat) /\ EntriesOf(<<>>) = {}
BY DEF ToSet, Once, EntriesOf, Range

-----------------------------------------------------------------------------
(* The document                                                            *)

LEMMA PageTypes ==
  ASSUME LogTypeOK
  PROVE  /\ frontend.early \in Seq(Lines) /\ frontend.buffer \in Seq(Lines)
         /\ frontend.seq \in Nat /\ frontend.pushed \in Nat /\ frontend.load \in Nat
         /\ frontend.bridged \in BOOLEAN /\ frontend.dropped \in BOOLEAN
         /\ logged \in Nat /\ handed \subseteq 1..logged
BY DEF LogTypeOK, Pages

(* What is pending are the last lines of the buffer, those not handed over.*)
LEMMA PendingIs ==
  ASSUME LogTypeOK, BufferOK
  PROVE  \E k \in 0..Len(frontend.buffer) :
           /\ Pending(frontend) \in Seq(Lines) /\ Len(Pending(frontend)) = Len(frontend.buffer) - k
           /\ \A i \in 1 .. (Len(frontend.buffer) - k) :
                Pending(frontend)[i] = frontend.buffer[k + i]
           /\ \A i \in 1..Len(frontend.buffer) : (i <= k) <=> (frontend.buffer[i].entry \in handed)
<1> DEFINE q == frontend.buffer  n == Len(q)
           c == frontend.pushed - (frontend.seq - n)
           k == IF c <= 0 THEN 0 ELSE c
<1>1. q \in Seq(Lines) /\ n \in Nat /\ DOMAIN q = 1..n /\ frontend.seq \in Nat
      /\ frontend.pushed \in Nat
  BY PageTypes
<1>2. n <= frontend.seq /\ frontend.pushed <= frontend.seq
      /\ \A i \in 1..n : q[i].seq = (frontend.seq - n) + i
  BY <1>1 DEF BufferOK, Numbered
<1>3. \A i \in 1..n : (q[i].seq <= frontend.pushed) <=> (q[i].entry \in handed)
  BY <1>1 DEF BufferOK
<1> HIDE DEF q, n
<1>4. k \in 0..n /\ \A i \in 1..n : ((frontend.seq - n) + i <= frontend.pushed) <=> (i <= k)
  BY <1>1, <1>2
<1> HIDE DEF k
<1>5. \A i \in 1..n : (q[i].seq <= frontend.pushed) <=> (i <= k)
  BY <1>2, <1>4
<1>6. TakenBefore(frontend) = 1..k
  <2>1. TakenBefore(frontend) = {i \in 1..n : q[i].seq <= frontend.pushed}
    BY <1>1 DEF TakenBefore, q
  <2>2. \A i \in 1..k : i \in 1..n /\ i <= k
    BY <1>1, <1>4
  <2>3. \A i \in 1..n : i <= k => i \in 1..k
    BY <1>1, <1>4
  <2> QED BY <1>5, <2>1, <2>2, <2>3
<1>7. Cardinality(1..k) = k
  <2>1. k \in Nat
    BY <1>1, <1>4
  <2>2. Cardinality(1..k) = IF 1 > k THEN 0 ELSE k - 1 + 1
    BY <2>1, FS_Interval
  <2> QED BY <2>1, <2>2
<1>8. Pending(frontend) = SubSeq(q, k + 1, n)
  BY <1>6, <1>7 DEF Pending, q, n
<1>9. /\ Pending(frontend) \in Seq(Lines) /\ Len(Pending(frontend)) = n - k
      /\ \A i \in 1 .. (n - k) : Pending(frontend)[i] = q[k + i]
  BY <1>1, <1>4, <1>8, AfterThe DEF n
<1>10. \A i \in 1..n : (i <= k) <=> (q[i].entry \in handed)
  BY <1>3, <1>5
<1> QED BY <1>4, <1>9, <1>10 DEF q, n

(* A batch that is taken: all that is not handed over yet, each once.      *)
LEMMA TakenBatch ==
  ASSUME LogTypeOK, EarlyOK, BufferOK, frontend.bridged
  PROVE  LET batch == Carried(Pending(frontend))
         IN  /\ batch \in Seq(Nat) /\ Once(batch) /\ ToSet(batch) = OwnBuffers
             /\ EntriesOf(Pending(frontend)) = OwnBuffers
             /\ OwnBuffers = EntriesOf(frontend.buffer) \ handed
<1> DEFINE q == frontend.buffer  n == Len(q)  p == Pending(frontend)  batch == Carried(p)
<1>1. q \in Seq(Lines) /\ n \in Nat /\ DOMAIN q = 1..n /\ logged \in Nat
  BY PageTypes
<1>2. OwnLines(q, logged)
  BY DEF BufferOK
<1>3. PICK k \in 0..n :
        /\ p \in Seq(Lines) /\ Len(p) = n - k
        /\ \A i \in 1 .. (n - k) : p[i] = q[k + i]
        /\ \A i \in 1..n : (i <= k) <=> (q[i].entry \in handed)
  BY PendingIs
<1>4. EntriesOf(q) = {q[i].entry : i \in 1..n}
  BY <1>1, <1>2, OwnEntries
<1>5. OwnBuffers = EntriesOf(q) \ handed
  BY NothingIn DEF OwnBuffers, EarlyOK
<1> HIDE DEF p, q, n
<1>6. DOMAIN p = 1 .. (n - k) /\ k \in Nat /\ n - k \in Nat
  BY <1>1, <1>3
<1>7. batch = [i \in 1 .. (n - k) |-> p[i].entry]
  BY <1>6 DEF Carried
<1>8. \A i \in 1 .. (n - k) : (k + i) \in 1..n /\ ~(k + i <= k)
  BY <1>1, <1>6
<1>9. \A i \in 1 .. (n - k) : p[i].entry = q[k + i].entry /\ p[i].entry \in 1..logged
  BY <1>1, <1>2, <1>3, <1>8 DEF OwnLines
<1>10. batch \in [1 .. (n - k) -> Nat]
  BY <1>1, <1>7, <1>9
<1>11. batch \in Seq(Nat) /\ DOMAIN batch = 1 .. (n - k)
  BY <1>6, <1>10
<1>12. \A i \in 1 .. (n - k) : batch[i] = q[k + i].entry
  BY <1>7, <1>9
<1>13. Once(batch)
  <2> SUFFICES ASSUME NEW i \in 1 .. (n - k), NEW j \in 1 .. (n - k), batch[i] = batch[j]
               PROVE  i = j
    BY <1>11 DEF Once
  <2>1. k + i = k + j
    BY <1>1, <1>2, <1>8, <1>12 DEF OwnLines
  <2> QED BY <1>6, <2>1
<1>14. ToSet(batch) = {q[k + i].entry : i \in 1 .. (n - k)}
  BY <1>11, <1>12 DEF ToSet
<1>15. OwnBuffers = {q[k + i].entry : i \in 1 .. (n - k)}
  <2>1. \A i \in 1 .. (n - k) : q[k + i].entry \in OwnBuffers
    BY <1>3, <1>4, <1>5, <1>8
  <2>2. ASSUME NEW i \in 1..n, q[i].entry \notin handed
        PROVE  \E j \in 1 .. (n - k) : q[i].entry = q[k + j].entry
    <3>1. i > k
      BY <1>1, <1>3, <1>6, <2>2
    <3>2. i - k \in 1 .. (n - k) /\ k + (i - k) = i
      BY <1>1, <1>6, <3>1
    <3> QED BY <3>2
  <2> QED BY <1>4, <1>5, <2>1, <2>2
<1>16. EntriesOf(p) = ToSet(batch)
  <2>1. EntriesOf(p) = {p[i].entry : i \in 1 .. (n - k)} \ {0}
    BY <1>3, EntriesIs DEF Dropped
  <2>2. {p[i].entry : i \in 1 .. (n - k)} = {q[k + i].entry : i \in 1 .. (n - k)}
    BY <1>9
  <2>3. 0 \notin {q[k + i].entry : i \in 1 .. (n - k)}
    BY <1>1, <1>9
  <2> QED BY <1>14, <2>1, <2>2, <2>3
<1> HIDE DEF batch
<1> QED BY <1>5, <1>11, <1>13, <1>14, <1>15, <1>16 DEF p, q, batch

LEMMA TakeKeeps ==
  ASSUME LogTypeOK, EarlyOK, BufferOK, frontend.bridged, TakePending, logged' = logged
  PROVE  /\ frontend' \in Pages /\ handed' \subseteq 1..logged' /\ handed' = handed \cup OwnBuffers
         /\ EarlyOK' /\ BufferOK' /\ OwnBuffers' = {} /\ due' \subseteq handed'
<1> DEFINE q == frontend.buffer  n == Len(q)
           top == IF q = <<>> THEN frontend.pushed ELSE Max({frontend.pushed, Last(q).seq})
<1>1. /\ q \in Seq(Lines) /\ n \in Nat /\ DOMAIN q = 1..n /\ logged \in Nat
      /\ frontend.seq \in Nat /\ frontend.pushed \in Nat /\ handed \subseteq 1..logged
  BY PageTypes
<1>2. /\ OwnLines(q, logged) /\ Numbered(q, frontend.seq)
      /\ frontend.pushed <= frontend.seq
  BY DEF BufferOK
<1>3. top \in Nat /\ top <= frontend.seq /\ (n > 0 => top = frontend.seq)
  <2>1. CASE q = <<>>
    BY <1>1, <1>2, <2>1
  <2>2. CASE q # <<>>
    <3>1. n \in 1..n
      BY <1>1, <2>2
    <3>2. q[n].seq = (frontend.seq - n) + n
      BY <1>1, <1>2, <3>1 DEF Numbered
    <3>3. Last(q).seq = frontend.seq
      BY <1>1, <3>2 DEF Last
    <3> QED BY <1>1, <1>2, <2>2, <3>3, GreaterOf
  <2> QED BY <2>1, <2>2
<1>4. /\ frontend' = [frontend EXCEPT !.pushed = top]
      /\ handed' = handed \cup OwnBuffers /\ due' = EntriesOf(q)
  BY TakenBatch DEF TakePending
<1> HIDE DEF top, q, n
<1>5. /\ frontend' \in Pages /\ frontend'.pushed = top /\ frontend'.buffer = frontend.buffer
      /\ frontend'.early = frontend.early /\ frontend'.seq = frontend.seq
      /\ frontend'.bridged = frontend.bridged
  BY <1>3, <1>4 DEF LogTypeOK, Pages
<1>6. OwnBuffers = EntriesOf(q) \ handed /\ EntriesOf(q) = {q[i].entry : i \in 1..n}
      /\ EntriesOf(q) \subseteq 1..logged
  BY <1>1, <1>2, TakenBatch, OwnEntries DEF q, n
<1>7. handed' \subseteq 1..logged /\ due' \subseteq handed' /\ EntriesOf(q) \subseteq handed'
  BY <1>1, <1>4, <1>6
<1>8. frontend.early = <<>>
  BY DEF EarlyOK
<1>9. EarlyOK'
  <2>1. OwnLines(<<>>, logged) /\ DOMAIN <<>> = {}
    BY DEF OwnLines
  <2> QED BY <1>5, <1>8, <2>1 DEF EarlyOK
<1>10. BufferOK'
  <2>1. ASSUME NEW i \in 1..n PROVE q[i].seq <= top /\ q[i].entry \in handed'
    <3>1. n > 0 /\ q[i].seq = (frontend.seq - n) + i
      BY <1>1, <1>2, <2>1 DEF Numbered, n
    <3> QED BY <1>1, <1>3, <1>6, <1>7, <2>1, <3>1
  <2>2. \A i \in DOMAIN q : (q[i].seq <= top) <=> (q[i].entry \in handed')
    BY <1>1, <2>1
  <2> QED BY <1>2, <1>3, <1>5, <2>2 DEF BufferOK, q
<1>11. OwnBuffers' = {}
  BY <1>5, <1>7, <1>8, NothingIn DEF OwnBuffers, q
<1> QED BY <1>4, <1>5, <1>7, <1>9, <1>10, <1>11

LEMMA AdoptKeeps ==
  ASSUME LogTypeOK, EarlyOK, BufferOK, Adopt
  PROVE  /\ frontend' \in Pages /\ EarlyOK' /\ BufferOK' /\ OwnBuffers' \subseteq OwnBuffers
         /\ lost \subseteq lost' /\ OwnBuffers \subseteq OwnBuffers' \cup lost'
<1> DEFINE e == frontend.early  k == Len(e)  d == IF frontend.dropped THEN 1 ELSE 0
           all == IF frontend.dropped THEN <<[seq |-> 0, entry |-> Dropped]>> \o e ELSE e
           lines == [i \in DOMAIN all |-> [seq |-> i, entry |-> all[i].entry]]
           c == Capped(lines)
<1>1. e \in Seq(Lines) /\ k \in Nat /\ DOMAIN e = 1..k /\ logged \in Nat /\ d \in {0, 1}
      /\ (\A i \in 1..k : e[i] \in Lines) /\ handed \subseteq 1..logged
  BY PageTypes
<1>2. /\ OwnLines(e, logged) /\ frontend.buffer = <<>> /\ frontend.pushed = 0
      /\ frontend.dropped => k >= MaxBuffer
      /\ \A i \in 1..k : e[i].entry \notin handed
      /\ ~frontend.bridged
  BY <1>1 DEF EarlyOK, Adopt
<1>3. /\ frontend' = [frontend EXCEPT !.bridged = TRUE, !.early = <<>>, !.buffer = c,
                                      !.seq = Len(lines)]
      /\ lost' = lost \cup (EntriesOf(lines) \ EntriesOf(c))
      /\ logged' = logged /\ handed' = handed
  BY DEF Adopt
<1>4. /\ all \in Seq(Lines) /\ Len(all) = k + d /\ DOMAIN all = 1 .. (k + d)
      /\ \A i \in 1 .. (k + d) : i > d => (i - d \in 1..k /\ all[i] = e[i - d])
      /\ \A i \in 1 .. (k + d) : i <= d => all[i].entry = 0
  <2>1. CASE frontend.dropped
    <3>1. <<[seq |-> 0, entry |-> Dropped]>> \in Seq(Lines)
      BY DEF Lines, Dropped
    <3>2. all \in Seq(Lines) /\ Len(all) = 1 + k /\ all[1].entry = 0
          /\ \A i \in 1 .. (1 + k) : i > 1 => all[i] = e[i - 1]
      BY <1>1, <2>1, <3>1 DEF Dropped
    <3> QED BY <1>1, <2>1, <3>2
  <2>2. CASE ~frontend.dropped
    BY <1>1, <2>2
  <2> QED BY <2>1, <2>2
<1> HIDE DEF all, e, k, d
<1>5. /\ lines \in Seq(Lines) /\ Len(lines) = k + d /\ DOMAIN lines = 1 .. (k + d)
      /\ \A i \in 1 .. (k + d) : lines[i].seq = i /\ lines[i].entry = all[i].entry
  <2>1. \A i \in 1 .. (k + d) : all[i].entry \in Nat /\ i \in Nat
    <3>1. \A i \in DOMAIN all : all[i] \in Lines
      BY <1>4
    <3>2. k + d \in Nat
      BY <1>1
    <3> QED BY <1>4, <3>1, <3>2 DEF Lines
  <2>2. lines \in [1 .. (k + d) -> Lines]
    BY <1>4, <2>1 DEF Lines
  <2> QED BY <1>1, <1>4, <2>2
<1> HIDE DEF lines
<1>6. PICK m \in 0 .. (k + d) :
        /\ m = IF k + d <= MaxBuffer THEN k + d ELSE MaxBuffer
        /\ c \in Seq(Lines) /\ Len(c) = m /\ \A i \in 1..m : c[i] = lines[((k + d) - m) + i]
  <2>1. k + d = Len(lines)
    BY <1>5
  <2>2. \E m \in 0..Len(lines) :
          /\ m = IF Len(lines) <= MaxBuffer THEN Len(lines) ELSE MaxBuffer
          /\ Capped(lines) \in Seq(Lines) /\ Len(Capped(lines)) = m
          /\ \A i \in 1..m : Capped(lines)[i] = lines[(Len(lines) - m) + i]
    BY <1>5, CappedIs
  <2> HIDE DEF c
  <2>3. c = Capped(lines)
    BY DEF c
  <2> QED BY <2>1, <2>2, <2>3
<1> HIDE DEF c
<1>7. m \in Nat /\ (k + d) - m >= d /\ m <= k + d /\ DOMAIN c = 1..m
  <2>1. d = 0 \/ k >= MaxBuffer
    BY <1>2 DEF d
  <2> QED BY <1>1, <1>6, <2>1, LogConstants
<1> DEFINE o == ((k + d) - m) - d
<1>8. o \in Nat /\ \A i \in 1..m : /\ ((k + d) - m) + i \in 1 .. (k + d)
                                   /\ ((k + d) - m) + i > d
                                   /\ (((k + d) - m) + i) - d = o + i
                                   /\ o + i \in 1..k
  BY <1>1, <1>7
<1>9. \A i \in 1..m : c[i].seq = ((k + d) - m) + i /\ c[i].entry = e[o + i].entry
  <2> SUFFICES ASSUME NEW i \in 1..m, NEW j, j = ((k + d) - m) + i
               PROVE  c[i].seq = j /\ c[i].entry = e[o + i].entry
    OBVIOUS
  <2>1. j \in 1 .. (k + d) /\ j > d /\ j - d = o + i
    BY <1>8
  <2>2. c[i] = lines[j]
    BY <1>6
  <2>3. all[j] = e[o + i]
    BY <1>4, <2>1
  <2> QED BY <1>5, <2>1, <2>2, <2>3
<1> HIDE DEF o
<1>10. OwnLines(c, logged)
  <2>1. \A i \in 1..m : c[i].entry \in 1..logged
    BY <1>1, <1>2, <1>8, <1>9 DEF OwnLines
  <2>2. ASSUME NEW i \in 1..m, NEW j \in 1..m, c[i].entry = c[j].entry PROVE i = j
    <3>1. o + i \in 1..k /\ o + j \in 1..k
      BY <1>8
    <3>2. e[o + i].entry = e[o + j].entry
      BY <1>9, <2>2
    <3>3. o + i = o + j
      BY <1>1, <1>2, <3>1, <3>2 DEF OwnLines
    <3> QED BY <1>8, <3>3
  <2> QED BY <1>7, <2>1, <2>2 DEF OwnLines
<1>11. Numbered(c, k + d)
  BY <1>6, <1>7, <1>9 DEF Numbered
<1>12. k + d \in Nat
  BY <1>1
<1>13. /\ frontend' \in Pages /\ frontend'.bridged /\ frontend'.early = <<>>
       /\ frontend'.buffer = c /\ frontend'.seq = k + d /\ frontend'.pushed = 0
  BY <1>2, <1>3, <1>5, <1>6, <1>12 DEF LogTypeOK, Pages
<1>14. EarlyOK'
  <2>1. OwnLines(<<>>, logged) /\ DOMAIN <<>> = {}
    BY DEF OwnLines
  <2> QED BY <1>3, <1>13, <2>1 DEF EarlyOK
<1>15. \A i \in 1..m : ~(c[i].seq <= 0) /\ c[i].entry \notin handed
  <2>1. \A i \in 1..m : c[i].seq \in Nat /\ c[i].seq > 0
    BY <1>1, <1>7, <1>9
  <2> QED BY <1>2, <1>8, <1>9, <2>1
<1>16. BufferOK'
  BY <1>3, <1>7, <1>10, <1>11, <1>12, <1>13, <1>15 DEF BufferOK
<1>17. EntriesOf(c) = {c[i].entry : i \in 1..m} /\ EntriesOf(e) = {e[i].entry : i \in 1..k}
  BY <1>1, <1>2, <1>6, <1>10, OwnEntries DEF k
<1>18. EntriesOf(e) \subseteq EntriesOf(lines)
  <2>1. \A i \in 1..k : i + d \in 1 .. (k + d) /\ i + d > d /\ (i + d) - d = i
    BY <1>1
  <2>2. \A i \in 1..k : lines[i + d].entry = e[i].entry /\ e[i].entry # 0
    <3> SUFFICES ASSUME NEW i \in 1..k, NEW j, j = i + d
                 PROVE  lines[j].entry = e[i].entry /\ e[i].entry # 0
      OBVIOUS
    <3>1. j \in 1 .. (k + d) /\ j > d /\ j - d = i
      BY <2>1
    <3>2. all[j] = e[i]
      BY <1>4, <3>1
    <3>3. e[i].entry \in 1..logged
      BY <1>1, <1>2 DEF OwnLines
    <3> QED BY <1>1, <1>5, <3>1, <3>2, <3>3
  <2>3. EntriesOf(lines) = {lines[i].entry : i \in 1 .. (k + d)} \ {0}
    BY <1>5, EntriesIs DEF Dropped
  <2> QED BY <1>17, <2>1, <2>2, <2>3
<1>19. OwnBuffers = EntriesOf(e)
  BY <1>2, NothingIn DEF OwnBuffers, e
<1>20. OwnBuffers' = EntriesOf(c)
  BY <1>3, <1>7, <1>13, <1>15, <1>17, NothingIn DEF OwnBuffers
<1>21. EntriesOf(c) \subseteq EntriesOf(e)
  BY <1>8, <1>9, <1>17
<1> QED BY <1>3, <1>13, <1>14, <1>16, <1>18, <1>19, <1>20, <1>21

(* A new line at the end.                                                  *)
LEMMA LineAdded ==
  ASSUME NEW q \in Seq(Lines), NEW n \in Nat, NEW number \in Nat, OwnLines(q, n)
  PROVE  LET line == [seq |-> number, entry |-> n + 1]
             lines == Append(q, line)
         IN  /\ lines \in Seq(Lines) /\ OwnLines(lines, n + 1)
             /\ EntriesOf(lines) = EntriesOf(q) \cup {n + 1}
             /\ DOMAIN lines = 1 .. (Len(q) + 1) /\ Len(lines) = Len(q) + 1
             /\ lines[Len(q) + 1] = line
             /\ \A i \in 1..Len(q) : lines[i] = q[i]
<1> DEFINE line == [seq |-> number, entry |-> n + 1]  lines == Append(q, line)  k == Len(q)
<1>1. line \in Lines /\ line.entry = n + 1
  BY DEF Lines
<1> HIDE DEF line
<1>2. /\ lines \in Seq(Lines) /\ DOMAIN lines = 1 .. (k + 1) /\ Len(lines) = k + 1
      /\ lines[k + 1] = line /\ k \in Nat /\ DOMAIN q = 1..k
      /\ \A i \in 1..k : lines[i] = q[i]
  BY <1>1
<1> HIDE DEF lines, k
<1>3. \A i \in 1 .. (k + 1) : i \in 1..k \/ i = k + 1
  BY <1>2
<1>4. \A i \in 1..k : i \in 1 .. (k + 1) /\ q[i].entry \in 1..n
  BY <1>2 DEF OwnLines
<1>5. OwnLines(lines, n + 1)
  <2>1. \A i \in 1 .. (k + 1) : lines[i].entry \in 1 .. (n + 1)
    BY <1>1, <1>2, <1>3, <1>4
  <2>2. ASSUME NEW i \in 1 .. (k + 1), NEW j \in 1 .. (k + 1), lines[i].entry = lines[j].entry
        PROVE  i = j
    <3>1. CASE i \in 1..k /\ j \in 1..k
      BY <1>2, <2>2, <3>1 DEF OwnLines
    <3>2. CASE i = k + 1 /\ j \in 1..k
      BY <1>1, <1>2, <1>4, <2>2, <3>2
    <3>3. CASE i \in 1..k /\ j = k + 1
      BY <1>1, <1>2, <1>4, <2>2, <3>3
    <3> QED BY <1>3, <3>1, <3>2, <3>3
  <2> QED BY <1>2, <2>1, <2>2 DEF OwnLines
<1>6. EntriesOf(lines) = EntriesOf(q) \cup {n + 1}
  <2>1. EntriesOf(lines) = {lines[i].entry : i \in 1 .. (k + 1)}
    BY <1>2, <1>5, OwnEntries
  <2>2. EntriesOf(q) = {q[i].entry : i \in 1..k}
    BY OwnEntries DEF k
  <2>3. k + 1 \in 1 .. (k + 1)
    BY <1>2
  <2> QED BY <1>1, <1>2, <1>3, <1>4, <2>1, <2>2, <2>3
<1> QED BY <1>2, <1>5, <1>6 DEF lines, line, k

LEMMA ConsoleKeeps ==
  ASSUME LogTypeOK, EarlyOK, BufferOK, LogConsole
  PROVE  /\ frontend' \in Pages /\ EarlyOK' /\ BufferOK' /\ logged' = logged + 1
         /\ OwnBuffers' \subseteq OwnBuffers \cup {logged + 1}
         /\ lost \subseteq lost' /\ OwnBuffers \cup {logged + 1} \subseteq OwnBuffers' \cup lost'
<1>1. /\ frontend.early \in Seq(Lines) /\ frontend.buffer \in Seq(Lines)
      /\ frontend.seq \in Nat /\ frontend.pushed \in Nat
      /\ logged \in Nat /\ handed \subseteq 1..logged
      /\ logged' = logged + 1 /\ handed' = handed /\ logged + 1 \notin handed
  BY PageTypes DEF LogConsole
<1>2. CASE frontend.bridged
  <2> DEFINE q == frontend.buffer  k == Len(q)
             lines == Append(q, [seq |-> frontend.seq + 1, entry |-> logged + 1])
             c == Capped(lines)
  <2>1. OwnLines(q, logged) /\ Numbered(q, frontend.seq) /\ frontend.pushed <= frontend.seq
        /\ \A i \in DOMAIN q : (q[i].seq <= frontend.pushed) <=> (q[i].entry \in handed)
    BY DEF BufferOK
  <2>2. frontend.early = <<>>
    BY <1>2 DEF EarlyOK
  <2>3. /\ frontend' = [frontend EXCEPT !.buffer = c, !.seq = @ + 1]
        /\ lost' = lost \cup (EntriesOf(lines) \ (EntriesOf(c) \cup handed))
    BY <1>1, <1>2 DEF LogConsole
  <2>4. /\ lines \in Seq(Lines) /\ OwnLines(lines, logged + 1)
        /\ EntriesOf(lines) = EntriesOf(q) \cup {logged + 1}
        /\ DOMAIN lines = 1 .. (k + 1) /\ Len(lines) = k + 1
        /\ lines[k + 1].seq = frontend.seq + 1 /\ lines[k + 1].entry = logged + 1
        /\ \A i \in 1..k : lines[i] = q[i]
    BY <1>1, <2>1, LineAdded
  <2>5. k \in Nat /\ DOMAIN q = 1..k
    BY <1>1
  <2> HIDE DEF q, k, lines
  <2>6. \A i \in 1 .. (k + 1) : i \in 1..k \/ i = k + 1
    BY <2>5
  <2>7. Numbered(lines, frontend.seq + 1)
    <3>1. k <= frontend.seq /\ \A i \in 1..k : q[i].seq = (frontend.seq - k) + i
      BY <2>1, <2>5 DEF Numbered, k
    <3>2. k + 1 <= frontend.seq + 1
      BY <1>1, <2>5, <3>1
    <3>3. ASSUME NEW i \in 1 .. (k + 1)
          PROVE  lines[i].seq = ((frontend.seq + 1) - (k + 1)) + i
      <4>1. CASE i \in 1..k
        BY <1>1, <2>4, <2>5, <3>1, <4>1
      <4>2. CASE i = k + 1
        BY <1>1, <2>4, <2>5, <4>2
      <4> QED BY <2>6, <4>1, <4>2
    <3> QED BY <2>4, <3>2, <3>3 DEF Numbered
  <2>8. \A i \in 1 .. (k + 1) : (lines[i].seq <= frontend.pushed) <=> (lines[i].entry \in handed)
    <3> SUFFICES ASSUME NEW i \in 1 .. (k + 1)
                 PROVE  (lines[i].seq <= frontend.pushed) <=> (lines[i].entry \in handed)
      OBVIOUS
    <3>1. CASE i \in 1..k
      BY <2>1, <2>4, <2>5, <3>1
    <3>2. CASE i = k + 1
      <4>1. ~(frontend.seq + 1 <= frontend.pushed)
        BY <1>1, <2>1
      <4> QED BY <1>1, <2>4, <3>2, <4>1
    <3> QED BY <2>6, <3>1, <3>2
  <2>9. /\ c \in Seq(Lines) /\ OwnLines(c, logged + 1) /\ Numbered(c, frontend.seq + 1)
        /\ EntriesOf(c) \subseteq EntriesOf(lines)
        /\ \A i \in DOMAIN c : \E j \in DOMAIN lines : c[i] = lines[j]
    <3>1. logged + 1 \in Nat /\ frontend.seq + 1 \in Nat
      BY <1>1
    <3> QED BY <2>4, <2>7, <3>1, CappedKeeps
  <2> HIDE DEF c
  <2>10. /\ frontend' \in Pages /\ frontend'.buffer = c /\ frontend'.seq = frontend.seq + 1
         /\ frontend'.pushed = frontend.pushed /\ frontend'.early = <<>>
         /\ frontend'.bridged = frontend.bridged
    <3>1. frontend \in Pages /\ frontend.seq + 1 \in Nat /\ c \in Seq(Lines)
      BY <1>1, <2>9 DEF LogTypeOK
    <3> QED BY <2>2, <2>3, <3>1 DEF Pages
  <2>11. EarlyOK'
    <3>1. OwnLines(<<>>, logged + 1) /\ DOMAIN <<>> = {}
      BY DEF OwnLines
    <3> QED BY <1>1, <1>2, <2>10, <3>1 DEF EarlyOK
  <2>12. BufferOK'
    <3>1. frontend.pushed <= frontend.seq + 1
      BY <1>1, <2>1
    <3>2. \A i \in DOMAIN c : (c[i].seq <= frontend.pushed) <=> (c[i].entry \in handed)
      BY <2>4, <2>8, <2>9
    <3> QED BY <1>1, <2>9, <2>10, <3>1, <3>2 DEF BufferOK
  <2>13. OwnBuffers = EntriesOf(q) \ handed /\ OwnBuffers' = EntriesOf(c) \ handed
    BY <1>1, <2>2, <2>10, NothingIn DEF OwnBuffers, q
  <2> QED BY <1>1, <2>3, <2>4, <2>9, <2>10, <2>11, <2>12, <2>13
<1>3. CASE ~frontend.bridged
  <2> DEFINE q == frontend.early  k == Len(q)
             lines == Append(q, [seq |-> 0, entry |-> logged + 1])
             c == Capped(lines)
             full == frontend.dropped \/ c # lines
  <2>1. /\ OwnLines(q, logged) /\ frontend.buffer = <<>> /\ frontend.seq = 0 /\ frontend.pushed = 0
        /\ frontend.dropped => k >= MaxBuffer
        /\ \A i \in DOMAIN q : q[i].entry \notin handed
    BY <1>3 DEF EarlyOK
  <2>2. /\ frontend' = [frontend EXCEPT !.early = c, !.dropped = @ \/ c # lines]
        /\ lost' = lost \cup (EntriesOf(lines) \ (EntriesOf(c) \cup handed))
    BY <1>1, <1>3 DEF LogConsole
  <2>3. /\ lines \in Seq(Lines) /\ OwnLines(lines, logged + 1)
        /\ EntriesOf(lines) = EntriesOf(q) \cup {logged + 1}
        /\ DOMAIN lines = 1 .. (k + 1) /\ Len(lines) = k + 1
        /\ lines[k + 1].entry = logged + 1
        /\ \A i \in 1..k : lines[i] = q[i]
    BY <1>1, <2>1, LineAdded
  <2>4. k \in Nat /\ DOMAIN q = 1..k
    BY <1>1
  <2>5. PICK m \in 0 .. (k + 1) :
          /\ m = IF k + 1 <= MaxBuffer THEN k + 1 ELSE MaxBuffer
          /\ c \in Seq(Lines) /\ Len(c) = m /\ \A i \in 1..m : c[i] = lines[((k + 1) - m) + i]
    <3> HIDE DEF lines, k
    <3>1. \E m \in 0..Len(lines) :
            /\ m = IF Len(lines) <= MaxBuffer THEN Len(lines) ELSE MaxBuffer
            /\ Capped(lines) \in Seq(Lines) /\ Len(Capped(lines)) = m
            /\ \A i \in 1..m : Capped(lines)[i] = lines[(Len(lines) - m) + i]
      BY <2>3, CappedIs
    <3> HIDE DEF c
    <3>2. c = Capped(lines)
      BY DEF c
    <3> QED BY <2>3, <3>1, <3>2
  <2> HIDE DEF q, k, lines, c
  <2>6. m \in Nat /\ m <= k + 1 /\ DOMAIN c = 1..m
    <3>1. m \in Nat /\ m <= k + 1
      BY <2>4
    <3>2. c \in Seq(Lines) /\ Len(c) = m
      BY <2>5
    <3> QED BY <3>1, <3>2
  <2>7. \A i \in 1..m : ((k + 1) - m) + i \in 1 .. (k + 1)
    BY <2>4, <2>6
  <2>8. OwnLines(c, logged + 1)
    <3>1. \A i \in 1..m : c[i].entry \in 1 .. (logged + 1)
      BY <2>3, <2>5, <2>7 DEF OwnLines
    <3>2. ASSUME NEW i \in 1..m, NEW j \in 1..m, c[i].entry = c[j].entry PROVE i = j
      <4>1. ((k + 1) - m) + i \in 1 .. (k + 1) /\ ((k + 1) - m) + j \in 1 .. (k + 1)
        BY <2>7
      <4>2. lines[((k + 1) - m) + i].entry = lines[((k + 1) - m) + j].entry
        BY <2>5, <3>2
      <4>3. ((k + 1) - m) + i = ((k + 1) - m) + j
        BY <2>3, <4>1, <4>2 DEF OwnLines
      <4> QED BY <2>4, <2>6, <4>3
    <3> QED BY <2>6, <3>1, <3>2 DEF OwnLines
  <2>9. \A i \in 1..m : c[i].entry \notin handed
    <3>1. \A i \in 1 .. (k + 1) : i \in 1..k \/ i = k + 1
      BY <2>4
    <3>2. \A i \in 1 .. (k + 1) : lines[i].entry \notin handed
      BY <1>1, <2>1, <2>3, <2>4, <3>1
    <3> QED BY <2>5, <2>7, <3>2
  <2>10. full => m >= MaxBuffer
    <3>1. CASE k + 1 <= MaxBuffer
      <4>1. m = k + 1
        BY <2>5, <3>1
      <4>2. c = lines
        <5>1. \A i \in 1..m : ((k + 1) - m) + i = i
          BY <2>4, <4>1
        <5>2. \A i \in 1..m : c[i] = lines[i]
          BY <2>5, <5>1
        <5> QED BY <2>3, <2>5, <4>1, <5>2
      <4>3. ~frontend.dropped
        BY <2>1, <2>4, <3>1, LogConstants
      <4> QED BY <4>2, <4>3
    <3>2. CASE ~(k + 1 <= MaxBuffer)
      BY <2>5, <3>2, LogConstants
    <3> QED BY <3>1, <3>2
  <2>11. /\ frontend' \in Pages /\ frontend'.early = c /\ frontend'.dropped = full
         /\ frontend'.buffer = <<>> /\ frontend'.seq = 0 /\ frontend'.pushed = 0
         /\ ~frontend'.bridged
    <3>1. full \in BOOLEAN
      OBVIOUS
    <3> QED BY <1>3, <2>1, <2>2, <2>5, <3>1 DEF LogTypeOK, Pages
  <2> HIDE DEF full
  <2>12. EarlyOK'
    BY <1>1, <2>5, <2>6, <2>8, <2>9, <2>10, <2>11 DEF EarlyOK
  <2>13. BufferOK'
    <3>1. OwnLines(<<>>, logged + 1) /\ Numbered(<<>>, 0) /\ DOMAIN <<>> = {}
      BY DEF OwnLines, Numbered
    <3> QED BY <1>1, <2>11, <3>1 DEF BufferOK
  <2>14. OwnBuffers = EntriesOf(q) /\ OwnBuffers' = EntriesOf(c)
    BY <2>1, <2>11, NothingIn DEF OwnBuffers, q
  <2>15. EntriesOf(c) = {c[i].entry : i \in 1..m}
    BY <1>1, <2>5, <2>8, OwnEntries
  <2>16. EntriesOf(lines) = {lines[i].entry : i \in 1 .. (k + 1)}
    BY <1>1, <2>3, OwnEntries
  <2>17. EntriesOf(c) \subseteq EntriesOf(lines)
    BY <2>5, <2>7, <2>15, <2>16
  <2>18. EntriesOf(lines) \cap handed = {}
    <3>1. EntriesOf(q) = {q[i].entry : i \in 1..k}
      BY <1>1, <2>1, OwnEntries DEF q, k
    <3> QED BY <1>1, <2>1, <2>3, <2>4, <3>1
  <2> QED BY <1>1, <2>2, <2>3, <2>11, <2>12, <2>13, <2>14, <2>17, <2>18
<1> QED BY <1>2, <1>3

-----------------------------------------------------------------------------
(* The places of the entries                                               *)

LEMMA OtherTypes ==
  ASSUME LogTypeOK
  PROVE  /\ reader.batch \in Seq(Nat) /\ reader.before \subseteq Nat /\ reader.flushed \in BOOLEAN
         /\ \A p \in pushes : p.log \in LogNames /\ p.entries \in Seq(Nat)
         /\ \A name \in LogNames : log[name] \in Seq(Nat)
BY DEF LogTypeOK, Readers, Batches

(* Entries come from the document or are lost, and the others stay.        *)
LEMMA OwnMoves ==
  ASSUME LogTypeOK, PlacesOK, ReaderOK, logged' \in {logged, logged + 1},
         UNCHANGED <<pushes, reader, log>>, lost \subseteq lost',
         OwnBuffers' \subseteq OwnBuffers \cup (1..logged' \ 1..logged),
         OwnBuffers \cup (1..logged' \ 1..logged) \subseteq OwnBuffers' \cup lost'
  PROVE  PlacesOK' /\ ReaderOK'
<1>1. Stored' = Stored /\ Travelling' = Travelling
  BY DEF Stored, Travelling
<1>2. 1..logged \subseteq 1..logged'
  BY DEF LogTypeOK
<1>3. Stored \cup Travelling \subseteq 1..logged
  BY DEF PlacesOK
<1>4. /\ Stored' \cap (Travelling' \cup OwnBuffers') = {} /\ Travelling' \cap OwnBuffers' = {}
      /\ Stored' \cup Travelling' \subseteq 1..logged'
      /\ 1..logged' \subseteq Stored' \cup Travelling' \cup OwnBuffers' \cup lost'
  BY <1>1, <1>2, <1>3 DEF PlacesOK
<1>5. PlacesOK'
  BY <1>4 DEF PlacesOK, Once
<1>6. ReaderOK'
  BY <1>1, <1>2 DEF ReaderOK
<1> QED BY <1>5, <1>6

(* All that the document has not handed over travels in a new push.        *)
LEMMA PushAdded ==
  ASSUME LogTypeOK, PlacesOK, ReaderOK, NEW p \in Batches, pushes' = pushes \cup {p},
         UNCHANGED <<reader, log, lost>>, logged' \in {logged, logged + 1}, Once(p.entries),
         ToSet(p.entries) \subseteq OwnBuffers \cup (1..logged' \ 1..logged),
         OwnBuffers \subseteq 1..logged, OwnBuffers' \subseteq OwnBuffers,
         OwnBuffers' \cap ToSet(p.entries) = {},
         OwnBuffers \cup (1..logged' \ 1..logged) \subseteq OwnBuffers' \cup ToSet(p.entries)
  PROVE  PlacesOK' /\ ReaderOK'
<1>1. Stored' = Stored /\ Travelling' = Travelling \cup ToSet(p.entries)
  BY DEF Stored, Travelling
<1>2. 1..logged \subseteq 1..logged'
  BY DEF LogTypeOK
<1>3. Stored \cup Travelling \subseteq 1..logged
  BY DEF PlacesOK
<1>4. \A q \in pushes : ToSet(q.entries) \subseteq Travelling
  BY DEF Travelling
<1>5. ToSet(reader.batch) \subseteq Travelling
  BY DEF Travelling
<1>6. ToSet(p.entries) \cap (Stored \cup Travelling) = {} /\ ToSet(p.entries) \subseteq 1..logged'
  BY <1>2, <1>3 DEF PlacesOK
<1>7. /\ Stored' \cap (Travelling' \cup OwnBuffers') = {} /\ Travelling' \cap OwnBuffers' = {}
      /\ Stored' \cup Travelling' \subseteq 1..logged'
      /\ 1..logged' \subseteq Stored' \cup Travelling' \cup OwnBuffers' \cup lost'
  BY <1>1, <1>2, <1>3, <1>6 DEF PlacesOK
<1>8. /\ \A q \in pushes' : Once(q.entries) /\ ToSet(q.entries) \cap ToSet(reader'.batch) = {}
      /\ \A q, r \in pushes' : q # r => ToSet(q.entries) \cap ToSet(r.entries) = {}
  BY <1>4, <1>5, <1>6 DEF PlacesOK
<1>9. PlacesOK'
  BY <1>7, <1>8 DEF PlacesOK, Once
<1>10. ReaderOK'
  BY <1>1, <1>2 DEF ReaderOK
<1> QED BY <1>9, <1>10

(* Lines are stored, or lost, that travelled.                              *)
LEMMA TravelEnds ==
  ASSUME LogTypeOK, PlacesOK, NEW e, e \subseteq Travelling,
         UNCHANGED <<frontend, logged, handed>>, lost \subseteq lost',
         pushes' \subseteq pushes, reader'.batch \in {reader.batch, <<>>},
         \/ Stored' = Stored \cup e
         \/ Stored' = Stored /\ e \subseteq lost',
         Travelling' \subseteq Travelling, Travelling \subseteq Travelling' \cup e,
         Travelling' \cap e = {},
         \A name \in LogNames : Once(log'[name])
  PROVE  /\ PlacesOK'
         /\ Stored \cup Travelling \cup lost \subseteq Stored' \cup Travelling' \cup lost'
<1>1. OwnBuffers' = OwnBuffers
  BY DEF OwnBuffers
<1>2. /\ Stored' \cap (Travelling' \cup OwnBuffers') = {} /\ Travelling' \cap OwnBuffers' = {}
      /\ Stored' \cup Travelling' \subseteq 1..logged'
      /\ 1..logged' \subseteq Stored' \cup Travelling' \cup OwnBuffers' \cup lost'
  <2>1. /\ Stored \cap (Travelling \cup OwnBuffers) = {} /\ Travelling \cap OwnBuffers = {}
        /\ Stored \cup Travelling \subseteq 1..logged
        /\ 1..logged \subseteq Stored \cup Travelling \cup OwnBuffers \cup lost
    BY DEF PlacesOK
  <2> QED BY <1>1, <2>1
<1>3. ToSet(reader'.batch) \subseteq ToSet(reader.batch) /\ Once(reader'.batch)
  BY NothingIn DEF PlacesOK
<1>4. /\ \A q \in pushes' : Once(q.entries) /\ ToSet(q.entries) \cap ToSet(reader'.batch) = {}
      /\ \A q, r \in pushes' : q # r => ToSet(q.entries) \cap ToSet(r.entries) = {}
  BY <1>3 DEF PlacesOK
<1>5. PlacesOK'
  BY <1>2, <1>3, <1>4 DEF PlacesOK
<1> QED BY <1>5

LEMMA StoredLines ==
  ASSUME LogTypeOK, PlacesOK, NEW name \in LogNames, NEW q \in Seq(Nat), Once(q),
         ToSet(q) \subseteq Travelling, log' = [log EXCEPT ![name] = @ \o q]
  PROVE  /\ log' \in [LogNames -> Seq(Nat)] /\ Stored' = Stored \cup ToSet(q)
         /\ \A other \in LogNames : Once(log'[other])
<1>1. log \in [LogNames -> Seq(Nat)] /\ log[name] \in Seq(Nat) /\ Once(log[name])
  BY OtherTypes DEF LogTypeOK, PlacesOK
<1>2. ToSet(log[name]) \subseteq Stored
  BY DEF Stored
<1>3. ToSet(log[name]) \cap ToSet(q) = {}
  BY <1>2 DEF PlacesOK
<1>4. /\ log[name] \o q \in Seq(Nat) /\ Once(log[name] \o q)
      /\ ToSet(log[name] \o q) = ToSet(log[name]) \cup ToSet(q)
  BY <1>1, <1>3, JoinedIs
<1>5. /\ DOMAIN log' = LogNames /\ log'[name] = log[name] \o q
      /\ \A other \in LogNames : other # name => log'[other] = log[other]
  BY <1>1
<1>6. log' \in [LogNames -> Seq(Nat)]
  BY <1>1, <1>4
<1>7. \A other \in LogNames : Once(log'[other])
  BY <1>4, <1>5 DEF PlacesOK
<1>8. \A other \in LogNames : ToSet(log'[other]) =
        IF other = name THEN ToSet(log[name]) \cup ToSet(q) ELSE ToSet(log[other])
  BY <1>4, <1>5
<1>9. Stored' = Stored \cup ToSet(q)
  BY <1>8 DEF Stored
<1> QED BY <1>6, <1>7, <1>9

LEMMA PageStays ==
  ASSUME EarlyOK, BufferOK, UNCHANGED <<frontend, logged, handed>>
  PROVE  EarlyOK' /\ BufferOK'
BY DEF EarlyOK, BufferOK, OwnLines, Numbered

(* Nothing is added anywhere, and what goes is lost.                       *)
LEMMA PlacesShrink ==
  ASSUME PlacesOK, logged' = logged, lost \subseteq lost', Stored' \subseteq Stored,
         Travelling' \subseteq Travelling, OwnBuffers' \subseteq OwnBuffers,
         Stored \cup Travelling \cup OwnBuffers \subseteq
           Stored' \cup Travelling' \cup OwnBuffers' \cup lost',
         pushes' \subseteq pushes, reader'.batch \in {reader.batch, <<>>},
         \A name \in LogNames : Once(log'[name])
  PROVE  PlacesOK'
<1>1. /\ Stored' \cap (Travelling' \cup OwnBuffers') = {} /\ Travelling' \cap OwnBuffers' = {}
      /\ Stored' \cup Travelling' \subseteq 1..logged'
      /\ 1..logged' \subseteq Stored' \cup Travelling' \cup OwnBuffers' \cup lost'
  <2>1. /\ Stored \cap (Travelling \cup OwnBuffers) = {} /\ Travelling \cap OwnBuffers = {}
        /\ Stored \cup Travelling \subseteq 1..logged
        /\ 1..logged \subseteq Stored \cup Travelling \cup OwnBuffers \cup lost
    BY DEF PlacesOK
  <2> QED BY <2>1
<1>2. ToSet(reader'.batch) \subseteq ToSet(reader.batch) /\ Once(reader'.batch)
  BY NothingIn DEF PlacesOK
<1>3. /\ \A q \in pushes' : Once(q.entries) /\ ToSet(q.entries) \cap ToSet(reader'.batch) = {}
      /\ \A q, r \in pushes' : q # r => ToSet(q.entries) \cap ToSet(r.entries) = {}
  BY <1>2 DEF PlacesOK
<1> QED BY <1>1, <1>2, <1>3 DEF PlacesOK

LEMMA OwnTypes ==
  ASSUME LogTypeOK, EarlyOK, BufferOK
  PROVE  OwnBuffers \subseteq 1..logged
<1>1. EntriesOf(frontend.early) \subseteq 1..logged /\ EntriesOf(frontend.buffer) \subseteq 1..logged
  BY PageTypes, OwnEntries DEF EarlyOK, BufferOK
<1> QED BY <1>1 DEF OwnBuffers

LEMMA NewPageIs ==
  ASSUME LogTypeOK, NEW n \in Nat, frontend' = NewPage(n), logged' = logged, handed' = handed
  PROVE  frontend' \in Pages /\ EarlyOK' /\ BufferOK' /\ OwnBuffers' = {}
<1>1. /\ frontend'.early = <<>> /\ frontend'.buffer = <<>> /\ ~frontend'.bridged
      /\ frontend'.seq = 0 /\ frontend'.pushed = 0 /\ ~frontend'.dropped
  BY DEF NewPage
<1>2. frontend' \in Pages
  BY DEF NewPage, Pages
<1>3. OwnLines(<<>>, logged) /\ Numbered(<<>>, 0) /\ DOMAIN <<>> = {}
  BY DEF OwnLines, Numbered
<1>4. EarlyOK' /\ BufferOK'
  BY <1>1, <1>3 DEF EarlyOK, BufferOK
<1>5. OwnBuffers' = {}
  BY <1>1, NothingIn DEF OwnBuffers
<1> QED BY <1>2, <1>4, <1>5

LEMMA GivenUpIs ==
  ASSUME LogTypeOK
  PROVE  /\ GivenUp \in Readers /\ GivenUp.at = "read" /\ GivenUp.batch = <<>>
         /\ GivenUp.before = reader.before /\ GivenUp.flushed = FALSE
<1>1. reader \in Readers /\ <<>> \in Seq(Nat)
  BY NothingIn DEF LogTypeOK
<1>2. reader = [at |-> reader.at, before |-> reader.before, batch |-> reader.batch,
                flushed |-> reader.flushed] /\ reader.before \in SUBSET Nat
      /\ reader.flushed \in BOOLEAN
  BY <1>1 DEF Readers
<1>3. GivenUp = [at |-> "read", before |-> reader.before, batch |-> <<>>, flushed |-> FALSE]
  <2>1. PICK r : r = [reader EXCEPT !.at = "read", !.batch = <<>>, !.flushed = FALSE]
    OBVIOUS
  <2>2. r = [at |-> "read", before |-> reader.before, batch |-> <<>>, flushed |-> FALSE]
    BY <1>2, <2>1
  <2> QED BY <2>1, <2>2 DEF GivenUp
<1>4. FALSE \in BOOLEAN
  OBVIOUS
<1>5. GivenUp \in Readers
  BY <1>1, <1>2, <1>3, <1>4 DEF Readers
<1> QED BY <1>3, <1>5

-----------------------------------------------------------------------------
(* The steps                                                               *)

LEMMA InitLogs == LogsInit => LogIInv
<1> SUFFICES ASSUME LogsInit PROVE LogIInv
  OBVIOUS
<1>1. /\ frontend = NewPage(1) /\ pushes = {} /\ reader = NoReader
      /\ log = [name \in LogNames |-> <<>>]
      /\ logged = 0 /\ handed = {} /\ due = {}
  BY DEF LogsInit
<1>2. /\ frontend.early = <<>> /\ frontend.buffer = <<>> /\ ~frontend.bridged
      /\ frontend.seq = 0 /\ frontend.pushed = 0 /\ ~frontend.dropped /\ frontend \in Pages
  BY <1>1 DEF NewPage, Pages
<1>3. /\ reader \in Readers /\ reader.at = "none" /\ reader.batch = <<>> /\ reader.before = {}
      /\ reader.flushed = FALSE
  BY <1>1 DEF NoReader, Readers
<1>4. OwnLines(<<>>, logged) /\ Numbered(<<>>, 0) /\ DOMAIN <<>> = {}
  BY DEF OwnLines, Numbered
<1>5. LogTypeOK
  BY <1>1, <1>2, <1>3 DEF LogTypeOK
<1>6. EarlyOK /\ BufferOK
  BY <1>2, <1>4 DEF EarlyOK, BufferOK
<1>7. \A name \in LogNames : log[name] = <<>>
  BY <1>1
<1>8. Stored = {} /\ Travelling = {} /\ 1..logged = {}
  BY <1>1, <1>3, <1>7, NothingIn DEF Stored, Travelling
<1>9. PlacesOK
  BY <1>1, <1>3, <1>7, <1>8, NothingIn DEF PlacesOK
<1>10. ReaderOK
  BY <1>3 DEF ReaderOK
<1> QED BY <1>1, <1>5, <1>6, <1>9, <1>10 DEF LogIInv

LEMMA ConsoleStep == ASSUME LogIInv, LogConsole PROVE LogIInv'
<1>1. LogTypeOK /\ EarlyOK /\ BufferOK /\ PlacesOK /\ ReaderOK /\ due \subseteq handed
      /\ logged \in Nat /\ handed \subseteq 1..logged
  BY DEF LogIInv, LogTypeOK
<1>2. UNCHANGED <<pushes, reader, stray, log, handed, due>>
  BY DEF LogConsole
<1>3. /\ frontend' \in Pages /\ EarlyOK' /\ BufferOK' /\ logged' = logged + 1
      /\ OwnBuffers' \subseteq OwnBuffers \cup {logged + 1}
      /\ lost \subseteq lost' /\ OwnBuffers \cup {logged + 1} \subseteq OwnBuffers' \cup lost'
  BY <1>1, ConsoleKeeps
<1>4. 1..logged' \ 1..logged = {logged + 1} /\ 1..logged \subseteq 1..logged' /\ logged' \in Nat
  BY <1>1, <1>3
<1>5. PlacesOK' /\ ReaderOK'
  BY <1>1, <1>2, <1>3, <1>4, OwnMoves
<1>6. LogTypeOK'
  BY <1>1, <1>2, <1>3, <1>4 DEF LogTypeOK
<1> QED BY <1>1, <1>2, <1>3, <1>5, <1>6 DEF LogIInv

LEMMA AdoptStep == ASSUME LogIInv, Adopt PROVE LogIInv'
<1>1. LogTypeOK /\ EarlyOK /\ BufferOK /\ PlacesOK /\ ReaderOK /\ due \subseteq handed
  BY DEF LogIInv
<1>2. UNCHANGED <<pushes, reader, stray, log, logged, handed, due>>
  BY DEF Adopt
<1>3. /\ frontend' \in Pages /\ EarlyOK' /\ BufferOK' /\ OwnBuffers' \subseteq OwnBuffers
      /\ lost \subseteq lost' /\ OwnBuffers \subseteq OwnBuffers' \cup lost'
  BY <1>1, AdoptKeeps
<1>4. 1..logged' \ 1..logged = {}
  BY <1>2
<1>5. PlacesOK' /\ ReaderOK'
  BY <1>1, <1>2, <1>3, <1>4, OwnMoves
<1>6. LogTypeOK'
  BY <1>1, <1>2, <1>3 DEF LogTypeOK
<1> QED BY <1>1, <1>2, <1>3, <1>5, <1>6 DEF LogIInv

LEMMA AutoPushStep == ASSUME LogIInv, AutoPush PROVE LogIInv'
<1> DEFINE batch == Carried(Pending(frontend))
           p == [log |-> "console", entries |-> batch]
<1>1. LogTypeOK /\ EarlyOK /\ BufferOK /\ PlacesOK /\ ReaderOK
  BY DEF LogIInv
<1>2. /\ frontend.bridged /\ TakePending /\ pushes' = pushes \cup {p}
      /\ UNCHANGED <<reader, stray, log, logged, lost>>
  BY DEF AutoPush
<1>3. batch \in Seq(Nat) /\ Once(batch) /\ ToSet(batch) = OwnBuffers
  BY <1>1, <1>2, TakenBatch
<1>4. /\ frontend' \in Pages /\ handed' \subseteq 1..logged'
      /\ EarlyOK' /\ BufferOK' /\ OwnBuffers' = {} /\ due' \subseteq handed'
  BY <1>1, <1>2, TakeKeeps
<1> HIDE DEF batch
<1>5. p \in Batches /\ p.entries = batch
  BY <1>3 DEF Batches, LogNames
<1> HIDE DEF p
<1>6. 1..logged' \ 1..logged = {} /\ OwnBuffers \subseteq 1..logged
  BY <1>1, <1>2, OwnTypes
<1>7. PlacesOK' /\ ReaderOK'
  BY <1>1, <1>2, <1>3, <1>4, <1>5, <1>6, PushAdded
<1>8. LogTypeOK'
  BY <1>1, <1>2, <1>4, <1>5 DEF LogTypeOK
<1> QED BY <1>4, <1>7, <1>8 DEF LogIInv

LEMMA PushEventStep == ASSUME LogIInv, PushEvent PROVE LogIInv'
<1> DEFINE batch == <<logged + 1>>
           p == [log |-> "events", entries |-> batch]
<1>1. LogTypeOK /\ EarlyOK /\ BufferOK /\ PlacesOK /\ ReaderOK /\ due \subseteq handed
      /\ logged \in Nat /\ handed \subseteq 1..logged
  BY DEF LogIInv, LogTypeOK
<1>2. /\ logged' = logged + 1 /\ pushes' = pushes \cup {p}
      /\ UNCHANGED <<frontend, reader, stray, log, handed, due, lost>>
  BY DEF PushEvent
<1>3. batch \in Seq(Nat) /\ Once(batch) /\ ToSet(batch) = {logged + 1}
  <2>1. DOMAIN batch = {1} /\ batch[1] = logged + 1 /\ batch \in Seq(Nat)
    BY <1>1
  <2> QED BY <2>1 DEF Once, ToSet
<1> HIDE DEF batch
<1>4. p \in Batches /\ p.entries = batch
  BY <1>3 DEF Batches, LogNames
<1> HIDE DEF p
<1>5. /\ 1..logged' \ 1..logged = {logged + 1} /\ logged + 1 \notin 1..logged
      /\ 1..logged \subseteq 1..logged' /\ logged' \in Nat
  BY <1>1, <1>2
<1>6. OwnBuffers' = OwnBuffers /\ OwnBuffers \subseteq 1..logged
  BY <1>1, <1>2, OwnTypes DEF OwnBuffers
<1>7. PlacesOK' /\ ReaderOK'
  BY <1>1, <1>2, <1>3, <1>4, <1>5, <1>6, PushAdded
<1>8. LogTypeOK'
  BY <1>1, <1>2, <1>4, <1>5 DEF LogTypeOK
<1>9. EarlyOK' /\ BufferOK'
  <2>1. frontend.early \in Seq(Lines) /\ frontend.buffer \in Seq(Lines)
    BY <1>1, PageTypes
  <2>2. OwnLines(frontend.early, logged') /\ OwnLines(frontend.buffer, logged')
    BY <1>1, <1>5 DEF EarlyOK, BufferOK, OwnLines
  <2> QED BY <1>1, <1>2, <2>2 DEF EarlyOK, BufferOK
<1> QED BY <1>1, <1>2, <1>7, <1>8, <1>9 DEF LogIInv

LEMMA PushArrivesStep == ASSUME LogIInv, PushArrives PROVE LogIInv'
<1>1. LogTypeOK /\ EarlyOK /\ BufferOK /\ PlacesOK /\ ReaderOK /\ due \subseteq handed
  BY DEF LogIInv
<1>2. PICK p \in pushes :
        /\ pushes' = pushes \ {p} /\ log' = [log EXCEPT ![p.log] = @ \o p.entries]
        /\ UNCHANGED <<frontend, reader, stray, logged, handed, due, lost>>
  BY DEF PushArrives
<1>3. p.log \in LogNames /\ p.entries \in Seq(Nat) /\ Once(p.entries)
      /\ ToSet(p.entries) \subseteq Travelling
  BY <1>1, OtherTypes DEF PlacesOK, Travelling
<1>4. /\ log' \in [LogNames -> Seq(Nat)] /\ Stored' = Stored \cup ToSet(p.entries)
      /\ \A name \in LogNames : Once(log'[name])
  BY <1>1, <1>2, <1>3, StoredLines
<1>5. /\ Travelling' \subseteq Travelling /\ Travelling \subseteq Travelling' \cup ToSet(p.entries)
      /\ Travelling' \cap ToSet(p.entries) = {}
  <2>1. \A q \in pushes' : ToSet(q.entries) \cap ToSet(p.entries) = {}
    BY <1>1, <1>2 DEF PlacesOK
  <2>2. ToSet(reader.batch) \cap ToSet(p.entries) = {}
    BY <1>1 DEF PlacesOK
  <2> QED BY <1>2, <2>1, <2>2 DEF Travelling
<1>6. /\ PlacesOK'
      /\ Stored \cup Travelling \cup lost \subseteq Stored' \cup Travelling' \cup lost'
  BY <1>1, <1>2, <1>3, <1>4, <1>5, TravelEnds
<1>7. ReaderOK'
  BY <1>1, <1>2, <1>6 DEF ReaderOK
<1>8. LogTypeOK'
  BY <1>1, <1>2, <1>4 DEF LogTypeOK
<1> QED BY <1>1, <1>2, <1>6, <1>7, <1>8, PageStays DEF LogIInv

LEMMA StoreReplyStep == ASSUME LogIInv, StoreReply PROVE LogIInv'
<1> DEFINE e == ToSet(reader.batch)
<1>1. LogTypeOK /\ EarlyOK /\ BufferOK /\ PlacesOK /\ ReaderOK /\ due \subseteq handed
  BY DEF LogIInv
<1>2. /\ reader.at = "reply" /\ log' = [log EXCEPT !["console"] = @ \o reader.batch]
      /\ reader' = [reader EXCEPT !.at = "read", !.batch = <<>>]
      /\ UNCHANGED <<frontend, pushes, stray, logged, handed, due, lost>>
  BY DEF StoreReply
<1>3. reader.batch \in Seq(Nat) /\ Once(reader.batch) /\ e \subseteq Travelling
  BY <1>1, OtherTypes DEF PlacesOK, Travelling
<1>4. /\ log' \in [LogNames -> Seq(Nat)] /\ Stored' = Stored \cup e
      /\ \A name \in LogNames : Once(log'[name])
  BY <1>1, <1>2, <1>3, StoredLines DEF LogNames
<1>5. /\ reader' \in Readers /\ reader'.at = "read" /\ reader'.batch = <<>>
      /\ reader'.before = reader.before /\ reader'.flushed = reader.flushed
  <2>1. reader \in Readers /\ <<>> \in Seq(Nat)
    BY <1>1, NothingIn DEF LogTypeOK
  <2>2. reader = [at |-> reader.at, before |-> reader.before, batch |-> reader.batch,
                  flushed |-> reader.flushed] /\ reader.before \in SUBSET Nat
        /\ reader.flushed \in BOOLEAN
    BY <2>1 DEF Readers
  <2>3. reader' = [at |-> "read", before |-> reader.before, batch |-> <<>>,
                   flushed |-> reader.flushed]
    BY <1>2, <2>2
  <2>4. reader' \in Readers
    BY <2>1, <2>2, <2>3 DEF Readers
  <2> QED BY <2>3, <2>4
<1>6. Travelling' \subseteq Travelling /\ Travelling \subseteq Travelling' \cup e
      /\ Travelling' \cap e = {}
  BY <1>1, <1>2, <1>5, NothingIn DEF Travelling, PlacesOK
<1>7. /\ PlacesOK'
      /\ Stored \cup Travelling \cup lost \subseteq Stored' \cup Travelling' \cup lost'
  BY <1>1, <1>2, <1>3, <1>4, <1>5, <1>6, TravelEnds
<1>8. ReaderOK'
  BY <1>1, <1>2, <1>5, <1>7 DEF ReaderOK
<1>9. LogTypeOK'
  BY <1>1, <1>2, <1>4, <1>5 DEF LogTypeOK
<1> QED BY <1>1, <1>2, <1>7, <1>8, <1>9, PageStays DEF LogIInv

(* The reader's and the host's steps that leave the entries where they are.*)
LEMMA ReaderMoves ==
  ASSUME LogIInv, reader' \in Readers, reader'.batch = reader.batch,
         UNCHANGED <<frontend, pushes, log, logged, handed, due, lost>>,
         reader'.before \subseteq 1..logged,
         (reader'.at # "reply") => reader.batch = <<>>,
         (reader'.at = "asked") => ~reader'.flushed,
         (reader'.flushed /\ reader'.at \in {"reply", "read"}) =>
           reader'.before \subseteq Stored \cup Travelling \cup lost
  PROVE  LogIInv'
<1>1. LogTypeOK /\ EarlyOK /\ BufferOK /\ PlacesOK /\ ReaderOK /\ due \subseteq handed
  BY DEF LogIInv
<1>2. Stored' = Stored /\ Travelling' = Travelling /\ OwnBuffers' = OwnBuffers
  BY DEF Stored, Travelling, OwnBuffers
<1>3. PlacesOK'
  BY <1>1, <1>2 DEF PlacesOK, Once
<1>4. ReaderOK'
  BY <1>2 DEF ReaderOK
<1>5. LogTypeOK'
  BY <1>1 DEF LogTypeOK
<1> QED BY <1>1, <1>3, <1>4, <1>5, PageStays DEF LogIInv

LEMMA AskFlushStep == ASSUME LogIInv, AskFlush PROVE LogIInv'
<1>1. LogTypeOK /\ ReaderOK /\ logged \in Nat
  BY DEF LogIInv, LogTypeOK
<1>2. /\ reader.at = "none" /\ reader' = [NoReader EXCEPT !.at = "asked", !.before = 1..logged]
      /\ UNCHANGED <<frontend, pushes, stray, log, logged, handed, due, lost>>
  BY DEF AskFlush
<1>3. reader' = [at |-> "asked", before |-> 1..logged, batch |-> <<>>, flushed |-> FALSE]
  BY <1>2 DEF NoReader
<1>4. 1..logged \subseteq Nat /\ <<>> \in Seq(Nat) /\ FALSE \in BOOLEAN
  BY <1>1, NothingIn
<1>5. reader' \in Readers
  BY <1>3, <1>4 DEF Readers
<1>6. reader.batch = <<>>
  BY <1>1, <1>2 DEF ReaderOK
<1>7. reader'.at = "asked" /\ reader'.before = 1..logged /\ reader'.batch = <<>>
      /\ reader'.flushed = FALSE
  BY <1>3
<1> QED BY <1>2, <1>5, <1>6, <1>7, ReaderMoves

LEMMA ReadConsoleStep == ASSUME LogIInv, ReadConsole PROVE LogIInv'
<1>1. ReaderOK /\ reader.at = "read" /\ reader' = NoReader
      /\ UNCHANGED <<frontend, pushes, stray, log, logged, handed, due, lost>>
  BY DEF LogIInv, ReadConsole
<1>2. reader' = [at |-> "none", before |-> {}, batch |-> <<>>, flushed |-> FALSE]
  BY <1>1 DEF NoReader
<1>3. reader' \in Readers
  BY <1>2, NothingIn DEF Readers
<1>4. reader.batch = <<>>
  BY <1>1 DEF ReaderOK
<1> QED BY <1>1, <1>2, <1>3, <1>4, ReaderMoves

(* The page answers: all that it holds is on its way.                      *)
LEMMA AnswerStep == ASSUME LogIInv, Answer PROVE LogIInv'
<1>1. LogTypeOK /\ EarlyOK /\ BufferOK /\ PlacesOK /\ ReaderOK /\ due \subseteq handed
  BY DEF LogIInv
<1>2. reader.at = "asked" /\ UNCHANGED <<pushes, stray, log, logged, lost>>
  BY DEF Answer
<1>3. reader.batch = <<>> /\ reader.before \subseteq 1..logged
  BY <1>1, <1>2 DEF ReaderOK
<1>4. /\ reader = [at |-> reader.at, before |-> reader.before, batch |-> reader.batch,
                   flushed |-> reader.flushed]
      /\ reader.before \in SUBSET Nat /\ reader.flushed \in BOOLEAN
  BY <1>1 DEF LogTypeOK, Readers
<1>5. CASE frontend.bridged
  <2> DEFINE batch == Carried(Pending(frontend))
  <2>1. TakePending /\ reader' = [reader EXCEPT !.at = "reply", !.batch = batch, !.flushed = TRUE]
    BY <1>5 DEF Answer
  <2>2. batch \in Seq(Nat) /\ Once(batch) /\ ToSet(batch) = OwnBuffers
    BY <1>1, <1>5, TakenBatch
  <2>3. /\ frontend' \in Pages /\ handed' \subseteq 1..logged'
        /\ EarlyOK' /\ BufferOK' /\ OwnBuffers' = {} /\ due' \subseteq handed'
    BY <1>1, <1>2, <1>5, <2>1, TakeKeeps
  <2> HIDE DEF batch
  <2>4. reader' = [at |-> "reply", before |-> reader.before, batch |-> batch, flushed |-> TRUE]
    BY <1>4, <2>1
  <2>5. reader' \in Readers
    BY <1>4, <2>2, <2>4 DEF Readers
  <2>6. Stored' = Stored /\ Travelling' = Travelling \cup OwnBuffers
    BY <1>2, <1>3, <2>2, <2>4, NothingIn DEF Stored, Travelling
  <2>7. OwnBuffers \subseteq 1..logged
    BY <1>1, OwnTypes
  <2>8. /\ Stored' \cap (Travelling' \cup OwnBuffers') = {} /\ Travelling' \cap OwnBuffers' = {}
        /\ Stored' \cup Travelling' \subseteq 1..logged'
        /\ 1..logged' \subseteq Stored' \cup Travelling' \cup OwnBuffers' \cup lost'
    BY <1>1, <1>2, <2>3, <2>6, <2>7 DEF PlacesOK
  <2>9. \A p \in pushes : ToSet(p.entries) \cap ToSet(batch) = {}
    <3>1. \A p \in pushes : ToSet(p.entries) \subseteq Travelling
      BY DEF Travelling
    <3> QED BY <1>1, <2>2, <3>1 DEF PlacesOK
  <2>10. PlacesOK'
    BY <1>1, <1>2, <2>2, <2>4, <2>8, <2>9 DEF PlacesOK, Once
  <2>11. ReaderOK'
    <3>1. reader.before \subseteq Stored' \cup Travelling' \cup lost'
      BY <1>2, <1>3, <2>3, <2>8
    <3> QED BY <1>2, <1>3, <2>4, <3>1 DEF ReaderOK
  <2>12. LogTypeOK'
    BY <1>1, <1>2, <2>3, <2>5 DEF LogTypeOK
  <2> QED BY <2>3, <2>10, <2>11, <2>12 DEF LogIInv
<1>6. CASE ~frontend.bridged
  <2>1. reader' = [reader EXCEPT !.at = "read"] /\ UNCHANGED <<frontend, handed, due>>
    BY <1>6 DEF Answer
  <2>2. reader' = [at |-> "read", before |-> reader.before, batch |-> reader.batch,
                   flushed |-> reader.flushed]
    BY <1>4, <2>1
  <2>3. reader' \in Readers /\ reader.flushed = FALSE
    BY <1>1, <1>2, <1>4, <2>2 DEF LogTypeOK, Readers, ReaderOK
  <2> QED BY <1>2, <1>3, <2>1, <2>2, <2>3, ReaderMoves
<1> QED BY <1>5, <1>6

(* What goes from the places is lost.                                      *)
LEMMA ThingsGo ==
  ASSUME LogIInv, logged' = logged, handed' = handed, lost \subseteq lost',
         frontend' \in Pages, EarlyOK', BufferOK', OwnBuffers' \subseteq OwnBuffers,
         pushes' \subseteq pushes, reader' \in Readers, log' \in [LogNames -> Seq(Nat)],
         \A name \in LogNames : log'[name] \in {log[name], <<>>},
         reader'.batch \in {reader.batch, <<>>}, reader'.before \in {reader.before, {}},
         (reader'.at # "reply") => reader'.batch = <<>>,
         (reader'.at = "asked") => ~reader'.flushed,
         reader'.flushed => (reader.flushed /\ reader'.at = reader.at /\ reader' = reader),
         due' \in {due, {}},
         Stored \cup Travelling \cup OwnBuffers \subseteq
           Stored' \cup Travelling' \cup OwnBuffers' \cup lost'
  PROVE  LogIInv'
<1>1. LogTypeOK /\ PlacesOK /\ ReaderOK /\ due \subseteq handed
  BY DEF LogIInv
<1>2. Stored' \subseteq Stored
  <2>1. \A name \in LogNames : ToSet(log'[name]) \subseteq ToSet(log[name])
    BY NothingIn
  <2> QED BY <2>1 DEF Stored
<1>3. Travelling' \subseteq Travelling
  <2>1. ToSet(reader'.batch) \subseteq ToSet(reader.batch)
    BY NothingIn
  <2> QED BY <2>1 DEF Travelling
<1>4. \A name \in LogNames : Once(log'[name])
  BY <1>1, NothingIn DEF PlacesOK
<1>5. PlacesOK'
  BY <1>1, <1>2, <1>3, <1>4, PlacesShrink
<1>6. OwnBuffers \subseteq 1..logged
  BY OwnTypes DEF LogIInv
<1>7. (reader'.flushed /\ reader'.at \in {"reply", "read"}) =>
        reader'.before \subseteq Stored' \cup Travelling' \cup lost'
  <2> SUFFICES ASSUME reader'.flushed, reader'.at \in {"reply", "read"}
               PROVE  reader'.before \subseteq Stored' \cup Travelling' \cup lost'
    OBVIOUS
  <2>1. reader.before \subseteq Stored \cup Travelling \cup lost /\ reader'.before = reader.before
    BY <1>1 DEF ReaderOK
  <2>2. (Stored \cup Travelling) \cap OwnBuffers' = {}
    BY <1>1 DEF PlacesOK
  <2> QED BY <2>1, <2>2
<1>8. ReaderOK'
  <2>1. reader'.before \subseteq 1..logged
    BY <1>1 DEF ReaderOK
  <2> QED BY <1>7, <2>1 DEF ReaderOK
<1>9. LogTypeOK'
  BY <1>1 DEF LogTypeOK
<1> QED BY <1>1, <1>5, <1>8, <1>9 DEF LogIInv

LEMMA PushFailsStep == ASSUME LogIInv, PushFails PROVE LogIInv'
<1>1. LogTypeOK /\ EarlyOK /\ BufferOK /\ PlacesOK /\ ReaderOK
  BY DEF LogIInv
<1>2. PICK p \in pushes :
        /\ pushes' = pushes \ {p} /\ lost' = lost \cup ToSet(p.entries)
        /\ UNCHANGED <<frontend, reader, stray, log, logged, handed, due>>
  BY DEF PushFails
<1>3. Stored' = Stored /\ OwnBuffers' = OwnBuffers
      /\ Travelling \subseteq Travelling' \cup ToSet(p.entries)
  BY <1>2 DEF Stored, OwnBuffers, Travelling
<1>4. EarlyOK' /\ BufferOK'
  BY <1>1, <1>2, PageStays
<1>5. /\ frontend' \in Pages /\ reader' \in Readers /\ log' \in [LogNames -> Seq(Nat)]
      /\ ((reader.at # "reply") => reader.batch = <<>>)
      /\ ((reader.at = "asked") => ~reader.flushed)
  BY <1>1, <1>2 DEF LogTypeOK, ReaderOK
<1> QED BY <1>2, <1>3, <1>4, <1>5, ThingsGo

LEMMA FlushTimesOutStep == ASSUME LogIInv, FlushTimesOut PROVE LogIInv'
<1>1. LogTypeOK /\ EarlyOK /\ BufferOK /\ PlacesOK /\ ReaderOK
  BY DEF LogIInv
<1>2. /\ reader' = GivenUp /\ lost' = lost \cup ToSet(reader.batch)
      /\ UNCHANGED <<frontend, pushes, log, logged, handed, due>>
  BY DEF FlushTimesOut
<1>3. /\ reader' \in Readers /\ reader'.at = "read" /\ reader'.batch = <<>>
      /\ reader'.before = reader.before /\ reader'.flushed = FALSE
  BY <1>1, <1>2, GivenUpIs
<1>4. Stored' = Stored /\ OwnBuffers' = OwnBuffers
      /\ Travelling \subseteq Travelling' \cup ToSet(reader.batch)
  BY <1>2 DEF Stored, OwnBuffers, Travelling
<1>5. EarlyOK' /\ BufferOK' /\ frontend' \in Pages /\ log' \in [LogNames -> Seq(Nat)]
  BY <1>1, <1>2, PageStays DEF LogTypeOK
<1> QED BY <1>2, <1>3, <1>4, <1>5, ThingsGo

LEMMA AnswerNobodyStep == ASSUME LogIInv, AnswerNobody PROVE LogIInv'
<1>1. LogTypeOK /\ EarlyOK /\ BufferOK /\ PlacesOK /\ ReaderOK
  BY DEF LogIInv
<1>2. /\ frontend.bridged /\ TakePending /\ UNCHANGED <<pushes, reader, log, logged>>
      /\ lost' = lost \cup EntriesOf(Pending(frontend))
  BY DEF AnswerNobody
<1>3. EntriesOf(Pending(frontend)) = OwnBuffers
  BY <1>1, <1>2, TakenBatch
<1>4. /\ frontend' \in Pages /\ handed' \subseteq 1..logged'
      /\ EarlyOK' /\ BufferOK' /\ OwnBuffers' = {} /\ due' \subseteq handed'
  BY <1>1, <1>2, TakeKeeps
<1>5. 1..logged' \ 1..logged = {}
  BY <1>2
<1>6. PlacesOK' /\ ReaderOK'
  BY <1>1, <1>2, <1>3, <1>4, <1>5, OwnMoves
<1>7. LogTypeOK'
  BY <1>1, <1>2, <1>4 DEF LogTypeOK
<1> QED BY <1>4, <1>6, <1>7 DEF LogIInv

LEMMA ClearLogStep == ASSUME LogIInv, NEW name \in LogNames, ClearLog(name) PROVE LogIInv'
<1>1. LogTypeOK /\ EarlyOK /\ BufferOK /\ PlacesOK /\ ReaderOK
  BY DEF LogIInv
<1>2. /\ log' = [log EXCEPT ![name] = <<>>] /\ lost' = lost \cup ToSet(log[name])
      /\ UNCHANGED <<frontend, pushes, reader, stray, logged, handed, due>>
  BY DEF ClearLog
<1>3. \A other \in LogNames : log'[other] = IF other = name THEN <<>> ELSE log[other]
  BY <1>1, <1>2 DEF LogTypeOK
<1>4. log' \in [LogNames -> Seq(Nat)]
  BY <1>1, <1>2, NothingIn DEF LogTypeOK
<1>5. Travelling' = Travelling /\ OwnBuffers' = OwnBuffers
      /\ Stored \subseteq Stored' \cup ToSet(log[name])
  BY <1>2, <1>3 DEF Stored, OwnBuffers, Travelling
<1>6. /\ EarlyOK' /\ BufferOK' /\ frontend' \in Pages /\ reader' \in Readers
      /\ ((reader.at # "reply") => reader.batch = <<>>)
      /\ ((reader.at = "asked") => ~reader.flushed)
  BY <1>1, <1>2, PageStays DEF LogTypeOK, ReaderOK
<1> QED BY <1>2, <1>3, <1>4, <1>5, <1>6, ThingsGo

LEMMA ReloadStep == ASSUME LogIInv, Reload PROVE LogIInv'
<1>1. LogTypeOK /\ EarlyOK /\ BufferOK /\ PlacesOK /\ ReaderOK /\ frontend.load + 1 \in Nat
  BY PageTypes DEF LogIInv
<1>2. /\ frontend' = NewPage(frontend.load + 1) /\ due' = {}
      /\ reader' = IF reader.at \in {"asked", "reply"} THEN GivenUp ELSE reader
      /\ lost' = lost \cup OwnBuffers \cup ToSet(reader.batch)
      /\ UNCHANGED <<pushes, log, logged, handed>>
  BY DEF Reload
<1>3. frontend' \in Pages /\ EarlyOK' /\ BufferOK' /\ OwnBuffers' = {}
  BY <1>1, <1>2, NewPageIs
<1>4. Stored' = Stored /\ Travelling \subseteq Travelling' \cup ToSet(reader.batch)
  BY <1>2 DEF Stored, Travelling
<1>5. log' \in [LogNames -> Seq(Nat)]
  BY <1>1, <1>2 DEF LogTypeOK
<1>6. CASE reader.at \in {"asked", "reply"}
  <2>1. /\ reader' \in Readers /\ reader'.at = "read" /\ reader'.batch = <<>>
        /\ reader'.before = reader.before /\ reader'.flushed = FALSE
    BY <1>1, <1>2, <1>6, GivenUpIs
  <2> QED BY <1>2, <1>3, <1>4, <1>5, <2>1, ThingsGo
<1>7. CASE reader.at \notin {"asked", "reply"}
  <2>1. /\ reader' = reader /\ reader' \in Readers
        /\ ((reader.at # "reply") => reader.batch = <<>>)
        /\ ((reader.at = "asked") => ~reader.flushed)
    BY <1>1, <1>2, <1>7 DEF LogTypeOK, ReaderOK
  <2> QED BY <1>2, <1>3, <1>4, <1>5, <2>1, ThingsGo
<1> QED BY <1>6, <1>7

LEMMA RelaunchStep == ASSUME LogIInv, Relaunch PROVE LogIInv'
<1>1. LogTypeOK /\ EarlyOK /\ BufferOK /\ PlacesOK /\ ReaderOK /\ frontend.load + 1 \in Nat
  BY PageTypes DEF LogIInv
<1>2. /\ frontend' = NewPage(frontend.load + 1) /\ due' = {}
      /\ log' = [name \in LogNames |-> <<>>] /\ pushes' = {} /\ reader' = NoReader
      /\ lost' = lost \cup OwnBuffers \cup Travelling \cup Stored
      /\ UNCHANGED <<logged, handed>>
  BY DEF Relaunch
<1>3. frontend' \in Pages /\ EarlyOK' /\ BufferOK' /\ OwnBuffers' = {}
  BY <1>1, <1>2, NewPageIs
<1>4. reader' = [at |-> "none", before |-> {}, batch |-> <<>>, flushed |-> FALSE]
  BY <1>2 DEF NoReader
<1>5. reader' \in Readers
  BY <1>4, NothingIn DEF Readers
<1>6. /\ log' \in [LogNames -> Seq(Nat)] /\ \A name \in LogNames : log'[name] = <<>>
  BY <1>2, NothingIn
<1> QED BY <1>2, <1>3, <1>4, <1>5, <1>6, ThingsGo

-----------------------------------------------------------------------------
LEMMA LogStep == LogIInv /\ [LogsNext]_logVars => LogIInv'
<1> SUFFICES ASSUME LogIInv, [LogsNext]_logVars PROVE LogIInv'
  OBVIOUS
<1>1. CASE LogConsole \/ Adopt \/ AutoPush \/ PushEvent
  BY <1>1, ConsoleStep, AdoptStep, AutoPushStep, PushEventStep
<1>2. CASE PushArrives \/ PushFails
  BY <1>2, PushArrivesStep, PushFailsStep
<1>3. CASE AskFlush \/ Answer \/ StoreReply \/ FlushTimesOut \/ AnswerNobody \/ ReadConsole
  BY <1>3, AskFlushStep, AnswerStep, StoreReplyStep, FlushTimesOutStep, AnswerNobodyStep,
     ReadConsoleStep
<1>4. CASE \E name \in LogNames : ClearLog(name)
  BY <1>4, ClearLogStep
<1>5. CASE Reload \/ Relaunch
  BY <1>5, ReloadStep, RelaunchStep
<1>6. CASE UNCHANGED logVars
  <2>1. LogTypeOK' /\ EarlyOK' /\ BufferOK'
    BY <1>6, PageStays DEF logVars, LogIInv, LogTypeOK
  <2>2. Stored' = Stored /\ Travelling' = Travelling /\ OwnBuffers' = OwnBuffers
    BY <1>6 DEF logVars, Stored, Travelling, OwnBuffers
  <2>3. PlacesOK' /\ ReaderOK'
    BY <1>6, <2>2 DEF logVars, LogIInv, PlacesOK, ReaderOK, Once
  <2> QED BY <1>6, <2>1, <2>3 DEF logVars, LogIInv
<1> QED BY <1>1, <1>2, <1>3, <1>4, <1>5, <1>6 DEF LogsNext

(* The inductive invariant of the logs.                                    *)
THEOREM LogInvariance == LogsSpec => []LogIInv
<1> QED BY InitLogs, LogStep, PTL DEF LogsSpec

(* For any number of entries, any size of the buffers and any number of    *)
(* documents: an entry is handed over and stored once, what the page held  *)
(* when it was asked is handed over, and a reader whose flush was answered *)
(* misses nothing (bridge.rs, takePendingLogs; handlers.rs, console_logs). *)
THEOREM LogsStayComplete == LogsSpec => []LogsAreComplete
<1>1. LogIInv => LogsAreComplete
  <2> SUFFICES ASSUME LogIInv PROVE LogsAreComplete
    OBVIOUS
  <2>1. \A name \in LogNames : IsInjective(log[name])
    BY DEF LogIInv, PlacesOK, Once, IsInjective
  <2>2. Stored \cap (Travelling \cup OwnBuffers) = {} /\ due \subseteq handed
    BY DEF LogIInv, PlacesOK
  <2>3. (reader.at = "read" /\ reader.flushed) =>
          reader.before \subseteq Stored \cup Travelling \cup lost
    BY DEF LogIInv, ReaderOK
  <2> QED BY <2>1, <2>2, <2>3 DEF LogsAreComplete
<1> QED BY <1>1, LogInvariance, PTL
=============================================================================
