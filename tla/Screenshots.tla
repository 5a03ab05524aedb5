---------------------------- MODULE Screenshots ----------------------------
(***************************************************************************)
(* Protected screenshots (src/plugin/src/screenshot/).  A request binds    *)
(* itself to the document of the window and to an element, and takes an    *)
(* image in steps: between any two of them the page may change, navigate   *)
(* or lose the authorization of the caller.  What is sensitive is masked   *)
(* where a probe before the image found it.  The image goes to the caller  *)
(* and, while memory lasts, to a store that keeps it for a time it         *)
(* announces.                                                              *)
(*                                                                         *)
(* One request at a time: all of them lease the user interface.  The look  *)
(* of a page is what a probe reports: viewport, scroll, extent and the     *)
(* regions to mask.  It never returns to what it was: a change undone      *)
(* between two probes escapes them, which the metadata admit               *)
(* ("atomic": false).  Pixels, formats, sizes and crops of native windows  *)
(* are left out.                                                           *)
(***************************************************************************)
EXTENDS Naturals, FiniteSets

CONSTANTS MaxShots,     \* bound: requests
          MaxAttempts,  \* CAPTURE_ATTEMPTS
          MaxCallbacks, \* permits of NATIVE_CALLBACKS
          Retained,     \* RETAINED_LIMIT
          Memory,       \* the shared retention budget, in images
          MaxTrouble    \* bound: disturbances (the actions of Trouble)

ASSUME ScreenshotConstants ==
  /\ MaxShots \in Nat /\ MaxAttempts \in Nat \ {0} /\ MaxCallbacks \in Nat \ {0}
  /\ Retained \in Nat /\ Memory \in Nat /\ MaxTrouble \in Nat

ArtifactTTL == 1
Sources == {"webview_native", "window_native", "dom_rendering"}

VARIABLES
  view,      \* the page: its document, its look, where the element is
  shot,      \* the request that holds the lease
  native,    \* callbacks that the operating system still owes
  artifacts, \* the protected store
  used,      \* what is charged to the budget
  generation, \* of the credential
  clock,
  promised,  \* ghost: what callers were told is kept, and until when
  trouble    \* how often something was disturbed

shotVars == <<view, shot, native, artifacts, used, generation, clock, promised, trouble>>
hostVars == <<native, artifacts, used, generation, clock, promised, trouble>>

NoFrame == [document |-> 0, look |-> 0, spot |-> 0, maskable |-> FALSE]
View == [document |-> view.document, look |-> view.look, spot |-> view.spot,
         maskable |-> view.maskable]
NoShot == [at |-> "none", number |-> 0, element |-> FALSE, source |-> "none", auto |-> FALSE,
           generation |-> 0, attempt |-> 0, checked |-> "no", context |-> 0, spot |-> 0,
           before |-> NoFrame, call |-> 0, frame |-> NoFrame]

ShotInit ==
  /\ view = [document |-> 1, look |-> 0, spot |-> 0, maskable |-> TRUE, loading |-> FALSE]
  /\ shot = NoShot /\ native = {} /\ artifacts = {} /\ used = 0
  /\ generation = 1 /\ clock = 0 /\ promised = {} /\ trouble = 0

-----------------------------------------------------------------------------
(* The page and its surroundings                                           *)
Redraw ==
  /\ \E maskable \in BOOLEAN : view' = [view EXCEPT !.look = @ + 1, !.maskable = maskable]
  /\ UNCHANGED <<generation, clock, used>>

MoveElement ==
  /\ view' = [view EXCEPT !.spot = @ + 1]
  /\ UNCHANGED <<generation, clock, used>>

PageNavigates ==
  /\ view' = [view EXCEPT !.document = @ + 1, !.loading = TRUE]
  /\ UNCHANGED <<generation, clock, used>>

(* set_token with another credential                                       *)
Revoke ==
  /\ generation' = generation + 1
  /\ UNCHANGED <<view, clock, used>>

ClockTick ==
  /\ clock' = clock + 1
  /\ UNCHANGED <<view, generation, used>>

(* Runs and capture sessions charge the same budget.                       *)
OthersCharge ==
  /\ used < Memory
  /\ used' = used + 1
  /\ UNCHANGED <<view, generation, clock>>

Trouble ==
  /\ trouble < MaxTrouble /\ trouble' = trouble + 1
  /\ Redraw \/ MoveElement \/ PageNavigates \/ Revoke \/ ClockTick \/ OthersCharge
  /\ UNCHANGED <<shot, native, artifacts, promised>>

Loaded ==
  /\ view.loading
  /\ view' = [view EXCEPT !.loading = FALSE]
  /\ UNCHANGED <<shot, hostVars>>

Live(kept) == {a \in kept : a.until > clock}

(* The reaper, and every operation on the store before it does its own     *)
(* work: a reservation goes with what it covers.                           *)
Reap ==
  /\ Live(artifacts) # artifacts
  /\ artifacts' = Live(artifacts)
  /\ used' = used - Cardinality(artifacts \ artifacts')
  /\ UNCHANGED <<view, shot, native, generation, clock, promised, trouble>>

(* artifact_prune: for a caller of the current generation.                 *)
Prune ==
  /\ artifacts' = Live(artifacts)
  /\ used' = used - Cardinality(artifacts \ artifacts')
  /\ UNCHANGED <<view, shot, native, generation, clock, promised, trouble>>

-----------------------------------------------------------------------------
(* A request                                                               *)

Step(new) ==
  /\ shot' = new
  /\ UNCHANGED <<view, hostVars>>

RequestShot ==
  /\ shot.at = "none" /\ shot.number < MaxShots
  /\ \E element \in BOOLEAN, source \in Sources, auto \in BOOLEAN :
       /\ auto => source = "webview_native"
       /\ Step([NoShot EXCEPT !.at = "authorize", !.number = shot.number + 1,
                              !.element = element, !.source = source, !.auto = auto,
                              !.attempt = 1])

(* The lease is dropped; a callback that is still owed keeps its permit.   *)
Over == [NoShot EXCEPT !.number = shot.number]
Refused == Step(Over)

(* retry_after: what the page did under the capture is tried again a few   *)
(* times, a navigation until the deadline.                                 *)
Changed ==
  IF view.loading \/ shot.attempt < MaxAttempts
    THEN Step([NoShot EXCEPT !.at = "authorize", !.number = shot.number,
                 !.element = shot.element, !.auto = shot.auto,
                 !.source = IF shot.auto THEN "webview_native" ELSE shot.source,
                 !.attempt = IF shot.attempt < MaxAttempts THEN shot.attempt + 1
                                                           ELSE shot.attempt])
    ELSE Refused

(* handle: the deadline drops the attempts wherever they are.              *)
DropAttempts == shot.at \notin {"none", "reply"} /\ Refused

(* A caller with an old credential is refused, also when it tries again.   *)
Authorize ==
  /\ shot.at = "authorize"
  /\ \/ Step([shot EXCEPT !.at = "bind", !.generation = generation])
     \/ generation > 1 /\ Refused

(* runtime_context; a page that loads is waited for.                       *)
Bind ==
  /\ shot.at = "bind"
  /\ \/ ~view.loading
        /\ Step([shot EXCEPT !.at = IF shot.element THEN "target" ELSE "frame_ready",
                             !.context = view.document])
     \/ view.loading /\ Refused

SameDocument == view.document = shot.context /\ ~view.loading

(* target_begin: the element, and where it is.                             *)
TargetBegin ==
  /\ shot.at = "target"
  /\ \/ SameDocument /\ Step([shot EXCEPT !.at = "frame_ready", !.spot = view.spot])
     \/ SameDocument /\ Refused
     \/ ~SameDocument /\ Changed

(* validate: authorization, then the context and the element in the page.  *)
Validates == SameDocument /\ (shot.element => view.spot = shot.spot)

Checked == {"frame_ready", "probe", "capture", "reprobe", "finish"}

CheckAuthorization ==
  /\ shot.at \in Checked /\ shot.checked = "no"
  /\ IF shot.generation = generation
       THEN Step([shot EXCEPT !.checked = "authorized"])
       ELSE Refused

(* target_changed is no reason to try again.                               *)
CheckPage ==
  /\ shot.at \in Checked /\ shot.checked = "authorized"
  /\ IF Validates THEN Step([shot EXCEPT !.checked = "yes"])
     ELSE IF SameDocument THEN Refused
     ELSE Changed

Passed(stage) == shot.at = stage /\ shot.checked = "yes"
Then(stage) == [shot EXCEPT !.at = stage, !.checked = "no"]

(* frame_ready: no frame comes in a hidden window.                         *)
FrameReady ==
  /\ Passed("frame_ready")
  /\ \/ SameDocument /\ Step(Then("probe"))
     \/ ~SameDocument /\ Changed
     \/ Refused

ProbeLook ==
  /\ Passed("probe")
  /\ IF ~SameDocument THEN Changed
     ELSE IF ~view.maskable THEN Refused
     ELSE Step([Then("capture") EXCEPT !.before = View])

(* capture_source: the native snapshot is a callback that holds a permit.  *)
Permits == 1..MaxCallbacks \ {c.permit : c \in native}

CallNative ==
  /\ Passed("capture") /\ shot.source = "webview_native" /\ shot.call = 0
  /\ Permits # {}
  /\ LET permit == CHOOSE p \in Permits : \A q \in Permits : p <= q
     IN /\ native' = native \cup {[permit |-> permit, frame |-> NoFrame]}
        /\ shot' = [shot EXCEPT !.call = permit]
  /\ UNCHANGED <<view, artifacts, used, generation, clock, promised, trouble>>

Snapshot ==
  \E c \in native :
    /\ c.frame = NoFrame
    /\ native' = (native \ {c}) \cup {[c EXCEPT !.frame = View]}
    /\ UNCHANGED <<view, shot, artifacts, used, generation, clock, promised, trouble>>

Awaited(c) == Passed("capture") /\ c.permit = shot.call

(* finish_callback: the permit returns; the image (or NoFrame, an error)   *)
(* goes to the capture that asked for it, if it still waits.               *)
FinishCallback ==
  \E c \in native :
    /\ native' = native \ {c}
    /\ shot' = IF Awaited(c) THEN [Then("reprobe") EXCEPT !.frame = c.frame] ELSE shot
    /\ UNCHANGED <<view, artifacts, used, generation, clock, promised, trouble>>

(* native waits for eight seconds, or cannot schedule the callback.        *)
NativeTimeout ==
  /\ Passed("capture") /\ shot.call # 0
  /\ Step(Then("reprobe"))

(* The window's own image, and the renderer in the page.                   *)
CaptureOther ==
  /\ Passed("capture") /\ shot.source # "webview_native"
  /\ \/ Step([Then("reprobe") EXCEPT !.frame = View])
     \/ Step(Then("reprobe"))

(* Mutant: the second probe is asked for and not compared.                 *)
SameLookUncompared == TRUE

(* before == after                                                         *)
SameLook == [View EXCEPT !.spot = 0] = [shot.before EXCEPT !.spot = 0]

NextSource == CASE shot.source = "webview_native" -> "window_native"
                [] shot.source = "window_native" -> "dom_rendering"
                [] OTHER -> "none"

(* The probe after the image; an image that failed gives way to the next   *)
(* source of `auto`.                                                       *)
Reprobe ==
  /\ Passed("reprobe")
  /\ IF ~SameDocument \/ ~SameLook THEN Changed
     ELSE \/ shot.frame # NoFrame /\ Step(Then("finish"))
          \/ /\ shot.auto /\ NextSource # "none"
             /\ Step([Then("capture") EXCEPT !.source = NextSource, !.call = 0,
                                              !.frame = NoFrame])
          \/ ~shot.auto /\ Refused
          \/ shot.auto /\ NextSource = "none" /\ Refused

(* target_release, which may itself be refused, and the check after it.    *)
TargetRelease ==
  /\ Passed("finish")
  /\ IF shot.generation = generation
       THEN Step([shot EXCEPT !.at = "retain"])
       ELSE Refused

Kept == {a \in artifacts : a.shot = shot.number}

(* A charge to the budget, then insert: expired images leave first, live   *)
(* ones never.  Without room the caller gets the image alone.              *)
Retain ==
  /\ shot.at = "retain"
  /\ shot' = [shot EXCEPT !.at = "reply"]
  /\ LET room == Cardinality(Live(artifacts)) < Retained
         kept == IF used < Memory THEN Live(artifacts) ELSE artifacts
         new == IF used < Memory /\ room
                  THEN {[shot |-> shot.number, generation |-> shot.generation,
                         until |-> clock + ArtifactTTL]}
                  ELSE {}
     IN /\ artifacts' = kept \cup new
        /\ used' = (used + Cardinality(new)) - Cardinality(artifacts \ kept)
  /\ UNCHANGED <<view, native, generation, clock, promised, trouble>>

(* The last check: what was kept for a revoked caller is dropped with all  *)
(* else of its generation.                                                 *)
HandOut ==
  /\ shot.at = "reply"
  /\ shot' = Over
  /\ IF shot.generation = generation
       THEN /\ promised' = promised \cup Kept
            /\ UNCHANGED <<artifacts, used>>
       ELSE /\ artifacts' = {a \in artifacts : a.generation # shot.generation}
            /\ used' = used - Cardinality(artifacts \ artifacts')
            /\ UNCHANGED promised
  /\ UNCHANGED <<view, native, generation, clock, trouble>>

ShotStep ==
  \/ RequestShot \/ DropAttempts \/ Authorize \/ Bind \/ TargetBegin \/ CheckAuthorization \/ CheckPage
  \/ FrameReady \/ ProbeLook \/ CallNative \/ NativeTimeout \/ CaptureOther \/ Reprobe
  \/ TargetRelease \/ Retain \/ HandOut

Surroundings == Trouble \/ Loaded \/ Reap \/ Prune \/ Snapshot \/ FinishCallback

ShotNext == ShotStep \/ Surroundings

ShotSpec == ShotInit /\ [][ShotNext]_shotVars

-----------------------------------------------------------------------------
(* A picture that is handed out shows what its metadata say: it is of the  *)
(* bound document, its mask is of the very look it shows, everything on it *)
(* could be masked, and the element is where it was bound                  *)
(* (src/plugin/src/screenshot/mod.rs:164, "validates                       *)
(* identity/authorization around every asynchronous boundary").            *)
PicturesAreTrue ==
  shot.at = "reply" =>
    /\ shot.frame.document = shot.context
    /\ shot.frame.look = shot.before.look /\ shot.frame.maskable
    /\ shot.element => shot.frame.spot = shot.spot

(* What a caller was told is kept stays until then, also with the store    *)
(* and the budget full, pruned, and shared with others, unless its         *)
(* credential is revoked (docs/upgrade-migration.md:37); and what is kept  *)
(* is charged, within the budget.                                          *)
KeptAsPromised ==
  /\ {p \in Live(promised) : p.generation = generation} \subseteq artifacts
  /\ Cardinality(artifacts) <= used /\ used <= Memory

(* What a receipt of a screenshot says is true: of the picture it comes    *)
(* with, and of how long that is kept.                                     *)
ReceiptsAreTrue == PicturesAreTrue /\ KeptAsPromised
=============================================================================
