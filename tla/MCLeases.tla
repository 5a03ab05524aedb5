----------------------------- MODULE MCLeases -----------------------------
(***************************************************************************)
(* What is held for a caller: leases (ResourceArbiter), the isolation of   *)
(* a tool call whose script its caller may no longer hear of (Tools), a    *)
(* screenshot of a page that changes under it (Screenshots) and a session  *)
(* (Sessions).  They share no variable: a behaviour is one of a single     *)
(* subject, and the others stay as they were initially.                    *)
(***************************************************************************)
EXTENDS MCResourceArbiter, Tools, Screenshots, Sessions

CONSTANTS s1, s2

VARIABLE subject  \* what this behaviour is about

leaseVars == <<subject, vars, toolVars, shotVars, sessionVars>>

(* Where the tool call is not the subject, one call stands for all.        *)
NoTool ==
  /\ request.tool = "window_focus"
  /\ monitor.covered /\ ~monitor.postMessage /\ ~monitor.android /\ ~monitor.fallback

LeasesInit ==
  /\ subject \in {"arbiter", "tool", "shot", "session"}
  /\ Init /\ ToolInit /\ ShotInit /\ SessionsInit
  /\ subject # "tool" => NoTool

LeasesNext ==
  /\ UNCHANGED subject
  /\ \/ subject = "arbiter" /\ Next /\ UNCHANGED <<toolVars, shotVars, sessionVars>>
     \/ subject = "tool" /\ ToolNext /\ UNCHANGED <<vars, shotVars, sessionVars>>
     \/ subject = "shot" /\ ShotNext /\ UNCHANGED <<vars, toolVars, sessionVars>>
     \/ subject = "session" /\ SessionsNext /\ UNCHANGED <<vars, toolVars, shotVars>>

LeasesSpec == LeasesInit /\ [][LeasesNext]_leaseVars

(* Requests are interchangeable too.                                       *)
LeasesSymmetry == Symmetry \cup Permutations({s1, s2})
=============================================================================
