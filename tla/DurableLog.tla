---------------------------- MODULE DurableLog ----------------------------
(***************************************************************************)
(* What the workflow journal promises to the run engine: a log that only   *)
(* ever grows, in which the revisions of each run increase, and which      *)
(* contains every record whose append was acknowledged, whatever crashes.  *)
(***************************************************************************)
EXTENDS Naturals, Sequences

CONSTANTS
  Record          \* [run, revision]

VARIABLES
  log,            \* the records that survive anything
  acknowledged    \* the records some caller was told are durable

vars == <<log, acknowledged>>

InOrder(records) ==
  \A i, j \in DOMAIN records :
    i < j /\ records[i].run = records[j].run
      => records[i].revision < records[j].revision

Present(record) == \E i \in DOMAIN log : log[i] = record

(* Records may become durable without anybody being told.                  *)
Extend ==
  /\ Len(log') > Len(log)
  /\ log' \in Seq(Record)
  /\ \A i \in DOMAIN log : log'[i] = log[i]
  /\ InOrder(log')

Acknowledge ==
  \E record \in Record :
    /\ Present(record)'
    /\ acknowledged' = acknowledged \cup {record}

Init == log = <<>> /\ acknowledged = {}

Next ==
  \/ Extend /\ UNCHANGED acknowledged
  \/ Acknowledge /\ (Extend \/ UNCHANGED log)

Spec == Init /\ [][Next]_vars

============================================================================
