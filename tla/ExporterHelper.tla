--------------------------- MODULE ExporterHelper --------------------------
(***************************************************************************)
(* What the ClickHouse exporters get from outside: exporterhelper, whose   *)
(* queue may refuse a batch and which calls a push again that failed, and a*)
(* server whose statements may fail.                                       *)
(***************************************************************************)
EXTENDS Naturals

CONSTANTS
  MaxTries,   \* pushes of one batch before exporterhelper gives up
  MaxFaults   \* bound on statements that fail and batches that are refused

ASSUME HelperAssumption == MaxTries \in Nat \ {0} /\ MaxFaults \in Nat

VARIABLE faults   \* statements that failed and batches that were refused so far

StatementFails == faults < MaxFaults /\ faults' = faults + 1

PushesAgain(push) == push.pc = "done" /\ push.failed /\ push.tries < MaxTries
=============================================================================
