----------------------------- MODULE MetricLog -----------------------------
(***************************************************************************)
(* What the storage of a job promises to the engine, without queue, thread *)
(* or database: batches of metrics are stored in the order in which they   *)
(* are handed over, each once, and the report of a fault comes back only   *)
(* when all of them are stored.                                            *)
(***************************************************************************)
EXTENDS Naturals, Sequences

VARIABLES handed,    \* batches handed over so far; they are numbered
          stored,    \* the batches in the database, in order of arrival
          reporting, \* the engine waits for the report of a fault
          failed     \* the storage has thrown at the engine

vars == <<handed, stored, reporting, failed>>

Init == handed = 0 /\ stored = <<>> /\ reporting = FALSE /\ failed = FALSE

HandOver ==
  /\ ~reporting /\ ~failed
  /\ handed' = handed + 1
  /\ reporting' \in BOOLEAN
  /\ UNCHANGED <<stored, failed>>

\* The next batch is stored; with the last one, the report of a fault may end.
Store ==
  /\ Len(stored) < handed
  /\ stored' = Append(stored, Len(stored) + 1)
  /\ UNCHANGED <<handed, reporting, failed>>

ReportEnds ==
  /\ reporting /\ Len(stored) = handed
  /\ reporting' = FALSE
  /\ UNCHANGED <<handed, stored, failed>>

Fail ==
  /\ ~failed
  /\ failed' = TRUE /\ reporting' = FALSE
  /\ UNCHANGED <<handed, stored>>

Next == HandOver \/ Store \/ ReportEnds \/ Fail

Spec == Init /\ [][Next]_vars

=============================================================================
