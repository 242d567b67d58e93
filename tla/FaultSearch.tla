---------------------------- MODULE FaultSearch ----------------------------
(***************************************************************************)
(* What a fuzzing session promises about its test cases and about the      *)
(* search for the cause of a fault, without saying how the engine walks    *)
(* through a search (src/docs/src.pro/Common/FaultReproduction.adoc and    *)
(* what Engine.RunTest keeps between iterations).                          *)
(*                                                                         *)
(*  - the test cases are fuzzed one after the other, none twice and none   *)
(*    left out, however many searches come between;                        *)
(*  - a search looks 0, 10, 20, 40, ... test cases back, ends with the     *)
(*    fault reported, or with the longest window tried in vain;            *)
(*  - no search looks at a test case that an earlier one has covered.      *)
(***************************************************************************)
EXTENDS Integers

CONSTANTS
  First,          \* the first test case of the session, at least 1
  PartStart,      \* where the part of this machine starts
  MaxBackSearch   \* the longest way back

VARIABLES
  searchesBack,  \* never changes; FALSE if the target is restarted for every
                 \* test case
  mode,    \* "fuzzing", "searching" or "over"
  next,    \* the next test case to fuzz
  floor,   \* the last test case that is covered by a search
  fault,   \* where the fault of the current search was seen
  depth    \* how far before it the current window starts

searchVars == <<searchesBack, mode, next, floor, fault, depth>>

Smaller(a, b) == IF a < b THEN a ELSE b

\* The longest window that stays above the floor.
Limit == IF searchesBack THEN Smaller(MaxBackSearch, fault - floor - 1) ELSE 0

Init ==
  /\ searchesBack \in BOOLEAN
  /\ mode = "fuzzing" /\ next = First /\ floor = First - 1
  /\ fault = 0 /\ depth = 0

\* One of several machines goes to its part before it fuzzes anything.
TakePart ==
  /\ mode = "fuzzing" /\ next = First
  /\ next' = PartStart
  /\ UNCHANGED <<searchesBack, mode, floor, fault, depth>>

Fuzz ==
  /\ mode = "fuzzing"
  /\ next' = next + 1
  /\ UNCHANGED <<searchesBack, mode, floor, fault, depth>>

\* A fault is seen on the test case that was just fuzzed, or on a control
\* iteration before the next one.
Detect ==
  /\ mode = "fuzzing"
  /\ mode' = "searching"
  /\ fault' \in {next - 1, next} /\ fault' > floor
  /\ UNCHANGED <<searchesBack, next, floor, depth>>

Deepen ==
  /\ mode = "searching" /\ depth < Limit
  /\ depth' = Smaller(Limit, IF depth = 0 THEN 10 ELSE 2 * depth)
  /\ UNCHANGED <<searchesBack, mode, next, floor, fault>>

EndSearch ==
  /\ mode' = "fuzzing"
  /\ fault' = 0 /\ depth' = 0
  /\ UNCHANGED <<searchesBack, next>>

Report ==
  /\ mode = "searching"
  /\ floor' = next - 1
  /\ EndSearch

GiveUp ==
  /\ mode = "searching" /\ depth = Limit
  /\ floor' = IF searchesBack THEN next - 1 ELSE floor
  /\ EndSearch

\* Without reproduction a fault is reported when it is seen.
ReportAtOnce ==
  /\ mode = "fuzzing"
  /\ floor' = next - 1
  /\ UNCHANGED <<searchesBack, mode, next, fault, depth>>

\* The session ends; a test case may be cut short by the error that ends it.
Stop ==
  /\ mode # "over"
  /\ mode' = "over"
  /\ next' \in {next, next + 1}
  /\ UNCHANGED <<searchesBack, floor, fault, depth>>

Next == TakePart \/ Fuzz \/ Detect \/ Deepen \/ Report \/ GiveUp \/ ReportAtOnce
        \/ Stop

Spec == Init /\ [][Next]_searchVars

\* A search that has begun is carried on.
FairSpec == Spec /\ WF_searchVars(mode = "searching" /\ Next)

=============================================================================
