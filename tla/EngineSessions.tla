--------------------------- MODULE EngineSessions ---------------------------
(***************************************************************************)
(* The engine's loop in the configurations that differ most, each shown to *)
(* implement the session of FaultSearch: a target that keeps running, with *)
(* periodic control iterations and data set switches, resumed in the       *)
(* middle; a target that keeps running or is restarted for every test      *)
(* case, with every run option, the second of two machines among them; a   *)
(* run without reproduction.                                               *)
(***************************************************************************)
EXTENDS Naturals, TLC

VARIABLES
  config,    \* the configuration of this run; never changes
  runMode, lifetime, pc, continueFuzzing,
  iterationCount, iterationStop, totalKnown, lastControlIteration,
  lastReproFault, firstRun, controlAfterRepro, isReplayJump,
  controlIteration, controlRecordingIteration, controlIterationAfterFault,
  faultOnPreviousIteration, faults,
  reproducingFault, reproducingInitialIteration, reproducingIterationJumpCount,
  reproducingControlIteration, reproducingControlRecordingIteration,
  lastSwitchIteration, reproFaultHeld

Controls ==
  [start |-> 3, stop |-> 28, count |-> 100, every |-> 5, back |-> 22,
   lifetimes |-> {"Session"}, norepro |-> FALSE,
   switch |-> 7, switching |-> TRUE,
   modes |-> {"fuzz"}, num |-> 1, total |-> 1]

AllOptions ==
  [Controls EXCEPT !.start = 1, !.stop = 30, !.count = 24,
                   !.lifetimes = {"Session", "Iteration"},
                   !.modes = {"fuzz", "countOnly", "singleIteration",
                              "parallel"},
                   !.num = 2, !.total = 2]

NoReproduction == [Controls EXCEPT !.norepro = TRUE]

Configs == {Controls, AllOptions, NoReproduction}

E(c) == INSTANCE EngineSearch WITH
  IterationStart <- c.start, RangeStop <- c.stop, StrategyCount <- c.count,
  ControlEvery <- c.every, MaxBackSearch <- c.back, Lifetimes <- c.lifetimes,
  DisableReproduction <- c.norepro, SwitchCount <- c.switch,
  Switching <- c.switching, RunModes <- c.modes,
  ParallelNum <- c.num, ParallelTotal <- c.total

engineVars ==
  <<runMode, lifetime, pc, continueFuzzing, iterationCount, iterationStop,
    totalKnown, lastControlIteration, lastReproFault, firstRun,
    controlAfterRepro, isReplayJump, controlIteration,
    controlRecordingIteration, controlIterationAfterFault,
    faultOnPreviousIteration, faults, reproducingFault,
    reproducingInitialIteration, reproducingIterationJumpCount,
    reproducingControlIteration, reproducingControlRecordingIteration,
    lastSwitchIteration, reproFaultHeld>>

allVars == <<config, engineVars>>

Init == \E c \in Configs : config = c /\ E(c)!Init

EngineStep ==
  \E c \in Configs : config = c /\ E(c)!EngineStep /\ UNCHANGED config

Next == \E c \in Configs : config = c /\ E(c)!Next /\ UNCHANGED config

FairSpec == Init /\ [][Next]_allVars /\ WF_allVars(EngineStep)

-----------------------------------------------------------------------------
\* Every step of the loop is a step of the session that belongs to the
\* configuration, or none: no test case is skipped or fuzzed twice because of a
\* search, searches double their windows up to the limit before they give up,
\* and never enter what was searched before.  And a search that the session has
\* begun is carried on until it ends: the engine cannot stay in one by replaying
\* windows for ever.
ImplementsSession ==
  /\ \A c \in Configs : config = c => E(c)!Search!Init
  /\ [][\A c \in Configs :
          config = c => (E(c)!Search!Next \/ UNCHANGED E(c)!Search!searchVars)
       ]_allVars
  /\ \A c \in Configs :
       (config = c /\ E(c)!SessionMode = "searching")
         ~> (E(c)!SessionMode # "searching")

=============================================================================
