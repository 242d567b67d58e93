------------------------ MODULE OutputPhases_proofs ------------------------
(***************************************************************************)
(* The invariants of OutputPhases hold for all values of its constants.    *)
(* IInv is inductive: beside the properties themselves it says where the   *)
(* publisher is open, has a buffer and has a client with a name            *)
(* (PublisherInv), and what one phase of an action leaves to the next      *)
(* (PhaseInv).  One lemma for every action shows that it keeps IInv; it    *)
(* takes the parts of IInv one by one, and the conjuncts of a part where   *)
(* the action touches many of them.                                        *)
(***************************************************************************)
EXTENDS OutputPhases, TLAPS

-----------------------------------------------------------------------------
(* Where an exception leads.                                               *)

\* Only the message of NotInitialized is answered by a retry.
LEMMA NoRetry ==
  ASSUME NEW e, e # "uninitialized", Raise(e)
  PROVE  /\ UNCHANGED action
         /\ \/ /\ phase = "final" /\ at' = "close" /\ phase' = "end"
               /\ final' = "lost"
            \/ /\ phase # "final" /\ at' = "open" /\ phase' = "final"
               /\ final' = final
<1>1. ~Retries(e)
  BY DEF Retries
<1>2. CASE phase = "final"
  BY <1>1, <1>2 DEF Raise
<1>3. CASE phase # "final"
  BY <1>1, <1>3 DEF Raise
<1> QED
  BY <1>2, <1>3

\* It is answered so in the first phase only.
LEMMA OneRetry ==
  ASSUME phase \in {"first", "retry", "final"}, Raise("uninitialized")
  PROVE  /\ UNCHANGED action
         /\ \/ /\ phase = "first" /\ at' = "close" /\ phase' = "retry"
               /\ final' = final
            \/ /\ phase = "retry" /\ at' = "open" /\ phase' = "final"
               /\ final' = final
            \/ /\ phase = "final" /\ at' = "close" /\ phase' = "end"
               /\ final' = "lost"
<1>1. CASE phase = "first"
  BY <1>1 DEF Raise, Retries
<1>2. CASE phase = "retry"
  BY <1>2 DEF Raise, Retries
<1>3. CASE phase = "final"
  BY <1>3 DEF Raise, Retries
<1> QED
  BY <1>1, <1>2, <1>3

-----------------------------------------------------------------------------
(* One lemma for each action.                                              *)

\* The first action of an iteration starts with a closed publisher.
LEMMA BeginKeeps ==
  ASSUME IInv, Begin, UNCHANGED sendTimeout
  PROVE  IInv'
<1>1. TypeOK'
  <2>1. (PlacesOK /\ FlagsOK)'
    BY DEF Begin, StartAction, clientVars, IInv, TypeOK, PlacesOK, FlagsOK
  <2>2. CountersOK'
    BY OutputAssumption DEF Begin, StartAction, clientVars, IInv, TypeOK,
      CountersOK
  <2>3. ClientOK'
    BY DEF Begin, StartAction, clientVars, IInv, ClientOK, PublisherInv
  <2> QED
    BY <2>1, <2>2, <2>3 DEF TypeOK
<1>2. PublisherInv'
  BY DEF Begin, StartAction, clientVars, IInv, PublisherInv
<1>3. PhaseInv'
  BY DEF Begin, StartAction, PhaseInv
<1>4. (EventTellsEnd /\ FirstAtMostOnce /\ FinalIsSent)'
  BY DEF Begin, StartAction, clientVars, IInv, EventTellsEnd,
    FirstAtMostOnce, FinalIsSent, Jammed
<1> QED
  BY <1>1, <1>2, <1>3, <1>4 DEF IInv

\* A later action starts with the publisher as the one before left it.
LEMMA NextActionKeeps ==
  ASSUME IInv, NextAction, UNCHANGED sendTimeout
  PROVE  IInv'
<1>1. TypeOK'
  <2>1. (PlacesOK /\ FlagsOK)'
    BY DEF NextAction, StartAction, clientVars, IInv, TypeOK, PlacesOK,
      FlagsOK
  <2>2. CountersOK'
    BY OutputAssumption DEF NextAction, StartAction, clientVars, IInv,
      TypeOK, CountersOK, PublisherInv
  <2>3. ClientOK'
    BY DEF NextAction, StartAction, clientVars, IInv, TypeOK, ClientOK
  <2> QED
    BY <2>1, <2>2, <2>3 DEF TypeOK
<1>2. PublisherInv'
  BY DEF NextAction, StartAction, clientVars, IInv, PublisherInv, Jammed
<1>3. PhaseInv'
  BY DEF NextAction, StartAction, PhaseInv
<1>4. (EventTellsEnd /\ FirstAtMostOnce /\ FinalIsSent)'
  BY DEF NextAction, StartAction, clientVars, IInv, EventTellsEnd,
    FirstAtMostOnce, FinalIsSent, Jammed
<1> QED
  BY <1>1, <1>2, <1>3, <1>4 DEF IInv

\* An open publisher may have lost its client to a failed write.
LEMMA AlreadyOpenKeeps ==
  ASSUME IInv, AlreadyOpen, UNCHANGED sendTimeout
  PROVE  IInv'
<1>1. TypeOK'
  BY DEF AlreadyOpen, clientVars, history, IInv, TypeOK, PlacesOK,
    CountersOK, FlagsOK, ClientOK
<1>2. PublisherInv'
  BY DEF AlreadyOpen, clientVars, IInv, PublisherInv, Jammed
<1>3. PhaseInv'
  BY DEF AlreadyOpen, clientVars, history, IInv, PublisherInv, PhaseInv
<1>4. (EventTellsEnd /\ FirstAtMostOnce /\ FinalIsSent)'
  BY DEF AlreadyOpen, clientVars, history, IInv, EventTellsEnd,
    FirstAtMostOnce, FinalIsSent, Jammed
<1> QED
  BY <1>1, <1>2, <1>3, <1>4 DEF IInv

\* A refused connection leaves the publisher closed.
LEMMA RefusedKeeps ==
  ASSUME IInv, Refused, UNCHANGED sendTimeout
  PROVE  IInv'
<1>0. /\ UNCHANGED action
      /\ \/ /\ phase = "final" /\ at' = "close" /\ phase' = "end"
            /\ final' = "lost"
         \/ /\ phase # "final" /\ at' = "open" /\ phase' = "final"
            /\ final' = final
  <2>1. Raise("no connection")
    BY DEF Refused, NotConnected
  <2> QED
    BY <2>1, NoRetry
<1>1. TypeOK'
  <2>1. (PlacesOK /\ FlagsOK)'
    BY <1>0 DEF Refused, NotConnected, IInv, TypeOK, PlacesOK, FlagsOK
  <2>2. CountersOK'
    <3>1. action' \in 0..Outputs
      BY <1>0 DEF IInv, TypeOK, CountersOK
    <3>2. firstSent' \in Nat
      BY <1>0 DEF Refused, NotConnected, IInv, TypeOK, CountersOK
    <3>3. stale' \in 0..MaxStale
      BY <1>0 DEF Refused, NotConnected, IInv, TypeOK, CountersOK
    <3>4. troubles' \in 0..MaxTroubles
      <4>1. troubles < MaxTroubles /\ troubles' = troubles + 1
        BY DEF Refused
      <4>2. troubles \in 0..MaxTroubles
        BY DEF IInv, TypeOK, CountersOK
      <4> QED
        BY <4>1, <4>2, OutputAssumption
    <3> QED
      BY <3>1, <3>2, <3>3, <3>4 DEF CountersOK
  <2>3. ClientOK'
    BY <1>0 DEF Refused, NotConnected, IInv, ClientOK, PublisherInv
  <2> QED
    BY <2>1, <2>2, <2>3 DEF TypeOK
<1>2. PublisherInv'
  BY <1>0 DEF Refused, NotConnected, IInv, PublisherInv
<1>3. PhaseInv'
  BY <1>0 DEF Refused, NotConnected, IInv, PublisherInv, PhaseInv
<1>4. (EventTellsEnd /\ FirstAtMostOnce /\ FinalIsSent)'
  BY <1>0 DEF Refused, NotConnected, IInv, PhaseInv, EventTellsEnd,
    FirstAtMostOnce, FinalIsSent
<1> QED
  BY <1>1, <1>2, <1>3, <1>4 DEF IInv

\* A jammed client is named by nobody and looked for by no callback.
LEMMA JamKeeps ==
  ASSUME IInv, Jam, UNCHANGED sendTimeout
  PROVE  IInv'
<1>0. /\ UNCHANGED action
      /\ \/ /\ phase = "final" /\ at' = "close" /\ phase' = "end"
            /\ final' = "lost"
         \/ /\ phase # "final" /\ at' = "open" /\ phase' = "final"
            /\ final' = final
  <2>1. Raise("no connection")
    BY DEF Jam, NotConnected
  <2> QED
    BY <2>1, NoRetry
<1>1. TypeOK'
  <2>1. (PlacesOK /\ FlagsOK)'
    BY <1>0 DEF Jam, NotConnected, IInv, TypeOK, PlacesOK, FlagsOK
  <2>2. CountersOK'
    <3>1. action' \in 0..Outputs
      BY <1>0 DEF IInv, TypeOK, CountersOK
    <3>2. firstSent' \in Nat
      BY <1>0 DEF Jam, NotConnected, IInv, TypeOK, CountersOK
    <3>3. stale' \in 0..MaxStale
      BY <1>0 DEF Jam, NotConnected, IInv, TypeOK, CountersOK
    <3>4. troubles' \in 0..MaxTroubles
      <4>1. troubles < MaxTroubles /\ troubles' = troubles + 1
        BY DEF Jam
      <4>2. troubles \in 0..MaxTroubles
        BY DEF IInv, TypeOK, CountersOK
      <4> QED
        BY <4>1, <4>2, OutputAssumption
    <3> QED
      BY <3>1, <3>2, <3>3, <3>4 DEF CountersOK
  <2>3. ClientOK'
    BY <1>0 DEF Jam, NotConnected, IInv, ClientOK, PublisherInv
  <2> QED
    BY <2>1, <2>2, <2>3 DEF TypeOK
<1>2. PublisherInv'
  BY <1>0 DEF Jam, NotConnected, IInv, PublisherInv
<1>3. PhaseInv'
  BY <1>0 DEF Jam, NotConnected, IInv, PublisherInv, PhaseInv
<1>4. (EventTellsEnd /\ FirstAtMostOnce /\ FinalIsSent)'
  BY <1>0 DEF Jam, NotConnected, IInv, PublisherInv, EventTellsEnd,
    FirstAtMostOnce, FinalIsSent, Jammed
<1> QED
  BY <1>1, <1>2, <1>3, <1>4 DEF IInv

\* A jammed publisher stays as it is.
LEMMA StillJammedKeeps ==
  ASSUME IInv, StillJammed, UNCHANGED sendTimeout
  PROVE  IInv'
<1>0. /\ UNCHANGED action
      /\ \/ /\ phase = "final" /\ at' = "close" /\ phase' = "end"
            /\ final' = "lost"
         \/ /\ phase # "final" /\ at' = "open" /\ phase' = "final"
            /\ final' = final
  <2>1. Raise("no connection")
    BY DEF StillJammed, NotConnected
  <2> QED
    BY <2>1, NoRetry
<1>1. TypeOK'
  BY <1>0 DEF StillJammed, NotConnected, IInv, TypeOK, PlacesOK, CountersOK,
    FlagsOK, ClientOK
<1>2. PublisherInv'
  BY <1>0 DEF StillJammed, NotConnected, IInv, PublisherInv
<1>3. PhaseInv'
  BY <1>0 DEF StillJammed, NotConnected, IInv, PublisherInv, PhaseInv
<1>4. (EventTellsEnd /\ FirstAtMostOnce /\ FinalIsSent)'
  BY <1>0 DEF StillJammed, NotConnected, IInv, EventTellsEnd,
    FirstAtMostOnce, FinalIsSent, Jammed
<1> QED
  BY <1>1, <1>2, <1>3, <1>4 DEF IInv

\* A new connection is not one of the first phase, but in the first phase.
LEMMA ConnectedKeeps ==
  ASSUME IInv, Connected, UNCHANGED sendTimeout
  PROVE  IInv'
<1>1. TypeOK'
  BY DEF Connected, history, IInv, TypeOK, PlacesOK, CountersOK, FlagsOK,
    ClientOK
<1>2. PublisherInv'
  BY DEF Connected, IInv, PublisherInv, Jammed
<1>3. PhaseInv'
  BY DEF Connected, history, IInv, PhaseInv
<1>4. (EventTellsEnd /\ FirstAtMostOnce /\ FinalIsSent)'
  BY DEF Connected, history, IInv, PhaseInv, EventTellsEnd, FirstAtMostOnce,
    FinalIsSent
<1> QED
  BY <1>1, <1>2, <1>3, <1>4 DEF IInv

\* From here on the event belongs to this connection.
LEMMA StartClientKeeps ==
  ASSUME IInv, StartClient, UNCHANGED sendTimeout
  PROVE  IInv'
<1>1. TypeOK'
  <2>1. (PlacesOK /\ CountersOK)'
    BY DEF StartClient, history, IInv, TypeOK, PlacesOK, CountersOK
  <2>2. (FlagsOK /\ ClientOK)'
    BY DEF StartClient, ResetEvent, history, IInv, TypeOK, FlagsOK, ClientOK
  <2> QED
    BY <2>1, <2>2 DEF TypeOK
<1>2. PublisherInv'
  BY DEF StartClient, IInv, PublisherInv, Jammed
<1>3. PhaseInv'
  BY DEF StartClient, history, IInv, PhaseInv
<1>4. (EventTellsEnd /\ FirstAtMostOnce /\ FinalIsSent)'
  BY DEF StartClient, ResetEvent, history, IInv, EventTellsEnd,
    FirstAtMostOnce, FinalIsSent, Jammed
<1> QED
  BY <1>1, <1>2, <1>3, <1>4 DEF IInv

\* A read is scheduled only for a client that is there.
LEMMA ScheduleReadKeeps ==
  ASSUME IInv, ScheduleRead, UNCHANGED sendTimeout
  PROVE  IInv'
<1>1. TypeOK'
  <2>1. (PlacesOK /\ FlagsOK)'
    <3>1. PlacesOK'
      BY DEF ScheduleRead, history, IInv, TypeOK, PlacesOK
    <3>2. FlagsOK'
      BY DEF ScheduleRead, CloseClient, history, IInv, TypeOK, FlagsOK
    <3> QED
      BY <3>1, <3>2
  <2>2. CountersOK'
    BY DEF ScheduleRead, CloseClient, history, IInv, TypeOK, CountersOK
  <2>3. ClientOK'
    BY DEF ScheduleRead, CloseClient, IInv, TypeOK, FlagsOK, ClientOK,
      PublisherInv, Jammed
  <2> QED
    BY <2>1, <2>2, <2>3 DEF TypeOK
<1>2. PublisherInv'
  BY DEF ScheduleRead, CloseClient, IInv, PublisherInv, Jammed
<1>3. PhaseInv'
  BY DEF ScheduleRead, history, IInv, PhaseInv
<1>4. (EventTellsEnd /\ FirstAtMostOnce /\ FinalIsSent)'
  BY DEF ScheduleRead, CloseClient, history, IInv, PhaseInv, EventTellsEnd,
    FirstAtMostOnce, FinalIsSent, Jammed
<1> QED
  BY <1>1, <1>2, <1>3, <1>4 DEF IInv

\* Without a client the first phase has written nothing, so it may retry.
LEMMA NotInitializedKeeps ==
  ASSUME IInv, NotInitialized, UNCHANGED sendTimeout
  PROVE  IInv'
<1>0. /\ UNCHANGED action
      /\ \/ /\ phase = "first" /\ at' = "close" /\ phase' = "retry"
            /\ final' = final
         \/ /\ phase = "retry" /\ at' = "open" /\ phase' = "final"
            /\ final' = final
         \/ /\ phase = "final" /\ at' = "close" /\ phase' = "end"
            /\ final' = "lost"
  <2>1. phase \in {"first", "retry", "final"}
    BY DEF NotInitialized, IInv, TypeOK, PlacesOK, PhaseInv
  <2>2. Raise("uninitialized")
    BY DEF NotInitialized
  <2> QED
    BY <2>1, <2>2, OneRetry
<1>1. TypeOK'
  BY <1>0 DEF NotInitialized, clientVars, IInv, TypeOK, PlacesOK, CountersOK,
    FlagsOK, ClientOK
<1>2. PublisherInv'
  BY <1>0 DEF NotInitialized, clientVars, IInv, PublisherInv, Jammed
<1>3. PhaseInv'
  BY <1>0 DEF NotInitialized, clientVars, IInv, TypeOK, ClientOK, PhaseInv
<1>4. (EventTellsEnd /\ FirstAtMostOnce /\ FinalIsSent)'
  BY <1>0 DEF NotInitialized, clientVars, IInv, PublisherInv, PhaseInv,
    EventTellsEnd, FirstAtMostOnce, FinalIsSent
<1> QED
  BY <1>1, <1>2, <1>3, <1>4 DEF IInv

\* The first phase writes for the first time.
LEMMA BeginWriteKeeps ==
  ASSUME IInv, BeginWrite, UNCHANGED sendTimeout
  PROVE  IInv'
<1>1. TypeOK'
  BY DEF BeginWrite, clientVars, IInv, TypeOK, PlacesOK, CountersOK, FlagsOK,
    ClientOK
<1>2. PublisherInv'
  BY DEF BeginWrite, clientVars, IInv, PublisherInv, Jammed
<1>3. PhaseInv'
  BY DEF BeginWrite, IInv, PublisherInv, PhaseInv
<1>4. (EventTellsEnd /\ FirstAtMostOnce /\ FinalIsSent)'
  <2>1. EventTellsEnd'
    BY DEF BeginWrite, clientVars, IInv, EventTellsEnd, Jammed
  <2>2. FirstAtMostOnce'
    BY DEF BeginWrite, IInv, TypeOK, PlacesOK, PhaseInv, FirstAtMostOnce
  <2>3. FinalIsSent'
    BY DEF BeginWrite, IInv, PhaseInv, FinalIsSent
  <2> QED
    BY <2>1, <2>2, <2>3
<1> QED
  BY <1>1, <1>2, <1>3, <1>4 DEF IInv

\* A write ends and its phase with it.
LEMMA EndWriteKeeps ==
  ASSUME IInv, EndWrite, UNCHANGED sendTimeout
  PROVE  IInv'
<1>1. TypeOK'
  BY DEF EndWrite, Sent, clientVars, IInv, TypeOK, PlacesOK, CountersOK,
    FlagsOK, ClientOK
<1>2. PublisherInv'
  BY DEF EndWrite, Sent, clientVars, IInv, PublisherInv, Jammed
<1>3. PhaseInv'
  BY DEF EndWrite, Sent, IInv, PhaseInv
<1>4. (EventTellsEnd /\ FirstAtMostOnce /\ FinalIsSent)'
  BY DEF EndWrite, clientVars, IInv, EventTellsEnd, FirstAtMostOnce,
    FinalIsSent, Jammed
<1> QED
  BY <1>1, <1>2, <1>3, <1>4 DEF IInv

\* A write is cut off with its connection.
LEMMA CutWriteKeeps ==
  ASSUME IInv, CutWrite, UNCHANGED sendTimeout
  PROVE  IInv'
<1>1. TypeOK'
  BY DEF CutWrite, Sent, clientVars, IInv, TypeOK, PlacesOK, CountersOK,
    FlagsOK, ClientOK
<1>2. PublisherInv'
  BY DEF CutWrite, Sent, clientVars, IInv, PublisherInv, Jammed
<1>3. PhaseInv'
  BY DEF CutWrite, Sent, clientVars, IInv, TypeOK, ClientOK, PhaseInv
<1>4. (EventTellsEnd /\ FirstAtMostOnce /\ FinalIsSent)'
  BY DEF CutWrite, clientVars, IInv, PublisherInv, PhaseInv, EventTellsEnd,
    FirstAtMostOnce, FinalIsSent
<1> QED
  BY <1>1, <1>2, <1>3, <1>4 DEF IInv

\* A write that fails or times out ends the connection, and the first phase
\* without a retry.
LEMMA WriteFailsKeeps ==
  ASSUME IInv, WriteFails, UNCHANGED sendTimeout
  PROVE  IInv'
<1>0. /\ UNCHANGED action
      /\ \/ /\ phase = "final" /\ at' = "close" /\ phase' = "end"
            /\ final' = "lost"
         \/ /\ phase # "final" /\ at' = "open" /\ phase' = "final"
            /\ final' = final
  <2>1. Raise("write error")
    BY DEF WriteFails
  <2> QED
    BY <2>1, NoRetry
<1>1. TypeOK'
  <2>1. (PlacesOK /\ FlagsOK)'
    BY <1>0 DEF WriteFails, CloseClient, IInv, TypeOK, PlacesOK, FlagsOK
  <2>2. CountersOK'
    <3>1. action' \in 0..Outputs
      BY <1>0 DEF IInv, TypeOK, CountersOK
    <3>2. firstSent' \in Nat
      BY <1>0 DEF WriteFails, IInv, TypeOK, CountersOK
    <3>3. stale' \in 0..MaxStale
      <4>1. stale' = Outstanding /\ Outstanding <= MaxStale
        BY DEF WriteFails, CloseClient
      <4>2. Outstanding \in Nat
        BY OutputAssumption DEF Outstanding, IInv, TypeOK, CountersOK
      <4> QED
        BY <4>1, <4>2, OutputAssumption
    <3>4. troubles' \in 0..MaxTroubles
      BY <1>0 DEF WriteFails, IInv, TypeOK, CountersOK
    <3> QED
      BY <3>1, <3>2, <3>3, <3>4 DEF CountersOK
  <2>3. ClientOK'
    BY <1>0 DEF WriteFails, CloseClient, ClientOK
  <2> QED
    BY <2>1, <2>2, <2>3 DEF TypeOK
<1>2. PublisherInv'
  BY <1>0 DEF WriteFails, TimedOut, CloseClient, IInv, PublisherInv, Jammed
<1>3. PhaseInv'
  BY <1>0 DEF WriteFails, CloseClient, IInv, PhaseInv
<1>4. (EventTellsEnd /\ FirstAtMostOnce /\ FinalIsSent)'
  BY <1>0 DEF WriteFails, TimedOut, CloseClient, IInv, PublisherInv,
    PhaseInv, EventTellsEnd, FirstAtMostOnce, FinalIsSent
<1> QED
  BY <1>1, <1>2, <1>3, <1>4 DEF IInv

\* close() finds nothing to do.
LEMMA AlreadyClosedKeeps ==
  ASSUME IInv, AlreadyClosed, UNCHANGED sendTimeout
  PROVE  IInv'
<1>1. TypeOK'
  BY DEF AlreadyClosed, Closed, clientVars, history, IInv, TypeOK, PlacesOK,
    CountersOK, FlagsOK, ClientOK
<1>2. PublisherInv'
  BY DEF AlreadyClosed, Closed, clientVars, IInv, PublisherInv
<1>3. PhaseInv'
  BY DEF AlreadyClosed, Closed, clientVars, history, IInv, PhaseInv
<1>4. (EventTellsEnd /\ FirstAtMostOnce /\ FinalIsSent)'
  BY DEF AlreadyClosed, clientVars, history, IInv, EventTellsEnd,
    FirstAtMostOnce, FinalIsSent, Jammed
<1> QED
  BY <1>1, <1>2, <1>3, <1>4 DEF IInv

\* close() begins to wait.
LEMMA ShutdownKeeps ==
  ASSUME IInv, Shutdown, UNCHANGED sendTimeout
  PROVE  IInv'
<1>1. TypeOK'
  BY DEF Shutdown, clientVars, history, IInv, TypeOK, PlacesOK, CountersOK,
    FlagsOK, ClientOK
<1>2. PublisherInv'
  BY DEF Shutdown, clientVars, IInv, PublisherInv, Jammed
<1>3. PhaseInv'
  BY DEF Shutdown, clientVars, history, IInv, PhaseInv
<1>4. (EventTellsEnd /\ FirstAtMostOnce /\ FinalIsSent)'
  BY DEF Shutdown, clientVars, history, IInv, EventTellsEnd, FirstAtMostOnce,
    FinalIsSent, Jammed
<1> QED
  BY <1>1, <1>2, <1>3, <1>4 DEF IInv

\* The event is set, so the client is gone and the buffer may go.
LEMMA EndedKeeps ==
  ASSUME IInv, Ended, UNCHANGED sendTimeout
  PROVE  IInv'
<1>1. TypeOK'
  BY DEF Ended, DropBuffer, Closed, clientVars, history, IInv, TypeOK,
    PlacesOK, CountersOK, FlagsOK, ClientOK
<1>2. PublisherInv'
  BY DEF Ended, DropBuffer, Closed, clientVars, IInv, TypeOK, ClientOK,
    PublisherInv, EventTellsEnd
<1>3. PhaseInv'
  BY DEF Ended, DropBuffer, Closed, clientVars, history, IInv, PhaseInv
<1>4. (EventTellsEnd /\ FirstAtMostOnce /\ FinalIsSent)'
  BY DEF Ended, DropBuffer, clientVars, history, IInv, EventTellsEnd,
    FirstAtMostOnce, FinalIsSent, Jammed
<1> QED
  BY <1>1, <1>2, <1>3, <1>4 DEF IInv

\* close() has waited for long enough.
LEMMA TimeoutKeeps ==
  ASSUME IInv, Timeout, UNCHANGED sendTimeout
  PROVE  IInv'
<1>1. TypeOK'
  BY DEF Timeout, clientVars, history, IInv, TypeOK, PlacesOK, CountersOK,
    FlagsOK, ClientOK
<1>2. PublisherInv'
  BY DEF Timeout, clientVars, IInv, PublisherInv, Jammed
<1>3. PhaseInv'
  BY DEF Timeout, clientVars, history, IInv, PhaseInv
<1>4. (EventTellsEnd /\ FirstAtMostOnce /\ FinalIsSent)'
  BY DEF Timeout, clientVars, history, IInv, EventTellsEnd, FirstAtMostOnce,
    FinalIsSent, Jammed
<1> QED
  BY <1>1, <1>2, <1>3, <1>4 DEF IInv

\* The client is closed before the buffer is dropped.
LEMMA CloseAnywayKeeps ==
  ASSUME IInv, CloseAnyway, UNCHANGED sendTimeout
  PROVE  IInv'
<1>1. TypeOK'
  <2>1. (PlacesOK /\ FlagsOK)'
    <3>1. PlacesOK'
      BY DEF CloseAnyway, DropBuffer, Closed, history, IInv, TypeOK, PlacesOK
    <3>2. FlagsOK'
      BY DEF CloseAnyway, ForceClose, DropBuffer, CloseClient, clientVars,
        history, IInv, TypeOK, FlagsOK
    <3> QED
      BY <3>1, <3>2
  <2>2. CountersOK'
    BY DEF CloseAnyway, ForceClose, DropBuffer, Closed, CloseClient,
      Outstanding, clientVars, history, IInv, TypeOK, CountersOK
  <2>3. ClientOK'
    BY DEF CloseAnyway, ForceClose, CloseClient, clientVars, IInv, TypeOK,
      ClientOK
  <2> QED
    BY <2>1, <2>2, <2>3 DEF TypeOK
<1>2. PublisherInv'
  BY DEF CloseAnyway, ForceClose, DropBuffer, Closed, CloseClient,
    clientVars, IInv, TypeOK, ClientOK, PublisherInv
<1>3. PhaseInv'
  BY DEF CloseAnyway, ForceClose, DropBuffer, Closed, CloseClient,
    clientVars, history, IInv, PhaseInv
<1>4. (EventTellsEnd /\ FirstAtMostOnce /\ FinalIsSent)'
  BY DEF CloseAnyway, ForceClose, DropBuffer, CloseClient, clientVars,
    history, IInv, PublisherInv, EventTellsEnd, FirstAtMostOnce, FinalIsSent
<1> QED
  BY <1>1, <1>2, <1>3, <1>4 DEF IInv

\* The peer changes nothing of the publisher when it closes.
LEMMA PeerClosesKeeps ==
  ASSUME IInv, PeerCloses, UNCHANGED sendTimeout
  PROVE  IInv'
<1>1. TypeOK'
  BY OutputAssumption DEF PeerCloses, engineVars, clientVars, history, IInv,
    TypeOK, PlacesOK, CountersOK, FlagsOK, ClientOK
<1>2. PublisherInv'
  BY DEF PeerCloses, engineVars, clientVars, IInv, PublisherInv, Jammed
<1>3. PhaseInv'
  BY DEF PeerCloses, engineVars, history, IInv, PhaseInv
<1>4. (EventTellsEnd /\ FirstAtMostOnce /\ FinalIsSent)'
  BY DEF PeerCloses, engineVars, clientVars, history, IInv, EventTellsEnd,
    FirstAtMostOnce, FinalIsSent, Jammed
<1> QED
  BY <1>1, <1>2, <1>3, <1>4 DEF IInv

\* Nor when it resets the connection.
LEMMA PeerResetsKeeps ==
  ASSUME IInv, PeerResets, UNCHANGED sendTimeout
  PROVE  IInv'
<1>1. TypeOK'
  BY OutputAssumption DEF PeerResets, engineVars, clientVars, history, IInv,
    TypeOK, PlacesOK, CountersOK, FlagsOK, ClientOK
<1>2. PublisherInv'
  BY DEF PeerResets, engineVars, clientVars, IInv, PublisherInv, Jammed
<1>3. PhaseInv'
  BY DEF PeerResets, engineVars, history, IInv, PhaseInv
<1>4. (EventTellsEnd /\ FirstAtMostOnce /\ FinalIsSent)'
  BY DEF PeerResets, engineVars, clientVars, history, IInv, EventTellsEnd,
    FirstAtMostOnce, FinalIsSent, Jammed
<1> QED
  BY <1>1, <1>2, <1>3, <1>4 DEF IInv

\* Nor when it stops reading.
LEMMA PeerStallsKeeps ==
  ASSUME IInv, PeerStalls, UNCHANGED sendTimeout
  PROVE  IInv'
<1>1. TypeOK'
  BY OutputAssumption DEF PeerStalls, engineVars, clientVars, history, IInv,
    TypeOK, PlacesOK, CountersOK, FlagsOK, ClientOK
<1>2. PublisherInv'
  BY DEF PeerStalls, engineVars, clientVars, IInv, PublisherInv, Jammed
<1>3. PhaseInv'
  BY DEF PeerStalls, engineVars, history, IInv, PhaseInv
<1>4. (EventTellsEnd /\ FirstAtMostOnce /\ FinalIsSent)'
  BY DEF PeerStalls, engineVars, clientVars, history, IInv, EventTellsEnd,
    FirstAtMostOnce, FinalIsSent, Jammed
<1> QED
  BY <1>1, <1>2, <1>3, <1>4 DEF IInv

\* A connection that goes on is one with a client.
LEMMA PeerReadsKeeps ==
  ASSUME IInv, PeerReads, UNCHANGED sendTimeout
  PROVE  IInv'
<1>1. TypeOK'
  BY OutputAssumption DEF PeerReads, engineVars, clientVars, history, IInv,
    TypeOK, PlacesOK, CountersOK, FlagsOK, ClientOK
<1>2. PublisherInv'
  BY DEF PeerReads, engineVars, clientVars, IInv, PublisherInv, Jammed
<1>3. PhaseInv'
  BY DEF PeerReads, engineVars, history, IInv, PhaseInv
<1>4. (EventTellsEnd /\ FirstAtMostOnce /\ FinalIsSent)'
  BY DEF PeerReads, engineVars, clientVars, history, IInv, PhaseInv,
    EventTellsEnd, FirstAtMostOnce, FinalIsSent, Jammed
<1> QED
  BY <1>1, <1>2, <1>3, <1>4 DEF IInv

\* The end of a read ends its connection.
LEMMA ReadCompleteKeeps ==
  ASSUME IInv, ReadComplete, UNCHANGED sendTimeout
  PROVE  IInv'
<1>1. TypeOK'
  BY DEF ReadComplete, CloseClient, engineVars, history, IInv, TypeOK,
    PlacesOK, CountersOK, FlagsOK, ClientOK, PublisherInv
<1>2. PublisherInv'
  BY DEF ReadComplete, CloseClient, engineVars, IInv, PublisherInv, Jammed
<1>3. PhaseInv'
  BY DEF ReadComplete, engineVars, history, IInv, TypeOK, ClientOK, PhaseInv
<1>4. (EventTellsEnd /\ FirstAtMostOnce /\ FinalIsSent)'
  BY DEF ReadComplete, CloseClient, history, IInv, PublisherInv,
    EventTellsEnd, FirstAtMostOnce, FinalIsSent
<1> QED
  BY <1>1, <1>2, <1>3, <1>4 DEF IInv

\* A late callback ends a connection that is not its own.
LEMMA StaleCompleteKeeps ==
  ASSUME IInv, StaleComplete, UNCHANGED sendTimeout
  PROVE  IInv'
<1>1. TypeOK'
  <2>1. (PlacesOK /\ FlagsOK)'
    <3>1. PlacesOK'
      BY DEF StaleComplete, engineVars, history, IInv, TypeOK, PlacesOK
    <3>2. FlagsOK'
      BY DEF StaleComplete, CloseClient, history, IInv, TypeOK, FlagsOK
    <3> QED
      BY <3>1, <3>2
  <2>2. CountersOK'
    BY OutputAssumption DEF StaleComplete, CloseClient, Outstanding,
      engineVars, history, IInv, TypeOK, CountersOK
  <2>3. ClientOK'
    BY DEF StaleComplete, CloseClient, IInv, TypeOK, ClientOK
  <2> QED
    BY <2>1, <2>2, <2>3 DEF TypeOK
<1>2. PublisherInv'
  BY DEF StaleComplete, CloseClient, engineVars, IInv, PublisherInv, Jammed
<1>3. PhaseInv'
  BY DEF StaleComplete, engineVars, history, IInv, PhaseInv
<1>4. (EventTellsEnd /\ FirstAtMostOnce /\ FinalIsSent)'
  BY DEF StaleComplete, CloseClient, history, IInv, EventTellsEnd,
    FirstAtMostOnce, FinalIsSent, Jammed
<1> QED
  BY <1>1, <1>2, <1>3, <1>4 DEF IInv

-----------------------------------------------------------------------------
(* The induction.                                                          *)

\* The publisher starts without a connection, its event set.
LEMMA InitIInv == Init => IInv
<1> SUFFICES ASSUME Init PROVE IInv
  OBVIOUS
<1>1. PlacesOK /\ FlagsOK /\ ClientOK
  BY DEF Init, PlacesOK, FlagsOK, ClientOK
<1>2. CountersOK
  BY OutputAssumption DEF Init, CountersOK
<1>3. PublisherInv /\ PhaseInv
  BY DEF Init, PublisherInv, PhaseInv, Jammed
<1>4. EventTellsEnd /\ FirstAtMostOnce /\ FinalIsSent
  BY DEF Init, EventTellsEnd, FirstAtMostOnce, FinalIsSent
<1> QED
  BY <1>1, <1>2, <1>3, <1>4 DEF IInv, TypeOK

\* Nothing happens.
LEMMA StutterKeeps ==
  ASSUME IInv, UNCHANGED vars
  PROVE  IInv'
  BY DEF vars, engineVars, clientVars, history, IInv, TypeOK, PlacesOK,
         CountersOK, FlagsOK, ClientOK, PublisherInv, PhaseInv,
         EventTellsEnd, FirstAtMostOnce, FinalIsSent, Jammed

\* No step of the engine, the peer or the pool breaks the invariant.
LEMMA NextIInv == IInv /\ [Next]_vars => IInv'
<1> SUFFICES ASSUME IInv, [Next]_vars PROVE IInv'
  OBVIOUS
<1>1. CASE Engine
  <2>1. UNCHANGED sendTimeout
    BY <1>1 DEF Engine
  <2>2. CASE Begin \/ NextAction
    BY <2>1, <2>2, BeginKeeps, NextActionKeeps
  <2>3. CASE Open
    BY <2>1, <2>3, AlreadyOpenKeeps, RefusedKeeps, JamKeeps, StillJammedKeeps,
       ConnectedKeeps, StartClientKeeps, ScheduleReadKeeps
    DEF Open
  <2>4. CASE Output
    BY <2>1, <2>4, NotInitializedKeeps, BeginWriteKeeps, EndWriteKeeps,
       CutWriteKeeps, WriteFailsKeeps
    DEF Output
  <2>5. CASE Close
    BY <2>1, <2>5, AlreadyClosedKeeps, ShutdownKeeps, EndedKeeps, TimeoutKeeps,
       CloseAnywayKeeps
    DEF Close
  <2> QED
    BY <1>1, <2>2, <2>3, <2>4, <2>5 DEF Engine
<1>2. CASE Peer
  BY <1>2, PeerClosesKeeps, PeerResetsKeeps, PeerStallsKeeps, PeerReadsKeeps
  DEF Peer
<1>3. CASE Pool
  BY <1>3, ReadCompleteKeeps, StaleCompleteKeeps DEF Pool
<1>4. CASE UNCHANGED vars
  BY <1>4, StutterKeeps
<1> QED
  BY <1>1, <1>2, <1>3, <1>4 DEF Next

-----------------------------------------------------------------------------
(* The properties.                                                         *)

\* The inductive invariant holds in every state of the two-phase output.
THEOREM Invariance == Spec => []IInv
<1> QED
  BY InitIInv, NextIInv, PTL DEF Spec

\* The variables have their types, and only a named client is being read.
THEOREM TypeCorrect == Spec => []TypeOK
<1>1. IInv => TypeOK
  BY DEF IInv
<1> QED
  BY Invariance, <1>1, PTL

\* What the peer does to the connection of the first phase costs no final
\* data, but for a failed write and a jammed client (SendOutputMessage, OnRun).
THEOREM FinalDataSent == Spec => []FinalIsSent
<1>1. IInv => FinalIsSent
  BY DEF IInv
<1> QED
  BY Invariance, <1>1, PTL

\* The retry of TwoPhaseRandomStrategy.cs:658 never repeats a write.
THEOREM FirstDataOnce == Spec => []FirstAtMostOnce
<1>1. IInv => FirstAtMostOnce
  BY DEF IInv
<1> QED
  BY Invariance, <1>1, PTL

\* The final data never goes over a connection that the first attempt of
\* SendOutputMessage used; of the retry's connection this says nothing
\* (TwoPhaseRandomStrategy.cs:651-668).
THEOREM FinalDataFresh == Spec => []FinalIsFresh
<1>1. IInv => FinalIsFresh
  BY DEF IInv, PhaseInv, FinalIsFresh
<1> QED
  BY Invariance, <1>1, PTL

\* OnClose leaves nothing of the connection to the next iteration.
THEOREM NothingLeft == Spec => []NothingIsLeft
<1>1. IInv => NothingIsLeft
  BY DEF IInv, TypeOK, FlagsOK, ClientOK, PublisherInv, Jammed, NothingIsLeft
<1> QED
  BY Invariance, <1>1, PTL

\* OnReadComplete always finds the buffer it appends to.
THEOREM ReadsHaveBuffer == Spec => []ReadHasBuffer
<1>1. IInv => ReadHasBuffer
  BY DEF IInv, PublisherInv, ReadHasBuffer
<1> QED
  BY Invariance, <1>1, PTL

\* OnClose never takes the end of an earlier connection for that of this one.
THEOREM EventIsOfThisEnd == Spec => []EventTellsEnd
<1>1. IInv => EventTellsEnd
  BY DEF IInv
<1> QED
  BY Invariance, <1>1, PTL

=============================================================================
