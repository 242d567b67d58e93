------------------------- MODULE RemoteAgent_proofs -------------------------
(***************************************************************************)
(* The invariants of RemoteAgent hold for all values of its constants:     *)
(* however many monitors an agent has, and however often requests, the     *)
(* server and the machine fail. IInv is inductive. Beside the properties   *)
(* it says what the client knows at each place of the engine (ClientInv),  *)
(* what there is on the server (ContextInv, PublisherInv), how far a       *)
(* reconnect has come (RejoinInv), where a fault may wait (HitInv), why    *)
(* the agent may be offline (OfflineInv), and that a context that will be  *)
(* given up is owed to a request that failed before it (StrayInv). One     *)
(* lemma for every action shows that it keeps IInv.                        *)
(***************************************************************************)
EXTENDS RemoteAgent, TLAPS

-----------------------------------------------------------------------------
(* Facts about the operators.                                              *)

\* The remote agent is left first.
LEMMA LeavingFacts ==
  After("disconnect") = "stop vm" /\ After("stop vm") = "over"
<1>1. /\ LeavingOrder[1] = "disconnect" /\ LeavingOrder[2] = "stop vm"
      /\ LeavingOrder[3] = "over"
  BY DEF LeavingOrder
<1>. \A i \in 1..2 : i = 1 \/ i = 2
  OBVIOUS
<1>2. (CHOOSE i \in 1..2 : LeavingOrder[i] = "disconnect") = 1
  <2>1. \A i \in 1..2 : LeavingOrder[i] = "disconnect" <=> i = 1
    BY <1>1
  <2>2. 1 \in 1..2
    OBVIOUS
  <2> QED
    BY <2>1, <2>2
<1>3. (CHOOSE i \in 1..2 : LeavingOrder[i] = "stop vm") = 2
  <2>1. \A i \in 1..2 : LeavingOrder[i] = "stop vm" <=> i = 2
    BY <1>1
  <2>2. 2 \in 1..2
    OBVIOUS
  <2> QED
    BY <2>1, <2>2
<1>4. 1 + 1 = 2 /\ 1 + 2 = 3
  OBVIOUS
<1> QED
  BY <1>1, <1>2, <1>3, <1>4 DEF After

\* No context at all counts as a context without monitors.
LEMMA GoneIsContext == Gone \in Context
  BY AgentAssumption DEF Gone, Context

\* A context with everything in it.
LEMMA CompleteContext ==
  ASSUME NEW c \in Context, c.live, c.monitors = Monitors, c.session
  PROVE  c = Complete
<1>1. c = [live |-> c.live, monitors |-> c.monitors, session |-> c.session]
  BY DEF Context
<1>2. c.live = TRUE /\ c.session = TRUE
  OBVIOUS
<1> QED
  BY <1>1, <1>2 DEF Complete

\* What Count counts: every request that fails makes room for one more stray
\* context.
LEMMA CountFacts ==
  ASSUME IInv, NEW r, Count(r), r \in Glitch => glitches < MaxGlitches,
         r \in Refusal => refusals < MaxRefusals
  PROVE  /\ glitches' \in 0..MaxGlitches /\ refusals' \in 0..MaxRefusals
         /\ crashes' \in 0..MaxCrashes
         /\ stray \in Nat /\ stray <= glitches + refusals
         /\ glitches + refusals \in Nat /\ glitches' + refusals' \in Nat
         /\ glitches' + refusals' >= glitches + refusals
         /\ r \in Glitch \cup Refusal
              => glitches' + refusals' > glitches + refusals
         /\ r \in Glitch /\ Owed => stray + 2 <= glitches' + refusals'
<1> /\ glitches \in 0..MaxGlitches /\ refusals \in 0..MaxRefusals
    /\ crashes \in 0..MaxCrashes
    /\ stray \in 0..(glitches + refusals)
    /\ Owed => stray < glitches + refusals
  BY DEF IInv, TypeOK, CountersOK, StrayInv
<1>1. CASE r \in Glitch
  <2> r \notin Refusal
    BY <1>1 DEF Glitch, Refusal
  <2> QED
    BY <1>1, AgentAssumption DEF Count
<1>2. CASE r \in Refusal
  <2> r \notin Glitch
    BY <1>2 DEF Glitch, Refusal
  <2> QED
    BY <1>2, AgentAssumption DEF Count
<1>3. CASE r \notin Glitch \cup Refusal
    BY <1>3 DEF Count
<1> QED
  BY <1>1, <1>2, <1>3

-----------------------------------------------------------------------------
\* Nobody is connected, and nothing has failed.
LEMMA InitIInv ==
  ASSUME Init
  PROVE  IInv
<1>1. at \in Places /\ EngineFlags
  BY DEF Init, Places, EngineFlags
<1>2. AgentFlags /\ HistoryFlags
  BY DEF Init, AgentFlags, HistoryFlags
<1>3. current \in Context
  BY GoneIsContext DEF Init
<1>4. CountersOK
  BY AgentAssumption DEF Init, CountersOK
<1>5. StrayInv
  BY DEF Init, StrayInv, Owed
<1>6. ClientInv /\ ContextInv
  BY DEF Init, ClientInv, ContextInv, Connecting, Gone, Iterating, Rejoining
<1>7. PublisherInv /\ RejoinInv /\ OfflineInv
  BY DEF Init, PublisherInv, RejoinInv, OfflineInv, Rejoining
<1>8. HitInv /\ IterationIsMonitored /\ OutputArrives /\ FaultIsRecorded
  BY DEF Init, HitInv, IterationIsMonitored, OutputArrives, FaultIsRecorded
<1> QED
  BY <1>1, <1>2, <1>3, <1>4, <1>5, <1>6, <1>7, <1>8 DEF IInv, TypeOK

\* The log sink opens, or the agent has not come up.
LEMMA StartSinkKeeps ==
  ASSUME IInv, StartSink
  PROVE  IInv'
<1>1. at' \in Places /\ EngineFlags'
  BY DEF StartSink, Fails, Proceed, Thrown, GoTo, engineVars, IInv, TypeOK,
    Places, EngineFlags
<1>2. AgentFlags' /\ HistoryFlags'
  BY DEF StartSink, Fails, Proceed, Thrown, GoTo, Refusal, Connecting,
    engineVars, clientVars, contextVars, monitorVars, IInv, TypeOK, AgentFlags,
    HistoryFlags
<1>3. current' \in Context
  BY DEF StartSink, contextVars, IInv, TypeOK
<1>4. CountersOK'
  <2>1. /\ UNCHANGED <<asked, stray, glitches, crashes>>
        /\ \/ refusals' = refusals
           \/ refusals' = refusals + 1 /\ refusals < MaxRefusals
    BY DEF StartSink, clientVars, contextVars
  <2> QED
    BY <2>1, AgentAssumption DEF IInv, TypeOK, CountersOK
<1>5. StrayInv'
  <2>1. Owed' => Owed
    BY DEF StartSink, contextVars, Owed, Ending, Rejoining
  <2>2. /\ stray' = stray /\ glitches' = glitches
        /\ refusals' = refusals \/ refusals' = refusals + 1
    BY DEF StartSink, contextVars
  <2> QED
    BY <2>1, <2>2 DEF IInv, StrayInv, TypeOK, CountersOK
<1>6. ClientInv' /\ ContextInv'
  BY DEF StartSink, Fails, Proceed, Thrown, GoTo, Connecting, clientVars,
    contextVars, IInv, ClientInv, ContextInv, Connecting, Iterating, Rejoining
<1>7. PublisherInv' /\ RejoinInv' /\ OfflineInv'
  BY DEF StartSink, GoTo, IInv, PublisherInv, RejoinInv, OfflineInv, ClientInv,
    Rejoining, Ending
<1>8. HitInv'
  <2>1. ~hit /\ ~aborting
    BY DEF StartSink, IInv, HitInv, Ending
  <2>2. ~hit' /\ (aborting' => at' = "finish")
    BY <2>1 DEF StartSink, Fails, Proceed, Thrown, GoTo, engineVars,
      monitorVars
  <2> QED
    BY <2>2 DEF HitInv
<1>9. IterationIsMonitored' /\ OutputArrives' /\ FaultIsRecorded'
  BY DEF StartSink, GoTo, IterationIsMonitored, OutputArrives, FaultIsRecorded
<1> QED
  BY <1>1, <1>2, <1>3, <1>4, <1>5, <1>6, <1>7, <1>8, <1>9 DEF IInv, TypeOK

\* A context for all monitors; the one before it is left behind.
LEMMA PostKeeps ==
  ASSUME IInv, Post
  PROVE  IInv'
<1>1. PICK r \in ServerResults(TRUE, IF asked > 0 THEN Refusal ELSE {}) :
       /\ Count(r)
       /\ offline' = OfflineAfter(r)
       /\ known' = (r \in Answered)
       /\ stray' = stray + LeftBehind(r)
       /\ halfway' = (halfway \/ r \in Refusal)
       /\ IF r \in Answered
            THEN /\ current' = [live |-> TRUE, monitors |-> asked,
                                session |-> asked > 0]
                 /\ messages' = (asked > 0)
                 /\ GoTo(IF Connecting THEN "monitors" ELSE "rejoin")
            ELSE current' = Gone /\ Fails(r) /\ UNCHANGED messages
  BY DEF Post
<1>2. /\ r \in {"ok", "down"} \cup Glitch \cup Refusal
      /\ r \in Glitch => glitches < MaxGlitches
      /\ r \in Refusal => refusals < MaxRefusals /\ asked > 0
      /\ r = "down" => ~up
  BY <1>1 DEF ServerResults, Glitch, Refusal
<1>3. CountersOK' /\ StrayInv'
  <2>1. current.live => Owed
    BY DEF Post, IInv, ClientInv, Owed, Ending, Gone
  <2>2. ~Owed'
    <3>1. CASE r \in Answered
      BY <1>1, <3>1 DEF Post, IInv, ClientInv, Owed, Rejoining, OfflineAfter,
        Answered, Broken, GoTo
    <3>2. CASE r \notin Answered
      BY <1>1, <3>2 DEF Owed, Gone
    <3> QED
      BY <3>1, <3>2
  <2>3. stray' \in Nat /\ stray' <= glitches' + refusals'
    <3>1. CASE r \in Executed \ {"ok"}
      <4>1. r \in Glitch
        BY <3>1 DEF Executed, Glitch
      <4> QED
        BY <1>1, <1>2, <2>1, <3>1, <4>1, CountFacts DEF LeftBehind
    <3>2. CASE r \notin Executed \ {"ok"}
      BY <1>1, <1>2, <2>1, <3>2, CountFacts DEF LeftBehind, IInv, StrayInv
    <3> QED
      BY <3>1, <3>2
  <2> QED
    BY <2>3, <2>2, <1>1, <1>2, CountFacts DEF CountersOK, StrayInv, Post, IInv,
      TypeOK
<1>4. current' \in Context
  <2>1. CASE r \in Answered
    <3>1. current' = [live |-> TRUE, monitors |-> asked, session |-> asked > 0]
      BY <1>1, <2>1
    <3>2. asked \in 0..Monitors /\ (asked > 0) \in BOOLEAN
      BY DEF IInv, TypeOK, CountersOK
    <3> QED
      BY <3>1, <3>2 DEF Context
  <2>2. CASE r \notin Answered
    BY <1>1, <2>2, GoneIsContext
  <2> QED
    BY <2>1, <2>2
<1>5. AgentFlags'
  <2>1. (messages \in BOOLEAN)'
    <3>1. messages' = messages \/ messages' = (asked > 0)
      BY <1>1
    <3>2. (asked > 0) \in BOOLEAN
      OBVIOUS
    <3> QED
      BY <3>1, <3>2 DEF IInv, TypeOK, AgentFlags
  <2>2. (known \in BOOLEAN /\ offline \in BOOLEAN)'
    BY <1>1 DEF OfflineAfter
  <2> QED
    BY <2>1, <2>2 DEF Post, IInv, TypeOK, AgentFlags
<1>6. ClientInv'
  <2>1. CASE r \in Answered
    <3>1. /\ known' /\ ~offline' /\ messages' = (asked > 0)
          /\ UNCHANGED <<asked, published>>
          /\ at' = IF Connecting THEN "monitors" ELSE "rejoin"
      BY <1>1, <2>1 DEF Post, GoTo, OfflineAfter, Answered, Broken
    <3> QED
      BY <3>1, <2>1 DEF Post, Connecting, ClientInv, IInv, TypeOK, CountersOK,
        Iterating, Rejoining
  <2>2. CASE r \notin Answered
    BY <1>1, <1>2, <2>2 DEF Post, Fails, Proceed, Thrown, GoTo, OfflineAfter,
      Answered, Glitch, Broken, ClientInv, IInv, Iterating, Rejoining
  <2> QED
    BY <2>1, <2>2
<1>7. ContextInv'
  <2>1. CASE r \in Answered
    BY <1>1, <1>2, <2>1, AgentAssumption DEF Post, ServerResults, GoTo,
      Connecting, Answered, ClientInv, ContextInv, Complete, IInv, TypeOK,
      AgentFlags, Iterating, Rejoining
  <2>2. CASE r \notin Answered
    BY <1>1, <2>2 DEF Post, ContextInv, Gone, IInv
  <2> QED
    BY <2>1, <2>2
<1>8. PublisherInv'
  <2>1. CASE r \in Answered
    BY <1>1, <2>1 DEF GoTo, PublisherInv, Iterating
  <2>2. CASE r \notin Answered
    BY <1>1, <2>2 DEF PublisherInv, Gone
  <2> QED
    BY <2>1, <2>2
<1>9. RejoinInv'
  <2>1. CASE r \in Answered
    BY <1>1, <2>1 DEF Post, ServerResults, Answered, GoTo, RejoinInv
  <2>2. CASE r \notin Answered
    BY <1>1, <2>2 DEF Fails, Proceed, Thrown, GoTo, RejoinInv, Rejoining
  <2> QED
    BY <2>1, <2>2
<1>10. at' \in Places /\ EngineFlags'
  BY <1>1 DEF Fails, Proceed, Thrown, GoTo, engineVars, IInv, TypeOK,
    EngineFlags, Places
<1>11. HistoryFlags'
  BY <1>1 DEF Post, Count, IInv, TypeOK, HistoryFlags
<1>12. OfflineInv'
  <2>1. CASE r \in Answered
    BY <1>1, <2>1 DEF GoTo, OfflineInv, OfflineAfter, Answered, Broken
  <2>2. CASE r \notin Answered
    <3>1. ~current'.live
      BY <1>1, <2>2 DEF Gone
    <3> QED
      BY <3>1 DEF OfflineInv
  <2> QED
    BY <2>1, <2>2
<1>13. HitInv'
  <2>1. ~aborting' \/ at' = "finish"
    BY <1>1 DEF Post, Fails, Proceed, Thrown, GoTo, engineVars, IInv, HitInv,
      Ending
  <2> QED
    BY <2>1 DEF Post, HitInv
<1>14. IterationIsMonitored' /\ OutputArrives' /\ FaultIsRecorded'
  <2>1. at' \in {"run", "finish"} => disturbed'
    <3>1. CASE r = "down"
      BY <3>1, <1>1, <1>2 DEF Post, Count, IInv, RejoinInv
    <3>2. CASE r \in Answered
      BY <3>2, <1>1 DEF GoTo
    <3>3. CASE r \notin Answered \cup {"down"}
      BY <3>3, <1>1, <1>2 DEF Count, Answered, Glitch
    <3> QED
      BY <3>1, <3>2, <3>3
  <2> QED
    BY <2>1 DEF Post, IterationIsMonitored, OutputArrives, FaultIsRecorded
<1> QED
  BY <1>3, <1>4, <1>5, <1>6, <1>7, <1>8, <1>9, <1>10, <1>11, <1>12, <1>13, <1>14
    DEF IInv, TypeOK

\* The new context sees the start of the iteration.
LEMMA RejoinKeeps ==
  ASSUME IInv, Rejoin
  PROVE  IInv'
<1>1. at' \in Places /\ EngineFlags'
  BY DEF Rejoin, Count, MarkOffline, Thrown, Proceed, GoTo, engineVars, IInv,
    TypeOK, Places, EngineFlags
<1>2. AgentFlags' /\ HistoryFlags'
  BY DEF Rejoin, Count, MarkOffline, clientVars, IInv, TypeOK, AgentFlags,
    HistoryFlags
<1>3. current' \in Context
  BY DEF Rejoin, contextVars, IInv, TypeOK
<1>4. CountersOK'
  BY CountFacts DEF Rejoin, AgentResults, Results, ServerResults, Glitch,
    Thrown, Proceed, clientVars, contextVars, IInv, TypeOK, CountersOK
<1>5. StrayInv'
  <2>1. PICK r \in IF messages THEN AgentResults(Refusal) ELSE {"ok"} :
          /\ Count(r) /\ MarkOffline(r)
          /\ Proceed(r, IF r \in Answered THEN "republish" ELSE "run")
    BY DEF Rejoin
  <2>2. /\ r \in Glitch => glitches < MaxGlitches
        /\ r \in Refusal => refusals < MaxRefusals
    BY <2>1 DEF AgentResults, Results, ServerResults, Glitch, Refusal
  <2>3. current.live => r \in {"ok"} \cup Glitch \cup Refusal
    BY <2>1 DEF Rejoin, AgentResults, Results, ServerResults, IInv, ClientInv,
      ContextInv, Gone, Rejoining
  <2>4. r = "ok" => ~offline' /\ Rejoining'
    BY <2>1 DEF Rejoin, MarkOffline, Broken, Answered, Refusal, Proceed, GoTo,
      IInv, ClientInv, Rejoining
  <2>5. stray' = stray /\ (Owed' => Owed \/ r \in Glitch \cup Refusal)
    BY <2>3, <2>4 DEF Rejoin, contextVars, Owed
  <2> QED
    BY <2>1, <2>2, <2>5, CountFacts DEF IInv, StrayInv
<1>6. ClientInv' /\ ContextInv'
  BY DEF Rejoin, MarkOffline, Answered, Broken, Thrown, Proceed, GoTo,
    clientVars, contextVars, IInv, ClientInv, ContextInv, Rejoining
<1>7. PublisherInv' /\ RejoinInv' /\ OfflineInv'
  BY DEF Rejoin, Count, MarkOffline, AgentResults, Results, ServerResults,
    Glitch, Refusal, Executed, Answered, Broken, Proceed, GoTo, contextVars,
    IInv, PublisherInv, RejoinInv, OfflineInv, ClientInv, Iterating, Rejoining
<1>8. HitInv' /\ IterationIsMonitored' /\ OutputArrives' /\ FaultIsRecorded'
  BY DEF Rejoin, Count, AgentResults, Results, ServerResults, Glitch, Answered,
    Thrown, Proceed, GoTo, engineVars, IInv, HitInv, ClientInv, RejoinInv,
    IterationIsMonitored, OutputArrives, FaultIsRecorded, Rejoining, Ending
<1> QED
  BY <1>1, <1>2, <1>3, <1>4, <1>5, <1>6, <1>7, <1>8 DEF IInv, TypeOK

\* The publisher is created again.
LEMMA RepublishKeeps ==
  ASSUME IInv, Republish
  PROVE  IInv'
<1>1. at' \in Places /\ EngineFlags'
  BY DEF Republish, Thrown, Proceed, GoTo, engineVars, IInv, TypeOK, Places,
    EngineFlags
<1>2. AgentFlags' /\ HistoryFlags'
  BY DEF Republish, Count, MarkOffline, clientVars, monitorVars, IInv, TypeOK,
    AgentFlags, HistoryFlags
<1>3. current' \in Context
  BY DEF Republish, contextVars, IInv, TypeOK
<1>4. CountersOK'
  BY CountFacts DEF Republish, Results, ServerResults, Glitch, Thrown, Proceed,
    clientVars, contextVars, IInv, TypeOK, CountersOK
<1>5. StrayInv'
  <2>1. PICK r \in IF published THEN Results(TRUE, Refusal) ELSE {"ok"} :
          /\ Count(r) /\ MarkOffline(r)
          /\ publisher' = (published /\ r \in Answered)
    BY DEF Republish
  <2>2. /\ r \in Glitch => glitches < MaxGlitches
        /\ r \in Refusal => refusals < MaxRefusals
    BY <2>1 DEF Results, ServerResults, Glitch, Refusal
  <2>3. current.live => r \in {"ok"} \cup Glitch \cup Refusal
    BY <2>1 DEF Republish, Results, ServerResults, IInv, ClientInv, ContextInv,
      Gone, Rejoining
  <2>4. r = "ok" => ~offline' /\ publisher' = published
    BY <2>1 DEF Republish, MarkOffline, Broken, Answered, IInv, TypeOK,
      AgentFlags, ClientInv, Rejoining
  <2>5. stray' = stray /\ (Owed' => Owed \/ r \in Glitch \cup Refusal)
    BY <2>3, <2>4 DEF Republish, contextVars, Owed
  <2> QED
    BY <2>1, <2>2, <2>5, CountFacts DEF IInv, StrayInv
<1>6. ClientInv' /\ ContextInv'
  BY DEF Republish, Results, ServerResults, Answered, Thrown, Proceed, GoTo,
    clientVars, contextVars, IInv, ClientInv, ContextInv, Rejoining
<1>7. PublisherInv' /\ RejoinInv' /\ OfflineInv'
  BY DEF Republish, Count, MarkOffline, Results, ServerResults, Glitch,
    Answered, Broken, Proceed, GoTo, IInv, PublisherInv, RejoinInv, OfflineInv,
    ClientInv, Rejoining
<1>8. HitInv' /\ IterationIsMonitored' /\ OutputArrives' /\ FaultIsRecorded'
  BY DEF Republish, Count, MarkOffline, Results, ServerResults, Glitch, Broken,
    Thrown, Proceed, GoTo, engineVars, contextVars, monitorVars, IInv, HitInv,
    ClientInv, ContextInv, RejoinInv, IterationIsMonitored, OutputArrives,
    FaultIsRecorded, Rejoining, Ending
<1> QED
  BY <1>1, <1>2, <1>3, <1>4, <1>5, <1>6, <1>7, <1>8 DEF IInv, TypeOK

\* One monitor more.
LEMMA StartMonitorKeeps ==
  ASSUME IInv, StartMonitor
  PROVE  IInv'
<1>1. at' \in Places /\ EngineFlags'
  BY DEF StartMonitor, GoTo, engineVars, IInv, TypeOK, Places, EngineFlags
<1>2. AgentFlags' /\ HistoryFlags'
  BY DEF StartMonitor, Count, MarkOffline, MessagesAfter, monitorVars, IInv,
    TypeOK, AgentFlags, HistoryFlags
<1>3. current' \in Context
  <2>1. \/ current' = current
        \/ current' = [current EXCEPT !.monitors = @ + 1] /\ current.live
    BY DEF StartMonitor, IsDuplicate, AgentResults, Results, ServerResults,
      Executed
  <2>2. current.live => current.monitors + 1 \in 0..Monitors
    BY AgentAssumption DEF StartMonitor, IInv, TypeOK, CountersOK, ContextInv
  <2> QED
    BY <2>1, <2>2 DEF Context, IInv, TypeOK
<1>4. CountersOK'
  BY AgentAssumption, CountFacts DEF StartMonitor, AgentResults, Results,
    ServerResults, Glitch, Refusal, IInv, TypeOK, CountersOK
<1>5. StrayInv'
  BY DEF StartMonitor, MarkOffline, Answered, Broken, GoTo, IInv, StrayInv,
    Owed, ClientInv, Ending
<1>6. ClientInv'
    BY DEF StartMonitor, MarkOffline, GoTo, MessagesAfter, IsDuplicate,
      ClientInv, IInv, Answered, Broken, Iterating, Rejoining
<1>7. ContextInv'
  <2>1. \/ /\ current' = current /\ at' = "end"
           /\ UNCHANGED <<up, known, publisher>>
        \/ /\ current' = [current EXCEPT !.monitors = @ + 1] /\ current.live
           /\ up' /\ known'
           /\ at' \in {"monitors", "end"} /\ asked' = asked + 1
    BY DEF StartMonitor, IsDuplicate, GoTo, AgentResults, Results,
      ServerResults, Executed, Answered
  <2>2. CASE /\ current' = current /\ at' = "end"
             /\ UNCHANGED <<up, known, publisher>>
    BY <2>2 DEF ContextInv, IInv, Iterating, Rejoining
  <2>3. CASE /\ current' = [current EXCEPT !.monitors = @ + 1] /\ current.live
           /\ up' /\ known'
           /\ at' \in {"monitors", "end"} /\ asked' = asked + 1
    BY <2>3 DEF StartMonitor, IInv, TypeOK, Context, ContextInv, Iterating,
      Rejoining
  <2> QED
    BY <2>1, <2>2, <2>3
<1>8. PublisherInv' /\ RejoinInv' /\ OfflineInv'
  BY DEF StartMonitor, Count, MarkOffline, AgentResults, Results,
    ServerResults, Glitch, Broken, GoTo, IInv, TypeOK, PublisherInv, RejoinInv,
    OfflineInv, ClientInv, ContextInv, HistoryFlags, Gone, Rejoining
<1>9. HitInv' /\ IterationIsMonitored' /\ OutputArrives' /\ FaultIsRecorded'
  BY DEF StartMonitor, GoTo, engineVars, monitorVars, IInv, HitInv,
    IterationIsMonitored, OutputArrives, FaultIsRecorded, Ending
<1> QED
  BY <1>1, <1>2, <1>3, <1>4, <1>5, <1>6, <1>7, <1>8, <1>9 DEF IInv, TypeOK

\* The session begins with all monitors.
LEMMA SessionStartingKeeps ==
  ASSUME IInv, SessionStarting
  PROVE  IInv'
<1>1. at' \in Places /\ EngineFlags'
  BY DEF SessionStarting, GoTo, engineVars, IInv, TypeOK, Places, EngineFlags
<1>2. AgentFlags' /\ HistoryFlags'
  BY DEF SessionStarting, Count, MarkOffline, clientVars, monitorVars, IInv,
    TypeOK, AgentFlags, HistoryFlags
<1>3. current' \in Context
  <2>1. current' = current \/ current' = [current EXCEPT !.session = TRUE]
    BY DEF SessionStarting
  <2> QED
    BY <2>1 DEF Context, IInv, TypeOK
<1>4. CountersOK'
  BY AgentAssumption, CountFacts DEF SessionStarting, AgentResults, Results,
    ServerResults, Glitch, Refusal, clientVars, CountersOK
<1>5. StrayInv'
  BY DEF SessionStarting, MarkOffline, Answered, Broken, GoTo, IInv, StrayInv,
    Owed, ClientInv, Ending
<1>6. ClientInv'
    BY AgentAssumption DEF SessionStarting, GoTo, ClientInv, IInv, Rejoining,
      clientVars
<1>7. ContextInv'
  <2>1. \/ current' = current
        \/ current.live /\ current' = [current EXCEPT !.session = TRUE]
    BY DEF SessionStarting, Executed, AgentResults, Results, ServerResults
  <2>2. current.live => current' = Complete \/ at' = "end"
    <3>1. messages
      BY AgentAssumption DEF SessionStarting, IInv, ClientInv
    <3>2. at' = "end" \/ current' = [current EXCEPT !.session = TRUE]
      BY <3>1 DEF SessionStarting, GoTo, Executed, Answered
    <3>3. current.live => [current EXCEPT !.session = TRUE] = Complete
      <4>1. [current EXCEPT !.session = TRUE] \in Context
        BY DEF IInv, TypeOK, Context
      <4>2. current.live => current.monitors = Monitors
        BY DEF SessionStarting, IInv, ContextInv
      <4>3. [current EXCEPT !.session = TRUE].session
        OBVIOUS
      <4> QED
        BY <4>1, <4>2, <4>3, CompleteContext DEF Context
    <3> QED
      BY <3>2, <3>3
  <2>3. CASE current.live
    BY <2>1, <2>2, <2>3 DEF SessionStarting, clientVars, GoTo, ContextInv,
      IInv, Gone, Iterating, Rejoining
  <2>4. CASE ~current.live
    BY <2>1, <2>4 DEF SessionStarting, clientVars, ContextInv, IInv
  <2> QED
    BY <2>3, <2>4
<1>8. PublisherInv' /\ RejoinInv' /\ OfflineInv'
  BY DEF SessionStarting, Count, MarkOffline, AgentResults, Results,
    ServerResults, Glitch, Broken, GoTo, IInv, TypeOK, PublisherInv, RejoinInv,
    OfflineInv, ClientInv, ContextInv, HistoryFlags, Gone, Rejoining
<1>9. HitInv' /\ IterationIsMonitored' /\ OutputArrives' /\ FaultIsRecorded'
  BY DEF SessionStarting, GoTo, engineVars, monitorVars, IInv, HitInv,
    IterationIsMonitored, OutputArrives, FaultIsRecorded, Ending
<1> QED
  BY <1>1, <1>2, <1>3, <1>4, <1>5, <1>6, <1>7, <1>8, <1>9 DEF IInv, TypeOK

\* Nothing has gone wrong yet.
LEMMA BeginKeeps ==
  ASSUME IInv, Begin
  PROVE  IInv'
<1>1. at' \in Places /\ EngineFlags'
  BY DEF Begin, IInv, TypeOK, Places, EngineFlags
<1>2. AgentFlags' /\ HistoryFlags'
  BY DEF Begin, clientVars, IInv, TypeOK, AgentFlags, HistoryFlags
<1>3. current' \in Context
  BY DEF Begin, contextVars, IInv, TypeOK
<1>4. CountersOK'
  BY DEF Begin, clientVars, contextVars, bounds, IInv, TypeOK, CountersOK
<1>5. StrayInv'
  BY DEF Begin, contextVars, bounds, IInv, StrayInv, Owed, Rejoining, Ending
<1>6. ClientInv' /\ ContextInv'
  BY DEF Begin, clientVars, contextVars, IInv, ClientInv, ContextInv,
    Iterating, Rejoining
<1>7. PublisherInv' /\ RejoinInv' /\ OfflineInv'
  BY DEF Begin, contextVars, IInv, PublisherInv, RejoinInv, OfflineInv,
    Iterating, Rejoining, Ending
<1>8. HitInv' /\ IterationIsMonitored' /\ OutputArrives' /\ FaultIsRecorded'
  BY DEF Begin, IInv, HitInv, IterationIsMonitored, OutputArrives,
    FaultIsRecorded, Ending
<1> QED
  BY <1>1, <1>2, <1>3, <1>4, <1>5, <1>6, <1>7, <1>8 DEF IInv, TypeOK

\* The machine is restarted, or left alone.
LEMMA LocalStartingKeeps ==
  ASSUME IInv, LocalStarting
  PROVE  IInv'
<1>1. at' \in Places /\ EngineFlags'
  BY DEF LocalStarting, GoTo, engineVars, IInv, TypeOK, Places, EngineFlags
<1>2. AgentFlags' /\ HistoryFlags'
  BY DEF LocalStarting, GoTo, ServerIsGone, clientVars, contextVars,
    monitorVars, IInv, TypeOK, AgentFlags, HistoryFlags
<1>3. current' \in Context
  BY GoneIsContext DEF LocalStarting, ServerIsGone, contextVars, IInv, TypeOK
<1>4. CountersOK'
  BY DEF LocalStarting, ServerIsGone, clientVars, contextVars, bounds, IInv,
    TypeOK, CountersOK
<1>5. StrayInv'
  BY DEF LocalStarting, GoTo, ServerIsGone, contextVars, bounds, IInv,
    StrayInv, Owed, Gone, Rejoining, Ending
<1>6. ClientInv' /\ ContextInv'
  BY DEF LocalStarting, GoTo, ServerIsGone, clientVars, contextVars, IInv,
    ClientInv, ContextInv, Gone, Iterating, Rejoining
<1>7. PublisherInv' /\ RejoinInv' /\ OfflineInv'
  BY DEF LocalStarting, GoTo, ServerIsGone, contextVars, IInv, PublisherInv,
    RejoinInv, OfflineInv, Gone, Iterating, Rejoining, Ending
<1>8. HitInv' /\ IterationIsMonitored' /\ OutputArrives' /\ FaultIsRecorded'
  BY DEF LocalStarting, GoTo, engineVars, monitorVars, IInv, HitInv,
    IterationIsMonitored, OutputArrives, FaultIsRecorded, Ending
<1> QED
  BY <1>1, <1>2, <1>3, <1>4, <1>5, <1>6, <1>7, <1>8 DEF IInv, TypeOK

\* The monitors see the start, or it is time to reconnect.
LEMMA RemoteStartingKeeps ==
  ASSUME IInv, RemoteStarting
  PROVE  IInv'
<1>1. at' \in Places /\ EngineFlags'
  BY DEF RemoteStarting, Thrown, Proceed, GoTo, engineVars, IInv, TypeOK,
    Places, EngineFlags
<1>2. HistoryFlags'
  <2>1. CASE offline \/ ~messages
    BY <2>1 DEF RemoteStarting, IInv, TypeOK, HistoryFlags
  <2>2. CASE ~(offline \/ ~messages)
    <3>1. PICK r \in AgentResults(Refusal) :
                /\ Count(r) /\ MarkOffline(r)
                /\ seen' = (r \in Executed)
                /\ Proceed(r, IF offline' THEN "sink" ELSE "run")
      BY <2>2 DEF RemoteStarting
    <3> QED
      BY <3>1 DEF RemoteStarting, Count, IInv, TypeOK, HistoryFlags
  <2> QED
    BY <2>1, <2>2
<1>3. AgentFlags'
  BY DEF RemoteStarting, MarkOffline, clientVars, IInv, TypeOK, AgentFlags
<1>4. current' \in Context
  BY DEF RemoteStarting, contextVars, IInv, TypeOK
<1>5. CountersOK'
  BY CountFacts DEF RemoteStarting, AgentResults, Results, ServerResults,
    Glitch, Thrown, Proceed, clientVars, contextVars, IInv, TypeOK, CountersOK
<1>6. StrayInv'
  <2>1. CASE offline \/ ~messages
    BY <2>1 DEF RemoteStarting, contextVars, IInv, StrayInv, Owed, Ending,
      Rejoining
  <2>2. CASE ~(offline \/ ~messages)
    <3>1. PICK r \in AgentResults(Refusal) : Count(r) /\ MarkOffline(r)
      BY <2>2 DEF RemoteStarting
    <3>2. /\ r \in Glitch => glitches < MaxGlitches
          /\ r \in Refusal => refusals < MaxRefusals
      BY <3>1 DEF AgentResults, Results, ServerResults, Glitch, Refusal
    <3>3. current.live => r \in {"ok"} \cup Glitch \cup Refusal
      BY <2>2, <3>1 DEF AgentResults, Results, ServerResults, IInv, ContextInv,
        Gone
    <3>4. r = "ok" => ~offline'
      BY <2>2, <3>1 DEF MarkOffline, Broken
    <3>5. Owed' => Owed \/ r \in Glitch \cup Refusal
      BY <3>3, <3>4 DEF RemoteStarting, contextVars, Owed, Ending, Rejoining
    <3>6. stray' = stray
      BY DEF RemoteStarting, contextVars
    <3> QED
      BY <3>1, <3>2, <3>5, <3>6, CountFacts DEF IInv, StrayInv
  <2> QED
    BY <2>1, <2>2
<1>7. ClientInv' /\ ContextInv'
  BY AgentAssumption DEF RemoteStarting, Thrown, Proceed, GoTo, clientVars,
    contextVars, IInv, ClientInv, ContextInv, Connecting, Iterating, Rejoining
<1>8. PublisherInv' /\ RejoinInv' /\ OfflineInv'
  BY DEF RemoteStarting, MarkOffline, Broken, Thrown, Proceed, GoTo,
    contextVars, IInv, PublisherInv, RejoinInv, OfflineInv, Iterating,
    Rejoining, Ending
<1>9. HitInv' /\ IterationIsMonitored' /\ OutputArrives' /\ FaultIsRecorded'
  BY DEF RemoteStarting, Count, MarkOffline, AgentResults, Results,
    ServerResults, Glitch, Executed, Broken, Thrown, Proceed, GoTo, engineVars,
    clientVars, contextVars, IInv, HitInv, ClientInv, ContextInv,
    IterationIsMonitored, OutputArrives, FaultIsRecorded, Iterating, Ending
<1> QED
  BY <1>1, <1>2, <1>3, <1>4, <1>5, <1>6, <1>7, <1>8, <1>9 DEF IInv, TypeOK

\* Whoever is offline fails here.
LEMMA CreatePublisherKeeps ==
  ASSUME IInv, CreatePublisher
  PROVE  IInv'
<1>1. at' \in Places /\ EngineFlags'
  BY DEF CreatePublisher, Thrown, GoTo, engineVars, IInv, TypeOK, Places,
    EngineFlags
<1>2. AgentFlags' /\ HistoryFlags'
  BY DEF CreatePublisher, Count, MarkOffline, clientVars, monitorVars, IInv,
    TypeOK, AgentFlags, HistoryFlags
<1>3. current' \in Context
  BY DEF CreatePublisher, contextVars, IInv, TypeOK
<1>4. CountersOK'
  BY CountFacts DEF CreatePublisher, Results, ServerResults, Glitch, Refusal,
    clientVars, contextVars, IInv, TypeOK, CountersOK
<1>5. StrayInv'
  <2>1. PICK r \in Results(TRUE, Refusal) :
          /\ Count(r) /\ MarkOffline(r)
          /\ published' = (r \in Answered) /\ publisher' = (r \in Answered)
    BY DEF CreatePublisher
  <2>2. /\ r \in Glitch => glitches < MaxGlitches
        /\ r \in Refusal => refusals < MaxRefusals
    BY <2>1 DEF Results, ServerResults, Glitch, Refusal
  <2>3. current.live => offline \/ r \in {"ok"} \cup Glitch \cup Refusal
    BY <2>1 DEF Results, ServerResults, IInv, ContextInv, Gone
  <2>4. r = "ok" => (offline' <=> offline) /\ publisher'
    BY <2>1 DEF MarkOffline, Broken, Answered
  <2>5. stray' = stray /\ (Owed' => Owed \/ r \in Glitch \cup Refusal)
    BY <2>3, <2>4 DEF CreatePublisher, contextVars, Owed, Ending
  <2> QED
    BY <2>1, <2>2, <2>5, CountFacts DEF IInv, StrayInv
<1>6. ClientInv' /\ ContextInv'
  BY DEF CreatePublisher, MarkOffline, Results, ServerResults, Answered,
    Thrown, GoTo, clientVars, contextVars, IInv, ClientInv, ContextInv,
    Iterating, Rejoining
<1>7. OfflineInv'
  <2>1. PICK r \in Results(TRUE, Refusal) :
         /\ Count(r) /\ MarkOffline(r)
         /\ published' = (r \in Answered) /\ publisher' = (r \in Answered)
         /\ IF r \in Answered THEN GoTo("run")
                             ELSE Thrown(IF r = "soft" THEN r ELSE "hard")
    BY DEF CreatePublisher
  <2>2. at' \in {"run", "finish"}
    BY <2>1 DEF Thrown, GoTo
  <2>3. /\ r \in Broken => r \in {"lost", "unanswered"} \/ ~up
        /\ current' = current /\ halfway' = halfway /\ at = "run"
    BY <2>1 DEF CreatePublisher, contextVars, Results, ServerResults, Broken,
      Glitch, Refusal
  <2>4. offline' /\ current'.live => disturbed' \/ halfway'
    BY <2>1, <2>3 DEF Count, MarkOffline, IInv, OfflineInv, ContextInv, Gone,
      TypeOK, AgentFlags
  <2> QED
    BY <2>2, <2>4 DEF OfflineInv
<1>8. PublisherInv' /\ RejoinInv'
  BY DEF CreatePublisher, Thrown, GoTo, PublisherInv, RejoinInv, Rejoining
<1>9. HitInv'
  <2>1. at' \in {"run", "finish"} /\ ~hit' /\ ~aborting
    BY DEF CreatePublisher, Thrown, GoTo, monitorVars, IInv, HitInv, Ending
  <2>2. aborting' => at' = "finish"
    BY <2>1 DEF CreatePublisher, Thrown, GoTo, engineVars
  <2> QED
    BY <2>1, <2>2 DEF HitInv
<1>10. IterationIsMonitored' /\ OutputArrives' /\ FaultIsRecorded'
  BY DEF CreatePublisher, Count, MarkOffline, Results, ServerResults, Glitch,
    Answered, Broken, Thrown, GoTo, clientVars, contextVars, monitorVars, IInv,
    TypeOK, ClientInv, ContextInv, IterationIsMonitored, OutputArrives,
    FaultIsRecorded, HistoryFlags, Gone, Complete, Iterating
<1> QED
  BY <1>1, <1>2, <1>3, <1>4, <1>5, <1>6, <1>7, <1>8, <1>9, <1>10 DEF IInv,
    TypeOK

\* The output arrives, or a request has failed.
LEMMA OutputKeeps ==
  ASSUME IInv, Output
  PROVE  IInv'
<1>1. at' \in Places /\ EngineFlags'
  BY DEF Output, Thrown, Proceed, GoTo, engineVars, IInv, TypeOK, Places,
    EngineFlags
<1>2. HistoryFlags'
  <2>1. (hit \in BOOLEAN)'
    BY DEF Output
  <2>2. (sent \in BOOLEAN /\ seen \in BOOLEAN /\ halfway \in BOOLEAN)'
    BY DEF Output, IInv, TypeOK, HistoryFlags
  <2>3. (disturbed \in BOOLEAN)'
    BY DEF Output, Count
  <2> QED
    BY <2>1, <2>2, <2>3 DEF HistoryFlags
<1>3. AgentFlags'
  BY DEF Output, MarkOffline, clientVars, IInv, TypeOK, AgentFlags
<1>4. current' \in Context
  BY DEF Output, contextVars, IInv, TypeOK
<1>5. CountersOK'
  BY CountFacts DEF Output, Results, ServerResults, Glitch, Thrown, Proceed,
    clientVars, contextVars, IInv, TypeOK, CountersOK
<1>6. StrayInv'
  <2>1. PICK r \in Results(publisher, Refusal) : Count(r) /\ MarkOffline(r)
    BY DEF Output
  <2>2. /\ r \in Glitch => glitches < MaxGlitches
        /\ r \in Refusal => refusals < MaxRefusals
    BY <2>1 DEF Results, ServerResults, Glitch, Refusal
  <2>3. Owed' => Owed \/ r \in Glitch \cup Refusal
    BY <2>1 DEF Output, contextVars, MarkOffline, Results, ServerResults,
      Broken, Owed, IInv, ContextInv, Ending, Rejoining
  <2>4. stray' = stray
    BY DEF Output, contextVars
  <2> QED
    BY <2>1, <2>2, <2>3, <2>4, CountFacts DEF IInv, StrayInv
<1>7. ClientInv' /\ ContextInv'
  BY DEF Output, MarkOffline, Thrown, Proceed, GoTo, clientVars, contextVars,
    IInv, ClientInv, ContextInv, Iterating, Rejoining
<1>8. PublisherInv' /\ RejoinInv' /\ OfflineInv'
  BY DEF Output, Count, MarkOffline, Results, ServerResults, Glitch, Broken,
    Proceed, GoTo, contextVars, IInv, PublisherInv, RejoinInv, OfflineInv,
    ContextInv, Iterating, Rejoining
<1>9. HitInv'
  <2>1. PICK r \in Results(publisher, Refusal) :
          /\ Count(r) /\ MarkOffline(r)
          /\ hit' \in IF r \in Executed /\ current.live THEN BOOLEAN
                      ELSE {FALSE}
          /\ Proceed(r, "finish")
    BY DEF Output
  <2>2. at' = "finish" /\ (r \in Refusal \/ ~aborting')
    BY <2>1 DEF Output, Proceed, Thrown, GoTo, IInv, HitInv, Ending, engineVars
  <2>3. hit' => r \in Executed /\ current.live
    BY <2>1
  <2>4. disturbed' \/ r \notin {"lost", "unanswered"} \cup Refusal
    BY <2>1 DEF Count
  <2>5. r \in Executed /\ ~disturbed' => ~offline'
    BY <2>1, <2>4 DEF Executed, Results, MarkOffline, Broken
  <2> QED
    BY <2>1, <2>2, <2>3, <2>4, <2>5 DEF HitInv, Output, clientVars,
      contextVars, IInv, ContextInv, Gone, Executed, Refusal
<1>10. IterationIsMonitored' /\ OutputArrives' /\ FaultIsRecorded'
  BY DEF Output, Count, Results, ServerResults, Glitch, Executed, Proceed,
    GoTo, IInv, TypeOK, ClientInv, ContextInv, PublisherInv,
    IterationIsMonitored, OutputArrives, FaultIsRecorded, HistoryFlags,
    Complete, Iterating
<1> QED
  BY <1>1, <1>2, <1>3, <1>4, <1>5, <1>6, <1>7, <1>8, <1>9, <1>10 DEF IInv,
    TypeOK

\* The end of the iteration.
LEMMA FinishKeeps ==
  ASSUME IInv, Finish
  PROVE  IInv'
<1>1. at' \in Places /\ EngineFlags'
  BY DEF Finish, IInv, TypeOK, Places, EngineFlags
<1>2. AgentFlags' /\ HistoryFlags'
  BY DEF Finish, Count, MarkOffline, clientVars, monitorVars, IInv, TypeOK,
    AgentFlags, HistoryFlags
<1>3. current' \in Context
  BY DEF Finish, contextVars, IInv, TypeOK
<1>4. CountersOK'
  BY CountFacts DEF Finish, AgentResults, Results, ServerResults, Glitch,
    Refusal, clientVars, contextVars, IInv, TypeOK, CountersOK
<1>5. StrayInv'
  BY CountFacts DEF Finish, MarkOffline, AgentResults, Results, ServerResults,
    Glitch, Broken, contextVars, IInv, TypeOK, AgentFlags, StrayInv, Owed,
    ContextInv, Gone, Rejoining, Ending
<1>6. ClientInv' /\ ContextInv'
  BY DEF Finish, MarkOffline, clientVars, contextVars, IInv, ClientInv,
    ContextInv, Iterating, Rejoining
<1>7. PublisherInv' /\ RejoinInv' /\ OfflineInv'
  BY DEF Finish, Count, MarkOffline, AgentResults, Results, ServerResults,
    Glitch, Broken, contextVars, IInv, TypeOK, PublisherInv, RejoinInv,
    OfflineInv, ContextInv, HistoryFlags, Gone, Iterating, Rejoining
<1>8. HitInv' /\ IterationIsMonitored' /\ OutputArrives' /\ FaultIsRecorded'
  BY DEF Finish, Count, MarkOffline, AgentResults, Results, ServerResults,
    Glitch, Broken, clientVars, contextVars, monitorVars, IInv, TypeOK, HitInv,
    ContextInv, IterationIsMonitored, OutputArrives, FaultIsRecorded,
    HistoryFlags, Gone, Ending
<1> QED
  BY <1>1, <1>2, <1>3, <1>4, <1>5, <1>6, <1>7, <1>8 DEF IInv, TypeOK

\* The monitors are asked.
LEMMA DetectKeeps ==
  ASSUME IInv, Detect
  PROVE  IInv'
<1>1. at' \in Places /\ EngineFlags'
  BY DEF Detect, IInv, TypeOK, Places, EngineFlags
<1>2. AgentFlags' /\ HistoryFlags'
  BY DEF Detect, Count, MarkOffline, clientVars, monitorVars, IInv, TypeOK,
    AgentFlags, HistoryFlags
<1>3. current' \in Context
  BY DEF Detect, contextVars, IInv, TypeOK
<1>4. CountersOK'
  BY CountFacts DEF Detect, AgentResults, Results, ServerResults, Glitch,
    Refusal, clientVars, contextVars, IInv, TypeOK, CountersOK
<1>5. StrayInv'
  BY CountFacts DEF Detect, MarkOffline, AgentResults, Results, ServerResults,
    Glitch, Refusal, Broken, contextVars, IInv, TypeOK, AgentFlags, StrayInv,
    Owed, ContextInv, Gone, Rejoining, Ending
<1>6. ClientInv' /\ ContextInv'
  BY DEF Detect, MarkOffline, clientVars, contextVars, IInv, ClientInv,
    ContextInv, Iterating, Rejoining
<1>7. PublisherInv' /\ RejoinInv' /\ OfflineInv'
  BY DEF Detect, Count, MarkOffline, AgentResults, Results, ServerResults,
    Glitch, Broken, contextVars, IInv, TypeOK, PublisherInv, RejoinInv,
    OfflineInv, ContextInv, HistoryFlags, Gone, Iterating, Rejoining
<1>8. HitInv' /\ IterationIsMonitored' /\ OutputArrives' /\ FaultIsRecorded'
  BY DEF Detect, Count, MarkOffline, AgentResults, Results, ServerResults,
    Glitch, Answered, Broken, clientVars, contextVars, monitorVars, IInv,
    TypeOK, HitInv, ClientInv, ContextInv, IterationIsMonitored, OutputArrives,
    FaultIsRecorded, HistoryFlags, Gone, Iterating, Ending
<1> QED
  BY <1>1, <1>2, <1>3, <1>4, <1>5, <1>6, <1>7, <1>8 DEF IInv, TypeOK

\* What they have seen is kept.
LEMMA CollectKeeps ==
  ASSUME IInv, Collect
  PROVE  IInv'
<1>1. at' \in Places /\ EngineFlags'
  BY DEF Collect, IInv, TypeOK, Places, EngineFlags
<1>2. AgentFlags' /\ HistoryFlags'
  BY DEF Collect, Count, MarkOffline, clientVars, monitorVars, IInv, TypeOK,
    AgentFlags, HistoryFlags
<1>3. current' \in Context
  BY DEF Collect, contextVars, IInv, TypeOK
<1>4. CountersOK'
  BY CountFacts DEF Collect, AgentResults, Results, ServerResults, Glitch,
    Refusal, clientVars, contextVars, IInv, TypeOK, CountersOK
<1>5. StrayInv'
  BY CountFacts DEF Collect, MarkOffline, AgentResults, Results, ServerResults,
    Glitch, Broken, contextVars, IInv, TypeOK, AgentFlags, StrayInv, Owed,
    ContextInv, Gone, Rejoining, Ending
<1>6. ClientInv' /\ ContextInv'
  BY DEF Collect, MarkOffline, clientVars, contextVars, IInv, ClientInv,
    ContextInv, Iterating, Rejoining
<1>7. PublisherInv' /\ RejoinInv' /\ OfflineInv'
  BY DEF Collect, Count, MarkOffline, AgentResults, Results, ServerResults,
    Glitch, Broken, contextVars, IInv, TypeOK, PublisherInv, RejoinInv,
    OfflineInv, ContextInv, HistoryFlags, Gone, Iterating, Rejoining
<1>8. HitInv' /\ IterationIsMonitored' /\ OutputArrives' /\ FaultIsRecorded'
  BY DEF Collect, Count, AgentResults, Results, ServerResults, Glitch,
    Answered, monitorVars, IInv, TypeOK, HitInv, ContextInv,
    IterationIsMonitored, OutputArrives, FaultIsRecorded, HistoryFlags, Gone,
    Ending
<1> QED
  BY <1>1, <1>2, <1>3, <1>4, <1>5, <1>6, <1>7, <1>8 DEF IInv, TypeOK

\* The run ends.
LEMMA StopKeeps ==
  ASSUME IInv, Stop
  PROVE  IInv'
<1>1. at' \in Places /\ EngineFlags'
  BY DEF Stop, GoTo, engineVars, IInv, TypeOK, Places, EngineFlags
<1>2. AgentFlags' /\ HistoryFlags'
  BY DEF Stop, clientVars, monitorVars, IInv, TypeOK, AgentFlags, HistoryFlags
<1>3. current' \in Context
  BY DEF Stop, contextVars, IInv, TypeOK
<1>4. CountersOK'
  BY DEF Stop, clientVars, contextVars, bounds, IInv, TypeOK, CountersOK
<1>5. StrayInv'
  BY DEF Stop, contextVars, bounds, IInv, StrayInv, Owed, Rejoining, Ending
<1>6. ClientInv' /\ ContextInv'
  BY DEF Stop, GoTo, clientVars, contextVars, IInv, ClientInv, ContextInv,
    Iterating, Rejoining
<1>7. PublisherInv' /\ RejoinInv' /\ OfflineInv'
  BY DEF Stop, GoTo, contextVars, IInv, PublisherInv, RejoinInv, OfflineInv,
    Iterating, Rejoining
<1>8. HitInv' /\ IterationIsMonitored' /\ OutputArrives' /\ FaultIsRecorded'
  BY DEF Stop, GoTo, engineVars, monitorVars, IInv, HitInv,
    IterationIsMonitored, OutputArrives, FaultIsRecorded, Ending
<1> QED
  BY <1>1, <1>2, <1>3, <1>4, <1>5, <1>6, <1>7, <1>8 DEF IInv, TypeOK

\* The publisher goes.
LEMMA StopPublisherKeeps ==
  ASSUME IInv, StopPublisher
  PROVE  IInv'
<1>1. at' \in Places /\ EngineFlags'
  BY DEF StopPublisher, GoTo, engineVars, IInv, TypeOK, Places, EngineFlags
<1>2. AgentFlags' /\ HistoryFlags'
  BY DEF StopPublisher, Count, MarkOffline, clientVars, monitorVars, IInv,
    TypeOK, AgentFlags, HistoryFlags
<1>3. current' \in Context
  BY DEF StopPublisher, contextVars, IInv, TypeOK
<1>4. CountersOK'
  BY CountFacts DEF StopPublisher, Results, ServerResults, Glitch, Refusal,
    clientVars, contextVars, IInv, TypeOK, CountersOK
<1>5. StrayInv'
  BY DEF StopPublisher, GoTo, StrayInv, Owed, Ending
<1>6. ClientInv' /\ ContextInv'
  BY DEF StopPublisher, GoTo, clientVars, contextVars, IInv, ClientInv,
    ContextInv, Iterating, Rejoining
<1>7. PublisherInv' /\ RejoinInv' /\ OfflineInv'
  BY DEF StopPublisher, Count, MarkOffline, Results, ServerResults, Glitch,
    Broken, GoTo, contextVars, IInv, PublisherInv, RejoinInv, OfflineInv,
    ContextInv, Iterating, Rejoining, Ending
<1>8. HitInv' /\ IterationIsMonitored' /\ OutputArrives' /\ FaultIsRecorded'
  BY DEF StopPublisher, GoTo, HitInv, IterationIsMonitored, OutputArrives,
    FaultIsRecorded, Ending
<1> QED
  BY <1>1, <1>2, <1>3, <1>4, <1>5, <1>6, <1>7, <1>8 DEF IInv, TypeOK

\* The session is over.
LEMMA SessionFinishedKeeps ==
  ASSUME IInv, SessionFinished
  PROVE  IInv'
<1>1. at' \in Places /\ EngineFlags'
  BY DEF SessionFinished, GoTo, LeavingOrder, engineVars, IInv, TypeOK, Places,
    EngineFlags
<1>2. AgentFlags' /\ HistoryFlags'
  BY DEF SessionFinished, Count, MarkOffline, clientVars, monitorVars, IInv,
    TypeOK, AgentFlags, HistoryFlags
<1>3. current' \in Context
  BY DEF SessionFinished, contextVars, IInv, TypeOK
<1>4. CountersOK'
  BY CountFacts DEF SessionFinished, AgentResults, Results, ServerResults,
    Glitch, Refusal, clientVars, contextVars, IInv, TypeOK, CountersOK
<1>5. StrayInv'
  BY DEF SessionFinished, GoTo, LeavingOrder, StrayInv, Owed, Ending
<1>6. ClientInv' /\ ContextInv'
  BY DEF SessionFinished, GoTo, LeavingOrder, clientVars, contextVars, IInv,
    ClientInv, ContextInv, Iterating, Rejoining
<1>7. PublisherInv' /\ RejoinInv' /\ OfflineInv'
  BY DEF SessionFinished, Count, MarkOffline, AgentResults, Results,
    ServerResults, Glitch, Broken, GoTo, LeavingOrder, contextVars, IInv,
    TypeOK, PublisherInv, RejoinInv, OfflineInv, ContextInv, HistoryFlags,
    Gone, Iterating, Rejoining, Ending
<1>8. HitInv' /\ IterationIsMonitored' /\ OutputArrives' /\ FaultIsRecorded'
  BY DEF SessionFinished, GoTo, LeavingOrder, HitInv, IterationIsMonitored,
    OutputArrives, FaultIsRecorded, Ending
<1> QED
  BY <1>1, <1>2, <1>3, <1>4, <1>5, <1>6, <1>7, <1>8 DEF IInv, TypeOK

\* The context goes, unless the request fails.
LEMMA AgentDisconnectKeeps ==
  ASSUME IInv, AgentDisconnect
  PROVE  IInv'
<1>1. at' \in Places /\ EngineFlags'
  BY LeavingFacts DEF AgentDisconnect, GoTo, engineVars, IInv, TypeOK, Places,
    EngineFlags
<1>2. AgentFlags' /\ HistoryFlags'
  BY DEF AgentDisconnect, Count, MarkOffline, clientVars, monitorVars, IInv,
    TypeOK, AgentFlags, HistoryFlags
<1>3. current' \in Context
  BY GoneIsContext DEF AgentDisconnect, IInv, TypeOK
<1>4. CountersOK'
  <2>1. PICK r \in AgentResults({}) :
          /\ Count(r) /\ MarkOffline(r)
          /\ current' = IF r \in Executed THEN Gone ELSE current
      BY DEF AgentDisconnect
  <2>2. /\ r \in Glitch => glitches < MaxGlitches
        /\ r \in Refusal => refusals < MaxRefusals
      BY <2>1 DEF AgentResults, Results, ServerResults, Glitch, Refusal
  <2> QED
    BY <2>1, <2>2, CountFacts DEF AgentDisconnect, clientVars, IInv, TypeOK,
      CountersOK
<1>5. StrayInv'
  BY LeavingFacts DEF AgentDisconnect, GoTo, StrayInv, Owed, Ending
<1>6. ClientInv' /\ ContextInv'
  BY LeavingFacts DEF AgentDisconnect, GoTo, clientVars, IInv, ClientInv,
    ContextInv, Iterating, Rejoining
<1>7. OfflineInv'
  <2>1. PICK r \in AgentResults({}) :
          /\ Count(r) /\ MarkOffline(r)
          /\ current' = IF r \in Executed THEN Gone ELSE current
      BY DEF AgentDisconnect
  <2>2. current.live => offline \/ r \in {"ok"} \cup Glitch
    BY <2>1 DEF AgentResults, Results, ServerResults, IInv, ContextInv, Gone
  <2>3. current'.live /\ ~offline => disturbed'
    BY <2>1, <2>2 DEF Count, Glitch, Executed, Gone
  <2>4. disturbed => disturbed'
    BY <2>1 DEF Count
  <2>5. current'.live => current.live
    BY <2>1 DEF Gone
  <2> QED
    BY <2>1, <2>3, <2>4, <2>5 DEF AgentDisconnect, OfflineInv, IInv, Ending
<1>8. PublisherInv' /\ RejoinInv'
  BY LeavingFacts DEF AgentDisconnect, GoTo, PublisherInv, RejoinInv,
    Iterating, Rejoining
<1>9. HitInv' /\ IterationIsMonitored' /\ OutputArrives' /\ FaultIsRecorded'
  BY LeavingFacts DEF AgentDisconnect, GoTo, HitInv, IterationIsMonitored,
    OutputArrives, FaultIsRecorded, Ending
<1> QED
  BY <1>1, <1>2, <1>3, <1>4, <1>5, <1>6, <1>7, <1>8, <1>9 DEF IInv, TypeOK

\* The machine goes, and the server with it.
LEMMA StopMachineKeeps ==
  ASSUME IInv, StopMachine
  PROVE  IInv'
<1>1. at' \in Places /\ EngineFlags'
  BY LeavingFacts DEF StopMachine, GoTo, engineVars, IInv, TypeOK, Places,
    EngineFlags
<1>2. AgentFlags' /\ HistoryFlags'
  BY DEF StopMachine, ServerIsGone, clientVars, monitorVars, IInv, TypeOK,
    AgentFlags, HistoryFlags
<1>3. current' \in Context
  BY GoneIsContext DEF StopMachine, ServerIsGone
<1>4. CountersOK'
  <2>1. /\ stray' = 0 /\ asked' = asked
        /\ glitches' = glitches /\ refusals' = refusals /\ crashes' = crashes
    BY DEF StopMachine, ServerIsGone, clientVars, bounds
  <2> QED
    BY <2>1 DEF IInv, TypeOK, CountersOK
<1>5. StrayInv'
  BY DEF StopMachine, ServerIsGone, StrayInv, Owed, Gone
<1>6. ClientInv' /\ ContextInv'
  BY LeavingFacts DEF StopMachine, GoTo, ServerIsGone, ClientInv, ContextInv,
    Iterating, Rejoining
<1>7. PublisherInv' /\ RejoinInv' /\ OfflineInv'
  BY LeavingFacts DEF StopMachine, GoTo, ServerIsGone, PublisherInv, RejoinInv,
    OfflineInv, Gone, Rejoining
<1>8. HitInv' /\ IterationIsMonitored' /\ OutputArrives' /\ FaultIsRecorded'
  BY LeavingFacts DEF StopMachine, GoTo, HitInv, IterationIsMonitored,
    OutputArrives, FaultIsRecorded, Ending
<1> QED
  BY <1>1, <1>2, <1>3, <1>4, <1>5, <1>6, <1>7, <1>8 DEF IInv, TypeOK

\* The server goes.
LEMMA CrashKeeps ==
  ASSUME IInv, Crash
  PROVE  IInv'
<1>1. at' \in Places /\ EngineFlags'
  BY DEF Crash, engineVars, IInv, TypeOK, EngineFlags
<1>2. AgentFlags' /\ HistoryFlags'
  BY DEF Crash, ServerIsGone, clientVars, monitorVars, IInv, TypeOK,
    AgentFlags, HistoryFlags
<1>3. current' \in Context
  BY GoneIsContext DEF Crash, ServerIsGone
<1>4. CountersOK'
  BY AgentAssumption DEF Crash, ServerIsGone, clientVars, IInv, TypeOK,
    CountersOK
<1>5. StrayInv'
  BY DEF Crash, ServerIsGone, StrayInv, Owed, Gone
<1>6. ClientInv' /\ ContextInv'
  BY DEF Crash, ServerIsGone, clientVars, IInv, ClientInv, ContextInv,
    Connecting, Gone, Iterating, Rejoining
<1>7. PublisherInv' /\ RejoinInv' /\ OfflineInv'
  BY DEF Crash, ServerIsGone, PublisherInv, RejoinInv, OfflineInv, Gone
<1>8. HitInv' /\ IterationIsMonitored' /\ OutputArrives' /\ FaultIsRecorded'
  BY DEF Crash, engineVars, monitorVars, IInv, HitInv, IterationIsMonitored,
    OutputArrives, FaultIsRecorded, Ending
<1> QED
  BY <1>1, <1>2, <1>3, <1>4, <1>5, <1>6, <1>7, <1>8 DEF IInv, TypeOK

\* The server is there again, and knows nothing.
LEMMA BootKeeps ==
  ASSUME IInv, Boot
  PROVE  IInv'
<1>1. at' \in Places /\ EngineFlags'
  BY DEF Boot, engineVars, IInv, TypeOK, EngineFlags
<1>2. AgentFlags' /\ HistoryFlags'
  BY DEF Boot, clientVars, monitorVars, IInv, TypeOK, AgentFlags, HistoryFlags
<1>3. current' \in Context
  BY DEF Boot, contextVars, IInv, TypeOK
<1>4. CountersOK'
  BY DEF Boot, clientVars, contextVars, bounds, IInv, TypeOK, CountersOK
<1>5. StrayInv'
  BY DEF Boot, contextVars, bounds, IInv, StrayInv, Owed, Rejoining, Ending
<1>6. ClientInv' /\ ContextInv'
  BY DEF Boot, clientVars, contextVars, IInv, ClientInv, ContextInv,
    Connecting, Iterating, Rejoining
<1>7. PublisherInv' /\ RejoinInv' /\ OfflineInv'
  BY DEF Boot, contextVars, IInv, PublisherInv, RejoinInv, OfflineInv,
    Iterating, Rejoining, Ending
<1>8. HitInv' /\ IterationIsMonitored' /\ OutputArrives' /\ FaultIsRecorded'
  BY DEF Boot, engineVars, clientVars, contextVars, monitorVars, IInv, HitInv,
    IterationIsMonitored, OutputArrives, FaultIsRecorded, Ending
<1> QED
  BY <1>1, <1>2, <1>3, <1>4, <1>5, <1>6, <1>7, <1>8 DEF IInv, TypeOK

-----------------------------------------------------------------------------
(* All steps.                                                              *)

\* A stuttering step.
LEMMA StutterKeeps ==
  ASSUME IInv, UNCHANGED vars
  PROVE  IInv'
<1>1. at' \in Places /\ EngineFlags'
  BY DEF vars, engineVars, IInv, TypeOK, EngineFlags
<1>2. AgentFlags' /\ HistoryFlags'
  BY DEF vars, clientVars, monitorVars, IInv, TypeOK, AgentFlags, HistoryFlags
<1>3. current' \in Context
  BY DEF vars, contextVars, IInv, TypeOK
<1>4. CountersOK'
  BY DEF vars, clientVars, contextVars, bounds, IInv, TypeOK, CountersOK
<1>5. StrayInv'
  BY DEF vars, contextVars, bounds, IInv, StrayInv, Owed, Rejoining, Ending
<1>6. ClientInv' /\ ContextInv'
  BY DEF vars, clientVars, contextVars, IInv, ClientInv, ContextInv,
    Connecting, Iterating, Rejoining
<1>7. PublisherInv' /\ RejoinInv' /\ OfflineInv'
  BY DEF vars, contextVars, monitorVars, IInv, PublisherInv, RejoinInv,
    OfflineInv, Iterating, Rejoining, Ending
<1>8. HitInv' /\ IterationIsMonitored' /\ OutputArrives' /\ FaultIsRecorded'
  BY DEF vars, engineVars, clientVars, contextVars, monitorVars, IInv, HitInv,
    IterationIsMonitored, OutputArrives, FaultIsRecorded, Ending
<1> QED
  BY <1>1, <1>2, <1>3, <1>4, <1>5, <1>6, <1>7, <1>8 DEF IInv, TypeOK

\* Every step keeps IInv.
LEMMA NextKeeps ==
  ASSUME IInv, [Next]_vars
  PROVE  IInv'
<1>1. CASE Engine
  BY <1>1, StartSinkKeeps, PostKeeps, RejoinKeeps, RepublishKeeps,
    StartMonitorKeeps, SessionStartingKeeps, BeginKeeps, LocalStartingKeeps,
    RemoteStartingKeeps, CreatePublisherKeeps, OutputKeeps, FinishKeeps,
    DetectKeeps, CollectKeeps, StopPublisherKeeps, SessionFinishedKeeps,
    AgentDisconnectKeeps, StopMachineKeeps DEF Engine, Reconnect
<1>2. CASE Stop \/ Crash \/ Boot
  BY <1>2, StopKeeps, CrashKeeps, BootKeeps
<1>3. CASE UNCHANGED vars
  BY <1>3, StutterKeeps
<1> QED
  BY <1>1, <1>2, <1>3 DEF Next

-----------------------------------------------------------------------------
(* The theorems.                                                           *)

\* The inductive invariant holds in every reachable state.
THEOREM Invariance == Spec => []IInv
<1>1. IInv /\ [Next]_vars => IInv'
  BY NextKeeps
<1> QED
  BY <1>1, InitIInv, PTL DEF Spec

\* The types.
THEOREM TypeCorrect == Spec => []TypeOK
<1>1. IInv => TypeOK
  BY DEF IInv
<1> QED
  BY <1>1, Invariance, PTL

\* A context has no monitor twice, and the contexts that no client knows are
\* never more than the requests that failed, however often machine and server
\* start again (Client.cs:709).
THEOREM ContextsAreCounted == Spec => []ContextsOK
<1>1. IInv => ContextsOK
  BY DEF IInv, TypeOK, CountersOK, ContextsOK
<1> QED
  BY <1>1, Invariance, PTL

\* When the state model runs, and nothing failed in this iteration, all
\* monitors of the agent are up and know about it, whatever happened before.
THEOREM MonitorsAreThere == Spec => []IterationIsMonitored
<1>1. IInv => IterationIsMonitored
  BY DEF IInv
<1> QED
  BY <1>1, Invariance, PTL

\* The output of such an iteration arrives.
THEOREM PublisherIsThere == Spec => []OutputArrives
<1>1. IInv => OutputArrives
  BY DEF IInv
<1> QED
  BY <1>1, Invariance, PTL

\* A fault that was seen becomes a fault of the iteration.
THEOREM FaultsAreCollected == Spec => []FaultIsRecorded
<1>1. IInv => FaultIsRecorded
  BY DEF IInv
<1> QED
  BY <1>1, Invariance, PTL

\* The machine goes after the monitors inside it.
THEOREM MachineGoesLast == Spec => DisconnectsFirst
<1>1. IInv => (at = "stop vm" => ~current.live \/ disturbed \/ halfway)
  BY DEF IInv, OfflineInv
<1>2. IInv => [at = "stop vm" /\ at' # at
                => ~current.live \/ disturbed \/ halfway]_vars
  BY <1>1
<1> QED
  BY <1>2, Invariance, PTL DEF DisconnectsFirst

=============================================================================
