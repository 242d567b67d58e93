----------------------------- MODULE RemoteAgent -----------------------------
(***************************************************************************)
(* A remote agent behind HTTP: the Client in the engine's process, the     *)
(* contexts that the agent server keeps for it, and AgentManager, which    *)
(* calls the agents around every iteration.                                *)
(*                                                                         *)
(* There are two agents, as in the comment at AgentManager.cs:119: a local *)
(* one, whose monitor starts and stops the virtual machine, and a remote   *)
(* one, whose server runs inside it.  The virtual machine restarts after   *)
(* a fault, and with it the server, which then knows no context any more.  *)
(*                                                                         *)
(* The server handles a request at once.  A request may get lost, or its   *)
(* answer may, or it may be sent and executed twice; a monitor may refuse  *)
(* it.  GetMonitorData stands for its downloads too, CreatePublisher and   *)
(* Output for all requests of a publisher.  The log sink is a connection   *)
(* that opens or does not.                                                 *)
(***************************************************************************)
EXTENDS Naturals, Sequences

CONSTANTS
  Monitors,     \* number of monitors of the remote agent
  MaxGlitches,  \* bound: requests lost, unanswered or executed twice
  MaxRefusals,  \* bound: requests refused by a monitor or a publisher
  MaxCrashes    \* bound: crashes of the server

ASSUME AgentAssumption ==
  /\ Monitors \in Nat \ {0}
  /\ {MaxGlitches, MaxRefusals, MaxCrashes} \subseteq Nat

VARIABLES
  at,        \* where the engine is
  \* the engine
  first,     \* isFirst
  aborting,  \* an exception is on its way to the end of the run
  faults,    \* context.faults is not empty
  lastFault, \* FaultOnPreviousIteration
  \* the client
  asked,     \* number of monitors in _connectReq
  messages,  \* _connectResp.Messages is not empty
  known,     \* _agentUri is not null
  offline,   \* _offline
  published, \* the publisher has been created
  \* the server
  up,        \* it answers
  current,   \* the context at _agentUri: monitors started, session started
  stray,     \* number of contexts that no client knows
  publisher, \* the publisher at _publisherUri exists
  \* bounds and history
  glitches, refusals, crashes,
  disturbed, \* something went wrong since this iteration began
  halfway,   \* the last reconnect was refused by the server
  seen,      \* the current context has seen the start of this iteration
  hit,       \* ... and a fault in it
  sent       \* the output of this iteration has arrived

engineVars == <<first, aborting, faults, lastFault>>
clientVars == <<asked, messages, known>>
contextVars == <<current, stray>>
bounds == <<glitches, refusals, crashes>>
monitorVars == <<seen, hit>>
vars == <<at, engineVars, clientVars, offline, published, up, contextVars,
          publisher, bounds, disturbed, halfway, monitorVars, sent>>

Context == [live : BOOLEAN, monitors : 0..Monitors, session : BOOLEAN]
Gone == [live |-> FALSE, monitors |-> 0, session |-> FALSE]
Complete == [live |-> TRUE, monitors |-> Monitors, session |-> TRUE]

\* The local agent has just started the virtual machine.
Init ==
  /\ at = "sink"
  /\ first = TRUE /\ aborting = FALSE /\ faults = FALSE /\ lastFault = FALSE
  /\ asked = 0 /\ messages = FALSE /\ known = FALSE /\ offline = FALSE
  /\ published = FALSE /\ publisher = FALSE
  /\ up \in BOOLEAN /\ current = Gone /\ stray = 0
  /\ glitches = 0 /\ refusals = 0 /\ crashes = 0
  /\ disturbed = FALSE /\ halfway = FALSE
  /\ seen = FALSE /\ hit = FALSE /\ sent = FALSE

-----------------------------------------------------------------------------
(* Requests.                                                               *)

Glitch == {"again", "lost", "unanswered"}
Refusal == {"soft", "hard"}                         \* status 503, status 500
Executed == {"ok", "again", "unanswered"}
Answered == {"ok", "again"}
Broken == {"lost", "unanswered", "gone", "down"}    \* a WebException

\* What may come of a request to a URL: ExecuteInner and Dispatch.
ServerResults(route, refusal) ==
  IF ~up THEN {"down"}
  ELSE IF ~route THEN {"gone"}
  ELSE {"ok"} \cup (IF glitches < MaxGlitches THEN Glitch ELSE {})
              \cup (IF refusals < MaxRefusals THEN refusal ELSE {})

\* While offline, Execute sends nothing.
Results(route, refusal) ==
  IF offline THEN {"skipped"} ELSE ServerResults(route, refusal)

\* Send computes the URL before Execute looks at _offline.
AgentResults(refusal) ==
  IF known THEN Results(current.live, refusal) ELSE {"null"}

Count(r) ==
  /\ glitches' = glitches + (IF r \in Glitch THEN 1 ELSE 0)
  /\ refusals' = refusals + (IF r \in Refusal THEN 1 ELSE 0)
  /\ disturbed' = (disturbed \/ r \in Refusal \cup {"lost", "unanswered"})
  /\ UNCHANGED crashes

\* Mutant: a context that is not there is no reason to reconnect.
MarkOffline_Down(r) == offline' = (offline \/ r \in Broken \ {"gone"})

\* Anything but an answer, 500 or 503 is a reason to reconnect.
MarkOffline(r) == offline' = (offline \/ r \in Broken)

-----------------------------------------------------------------------------
(* The engine, when something is thrown inside an iteration.               *)

\* A soft one is a fault if it carries one, or on a control iteration.  In the
\* first iteration, like a hard one, it ends the run.
Thrown(r) ==
  /\ at' = "finish"
  /\ \/ r = "soft" /\ faults' = TRUE /\ UNCHANGED aborting
     \/ r = "soft" /\ aborting' = first /\ UNCHANGED faults
     \/ r = "hard" /\ aborting' = TRUE /\ UNCHANGED faults
  /\ UNCHANGED <<first, lastFault>>

GoTo(place) == at' = place /\ UNCHANGED engineVars

\* An iteration goes on after whatever Guard ignores.
Proceed(r, place) == IF r \in Refusal THEN Thrown(r) ELSE GoTo(place)

-----------------------------------------------------------------------------
(* ReconnectAgent, for AgentConnect and for IterationStarting.             *)

Connecting == asked = 0

\* An agent that does not connect is removed from the collection.
Fails(r) == IF Connecting THEN GoTo("stop vm") ELSE Proceed(r, "run")

\* It waits for the server for a while.  Its failure leaves _offline as it is.
StartSink ==
  /\ at = "sink"
  /\ \/ up /\ GoTo("post") /\ UNCHANGED <<refusals, disturbed>>
     \/ /\ ~up /\ GoTo(IF Connecting THEN "stop vm" ELSE "run")
        /\ disturbed' = TRUE /\ UNCHANGED refusals
     \/ /\ up /\ refusals < MaxRefusals
        /\ Fails("soft")
        /\ refusals' = refusals + 1 /\ disturbed' = TRUE
  /\ UNCHANGED <<clientVars, offline, published, up, contextVars, publisher,
                 glitches, crashes, halfway, monitorVars, sent>>

\* Contexts that nobody knows any more.  One that is refused is disposed.
LeftBehind(r) ==
  (IF current.live THEN 1 ELSE 0)
  + (IF r \in Executed \ {"ok"} THEN 1 ELSE 0)

\* Mutant: _offline is reset when everything else is done.
OfflineAfter_Reset(r) == FALSE

OfflineAfter(r) == r \in Broken

\* A new context with all monitors, started.
Post ==
  /\ at = "post"
  /\ \E r \in ServerResults(TRUE, IF asked > 0 THEN Refusal ELSE {}) :
       /\ Count(r)
       /\ offline' = OfflineAfter(r)
       /\ known' = (r \in Answered)
       /\ stray' = stray + LeftBehind(r)
       /\ halfway' = (halfway \/ r \in Refusal)
       /\ IF r \in Answered
            THEN /\ current' = [live |-> TRUE, monitors |-> asked,
                                session |-> asked > 0]
                 /\ messages' = (asked > 0)
                 /\ GoTo(IF Connecting THEN "monitors" ELSE "rejoin")
            ELSE current' = Gone /\ Fails(r) /\ UNCHANGED messages
  /\ seen' = FALSE /\ hit' = FALSE
  /\ UNCHANGED <<asked, published, up, publisher, sent>>

\* IterationStarting, to the new context.
Rejoin ==
  /\ at = "rejoin"
  /\ \E r \in IF messages THEN AgentResults(Refusal) ELSE {"ok"} :
       /\ Count(r) /\ MarkOffline(r)
       /\ seen' = (messages /\ r \in Executed)
       /\ halfway' = (halfway \/ r \in Refusal)
       /\ Proceed(r, IF r \in Answered THEN "republish" ELSE "run")
  /\ UNCHANGED <<clientVars, published, up, contextVars, publisher, hit, sent>>

\* Mutant: the publishers are not created again.
Republish_Not ==
  /\ at = "republish" /\ GoTo("run") /\ halfway' = FALSE
  /\ UNCHANGED <<clientVars, offline, published, up, contextVars, publisher,
                 bounds, disturbed, monitorVars, sent>>

\* PublisherProxy.Connect, for a publisher that has been created before.
Republish ==
  /\ at = "republish"
  /\ \E r \in IF published THEN Results(TRUE, Refusal) ELSE {"ok"} :
       /\ Count(r) /\ MarkOffline(r)
       /\ publisher' = (published /\ r \in Answered)
       /\ halfway' = (r \notin Answered /\ (halfway \/ r \in Refusal))
       /\ Proceed(r, "run")
  /\ UNCHANGED <<clientVars, published, up, contextVars, monitorVars, sent>>

-----------------------------------------------------------------------------
(* AgentManager.Connect, after AgentConnect.                               *)

\* Mutant: the answer to the POST is not kept.
MessagesAfter_Connect(r) == messages

MessagesAfter(r) == messages \/ r = "ok"

\* Mutant: the server takes two monitors of one name.
IsDuplicate_Never(r) == FALSE

\* A monitor that is there already is refused; the second instance, made before
\* that is seen (MonitorHandler.cs:140), is in no collection and not counted.
IsDuplicate(r) == r = "again"

StartMonitor ==
  /\ at = "monitors" /\ asked < Monitors
  /\ asked' = asked + 1
  /\ \E r \in AgentResults({"hard"}) :
       /\ Count(r) /\ MarkOffline(r)
       /\ current' = IF r \in Executed
                       THEN [current EXCEPT !.monitors =
                               @ + (IF r = "again" /\ ~IsDuplicate(r)
                                    THEN 2 ELSE 1)]
                       ELSE current
       /\ messages' = MessagesAfter(r)
       /\ GoTo(IF r \in Answered /\ ~IsDuplicate(r) THEN "monitors" ELSE "end")
  /\ UNCHANGED <<known, published, up, stray, publisher, halfway, monitorVars,
                 sent>>

SessionStarting ==
  /\ at = "monitors" /\ asked = Monitors
  /\ \E r \in IF messages THEN AgentResults(Refusal) ELSE {"ok"} :
       /\ Count(r) /\ MarkOffline(r)
       /\ current' = IF messages /\ r \in Executed
                       THEN [current EXCEPT !.session = TRUE] ELSE current
       /\ GoTo(IF r \in Answered THEN "idle" ELSE "end")
  /\ UNCHANGED <<clientVars, published, up, stray, publisher, halfway,
                 monitorVars, sent>>

-----------------------------------------------------------------------------
(* An iteration.                                                           *)

Begin ==
  /\ at = "idle"
  /\ at' = "local" /\ faults' = FALSE
  /\ disturbed' = ~up /\ seen' = FALSE /\ hit' = FALSE /\ sent' = FALSE
  /\ UNCHANGED <<first, aborting, lastFault, clientVars, offline, published, up,
                 contextVars, publisher, bounds, halfway>>

ServerIsGone == current' = Gone /\ stray' = 0 /\ publisher' = FALSE

\* IterationStarting of the local agent: its monitor restarts the machine.
LocalStarting ==
  /\ at = "local" /\ GoTo("remote")
  /\ IF lastFault
       THEN up' = FALSE /\ ServerIsGone /\ disturbed' = FALSE
       ELSE UNCHANGED <<up, contextVars, publisher, disturbed>>
  /\ UNCHANGED <<clientVars, offline, published, bounds, halfway, monitorVars,
                 sent>>

\* IterationStarting of the remote agent.  It may be the first message to a
\* server that was started again.
RemoteStarting ==
  /\ at = "remote"
  /\ IF offline \/ ~messages
       THEN /\ GoTo(IF offline THEN "sink" ELSE "run")
            /\ UNCHANGED <<offline, glitches, refusals, disturbed, seen>>
       ELSE \E r \in AgentResults(Refusal) :
              /\ Count(r) /\ MarkOffline(r)
              /\ seen' = (r \in Executed)
              /\ Proceed(r, IF offline' THEN "sink" ELSE "run")
  /\ UNCHANGED <<clientVars, published, up, contextVars, publisher, crashes,
                 halfway, hit, sent>>

\* The first action of a publisher.  Nothing guards it.
CreatePublisher ==
  /\ at = "run" /\ ~published
  /\ \E r \in Results(TRUE, Refusal) :
       /\ Count(r) /\ MarkOffline(r)
       /\ published' = (r \in Answered) /\ publisher' = (r \in Answered)
       /\ IF r \in Answered THEN GoTo("run")
                           ELSE Thrown(IF r = "soft" THEN r ELSE "hard")
  /\ UNCHANGED <<clientVars, up, contextVars, halfway, monitorVars, sent>>

\* The state model.  The target may fail, for the monitors to see.
Output ==
  /\ at = "run" /\ published
  /\ \E r \in Results(publisher, Refusal) :
       /\ Count(r) /\ MarkOffline(r)
       /\ sent' = (r \in Executed)
       /\ hit' \in IF r \in Executed /\ current.live THEN BOOLEAN ELSE {FALSE}
       /\ Proceed(r, "finish")
  /\ UNCHANGED <<clientVars, published, up, contextVars, publisher, halfway,
                 seen>>

\* IterationFinished, in a finally block.
Finish ==
  /\ at = "finish"
  /\ \E r \in IF messages THEN AgentResults(Refusal) ELSE {"ok"} :
       /\ Count(r) /\ MarkOffline(r)
       /\ at' = IF aborting \/ r \in Refusal THEN "end" ELSE "detect"
  /\ first' = FALSE
  /\ UNCHANGED <<aborting, faults, lastFault, clientVars, published, up,
                 contextVars, publisher, halfway, monitorVars, sent>>

\* CollectFaults asks every agent, and then for the data if there is a fault.
Detect ==
  /\ at = "detect"
  /\ \E r \in IF messages THEN AgentResults(Refusal) ELSE {"null"} :
       /\ Count(r) /\ MarkOffline(r)
       /\ at' = CASE r \in Refusal -> "end"
                  [] (r \in Answered /\ hit) \/ faults -> "collect"
                  [] OTHER -> "idle"
  /\ lastFault' = FALSE
  /\ UNCHANGED <<first, aborting, faults, clientVars, published, up,
                 contextVars, publisher, halfway, monitorVars, sent>>

Collect ==
  /\ at = "collect"
  /\ \E r \in AgentResults(Refusal) :
       /\ Count(r) /\ MarkOffline(r)
       /\ faults' = (faults \/ (r \in Answered /\ hit))
       /\ at' = IF r \in Refusal THEN "end" ELSE "idle"
  /\ lastFault' = faults'
  /\ UNCHANGED <<first, aborting, clientVars, published, up, contextVars,
                 publisher, halfway, monitorVars, sent>>

-----------------------------------------------------------------------------
(* EndTest.                                                                *)

\* The last iteration has been run, or a fault ends the run.
Stop ==
  /\ at = "idle" /\ GoTo("end")
  /\ UNCHANGED <<clientVars, offline, published, up, contextVars, publisher,
                 bounds, disturbed, halfway, monitorVars, sent>>

StopPublisher ==
  /\ at = "end" /\ GoTo("session")
  /\ \E r \in IF published THEN Results(publisher, {}) ELSE {"null"} :
       /\ Count(r) /\ MarkOffline(r)
       /\ publisher' = (publisher /\ r \notin Executed)
  /\ UNCHANGED <<clientVars, published, up, contextVars, halfway, monitorVars,
                 sent>>

\* Mutant: the agents are left in the order they were joined.
LeavingOrder_Forward == <<"stop vm", "disconnect", "over">>

\* The agents are left in the reverse order.
LeavingOrder == <<"disconnect", "stop vm", "over">>

After(place) == LeavingOrder[1 + CHOOSE i \in 1..2 : LeavingOrder[i] = place]

\* SessionFinished of both agents.
SessionFinished ==
  /\ at = "session" /\ GoTo(LeavingOrder[1])
  /\ \E r \in IF messages THEN AgentResults({}) ELSE {"null"} :
       Count(r) /\ MarkOffline(r)
  /\ UNCHANGED <<clientVars, published, up, contextVars, publisher, halfway,
                 monitorVars, sent>>

AgentDisconnect ==
  /\ at = "disconnect" /\ GoTo(After("disconnect"))
  /\ \E r \in AgentResults({}) :
       /\ Count(r) /\ MarkOffline(r)
       /\ current' = IF r \in Executed THEN Gone ELSE current
  /\ UNCHANGED <<clientVars, published, up, stray, publisher, halfway,
                 monitorVars, sent>>

\* StopAllMonitors of the local agent.
StopMachine ==
  /\ at = "stop vm" /\ GoTo(After("stop vm"))
  /\ up' = FALSE /\ ServerIsGone
  /\ UNCHANGED <<clientVars, offline, published, bounds, disturbed, halfway,
                 monitorVars, sent>>

-----------------------------------------------------------------------------
(* The server.                                                             *)

Crash ==
  /\ up /\ at # "over" /\ crashes < MaxCrashes
  /\ up' = FALSE /\ ServerIsGone
  /\ crashes' = crashes + 1 /\ disturbed' = TRUE
  /\ UNCHANGED <<at, engineVars, clientVars, offline, published, glitches,
                 refusals, halfway, monitorVars, sent>>

Boot ==
  /\ ~up /\ at # "over" /\ up' = TRUE
  /\ UNCHANGED <<at, engineVars, clientVars, offline, published, contextVars,
                 publisher, bounds, disturbed, halfway, monitorVars, sent>>

Reconnect == StartSink \/ Post \/ Rejoin \/ Republish

Engine ==
  \/ Reconnect \/ StartMonitor \/ SessionStarting
  \/ Begin \/ LocalStarting \/ RemoteStarting \/ CreatePublisher \/ Output
  \/ Finish \/ Detect \/ Collect
  \/ StopPublisher \/ SessionFinished \/ AgentDisconnect \/ StopMachine

Next == Engine \/ Stop \/ Crash \/ Boot

Spec == Init /\ [][Next]_vars

\* Requests time out, and whoever hosts the server starts it again.
FairSpec == Spec /\ WF_vars(Engine) /\ WF_vars(Boot)

-----------------------------------------------------------------------------
(* Properties.                                                             *)

Places == {"sink", "post", "monitors", "rejoin", "republish", "idle", "local",
           "remote", "run", "finish", "detect", "collect", "end", "session",
           "disconnect", "stop vm", "over"}

EngineFlags ==
  /\ first \in BOOLEAN /\ aborting \in BOOLEAN
  /\ faults \in BOOLEAN /\ lastFault \in BOOLEAN

AgentFlags ==
  /\ messages \in BOOLEAN /\ known \in BOOLEAN /\ offline \in BOOLEAN
  /\ published \in BOOLEAN /\ up \in BOOLEAN /\ publisher \in BOOLEAN

HistoryFlags ==
  /\ disturbed \in BOOLEAN /\ halfway \in BOOLEAN
  /\ seen \in BOOLEAN /\ hit \in BOOLEAN /\ sent \in BOOLEAN

CountersOK ==
  /\ asked \in 0..Monitors /\ stray \in 0..(glitches + refusals)
  /\ glitches \in 0..MaxGlitches /\ refusals \in 0..MaxRefusals
  /\ crashes \in 0..MaxCrashes

\* The types, and the contexts.
TypeOK ==
  /\ at \in Places /\ current \in Context /\ CountersOK
  /\ EngineFlags /\ AgentFlags /\ HistoryFlags

\* A context never has a monitor twice in its collection, also if the request to
\* start it is executed twice.  Every reconnect gives up a context, whose
\* monitors run on if the server does; there are never more of them than
\* requests that failed: restarts of the machine and crashes of the server do
\* not make a client reconnect twice.
ContextsOK == current \in Context /\ stray \in 0..(glitches + refusals)

Ending == at \in {"end", "session", "disconnect", "stop vm", "over"}

\* When the state model runs, all monitors are up, in session, and have seen
\* the start of the iteration, unless the network, the server or a monitor
\* failed in this very iteration: whatever happened before it, a restart of
\* the machine included, has been made up for.  Not so for a client without
\* a URL that does not know it is offline, see ReconnectIsDue.
IterationIsMonitored ==
  at = "run" /\ ~disturbed /\ (known \/ offline) =>
    ~offline /\ current = Complete /\ seen

\* The output of an iteration in which nothing failed arrives, also by a
\* publisher that went down with the server before: reconnecting creates it
\* again.  Not so if the last reconnect was refused half way.
OutputArrives == at = "finish" /\ ~disturbed /\ ~halfway => sent

\* A fault that a monitor has seen is among the faults of the iteration.
FaultIsRecorded == at \in {"idle", "end"} /\ hit /\ ~disturbed => faults

\* "We need to ensure that the RemoteAgent is disconnected *before* the VM
\* monitor is stopped" (AgentManager.cs:121): when the machine is stopped its
\* monitors have been, unless something failed.
DisconnectsFirst ==
  [][at = "stop vm" /\ at' # at => ~current.live \/ disturbed \/ halfway]_vars

\* The agent is connected, and iterations go on.
Iterating ==
  at \in {"idle", "local", "remote", "run", "finish", "detect", "collect"}

Rejoining == at \in {"rejoin", "republish"}

\* What the client knows at which place.
ClientInv ==
  /\ Iterating \/ Rejoining => asked = Monitors /\ messages
  /\ at \in {"sink", "post"} =>
       IF Connecting THEN current = Gone /\ ~known /\ ~published
       ELSE asked = Monitors /\ messages /\ offline
  /\ at = "monitors" => known /\ ~offline /\ ~published
                        /\ (asked > 0 => messages)
  /\ Rejoining => known /\ ~offline
  /\ Iterating => known \/ offline \/ halfway

\* A context is on a server that is up, its client knows it, and it has all
\* monitors that the client has asked for.
ContextInv ==
  /\ ~up => current = Gone /\ ~publisher
  /\ ~known => current = Gone
  /\ current.live /\ at = "monitors" =>
       current.monitors = asked /\ ~current.session
  /\ current.live /\ (Iterating \/ Rejoining \/ at \in {"sink", "post"}) =>
       current = Complete

\* A live context and its publisher part only in a reconnect that is refused.
PublisherInv ==
  (published /\ current.live /\ ~offline /\ ~halfway
    /\ (Iterating \/ at = "end")) => publisher

\* A context that will be given up is owed to a request that failed before.
Owed ==
  /\ current.live /\ ~Ending
  /\ offline \/ (published /\ ~publisher /\ ~Rejoining)

StrayInv == Owed => stray < glitches + refusals

\* What a reconnect has achieved so far.
RejoinInv ==
  /\ at = "post" \/ Rejoining => up \/ disturbed
  /\ Rejoining => current.live \/ disturbed
  /\ at = "republish" => seen \/ disturbed

\* What a monitor has seen waits for the engine to ask.
HitInv ==
  /\ hit => at \in {"finish", "detect", "collect", "idle"} \/ Ending
  /\ aborting => (at = "finish" /\ ~hit) \/ Ending
  /\ at \in {"finish", "detect", "collect"} /\ hit /\ ~disturbed =>
       known /\ ~offline /\ current.live

\* An agent goes offline for a reason of this iteration, or that of an earlier
\* one is made up for before the state model runs.
OfflineInv ==
  /\ offline /\ current.live
       /\ (at \in {"run", "finish", "detect", "collect", "idle"} \/ Ending)
       => disturbed \/ halfway
  /\ at = "stop vm" => ~current.live \/ disturbed \/ halfway

\* The inductive invariant.
IInv ==
  /\ TypeOK
  /\ ClientInv /\ ContextInv /\ PublisherInv /\ StrayInv /\ RejoinInv
  /\ HitInv /\ OfflineInv
  /\ IterationIsMonitored /\ OutputArrives /\ FaultIsRecorded

\* An agent that has gone offline is there again for some iteration, unless a
\* monitor refuses to start or the run ends.
Reconnects ==
  offline ~> \/ at = "run" /\ ~offline /\ current = Complete
             \/ halfway \/ Ending

\* Refuted.  Between two iterations the agent is connected, or marked offline
\* "to trigger a future reconnect" (Client.cs:609, 628).
ReconnectIsDue == at = "idle" => known \/ offline
=============================================================================
