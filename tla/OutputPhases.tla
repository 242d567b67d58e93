---------------------------- MODULE OutputPhases ----------------------------
(***************************************************************************)
(* How an output action of the two-phase strategy sends its data over a    *)
(* TCP client with lifetime Iteration.  While the action starts, the       *)
(* strategy may send data mutated by the language model, over a connection *)
(* of its own; then the action sends its final data.  All exceptions of    *)
(* the first phase are swallowed, and one of them is answered by a retry.  *)
(*                                                                         *)
(* Three parties act: the engine's thread, which opens, writes and closes; *)
(* the peer, which may end or reset a connection, refuse the next one, or  *)
(* stop reading so that a connection takes no more data; and the callbacks *)
(* of the pool, which end a connection when their read ends.  A read that  *)
(* its socket did not survive completes later.                             *)
(*                                                                         *)
(* The data received and NoWriteException are left out.  The code is taken *)
(* as a release build: an assertion that does not hold changes nothing.    *)
(***************************************************************************)
EXTENDS Naturals

CONSTANTS
  Outputs,      \* output actions of an iteration
  MaxTroubles,  \* bound: connections refused, ended, reset or stalled
  MaxStale      \* bound: callbacks of closed sockets that have not run yet

ASSUME OutputAssumption ==
  /\ Outputs \in Nat \ {0} /\ MaxStale \in Nat \ {0}
  /\ MaxTroubles \in Nat

VARIABLES
  sendTimeout, \* parameter: a write has a timeout (SendTimeout >= 0)
  at,          \* where the engine's thread is
  phase,       \* what it sends there: SendOutputMessage, OnRun or neither
  action,      \* number of the output action
  isOpen, client, named, buffer, event,  \* fields of the publisher
  read,        \* BeginReceive is under way on its socket
  stale,       \* number of callbacks that belong to closed sockets
  troubles,    \* bound
  \* history
  fate,        \* what became of the latest connection
  early,       \* the first attempt of this action's first phase used it
  firstSent,   \* number of times the first phase began to write
  firstFailed, \* a write of the first phase failed
  final        \* what became of the final data

engineVars == <<at, phase, action>>
clientVars == <<client, named, event, read, stale>>
history == <<firstSent, firstFailed, final>>
vars == <<sendTimeout, engineVars, isOpen, buffer, clientVars, troubles, fate,
          early, history>>

\* OnStart has created the event as set.
Init ==
  /\ sendTimeout \in BOOLEAN
  /\ at = "begin" /\ phase = "end" /\ action = 0
  /\ isOpen = FALSE /\ client = FALSE /\ named = FALSE /\ buffer = FALSE
  /\ event = TRUE /\ read = FALSE /\ stale = 0 /\ troubles = 0
  /\ fate = "none" /\ early = FALSE
  /\ firstSent = 0 /\ firstFailed = FALSE /\ final = "pending"

-----------------------------------------------------------------------------
(* The control flow around the publisher.                                  *)

\* Mutants: no error of the first phase is answered by a retry; all of them are,
\* those of a retry included.
Retries_Never(e) == FALSE
Retries_Endless(e) == phase # "final"

\* The message of the exception decides, and there is one retry.
Retries(e) == phase = "first" /\ e = "uninitialized"

\* An exception that a call to the publisher throws, a SoftException with the
\* message of its cause.  From the action it ends the iteration.
Raise(e) ==
  /\ \/ phase # "final" /\ Retries(e) /\ at' = "close" /\ phase' = "retry"
     \/ phase # "final" /\ ~Retries(e) /\ at' = "open" /\ phase' = "final"
     \/ phase = "final" /\ at' = "close" /\ phase' = "end"
  /\ final' = IF phase = "final" THEN "lost" ELSE final
  /\ UNCHANGED action

\* Mutant: the connection of the first phase is kept for the final data.
Sent_KeepOpen ==
  /\ \/ phase \in {"first", "retry"} /\ at' = "open" /\ phase' = "final"
     \/ phase = "final" /\ action < Outputs /\ at' = "next" /\ phase' = "end"
     \/ phase = "final" /\ action = Outputs /\ at' = "close" /\ phase' = "end"
  /\ UNCHANGED action

\* output() has returned.
Sent ==
  /\ \/ phase = "first" /\ at' = "close" /\ UNCHANGED phase
     \/ phase = "retry" /\ at' = "open" /\ phase' = "final"
     \/ phase = "final" /\ action < Outputs /\ at' = "next" /\ phase' = "end"
     \/ phase = "final" /\ action = Outputs /\ at' = "close" /\ phase' = "end"
  /\ UNCHANGED action

\* close() has returned.
Closed ==
  /\ \/ phase = "first" /\ at' = "open" /\ phase' = "final"
     \/ phase = "retry" /\ at' = "open" /\ UNCHANGED phase
     \/ phase = "end" /\ at' = "begin" /\ UNCHANGED phase
  /\ UNCHANGED action

\* The next output action starts; the strategy may mutate its data with the
\* language model first.
StartAction(n) ==
  /\ action' = n /\ at' = "open" /\ phase' \in {"first", "final"}
  /\ firstSent' = 0 /\ firstFailed' = FALSE /\ final' = "pending"
  /\ early' = (phase' = "first")
  /\ UNCHANGED <<isOpen, buffer, clientVars, troubles, fate>>

Begin == at = "begin" /\ StartAction(1)

NextAction == at = "next" /\ StartAction(action + 1)

-----------------------------------------------------------------------------
(* The connection.                                                         *)

Outstanding == stale + (IF read THEN 1 ELSE 0)

\* The socket is closed; so many callbacks are still to run.
CloseClient(callbacks) ==
  /\ client' = FALSE /\ named' = FALSE /\ event' = TRUE
  /\ read' = FALSE /\ stale' = callbacks

\* StartClient failed after it had set _client: CloseClient, which looks for
\* a name first, closes it no more.
Jammed == client /\ ~named

\* open(): nothing if the publisher is open already.
AlreadyOpen ==
  /\ at = "open" /\ isOpen
  /\ at' = "output"
  /\ UNCHANGED <<phase, action, isOpen, buffer, clientVars, troubles,
                 fate, early, history>>

\* The connection was not made, or its address cannot be asked for.
NotConnected ==
  /\ Raise("no connection")
  /\ early' = (phase = "first")
  /\ UNCHANGED <<isOpen, buffer, event, read, stale, firstSent, firstFailed>>

Refused ==
  /\ at = "open" /\ ~isOpen /\ ~client
  /\ troubles < MaxTroubles /\ troubles' = troubles + 1
  /\ fate' = "refused"
  /\ NotConnected
  /\ UNCHANGED <<client, named>>

\* The peer resets the connection before StartClient asks for its address.
Jam ==
  /\ at = "open" /\ ~isOpen /\ ~client
  /\ troubles < MaxTroubles /\ troubles' = troubles + 1
  /\ client' = TRUE /\ fate' = "reset"
  /\ NotConnected
  /\ UNCHANGED named

\* _tcp is not null, so Connect does not connect again, and StartClient fails.
StillJammed ==
  /\ at = "open" /\ ~isOpen /\ Jammed
  /\ NotConnected
  /\ UNCHANGED <<client, named, troubles, fate>>

\* _client and its name are set without the lock.
Connected ==
  /\ at = "open" /\ ~isOpen /\ ~client
  /\ client' = TRUE /\ named' = TRUE /\ fate' = "up"
  /\ early' = (phase = "first")
  /\ at' = "start"
  /\ UNCHANGED <<phase, action, isOpen, buffer, event, read, stale,
                 troubles, history>>

ResetEvent == event' = FALSE

StartClient ==
  /\ at = "start"
  /\ buffer' = TRUE
  /\ ResetEvent
  /\ at' = "schedule"
  /\ UNCHANGED <<phase, action, isOpen, client, named, read, stale,
                 troubles, fate, early, history>>

\* If the socket is gone or was reset, the exception is swallowed.
ScheduleRead ==
  /\ at = "schedule"
  /\ IF client /\ fate = "reset"
       THEN CloseClient(stale)
       ELSE read' = client /\ UNCHANGED <<client, named, event, stale>>
  /\ isOpen' = TRUE
  /\ at' = "output"
  /\ UNCHANGED <<phase, action, buffer, troubles, fate, early, history>>

-----------------------------------------------------------------------------
(* output().                                                               *)

NotInitialized ==
  /\ at = "output" /\ ~client
  /\ Raise("uninitialized")
  /\ UNCHANGED <<isOpen, buffer, clientVars, troubles, fate, early, firstSent,
                 firstFailed>>

BeginWrite ==
  /\ at = "output" /\ client
  /\ at' = "writing"
  /\ firstSent' = IF phase = "final" THEN firstSent ELSE firstSent + 1
  /\ UNCHANGED <<phase, action, isOpen, buffer, clientVars, troubles,
                 fate, early, firstFailed, final>>

\* A full connection completes no write.
EndWrite ==
  /\ at = "writing" /\ client /\ fate \notin {"reset", "stalled"}
  /\ Sent
  /\ final' = IF phase = "final" THEN "sent" ELSE final
  /\ UNCHANGED <<isOpen, buffer, clientVars, troubles, fate, early, firstSent,
                 firstFailed>>

\* The connection is gone: the rest is dropped, and nothing is thrown.
CutWrite ==
  /\ at = "writing" /\ ~client
  /\ Sent
  /\ final' = IF phase = "final" THEN "lost" ELSE final
  /\ UNCHANGED <<isOpen, buffer, clientVars, troubles, fate, early, firstSent,
                 firstFailed>>

\* Mutant: the wait for a write ignores SendTimeout.
TimedOut_Never == FALSE

\* The connection has taken no data for SendTimeout milliseconds.
TimedOut == at = "writing" /\ fate = "stalled" /\ sendTimeout

\* A write fails as it begins or as it ends.  The publisher stays open.
WriteFails ==
  /\ at \in {"output", "writing"} /\ client
  /\ fate = "reset" \/ TimedOut
  /\ Outstanding <= MaxStale
  /\ CloseClient(Outstanding)
  /\ Raise("write error")
  /\ firstFailed' = (firstFailed \/ phase # "final")
  /\ UNCHANGED <<isOpen, buffer, troubles, fate, early, firstSent>>

-----------------------------------------------------------------------------
(* close().                                                                *)

AlreadyClosed ==
  /\ at = "close" /\ ~isOpen
  /\ Closed
  /\ UNCHANGED <<isOpen, buffer, clientVars, troubles, fate, early, history>>

\* Our side of the connection is shut down; the peer should end the other.
Shutdown ==
  /\ at = "close" /\ isOpen
  /\ at' = "waiting"
  /\ UNCHANGED <<phase, action, isOpen, buffer, clientVars, troubles,
                 fate, early, history>>

DropBuffer ==
  /\ buffer' = FALSE /\ isOpen' = FALSE
  /\ Closed
  /\ UNCHANGED <<troubles, fate, early, history>>

\* The connection has ended.
Ended ==
  /\ at = "waiting" /\ event
  /\ DropBuffer
  /\ UNCHANGED clientVars

Timeout ==
  /\ at = "waiting" /\ ~event
  /\ at' = "forcing"
  /\ UNCHANGED <<phase, action, isOpen, buffer, clientVars, troubles,
                 fate, early, history>>

\* Mutant: after the timeout the connection is left to itself.
ForceClose_Not == UNCHANGED clientVars

\* It may have ended after all.
ForceClose ==
  IF client THEN Outstanding <= MaxStale /\ CloseClient(Outstanding)
            ELSE UNCHANGED clientVars

CloseAnyway ==
  /\ at = "forcing"
  /\ ForceClose
  /\ DropBuffer

-----------------------------------------------------------------------------
(* The peer and the callbacks.                                             *)

\* The peer ends the connection, in answer to our shutdown or on its own.
PeerCloses ==
  /\ client /\ named /\ fate \in {"up", "stalled"}
  /\ fate' = "eof"
  /\ IF at \in {"waiting", "forcing"}
       THEN UNCHANGED troubles
       ELSE troubles < MaxTroubles /\ troubles' = troubles + 1
  /\ UNCHANGED <<engineVars, isOpen, buffer, clientVars, early, history>>

PeerResets ==
  /\ client /\ named /\ fate \in {"up", "stalled", "eof"}
  /\ fate' = "reset"
  /\ troubles < MaxTroubles /\ troubles' = troubles + 1
  /\ UNCHANGED <<engineVars, isOpen, buffer, clientVars, early, history>>

\* The peer stops reading: once the buffers of both sides are full, the
\* connection takes no more data.
PeerStalls ==
  /\ client /\ named /\ fate = "up"
  /\ fate' = "stalled"
  /\ troubles < MaxTroubles /\ troubles' = troubles + 1
  /\ UNCHANGED <<engineVars, isOpen, buffer, clientVars, early, history>>

\* It reads again.
PeerReads ==
  /\ client /\ named /\ fate = "stalled"
  /\ fate' = "up"
  /\ UNCHANGED <<engineVars, isOpen, buffer, clientVars, troubles, early,
                 history>>

\* OnReadComplete for a read that ended with its connection.
ReadComplete ==
  /\ read /\ fate \in {"eof", "reset"}
  /\ CloseClient(stale)
  /\ UNCHANGED <<engineVars, isOpen, buffer, troubles, fate, early, history>>

\* OnReadComplete for a read on a closed socket.  It asks the socket of the
\* publisher for the result, which is an error if there is one, and closes it.
StaleComplete ==
  /\ stale > 0
  /\ IF client /\ named
       THEN CloseClient(Outstanding - 1) /\ fate' = "mistaken"
       ELSE stale' = stale - 1 /\ UNCHANGED <<client, named, event, read, fate>>
  /\ UNCHANGED <<engineVars, isOpen, buffer, troubles, early, history>>

-----------------------------------------------------------------------------
Open == AlreadyOpen \/ Refused \/ Jam \/ StillJammed \/ Connected
        \/ StartClient \/ ScheduleRead
Output == NotInitialized \/ BeginWrite \/ EndWrite \/ CutWrite \/ WriteFails
Close == AlreadyClosed \/ Shutdown \/ Ended \/ Timeout \/ CloseAnyway
Engine ==
  /\ Begin \/ NextAction \/ Open \/ Output \/ Close
  /\ UNCHANGED sendTimeout
Peer ==
  /\ PeerCloses \/ PeerResets \/ PeerStalls \/ PeerReads
  /\ UNCHANGED sendTimeout
Pool ==
  /\ ReadComplete \/ StaleComplete
  /\ UNCHANGED sendTimeout

Next == Engine \/ Peer \/ Pool

Spec == Init /\ [][Next]_vars

\* The engine's thread runs, but for a write on a full connection, whose wait
\* may have no timeout; the other waits have one, and the pool runs its
\* callbacks.  The peer need do nothing: it may never read again.
FairSpec == Spec /\ WF_vars(Engine) /\ WF_vars(Pool)

-----------------------------------------------------------------------------
\* The variables have their types.  A connection is complete or none, but for
\* one that StartClient gave up, and only a client with a name is being read.
PlacesOK ==
  /\ at \in {"begin", "next", "open", "start", "schedule", "output", "writing",
             "close", "waiting", "forcing"}
  /\ phase \in {"first", "retry", "final", "end"}
  /\ fate \in {"none", "up", "stalled", "refused", "eof", "reset", "mistaken"}
  /\ final \in {"pending", "sent", "lost"}

CountersOK ==
  /\ action \in 0..Outputs /\ firstSent \in Nat
  /\ stale \in 0..MaxStale /\ troubles \in 0..MaxTroubles

FlagsOK ==
  /\ sendTimeout \in BOOLEAN /\ isOpen \in BOOLEAN /\ client \in BOOLEAN
  /\ named \in BOOLEAN /\ buffer \in BOOLEAN /\ event \in BOOLEAN
  /\ read \in BOOLEAN /\ early \in BOOLEAN /\ firstFailed \in BOOLEAN

ClientOK == (named => client) /\ (read => named)

TypeOK == PlacesOK /\ CountersOK /\ FlagsOK /\ ClientOK

\* The final data of an action is written unless the connection made for it
\* was refused, has ended, or took no data until the write timed out: what the
\* peer does to the connection of the first phase costs nothing.  Two troubles
\* of the first phase excuse the loss all the same, a failed write
\* (FirstErrorIsHarmless) and a jammed publisher.
FinalIsSent ==
  final = "lost" => \/ fate # "up" /\ ~early
                    \/ firstFailed
                    \/ Jammed

\* The data of the first phase is written at most once: the retry is for the
\* case that nothing was.
FirstAtMostOnce == firstSent <= 1

\* The final data never goes over a connection that the first attempt of the
\* first phase used.  Over that of the retry it does, for nothing closes it
\* (TwoPhaseRandomStrategy.cs:657).
FinalIsFresh == at = "writing" /\ phase = "final" => ~early

\* Nothing of a connection outlives its iteration, not even of one whose peer
\* never answered the shutdown, but for a jammed client.
NothingIsLeft ==
  at = "begin" =>
    ~isOpen /\ ~buffer /\ ~read /\ (client => Jammed)

\* A callback finds the buffer that it appends to: OnClose does not drop it
\* before the connection is gone.
ReadHasBuffer == read => buffer

\* The event is set only while there is no connection to wait for: OnClose
\* never takes an earlier end for the end of this connection.
EventTellsEnd ==
  event /\ client => Jammed \/ at = "start"

\* Where the publisher is open, has a buffer and has a named client.
PublisherInv ==
  /\ at \in {"output", "writing", "waiting", "forcing"} => isOpen
  /\ at \in {"begin", "start", "schedule"} => ~isOpen
  /\ phase = "retry" /\ at = "open" => ~isOpen
  /\ (buffer <=> isOpen \/ at = "schedule")
  /\ named => isOpen \/ at \in {"start", "schedule"}
  /\ read => isOpen
  /\ ~client /\ (isOpen \/ at \in {"start", "schedule"}) => fate # "up"
  /\ Jammed => ~isOpen /\ at \notin {"start", "schedule"}
  /\ at = "next" => action < Outputs

\* What the phases before have left, when one goes on to the next.
PhaseInv ==
  /\ at \in {"open", "start", "schedule", "output", "writing"} => phase # "end"
  /\ phase = "first" /\ at \in {"open", "start", "schedule", "output"}
       => firstSent = 0
  /\ phase = "retry" /\ at # "writing" => firstSent = 0
  /\ phase = "retry" /\ at \in {"start", "schedule", "output", "writing"}
       => ~early
  /\ phase = "final" /\ early
       => at \in {"open", "output"} /\ (isOpen => ~client /\ firstFailed)
  /\ final = "lost" => phase = "end" /\ ~named

\* The inductive invariant.
IInv == TypeOK /\ PublisherInv /\ PhaseInv /\ EventTellsEnd /\ FirstAtMostOnce
        /\ FinalIsSent

\* The write waits for a full connection, and without a timeout.
Blocked == at = "writing" /\ client /\ fate = "stalled" /\ ~sendTimeout

\* Every output action ends, whatever the peer does: the iteration goes on, or
\* it ends and the publisher is closed.  One thing holds it for ever, a peer
\* that keeps the connection and reads no more while SendTimeout is infinite,
\* which is the default (TcpClientPublisher.cs:39).
ActionEnds ==
  phase \in {"first", "final"} ~> (at \in {"next", "begin"} \/ []Blocked)

\* A failed write of the first phase costs no final data.  It does: CloseClient
\* leaves _isOpen set, so the open() of the action does nothing, its output()
\* finds no client, and the iteration ends without its final data.
FirstErrorIsHarmless == final = "lost" => ~(firstFailed /\ early)
=============================================================================
