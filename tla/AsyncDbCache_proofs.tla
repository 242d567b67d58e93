------------------------ MODULE AsyncDbCache_proofs ------------------------
(***************************************************************************)
(* The invariants of AsyncDbCache hold for all values of its constants:    *)
(* for every limit of the queue and any number of iterations, faults,      *)
(* pauses and stops, whether the storage fails or not. IInv is inductive.  *)
(* Beside the properties it says which call the engine and the web request *)
(* make at each of their places (EngineCallInv, WebCallInv), where the     *)
(* entry is that a client waits for (WaitInv), which batches of metrics    *)
(* are still in the queue, and in which order (BatchInv), what the copies  *)
(* of the job have counted (CalmInv), and which of them is the newest      *)
(* (NewestInv, FinalInv). One lemma for every action shows that it keeps   *)
(* IInv; the last part shows that the storage keeps what MetricLog         *)
(* promises.                                                               *)
(***************************************************************************)
EXTENDS AsyncDbCache, SequenceTheorems, TLAPS

-----------------------------------------------------------------------------
(* Entries, calls and sequences.                                           *)

\* An entry is made of its parts.
LEMMA EntryTyped ==
  ASSUME NEW kind \in {"none", "update", "final", "close"}, NEW copy \in Jobs,
         NEW batch \in Nat, NEW newStatus \in Statuses \cup {"same"},
         NEW by \in Clients \cup {"nobody"}
  PROVE  Entry(kind, copy, batch, newStatus, by) \in Entries
BY DEF Entry, Entries

\* A new job is a job.
LEMMA NoJobTyped == NoJob \in Jobs
BY StorageAssumption DEF NoJob, Jobs

\* So is nothing an entry.
LEMMA NoEntryTyped ==
  /\ NoEntry \in Entries
  /\ NoEntry.kind = "none" /\ NoEntry.batch = 0 /\ NoEntry.by = "nobody"
  /\ NoEntry.status = "same" /\ Counted(NoEntry.copy) = 0
<1>1. NoEntry \in Entries
  BY EntryTyped, NoJobTyped DEF NoEntry
<1> QED
  BY <1>1 DEF NoEntry, Entry, NoJob, Counted

\* And no call a call.
LEMMA NoCallTyped == NoCall \in Calls /\ NoCall.at = "idle"
BY NoEntryTyped DEF NoCall, Calls

\* A client makes a call.
LEMMA IssueFacts ==
  ASSUME ClientsOK, NEW c \in Clients, NEW entry \in Entries,
         NEW front \in BOOLEAN, Idle(c), Issue(c, entry, front)
  PROVE  /\ call' \in [Clients -> Calls]
         /\ call'[c] = [at |-> "checking", entry |-> entry, front |-> front]
         /\ \A d \in Clients \ {c} : call'[d] = call[d]
         /\ \A d \in Clients : call'[d].at = "adding" <=> call[d].at = "adding"
BY DEF ClientsOK, Idle, Issue, Calls

\* The places in the queue do not depend on the calls before they add.
LEMMA PlacesStay ==
  ASSUME PermitsOK, UNCHANGED queueVars,
         \A d \in Clients : call'[d].at = "adding" <=> call[d].at = "adding"
  PROVE  PermitsOK'
BY DEF PermitsOK, queueVars, Clients

\* What the databases are given of a job: it counts what the copy counts.
LEMMA StampFacts ==
  ASSUME NEW copy \in Jobs, NEW b \in BOOLEAN
  PROVE  /\ [copy EXCEPT !.stopped = b] \in Jobs
         /\ [copy EXCEPT !.stopped = b].iterations = copy.iterations
         /\ [copy EXCEPT !.stopped = b].stopped = b
         /\ Counted([copy EXCEPT !.stopped = b]) = Counted(copy)
         /\ copy.stopped = b => [copy EXCEPT !.stopped = b] = copy
BY DEF Jobs, Counted

\* What the task makes of the copy in an entry.
LEMMA AppliedFacts ==
  ASSUME running \in Entries
  PROVE  /\ AppliedCopy \in Jobs
         /\ AppliedCopy.iterations = running.copy.iterations
         /\ Counted(AppliedCopy) = Counted(running.copy)
         /\ running.kind = "final" => AppliedCopy.stopped
         /\ running.kind # "final" => AppliedCopy = running.copy
<1>1. running.copy \in Jobs
  BY DEF Entries
<1> QED
  BY <1>1 DEF AppliedCopy, Jobs, Counted

\* Adding an entry at the front of the queue.
LEMMA FrontFacts ==
  ASSUME NEW S, NEW q \in Seq(S), NEW e \in S, NEW r, r = <<e>> \o q
  PROVE  /\ r \in Seq(S) /\ r # <<>>
         /\ Len(q) \in Nat /\ Len(r) = Len(q) + 1
         /\ r[1] = e
         /\ \A i \in 2..Len(r) : i - 1 \in 1..Len(q) /\ r[i] = q[i - 1]
         /\ \A i \in 1..Len(q) : i + 1 \in 1..Len(r) /\ r[i + 1] = q[i]
<1>1. <<e>> \in Seq(S) /\ Len(<<e>>) = 1 /\ <<e>>[1] = e
  OBVIOUS
<1>2. /\ r \in Seq(S) /\ Len(r) = 1 + Len(q)
      /\ \A i \in 1..(1 + Len(q)) :
           r[i] = IF i <= 1 THEN <<e>>[i] ELSE q[i - 1]
  BY <1>1, ConcatProperties
<1>3. Len(q) \in Nat
  BY LenProperties
<1>4. r # <<>>
  BY <1>2, <1>3, EmptySeq
<1> QED
  BY <1>1, <1>2, <1>3, <1>4

\* Adding one at its back.
LEMMA BackFacts ==
  ASSUME NEW S, NEW q \in Seq(S), NEW e \in S, NEW r, r = Append(q, e)
  PROVE  /\ r \in Seq(S) /\ r # <<>>
         /\ Len(q) \in Nat /\ Len(r) = Len(q) + 1
         /\ r[Len(r)] = e
         /\ \A i \in 1..Len(q) : i \in 1..Len(r) /\ r[i] = q[i]
<1>1. Len(q) \in Nat
  BY LenProperties
<1> QED
  BY <1>1, AppendProperties

\* Taking the first.
LEMMA TakeFacts ==
  ASSUME NEW S, NEW q \in Seq(S), q # <<>>, NEW r, r = Tail(q)
  PROVE  /\ Len(q) \in Nat /\ 1 \in 1..Len(q) /\ q[1] \in S
         /\ Head(q) = q[1]
         /\ r \in Seq(S) /\ Len(r) = Len(q) - 1
         /\ \A i \in 1..Len(r) : i + 1 \in 1..Len(q) /\ r[i] = q[i + 1]
         /\ \A i \in 2..Len(q) : i - 1 \in 1..Len(r) /\ r[i - 1] = q[i]
         /\ r = <<>> <=> Len(q) = 1
<1>1. Len(q) \in Nat \ {0}
  BY EmptySeq
<1>2. q[1] \in S /\ Head(q) = q[1]
  BY <1>1, ElementOfSeq
<1>3. /\ r \in Seq(S) /\ Len(r) = Len(q) - 1
      /\ \A i \in 1..Len(r) : r[i] = q[i + 1]
  BY HeadTailProperties
<1>4. r = <<>> <=> Len(r) = 0
  BY <1>3, EmptySeq
<1> QED
  BY <1>1, <1>2, <1>3, <1>4

-----------------------------------------------------------------------------
(* The beginning, and what every caller of the cache does.                 *)

\* Nothing is in the queue, and the engine has no job to store yet.
LEMMA InitIInv ==
  ASSUME Init
  PROVE  IInv
<1>1. PermitsOK
  BY StorageAssumption DEF Init, PermitsOK, NoCall, Clients, Bit
<1>2. TaskOK
  BY NoEntryTyped DEF Init, TaskOK
<1>3. ClientsOK /\ DataOK
  BY StorageAssumption DEF Init, NoCall, NoEntry, NoJob, Entry, ClientsOK,
    Calls, Entries, Jobs, Statuses, DataOK
<1>4. EngineInv /\ EngineCallInv /\ WebCallInv /\ WaitInv /\ EntryInv
  BY DEF Init, NoCall, NoEntry, Entry, EngineInv, Idle, Clients, EngineCallInv,
    WebCallInv, WaitInv, EntryInv
<1>5. BatchInv /\ CalmInv
  BY DEF Init, NoCall, NoEntry, NoJob, Entry, BatchInv, InOrder, NoneLost,
    Taken, Queued, Bit, Clients, CalmInv, CountedInOrder, Counted
<1>6. NewestInv /\ FinalInv /\ RowNeverAhead /\ ResultIsFinal
  BY DEF Init, NoEntry, NoJob, Entry, NewestInv, FinalInv, RowNeverAhead,
    ResultIsFinal
<1> QED
  BY <1>1, <1>2, <1>3, <1>4, <1>5, <1>6 DEF IInv, TypeOK

\* The task has failed, or a place in the queue is next.
LEMMA CheckTaskKeeps ==
  ASSUME IInv, NEW c \in Clients, CheckTask(c)
  PROVE  IInv'
<1>1. ClientsOK'
  BY DEF CheckTask, Move, IInv, TypeOK, ClientsOK, Calls
<1>2. PermitsOK'
  BY PlacesStay DEF CheckTask, Move, IInv, TypeOK
<1>3. TaskOK' /\ DataOK'
  BY DEF CheckTask, taskVars, history, IInv, TypeOK, TaskOK, DataOK
<1>4. EngineInv' /\ EngineCallInv' /\ WebCallInv' /\ WaitInv' /\ EntryInv'
  BY DEF CheckTask, Move, taskVars, queueVars, history, IInv, TypeOK,
    EngineInv, Idle, ClientsOK, Clients, EngineCallInv, WebCallInv, WaitInv,
    EntryInv, Proper
<1>5. BatchInv' /\ CalmInv'
  BY DEF CheckTask, Move, taskVars, queueVars, history, IInv, BatchInv,
    InOrder, NoneLost, Taken, Queued, Calling, CalmInv, CountedInOrder, Calm,
    Counted
<1>6. NewestInv' /\ FinalInv' /\ RowNeverAhead' /\ ResultIsFinal'
  BY DEF CheckTask, Move, taskVars, queueVars, history, IInv, NewestInv,
    Calling, Idle, FinalInv, RowNeverAhead, ResultIsFinal
<1> QED
  BY <1>1, <1>2, <1>3, <1>4, <1>5, <1>6 DEF IInv, TypeOK

\* The caller finds the task failed and gives up.
LEMMA TaskIsFaultedKeeps ==
  ASSUME IInv, NEW c \in Clients, TaskIsFaulted(c)
  PROVE  IInv'
<1>1. ClientsOK'
  <2>1. call' \in [Clients -> Calls]
    BY NoCallTyped DEF TaskIsFaulted, IInv, TypeOK, ClientsOK
  <2> QED
    BY <2>1 DEF TaskIsFaulted, IInv, TypeOK, ClientsOK
<1>2. PermitsOK' /\ TaskOK' /\ DataOK'
  BY DEF TaskIsFaulted, NoCall, taskVars, queueVars, history, IInv, TypeOK,
    PermitsOK, ClientsOK, Clients, TaskOK, DataOK
<1>3. EngineInv' /\ EngineCallInv' /\ WebCallInv' /\ WaitInv' /\ EntryInv'
  BY DEF TaskIsFaulted, NoCall, taskVars, queueVars, history, IInv, TypeOK,
    EngineInv, Idle, ClientsOK, EngineCallInv, WebCallInv, WaitInv, EntryInv,
    Proper
<1>4. CalmInv'
  <2>1. /\ engine' \notin {"closed", "done"} => engine \notin {"closed", "done"}
        /\ Calm' => Calm
    BY DEF TaskIsFaulted, Calm, EngineInv, Idle, IInv
  <2>2. /\ task = "failed"
        /\ UNCHANGED <<task, job, taskJob, shared, stored, handed>>
    BY DEF TaskIsFaulted, taskVars, history
  <2> QED
    BY <2>1, <2>2 DEF CalmInv, Counted, IInv
<1>5. BatchInv'
  BY DEF TaskIsFaulted, NoCall, taskVars, history, IInv, BatchInv
<1>6. NewestInv'
  <2>1. /\ engine' \notin {"closed", "done"} => engine \notin {"closed", "done"}
        /\ engine' = "paused" /\ Idle("engine")' =>
             engine = "paused" /\ Idle("engine")
    BY DEF TaskIsFaulted, EngineInv, Idle, IInv
  <2>2. /\ task = "failed"
        /\ UNCHANGED <<task, job, row, finished, status, stops>>
    BY DEF TaskIsFaulted, taskVars, history
  <2> QED
    BY <2>1, <2>2 DEF NewestInv, IInv
<1>7. FinalInv'
  <2>1. CASE c = "web"
    BY <2>1 DEF TaskIsFaulted, FinalInv, Idle, taskVars, queueVars, history,
      IInv
  <2>2. CASE c = "engine"
    <3>1. \A i \in 1..Len(queue) : queue[i].by # "engine"
      BY <2>2 DEF TaskIsFaulted, WaitInv, IInv, Clients
    <3>2. running.kind = "none"
      BY NoEntryTyped DEF TaskIsFaulted, EntryInv, IInv
    <3>3. engine' = "failed" /\ UNCHANGED <<queue, running>>
      BY <2>2 DEF TaskIsFaulted, taskVars, queueVars
    <3> QED
      BY <3>1, <3>2, <3>3 DEF FinalInv, EntryInv, Proper, IInv
  <2> QED
    BY <2>1, <2>2 DEF Clients
<1>8. RowNeverAhead' /\ ResultIsFinal'
  BY DEF TaskIsFaulted, taskVars, history, IInv, RowNeverAhead, ResultIsFinal
<1> QED
  BY <1>1, <1>2, <1>3, <1>4, <1>5, <1>6, <1>7, <1>8 DEF IInv, TypeOK

\* The second of waiting is over: the task is checked again.
LEMMA WaitExpiresKeeps ==
  ASSUME IInv, NEW c \in Clients, WaitExpires(c)
  PROVE  IInv'
<1>1. ClientsOK'
  BY DEF WaitExpires, Move, IInv, TypeOK, ClientsOK, Calls
<1>2. PermitsOK'
  BY PlacesStay DEF WaitExpires, Move, IInv, TypeOK
<1>3. TaskOK' /\ DataOK'
  BY DEF WaitExpires, taskVars, history, IInv, TypeOK, TaskOK, DataOK
<1>4. EngineInv' /\ EngineCallInv' /\ WebCallInv' /\ WaitInv' /\ EntryInv'
  BY DEF WaitExpires, Move, taskVars, queueVars, history, IInv, TypeOK,
    EngineInv, Idle, ClientsOK, Clients, EngineCallInv, WebCallInv, WaitInv,
    EntryInv, Proper
<1>5. BatchInv' /\ CalmInv'
  BY DEF WaitExpires, Move, taskVars, queueVars, history, IInv, BatchInv,
    InOrder, NoneLost, Taken, Queued, Calling, CalmInv, CountedInOrder, Calm,
    Counted
<1>6. NewestInv' /\ FinalInv' /\ RowNeverAhead' /\ ResultIsFinal'
  BY DEF WaitExpires, Move, taskVars, queueVars, history, IInv, NewestInv,
    Calling, Idle, FinalInv, RowNeverAhead, ResultIsFinal
<1> QED
  BY <1>1, <1>2, <1>3, <1>4, <1>5, <1>6 DEF IInv, TypeOK

\* A place in the queue is taken.
LEMMA AcquireKeeps ==
  ASSUME IInv, NEW c \in Clients, Acquire(c)
  PROVE  IInv'
<1>1. ClientsOK'
  BY DEF Acquire, Move, IInv, TypeOK, ClientsOK, Calls
<1>2. PermitsOK'
  BY DEF Acquire, Move, MayEnter, IInv, TypeOK, PermitsOK, ClientsOK, Clients,
    Bit
<1>3. TaskOK' /\ DataOK'
  BY DEF Acquire, taskVars, history, IInv, TypeOK, TaskOK, DataOK
<1>4. EngineInv' /\ EngineCallInv' /\ WebCallInv' /\ WaitInv' /\ EntryInv'
  BY DEF Acquire, Move, MayEnter, taskVars, history, IInv, TypeOK, EngineInv,
    Idle, ClientsOK, Clients, EngineCallInv, WebCallInv, WaitInv, EntryInv,
    Proper
<1>5. BatchInv' /\ CalmInv'
  BY DEF Acquire, Move, taskVars, history, IInv, BatchInv, InOrder, NoneLost,
    Taken, Queued, Calling, CalmInv, CountedInOrder, Calm, Counted
<1>6. NewestInv' /\ FinalInv' /\ RowNeverAhead' /\ ResultIsFinal'
  BY DEF Acquire, Move, taskVars, history, IInv, NewestInv, Calling, Idle,
    FinalInv, RowNeverAhead, ResultIsFinal
<1> QED
  BY <1>1, <1>2, <1>3, <1>4, <1>5, <1>6 DEF IInv, TypeOK

\* The entry enters the queue at its end or at its front.
LEMMA AddKeeps ==
  ASSUME IInv, NEW c \in Clients, Add(c)
  PROVE  IInv'
<1>1. call[c].entry \in Entries /\ queue \in Seq(Entries)
  BY DEF IInv, TypeOK, ClientsOK, Calls, PermitsOK
<1>2. call[c].front =>
        /\ queue' # <<>> /\ Len(queue) \in Nat /\ Len(queue') = Len(queue) + 1
        /\ queue'[1] = call[c].entry
        /\ \A i \in 2..Len(queue') :
             i - 1 \in 1..Len(queue) /\ queue'[i] = queue[i - 1]
        /\ \A i \in 1..Len(queue) :
             i + 1 \in 1..Len(queue') /\ queue'[i + 1] = queue[i]
        /\ call[c].entry.by = c /\ call[c].entry.batch = 0
  BY <1>1 DEF Add, WithEntry, IInv, Idle, EngineCallInv, WebCallInv, Clients
<1>3. ~call[c].front =>
        /\ queue' # <<>> /\ Len(queue) \in Nat /\ Len(queue') = Len(queue) + 1
        /\ queue'[Len(queue')] = call[c].entry
        /\ \A i \in 1..Len(queue) :
             i \in 1..Len(queue') /\ queue'[i] = queue[i]
        /\ c = "engine" /\ call[c].entry.copy = job
        /\ call[c].entry.batch \in {0, handed}
        /\ call[c].entry.by \in {"engine", "nobody"}
        /\ call[c].entry.status = "same"
  BY <1>1 DEF Add, WithEntry, IInv, Idle, EngineCallInv, WebCallInv, Clients
<1>4. /\ call[c].at = "adding" /\ running.by # c
      /\ \A i \in 1..Len(queue) : queue[i].by # c
  BY DEF Add, WaitInv, IInv
<1>5. Proper(call[c].entry)
  BY DEF Add, Proper, Idle, EngineInv, EngineCallInv, WebCallInv, IInv, TypeOK,
    ClientsOK, Clients
<1>6. \A d \in Clients \ {c} : call'[d] = call[d]
  BY DEF Add, IInv, TypeOK, ClientsOK
<1>7. c = "engine" =>
        /\ call[c].entry.copy = job
        /\ engine = "draining" => ~call[c].front
        /\ engine = "closing" => ~call[c].front /\ call[c].entry.kind = "close"
        /\ call[c].entry.kind = "final" => engine = "draining"
        /\ engine \in {"fuzzing", "paused", "stopping", "draining", "closing"}
  BY DEF Add, Idle, EngineInv, EngineCallInv, IInv, TypeOK, ClientsOK
<1>8. \A i \in 1..Len(queue) : queue[i].batch \in Nat
  <2> SUFFICES ASSUME NEW i \in 1..Len(queue)
               PROVE  queue[i].batch \in Nat
    OBVIOUS
  <2>1. queue[i] \in Entries
    BY <1>1, ElementOfSeq
  <2> QED
    BY <2>1 DEF Entries
<1>9. ClientsOK'
  <2>1. call' \in [Clients -> Calls]
    BY NoCallTyped DEF Add, IInv, TypeOK, ClientsOK, Calls
  <2> QED
    BY <2>1 DEF Add, IInv, TypeOK, ClientsOK
<1>10. PermitsOK'
  <2>1. /\ queue' \in Seq(Entries) /\ Len(queue') = Len(queue) + 1
        /\ Len(queue) \in Nat
    BY <1>1 DEF Add, WithEntry
  <2>2. call[c].at = "adding" /\ call'[c].at # "adding"
        /\ \A d \in Clients \ {c} : call'[d] = call[d]
    BY NoCallTyped DEF Add, IInv, TypeOK, ClientsOK
  <2>3. permits' = permits
    BY DEF Add
  <2> QED
    BY <2>1, <2>2, <2>3 DEF PermitsOK, Bit, IInv, TypeOK, Clients
<1>11. TaskOK' /\ DataOK'
  BY DEF Add, taskVars, history, IInv, TypeOK, TaskOK, DataOK
<1>12. WaitInv'
  <2>1. CASE call[c].front
    <3>1. \A d \in Clients \ {c} :
            call'[d] = call[d] /\ (running.by = d <=> running'.by = d)
      BY <1>6 DEF Add, taskVars
    <3>2. call'[c].at = "waiting" /\ call'[c].entry = call[c].entry
      BY <2>1, <1>2 DEF Add, IInv, TypeOK, ClientsOK
    <3>3. running' = running
      BY DEF Add, taskVars
    <3>4. ASSUME NEW d \in Clients \ {c}, NEW i \in 1..Len(queue'),
                 queue'[i].by = d
          PROVE  /\ call[d].at = "waiting" /\ queue'[i] = call[d].entry
                 /\ running.by # d
                 /\ \A j \in 1..Len(queue') : queue'[j].by = d => j = i
      <4>1. i \in 2..Len(queue')
        BY <2>1, <1>2, <3>4
      <4>2. i - 1 \in 1..Len(queue) /\ queue'[i] = queue[i - 1]
        BY <2>1, <1>2, <4>1
      <4>3. ASSUME NEW j \in 1..Len(queue'), queue'[j].by = d
            PROVE  j = i
        <5>1. j \in 2..Len(queue')
          BY <2>1, <1>2, <4>3
        <5>2. j - 1 \in 1..Len(queue) /\ queue'[j] = queue[j - 1]
          BY <2>1, <1>2, <5>1
        <5>3. j - 1 = i - 1
          BY <3>4, <4>2, <4>3, <5>2 DEF WaitInv, IInv
        <5> QED
          BY <4>1, <5>1, <5>3
      <4> QED
        BY <3>4, <4>2, <4>3 DEF WaitInv, IInv
    <3>5. \A i \in 1..Len(queue') : queue'[i].by = c => i = 1
      BY <2>1, <1>2, <1>4
    <3> QED
      BY <2>1, <1>2, <1>4, <3>1, <3>2, <3>3, <3>4, <3>5 DEF WaitInv, IInv
  <2>2. CASE ~call[c].front
    <3>1. \A d \in Clients \ {c} : call'[d] = call[d]
      BY <1>6
    <3>2. \/ /\ call'[c].at = "waiting" /\ call'[c].entry = call[c].entry
             /\ call[c].entry.by = c
          \/ call'[c].at = "idle" /\ call[c].entry.by = "nobody"
      BY <2>2, <1>3, NoCallTyped DEF Add, IInv, TypeOK, ClientsOK
    <3>3. running' = running /\ "nobody" \notin Clients
      BY DEF Add, taskVars, Clients
    <3> QED
      BY <2>2, <1>3, <1>4, <3>1, <3>2, <3>3 DEF WaitInv, IInv
  <2> QED
    BY <2>1, <2>2
<1>13. EntryInv'
  <2>1. CASE call[c].front
    <3>1. \A i \in 1..Len(queue') : Proper(queue'[i])
      BY <2>1, <1>2, <1>5 DEF EntryInv, IInv
    <3> QED
      BY <3>1 DEF Add, EntryInv, Proper, taskVars, IInv
  <2>2. CASE ~call[c].front
    <3>1. \A i \in 1..Len(queue') : Proper(queue'[i])
      BY <2>2, <1>3, <1>5 DEF EntryInv, IInv
    <3> QED
      BY <3>1 DEF Add, EntryInv, Proper, taskVars, IInv
  <2> QED
    BY <2>1, <2>2
<1>14. EngineInv' /\ EngineCallInv' /\ WebCallInv'
  BY DEF Add, NoCall, WithEntry, taskVars, history, IInv, TypeOK, EngineInv,
    Idle, ClientsOK, Clients, EngineCallInv, WebCallInv
<1>15. BatchInv'
  <2>1. CASE call[c].front
    <3>1. Queued' = Queued /\ Taken' = Taken /\ Taken \in Nat
      BY <2>1, <1>2, <1>4 DEF Add, Queued, Taken, Calling, Bit, taskVars,
        history
    <3>2. (call'["engine"].at = "waiting" /\ call'["engine"].entry.batch # 0)
            => (call["engine"].at = "waiting" /\ call["engine"].entry.batch # 0)
      BY <2>1, <1>2, <1>4 DEF Add
    <3>3. InOrder => InOrder'
      <4> SUFFICES ASSUME InOrder, NEW i \in 1..Len(queue'), queue'[i].batch # 0
                   PROVE  /\ Taken < queue'[i].batch
                          /\ queue'[i].batch <= Queued
                          /\ \A j \in 1..Len(queue') :
                               j < i => queue'[j].batch < queue'[i].batch
        BY <3>1 DEF InOrder
      <4>1. i \in 2..Len(queue')
        BY <2>1, <1>2
      <4>2. i - 1 \in 1..Len(queue) /\ queue'[i] = queue[i - 1]
        BY <2>1, <1>2, <4>1
      <4>3. Taken < queue'[i].batch /\ queue'[i].batch <= Queued
        BY <4>2 DEF InOrder
      <4>4. ASSUME NEW j \in 1..Len(queue'), j < i
            PROVE  queue'[j].batch < queue'[i].batch
        <5>1. CASE j = 1
          BY <2>1, <1>2, <3>1, <4>2, <4>3, <5>1, <1>8
        <5>2. CASE j # 1
          <6>1. /\ j - 1 \in 1..Len(queue) /\ queue'[j] = queue[j - 1]
                /\ j - 1 < i - 1
            BY <2>1, <1>2, <4>1, <4>4, <5>2
          <6> QED
            BY <4>2, <6>1 DEF InOrder
        <5> QED
          BY <5>1, <5>2
      <4> QED
        BY <4>3, <4>4
    <3>4. NoneLost => NoneLost'
      BY <2>1, <1>2, <3>1 DEF NoneLost
    <3> QED
      BY <3>1, <3>2, <3>3, <3>4 DEF Add, BatchInv, taskVars, history, IInv
  <2>2. CASE ~call[c].front
    <3>1. /\ Taken' = Taken /\ Taken \in Nat /\ Queued \in Int
          /\ \/ call[c].entry.batch = 0 /\ Queued' = Queued
             \/ call[c].entry.batch = Queued' /\ Queued' = Queued + 1
      BY <2>2, <1>3, <1>4, NoCallTyped DEF Add, Queued, Taken, Calling, Bit,
        taskVars, history, IInv, TypeOK, ClientsOK, Calls, Clients, DataOK
    <3>2. task # "failed" => InOrder'
      <4> SUFFICES ASSUME task # "failed",
                          NEW i \in 1..Len(queue'), queue'[i].batch # 0
                   PROVE  /\ Taken < queue'[i].batch
                          /\ queue'[i].batch <= Queued'
                          /\ \A j \in 1..Len(queue') :
                               j < i => queue'[j].batch < queue'[i].batch
        BY <3>1 DEF InOrder
      <4>1. Taken <= Queued /\ InOrder
        BY DEF BatchInv, IInv
      <4>2. CASE i \in 1..Len(queue)
        <5>1. \A j \in 1..Len(queue') : j < i => j \in 1..Len(queue)
          BY <2>2, <1>3, <4>2
        <5>2. /\ queue'[i] = queue[i]
              /\ \A j \in 1..Len(queue') : j < i => queue'[j] = queue[j]
          BY <2>2, <1>3, <4>2, <5>1
        <5>3. /\ Taken < queue[i].batch /\ queue[i].batch <= Queued
              /\ \A j \in 1..Len(queue) :
                   j < i => queue[j].batch < queue[i].batch
          BY <4>1, <4>2, <5>2 DEF InOrder
        <5>4. queue[i].batch <= Queued'
          BY <1>8, <3>1, <4>2, <5>3
        <5> QED
          BY <5>1, <5>2, <5>3, <5>4
      <4>3. CASE i = Len(queue')
        <5>1. queue'[i].batch = Queued' /\ Queued' = Queued + 1
          BY <2>2, <1>3, <3>1, <4>3
        <5>2. ASSUME NEW j \in 1..Len(queue'), j < i
              PROVE  queue'[j].batch <= Queued
          <6>1. j \in 1..Len(queue) /\ queue'[j] = queue[j]
            BY <2>2, <1>3, <4>3, <5>2
          <6> QED
            BY <1>8, <3>1, <4>1, <6>1 DEF InOrder
        <5>3. \A j \in 1..Len(queue') : j < i => queue'[j].batch \in Nat
          BY <2>2, <1>3, <1>8, <4>3
        <5> QED
          BY <3>1, <4>1, <5>1, <5>2, <5>3
      <4> QED
        BY <2>2, <1>3, <4>2, <4>3
    <3>3. NoneLost => NoneLost'
      <4> SUFFICES ASSUME NoneLost, NEW n \in (Taken + 1)..Queued'
                   PROVE  \E i \in 1..Len(queue') : queue'[i].batch = n
        BY <3>1 DEF NoneLost
      <4>1. CASE n <= Queued
        BY <2>2, <1>3, <3>1, <4>1 DEF NoneLost
      <4>2. CASE n > Queued
        BY <2>2, <1>3, <3>1, <4>2
      <4> QED
        BY <4>1, <4>2, <3>1
    <3> QED
      BY <2>2, <1>3, <1>4, <3>1, <3>2, <3>3 DEF Add, BatchInv, taskVars,
        history, IInv
  <2> QED
    BY <2>1, <2>2
<1>16. CalmInv'
  <2>1. CASE call[c].front
    <3>1. ~Calm
      BY <2>1, <1>4 DEF Add, Calm, EngineInv, EngineCallInv, Idle, IInv,
        Clients
    <3> QED
      BY <3>1 DEF Add, Calm, CalmInv, history, IInv
  <2>2. CASE ~call[c].front
    <3>1. /\ Taken' = Taken /\ Queued \in Int
          /\ \/ call[c].entry.batch = 0 /\ Queued' = Queued /\ Queued = handed
             \/ /\ call[c].entry.batch = Queued'
                /\ Queued' = Queued + 1 /\ Queued' = handed
      BY <2>2, <1>3, <1>4, NoCallTyped DEF Add, Queued, Taken, Calling, Bit,
        taskVars, history, IInv, TypeOK, ClientsOK, Clients, DataOK
    <3>2. Calm => Counted(call[c].entry.copy) = handed
      BY <2>2, <1>3 DEF Calm, CalmInv, IInv
    <3>3. \A i \in 1..Len(queue) : Counted(queue[i].copy) \in Nat
      <4> SUFFICES ASSUME NEW i \in 1..Len(queue)
                   PROVE  Counted(queue[i].copy) \in Nat
        OBVIOUS
      <4>1. queue[i] \in Entries
        BY <1>1, ElementOfSeq
      <4> QED
        BY <4>1 DEF Counted, Entries, Jobs
    <3>4. Calm /\ CountedInOrder => CountedInOrder'
      <4> SUFFICES ASSUME Calm, CountedInOrder, NEW i \in 1..Len(queue')
                   PROVE  /\ Counted(queue'[i].copy) <= Queued'
                          /\ queue'[i].batch # 0
                               => Counted(queue'[i].copy) = queue'[i].batch
                          /\ \A j \in 1..Len(queue') :
                               i < j /\ queue'[j].batch # 0
                                 => Counted(queue'[i].copy) < queue'[j].batch
        BY DEF CountedInOrder, Counted
      <4>1. CASE i = Len(queue')
        BY <2>2, <1>3, <3>1, <3>2, <4>1
      <4>2. CASE i \in 1..Len(queue)
        <5>1. /\ queue'[i] = queue[i] /\ Counted(queue[i].copy) <= Queued
              /\ queue[i].batch # 0
                   => Counted(queue[i].copy) = queue[i].batch
          BY <2>2, <1>3, <4>2 DEF CountedInOrder
        <5>2. ASSUME NEW j \in 1..Len(queue'), i < j, queue'[j].batch # 0
              PROVE  Counted(queue[i].copy) < queue'[j].batch
          <6>1. CASE j = Len(queue')
            BY <2>2, <1>3, <3>1, <3>3, <4>2, <5>1, <5>2, <6>1
          <6>2. CASE j \in 1..Len(queue)
            BY <2>2, <1>3, <4>2, <5>2, <6>2 DEF CountedInOrder
          <6> QED
            BY <2>2, <1>3, <6>1, <6>2
        <5> QED
          BY <3>1, <3>3, <4>2, <5>1, <5>2
      <4> QED
        BY <2>2, <1>3, <4>1, <4>2
    <3>5. UNCHANGED <<running, task, stored, handed, Calm, engine, job,
                      taskJob, shared>>
      BY DEF Add, taskVars, history, Calm
    <3> QED
      BY <3>1, <3>4, <3>5 DEF CalmInv, IInv, Counted
  <2> QED
    BY <2>1, <2>2
<1>17. NewestInv'
  <2>1. UNCHANGED <<engine, job, row, finished, status, stops, task, shared,
                    taskJob, running>>
    BY DEF Add, taskVars, history
  <2>2. /\ Idle("engine")' /\ engine = "paused" => Idle("engine")
        /\ Calling("engine")'
             => call'["engine"] = call["engine"] /\ Calling("engine")
    BY <1>6, <1>7, <1>3, <1>4, NoCallTyped DEF Add, EngineCallInv, Idle,
      Calling, IInv
  <2>3. engine \in {"fuzzing", "paused"} /\ stops = 0 /\ task # "failed"
          => queue' # <<>> /\ queue'[Len(queue')].copy = job
    <3>1. CASE call[c].front
      <4>1. stops = 0 => c = "engine"
        BY <1>4 DEF EngineInv, Idle, Clients, IInv
      <4>2. CASE queue = <<>>
        BY <3>1, <1>2, <1>7, <4>1, <4>2
      <4>3. CASE queue # <<>>
        BY <3>1, <1>1, <1>2, <1>4, <4>1, <4>3, EmptySeq DEF NewestInv, Calling,
          IInv
      <4> QED
        BY <4>2, <4>3
    <3>2. CASE ~call[c].front
      BY <3>2, <1>3
    <3> QED
      BY <3>1, <3>2
  <2> QED
    BY <2>1, <2>2, <2>3 DEF NewestInv, IInv
<1>18. FinalInv'
  <2>1. UNCHANGED <<engine, finished, stops, taskJob, running>>
    BY DEF Add, taskVars, history
  <2>2. SUFFICES ASSUME stops = 0
                 PROVE  FinalInv'
    BY <2>1 DEF FinalInv
  <2>3. c = "engine"
    BY <1>4, <2>2 DEF EngineInv, Idle, Clients, IInv
  <2>4. /\ \A i \in 1..Len(queue) : queue[i].kind # "final"
        /\ running.kind # "final"
    <3>1. running.kind # "final"
      BY <1>4, <2>3, NoEntryTyped DEF EntryInv, Proper, IInv
    <3> QED
      BY <1>4, <2>3, <3>1 DEF EntryInv, Proper, IInv
  <2>5. ~Idle("engine") /\ (engine = "draining" => ~Idle("engine")')
    BY <1>3, <1>4, <2>3 DEF Add, EngineCallInv, Idle, IInv
  <2>6. engine = "closing" => \A i \in 1..Len(queue) : queue[i].kind = "close"
    BY <2>2 DEF FinalInv, IInv
  <2>7. CASE call[c].front
    <3>1. \A i \in 1..Len(queue') : queue'[i].kind # "final"
      BY <1>2, <1>7, <2>3, <2>4, <2>7
    <3> QED
      BY <1>7, <2>1, <2>2, <2>3, <2>4, <2>5, <2>7, <3>1 DEF FinalInv, IInv
  <2>8. CASE ~call[c].front
    <3>1. \A i \in 1..Len(queue') : queue'[i].kind = "final" =>
             i = Len(queue') /\ engine = "draining"
      BY <1>3, <1>7, <2>3, <2>4, <2>8
    <3>2. engine = "closing"
            => \A i \in 1..Len(queue') : queue'[i].kind = "close"
      BY <1>3, <1>7, <2>3, <2>6, <2>8
    <3> QED
      BY <2>1, <2>2, <2>4, <2>5, <3>1, <3>2 DEF FinalInv, IInv
  <2> QED
    BY <2>7, <2>8
<1>19. RowNeverAhead' /\ ResultIsFinal'
  BY DEF Add, taskVars, history, IInv, RowNeverAhead, ResultIsFinal
<1> QED
  BY <1>9, <1>10, <1>11, <1>12, <1>13, <1>14, <1>15, <1>16, <1>17, <1>18, <1>19
     DEF IInv, TypeOK

-----------------------------------------------------------------------------
(* The engine.                                                             *)

\* An iteration begins in its mode.
LEMMA IterationStartingKeeps ==
  ASSUME IInv, NEW newMode \in IterationModes, IterationStarting(newMode)
  PROVE  IInv'
<1>1. ClientsOK'
  <2>1. job' \in Jobs
    BY DEF IterationStarting, IInv, TypeOK, DataOK, Jobs, EngineCalls
  <2>2. Update(job') \in Entries
    BY <2>1, EntryTyped DEF Update
  <2>3. call' \in [Clients -> Calls]
    BY <2>2, IssueFacts DEF IterationStarting, EngineCalls, Free, IInv, TypeOK,
      Clients
  <2> QED
    BY <2>3 DEF IterationStarting, EngineCalls, IInv, TypeOK, ClientsOK
<1>2. PermitsOK'
  <2>1. \A d \in Clients : call'[d].at = "adding" <=> call[d].at = "adding"
    BY DEF IterationStarting, EngineCalls, Issue, Free, Idle
  <2> QED
    BY <2>1, PlacesStay DEF IterationStarting, EngineCalls, IInv, TypeOK
<1>3. DataOK'
  BY StorageAssumption DEF IterationStarting, Issue, EngineCalls, Free, Entry,
    Update, taskVars, queueVars, history, IInv, TypeOK, DataOK, Jobs, Statuses
<1>4. TaskOK'
  BY DEF IterationStarting, EngineCalls, taskVars, IInv, TypeOK, TaskOK
<1>5. EngineInv' /\ EngineCallInv' /\ WebCallInv' /\ WaitInv' /\ EntryInv'
  BY DEF IterationStarting, Issue, EngineCalls, Free, Entry, Update, taskVars,
    queueVars, IInv, EngineInv, Idle, EngineCallInv, WebCallInv, WaitInv,
    EntryInv, Proper
<1>6. BatchInv' /\ CalmInv'
  BY DEF IterationStarting, Issue, EngineCalls, Free, Entry, Update, taskVars,
    queueVars, history, IInv, BatchInv, InOrder, NoneLost, Taken, Queued,
    Calling, Bit, Idle, CalmInv, CountedInOrder, Calm, Counted
<1>7. NewestInv' /\ FinalInv' /\ RowNeverAhead' /\ ResultIsFinal'
  BY DEF IterationStarting, Issue, EngineCalls, taskVars, queueVars, history,
    IInv, TypeOK, NewestInv, Calling, Idle, ClientsOK, Clients, FinalInv,
    RowNeverAhead, ResultIsFinal
<1> QED
  BY <1>1, <1>2, <1>3, <1>4, <1>5, <1>6, <1>7 DEF IInv, TypeOK

\* A batch of metrics is handed over.
LEMMA IterationFinishedKeeps ==
  ASSUME IInv, IterationFinished
  PROVE  IInv'
<1>1. /\ job' \in Jobs /\ handed' \in Nat /\ finished' \in Nat
      /\ Counted(job)' = Counted(job) + 1
  <2>1. job \in Jobs /\ job' = [job EXCEPT !.iterations = @ + 1]
    BY DEF IterationFinished, IInv, TypeOK, DataOK
  <2>2. job' \in Jobs /\ Counted(job)' = Counted(job) + 1
    BY <2>1 DEF Jobs, Counted
  <2> QED
    BY <2>2 DEF IterationFinished, IInv, TypeOK, DataOK
<1>2. ClientsOK'
  <2>1. Metrics(job', "nobody") \in Entries
    BY <1>1, EntryTyped DEF Metrics, IInv, TypeOK, DataOK, Clients
  <2>2. call' \in [Clients -> Calls]
    BY <2>1, IssueFacts DEF IterationFinished, EngineCalls, Free, IInv, TypeOK,
      Clients
  <2> QED
    BY <2>2 DEF IterationFinished, EngineCalls, IInv, TypeOK, ClientsOK
<1>3. PermitsOK'
  <2>1. \A d \in Clients : call'[d].at = "adding" <=> call[d].at = "adding"
    BY DEF IterationFinished, EngineCalls, Issue, Free, Idle
  <2> QED
    BY <2>1, PlacesStay DEF IterationFinished, EngineCalls, IInv, TypeOK
<1>4. DataOK'
  BY <1>1 DEF IterationFinished, EngineCalls, taskVars, IInv, TypeOK, DataOK
<1>5. TaskOK'
  BY DEF IterationFinished, EngineCalls, taskVars, IInv, TypeOK, TaskOK
<1>6. EngineInv' /\ EngineCallInv' /\ WebCallInv' /\ WaitInv' /\ EntryInv'
  BY DEF IterationFinished, Issue, EngineCalls, Free, Entry, Metrics, taskVars,
    queueVars, IInv, EngineInv, Idle, EngineCallInv, WebCallInv, WaitInv,
    EntryInv, Proper
<1>7. BatchInv'
  <2>1. handed' = handed + 1 /\ Queued' = handed /\ Queued = handed
    <3>1. Calling("engine")' /\ call'["engine"].entry.batch = handed + 1
      BY DEF IterationFinished, EngineCalls, Issue, Metrics, Entry, Calling,
        IInv, TypeOK, ClientsOK, Clients
    <3>2. ~Calling("engine") /\ handed \in Nat /\ handed' = handed + 1
      BY DEF IterationFinished, Free, Idle, Calling, IInv, TypeOK, DataOK
    <3> QED
      BY <3>1, <3>2 DEF Queued, Bit
  <2>2. UNCHANGED <<queue, Taken, running, task, stored>>
    BY DEF IterationFinished, EngineCalls, queueVars, taskVars, Taken
  <2>3. call'["engine"].at = "checking" /\ handed \in Nat /\ Len(stored) \in Nat
    BY DEF IterationFinished, EngineCalls, Issue, IInv, TypeOK, ClientsOK,
      Clients, DataOK
  <2>4. (InOrder => InOrder') /\ (NoneLost => NoneLost')
    BY <2>1, <2>2 DEF InOrder, NoneLost
  <2> QED
    BY <2>1, <2>2, <2>3, <2>4 DEF BatchInv, IInv
<1>8. CalmInv'
  <2>1. handed' = handed + 1 /\ Queued' = handed /\ Queued = handed
    <3>1. Calling("engine")' /\ call'["engine"].entry.batch = handed + 1
      BY DEF IterationFinished, EngineCalls, Issue, Metrics, Entry, Calling,
        IInv, TypeOK, ClientsOK, Clients
    <3>2. ~Calling("engine") /\ handed \in Nat /\ handed' = handed + 1
      BY DEF IterationFinished, Free, Idle, Calling, IInv, TypeOK, DataOK
    <3> QED
      BY <3>1, <3>2 DEF Queued, Bit
  <2>2. UNCHANGED <<queue, Taken, running, task, taskJob, shared, stored>>
    BY DEF IterationFinished, EngineCalls, queueVars, taskVars, Taken
  <2>3. (Calm' => Calm) /\ engine \notin {"closed", "done"}
    BY DEF IterationFinished, EngineCalls, Free, Calm
  <2>4. CountedInOrder => CountedInOrder'
    BY <2>1, <2>2 DEF CountedInOrder
  <2> QED
    BY <1>1, <2>1, <2>2, <2>3, <2>4 DEF CalmInv, IInv, Counted
<1>9. NewestInv' /\ FinalInv' /\ RowNeverAhead' /\ ResultIsFinal'
  BY DEF IterationFinished, Issue, EngineCalls, Free, taskVars, queueVars,
    IInv, TypeOK, NewestInv, Calling, ClientsOK, Clients, FinalInv,
    RowNeverAhead, ResultIsFinal
<1> QED
  BY <1>2, <1>3, <1>4, <1>5, <1>6, <1>7, <1>8, <1>9 DEF IInv, TypeOK

\* A fault is handed over, with a batch of its own.
LEMMA OnFaultKeeps ==
  ASSUME IInv, OnFault
  PROVE  IInv'
<1>1. /\ job' \in Jobs /\ handed' \in Nat /\ finished' \in Nat
      /\ Counted(job)' = Counted(job) + 1
  <2>1. job \in Jobs /\ job' = [job EXCEPT !.faults = @ + 1]
    BY DEF OnFault, IInv, TypeOK, DataOK
  <2>2. job' \in Jobs /\ Counted(job)' = Counted(job) + 1
    BY <2>1 DEF Jobs, Counted
  <2> QED
    BY <2>2 DEF OnFault, IInv, TypeOK, DataOK
<1>2. ClientsOK'
  <2>1. Metrics(job', "engine") \in Entries
    BY <1>1, EntryTyped DEF Metrics, IInv, TypeOK, DataOK, Clients
  <2>2. call' \in [Clients -> Calls]
    BY <2>1, IssueFacts DEF OnFault, EngineCalls, Free, IInv, TypeOK, Clients
  <2> QED
    BY <2>2 DEF OnFault, EngineCalls, IInv, TypeOK, ClientsOK
<1>3. PermitsOK'
  <2>1. \A d \in Clients : call'[d].at = "adding" <=> call[d].at = "adding"
    BY DEF OnFault, EngineCalls, Issue, Free, Idle
  <2> QED
    BY <2>1, PlacesStay DEF OnFault, EngineCalls, IInv, TypeOK
<1>4. DataOK'
  BY <1>1 DEF OnFault, EngineCalls, taskVars, IInv, TypeOK, DataOK
<1>5. TaskOK'
  BY DEF OnFault, EngineCalls, taskVars, IInv, TypeOK, TaskOK
<1>6. EngineInv' /\ EngineCallInv' /\ WebCallInv' /\ WaitInv' /\ EntryInv'
  BY DEF OnFault, Issue, EngineCalls, Free, Entry, Metrics, taskVars,
    queueVars, IInv, EngineInv, Idle, EngineCallInv, WebCallInv, WaitInv,
    EntryInv, Proper
<1>7. BatchInv'
  <2>1. handed' = handed + 1 /\ Queued' = handed /\ Queued = handed
    <3>1. Calling("engine")' /\ call'["engine"].entry.batch = handed + 1
      BY DEF OnFault, EngineCalls, Issue, Metrics, Entry, Calling, IInv,
        TypeOK, ClientsOK, Clients
    <3>2. ~Calling("engine") /\ handed \in Nat /\ handed' = handed + 1
      BY DEF OnFault, Free, Idle, Calling, IInv, TypeOK, DataOK
    <3> QED
      BY <3>1, <3>2 DEF Queued, Bit
  <2>2. UNCHANGED <<queue, Taken, running, task, stored>>
    BY DEF OnFault, EngineCalls, queueVars, taskVars, Taken
  <2>3. call'["engine"].at = "checking" /\ handed \in Nat /\ Len(stored) \in Nat
    BY DEF OnFault, EngineCalls, Issue, IInv, TypeOK, ClientsOK, Clients,
      DataOK
  <2>4. (InOrder => InOrder') /\ (NoneLost => NoneLost')
    BY <2>1, <2>2 DEF InOrder, NoneLost
  <2> QED
    BY <2>1, <2>2, <2>3, <2>4 DEF BatchInv, IInv
<1>8. CalmInv'
  <2>1. handed' = handed + 1 /\ Queued' = handed /\ Queued = handed
    <3>1. Calling("engine")' /\ call'["engine"].entry.batch = handed + 1
      BY DEF OnFault, EngineCalls, Issue, Metrics, Entry, Calling, IInv,
        TypeOK, ClientsOK, Clients
    <3>2. ~Calling("engine") /\ handed \in Nat /\ handed' = handed + 1
      BY DEF OnFault, Free, Idle, Calling, IInv, TypeOK, DataOK
    <3> QED
      BY <3>1, <3>2 DEF Queued, Bit
  <2>2. UNCHANGED <<queue, Taken, running, task, taskJob, shared, stored>>
    BY DEF OnFault, EngineCalls, queueVars, taskVars, Taken
  <2>3. (Calm' => Calm) /\ engine \notin {"closed", "done"}
    BY DEF OnFault, EngineCalls, Free, Calm
  <2>4. CountedInOrder => CountedInOrder'
    BY <2>1, <2>2 DEF CountedInOrder
  <2> QED
    BY <1>1, <2>1, <2>2, <2>3, <2>4 DEF CalmInv, IInv, Counted
<1>9. NewestInv' /\ FinalInv' /\ RowNeverAhead' /\ ResultIsFinal'
  BY DEF OnFault, Issue, EngineCalls, taskVars, queueVars, IInv, TypeOK,
    NewestInv, Calling, Idle, ClientsOK, Clients, FinalInv, RowNeverAhead,
    ResultIsFinal
<1> QED
  BY <1>2, <1>3, <1>4, <1>5, <1>6, <1>7, <1>8, <1>9 DEF IInv, TypeOK

\* The pause overtakes what is queued.
LEMMA PauseKeeps ==
  ASSUME IInv, Pause
  PROVE  IInv'
<1>1. ClientsOK'
  <2>1. job \in Jobs
    BY DEF Pause, IInv, TypeOK, DataOK
  <2>2. StatusChange("Paused", "engine") \in Entries
    BY <2>1, EntryTyped DEF StatusChange, Statuses, Clients
  <2>3. call' \in [Clients -> Calls]
    BY <2>2, IssueFacts DEF Pause, EngineCalls, Free, IInv, TypeOK, Clients
  <2> QED
    BY <2>3 DEF Pause, EngineCalls, IInv, TypeOK, ClientsOK
<1>2. PermitsOK'
  <2>1. \A d \in Clients : call'[d].at = "adding" <=> call[d].at = "adding"
    BY DEF Pause, EngineCalls, Issue, Free, Idle
  <2> QED
    BY <2>1, PlacesStay DEF Pause, EngineCalls, IInv, TypeOK
<1>3. TaskOK' /\ DataOK'
  BY DEF Pause, EngineCalls, taskVars, history, IInv, TypeOK, TaskOK, DataOK
<1>4. EngineInv' /\ EngineCallInv' /\ WebCallInv' /\ WaitInv' /\ EntryInv'
  BY DEF Pause, Issue, EngineCalls, Free, Entry, StatusChange, taskVars,
    queueVars, IInv, TypeOK, EngineInv, Idle, ClientsOK, EngineCallInv,
    WebCallInv, WaitInv, EntryInv, Proper
<1>5. BatchInv' /\ CalmInv'
  BY DEF Pause, Issue, EngineCalls, Free, Entry, StatusChange, taskVars,
    queueVars, history, IInv, BatchInv, InOrder, NoneLost, Taken, Queued,
    Calling, Bit, Idle, CalmInv, CountedInOrder, Calm, Counted
<1>6. NewestInv' /\ FinalInv' /\ RowNeverAhead' /\ ResultIsFinal'
  BY DEF Pause, Issue, EngineCalls, Free, taskVars, queueVars, history, IInv,
    TypeOK, NewestInv, Calling, Idle, ClientsOK, Clients, FinalInv,
    RowNeverAhead, ResultIsFinal
<1> QED
  BY <1>1, <1>2, <1>3, <1>4, <1>5, <1>6 DEF IInv, TypeOK

\* So does its end.
LEMMA ContinueKeeps ==
  ASSUME IInv, Continue
  PROVE  IInv'
<1>1. ClientsOK'
  <2>1. job \in Jobs
    BY DEF Continue, IInv, TypeOK, DataOK
  <2>2. StatusChange("Running", "engine") \in Entries
    BY <2>1, EntryTyped DEF StatusChange, Statuses, Clients
  <2>3. call' \in [Clients -> Calls]
    BY <2>2, IssueFacts DEF Continue, EngineCalls, Free, IInv, TypeOK, Clients
  <2> QED
    BY <2>3 DEF Continue, EngineCalls, IInv, TypeOK, ClientsOK
<1>2. PermitsOK'
  <2>1. \A d \in Clients : call'[d].at = "adding" <=> call[d].at = "adding"
    BY DEF Continue, EngineCalls, Issue, Free, Idle
  <2> QED
    BY <2>1, PlacesStay DEF Continue, EngineCalls, IInv, TypeOK
<1>3. TaskOK' /\ DataOK'
  BY DEF Continue, EngineCalls, taskVars, history, IInv, TypeOK, TaskOK, DataOK
<1>4. EngineInv' /\ EngineCallInv' /\ WebCallInv' /\ WaitInv' /\ EntryInv'
  BY DEF Continue, Issue, EngineCalls, Free, Entry, StatusChange, taskVars,
    queueVars, IInv, EngineInv, Idle, EngineCallInv, WebCallInv, WaitInv,
    EntryInv, Proper
<1>5. CalmInv'
  <2>1. ~Calm'
    BY DEF Continue, Free, Calm, IInv, EngineInv
  <2> QED
    BY <2>1 DEF Continue, Free, history, CalmInv, IInv
<1>6. BatchInv'
  BY DEF Continue, Issue, EngineCalls, Free, Entry, StatusChange, taskVars,
    queueVars, history, IInv, BatchInv, InOrder, NoneLost, Taken, Queued,
    Calling, Bit, Idle
<1>7. RowNeverAhead' /\ ResultIsFinal'
  BY DEF Continue, Free, RowNeverAhead, ResultIsFinal, IInv, EngineInv
<1>8. NewestInv' /\ FinalInv'
  BY DEF Continue, EngineCalls, Free, taskVars, queueVars, history, IInv,
    NewestInv, Calling, Idle, FinalInv
<1> QED
  BY <1>1, <1>2, <1>3, <1>4, <1>5, <1>6, <1>7, <1>8 DEF IInv, TypeOK

\* The stopping mode, in front of the queue.
LEMMA TestFinishedKeeps ==
  ASSUME IInv, TestFinished
  PROVE  IInv'
<1>1. ClientsOK'
  <2>1. job \in Jobs
    BY DEF TestFinished, IInv, TypeOK, DataOK
  <2>2. StatusChange("Stopping", "engine") \in Entries
    BY <2>1, EntryTyped DEF StatusChange, Statuses, Clients
  <2>3. call' \in [Clients -> Calls]
    BY <2>2, IssueFacts DEF TestFinished, EngineCalls, Free, IInv, TypeOK,
      Clients
  <2> QED
    BY <2>3 DEF TestFinished, EngineCalls, IInv, TypeOK, ClientsOK
<1>2. PermitsOK'
  <2>1. \A d \in Clients : call'[d].at = "adding" <=> call[d].at = "adding"
    BY DEF TestFinished, EngineCalls, Issue, Free, Idle
  <2> QED
    BY <2>1, PlacesStay DEF TestFinished, EngineCalls, IInv, TypeOK
<1>3. TaskOK' /\ DataOK'
  BY DEF TestFinished, EngineCalls, taskVars, history, IInv, TypeOK, TaskOK,
    DataOK
<1>4. EngineInv' /\ EngineCallInv' /\ WebCallInv' /\ WaitInv' /\ EntryInv'
  BY DEF TestFinished, Issue, EngineCalls, Free, Entry, StatusChange, taskVars,
    queueVars, IInv, EngineInv, Idle, EngineCallInv, WebCallInv, WaitInv,
    EntryInv, Proper
<1>5. BatchInv' /\ CalmInv'
  BY DEF TestFinished, Issue, EngineCalls, Free, Entry, StatusChange, taskVars,
    queueVars, history, IInv, BatchInv, InOrder, NoneLost, Taken, Queued,
    Calling, Bit, Idle, CalmInv, CountedInOrder, Calm, Counted
<1>6. NewestInv' /\ FinalInv' /\ RowNeverAhead' /\ ResultIsFinal'
  BY DEF TestFinished, EngineCalls, Free, taskVars, queueVars, history, IInv,
    NewestInv, FinalInv, RowNeverAhead, ResultIsFinal
<1> QED
  BY <1>1, <1>2, <1>3, <1>4, <1>5, <1>6 DEF IInv, TypeOK

\* The final entry, behind everything.
LEMMA DrainQueueKeeps ==
  ASSUME IInv, DrainQueue
  PROVE  IInv'
<1>1. ClientsOK'
  <2>1. job \in Jobs
    BY DEF DrainQueue, IInv, TypeOK, DataOK
  <2>2. Final \in Entries
    BY <2>1, EntryTyped DEF Final, Clients
  <2>3. call' \in [Clients -> Calls]
    BY <2>2, IssueFacts DEF DrainQueue, EngineCalls, Free, IInv, TypeOK,
      Clients
  <2> QED
    BY <2>3 DEF DrainQueue, EngineCalls, IInv, TypeOK, ClientsOK
<1>2. PermitsOK'
  <2>1. \A d \in Clients : call'[d].at = "adding" <=> call[d].at = "adding"
    BY DEF DrainQueue, EngineCalls, Issue, Free, Idle
  <2> QED
    BY <2>1, PlacesStay DEF DrainQueue, EngineCalls, IInv, TypeOK
<1>3. TaskOK' /\ DataOK'
  BY DEF DrainQueue, EngineCalls, taskVars, history, IInv, TypeOK, TaskOK,
    DataOK
<1>4. EngineInv' /\ EngineCallInv' /\ WebCallInv' /\ WaitInv' /\ EntryInv'
  BY DEF DrainQueue, Issue, EngineCalls, Free, Entry, Final, taskVars,
    queueVars, IInv, EngineInv, Idle, EngineCallInv, WebCallInv, WaitInv,
    EntryInv, Proper
<1>5. BatchInv' /\ CalmInv'
  BY DEF DrainQueue, Issue, EngineCalls, Free, Entry, Final, taskVars,
    queueVars, history, IInv, BatchInv, InOrder, NoneLost, Taken, Queued,
    Calling, Bit, Idle, CalmInv, CountedInOrder, Calm, Counted
<1>6. NewestInv' /\ FinalInv' /\ RowNeverAhead' /\ ResultIsFinal'
  BY DEF DrainQueue, Issue, EngineCalls, Free, taskVars, queueVars, history,
    IInv, TypeOK, NewestInv, Idle, ClientsOK, Clients, FinalInv, RowNeverAhead,
    ResultIsFinal
<1> QED
  BY <1>1, <1>2, <1>3, <1>4, <1>5, <1>6 DEF IInv, TypeOK

\* The entry that ends the task.
LEMMA CloseQueueKeeps ==
  ASSUME IInv, CloseQueue
  PROVE  IInv'
<1>1. ClientsOK'
  <2>1. job \in Jobs
    BY DEF CloseQueue, IInv, TypeOK, DataOK
  <2>2. Close \in Entries
    BY <2>1, EntryTyped DEF Close
  <2>3. call' \in [Clients -> Calls]
    BY <2>2, IssueFacts DEF CloseQueue, EngineCalls, Free, IInv, TypeOK,
      Clients
  <2> QED
    BY <2>3 DEF CloseQueue, EngineCalls, IInv, TypeOK, ClientsOK
<1>2. PermitsOK'
  <2>1. \A d \in Clients : call'[d].at = "adding" <=> call[d].at = "adding"
    BY DEF CloseQueue, EngineCalls, Issue, Free, Idle
  <2> QED
    BY <2>1, PlacesStay DEF CloseQueue, EngineCalls, IInv, TypeOK
<1>3. TaskOK' /\ DataOK'
  BY DEF CloseQueue, EngineCalls, taskVars, history, IInv, TypeOK, TaskOK,
    DataOK
<1>4. EngineInv' /\ EngineCallInv' /\ WebCallInv' /\ WaitInv' /\ EntryInv'
  BY DEF CloseQueue, Issue, EngineCalls, Free, Entry, Close, taskVars,
    queueVars, IInv, EngineInv, Idle, EngineCallInv, WebCallInv, WaitInv,
    EntryInv, Proper
<1>5. BatchInv' /\ CalmInv'
  BY DEF CloseQueue, Issue, EngineCalls, Free, Entry, Close, taskVars,
    queueVars, history, IInv, BatchInv, InOrder, NoneLost, Taken, Queued,
    Calling, Bit, Idle, CalmInv, CountedInOrder, Calm, Counted
<1>6. NewestInv' /\ FinalInv' /\ RowNeverAhead' /\ ResultIsFinal'
  BY DEF CloseQueue, EngineCalls, Free, taskVars, queueVars, history, IInv,
    NewestInv, FinalInv, RowNeverAhead, ResultIsFinal
<1> QED
  BY <1>1, <1>2, <1>3, <1>4, <1>5, <1>6 DEF IInv, TypeOK

\* The task has returned its job.
LEMMA JoinTaskKeeps ==
  ASSUME IInv, JoinTask
  PROVE  IInv'
<1>1. ClientsOK'
  BY DEF JoinTask, IInv, TypeOK, ClientsOK
<1>2. DataOK'
  BY StorageAssumption DEF JoinTask, Free, taskVars, queueVars, history, IInv,
    TypeOK, DataOK, Jobs, Statuses
<1>3. PermitsOK' /\ TaskOK'
  BY DEF JoinTask, taskVars, queueVars, IInv, TypeOK, PermitsOK, TaskOK
<1>4. EngineInv' /\ EngineCallInv' /\ WebCallInv' /\ WaitInv' /\ EntryInv'
  BY DEF JoinTask, Free, taskVars, queueVars, IInv, TypeOK, EngineInv, Idle,
    EngineCallInv, WebCallInv, WaitInv, EntryInv, Proper
<1>5. BatchInv' /\ CalmInv'
  BY DEF JoinTask, taskVars, queueVars, history, IInv, BatchInv, InOrder,
    NoneLost, Taken, Queued, Calling, CalmInv, Calm, Counted
<1>6. RowNeverAhead' /\ ResultIsFinal'
  BY DEF JoinTask, Free, RowNeverAhead, ResultIsFinal, FinalInv, IInv, history
<1>7. NewestInv' /\ FinalInv'
  BY DEF JoinTask, Free, taskVars, queueVars, IInv, NewestInv, FinalInv
<1> QED
  BY <1>1, <1>2, <1>3, <1>4, <1>5, <1>6, <1>7 DEF IInv, TypeOK

\* The task has failed.
LEMMA JoinFaultedTaskKeeps ==
  ASSUME IInv, JoinFaultedTask
  PROVE  IInv'
<1>1. ClientsOK' /\ PermitsOK' /\ TaskOK' /\ DataOK'
  BY DEF JoinFaultedTask, taskVars, queueVars, history, IInv, TypeOK,
    ClientsOK, PermitsOK, TaskOK, DataOK
<1>2. EngineInv' /\ EngineCallInv' /\ WebCallInv' /\ WaitInv' /\ EntryInv'
  BY DEF JoinFaultedTask, Free, taskVars, queueVars, IInv, EngineInv, Idle,
    EngineCallInv, WebCallInv, WaitInv, EntryInv, Proper
<1>3. BatchInv' /\ CalmInv'
  BY DEF JoinFaultedTask, Free, taskVars, history, IInv, BatchInv, CalmInv,
    Calm
<1>4. NewestInv' /\ FinalInv' /\ RowNeverAhead' /\ ResultIsFinal'
  BY DEF JoinFaultedTask, Free, taskVars, queueVars, history, IInv, NewestInv,
    FinalInv, RowNeverAhead, ResultIsFinal
<1> QED
  BY <1>1, <1>2, <1>3, <1>4 DEF IInv, TypeOK

\* The run is over.
LEMMA RestoreLoggingKeeps ==
  ASSUME IInv, RestoreLogging
  PROVE  IInv'
<1>1. ClientsOK'
  BY DEF RestoreLogging, IInv, TypeOK, ClientsOK
<1>2. DataOK'
  BY StorageAssumption DEF RestoreLogging, taskVars, queueVars, history, IInv,
    TypeOK, DataOK, Jobs, Statuses
<1>3. PermitsOK' /\ TaskOK'
  BY DEF RestoreLogging, taskVars, queueVars, IInv, TypeOK, PermitsOK, TaskOK
<1>4. EngineInv' /\ EngineCallInv' /\ WebCallInv' /\ WaitInv' /\ EntryInv'
  BY DEF RestoreLogging, taskVars, queueVars, history, IInv, EngineInv, Idle,
    EngineCallInv, WebCallInv, WaitInv, EntryInv, Proper
<1>5. BatchInv' /\ CalmInv'
  BY DEF RestoreLogging, taskVars, queueVars, history, IInv, BatchInv, InOrder,
    NoneLost, Taken, Queued, Calling, CalmInv, Calm, Counted
<1>6. NewestInv' /\ FinalInv' /\ RowNeverAhead' /\ ResultIsFinal'
  BY DEF RestoreLogging, taskVars, queueVars, IInv, NewestInv, FinalInv,
    RowNeverAhead, ResultIsFinal
<1> QED
  BY <1>1, <1>2, <1>3, <1>4, <1>5, <1>6 DEF IInv, TypeOK

-----------------------------------------------------------------------------
(* The web request.                                                        *)

\* A web request stops the job.
LEMMA StopKeeps ==
  ASSUME IInv, Stop
  PROVE  IInv'
<1>1. ClientsOK'
  <2>1. job \in Jobs
    BY DEF Stop, IInv, TypeOK, DataOK
  <2>2. StatusChange("Stopping", "web") \in Entries
    BY <2>1, EntryTyped DEF StatusChange, Statuses, Clients
  <2>3. call' \in [Clients -> Calls]
    BY <2>2, IssueFacts DEF Stop, IInv, TypeOK, Clients
  <2> QED
    BY <2>3 DEF Stop, IInv, TypeOK, ClientsOK
<1>2. PermitsOK'
  <2>1. \A d \in Clients : call'[d].at = "adding" <=> call[d].at = "adding"
    BY DEF Stop, Issue, Idle
  <2> QED
    BY <2>1, PlacesStay DEF Stop, IInv, TypeOK
<1>3. TaskOK' /\ DataOK'
  BY DEF Stop, taskVars, history, IInv, TypeOK, TaskOK, DataOK
<1>4. EngineInv' /\ EngineCallInv' /\ WebCallInv' /\ WaitInv' /\ EntryInv'
  BY DEF Stop, Issue, StatusChange, Entry, taskVars, queueVars, history, IInv,
    TypeOK, EngineInv, Idle, ClientsOK, EngineCallInv, WebCallInv, WaitInv,
    EntryInv, Proper
<1>5. BatchInv'
  BY DEF Stop, Issue, StatusChange, Entry, taskVars, queueVars, history, IInv,
    TypeOK, BatchInv, InOrder, NoneLost, Taken, Queued, Calling, Bit, Idle,
    ClientsOK, Clients, DataOK
<1>6. CalmInv'
  BY DEF Stop, history, IInv, TypeOK, CalmInv, Calm, ClientsOK
<1>7. RowNeverAhead' /\ ResultIsFinal'
  BY DEF Stop, RowNeverAhead, ResultIsFinal, IInv, TypeOK, ClientsOK
<1>8. NewestInv' /\ FinalInv'
  BY DEF Stop, taskVars, history, IInv, TypeOK, NewestInv, ClientsOK, FinalInv
<1> QED
  BY <1>1, <1>2, <1>3, <1>4, <1>5, <1>6, <1>7, <1>8 DEF IInv, TypeOK

-----------------------------------------------------------------------------
(* The background task.                                                    *)

\* The task takes the entry at the front.
LEMMA TakeKeeps ==
  ASSUME IInv, Take
  PROVE  IInv'
<1>1. queue \in Seq(Entries) /\ queue # <<>>
  BY DEF Take, IInv, TypeOK, PermitsOK
<1>2. /\ Len(queue) \in Nat /\ 1 \in 1..Len(queue) /\ queue[1] \in Entries
      /\ running' = queue[1]
      /\ queue' \in Seq(Entries) /\ Len(queue') = Len(queue) - 1
      /\ \A i \in 1..Len(queue') :
           i + 1 \in 1..Len(queue) /\ queue'[i] = queue[i + 1]
      /\ \A i \in 2..Len(queue) :
           i - 1 \in 1..Len(queue') /\ queue'[i - 1] = queue[i]
      /\ queue' = <<>> <=> Len(queue) = 1
  BY <1>1, TakeFacts DEF Take
<1>3. task = "idle" /\ task' = "busy" /\ running = NoEntry
  BY DEF Take, EntryInv, IInv
<1>4. Len(stored) \in Nat /\ handed \in Nat /\ queue[1].batch \in Nat
  BY <1>2 DEF IInv, TypeOK, DataOK, Entries
<1>5. \A i \in 1..Len(queue) : queue[i].batch \in Nat
  <2> SUFFICES ASSUME NEW i \in 1..Len(queue)
               PROVE  queue[i].batch \in Nat
    OBVIOUS
  <2>1. queue[i] \in Entries
    BY <1>1, ElementOfSeq
  <2> QED
    BY <2>1 DEF Entries
<1>6. queue[1].batch \in {0, Len(stored) + 1}
  <2>1. Taken = Len(stored) /\ Queued \in Int
    BY <1>3, <1>4, NoEntryTyped DEF Queued, Taken, Bit
  <2>2. Taken <= Queued /\ InOrder /\ NoneLost
    BY <1>3 DEF BatchInv, IInv
  <2>3. SUFFICES ASSUME queue[1].batch # 0, queue[1].batch # Taken + 1
                 PROVE  FALSE
    BY <2>1
  <2>4. Taken < queue[1].batch /\ queue[1].batch <= Queued
    BY <1>2, <2>2, <2>3 DEF InOrder
  <2>5. Taken + 1 \in (Taken + 1)..Queued
    BY <1>4, <2>1, <2>4
  <2>6. PICK i \in 1..Len(queue) : queue[i].batch = Taken + 1
    BY <2>2, <2>5 DEF NoneLost
  <2>7. i # 1 /\ queue[i].batch # 0 /\ 1 < i
    BY <1>2, <1>4, <2>1, <2>3, <2>6
  <2> QED
    BY <1>2, <1>4, <2>1, <2>2, <2>4, <2>6, <2>7 DEF InOrder
<1>7. PermitsOK'
  BY <1>2 DEF Take, Release, PermitsOK, clientVars, IInv, TypeOK
<1>8. TaskOK'
  BY <1>2 DEF Take, IInv, TypeOK, TaskOK
<1>9. ClientsOK' /\ DataOK'
  BY DEF Take, clientVars, history, IInv, TypeOK, ClientsOK, DataOK
<1>10. WaitInv'
  <2>1. queue[1] = [queue[1] EXCEPT !.batch = queue[1].batch]
    BY <1>2 DEF Entries
  <2> QED
    BY <1>2, <2>1 DEF Take, WaitInv, clientVars, IInv
<1>11. EntryInv'
  BY <1>2 DEF Take, EntryInv, Proper, clientVars, IInv
<1>12. EngineInv' /\ EngineCallInv' /\ WebCallInv'
  BY DEF Take, clientVars, history, IInv, EngineInv, Idle, EngineCallInv,
    WebCallInv
<1>13. BatchInv'
  <2>1. /\ Queued' = Queued /\ Taken = Len(stored)
        /\ Taken' = Len(stored) + Bit(queue[1].batch # 0) /\ Queued \in Int
    BY <1>2, <1>3, <1>4, NoEntryTyped DEF Take, Queued, Taken, Calling, Bit,
      clientVars, history
  <2>2. Taken <= Queued /\ InOrder /\ NoneLost
    BY <1>3 DEF BatchInv, IInv
  <2>3. queue[1].batch \in {0, Taken + 1}
    BY <1>6, <2>1
  <2>4. Taken' <= Queued
    BY <1>2, <1>4, <2>1, <2>2, <2>3 DEF InOrder, Bit
  <2>5. InOrder'
    <3> SUFFICES ASSUME NEW i \in 1..Len(queue'), queue'[i].batch # 0
                 PROVE  /\ Taken' < queue'[i].batch /\ queue'[i].batch <= Queued
                        /\ \A j \in 1..Len(queue') :
                             j < i => queue'[j].batch < queue'[i].batch
      BY <2>1 DEF InOrder
    <3>1. /\ i + 1 \in 1..Len(queue) /\ queue'[i] = queue[i + 1] /\ 1 < i + 1
          /\ queue'[i].batch \in Nat
      BY <1>2, <1>5
    <3>2. /\ Taken < queue'[i].batch /\ queue'[i].batch <= Queued
          /\ queue[1].batch < queue'[i].batch
      BY <1>2, <2>2, <3>1 DEF InOrder
    <3>3. ASSUME NEW j \in 1..Len(queue'), j < i
          PROVE  queue'[j].batch < queue'[i].batch
      <4>1. j + 1 \in 1..Len(queue) /\ queue'[j] = queue[j + 1] /\ j + 1 < i + 1
        BY <1>2, <3>1, <3>3
      <4> QED
        BY <2>2, <3>1, <4>1 DEF InOrder
    <3> QED
      BY <1>4, <2>1, <2>3, <3>1, <3>2, <3>3 DEF Bit
  <2>6. NoneLost'
    <3> SUFFICES ASSUME NEW n \in (Taken' + 1)..Queued
                 PROVE  \E i \in 1..Len(queue') : queue'[i].batch = n
      BY <2>1 DEF NoneLost
    <3>1. PICK i \in 1..Len(queue) : queue[i].batch = n
      BY <1>4, <2>1, <2>2 DEF NoneLost, Bit
    <3>2. i # 1
      BY <1>4, <2>1, <2>3, <3>1 DEF Bit
    <3>3. i - 1 \in 1..Len(queue') /\ queue'[i - 1].batch = n
      BY <1>2, <3>1, <3>2
    <3> QED
      BY <3>3
  <2>7. queue[1].by = "engine" => queue[1] = call["engine"].entry
    BY <1>2 DEF WaitInv, IInv, Clients
  <2> QED
    BY <1>2, <1>4, <2>1, <2>2, <2>3, <2>4, <2>5, <2>6, <2>7 DEF Take, BatchInv,
      clientVars, history, IInv
<1>14. CalmInv'
  <2>1. /\ Queued' = Queued /\ Taken = Len(stored) /\ Taken \in Nat
        /\ Taken' = Len(stored) + Bit(queue[1].batch # 0) /\ Queued \in Int
    BY <1>2, <1>3, <1>4, NoEntryTyped DEF Take, Queued, Taken, Calling, Bit,
      clientVars, history
  <2>2. Taken <= Queued /\ InOrder /\ NoneLost
    BY <1>3 DEF BatchInv, IInv
  <2>3. Calm => Counted(queue[1].copy) <= Taken'
    <3>1. SUFFICES ASSUME Calm, Counted(queue[1].copy) > Taken'
                   PROVE  FALSE
      BY <1>2, <2>1 DEF Entries, Jobs, Counted, Bit
    <3>2. CountedInOrder /\ Counted(queue[1].copy) \in Nat
      BY <1>2, <1>3, <3>1 DEF CalmInv, IInv, Entries, Jobs, Counted
    <3>3. queue[1].batch = 0
      BY <1>2, <1>4, <1>6, <2>1, <3>1, <3>2 DEF CountedInOrder, Bit
    <3>4. PICK i \in 1..Len(queue) : queue[i].batch = Counted(queue[1].copy)
      <4>1. Counted(queue[1].copy) \in (Taken + 1)..Queued
        BY <1>2, <1>4, <2>1, <3>1, <3>2, <3>3 DEF CountedInOrder, Bit
      <4> QED
        BY <2>2, <4>1 DEF NoneLost
    <3>5. 1 < i /\ queue[i].batch # 0
      BY <1>2, <1>4, <2>1, <3>1, <3>3, <3>4 DEF Bit
    <3> QED
      BY <1>2, <3>2, <3>4, <3>5 DEF CountedInOrder
  <2>4. CountedInOrder => CountedInOrder'
    BY <1>2, <2>1 DEF CountedInOrder
  <2>5. UNCHANGED <<Calm, engine, job, handed, shared, taskJob, stored>>
    BY DEF Take, Calm, clientVars, history
  <2> QED
    BY <1>2, <1>3, <2>3, <2>4, <2>5 DEF CalmInv, Counted, IInv
<1>15. NewestInv'
  BY <1>2, <1>3 DEF Take, NewestInv, Calling, Idle, clientVars, history, IInv
<1>16. FinalInv'
  <2>1. UNCHANGED <<engine, finished, stops, taskJob, Idle("engine")>>
    BY DEF Take, clientVars, history, Idle
  <2>2. SUFFICES ASSUME stops = 0
                 PROVE  FinalInv'
    BY <2>1 DEF FinalInv
  <2>3. \A i \in 1..Len(queue) :
           queue[i].kind = "final" => i = Len(queue) /\ engine = "draining"
    BY <2>2 DEF FinalInv, IInv
  <2>4. \A i \in 1..Len(queue') :
           queue'[i].kind = "final" => i = Len(queue') /\ engine = "draining"
    BY <1>2, <2>3
  <2>5. queue[1].kind = "final" => queue' = <<>> /\ engine = "draining"
    BY <1>2, <2>3
  <2> QED
    BY <1>2, <2>1, <2>2, <2>4, <2>5 DEF FinalInv, IInv
<1>17. RowNeverAhead' /\ ResultIsFinal'
  BY DEF Take, clientVars, history, IInv, RowNeverAhead, ResultIsFinal
<1> QED
  BY <1>7, <1>8, <1>9, <1>10, <1>11, <1>12, <1>13, <1>14, <1>15, <1>16, <1>17
     DEF IInv, TypeOK

\* The task writes the row, though nothing is queued.
LEMMA HeartBeatKeeps ==
  ASSUME IInv, HeartBeat
  PROVE  IInv'
<1>1. /\ TaskCopy \in Jobs /\ row.job \in Jobs /\ row.job.stopped \in BOOLEAN
      /\ row'.job = [TaskCopy EXCEPT !.stopped = row.job.stopped]
      /\ row'.status = status
  BY DEF HeartBeat, DoUpdateRunningJob, TaskCopy, IInv, TypeOK, DataOK, Jobs
<1>2. DataOK'
  BY <1>1, StampFacts DEF HeartBeat, DoUpdateRunningJob, taskVars, history,
    IInv, TypeOK, DataOK
<1>3. ClientsOK' /\ PermitsOK' /\ TaskOK'
  BY DEF HeartBeat, clientVars, taskVars, queueVars, IInv, TypeOK, ClientsOK,
    PermitsOK, TaskOK
<1>4. EngineInv' /\ EngineCallInv' /\ WebCallInv' /\ WaitInv' /\ EntryInv'
  BY DEF HeartBeat, clientVars, taskVars, queueVars, history, IInv, EngineInv,
    Idle, EngineCallInv, WebCallInv, WaitInv, EntryInv
<1>5. BatchInv' /\ CalmInv'
  BY DEF HeartBeat, DoUpdateRunningJob, clientVars, taskVars, queueVars,
    history, IInv, BatchInv, InOrder, NoneLost, Taken, Queued, Calling,
    CalmInv, CountedInOrder, Calm, Counted
<1>6. NewestInv'
  BY <1>1, StampFacts DEF HeartBeat, TaskCopy, taskVars, queueVars, clientVars,
    history, IInv, NewestInv, Calling, Idle
<1>7. RowNeverAhead' /\ ResultIsFinal'
  <2>1. Calm /\ ~shared => Counted(row'.job) <= Len(stored)
    BY <1>1, StampFacts DEF TaskCopy, CalmInv, IInv
  <2> QED
    BY <2>1 DEF HeartBeat, Calm, Counted, RowNeverAhead, ResultIsFinal,
      taskVars, clientVars, history, IInv
<1>8. FinalInv'
  BY DEF HeartBeat, clientVars, taskVars, queueVars, history, IInv, FinalInv,
    Idle
<1> QED
  BY <1>2, <1>3, <1>4, <1>5, <1>6, <1>7, <1>8 DEF IInv, TypeOK

\* The batch of the entry is stored, before the row.
LEMMA StoreMetricsKeeps ==
  ASSUME IInv, StoreMetrics
  PROVE  IInv'
<1>1. /\ task = "busy" /\ running.batch = Len(stored) + 1 /\ Len(stored) \in Nat
      /\ Taken = Len(stored) + 1
  BY DEF StoreMetrics, BatchInv, Taken, Bit, IInv
<1>2. /\ stored' \in Seq(Nat) /\ Len(stored') = Len(stored) + 1
      /\ stored'[Len(stored')] = running.batch
      /\ \A i \in 1..Len(stored) : stored'[i] = stored[i]
  BY <1>1, BackFacts DEF StoreMetrics, IInv, TypeOK, DataOK
<1>3. /\ running \in Entries /\ running' \in Entries /\ running'.batch = 0
      /\ running'.by = running.by /\ running'.copy = running.copy
      /\ running'.kind = running.kind /\ running'.status = running.status
  BY DEF StoreMetrics, Entries, IInv, TypeOK, TaskOK
<1>4. Taken' = Taken /\ Queued' = Queued /\ Queued <= handed /\ Taken <= Queued
  BY <1>1, <1>2, <1>3 DEF StoreMetrics, Taken, Queued, Calling, Bit,
    clientVars, history, IInv, TypeOK, DataOK, BatchInv
<1>5. TaskOK'
  BY <1>3 DEF StoreMetrics, IInv, TypeOK, TaskOK
<1>6. DataOK'
  BY <1>2 DEF StoreMetrics, IInv, TypeOK, DataOK, history
<1>7. ClientsOK' /\ PermitsOK'
  BY DEF StoreMetrics, clientVars, queueVars, IInv, TypeOK, ClientsOK, Clients,
    PermitsOK
<1>8. EntryInv'
  BY <1>1, <1>3 DEF StoreMetrics, EntryInv, Proper, clientVars, queueVars, IInv
<1>9. EngineInv' /\ EngineCallInv' /\ WebCallInv' /\ WaitInv'
  BY DEF StoreMetrics, clientVars, queueVars, history, IInv, EngineInv, Idle,
    EngineCallInv, WebCallInv, WaitInv
<1>10. BatchInv'
  <2>1. Len(stored') <= handed
    <3>1. handed \in Nat /\ Queued \in Int
      BY DEF Queued, Bit, IInv, TypeOK, DataOK
    <3> QED
      BY <1>1, <1>2, <1>4, <3>1
  <2>2. \A n \in 1..Len(stored') : stored'[n] = n
    BY <1>1, <1>2 DEF BatchInv, IInv
  <2>3. running.by = "engine" => running.batch = call["engine"].entry.batch
    BY <1>1 DEF WaitInv, IInv, Clients
  <2>4. call["engine"].at = "waiting" /\ call["engine"].entry.batch # 0
          => call["engine"].entry.batch = handed
    BY DEF EngineCallInv, Idle, IInv
  <2>5. Taken <= Queued /\ InOrder /\ NoneLost
    BY <1>1 DEF BatchInv, IInv
  <2>6. UNCHANGED <<queue, call, handed, task>>
    BY DEF StoreMetrics, clientVars, queueVars, history
  <2>7. InOrder' /\ NoneLost'
    BY <1>4, <2>5, <2>6 DEF InOrder, NoneLost
  <2> QED
    BY <1>1, <1>2, <1>3, <1>4, <2>1, <2>2, <2>3, <2>4, <2>5, <2>6, <2>7 DEF
      BatchInv
<1>11. CalmInv'
  <2>1. UNCHANGED <<Calm, engine, job, handed, queue, shared, taskJob, task>>
    BY DEF StoreMetrics, Calm, clientVars, queueVars, history
  <2>2. CountedInOrder => CountedInOrder'
    BY <1>4, <2>1 DEF CountedInOrder
  <2>3. Counted(taskJob) \in Nat
    BY DEF Counted, IInv, TypeOK, DataOK, Jobs
  <2> QED
    BY <1>1, <1>2, <1>3, <1>4, <2>1, <2>2, <2>3 DEF CalmInv, Counted, IInv
<1>12. RowNeverAhead' /\ ResultIsFinal'
  BY <1>1, <1>2 DEF StoreMetrics, RowNeverAhead, ResultIsFinal, clientVars,
    history, IInv, TypeOK, DataOK, Jobs
<1>13. NewestInv' /\ FinalInv'
  BY DEF StoreMetrics, clientVars, queueVars, history, IInv, NewestInv,
    Calling, Idle, FinalInv
<1> QED
  BY <1>5, <1>6, <1>7, <1>8, <1>9, <1>10, <1>11, <1>12, <1>13 DEF IInv, TypeOK

\* The rest of the entry: the row, and the pulse to its client.
LEMMA ApplyKeeps ==
  ASSUME IInv, Apply
  PROVE  IInv'
<1>1. /\ task = "busy" /\ running \in Entries /\ running.batch = 0
      /\ running.kind # "close" /\ task' = "idle" /\ running' = NoEntry
      /\ taskJob' = AppliedCopy /\ ~shared'
  BY DEF Apply, ReadyToApply, IInv, TypeOK, TaskOK
<1>2. /\ row.job \in Jobs /\ row.job.stopped \in BOOLEAN
      /\ row'.job = [AppliedCopy EXCEPT !.stopped = row.job.stopped]
      /\ row'.status = status' /\ status' = NewStatus
  BY DEF Apply, DoUpdateRunningJob, IInv, TypeOK, DataOK, Jobs
<1>3. \A c \in Clients :
        \/ call'[c] = call[c] /\ running.by # c
        \/ /\ call'[c] = NoCall /\ call[c].at = "waiting" /\ running.by = c
  BY DEF Apply, Pulse, WaitInv, IInv, TypeOK, ClientsOK, Clients
<1>4. Taken' = Taken /\ Queued' = Queued /\ Taken = Len(stored)
  BY <1>1, <1>3, NoCallTyped, NoEntryTyped DEF Apply, Taken, Queued, Calling,
    Bit, history, Clients
<1>5. Proper(running)
  BY <1>1 DEF EntryInv, IInv
<1>6. ClientsOK'
  <2>1. call' \in [Clients -> Calls]
    BY NoCallTyped DEF Apply, Pulse, IInv, TypeOK, ClientsOK
  <2> QED
    BY <2>1 DEF Apply, IInv, TypeOK, ClientsOK
<1>7. PermitsOK'
  <2>1. \A d \in Clients : call'[d].at = "adding" <=> call[d].at = "adding"
    BY <1>3, NoCallTyped
  <2> QED
    BY <2>1, PlacesStay DEF Apply, IInv, TypeOK
<1>8. TaskOK'
  BY <1>1, NoEntryTyped DEF Apply, TaskOK
<1>9. DataOK'
  <2>1. status' \in Statuses
    BY <1>1, <1>2 DEF NewStatus, Entries, IInv, TypeOK, DataOK
  <2> QED
    BY <1>1, <1>2, <2>1, AppliedFacts, StampFacts DEF Apply,
      DoUpdateRunningJob, IInv, TypeOK, DataOK, history
<1>10. EngineInv'
  BY <1>1, <1>3 DEF Apply, EngineInv, Idle, Clients, IInv
<1>11. EngineCallInv'
  BY <1>3, NoCallTyped DEF Apply, EngineCallInv, Idle, Clients, history, IInv
<1>12. WebCallInv'
  BY <1>3, NoCallTyped DEF WebCallInv, Idle, Clients, IInv
<1>13. WaitInv'
  BY <1>1, <1>3, NoCallTyped, NoEntryTyped DEF Apply, WaitInv, Clients,
    queueVars, IInv
<1>14. EntryInv'
  BY <1>1 DEF Apply, EntryInv, Proper, queueVars, IInv
<1>15. BatchInv'
  <2>1. (call'["engine"].at = "waiting" /\ call'["engine"].entry.batch # 0)
          => running'.by # "engine"
    BY <1>1, NoEntryTyped
  <2>2. InOrder' /\ NoneLost'
    BY <1>1, <1>4 DEF Apply, BatchInv, InOrder, NoneLost, queueVars, IInv
  <2> QED
    BY <1>1, <1>4, <2>1, <2>2, NoEntryTyped DEF Apply, BatchInv, history, IInv
<1>16. CalmInv'
  <2>1. UNCHANGED <<Calm, engine, job, handed, stored, queue>>
    BY DEF Apply, Calm, queueVars, history
  <2>2. Calm => Counted(taskJob)' <= Len(stored)
    BY <1>1, <1>4, AppliedFacts DEF CalmInv, IInv, Counted
  <2>3. Counted(running.copy)' <= Taken
    BY <1>1, <1>4, NoEntryTyped DEF Counted, IInv, TypeOK, DataOK
  <2>4. CountedInOrder => CountedInOrder'
    BY <1>4, <2>1 DEF CountedInOrder
  <2> QED
    BY <1>1, <1>4, <2>1, <2>2, <2>3, <2>4 DEF CalmInv, Counted, IInv
<1>17. NewestInv'
  <2>1. UNCHANGED <<engine, job, finished, queue, stops>>
    BY DEF Apply, queueVars, history
  <2>2. engine \notin {"closed", "done"} => ~row'.job.stopped
    BY <1>1, <1>2, AppliedFacts, StampFacts DEF NewestInv, IInv
  <2>3. engine \in {"fuzzing", "paused"} /\ stops = 0 /\ queue = <<>>
          /\ (Calling("engine") => call["engine"].front)
          => taskJob' = job /\ row'.job = job
    <3>1. SUFFICES ASSUME engine \in {"fuzzing", "paused"}, stops = 0,
                          queue = <<>>,
                          Calling("engine") => call["engine"].front
                   PROVE  taskJob' = job /\ row'.job = job
      OBVIOUS
    <3>2. running.copy = job /\ ~job.stopped /\ ~row.job.stopped
      BY <1>1, <3>1 DEF NewestInv, IInv
    <3>3. running.kind # "final"
      BY <3>1 DEF FinalInv, IInv
    <3>4. AppliedCopy = job /\ AppliedCopy \in Jobs
      BY <1>1, <3>2, <3>3, AppliedFacts
    <3>5. job.stopped = row.job.stopped
      BY <1>2, <3>2, <3>4 DEF Jobs
    <3> QED
      BY <1>1, <1>2, <3>4, <3>5, StampFacts
  <2>4. Calling("engine")'
          => Calling("engine") /\ call'["engine"] = call["engine"]
    BY <1>3, NoCallTyped DEF Calling, Clients
  <2>5. ~Calling("engine")' => ~Calling("engine")
    BY <1>3 DEF Calling, Clients
  <2>6. engine = "paused" /\ Idle("engine")' /\ stops = 0 => status' = "Paused"
    <3>1. CASE running.by = "engine"
      <4>1. ~Idle("engine") /\ running.status = call["engine"].entry.status
        BY <3>1 DEF WaitInv, Idle, Clients, IInv, TypeOK, ClientsOK, Calls,
          Entries
      <4> QED
        BY <1>2, <4>1 DEF EngineCallInv, NewStatus, IInv
    <3>2. CASE running.by # "engine"
      <4>1. stops = 0 => running.by # "web"
        BY DEF WaitInv, EngineInv, Idle, Clients, IInv
      <4> QED
        BY <1>1, <1>2, <1>3, <1>5, <3>2, <4>1 DEF Proper, NewStatus, NewestInv,
          Idle, Clients, Entries, IInv
    <3> QED
      BY <3>1, <3>2
  <2> QED
    BY <1>1, <1>2, <2>1, <2>2, <2>3, <2>4, <2>5, <2>6 DEF NewestInv, IInv
<1>18. FinalInv'
  <2>1. UNCHANGED <<engine, finished, queue, stops>>
    BY DEF Apply, queueVars, history
  <2>2. stops = 0 /\ engine = "draining" /\ Idle("engine")'
          => /\ taskJob'.stopped /\ taskJob'.iterations = finished
             /\ \A i \in 1..Len(queue) : queue[i].kind = "close"
    <3>1. CASE running.by = "engine"
      <4>1. engine = "draining" =>
              running.kind = "final" /\ running.copy = job
        BY <3>1 DEF WaitInv, EngineCallInv, Idle, Clients, IInv, TypeOK,
          ClientsOK, Calls, Entries
      <4> QED
        BY <1>1, <4>1, AppliedFacts DEF FinalInv, NewestInv, IInv
    <3>2. CASE running.by # "engine"
      BY <1>1, <1>3, <1>5, <3>2 DEF FinalInv, Proper, Idle, Clients, IInv
    <3> QED
      BY <3>1, <3>2
  <2>3. ~(stops = 0 /\ engine = "closing")
    BY <1>1, <1>5 DEF FinalInv, Proper, IInv
  <2> QED
    BY <1>1, <2>1, <2>2, <2>3, NoEntryTyped DEF FinalInv, IInv
<1>19. RowNeverAhead' /\ ResultIsFinal'
  <2>1. Calm => Counted(row'.job) <= Len(stored)
    BY <1>1, <1>2, <1>4, AppliedFacts, StampFacts DEF CalmInv, IInv
  <2> QED
    BY <2>1 DEF Apply, Calm, Counted, RowNeverAhead, ResultIsFinal, history,
      IInv
<1> QED
  BY <1>6, <1>7, <1>8, <1>9, <1>10, <1>11, <1>12, <1>13, <1>14, <1>15, <1>16,
     <1>17, <1>18, <1>19 DEF IInv, TypeOK

\* The close entry ends the task.
LEMMA ReturnKeeps ==
  ASSUME IInv, Return
  PROVE  IInv'
<1>1. TaskOK'
  BY NoEntryTyped DEF Return, IInv, TypeOK, TaskOK
<1>2. ClientsOK' /\ PermitsOK' /\ DataOK'
  BY DEF Return, clientVars, queueVars, history, IInv, TypeOK, ClientsOK,
    PermitsOK, DataOK
<1>3. EngineInv' /\ EngineCallInv' /\ WebCallInv' /\ WaitInv' /\ EntryInv'
  BY DEF Return, NoEntry, Entry, clientVars, queueVars, IInv, EngineInv, Idle,
    Clients, EngineCallInv, WebCallInv, WaitInv, EntryInv, Proper
<1>4. BatchInv'
  <2>1. running.batch = 0
    BY DEF Return, EntryInv, Proper, IInv
  <2>2. Taken' = Taken /\ Queued' = Queued
    BY <2>1, NoEntryTyped DEF Return, Taken, Queued, Calling, clientVars,
      history
  <2>3. InOrder' /\ NoneLost'
    BY <2>2 DEF Return, BatchInv, InOrder, NoneLost, queueVars, IInv
  <2> QED
    BY <2>1, <2>2, <2>3, NoEntryTyped DEF Return, BatchInv, history, IInv
<1>5. CalmInv'
  <2>1. running.batch = 0
    BY DEF Return, EntryInv, Proper, IInv
  <2>2. ~Calm
    BY DEF Return, EntryInv, Proper, Calm, IInv
  <2> QED
    BY <2>2 DEF Return, CalmInv, Calm, clientVars, history, IInv
<1>6. NewestInv'
  <2>1. engine \notin {"fuzzing", "paused"}
    BY DEF Return, EntryInv, Proper, IInv
  <2> QED
    BY <2>1 DEF Return, NewestInv, clientVars, history, IInv
<1>7. FinalInv' /\ RowNeverAhead' /\ ResultIsFinal'
  BY DEF Return, NoEntry, Entry, clientVars, queueVars, history, IInv,
    FinalInv, Idle, RowNeverAhead, ResultIsFinal
<1> QED
  BY <1>1, <1>2, <1>3, <1>4, <1>5, <1>6, <1>7 DEF IInv, TypeOK

\* The storage fails the task.
LEMMA StorageFailureKeeps ==
  ASSUME IInv, StorageFailure
  PROVE  IInv'
<1>1. TaskOK'
  BY NoEntryTyped DEF StorageFailure, Fail, IInv, TypeOK, TaskOK
<1>2. ClientsOK' /\ PermitsOK' /\ DataOK'
  BY DEF StorageFailure, Fail, queueVars, history, IInv, TypeOK, ClientsOK,
    PermitsOK, DataOK
<1>3. EngineInv' /\ EngineCallInv' /\ WebCallInv' /\ WaitInv' /\ EntryInv'
  BY DEF StorageFailure, Fail, NoEntry, Entry, queueVars, history, IInv,
    EngineInv, Idle, Clients, EngineCallInv, WebCallInv, WaitInv, EntryInv,
    Proper
<1>4. BatchInv' /\ CalmInv'
  BY DEF StorageFailure, Fail, NoEntry, Entry, history, IInv, BatchInv,
    CalmInv, Calm
<1>5. NewestInv' /\ FinalInv' /\ RowNeverAhead' /\ ResultIsFinal'
  BY DEF StorageFailure, Fail, NoEntry, Entry, queueVars, history, IInv,
    NewestInv, Idle, FinalInv, RowNeverAhead, ResultIsFinal
<1> QED
  BY <1>1, <1>2, <1>3, <1>4, <1>5 DEF IInv, TypeOK

\* A stuttering step.
LEMMA StutterKeeps ==
  ASSUME IInv, UNCHANGED vars
  PROVE  IInv'
<1>1. ClientsOK' /\ PermitsOK' /\ TaskOK' /\ DataOK'
  BY DEF vars, clientVars, taskVars, queueVars, history, vars, IInv, TypeOK,
    ClientsOK, Clients, PermitsOK, TaskOK, DataOK
<1>2. EngineInv' /\ EngineCallInv' /\ WebCallInv' /\ WaitInv' /\ EntryInv'
  BY DEF vars, clientVars, taskVars, queueVars, history, vars, IInv, EngineInv,
    Idle, EngineCallInv, WebCallInv, WaitInv, EntryInv, Proper
<1>3. BatchInv'
  BY DEF vars, clientVars, taskVars, queueVars, history, vars, IInv, TypeOK,
    BatchInv, InOrder, NoneLost, Taken, Queued, Calling, Bit, ClientsOK,
    Clients, DataOK
<1>4. CalmInv'
  BY DEF vars, clientVars, taskVars, queueVars, history, vars, IInv, CalmInv,
    CountedInOrder, Calm, Queued, Taken, Calling
<1>5. NewestInv' /\ FinalInv' /\ RowNeverAhead' /\ ResultIsFinal'
  BY DEF vars, clientVars, taskVars, queueVars, history, vars, IInv, NewestInv,
    Calling, Idle, FinalInv, RowNeverAhead, ResultIsFinal
<1> QED
  BY <1>1, <1>2, <1>3, <1>4, <1>5 DEF IInv, TypeOK

-----------------------------------------------------------------------------
(* All steps.                                                              *)

\* No step breaks the invariant.
LEMMA NextKeeps ==
  ASSUME IInv, [Next]_vars
  PROVE  IInv'
<1>1. CASE EngineStep
  BY <1>1, IterationStartingKeeps, IterationFinishedKeeps, OnFaultKeeps,
    PauseKeeps, ContinueKeeps, TestFinishedKeeps, DrainQueueKeeps,
    CloseQueueKeeps, JoinTaskKeeps, JoinFaultedTaskKeeps, RestoreLoggingKeeps
    DEF EngineStep, FinishStep
<1>2. ASSUME NEW c \in Clients, CallStep(c)
      PROVE  IInv'
  BY <1>2, CheckTaskKeeps, TaskIsFaultedKeeps, WaitExpiresKeeps, AcquireKeeps,
    AddKeeps DEF CallStep
<1>3. CASE TaskStep
  BY <1>3, TakeKeeps, StoreMetricsKeeps, ApplyKeeps, ReturnKeeps DEF TaskStep
<1>4. CASE Stop \/ HeartBeat \/ StorageFailure
  BY <1>4, StopKeeps, HeartBeatKeeps, StorageFailureKeeps
<1>5. CASE UNCHANGED vars
  BY <1>5, StutterKeeps
<1> QED
  BY <1>1, <1>2, <1>3, <1>4, <1>5 DEF Next, Done

-----------------------------------------------------------------------------
(* The invariants.                                                         *)

\* The inductive invariant holds in every reachable state.
THEOREM Invariance == Spec => []IInv
<1>1. IInv /\ [Next]_vars => IInv'
  BY NextKeeps
<1>2. Init => IInv
  BY InitIInv
<1> QED
  BY <1>1, <1>2, PTL DEF Spec

\* The types.
THEOREM TypeCorrect == Spec => []TypeOK
<1>1. IInv => TypeOK
  BY DEF IInv
<1> QED
  BY <1>1, Invariance, PTL

\* However clients and task overtake one another, the semaphore counts the free
\* places of the queue (AsyncDbCache.cs:122, 144, 160).
THEOREM PermitsAreExact == Spec => []PermitsOK
<1>1. IInv => PermitsOK
  BY DEF IInv, TypeOK
<1> QED
  BY <1>1, Invariance, PTL

\* Until something enters the queue at its front, the row counts nothing whose
\* metrics could still be lost.
THEOREM RowIsNotAhead == Spec => []RowNeverAhead
<1>1. IInv => RowNeverAhead
  BY DEF IInv
<1> QED
  BY <1>1, Invariance, PTL

\* Once the queue is empty the row shows the job as it is, and a paused job as
\* paused.
THEOREM RowGetsCurrent == Spec => []RowIsCurrent
<1>1. IInv => RowIsCurrent
  BY DEF IInv, RowIsCurrent, NewestInv, Calling, Idle
<1> QED
  BY <1>1, Invariance, PTL

\* The job that the task leaves is the last one.
THEOREM ResultGetsFinal == Spec => []ResultIsFinal
<1>1. IInv => ResultIsFinal
  BY DEF IInv
<1> QED
  BY <1>1, Invariance, PTL

-----------------------------------------------------------------------------
(* The metrics, as MetricLog promises them.  A step of the storage hands   *)
(* over, stores, ends a report or fails; or it leaves the log as it is.    *)

\* Nothing is handed over yet.
LEMMA InitMaps == Init => Log!Init
BY DEF Init, Log!Init, Reporting, Idle, NoCall, Clients

\* A call that goes on reports what it has reported.
LEMMA CallMaps ==
  ASSUME IInv, NEW c \in Clients, CallStep(c)
  PROVE  [Log!Next]_(Log!vars)
<1>1. CASE CheckTask(c) \/ WaitExpires(c) \/ Acquire(c)
  <2>1. Reporting' = Reporting
    BY <1>1 DEF CheckTask, WaitExpires, Acquire, Move, Reporting, Idle,
      Clients, IInv, TypeOK, ClientsOK, Calls
  <2> QED
    BY <1>1, <2>1 DEF CheckTask, WaitExpires, Acquire, Log!vars, taskVars,
      history
<1>2. CASE Add(c)
  <2>1. Reporting' = Reporting
    BY <1>2, NoCallTyped DEF Add, Reporting, Idle
  <2> QED
    BY <1>2, <2>1 DEF Add, Log!vars, taskVars, history
<1>3. CASE TaskIsFaulted(c) /\ c = "engine"
  <2>1. ~Reporting' /\ engine \notin {"failed", "done"} /\ engine' = "failed"
    BY <1>3, NoCallTyped DEF TaskIsFaulted, Reporting, Idle, IInv, TypeOK,
      ClientsOK, EngineInv
  <2> QED
    BY <1>3, <2>1 DEF TaskIsFaulted, Log!Next, Log!Fail, taskVars, history
<1>4. CASE TaskIsFaulted(c) /\ c = "web"
  <2>1. Reporting' = Reporting
    BY <1>4 DEF TaskIsFaulted, Reporting, Idle
  <2> QED
    BY <1>4, <2>1 DEF TaskIsFaulted, Log!vars, taskVars, history
<1> QED
  BY <1>1, <1>2, <1>3, <1>4 DEF CallStep, Clients

\* The engine hands over a batch, makes another call, or leaves.
LEMMA EngineMaps ==
  ASSUME IInv, EngineStep
  PROVE  [Log!Next]_(Log!vars)
<1>1. CASE IterationFinished \/ OnFault
  BY <1>1 DEF IterationFinished, OnFault, EngineCalls, Free, Reporting, Idle,
    Log!Next, Log!HandOver, taskVars
<1>2. CASE \/ \E newMode \in IterationModes : IterationStarting(newMode)
           \/ Pause \/ Continue \/ TestFinished \/ DrainQueue \/ CloseQueue
  <2>1. ~Reporting /\ ~Reporting'
    BY <1>2 DEF IterationStarting, Pause, Continue, TestFinished, DrainQueue,
      CloseQueue, EngineCalls, Issue, Free, Reporting, Update, StatusChange,
      Final, Close, Entry, Clients, IInv, TypeOK, ClientsOK
  <2>2. /\ engine \notin {"failed", "done"} /\ engine' \notin {"failed", "done"}
        /\ UNCHANGED <<stored, handed>>
    BY <1>2 DEF IterationStarting, Pause, Continue, TestFinished, DrainQueue,
      CloseQueue, EngineCalls, Free, history
  <2>3. Reporting' = Reporting
    BY <2>1 DEF Reporting
  <2>4. (engine \in {"failed", "done"} /\ task = "failed")'
          = (engine \in {"failed", "done"} /\ task = "failed")
    BY <2>2
  <2> QED
    BY <2>2, <2>3, <2>4 DEF Log!vars
<1>3. CASE JoinTask
  BY <1>3 DEF JoinTask, Reporting, Idle, Log!vars, history
<1>4. CASE JoinFaultedTask
  BY <1>4 DEF JoinFaultedTask, Free, Reporting, Idle, Log!Next, Log!Fail,
    taskVars, history
<1>5. CASE RestoreLogging
  BY <1>5 DEF RestoreLogging, Reporting, Idle, Log!vars, taskVars, history,
    EngineInv, IInv
<1> QED
  BY <1>1, <1>2, <1>3, <1>4, <1>5 DEF EngineStep, FinishStep

\* The task stores the next batch; with the entry of a fault it ends the report,
\* and then everything is stored.
LEMMA TaskMaps ==
  ASSUME IInv, TaskStep
  PROVE  [Log!Next]_(Log!vars)
<1>1. CASE Take
  BY <1>1 DEF Take, Reporting, Idle, Log!vars, clientVars, history
<1>2. CASE StoreMetrics
  <2>1. running.batch = Len(stored) + 1 /\ Len(stored) < handed
    <3>1. /\ Taken <= Queued /\ Taken = Len(stored) + 1
          /\ Queued <= handed /\ Queued \in Int
      BY <1>2 DEF StoreMetrics, BatchInv, Taken, Queued, Bit, IInv, TypeOK,
        DataOK
    <3> QED
      BY <1>2, <3>1 DEF StoreMetrics, BatchInv, IInv, TypeOK, DataOK
  <2> QED
    BY <1>2, <2>1 DEF StoreMetrics, Reporting, Idle, Log!Next, Log!Store,
      clientVars, history
<1>3. CASE Apply
  <2>1. UNCHANGED <<engine, stored, handed>> /\ task = "busy" /\ task' = "idle"
        /\ running.batch = 0
    BY <1>3 DEF Apply, ReadyToApply, history
  <2>2. CASE running.by = "engine"
    <3>1. call["engine"].at = "waiting" /\ call'["engine"] = NoCall
      BY <1>3, <2>2 DEF Apply, Pulse, WaitInv, Clients, IInv, TypeOK, ClientsOK
    <3>2. ~Reporting'
      BY <3>1, NoCallTyped DEF Reporting, Idle
    <3>3. Reporting => Len(stored) = handed
      BY <2>1, <2>2, <3>1 DEF Reporting, BatchInv, IInv
    <3> QED
      BY <2>1, <3>2, <3>3 DEF Reporting, Log!Next, Log!ReportEnds, Log!vars
  <2>3. CASE running.by # "engine"
    <3>1. Reporting' = Reporting
      BY <1>3, <2>3 DEF Apply, Pulse, Reporting, Idle
    <3> QED
      BY <2>1, <3>1 DEF Log!vars
  <2> QED
    BY <2>2, <2>3
<1>4. CASE Return
  BY <1>4 DEF Return, Reporting, Idle, Log!vars, clientVars, history
<1> QED
  BY <1>1, <1>2, <1>3, <1>4 DEF TaskStep

\* Stop, heart beats and failures do not show in the log.
LEMMA OthersMap ==
  ASSUME IInv, Stop \/ HeartBeat \/ StorageFailure \/ UNCHANGED vars
  PROVE  [Log!Next]_(Log!vars)
<1>1. CASE Stop
  <2>1. Reporting' = Reporting
    BY <1>1 DEF Stop, Issue, Reporting, Idle
  <2> QED
    BY <1>1, <2>1 DEF Stop, Log!vars, taskVars, history
<1>2. CASE HeartBeat
  BY <1>2 DEF HeartBeat, Reporting, Idle, Log!vars, clientVars, taskVars,
    history
<1>3. CASE StorageFailure
  BY <1>3 DEF StorageFailure, Fail, Reporting, Idle, EngineInv, IInv, Log!vars,
    history
<1>4. CASE UNCHANGED vars
  BY <1>4 DEF vars, clientVars, taskVars, history, Reporting, Idle, Log!vars
<1> QED
  BY <1>1, <1>2, <1>3, <1>4

\* Batches are stored in the order in which they are handed over, each once, and
\* the report of a fault returns when all of them are stored: the storage
\* implements MetricLog.
THEOREM StorageImplementsLog == Spec => ImplementsMetricLog
<1>1. IInv /\ [Next]_vars => [Log!Next]_(Log!vars)
  BY CallMaps, EngineMaps, TaskMaps, OthersMap DEF Next, Done
<1> QED
  BY <1>1, InitMaps, Invariance, PTL DEF Spec, ImplementsMetricLog, Log!Spec

=============================================================================
