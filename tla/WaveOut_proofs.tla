--------------------------- MODULE WaveOut_proofs ---------------------------
(***************************************************************************)
(* Proofs about WaveOut.  The actions are grouped by their effect on tokens *)
(* and blocks (Steps); each invariant is shown to survive each effect:      *)
(*   OwnedInv   who has the device handle;                                  *)
(*   TypeInv    types, and how many blocks of a submission are left;        *)
(*   TokenInv   every token is in one place, while its header is marked;    *)
(*   PlayInv    blocks, completions and submissions are in the same order.  *)
(***************************************************************************)
EXTENDS WaveOut, TLAPS, FiniteSetTheorems, SequenceTheorems

\* The worker outputs only while the backend is open, since a close is refused
\* while it does and teardown joins it first; an open backend has its handle,
\* and the handle is closed only after the backend was.
OwnedInv ==
    /\ opened => device = "open"
    /\ Active => opened
    /\ turn = "closing" => ~opened

\* Waking the worker takes it from the condition, never from an output.
LEMMA WakingKeepsActive == Broadcast => Active' = Active
  BY DEF Broadcast, Active

\* The worker takes a block only from an open backend, and closes nothing.
LEMMA WorkerOwns ==
  ASSUME OwnedInv, Worker \/ WorkerWakes
  PROVE  OwnedInv'
<1>1. UNCHANGED <<opened, device, turn>>
  BY DEF Worker, WorkerWakes, WorkerSpurious, WorkerWaits, WorkerTakes, WorkerExits,
         WorkerPlayed, WorkerOutputFails
<1>2. Active' => opened
  <2>1. CASE WorkerTakes
    BY <2>1 DEF WorkerTakes, HasWork
  <2>2. CASE ~WorkerTakes
    BY <2>2 DEF Active, Worker, WorkerWakes, WorkerSpurious, WorkerWaits, WorkerExits,
               WorkerPlayed, WorkerOutputFails
  <2> QED
    BY <2>1, <2>2
<1> QED
  BY <1>1, <1>2 DEF OwnedInv

\* Draining completions leaves device and worker alone.
LEMMA PumpOwns ==
  ASSUME OwnedInv, Pump
  PROVE  OwnedInv'
<1>1. UNCHANGED <<opened, device, worker>>
  BY DEF Pump, PumpFails, PumpEmpty, PumpDelivers, Poll, audioVars
<1>2. turn' # "closing"
  BY DEF Pump, PumpFails, PumpEmpty, PumpDelivers, Pumping, Abort, GivenBack
<1> QED
  BY <1>1, <1>2 DEF OwnedInv, Active

\* A call opens the device before it says so, and begins a close only when
\* nothing is queued and nothing is in output.
LEMMA CallOwns ==
  ASSUME OwnedInv, Call
  PROVE  OwnedInv'
<1>1. CASE WaveOpen
  BY <1>1, WakingKeepsActive
  DEF WaveOpen, Open, Calling, EndCall, Abort, audioVars, OwnedInv, Active
<1>2. CASE CloseStarts
  BY <1>2 DEF CloseStarts, CloseBegins, Busy, OwnedInv, Active
<1>3. CASE Call /\ ~WaveOpen /\ ~CloseStarts
  <2>1. UNCHANGED <<opened, device>>
    BY <1>3 DEF Call, OtherCall, ReadMessage, ControlFails, WaveReset, Prepare, Unprepare, Write,
           PauseOrRestart, Submit, SetPaused, Reset, audioVars
  <2>2. turn' # "closing"
    BY <1>3 DEF Call, OtherCall, ReadMessage, ControlFails, WaveReset, Prepare, Unprepare, Write,
           PauseOrRestart, Calling, Abort, EndCall
  <2>3. Active' = Active
    BY <1>3, WakingKeepsActive
    DEF Call, OtherCall, ReadMessage, ControlFails, WaveReset, Prepare, Unprepare, Write,
        PauseOrRestart, Submit, Enqueued, SetPaused, Reset, audioVars, Active
  <2> QED
    BY <2>1, <2>2, <2>3 DEF OwnedInv
<1> QED
  BY <1>1, <1>2, <1>3

\* The handle is closed after the lock is dropped, or after the worker ended.
LEMMA EndOwns ==
  ASSUME OwnedInv, CloseReturns \/ ExitStarts \/ ExitJoined
  PROVE  OwnedInv'
<1>1. CASE CloseReturns
  BY <1>1 DEF CloseReturns, CloseEnds, EndCall, Abort, OwnedInv, Active
<1>2. CASE ExitStarts
  BY <1>2, WakingKeepsActive DEF ExitStarts, TeardownBegins, Stop, OwnedInv
<1>3. CASE ExitJoined
  BY <1>3 DEF ExitJoined, TeardownEnds, OwnedInv, Active
<1> QED
  BY <1>1, <1>2, <1>3

\* Who has the device is inductive.
LEMMA OwnedStep ==
  ASSUME OwnedInv, [Next]_vars
  PROVE  OwnedInv'
<1>1. CASE UNCHANGED vars
  BY <1>1 DEF vars, audioVars, OwnedInv, Active
<1> QED
  BY <1>1, WorkerOwns, PumpOwns, CallOwns, EndOwns DEF Next

\* sceAudioOutClose never runs under sceAudioOutOutput, and the guest is told
\* of an open device only while there is one (PW_AUDIO_CLOSE, audio_worker and
\* pw_audio_ps5_close of native/pw_audio_ps5.c).
THEOREM DeviceAlwaysOwned == Spec => []DeviceOwned
<1>1. Init => OwnedInv
  BY DEF Init, AudioInit, OwnedInv, Active
<1>2. OwnedInv /\ [Next]_vars => OwnedInv'
  BY OwnedStep
<1>3. OwnedInv => DeviceOwned
  BY DEF OwnedInv, DeviceOwned
<1> QED
  BY <1>1, <1>2, <1>3, PTL DEF Spec

Inq(h) == "inqueue" \in flags[h]
Entry(i) == IF i = 0 THEN block ELSE queue[i]

\* The worker holds a block only while it outputs it; what is queued is of the
\* current generation.
Shape ==
    /\ IsFiniteSet(headers)
    /\ IF Active THEN block \in Block ELSE block = NoBlock
    /\ block.generation <= generation /\ block.submission <= enqueues
    /\ \A i \in DOMAIN queue : queue[i].generation = generation /\ queue[i].submission <= enqueues

\* An error is never cleared: it aborts the runtime at the next pump, before
\* waveOutOpen could clear it.
Turns ==
    /\ ~isOpen => headers = {}
    /\ turn = "guest" /\ ~opened => workerError = "ok"
    /\ stopping => turn \in {"joining", "ended"} /\ queue = <<>>

\* Blocks left of a submission are still counted, in the order of the queue.
Counted ==
    /\ Active => unplayed[block.submission] >= 1
    /\ \A j \in DOMAIN queue :
         /\ block.submission = queue[j].submission => unplayed[queue[j].submission] >= j + 1
         /\ \A k \in 1 .. j :
              queue[k].submission = queue[j].submission => unplayed[queue[j].submission] >= j - k + 1

TypeInv == TypeOK /\ Shape /\ Turns /\ OwnedInv /\ Counted

\* A token is in one place, and only while its header is marked.
Once ==
    /\ \A i, j \in Outstanding : TokenAt(i) = TokenAt(j) => i = j
    /\ \A i, j \in DOMAIN completed : completed[i] = completed[j] => i = j
    /\ \A i \in Outstanding : \A j \in DOMAIN completed : TokenAt(i) # completed[j]
    /\ \A i \in Outstanding : Inq(TokenAt(i))
    /\ \A j \in DOMAIN completed : Inq(completed[j])
    /\ \A h \in Headers : Inq(h) => h \in headers

\* A marked header has its token somewhere.
Somewhere(h) == \/ \E i \in Outstanding : TokenAt(i) = h
                \/ \E j \in DOMAIN completed : completed[j] = h
Accounted == workerError = "ok" /\ ~stopping => \A h \in Headers : Inq(h) => Somewhere(h)

TokenInv == TypeInv /\ Once /\ Accounted

\* Blocks are queued, played and completed in the order they were written.
Ordered ==
    /\ \A i \in Outstanding : Entry(i).submission = latest[TokenAt(i)]
    /\ \A j \in DOMAIN completed :
         /\ latest[completed[j]] \in 1 .. enqueues
         /\ latest[completed[j]] # block.submission
         /\ 0 \in Outstanding => latest[completed[j]] < block.submission
         /\ \A i \in DOMAIN queue : latest[completed[j]] < queue[i].submission
         /\ \A i \in 1 .. j - 1 : latest[completed[i]] < latest[completed[j]]
    /\ \A j \in DOMAIN queue :
         /\ block.submission <= queue[j].submission
         /\ block.token # NoToken => block.submission < queue[j].submission
         /\ \A i \in 1 .. j - 1 :
              /\ queue[i].submission <= queue[j].submission
              /\ queue[i].token # NoToken => queue[i].submission < queue[j].submission

\* While there is no error, nothing but the blocks left is counted.
Exact ==
    workerError = "ok" =>
      /\ \A j \in DOMAIN completed : unplayed[latest[completed[j]]] = 0
      /\ block.token # NoToken => unplayed[block.submission] = 1
      /\ \A i \in DOMAIN queue :
           queue[i].token # NoToken =>
             LET s == queue[i].submission IN
             /\ unplayed[s] <= i + 1
             /\ unplayed[s] = i + 1 => block.submission = s
             /\ \A j \in 1 .. i : j > i - unplayed[s] => queue[j].submission = s

PlayInv == TokenInv /\ Ordered /\ Exact

-----------------------------------------------------------------------------
(* Types                                                                   *)

USE DEF Headers

\* What Next is made of, by what the actions do to tokens and blocks.
Still ==
    /\ UNCHANGED <<generation, queue, completed, block, enqueues, unplayed, workerError, latest>>
    /\ Active' = Active
    /\ \A h \in Headers : Inq(h)' <=> Inq(h)
Takes ==
    /\ ~Active /\ Active' /\ queue # <<>> /\ ~stopping
    /\ block' = Head(queue) /\ queue' = Tail(queue)
    /\ UNCHANGED <<opened, generation, completed, enqueues, unplayed, workerError, latest, headers, flags>>
Plays ==
    /\ Active /\ ~Active'
    /\ CompletedPush(block)
    /\ unplayed' = [unplayed EXCEPT ![block.submission] = @ - 1]
    /\ block' = NoBlock
    /\ UNCHANGED <<opened, generation, queue, enqueues, latest, headers, flags>>
Drops ==
    /\ Active /\ ~Active'
    /\ workerError' = "state" /\ block' = NoBlock
    /\ UNCHANGED <<opened, generation, queue, completed, enqueues, unplayed, latest, headers, flags>>
Delivers(h) ==
    /\ workerError = "ok" /\ completed # <<>> /\ h = Head(completed)
    /\ completed' = Tail(completed)
    /\ IF h \in headers /\ Inq(h)
       THEN flags' = [flags EXCEPT ![h] = (@ \cup {"done"}) \ {"inqueue"}]
       ELSE UNCHANGED flags
    /\ UNCHANGED <<opened, generation, queue, block, enqueues, unplayed, workerError, latest, headers>>
    /\ Active' = Active
Writes(h, n) ==
    /\ GuestRewrites \/ ~Inq(h)
    /\ opened /\ h \in headers /\ Fits(n) /\ enqueues < MaxSubmits /\ workerError = "ok" /\ ~stopping
    /\ queue' = queue \o BlocksOf(h, n)
    /\ enqueues' = enqueues + 1
    /\ unplayed' = [unplayed EXCEPT ![enqueues + 1] = n]
    /\ flags' = [flags EXCEPT ![h] = (@ \cup {"inqueue"}) \ {"done"}]
    /\ latest' = [latest EXCEPT ![h] = enqueues']
    /\ Active' = Active
    /\ UNCHANGED <<opened, generation, completed, block, workerError, headers>>
Discards ==
    /\ queue' = <<>> /\ completed' = <<>>
    /\ \/ /\ turn = "guest" /\ generation < MaxGeneration
          /\ generation' = generation + 1 /\ flags' = ResetFlags
       \/ UNCHANGED <<generation, flags>> /\ stopping'
    /\ Active' = Active
    /\ UNCHANGED <<opened, block, enqueues, unplayed, workerError, latest, headers>>

\* Every step has one of those effects.
LEMMA Steps ==
  ASSUME TypeInv, [Next]_vars
  PROVE  \/ Still \/ Takes \/ Plays \/ Drops \/ Discards
         \/ \E h \in Headers : Delivers(h) \/ \E n \in 0 .. MaxBlocks : Writes(h, n)
<1> USE DEF TypeInv
<1>0. CASE UNCHANGED vars
  BY <1>0 DEF vars, audioVars, waveVars, guestVars, Still, Active, Inq
<1>1. CASE Worker \/ WorkerWakes
  <2>1. CASE WorkerTakes
    BY <1>1, <2>1 DEF Worker, WorkerWakes, WorkerTakes, HasWork, Takes, Active, waveVars, guestVars
  <2>2. CASE WorkerPlayed
    BY <1>1, <2>2 DEF Worker, WorkerWakes, WorkerPlayed, Plays, Active, waveVars, guestVars
  <2>3. CASE WorkerOutputFails
    BY <1>1, <2>3 DEF Worker, WorkerWakes, WorkerOutputFails, Drops, Active, waveVars, guestVars
  <2>4. CASE WorkerWaits \/ WorkerExits \/ WorkerSpurious
    BY <1>1, <2>4 DEF Worker, WorkerWakes, WorkerWaits, WorkerExits, WorkerSpurious, Still, Active,
       waveVars, guestVars, Inq
  <2> QED
    BY <1>1, <2>1, <2>2, <2>3, <2>4 DEF Worker, WorkerWakes
<1>2. CASE Pump
  <2>1. CASE PumpFails \/ PumpEmpty
    BY <2>1 DEF PumpFails, PumpEmpty, Poll, audioVars, waveVars, guestVars, Still, Active, Inq
  <2>2. ASSUME NEW h \in Headers, PumpDelivers(h) PROVE Delivers(h)
    BY <2>2 DEF PumpDelivers, Poll, Delivers, GivenBack, waveVars, Active, Inq
  <2> QED
    BY <1>2, <2>1, <2>2 DEF Pump
<1>3. CASE Call
  <2>1. CASE OtherCall \/ ReadMessage \/ ControlFails \/ CloseStarts
    BY <2>1 DEF OtherCall, ReadMessage, ControlFails, CloseStarts, CloseBegins, audioVars, waveVars,
       guestVars, Still, Active, Inq
  <2>2. CASE WaveOpen
    BY <2>2, WakingKeepsActive DEF WaveOpen, Open, Calling, Turns, audioVars, guestVars, Still, Inq, Active
  <2>3. CASE WaveReset
    BY <2>3, WakingKeepsActive DEF WaveReset, Calling, Reset, Discarded, Discards, audioVars, guestVars
  <2>4. ASSUME NEW h \in Headers, Prepare(h) \/ Unprepare(h) PROVE Still
    <3>1. UNCHANGED <<audioVars, latest>> /\ Active' = Active
      BY <2>4 DEF Prepare, Unprepare, audioVars, Active
    <3>2. flags' \in {flags, [flags EXCEPT ![h] = @ \cup {"prepared"}], [flags EXCEPT ![h] = @ \ {"prepared"}]}
      BY <2>4 DEF Prepare, Unprepare
    <3> QED
      BY <3>1, <3>2 DEF audioVars, Still, Inq, TypeOK
  <2>5. ASSUME NEW h \in Headers, NEW n \in 0 .. MaxBlocks, Write(h, n) PROVE Still \/ Writes(h, n)
    <3>1. CASE Submit(h, n, "ok")
      <4>1. ~stopping
        BY <2>5 DEF Write, Calling, Turns
      <4>2. opened /\ workerError = "ok" /\ Fits(n) /\ enqueues < MaxSubmits
        BY <3>1 DEF Submit
      <4>3. Active' = Active
        BY <3>1, WakingKeepsActive DEF Submit, Enqueued
      <4>4. /\ queue' = queue \o BlocksOf(h, n) /\ enqueues' = enqueues + 1
            /\ unplayed' = [unplayed EXCEPT ![enqueues + 1] = n]
            /\ UNCHANGED <<opened, generation, completed, block, workerError>>
        BY <3>1 DEF Submit, Enqueued
      <4>5. CASE /\ flags' = [flags EXCEPT ![h] = (@ \cup {"inqueue"}) \ {"done"}]
                 /\ latest' = [latest EXCEPT ![h] = enqueues']
        BY <2>5, <4>1, <4>2, <4>3, <4>4, <4>5 DEF Write, Writes, waveVars, Inq
      <4>6. CASE Submit(h, n, "limit") \/ Submit(h, n, "state")
        BY <3>1, <4>6 DEF Submit, audioVars
      <4> QED
        BY <2>5, <4>5, <4>6 DEF Write
    <3>2. CASE Submit(h, n, "limit") \/ Submit(h, n, "state")
      <4>1. UNCHANGED audioVars
        BY <3>2 DEF Submit
      <4>2. UNCHANGED flags /\ UNCHANGED latest
        BY <2>5, <4>1 DEF Write, Submit, audioVars, TypeOK
      <4> QED
        BY <4>1, <4>2 DEF audioVars, Still, Active, Inq
    <3> QED
      BY <2>5, <3>1, <3>2 DEF Write
  <2>6. ASSUME NEW value \in BOOLEAN, PauseOrRestart(value) PROVE Still
    BY <2>6, WakingKeepsActive DEF PauseOrRestart, SetPaused, Still, guestVars, Inq
  <2> QED
    BY <1>3, <2>1, <2>2, <2>3, <2>4, <2>5, <2>6 DEF Call
<1>4. CASE CloseReturns \/ ExitJoined
  BY <1>4 DEF CloseReturns, CloseEnds, ExitJoined, TeardownEnds, Still, waveVars, guestVars, Active, Inq
<1>5. CASE ExitStarts
  BY <1>5, WakingKeepsActive DEF ExitStarts, TeardownBegins, Stop, Discards, waveVars, guestVars
<1> QED
  BY <1>0, <1>1, <1>2, <1>3, <1>4, <1>5 DEF Next

\* What the types say of what is queued, played and completed.
LEMMA Contents ==
  ASSUME TypeInv
  PROVE  /\ Len(queue) \in Nat /\ DOMAIN queue = 1 .. Len(queue)
         /\ \A i \in 1 .. Len(queue) :
              /\ queue[i] \in Block /\ queue[i].token \in Tokens \cup {NoToken}
              /\ queue[i].generation = generation /\ queue[i].submission \in 1 .. enqueues
              /\ queue[i].submission \in Submissions
         /\ block.submission \in 0 .. enqueues /\ block.token \in Tokens \cup {NoToken}
         /\ Active => block \in Block /\ block.submission \in Submissions
         /\ ~Active => block = NoBlock
         /\ Len(completed) \in Nat /\ DOMAIN completed = 1 .. Len(completed)
         /\ \A j \in 1 .. Len(completed) : completed[j] \in Tokens
         /\ enqueues \in Nat /\ MaxSubmits \in Nat /\ generation \in Nat
<1> USE AudioAssumption
<1>1. /\ queue \in Seq(Block) /\ completed \in Seq(Tokens) /\ enqueues \in 0 .. MaxSubmits
      /\ generation \in 1 .. MaxGeneration
  BY DEF TypeInv, TypeOK
<1>2. /\ Len(queue) \in Nat /\ DOMAIN queue = 1 .. Len(queue)
      /\ \A i \in 1 .. Len(queue) : queue[i] \in Block
  BY <1>1
<1>3. \A i \in 1 .. Len(queue) :
        /\ queue[i].token \in Tokens \cup {NoToken}
        /\ queue[i].generation = generation /\ queue[i].submission \in 1 .. enqueues
        /\ queue[i].submission \in Submissions
  <2> SUFFICES ASSUME NEW i \in 1 .. Len(queue)
               PROVE  /\ queue[i].token \in Tokens \cup {NoToken}
                      /\ queue[i].generation = generation /\ queue[i].submission \in 1 .. enqueues
                      /\ queue[i].submission \in Submissions
    OBVIOUS
  <2>1. queue[i] \in Block /\ queue[i].generation = generation /\ queue[i].submission <= enqueues
    BY <1>2 DEF TypeInv, Shape
  <2> QED
    BY <1>1, <2>1 DEF Block, Submissions
<1>4. /\ block.submission \in 0 .. enqueues /\ block.token \in Tokens \cup {NoToken}
      /\ Active => block \in Block /\ block.submission \in Submissions
      /\ ~Active => block = NoBlock
  BY <1>1 DEF TypeInv, Shape, Block, NoBlock, Submissions
<1>5. /\ Len(completed) \in Nat /\ DOMAIN completed = 1 .. Len(completed)
      /\ \A j \in 1 .. Len(completed) : completed[j] \in Tokens
  BY <1>1
<1> QED
  BY <1>1, <1>2, <1>3, <1>4, <1>5

\* What queueing does to the queue.
LEMMA QueuedBlocks ==
  ASSUME TypeInv, NEW h \in Headers, NEW n \in 0 .. MaxBlocks, Writes(h, n)
  PROVE  /\ Len(queue') = Len(queue) + n
         /\ \A i \in 1 .. Len(queue) : queue'[i] = queue[i]
         /\ \A i \in Len(queue) + 1 .. Len(queue) + n :
              /\ queue'[i].token = IF i = Len(queue) + n THEN h ELSE NoToken
              /\ queue'[i].generation = generation /\ queue'[i].submission = enqueues + 1
         /\ queue' \in Seq(Block) /\ n > 0 /\ Len(queue') <= QueueBlocks
<1> DEFINE b == BlocksOf(h, n)
<1>0. n > 0 /\ n <= QueueBlocks - Len(queue) /\ Len(queue) \in Nat /\ QueueBlocks \in Nat
  BY AudioAssumption DEF Writes, Fits, TypeInv, TypeOK
<1>1. b \in Seq(Block) /\ Len(b) = n
  <2>1. \A i \in 1 .. n : b[i] \in Block
    BY AudioAssumption DEF BlocksOf, Block, TypeInv, TypeOK, Submissions, Writes
  <2>2. n \in Nat /\ b \in [1 .. n -> Block]
    BY <2>1, AudioAssumption DEF BlocksOf
  <2> QED
    BY <2>2
<1>2. queue \in Seq(Block) /\ queue' = queue \o b
  BY DEF TypeInv, TypeOK, Writes
<1>3. b = [i \in 1 .. n |-> [token |-> IF i = n THEN h ELSE NoToken,
                            generation |-> generation, submission |-> enqueues + 1]]
  BY DEF BlocksOf
<1> HIDE DEF b
<1>4. /\ queue' \in Seq(Block) /\ Len(queue') = Len(queue) + n
      /\ \A i \in 1 .. Len(queue) + n : queue'[i] = IF i <= Len(queue) THEN queue[i] ELSE b[i - Len(queue)]
  BY <1>1, <1>2, ConcatProperties
<1>5. ASSUME NEW i \in Len(queue) + 1 .. Len(queue) + n
      PROVE  /\ queue'[i].token = IF i = Len(queue) + n THEN h ELSE NoToken
             /\ queue'[i].generation = generation /\ queue'[i].submission = enqueues + 1
  <2>1. i - Len(queue) \in 1 .. n /\ queue'[i] = b[i - Len(queue)]
    BY <1>0, <1>4
  <2>2. b[i - Len(queue)] = [token |-> IF i - Len(queue) = n THEN h ELSE NoToken,
                             generation |-> generation, submission |-> enqueues + 1]
    BY <1>3, <2>1
  <2>3. i - Len(queue) = n <=> i = Len(queue) + n
    BY <1>0
  <2> QED
    BY <2>1, <2>2, <2>3
<1> QED
  BY <1>0, <1>4, <1>5

\* What taking does to the queue.
LEMMA TakenBlock ==
  ASSUME TypeInv, Takes
  PROVE  /\ Len(queue) >= 1 /\ Len(queue') = Len(queue) - 1 /\ queue' \in Seq(Block)
         /\ \A i \in 1 .. Len(queue') : queue'[i] = queue[i + 1]
         /\ block' = queue[1] /\ block' \in Block /\ block = NoBlock
<1>1. queue \in Seq(Block) /\ queue # <<>>
  BY DEF TypeInv, TypeOK, Takes
<1>2. Len(queue) >= 1
  BY <1>1
<1>3. /\ Head(queue) = queue[1] /\ Tail(queue) \in Seq(Block) /\ Len(Tail(queue)) = Len(queue) - 1
      /\ \A i \in 1 .. Len(queue) - 1 : Tail(queue)[i] = queue[i + 1]
  BY <1>1, HeadTailProperties
<1>4. block = NoBlock
  BY DEF TypeInv, Shape, Takes
<1>5. queue[1] \in Block
  BY <1>1, <1>2
<1> QED
  BY <1>2, <1>3, <1>4, <1>5 DEF Takes

\* What a delivery does to the ring.
LEMMA DeliveredToken ==
  ASSUME TypeInv, NEW h, Delivers(h)
  PROVE  /\ Len(completed) >= 1 /\ Len(completed') = Len(completed) - 1 /\ completed' \in Seq(Tokens)
         /\ \A i \in 1 .. Len(completed') : completed'[i] = completed[i + 1]
         /\ h = completed[1] /\ h \in Tokens
<1>1. completed \in Seq(Tokens) /\ completed # <<>>
  BY DEF TypeInv, TypeOK, Delivers
<1>2. Len(completed) >= 1
  BY <1>1
<1>3. /\ Head(completed) = completed[1] /\ Tail(completed) \in Seq(Tokens)
      /\ Len(Tail(completed)) = Len(completed) - 1
      /\ \A i \in 1 .. Len(completed) - 1 : Tail(completed)[i] = completed[i + 1]
  BY <1>1, HeadTailProperties
<1>4. completed[1] \in Tokens
  BY <1>1, <1>2
<1> QED
  BY <1>2, <1>3, <1>4 DEF Delivers

\* What playing does to the ring: nothing, or it is full, or the token is added.
Ignored == UNCHANGED <<completed, workerError>> /\ 0 \notin Outstanding
Refused == /\ Len(completed) = CompletionSlots /\ workerError' = "limit"
           /\ UNCHANGED completed /\ 0 \in Outstanding
Pushed ==
    /\ 0 \in Outstanding /\ UNCHANGED workerError /\ Len(completed) < CompletionSlots
    /\ completed' \in Seq(Tokens) /\ Len(completed') = Len(completed) + 1
    /\ \A i \in 1 .. Len(completed) : completed'[i] = completed[i]
    /\ completed'[Len(completed) + 1] = block.token
\* completed_push has one of those outcomes.
LEMMA PushedToken ==
  ASSUME TypeInv, Plays
  PROVE  Ignored \/ Refused \/ Pushed
<1>1. block \in Block /\ completed \in Seq(Tokens) /\ Len(completed) <= CompletionSlots
  BY DEF TypeInv, TypeOK, Shape, Plays
<1>2. 0 \in Outstanding <=> block.generation = generation /\ block.token # NoToken
  <2>1. 0 \in 0 .. Len(queue)
    BY DEF TypeInv, TypeOK
  <2> QED
    BY <2>1 DEF Outstanding
<1>3. CASE 0 \notin Outstanding
  BY <1>2, <1>3 DEF Plays, CompletedPush, Ignored
<1>4. CASE 0 \in Outstanding /\ Len(completed) = CompletionSlots
  BY <1>2, <1>4 DEF Plays, CompletedPush, Refused
<1>5. CASE 0 \in Outstanding /\ Len(completed) # CompletionSlots
  <2>1. completed' = Append(completed, block.token) /\ UNCHANGED workerError
    BY <1>2, <1>5 DEF Plays, CompletedPush
  <2>2. block.token \in Tokens
    BY <1>1, <1>2, <1>5 DEF Block
  <2>3. Len(completed) < CompletionSlots
    BY <1>1, <1>5, AudioAssumption
  <2> QED
    BY <1>1, <1>5, <2>1, <2>2, <2>3 DEF Pushed
<1> QED
  BY <1>3, <1>4, <1>5

\* The audio variables keep their types.
AudioTypes ==
    /\ workerError \in {"ok", "state", "limit"}
    /\ generation \in 1 .. MaxGeneration
    /\ queue \in Seq(Block) /\ Len(queue) <= QueueBlocks
    /\ completed \in Seq(Tokens) /\ Len(completed) <= CompletionSlots
    /\ block \in Block \cup {NoBlock}
    /\ enqueues \in 0 .. MaxSubmits /\ unplayed \in [Submissions -> 0 .. MaxBlocks]
    /\ latest \in [Headers -> 0 .. MaxSubmits]

\* They do: no count goes below zero, nothing queued passes the ring's size.
LEMMA AudioStep ==
  ASSUME TypeInv, [Next]_vars
  PROVE  AudioTypes'
<1>0. AudioTypes
  BY DEF TypeInv, TypeOK, AudioTypes
<1> USE AudioAssumption
<1>1. CASE Still
  BY <1>0, <1>1 DEF Still, AudioTypes
<1>2. CASE Takes
  BY <1>0, <1>2, TakenBlock DEF Takes, AudioTypes
<1>3. CASE Plays
  <2>1. block.submission \in Submissions /\ unplayed[block.submission] \in 1 .. MaxBlocks
        /\ block.token \in Tokens \cup {NoToken}
    BY <1>3 DEF Plays, TypeInv, Shape, Counted, Block, TypeOK
  <2>2. unplayed' \in [Submissions -> 0 .. MaxBlocks]
    BY <1>0, <1>3, <2>1 DEF Plays, AudioTypes
  <2>3. /\ workerError' \in {"ok", "state", "limit"}
        /\ completed' \in Seq(Tokens) /\ Len(completed') <= CompletionSlots
    BY <1>0, <1>3, PushedToken DEF Ignored, Refused, Pushed, AudioTypes
  <2> QED
    BY <1>0, <1>3, <2>2, <2>3 DEF Plays, AudioTypes
<1>4. CASE Drops
  BY <1>0, <1>4 DEF Drops, AudioTypes
<1>5. CASE Discards
  BY <1>0, <1>5, EmptySeq DEF Discards, AudioTypes
<1>6. ASSUME NEW h \in Headers, Delivers(h) PROVE AudioTypes'
  BY <1>0, <1>6, DeliveredToken DEF Delivers, AudioTypes
<1>7. ASSUME NEW h \in Headers, NEW n \in 0 .. MaxBlocks, Writes(h, n) PROVE AudioTypes'
  <2>1. enqueues' \in 0 .. MaxSubmits /\ enqueues + 1 \in Submissions
    BY <1>0, <1>7 DEF Writes, AudioTypes, Submissions
  <2>2. unplayed' \in [Submissions -> 0 .. MaxBlocks] /\ latest' \in [Headers -> 0 .. MaxSubmits]
    BY <1>0, <1>7, <2>1 DEF Writes, AudioTypes
  <2> QED
    BY <1>0, <1>7, <2>1, <2>2, QueuedBlocks DEF Writes, AudioTypes
<1> QED
  BY <1>1, <1>2, <1>3, <1>4, <1>5, <1>6, <1>7, Steps

\* A block is copied from the queue to the worker and back to NoBlock only.
LEMMA ShapeStep ==
  ASSUME TypeInv, [Next]_vars
  PROVE  Shape'
<1> USE AudioAssumption
<1>0. /\ Shape /\ queue \in Seq(Block) /\ generation \in 1 .. MaxGeneration /\ enqueues \in 0 .. MaxSubmits
      /\ IsFiniteSet(headers)
  BY DEF TypeInv, TypeOK, Shape
<1>1. IsFiniteSet(headers)'
  <2>1. CASE \E h \in Headers : Prepare(h) \/ Unprepare(h)
    <3> PICK h \in Headers : Prepare(h) \/ Unprepare(h)
      BY <2>1
    <3>1. headers' \in {headers, headers \cup {h}, headers \ {h}}
      BY DEF Prepare, Unprepare
    <3>2. IsFiniteSet(headers \cup {h}) /\ IsFiniteSet(headers \ {h})
      BY <1>0, FS_AddElement, FS_RemoveElement
    <3> QED
      BY <1>0, <3>1, <3>2
  <2>2. CASE ~\E h \in Headers : Prepare(h) \/ Unprepare(h)
    <3>1. headers' \in {headers, {}}
      BY <2>2 DEF Next, vars, Worker, WorkerWakes, Pump, PumpFails, PumpEmpty, PumpDelivers, Call,
         OtherCall, ReadMessage, WaveOpen, ControlFails, WaveReset, CloseStarts, Write, PauseOrRestart,
         CloseReturns, Forgotten, ExitStarts, ExitJoined, waveVars
    <3> QED
      BY <1>0, <3>1, FS_EmptySet
  <2> QED
    BY <2>1, <2>2
<1> DEFINE Rest == /\ IF Active THEN block \in Block ELSE block = NoBlock
                   /\ block.generation <= generation /\ block.submission <= enqueues
                   /\ \A i \in DOMAIN queue : queue[i].generation = generation /\ queue[i].submission <= enqueues
<1>2. Rest'
  <2>1. CASE Still
    BY <1>0, <2>1 DEF Still, Shape
  <2>2. CASE Takes
    BY <1>0, <2>2, TakenBlock DEF Takes, Shape
  <2>3. CASE Plays \/ Drops
    BY <1>0, <2>3 DEF Plays, Drops, Shape, NoBlock
  <2>4. CASE Discards
    BY <1>0, <2>4 DEF Discards, Shape, Block, NoBlock
  <2>5. ASSUME NEW h \in Headers, Delivers(h) PROVE Rest'
    BY <1>0, <2>5 DEF Delivers, Shape
  <2>6. ASSUME NEW h \in Headers, NEW n \in 0 .. MaxBlocks, Writes(h, n) PROVE Rest'
    <3>1. \A i \in 1 .. Len(queue) + n : queue'[i].generation = generation /\ queue'[i].submission <= enqueues + 1
      <4> SUFFICES ASSUME NEW i \in 1 .. Len(queue) + n
                   PROVE  queue'[i].generation = generation /\ queue'[i].submission <= enqueues + 1
        OBVIOUS
      <4>1. Len(queue) \in Nat
        BY <1>0
      <4>2. CASE i \in 1 .. Len(queue)
        <5>1. queue[i].generation = generation /\ queue[i].submission \in 1 .. enqueues
          BY <4>2, Contents
        <5>2. queue'[i] = queue[i]
          BY <2>6, <4>2, QueuedBlocks
        <5> QED
          BY <1>0, <5>1, <5>2
      <4>3. CASE i \in Len(queue) + 1 .. Len(queue) + n
        BY <1>0, <2>6, <4>3, QueuedBlocks
      <4> QED
        BY <4>1, <4>2, <4>3
    <3>2. queue' \in Seq(Block) /\ Len(queue') = Len(queue) + n
      BY <2>6, QueuedBlocks
    <3>3. DOMAIN queue' = 1 .. Len(queue) + n
      BY <3>2
    <3> QED
      <4>1. UNCHANGED <<block, generation>> /\ Active' = Active /\ enqueues' = enqueues + 1
        BY <2>6 DEF Writes
      <4> HIDE DEF Rest
      <4>2. Rest
        BY <1>0 DEF Rest, Shape
      <4>3. block.generation <= generation /\ block.submission <= enqueues + 1
        BY <1>0, Contents DEF Shape
      <4> QED
        BY <1>0, <3>1, <3>3, <4>1, <4>2, <4>3 DEF Rest
  <2> QED
    BY <2>1, <2>2, <2>3, <2>4, <2>5, <2>6, Steps
<1> QED
  BY <1>1, <1>2 DEF Shape

\* The guest thread alternates pump and call, so an error is seen before an open.
LEMMA TurnsStep ==
  ASSUME TypeInv, [Next]_vars
  PROVE  Turns'
<1>0. Turns /\ OwnedInv
  BY DEF TypeInv
<1>1. (~isOpen => headers = {})'
  BY <1>0 DEF Turns, Next, vars, Worker, WorkerWakes, Pump, PumpFails, PumpEmpty, PumpDelivers, Call,
     OtherCall, ReadMessage, WaveOpen, ControlFails, WaveReset, CloseStarts, Write, PauseOrRestart,
     Prepare, Unprepare, CloseReturns, Forgotten, ExitStarts, ExitJoined, waveVars
<1>2. (turn = "guest" /\ ~opened => workerError = "ok")'
  <2>1. CASE Worker \/ WorkerWakes
    BY <1>0, <2>1 DEF Worker, WorkerWakes, WorkerWaits, WorkerTakes, WorkerExits, WorkerPlayed,
       WorkerOutputFails, WorkerSpurious, Turns, OwnedInv
  <2>2. CASE Pump
    <3>1. CASE PumpEmpty
      BY <3>1 DEF PumpEmpty, Poll, audioVars, TypeInv, TypeOK
    <3>2. CASE PumpFails \/ \E h \in Headers : PumpDelivers(h)
      BY <3>2 DEF PumpFails, PumpDelivers, Pumping, Abort, GivenBack
    <3> QED
      BY <2>2, <3>1, <3>2 DEF Pump
  <2>3. CASE Call
    <3>1. CASE \E h \in Headers, n \in 0 .. MaxBlocks : Write(h, n)
      BY <1>0, <3>1 DEF Write, Submit, Calling, EndCall, Abort, audioVars, Turns
    <3>2. CASE ~\E h \in Headers, n \in 0 .. MaxBlocks : Write(h, n)
      BY <1>0, <2>3, <3>2 DEF Call, OtherCall, ReadMessage, WaveOpen, ControlFails, WaveReset, CloseStarts,
         PauseOrRestart, Prepare, Unprepare, Open, Reset, CloseBegins, SetPaused, Calling, EndCall, Abort,
         audioVars, Turns
    <3> QED
      BY <3>1, <3>2
  <2>4. CASE CloseReturns \/ ExitStarts \/ ExitJoined
    BY <2>4 DEF CloseReturns, ExitStarts, ExitJoined, EndCall, Abort
  <2>5. CASE UNCHANGED vars
    BY <1>0, <2>5 DEF vars, audioVars, Turns
  <2> QED
    BY <2>1, <2>2, <2>3, <2>4, <2>5 DEF Next
<1>3. (stopping => turn \in {"joining", "ended"} /\ queue = <<>>)'
  <2>1. CASE Worker \/ WorkerWakes
    BY <1>0, <2>1 DEF Worker, WorkerWakes, WorkerWaits, WorkerTakes, WorkerExits, WorkerPlayed,
       WorkerOutputFails, WorkerSpurious, Turns
  <2>2. CASE Pump
    BY <1>0, <2>2 DEF Pump, PumpFails, PumpEmpty, PumpDelivers, Poll, Pumping, Turns, audioVars
  <2>3. CASE Call
    <3>1. ~stopping
      BY <1>0, <2>3 DEF Turns, Call, Calling, OtherCall, ReadMessage, WaveOpen, ControlFails, WaveReset,
         CloseStarts, PauseOrRestart, Prepare, Unprepare, Write
    <3>2. UNCHANGED stopping
      BY <2>3 DEF Call, OtherCall, ReadMessage, WaveOpen, ControlFails, WaveReset, CloseStarts, Write, Submit,
         PauseOrRestart, Prepare, Unprepare, Open, Reset, CloseBegins, SetPaused, audioVars
    <3> QED
      BY <3>1, <3>2
  <2>4. CASE CloseReturns \/ ExitStarts \/ ExitJoined
    BY <1>0, <2>4 DEF CloseReturns, CloseEnds, ExitStarts, ExitJoined, TeardownBegins, TeardownEnds,
       Stop, EndCall, Abort, Turns
  <2>5. CASE UNCHANGED vars
    BY <1>0, <2>5 DEF vars, audioVars, Turns
  <2> QED
    BY <2>1, <2>2, <2>3, <2>4, <2>5 DEF Next
<1> QED
  BY <1>1, <1>2, <1>3 DEF Turns

\* audio_worker counts down only blocks still counted.
LEMMA CountedStep ==
  ASSUME TypeInv, [Next]_vars
  PROVE  Counted'
<1>0. Counted /\ Shape /\ queue \in Seq(Block) /\ enqueues \in 0 .. MaxSubmits
      /\ unplayed \in [Submissions -> 0 .. MaxBlocks] /\ MaxSubmits \in Nat /\ MaxBlocks \in Nat
  BY AudioAssumption DEF TypeInv, TypeOK
<1>1. CASE Still
  BY <1>0, <1>1 DEF Still, Counted
<1>2. CASE Takes
  <2>1. Active' /\ unplayed' = unplayed
    BY <1>2 DEF Takes
  <2>2. unplayed[queue[1].submission] >= 1
    BY <1>0, <1>2, TakenBlock DEF Counted
  <2>3. ASSUME NEW j \in DOMAIN queue'
        PROVE  /\ block'.submission = queue'[j].submission => unplayed[queue'[j].submission] >= j + 1
               /\ \A k \in 1 .. j : queue'[k].submission = queue'[j].submission
                                      => unplayed[queue'[j].submission] >= j - k + 1
    <3>1. j \in 1 .. Len(queue) - 1 /\ j + 1 \in DOMAIN queue /\ queue'[j] = queue[j + 1]
      BY <1>0, <1>2, TakenBlock
    <3>2. \A k \in 1 .. j + 1 : queue[k].submission = queue[j + 1].submission
                                  => unplayed[queue[j + 1].submission] >= j + 1 - k + 1
      BY <1>0, <3>1 DEF Counted
    <3>3. queue[j + 1] \in Block
      BY <1>0, <3>1
    <3>4. unplayed[queue[j + 1].submission] \in Nat
      BY <1>0, <3>3 DEF Block
    <3>5. block' = queue[1] /\ \A k \in 1 .. j : queue'[k] = queue[k + 1]
      BY <1>0, <1>2, <3>1, TakenBlock
    <3>6. j \in Nat
      BY <3>1
    <3>7. block'.submission = queue'[j].submission => unplayed[queue'[j].submission] >= j + 1
      BY <3>1, <3>2, <3>5, <3>6
    <3>8. ASSUME NEW k \in 1 .. j, queue'[k].submission = queue'[j].submission
          PROVE  unplayed[queue'[j].submission] >= j - k + 1
      <4>1. k + 1 \in 1 .. j + 1 /\ k \in Nat
        BY <3>6
      <4>2. queue[k + 1].submission = queue[j + 1].submission
        BY <3>1, <3>5, <3>8
      <4>3. unplayed[queue[j + 1].submission] >= j + 1 - (k + 1) + 1
        BY <3>2, <4>1, <4>2
      <4> QED
        BY <3>1, <3>4, <3>6, <4>1, <4>3
    <3> QED
      BY <3>7, <3>8
  <2> QED
    BY <1>2, <2>1, <2>2, <2>3, TakenBlock DEF Counted
<1>3. CASE Plays
  <2>1. block \in Block /\ block.submission \in Submissions
    BY <1>0, <1>3 DEF Plays, Shape, Block
  <2>2. queue' = queue /\ block' = NoBlock /\ ~Active'
    BY <1>3 DEF Plays
  <2>3. ASSUME NEW j \in DOMAIN queue, NEW k \in 1 .. j, queue[k].submission = queue[j].submission
        PROVE  unplayed'[queue[j].submission] >= j - k + 1
    <3>1. queue[j] \in Block /\ j \in Nat
      BY <1>0
    <3>2. unplayed[queue[j].submission] \in Nat /\ queue[j].submission \in Submissions
      BY <1>0, <3>1 DEF Block
    <3>3. unplayed[queue[j].submission] >= j - k + 1
      BY <1>0, <2>3 DEF Counted
    <3>4. CASE queue[j].submission = block.submission
      <4>1. unplayed[queue[j].submission] >= j + 1
        BY <1>0, <3>4 DEF Counted
      <4>2. unplayed'[queue[j].submission] = unplayed[queue[j].submission] - 1
        BY <1>0, <1>3, <3>2, <3>4 DEF Plays
      <4> QED
        BY <3>1, <3>2, <4>1, <4>2
    <3>5. CASE queue[j].submission # block.submission
      BY <1>0, <1>3, <3>2, <3>3, <3>5 DEF Plays
    <3> QED
      BY <3>4, <3>5
  <2>4. \A j \in DOMAIN queue : queue[j].submission # 0
    BY Contents
  <2> QED
    BY <2>2, <2>3, <2>4 DEF Counted, NoBlock
<1>4. CASE Drops
  <2>1. \A j \in DOMAIN queue : queue[j].submission # 0
    BY Contents
  <2> QED
    BY <1>0, <1>4, <2>1 DEF Drops, Counted, NoBlock
<1>5. CASE Discards
  BY <1>0, <1>5 DEF Discards, Counted
<1>6. ASSUME NEW h \in Headers, Delivers(h) PROVE Counted'
  BY <1>0, <1>6 DEF Delivers, Counted
<1>7. ASSUME NEW h \in Headers, NEW n \in 0 .. MaxBlocks, Writes(h, n) PROVE Counted'
  <2>1. /\ unplayed' = [unplayed EXCEPT ![enqueues + 1] = n] /\ block' = block /\ Active' = Active
        /\ enqueues + 1 \in Submissions
    BY <1>0, <1>7 DEF Writes, Submissions
  <2>2. Active => unplayed'[block.submission] >= 1
    <3> SUFFICES ASSUME Active PROVE unplayed'[block.submission] >= 1
      OBVIOUS
    <3>1. block.submission \in Submissions /\ block.submission <= enqueues /\ unplayed[block.submission] >= 1
      BY <1>0 DEF Shape, Counted, Block
    <3> QED
      BY <1>0, <2>1, <3>1 DEF Submissions
  <2>3. Len(queue) \in Nat /\ n \in Nat /\ enqueues \in Nat /\ enqueues + 1 \in Submissions
    BY <1>0, <2>1
  <2>4. \A i \in 1 .. Len(queue) : queue[i].submission <= enqueues /\ queue[i].submission \in Submissions
    BY <1>0, Contents
  <2>5. /\ DOMAIN queue' = 1 .. Len(queue) + n
        /\ \A i \in 1 .. Len(queue) : queue'[i] = queue[i]
        /\ \A i \in Len(queue) + 1 .. Len(queue) + n : queue'[i].submission = enqueues + 1
    <3>1. queue' \in Seq(Block) /\ Len(queue') = Len(queue) + n
      BY <1>7, QueuedBlocks
    <3>2. DOMAIN queue' = 1 .. Len(queue) + n
      BY <3>1
    <3> QED
      BY <1>7, <3>2, QueuedBlocks
  <2>6. ASSUME NEW j \in DOMAIN queue'
        PROVE  /\ block'.submission = queue'[j].submission => unplayed'[queue'[j].submission] >= j + 1
               /\ \A k \in 1 .. j : queue'[k].submission = queue'[j].submission
                                      => unplayed'[queue'[j].submission] >= j - k + 1
    <3>1. CASE j \in 1 .. Len(queue)
      <4>1. queue'[j] = queue[j] /\ \A k \in 1 .. j : queue'[k] = queue[k]
        BY <2>3, <2>5, <3>1
      <4>2. unplayed'[queue[j].submission] = unplayed[queue[j].submission]
        BY <1>0, <2>1, <2>3, <2>4, <3>1 DEF Submissions
      <4>3. j \in DOMAIN queue
        BY <1>0, <3>1
      <4> QED
        BY <1>0, <2>1, <4>1, <4>2, <4>3 DEF Counted
    <3>2. CASE j \in Len(queue) + 1 .. Len(queue) + n
      <4>1. queue'[j].submission = enqueues + 1 /\ unplayed'[enqueues + 1] = n
        BY <1>0, <2>1, <2>5, <3>2
      <4>2. block'.submission # enqueues + 1
        BY <1>0, <2>1 DEF Shape, Block, Submissions, NoBlock
      <4>3. \A k \in 1 .. j : queue'[k].submission = enqueues + 1 => k > Len(queue)
        BY <2>3, <2>4, <2>5, <3>2 DEF Submissions
      <4> QED
        BY <2>3, <3>2, <4>1, <4>2, <4>3
    <3> QED
      BY <2>3, <2>5, <3>1, <3>2
  <2> QED
    BY <2>1, <2>2, <2>6 DEF Counted
<1> QED
  BY <1>1, <1>2, <1>3, <1>4, <1>5, <1>6, <1>7, Steps

\* The audio variables and those of the adapter that have a type of their own.
SwitchTypes ==
    /\ opened \in BOOLEAN /\ paused \in BOOLEAN /\ stopping \in BOOLEAN
    /\ worker \in {"waiting", "awake", "output", "exited"} /\ device \in {"open", "closed"}
    /\ isOpen \in BOOLEAN /\ isPaused \in BOOLEAN /\ callback \in BOOLEAN
    /\ turn \in {"pump", "guest", "closing", "joining", "ended"} /\ aborted \in BOOLEAN
\* They keep their types.
LEMMA SwitchStep ==
  ASSUME SwitchTypes, [Next]_vars
  PROVE  SwitchTypes'
<1> USE DEF SwitchTypes
<1>1. CASE Worker \/ WorkerWakes
  BY <1>1 DEF Worker, WorkerWakes, WorkerWaits, WorkerTakes, WorkerExits, WorkerPlayed,
     WorkerOutputFails, WorkerSpurious, waveVars
<1>2. CASE Pump
  <2>1. UNCHANGED <<opened, paused, stopping, worker, device>>
    BY <1>2 DEF Pump, PumpFails, PumpEmpty, PumpDelivers, Poll, audioVars
  <2>2. UNCHANGED <<isOpen, isPaused, callback>>
    BY <1>2 DEF Pump, PumpFails, PumpEmpty, PumpDelivers, waveVars
  <2>3. (turn' = turn \/ turn' = "guest") /\ (aborted' = aborted \/ aborted' = TRUE)
    BY <1>2 DEF Pump, PumpFails, PumpEmpty, PumpDelivers, GivenBack, Abort
  <2>4. turn' \in {"pump", "guest", "closing", "joining", "ended"}
    BY <2>3
  <2>5. aborted' \in BOOLEAN
    BY <2>3
  <2> QED
    BY <2>1, <2>2, <2>4, <2>5
<1>3. CASE Call
  <2>1. CASE OtherCall \/ ReadMessage \/ ControlFails \/ CloseStarts
    <3>1. UNCHANGED <<paused, stopping, worker, device, isOpen, isPaused, callback>>
      BY <2>1 DEF OtherCall, ReadMessage, ControlFails, CloseStarts, CloseBegins, audioVars, waveVars
    <3>2. opened' = opened \/ opened' = FALSE
      BY <2>1 DEF OtherCall, ReadMessage, ControlFails, CloseStarts, CloseBegins, audioVars
    <3>3. (turn' = turn \/ turn' = "pump" \/ turn' = "closing") /\ (aborted' = aborted \/ aborted' = TRUE)
      BY <2>1 DEF OtherCall, ReadMessage, ControlFails, CloseStarts, EndCall, Abort
    <3>4. turn' \in {"pump", "guest", "closing", "joining", "ended"}
      BY <3>3
    <3>5. aborted' \in BOOLEAN /\ opened' \in BOOLEAN
      BY <3>2, <3>3
    <3> QED
      BY <3>1, <3>4, <3>5
  <2>2. CASE WaveOpen
    BY <2>2 DEF WaveOpen, Open, Broadcast, EndCall, Abort, audioVars, waveVars
  <2>3. CASE WaveReset
    BY <2>3 DEF WaveReset, Reset, Broadcast, EndCall
  <2>4. ASSUME NEW h \in Headers, Prepare(h) \/ Unprepare(h) PROVE SwitchTypes'
    <3>1. UNCHANGED <<opened, paused, stopping, worker, device, isOpen, isPaused, callback>>
      BY <2>4 DEF Prepare, Unprepare, audioVars
    <3>2. (turn' = turn \/ turn' = "pump") /\ (aborted' = aborted \/ aborted' = TRUE)
      BY <2>4 DEF Prepare, Unprepare, EndCall, Abort
    <3>3. turn' \in {"pump", "guest", "closing", "joining", "ended"}
      BY <3>2
    <3>4. aborted' \in BOOLEAN
      BY <3>2
    <3> QED
      BY <3>1, <3>3, <3>4
  <2>5. ASSUME NEW h \in Headers, NEW n \in 0 .. MaxBlocks, Write(h, n) PROVE SwitchTypes'
    BY <2>5 DEF Write, Submit, Enqueued, Broadcast, EndCall, Abort, audioVars, waveVars
  <2>6. ASSUME NEW value \in BOOLEAN, PauseOrRestart(value) PROVE SwitchTypes'
    BY <2>6 DEF PauseOrRestart, SetPaused, Broadcast, EndCall
  <2> QED
    BY <1>3, <2>1, <2>2, <2>3, <2>4, <2>5, <2>6 DEF Call
<1>4. CASE CloseReturns \/ ExitStarts \/ ExitJoined
  BY <1>4 DEF CloseReturns, CloseEnds, Forgotten, ExitStarts, ExitJoined, TeardownBegins, TeardownEnds,
     Stop, Broadcast, EndCall, Abort, waveVars
<1>5. CASE UNCHANGED vars
  BY <1>5 DEF vars, audioVars, waveVars
<1> QED
  BY <1>1, <1>2, <1>3, <1>4, <1>5 DEF Next

\* The variables of the guest's headers and messages.
GuestTypes ==
    /\ headers \subseteq Headers /\ Cardinality(headers) <= HeaderSlots
    /\ flags \in [Headers -> SUBSET {"prepared", "inqueue", "done"}]
    /\ messages \in Seq(Headers) /\ Len(messages) <= MessageSlots
\* They keep their types: Prepare refuses a header past the last slot.
LEMMA GuestStep ==
  ASSUME TypeInv, [Next]_vars
  PROVE  GuestTypes'
<1>0. GuestTypes /\ IsFiniteSet(headers) /\ HeaderSlots \in Nat /\ MessageSlots \in Nat
  BY WaveAssumption DEF TypeInv, TypeOK, Shape, GuestTypes
<1>1. CASE \E h \in Headers : Prepare(h) \/ Unprepare(h)
  <2> PICK h \in Headers : Prepare(h) \/ Unprepare(h)
    BY <1>1
  <2>1. flags' \in [Headers -> SUBSET {"prepared", "inqueue", "done"}] /\ UNCHANGED messages
    BY <1>0 DEF Prepare, Unprepare, GuestTypes
  <2>2. headers' \subseteq Headers
    BY <1>0 DEF Prepare, Unprepare, GuestTypes
  <2>3. Cardinality(headers) \in Nat
    BY <1>0, FS_CardinalityType
  <2>4. CASE Prepare(h)
    <3>1. CASE h \notin headers /\ Cardinality(headers) = HeaderSlots
      BY <1>0, <2>1, <2>2, <2>4, <3>1 DEF Prepare, GuestTypes
    <3>2. Cardinality(headers \cup {h}) = IF h \in headers THEN Cardinality(headers) ELSE Cardinality(headers) + 1
      BY <1>0, FS_AddElement
    <3>3. CASE ~(h \notin headers /\ Cardinality(headers) = HeaderSlots)
      <4>1. headers' = headers \cup {h}
        BY <2>4, <3>3 DEF Prepare
      <4>2. Cardinality(headers \cup {h}) <= HeaderSlots
        BY <1>0, <2>3, <3>2, <3>3 DEF GuestTypes
      <4>3. Cardinality(headers') <= HeaderSlots
        BY ONLY <4>1, <4>2, Zenon
      <4> QED
        BY <2>1, <2>2, <4>3, <1>0 DEF GuestTypes
    <3> QED
      BY <3>1, <3>3
  <2>5. CASE Unprepare(h)
    <3>1. headers' = headers \ {h}
      BY <2>5 DEF Unprepare
    <3>2. Cardinality(headers \ {h}) = IF h \in headers THEN Cardinality(headers) - 1 ELSE Cardinality(headers)
      BY <1>0, FS_RemoveElement
    <3>3. Cardinality(headers') <= HeaderSlots
      BY <1>0, <2>3, <3>1, <3>2 DEF GuestTypes
    <3> QED
      BY <1>0, <2>1, <2>2, <3>3 DEF GuestTypes
  <2> QED
    BY <2>4, <2>5
<1>2. CASE ~\E h \in Headers : Prepare(h) \/ Unprepare(h)
  <2>1. headers' \in {headers, {}}
    BY <1>2 DEF Next, vars, Worker, WorkerWakes, Pump, PumpFails, PumpEmpty, PumpDelivers, Call,
       OtherCall, ReadMessage, WaveOpen, ControlFails, WaveReset, CloseStarts, Write, PauseOrRestart,
       CloseReturns, Forgotten, ExitStarts, ExitJoined, waveVars
  <2>2. headers' \subseteq Headers /\ Cardinality(headers') <= HeaderSlots
    <3>1. CASE headers' = headers
      BY <1>0, <3>1 DEF GuestTypes
    <3>2. CASE headers' = {}
      BY <1>0, <3>2, FS_EmptySet
    <3> QED
      BY <2>1, <3>1, <3>2
  <2>3. flags' \in [Headers -> SUBSET {"prepared", "inqueue", "done"}]
    <3>1. CASE \E h \in Headers : PumpDelivers(h) \/ \E n \in 0 .. MaxBlocks : Write(h, n)
      <4> PICK h \in Headers : PumpDelivers(h) \/ \E n \in 0 .. MaxBlocks : Write(h, n)
        BY <3>1
      <4>1. \/ UNCHANGED flags \/ flags' = [flags EXCEPT ![h] = (@ \cup {"done"}) \ {"inqueue"}]
            \/ flags' = [flags EXCEPT ![h] = (@ \cup {"inqueue"}) \ {"done"}]
        BY DEF PumpDelivers, GivenBack, Write
      <4> QED
        BY <1>0, <4>1 DEF GuestTypes
    <3>2. CASE WaveReset
      BY <1>0, <3>2 DEF WaveReset, ResetFlags, GuestTypes
    <3>3. CASE ~WaveReset /\ ~\E h \in Headers : PumpDelivers(h) \/ \E n \in 0 .. MaxBlocks : Write(h, n)
      <4>1. UNCHANGED flags
        BY <1>2, <3>3 DEF Next, vars, Worker, WorkerWakes, Pump, PumpFails, PumpEmpty, Call,
           OtherCall, ReadMessage, WaveOpen, ControlFails, CloseStarts, PauseOrRestart,
           CloseReturns, ExitStarts, ExitJoined, guestVars
      <4> QED
        BY <1>0, <4>1 DEF GuestTypes
    <3> QED
      BY <3>1, <3>2, <3>3
  <2>4. messages' \in Seq(Headers) /\ Len(messages') <= MessageSlots
    <3>1. CASE ReadMessage
      <4>1. messages \in Seq(Headers) /\ messages # <<>> /\ messages' = Tail(messages)
        BY <1>0, <3>1 DEF ReadMessage, GuestTypes
      <4>2. messages' \in Seq(Headers) /\ Len(messages') = Len(messages) - 1 /\ Len(messages) \in Nat
        BY <4>1, HeadTailProperties
      <4> QED
        BY <1>0, <4>2 DEF GuestTypes
    <3>2. ASSUME NEW h \in Headers, PumpDelivers(h) PROVE messages' \in Seq(Headers) /\ Len(messages') <= MessageSlots
      <4>1. messages' = messages \/ (Len(messages) < MessageSlots /\ messages' = Append(messages, h))
        BY <3>2 DEF PumpDelivers, GivenBack
      <4> QED
        BY <1>0, <4>1 DEF GuestTypes
    <3>3. CASE ~ReadMessage /\ ~\E h \in Headers : PumpDelivers(h)
      <4>1. UNCHANGED messages
        BY <1>2, <3>3 DEF Next, vars, Worker, WorkerWakes, Pump, PumpFails, PumpEmpty, Call, Write,
           OtherCall, WaveOpen, ControlFails, WaveReset, CloseStarts, PauseOrRestart,
           CloseReturns, ExitStarts, ExitJoined, guestVars
      <4> QED
        BY <1>0, <4>1 DEF GuestTypes
    <3> QED
      BY <3>1, <3>2, <3>3
  <2> QED
    BY <2>2, <2>3, <2>4 DEF GuestTypes
<1> QED
  BY <1>1, <1>2

\* pw_audio_ps5_init and a zeroed adapter.
LEMMA TypeInvStart == Init => TypeInv
<1> SUFFICES ASSUME Init PROVE TypeInv
  OBVIOUS
<1>1. queue = <<>> /\ completed = <<>> /\ messages = <<>> /\ headers = {} /\ block = NoBlock /\ worker = "waiting"
  BY DEF Init, AudioInit
<1>2. Cardinality(headers) = 0 /\ IsFiniteSet(headers)
  BY <1>1, FS_EmptySet
<1>3. TypeOK
  <2>1. SwitchTypes
    BY DEF Init, AudioInit, SwitchTypes
  <2>2. AudioTypes
    BY <1>1, AudioAssumption DEF Init, AudioInit, AudioTypes
  <2>3. GuestTypes
    BY <1>1, <1>2, WaveAssumption DEF Init, GuestTypes
  <2> QED
    BY <2>1, <2>2, <2>3 DEF TypeOK, AudioTypes, GuestTypes, SwitchTypes
<1>4. Shape
  BY <1>1, <1>2, AudioAssumption DEF Init, AudioInit, Shape, Active, NoBlock
<1>5. Turns /\ OwnedInv /\ Counted
  BY <1>1 DEF Init, AudioInit, Turns, OwnedInv, Counted, Active
<1> QED
  BY <1>3, <1>4, <1>5 DEF TypeInv

\* Every action keeps types, shape, turns and counts.
LEMMA TypeInvStep ==
  ASSUME TypeInv, [Next]_vars
  PROVE  TypeInv'
<1>1. AudioTypes' /\ GuestTypes' /\ SwitchTypes'
  BY AudioStep, GuestStep, SwitchStep DEF TypeInv, TypeOK, SwitchTypes
<1>2. TypeOK'
  BY <1>1 DEF TypeOK, AudioTypes, GuestTypes, SwitchTypes
<1>3. Shape' /\ Turns' /\ Counted'
  BY ShapeStep, TurnsStep, CountedStep
<1>4. OwnedInv'
  BY OwnedStep DEF TypeInv
<1> QED
  BY <1>2, <1>3, <1>4 DEF TypeInv

\* Every variable keeps its type.  That the blocks left of a submission are
\* counted (Counted) is what keeps audio_worker's count from going below zero.
THEOREM TypeCorrect == Spec => []TypeOK
<1>1. Init => TypeInv
  BY TypeInvStart
<1>2. TypeInv /\ [Next]_vars => TypeInv'
  BY TypeInvStep
<1>3. TypeInv => TypeOK
  BY DEF TypeInv
<1> QED
  BY <1>1, <1>2, <1>3, PTL DEF Spec

-----------------------------------------------------------------------------
(* Tokens                                                                  *)

\* Where outstanding tokens are.
Outstandings ==
    /\ \A i \in Outstanding : i = 0 \/ i \in 1 .. Len(queue)
    /\ 0 \in Outstanding <=> block.generation = generation /\ block.token # NoToken
    /\ \A i \in 1 .. Len(queue) : i \in Outstanding <=> queue[i].token # NoToken
    /\ TokenAt(0) = block.token
    /\ \A i \in 1 .. Len(queue) : TokenAt(i) = queue[i].token
\* Outstanding and TokenAt, read off queue and worker.
LEMMA OutstandingAre == TypeInv => Outstandings
<1> SUFFICES ASSUME TypeInv PROVE Outstandings
  OBVIOUS
<1>1. Len(queue) \in Nat /\ \A i \in 1 .. Len(queue) : queue[i].generation = generation
  BY Contents
<1>2. /\ \A i \in Outstanding : i = 0 \/ i \in 1 .. Len(queue)
      /\ 0 \in Outstanding <=> block.generation = generation /\ block.token # NoToken
      /\ \A i \in 1 .. Len(queue) : i \in Outstanding <=> queue[i].token # NoToken
  BY <1>1 DEF Outstanding
<1>3. TokenAt(0) = block.token /\ \A i \in 1 .. Len(queue) : TokenAt(i) = queue[i].token
  BY <1>1 DEF TokenAt
<1> QED
  BY <1>2, <1>3 DEF Outstandings

\* The same, before and after a step.
LEMMA OutstandingStep ==
  ASSUME TypeInv, [Next]_vars
  PROVE  Outstandings /\ Outstandings' /\ TypeInv'
<1>1. TypeInv'
  BY TypeInvStep
<1>2. TypeInv' => Outstandings'
  BY OutstandingAre, PTL
<1> QED
  BY <1>1, <1>2, OutstandingAre

\* What each step does to them.
LEMMA StillTokens ==
  ASSUME TypeInv, [Next]_vars, UNCHANGED <<generation, queue, block>>
  PROVE  Outstanding' = Outstanding /\ \A i : TokenAt(i)' = TokenAt(i)
  BY DEF Outstanding, TokenAt

\* Taking the head of the queue moves its token to the worker.
LEMMA TakenTokens ==
  ASSUME TypeInv, [Next]_vars, Takes
  PROVE  /\ 0 \notin Outstanding
         /\ \A i \in Outstanding' : i \in Nat /\ i + 1 \in Outstanding /\ TokenAt(i)' = TokenAt(i + 1)
         /\ \A i \in Outstanding : i \in Nat \ {0} /\ i - 1 \in Outstanding' /\ TokenAt(i - 1)' = TokenAt(i)
<1>1. Outstandings /\ Outstandings'
  BY OutstandingStep
<1>2. /\ Len(queue) \in Nat /\ Len(queue) >= 1 /\ Len(queue') = Len(queue) - 1
      /\ \A i \in 1 .. Len(queue') : queue'[i] = queue[i + 1]
      /\ block' = queue[1] /\ block = NoBlock /\ generation' = generation
      /\ queue[1].generation = generation
  BY TakenBlock, Contents DEF Takes
<1>3. 0 \notin Outstanding
  BY <1>1, <1>2 DEF Outstandings, NoBlock
<1>4. ASSUME NEW i \in Outstanding'
      PROVE  i \in Nat /\ i + 1 \in Outstanding /\ TokenAt(i)' = TokenAt(i + 1)
  <2>1. CASE i = 0
    <3>1. queue[1].token # NoToken /\ TokenAt(0)' = queue[1].token
      BY <1>1, <1>2, <1>4, <2>1 DEF Outstandings
    <3> QED
      BY <1>1, <1>2, <2>1, <3>1 DEF Outstandings
  <2>2. CASE i \in 1 .. Len(queue')
    <3>1. i + 1 \in 1 .. Len(queue) /\ queue'[i] = queue[i + 1]
      BY <1>2, <2>2
    <3>2. queue'[i].token # NoToken /\ TokenAt(i)' = queue'[i].token
      BY <1>1, <1>4, <2>2 DEF Outstandings
    <3> QED
      BY <1>1, <2>2, <3>1, <3>2 DEF Outstandings
  <2> QED
    BY <1>1, <1>4, <2>1, <2>2 DEF Outstandings
<1>5. ASSUME NEW i \in Outstanding
      PROVE  i \in Nat \ {0} /\ i - 1 \in Outstanding' /\ TokenAt(i - 1)' = TokenAt(i)
  <2>1. i \in 1 .. Len(queue) /\ queue[i].token # NoToken /\ TokenAt(i) = queue[i].token
    BY <1>1, <1>3, <1>5 DEF Outstandings
  <2>2. CASE i = 1
    BY <1>1, <1>2, <2>1, <2>2 DEF Outstandings
  <2>3. CASE i # 1
    <3>1. i - 1 \in 1 .. Len(queue') /\ queue'[i - 1] = queue[i]
      BY <1>2, <2>1, <2>3
    <3> QED
      BY <1>1, <2>1, <3>1 DEF Outstandings
  <2> QED
    BY <2>2, <2>3
<1> QED
  BY <1>3, <1>4, <1>5

\* Output, done or failed, leaves the worker without a token.
LEMMA PlayedTokens ==
  ASSUME TypeInv, [Next]_vars, Plays \/ Drops
  PROVE  /\ Outstanding' = Outstanding \ {0}
         /\ \A i \in Outstanding' : TokenAt(i)' = TokenAt(i)
<1>1. Outstandings /\ Outstandings'
  BY OutstandingStep
<1>2. UNCHANGED <<generation, queue>> /\ block' = NoBlock /\ Len(queue) \in Nat
  BY Contents DEF Plays, Drops
<1>3. 0 \notin Outstanding'
  BY <1>1, <1>2 DEF Outstandings, NoBlock
<1>4. \A i \in 1 .. Len(queue) : (i \in Outstanding' <=> i \in Outstanding) /\ TokenAt(i)' = TokenAt(i)
  BY <1>1, <1>2 DEF Outstandings
<1> QED
  BY <1>1, <1>2, <1>3, <1>4 DEF Outstandings

\* waveOutWrite adds one token, at its last block.
LEMMA WrittenTokens ==
  ASSUME TypeInv, [Next]_vars, NEW h \in Headers, NEW n \in 0 .. MaxBlocks, Writes(h, n),
         NEW k, k = Len(queue) + n
  PROVE  /\ Outstanding' = Outstanding \cup {k}
         /\ k \notin Outstanding /\ TokenAt(k)' = h
         /\ \A i \in Outstanding : TokenAt(i)' = TokenAt(i)
<1>1. Outstandings /\ Outstandings'
  BY OutstandingStep
<1>2. /\ Len(queue) \in Nat /\ n \in Nat /\ n > 0 /\ Len(queue') = Len(queue) + n
      /\ \A i \in 1 .. Len(queue) : queue'[i] = queue[i]
      /\ \A i \in Len(queue) + 1 .. Len(queue) + n : queue'[i].token = IF i = Len(queue) + n THEN h ELSE NoToken
      /\ UNCHANGED <<generation, block>> /\ h # NoToken
  <2>1. UNCHANGED <<generation, block>> /\ h # NoToken /\ n \in Nat /\ Len(queue) \in Nat
    BY Contents, AudioAssumption DEF Writes
  <2> QED
    BY <2>1, QueuedBlocks
<1>3. (0 \in Outstanding' <=> 0 \in Outstanding) /\ TokenAt(0)' = TokenAt(0)
  BY <1>1, <1>2 DEF Outstandings
<1>4. \A i \in 1 .. Len(queue) : (i \in Outstanding' <=> i \in Outstanding) /\ TokenAt(i)' = TokenAt(i)
  <2> TAKE i \in 1 .. Len(queue)
  <2>1. i \in 1 .. Len(queue') /\ queue'[i] = queue[i]
    BY <1>2
  <2> QED
    BY <1>1, <2>1 DEF Outstandings
<1>5. \A i \in Len(queue) + 1 .. Len(queue) + n :
        (i \in Outstanding' <=> i = Len(queue) + n) /\ TokenAt(i)' = queue'[i].token
  <2> TAKE i \in Len(queue) + 1 .. Len(queue) + n
  <2>1. i \in 1 .. Len(queue')
    BY <1>2
  <2> QED
    BY <1>1, <1>2, <2>1 DEF Outstandings
<1>6. Len(queue) + n \in Len(queue) + 1 .. Len(queue) + n
  BY <1>2
<1>7. \A i \in Outstanding' : i = 0 \/ i \in 1 .. Len(queue) \/ i \in Len(queue) + 1 .. Len(queue) + n
  BY <1>1, <1>2 DEF Outstandings
<1>8. \A i \in Outstanding : i # Len(queue) + n
  BY <1>1, <1>2 DEF Outstandings
<1>9. Outstanding' = Outstanding \cup {Len(queue) + n}
  BY <1>1, <1>3, <1>4, <1>5, <1>6, <1>7 DEF Outstandings
<1>10. \A i \in Outstanding : TokenAt(i)' = TokenAt(i)
  BY <1>1, <1>3, <1>4 DEF Outstandings
<1>11. queue'[Len(queue) + n].token = h
  BY <1>2, <1>6
<1>12. TokenAt(k)' = h
  BY <1>5, <1>6, <1>11
<1> QED
  BY <1>8, <1>9, <1>10, <1>12

\* A reset leaves nothing outstanding, teardown at most what is being output.
LEMMA DiscardedTokens ==
  ASSUME TypeInv, [Next]_vars, Discards
  PROVE  /\ Outstanding' \subseteq {0} \cap Outstanding /\ TokenAt(0)' = TokenAt(0)
         /\ generation' # generation => Outstanding' = {}
         /\ generation' # generation => flags' = ResetFlags
         /\ generation' = generation => stopping' /\ UNCHANGED flags
<1>1. Outstandings /\ Outstandings'
  BY OutstandingStep
<1>2. Len(queue') = 0 /\ block' = block
  BY DEF Discards
<1>3. block.generation <= generation /\ generation \in Nat /\ block.generation \in Nat
  BY DEF TypeInv, Shape, TypeOK, Block, NoBlock
<1>4. \A i \in Outstanding' : i = 0
  BY <1>1, <1>2 DEF Outstandings
<1>5. TokenAt(0)' = TokenAt(0)
  BY <1>1, <1>2 DEF Outstandings
<1>6. CASE generation' = generation + 1 /\ flags' = ResetFlags
  BY <1>1, <1>2, <1>3, <1>4, <1>5, <1>6 DEF Outstandings
<1>7. CASE UNCHANGED <<generation, flags>> /\ stopping'
  BY <1>1, <1>2, <1>4, <1>5, <1>7 DEF Outstandings
<1> QED
  BY <1>6, <1>7 DEF Discards

\* How the flags change, given that what is delivered is prepared and marked.
LEMMA MarksStep ==
  ASSUME TypeInv, Once, [Next]_vars
  PROVE  /\ \A h \in Headers : Delivers(h) => \A g \in Headers : Inq(g)' <=> Inq(g) /\ g # h
         /\ \A h \in Headers, n \in 0 .. MaxBlocks :
              Writes(h, n) => \A g \in Headers : Inq(g)' <=> Inq(g) \/ g = h
         /\ Takes \/ Plays \/ Drops => \A g \in Headers : Inq(g)' <=> Inq(g)
         /\ Discards => IF generation' = generation THEN \A g \in Headers : Inq(g)' <=> Inq(g)
                        ELSE \A g \in Headers : ~Inq(g)'
<1>0. flags \in [Headers -> SUBSET {"prepared", "inqueue", "done"}]
  BY DEF TypeInv, TypeOK
<1>1. ASSUME NEW h \in Headers, Delivers(h) PROVE \A g \in Headers : Inq(g)' <=> Inq(g) /\ g # h
  <2>0. Len(completed) >= 1 /\ h = completed[1]
    BY <1>1, DeliveredToken
  <2>1. h = completed[1] /\ 1 \in DOMAIN completed
    <3>1. Len(completed) \in Nat /\ DOMAIN completed = 1 .. Len(completed)
      BY Contents
    <3> QED
      BY ONLY <2>0, <3>1
  <2>2. Inq(h) /\ h \in headers
    BY <2>1 DEF Once
  <2>3. flags' = [flags EXCEPT ![h] = (@ \cup {"done"}) \ {"inqueue"}]
    BY <1>1, <2>2 DEF Delivers
  <2> QED
    BY <1>0, <2>3 DEF Inq
<1>2. ASSUME NEW h \in Headers, NEW n \in 0 .. MaxBlocks, Writes(h, n)
      PROVE  \A g \in Headers : Inq(g)' <=> Inq(g) \/ g = h
  BY <1>0, <1>2 DEF Writes, Inq
<1>3. Takes \/ Plays \/ Drops => \A g \in Headers : Inq(g)' <=> Inq(g)
  BY DEF Takes, Plays, Drops, Inq
<1>4. CASE Discards
  <2>1. CASE generation' = generation
    <3>1. UNCHANGED flags
      BY <1>4, <2>1, DiscardedTokens
    <3> QED
      BY <2>1, <3>1, <1>1, <1>2, <1>3 DEF Inq
  <2>2. CASE generation' # generation
    <3>1. flags' = ResetFlags
      BY <1>4, <2>2, DiscardedTokens
    <3>2. \A g \in Headers : ~Inq(g)'
      BY <1>0, <3>1 DEF ResetFlags, Inq, Once
    <3> QED
      BY <2>2, <3>2, <1>1, <1>2, <1>3
  <2> QED
    BY <2>1, <2>2
<1> QED
  BY <1>1, <1>2, <1>3, <1>4

\* Marked headers stay prepared: unpreparing one is WAVERR_STILLPLAYING.
LEMMA PreparedStep ==
  ASSUME TypeInv, Once, [Next]_vars
  PROVE  (\A h \in Headers : Inq(h) => h \in headers)'
<1>0. \A h \in Headers : Inq(h) => h \in headers
  BY DEF Once
<1>1. CASE \E h \in Headers : Prepare(h) \/ Unprepare(h)
  <2> PICK h \in Headers : Prepare(h) \/ Unprepare(h)
    BY <1>1
  <2>0. flags \in [Headers -> SUBSET {"prepared", "inqueue", "done"}]
    BY DEF TypeInv, TypeOK
  <2>1. CASE Prepare(h)
    <3>1. headers \subseteq headers' /\ flags' \in {flags, [flags EXCEPT ![h] = @ \cup {"prepared"}]}
      BY <2>1 DEF Prepare
    <3> QED
      BY <1>0, <2>0, <3>1 DEF Inq
  <2>2. CASE Unprepare(h)
    <3>1. ~Inq(h) /\ headers' = headers \ {h} /\ flags' = [flags EXCEPT ![h] = @ \ {"prepared"}]
      BY <2>2 DEF Unprepare, Inq
    <3> QED
      BY <1>0, <2>0, <3>1 DEF Inq
  <2> QED
    BY <2>1, <2>2
<1>2. CASE ~\E h \in Headers : Prepare(h) \/ Unprepare(h)
  <2>1. headers' = headers
    BY <1>2 DEF Next, vars, Worker, WorkerWakes, Pump, PumpFails, PumpEmpty, PumpDelivers, Call,
       OtherCall, ReadMessage, WaveOpen, ControlFails, WaveReset, CloseStarts, Write, PauseOrRestart,
       CloseReturns, Forgotten, ExitStarts, ExitJoined, waveVars, TypeInv, Turns
  <2>2. CASE Still
    BY <1>0, <2>1, <2>2 DEF Still
  <2>3. ASSUME NEW h \in Headers, NEW n \in 0 .. MaxBlocks, Writes(h, n)
        PROVE  (\A g \in Headers : Inq(g) => g \in headers)'
    BY <1>0, <2>1, <2>3, MarksStep DEF Writes
  <2>4. CASE Takes \/ Plays \/ Drops \/ Discards \/ \E h \in Headers : Delivers(h)
    BY <1>0, <2>1, <2>4, MarksStep
  <2> QED
    BY <2>2, <2>3, <2>4, Steps
<1> QED
  BY <1>1, <1>2

\* No token is duplicated by a reset, a retry or a completion.
LEMMA OnceStep ==
  ASSUME TypeInv, Once, [Next]_vars, GuestRewrites = FALSE
  PROVE  Once'
<1> DEFINE Places ==
      /\ \A i, j \in Outstanding : TokenAt(i) = TokenAt(j) => i = j
      /\ \A i, j \in DOMAIN completed : completed[i] = completed[j] => i = j
      /\ \A i \in Outstanding : \A j \in DOMAIN completed : TokenAt(i) # completed[j]
      /\ \A i \in Outstanding : Inq(TokenAt(i))
      /\ \A j \in DOMAIN completed : Inq(completed[j])
<1>0. Places /\ DOMAIN completed = 1 .. Len(completed) /\ Len(completed) \in Nat
  BY Contents DEF Once
<1>00. /\ \A i \in Outstanding : TokenAt(i) \in Headers
       /\ \A j \in DOMAIN completed : completed[j] \in Headers
  BY Contents, OutstandingStep DEF Outstandings
<1>1. CASE Still
  <2>1. UNCHANGED <<generation, queue, completed, block>>
    BY <1>1 DEF Still
  <2>2. Outstanding' = Outstanding /\ \A i : TokenAt(i)' = TokenAt(i)
    BY <2>1, StillTokens
  <2>3. \A h \in Headers : Inq(h)' <=> Inq(h)
    BY <1>1 DEF Still
  <2>4. \A i \in Outstanding' : Inq(TokenAt(i))'
    BY <1>0, <1>00, <2>2, <2>3 DEF Inq
  <2>5. \A j \in DOMAIN completed' : Inq(completed[j])'
    BY <1>0, <1>00, <2>1, <2>3 DEF Inq
  <2> QED
    BY <1>0, <2>1, <2>2, <2>4, <2>5, PreparedStep DEF Once
<1>2. CASE Takes
  <2>1. UNCHANGED completed
    BY <1>2 DEF Takes
  <2>2. /\ \A i \in Outstanding' : i \in Nat /\ i + 1 \in Outstanding /\ TokenAt(i)' = TokenAt(i + 1)
    BY <1>2, TakenTokens
  <2>3. \A h \in Headers : Inq(h)' <=> Inq(h)
    BY <1>2, MarksStep
  <2>4. (\A i, j \in Outstanding : TokenAt(i) = TokenAt(j) => i = j)'
    <3> SUFFICES ASSUME NEW i \in Outstanding', NEW j \in Outstanding', TokenAt(i)' = TokenAt(j)'
                 PROVE  i = j
      OBVIOUS
    <3>1. i + 1 = j + 1
      BY <1>0, <2>2
    <3> QED
      BY <2>2, <3>1
  <2>5. (\A i \in Outstanding : \A j \in DOMAIN completed : TokenAt(i) # completed[j])'
    BY <1>0, <2>1, <2>2
  <2>6. \A i \in Outstanding' : Inq(TokenAt(i))'
    BY <1>0, <1>00, <2>2, <2>3 DEF Inq
  <2>7. \A j \in DOMAIN completed' : Inq(completed[j])'
    BY <1>0, <1>00, <2>1, <2>3 DEF Inq
  <2> QED
    BY <1>0, <2>1, <2>4, <2>5, <2>6, <2>7, PreparedStep DEF Once
<1>3. CASE Plays \/ Drops
  <2>1. Outstanding' = Outstanding \ {0} /\ \A i \in Outstanding' : TokenAt(i)' = TokenAt(i)
    BY <1>3, PlayedTokens
  <2>2. \A h \in Headers : Inq(h)' <=> Inq(h)
    BY <1>3, MarksStep
  <2>3. (\A i, j \in Outstanding : TokenAt(i) = TokenAt(j) => i = j)'
    BY <1>0, <2>1
  <2>4. \A i \in Outstanding' : Inq(TokenAt(i))'
    BY <1>0, <1>00, <2>1, <2>2 DEF Inq
  <2>5. CASE UNCHANGED completed
    <3>1. (\A i \in Outstanding : \A j \in DOMAIN completed : TokenAt(i) # completed[j])'
      BY <1>0, <2>1, <2>5
    <3>2. \A j \in DOMAIN completed' : Inq(completed[j])'
      BY <1>0, <1>00, <2>2, <2>5 DEF Inq
    <3> QED
      BY <1>0, <2>3, <2>4, <2>5, <3>1, <3>2, PreparedStep DEF Once
  <2>6. CASE Pushed
    <3>1. DOMAIN completed' = 1 .. Len(completed) + 1
      BY <2>6 DEF Pushed
    <3>2. /\ 0 \in Outstanding /\ TokenAt(0) = block.token /\ block.token \in Headers
          /\ completed'[Len(completed) + 1] = TokenAt(0)
          /\ \A j \in 1 .. Len(completed) : completed'[j] = completed[j]
      BY <1>00, <2>6, OutstandingStep DEF Pushed, Outstandings
    <3>3. (\A i, j \in DOMAIN completed : completed[i] = completed[j] => i = j)'
      <4> SUFFICES ASSUME NEW i \in 1 .. Len(completed) + 1, NEW j \in 1 .. Len(completed) + 1,
                          completed'[i] = completed'[j]
                   PROVE  i = j
        BY <3>1
      <4>1. CASE i \in 1 .. Len(completed) /\ j \in 1 .. Len(completed)
        BY <1>0, <3>2, <4>1
      <4>2. CASE i = Len(completed) + 1 /\ j \in 1 .. Len(completed)
        BY <1>0, <3>2, <4>2
      <4>3. CASE j = Len(completed) + 1 /\ i \in 1 .. Len(completed)
        BY <1>0, <3>2, <4>3
      <4> QED
        BY <1>0, <4>1, <4>2, <4>3
    <3>4. (\A i \in Outstanding : \A j \in DOMAIN completed : TokenAt(i) # completed[j])'
      <4> SUFFICES ASSUME NEW i \in Outstanding', NEW j \in 1 .. Len(completed) + 1
                   PROVE  TokenAt(i)' # completed'[j]
        BY <3>1
      <4>1. i \in Outstanding /\ i # 0 /\ TokenAt(i)' = TokenAt(i)
        BY <2>1
      <4>2. CASE j \in 1 .. Len(completed)
        BY <1>0, <3>2, <4>1, <4>2
      <4>3. CASE j = Len(completed) + 1
        BY <1>0, <3>2, <4>1, <4>3
      <4> QED
        BY <1>0, <4>2, <4>3
    <3>5. \A j \in DOMAIN completed' : Inq(completed[j])'
      <4> SUFFICES ASSUME NEW j \in 1 .. Len(completed) + 1
                   PROVE  "inqueue" \in flags'[completed'[j]]
        BY <3>1 DEF Inq
      <4>1. CASE j \in 1 .. Len(completed)
        BY <1>0, <1>00, <2>2, <3>2, <4>1 DEF Inq
      <4>2. CASE j = Len(completed) + 1
        BY <1>0, <1>00, <2>2, <3>2, <4>2 DEF Inq
      <4> QED
        BY <1>0, <4>1, <4>2
    <3> QED
      BY <2>3, <2>4, <3>3, <3>4, <3>5, PreparedStep DEF Once
  <2> QED
    BY <1>3, <2>5, <2>6, PushedToken DEF Ignored, Refused, Drops
<1>4. CASE Discards
  <2>1. DOMAIN completed' = {}
    BY <1>4 DEF Discards
  <2>2. Outstanding' \subseteq {0} \cap Outstanding /\ TokenAt(0)' = TokenAt(0)
    BY <1>4, DiscardedTokens
  <2>3. \A i \in Outstanding' : Inq(TokenAt(i))'
    <3> SUFFICES ASSUME NEW i \in Outstanding' PROVE "inqueue" \in flags'[TokenAt(i)']
      BY DEF Inq
    <3>1. generation' = generation
      BY <1>4, DiscardedTokens
    <3>2. \A g \in Headers : Inq(g)' <=> Inq(g)
      BY <1>4, <3>1, MarksStep
    <3>3. i = 0 /\ i \in Outstanding /\ TokenAt(i)' = TokenAt(i)
      BY <2>2
    <3> QED
      BY <1>0, <1>00, <3>2, <3>3 DEF Inq
  <2> QED
    BY <2>1, <2>2, <2>3, PreparedStep DEF Once
<1>5. ASSUME NEW h \in Headers, Delivers(h) PROVE Once'
  <2>1. Outstanding' = Outstanding /\ \A i : TokenAt(i)' = TokenAt(i)
    BY <1>5, StillTokens DEF Delivers
  <2>2. /\ DOMAIN completed' = 1 .. Len(completed) - 1 /\ h = completed[1] /\ 1 \in 1 .. Len(completed)
        /\ \A j \in 1 .. Len(completed) - 1 : completed'[j] = completed[j + 1]
    <3>1. /\ Len(completed) >= 1 /\ Len(completed') = Len(completed) - 1 /\ completed' \in Seq(Tokens)
          /\ \A i \in 1 .. Len(completed') : completed'[i] = completed[i + 1]
          /\ h = completed[1]
      BY <1>5, DeliveredToken
    <3> QED
      BY <1>0, <3>1
  <2>3. \A g \in Headers : Inq(g)' <=> Inq(g) /\ g # h
    BY <1>5, MarksStep
  <2>4. \A j \in 1 .. Len(completed) - 1 : j + 1 \in 1 .. Len(completed) /\ j + 1 # 1
    BY <1>0
  <2>5. (\A i, j \in DOMAIN completed : completed[i] = completed[j] => i = j)'
    <3> SUFFICES ASSUME NEW i \in 1 .. Len(completed) - 1, NEW j \in 1 .. Len(completed) - 1,
                        completed'[i] = completed'[j]
                 PROVE  i = j
      BY <2>2
    <3>1. i + 1 = j + 1
      BY <1>0, <2>2, <2>4
    <3> QED
      BY <1>0, <3>1
  <2>6. (\A i \in Outstanding : \A j \in DOMAIN completed : TokenAt(i) # completed[j])'
    BY <1>0, <2>1, <2>2, <2>4
  <2>7. \A i \in Outstanding' : Inq(TokenAt(i))'
    <3> SUFFICES ASSUME NEW i \in Outstanding PROVE "inqueue" \in flags'[TokenAt(i)]
      BY <2>1 DEF Inq
    <3>1. TokenAt(i) # h
      BY <1>0, <2>2
    <3> QED
      BY <1>0, <1>00, <2>3, <3>1 DEF Inq
  <2>8. \A j \in DOMAIN completed' : Inq(completed[j])'
    <3> SUFFICES ASSUME NEW j \in 1 .. Len(completed) - 1 PROVE "inqueue" \in flags'[completed'[j]]
      BY <2>2 DEF Inq
    <3>1. completed'[j] # h /\ completed'[j] = completed[j + 1]
      BY <1>0, <2>2, <2>4
    <3> QED
      BY <1>0, <1>00, <2>3, <2>4, <3>1 DEF Inq
  <2>9. (\A i, j \in Outstanding : TokenAt(i) = TokenAt(j) => i = j)'
    BY <1>0, <2>1
  <2> QED
    BY <2>5, <2>6, <2>7, <2>8, <2>9, PreparedStep DEF Once
<1>6. ASSUME NEW h \in Headers, NEW n \in 0 .. MaxBlocks, Writes(h, n) PROVE Once'
  <2> DEFINE k == Len(queue) + n
  <2>1. /\ Outstanding' = Outstanding \cup {k} /\ k \notin Outstanding
        /\ \A i : i = k => TokenAt(i)' = h
        /\ \A i \in Outstanding : TokenAt(i)' = TokenAt(i)
    BY <1>6, WrittenTokens
  <2>2. UNCHANGED completed /\ ~Inq(h)
    BY <1>6 DEF Writes
  <2>3. \A g \in Headers : Inq(g)' <=> Inq(g) \/ g = h
    BY <1>6, MarksStep
  <2> HIDE DEF k
  <2>4. \A i \in Outstanding : TokenAt(i) # h
    BY <1>0, <2>2
  <2>5. \A j \in DOMAIN completed : completed[j] # h
    BY <1>0, <2>2
  <2>6. (\A i, j \in Outstanding : TokenAt(i) = TokenAt(j) => i = j)'
    <3> SUFFICES ASSUME NEW i \in Outstanding \cup {k}, NEW j \in Outstanding \cup {k},
                        TokenAt(i)' = TokenAt(j)'
                 PROVE  i = j
      BY <2>1
    <3> QED
      BY <1>0, <2>1, <2>4
  <2>7. (\A i \in Outstanding : \A j \in DOMAIN completed : TokenAt(i) # completed[j])'
    BY <1>0, <2>1, <2>2, <2>5
  <2>8. \A i \in Outstanding' : Inq(TokenAt(i))'
    <3> SUFFICES ASSUME NEW i \in Outstanding \cup {k} PROVE "inqueue" \in flags'[TokenAt(i)']
      BY <2>1 DEF Inq
    <3> QED
      BY <1>0, <1>00, <2>1, <2>3 DEF Inq
  <2>9. \A j \in DOMAIN completed' : Inq(completed[j])'
    BY <1>0, <1>00, <2>2, <2>3 DEF Inq
  <2> QED
    BY <1>0, <2>2, <2>6, <2>7, <2>8, <2>9, PreparedStep DEF Once
<1> QED
  BY <1>1, <1>2, <1>3, <1>4, <1>5, <1>6, Steps

\* Neither the worker's error nor stopping is ever taken back.
LEMMA StaysStopped ==
  ASSUME TypeInv, [Next]_vars
  PROVE  stopping => stopping'
<1>1. CASE Worker \/ WorkerWakes
  BY <1>1 DEF Worker, WorkerWakes, WorkerWaits, WorkerTakes, WorkerExits, WorkerPlayed,
     WorkerOutputFails, WorkerSpurious
<1>2. CASE Pump
  BY <1>2 DEF Pump, PumpFails, PumpEmpty, PumpDelivers, Poll, audioVars
<1>3. CASE Call
  BY <1>3 DEF Call, OtherCall, ReadMessage, WaveOpen, Open, ControlFails, WaveReset, Reset,
     CloseStarts, CloseBegins, Prepare, Unprepare, Write, Submit, PauseOrRestart, SetPaused, audioVars
<1>4. CASE CloseReturns \/ ExitStarts \/ ExitJoined \/ UNCHANGED vars
  BY <1>4 DEF CloseReturns, CloseEnds, ExitStarts, TeardownBegins, Stop, ExitJoined, TeardownEnds,
     vars, audioVars
<1> QED
  BY <1>1, <1>2, <1>3, <1>4 DEF Next

\* A step that ends without an error began without one and lost no token.
LEMMA ErrorStays ==
  ASSUME TypeInv, [Next]_vars, workerError' = "ok"
  PROVE  workerError = "ok" /\ ~Drops /\ ~(Plays /\ Refused)
<1>1. ~Drops /\ ~(Plays /\ Refused)
  BY DEF Drops, Refused
<1>2. CASE Plays
  BY <1>1, <1>2, PushedToken DEF Ignored, Pushed
<1>3. CASE Still \/ Takes \/ Discards
  BY <1>1, <1>3 DEF Still, Takes, Discards
<1>4. CASE \E h \in Headers : Delivers(h) \/ \E n \in 0 .. MaxBlocks : Writes(h, n)
  BY <1>1, <1>4 DEF Delivers, Writes
<1> QED
  BY <1>1, <1>2, <1>3, <1>4, Steps

\* No token of a marked header is lost without an error.
LEMMA AccountedStep ==
  ASSUME TypeInv, Once, Accounted, [Next]_vars
  PROVE  Accounted'
<1> SUFFICES ASSUME workerError' = "ok", ~stopping', NEW h \in Headers, Inq(h)'
             PROVE  Somewhere(h)'
  BY DEF Accounted
<1>0. DOMAIN completed = 1 .. Len(completed) /\ Len(completed) \in Nat
  BY Contents
<1>1. workerError = "ok" /\ ~stopping /\ ~Drops /\ ~(Plays /\ Refused)
  BY StaysStopped, ErrorStays
<1>2. Inq(h) => Somewhere(h)
  BY <1>1 DEF Accounted
<1>3. CASE Still
  <2>1. UNCHANGED <<generation, queue, block, completed>> /\ Inq(h)
    BY <1>3 DEF Still
  <2>2. Outstanding' = Outstanding /\ \A i : TokenAt(i)' = TokenAt(i)
    BY <2>1, StillTokens
  <2> QED
    BY <1>2, <2>1, <2>2 DEF Somewhere
<1>4. CASE Takes
  <2>1. UNCHANGED completed /\ Inq(h)
    BY <1>4, MarksStep DEF Takes
  <2>2. \A i \in Outstanding : i - 1 \in Outstanding' /\ TokenAt(i - 1)' = TokenAt(i)
    BY <1>4, TakenTokens
  <2> QED
    BY <1>2, <2>1, <2>2 DEF Somewhere
<1>5. CASE Plays
  <2>1. Outstanding' = Outstanding \ {0} /\ \A i \in Outstanding' : TokenAt(i)' = TokenAt(i)
    BY <1>5, PlayedTokens
  <2>2. Somewhere(h)
    BY <1>2, <1>5, MarksStep
  <2>3. CASE Ignored
    BY <2>1, <2>2, <2>3 DEF Ignored, Somewhere
  <2>4. CASE Pushed
    <3>1. /\ DOMAIN completed' = 1 .. Len(completed) + 1 /\ TokenAt(0) = block.token
          /\ completed'[Len(completed) + 1] = block.token
          /\ \A j \in 1 .. Len(completed) : completed'[j] = completed[j]
      BY <2>4, OutstandingStep DEF Pushed, Outstandings
    <3>2. CASE \E i \in Outstanding \ {0} : TokenAt(i) = h
      BY <2>1, <3>2 DEF Somewhere
    <3>3. CASE TokenAt(0) = h
      <4>1. Len(completed) + 1 \in DOMAIN completed'
        BY <1>0, <3>1
      <4> QED
        BY <3>1, <3>3, <4>1 DEF Somewhere
    <3>4. CASE \E j \in DOMAIN completed : completed[j] = h
      <4> PICK j \in DOMAIN completed : completed[j] = h
        BY <3>4
      <4>1. j \in DOMAIN completed' /\ completed'[j] = h
        BY <1>0, <3>1
      <4> QED
        BY <4>1 DEF Somewhere
    <3> QED
      BY <2>2, <3>2, <3>3, <3>4 DEF Somewhere
  <2> QED
    BY <1>1, <1>5, <2>3, <2>4, PushedToken
<1>6. CASE Discards
  <2>1. generation' # generation
    BY <1>6, DiscardedTokens
  <2> QED
    BY <1>6, <2>1, MarksStep
<1>7. ASSUME NEW g \in Headers, Delivers(g) PROVE Somewhere(h)'
  <2>1. Outstanding' = Outstanding /\ \A i : TokenAt(i)' = TokenAt(i)
    BY <1>7, StillTokens DEF Delivers
  <2>2. Inq(h) /\ h # g
    BY <1>7, MarksStep
  <2>3. CASE \E i \in Outstanding : TokenAt(i) = h
    BY <2>1, <2>3 DEF Somewhere
  <2>4. CASE \E j \in DOMAIN completed : completed[j] = h
    <3> PICK j \in DOMAIN completed : completed[j] = h
      BY <2>4
    <3>1. /\ Len(completed') = Len(completed) - 1 /\ completed' \in Seq(Tokens)
          /\ \A i \in 1 .. Len(completed') : completed'[i] = completed[i + 1]
          /\ g = completed[1]
      BY <1>7, DeliveredToken
    <3>2. DOMAIN completed' = 1 .. Len(completed')
      BY <3>1
    <3>3. j - 1 \in 1 .. Len(completed') /\ completed'[j - 1] = completed[j]
      BY <1>0, <2>2, <3>1
    <3> QED
      BY <3>2, <3>3 DEF Somewhere
  <2> QED
    BY <1>2, <2>2, <2>3, <2>4 DEF Somewhere
<1>8. ASSUME NEW g \in Headers, NEW n \in 0 .. MaxBlocks, Writes(g, n) PROVE Somewhere(h)'
  <2> PICK k : k = Len(queue) + n
    OBVIOUS
  <2>1. /\ k \in Outstanding' /\ TokenAt(k)' = g
        /\ \A i \in Outstanding : i \in Outstanding' /\ TokenAt(i)' = TokenAt(i)
    BY <1>8, WrittenTokens
  <2>2. Inq(h) \/ h = g
    BY <1>8, MarksStep
  <2>3. UNCHANGED completed
    BY <1>8 DEF Writes
  <2> QED
    BY <1>2, <2>1, <2>2, <2>3 DEF Somewhere
<1> QED
  BY <1>1, <1>3, <1>4, <1>5, <1>6, <1>7, <1>8, Steps

\* No token at the start.
LEMMA TokenInvStart == Init => TokenInv
<1> SUFFICES ASSUME Init PROVE TokenInv
  OBVIOUS
<1>1. TypeInv
  BY TypeInvStart
<1>2. DOMAIN completed = {} /\ \A h \in Headers : ~Inq(h)
  BY DEF Init, AudioInit, Inq
<1>3. Outstanding = {}
  BY <1>1, OutstandingAre DEF Outstandings, Init, AudioInit, NoBlock
<1> QED
  BY <1>1, <1>2, <1>3 DEF TokenInv, Once, Accounted

\* Where the tokens are is inductive, if queued headers are not written.
LEMMA TokenInvStep ==
  ASSUME TokenInv, [Next]_vars, GuestRewrites = FALSE
  PROVE  TokenInv'
  BY TypeInvStep, OnceStep, AccountedStep DEF TokenInv

\* What Held counts of tokens that are in one place.
LEMMA HeldOnce ==
  ASSUME TypeInv, Once, NEW h \in Headers
  PROVE  Held(h) = IF Somewhere(h) THEN 1 ELSE 0
<1> DEFINE I == {i \in Outstanding : TokenAt(i) = h}
           J == {i \in DOMAIN completed : completed[i] = h}
<1>1. CASE \E i \in Outstanding : TokenAt(i) = h
  <2> PICK i \in Outstanding : TokenAt(i) = h
    BY <1>1
  <2>1. I = {i} /\ J = {}
    BY DEF Once
  <2>2. Cardinality({i}) = 1 /\ Cardinality({}) = 0
    BY FS_Singleton, FS_EmptySet
  <2> QED
    BY <1>1, <2>1, <2>2 DEF Held, Somewhere
<1>2. CASE \E j \in DOMAIN completed : completed[j] = h
  <2> PICK j \in DOMAIN completed : completed[j] = h
    BY <1>2
  <2>1. I = {} /\ J = {j}
    BY DEF Once
  <2>2. Cardinality({j}) = 1 /\ Cardinality({}) = 0
    BY FS_Singleton, FS_EmptySet
  <2> QED
    BY <1>2, <2>1, <2>2 DEF Held, Somewhere
<1>3. CASE ~Somewhere(h)
  <2>1. I = {} /\ J = {}
    BY <1>3 DEF Somewhere
  <2> QED
    BY <1>3, <2>1, FS_EmptySet DEF Held
<1> QED
  BY <1>1, <1>2, <1>3 DEF Somewhere

\* The INQUEUE flag in guest memory and the backend agree, for any number of
\* headers, blocks and submissions, as long as the guest does not write a header
\* it has queued: TokensAccounted is checked under the same promise.
THEOREM TokensAlwaysAccounted ==
  ASSUME GuestRewrites = FALSE
  PROVE  Spec => []TokensAccounted
<1>1. Init => TokenInv
  BY TokenInvStart
<1>2. TokenInv /\ [Next]_vars => TokenInv'
  BY TokenInvStep
<1>3. TokenInv => TokensAccounted
  <2> SUFFICES ASSUME TokenInv, workerError = "ok", ~stopping, NEW h \in Headers
               PROVE  Held(h) = IF "inqueue" \in flags[h] THEN 1 ELSE 0
    BY DEF TokensAccounted
  <2>1. Held(h) = IF Somewhere(h) THEN 1 ELSE 0
    BY HeldOnce DEF TokenInv
  <2>2. Somewhere(h) <=> Inq(h)
    BY DEF TokenInv, Accounted, Once, Somewhere
  <2> QED
    BY <2>1, <2>2 DEF Inq
<1> QED
  BY <1>1, <1>2, <1>3, PTL DEF Spec

\* The pigeonhole: the token being completed and those in the ring are
\* different prepared headers.
LEMMA RoomLeft ==
  ASSUME TypeInv, Once, 0 \in Outstanding, HeaderSlots <= CompletionSlots
  PROVE  Len(completed) < CompletionSlots
<1> DEFINE S == 0 .. Len(completed)
           f == [j \in S |-> IF j = 0 THEN TokenAt(0) ELSE completed[j]]
<1>1. Len(completed) \in Nat /\ DOMAIN completed = 1 .. Len(completed)
  BY Contents
<1>2. /\ TokenAt(0) \in headers /\ \A j \in 1 .. Len(completed) : completed[j] \in headers
      /\ \A j \in 1 .. Len(completed) : TokenAt(0) # completed[j]
      /\ \A i, j \in 1 .. Len(completed) : completed[i] = completed[j] => i = j
  <2>1. TokenAt(0) \in Headers /\ \A j \in 1 .. Len(completed) : completed[j] \in Headers
    BY OutstandingAre, Contents DEF Outstandings
  <2> QED
    BY <1>1, <2>1 DEF Once
<1>3. f \in [S -> headers]
  BY <1>1, <1>2
<1>4. \A x, y \in S : f[x] = f[y] => x = y
  <2> SUFFICES ASSUME NEW x \in S, NEW y \in S, f[x] = f[y] PROVE x = y
    OBVIOUS
  <2>1. (x = 0 \/ x \in 1 .. Len(completed)) /\ (y = 0 \/ y \in 1 .. Len(completed))
    BY <1>1
  <2> QED
    BY <1>1, <1>2, <2>1
<1>5. IsFiniteSet(headers) /\ Cardinality(headers) <= HeaderSlots
  BY DEF TypeInv, Shape, TypeOK
<1>6. IsFiniteSet(S) /\ Cardinality(S) = Len(completed) + 1
  BY <1>1, FS_Interval
<1> HIDE DEF f, S
<1>7. ~(Cardinality(headers) < Cardinality(S))
  BY <1>3, <1>4, <1>5, <1>6, FS_PigeonHole
<1>8. Cardinality(headers) \in Nat
  BY <1>5, FS_CardinalityType
<1> QED
  BY <1>1, <1>5, <1>6, <1>7, <1>8, AudioAssumption, WaveAssumption

\* completed_push never meets a full ring when it has a slot for every header
\* the adapter can prepare.
THEOREM RingAlwaysHasRoom == Spec => []RingHasRoom
<1> DEFINE Room == HeaderSlots <= CompletionSlots /\ ~GuestRewrites => TokenInv /\ workerError # "limit"
<1>1. Init => Room
  BY TokenInvStart DEF Init, AudioInit
<1>2. Room /\ [Next]_vars => Room'
  <2> SUFFICES ASSUME TokenInv, workerError # "limit", [Next]_vars,
                      HeaderSlots <= CompletionSlots, GuestRewrites = FALSE
               PROVE  TokenInv' /\ workerError' # "limit"
    BY WaveAssumption
  <2>1. TokenInv' /\ TypeInv /\ Once
    BY TokenInvStep DEF TokenInv
  <2>2. CASE Plays
    <3>1. ~Refused
      BY <2>1, RoomLeft DEF Refused
    <3> QED
      BY <2>1, <2>2, <3>1, PushedToken DEF Ignored, Pushed
  <2>3. CASE ~Plays
    BY <2>1, <2>3, Steps DEF Still, Takes, Drops, Delivers, Writes, Discards
  <2> QED
    BY <2>1, <2>2, <2>3
<1>3. Room => RingHasRoom
  BY DEF RingHasRoom
<1> QED
  BY <1>1, <1>2, <1>3, PTL DEF Spec

-----------------------------------------------------------------------------
(* The service the backend implements                                      *)

ServiceState == IF workerError # "ok" THEN "failed" ELSE IF opened THEN "open" ELSE "closed"
Pending == {TokenAt(i) : i \in Outstanding}
Ready == {completed[j] : j \in DOMAIN completed}

\* The worker leaves its loop only when it has been told to.
Exited == worker = "exited" => stopping
\* So it stays: only WorkerExits leaves, and stopping is never taken back.
LEMMA ExitedStep ==
  ASSUME TypeInv, Exited, [Next]_vars
  PROVE  Exited'
<1> SUFFICES ASSUME worker' = "exited" PROVE stopping'
  BY DEF Exited
<1>1. CASE worker = "exited"
  BY <1>1, StaysStopped DEF Exited
<1>2. CASE worker # "exited"
  <2>1. worker' # "exited" \/ (WorkerExits /\ UNCHANGED stopping)
    <3>1. CASE Worker \/ WorkerWakes
      BY <1>2, <3>1 DEF Worker, WorkerWakes, WorkerWaits, WorkerTakes, WorkerExits, WorkerPlayed,
         WorkerOutputFails, WorkerSpurious
    <3>2. CASE Pump
      BY <1>2, <3>2 DEF Pump, PumpFails, PumpEmpty, PumpDelivers, Poll, audioVars
    <3>3. CASE Call
      BY <1>2, <3>3 DEF Call, OtherCall, ReadMessage, WaveOpen, Open, ControlFails, WaveReset, Reset,
         CloseStarts, CloseBegins, Prepare, Unprepare, Write, Submit, Enqueued, PauseOrRestart,
         SetPaused, Broadcast, audioVars
    <3>4. CASE CloseReturns \/ ExitStarts \/ ExitJoined \/ UNCHANGED vars
      BY <1>2, <3>4 DEF CloseReturns, CloseEnds, ExitStarts, TeardownBegins, Stop, Broadcast,
         ExitJoined, TeardownEnds, vars, audioVars
    <3> QED
      BY <3>1, <3>2, <3>3, <3>4 DEF Next
  <2> QED
    BY <2>1 DEF WorkerExits
<1> QED
  BY <1>1, <1>2

\* The device is opened once, and closed only when nothing is outstanding.
LEMMA OpenedStep ==
  ASSUME TypeInv, Exited, [Next]_vars
  PROVE  \/ UNCHANGED opened
         \/ ~opened /\ opened'
         \/ opened /\ ~opened' /\ Outstanding = {}
<1>0. opened \in BOOLEAN
  BY DEF TypeInv, TypeOK
<1>1. CASE Worker \/ WorkerWakes
  BY <1>1 DEF Worker, WorkerWakes, WorkerWaits, WorkerTakes, WorkerExits, WorkerPlayed,
     WorkerOutputFails, WorkerSpurious
<1>2. CASE Pump
  BY <1>2 DEF Pump, PumpFails, PumpEmpty, PumpDelivers, Poll, audioVars
<1>3. CASE Call /\ ~CloseStarts
  BY <1>3 DEF Call, OtherCall, ReadMessage, WaveOpen, Open, ControlFails, WaveReset, Reset,
     Prepare, Unprepare, Write, Submit, PauseOrRestart, SetPaused, audioVars
<1>4. CASE CloseReturns \/ ExitStarts \/ UNCHANGED vars
  BY <1>4 DEF CloseReturns, CloseEnds, ExitStarts, TeardownBegins, vars, audioVars
<1>5. ASSUME ~Active, queue = <<>> PROVE Outstanding = {}
  BY <1>5, OutstandingAre, Contents DEF Outstandings, NoBlock
<1>6. CASE CloseStarts
  BY <1>0, <1>5, <1>6 DEF CloseStarts, CloseBegins, Busy
<1>7. CASE ExitJoined
  <2>1. ~Active /\ queue = <<>> /\ opened' = FALSE
    BY <1>7 DEF ExitJoined, TeardownEnds, Exited, TypeInv, Turns, Active
  <2> QED
    BY <1>0, <1>5, <2>1
<1> QED
  BY <1>1, <1>2, <1>3, <1>4, <1>6, <1>7 DEF Next

\* Every step of adapter and backend is one of the service, or none.
LEMMA ServiceStep ==
  ASSUME TokenInv, Exited, [Next]_vars, GuestRewrites = FALSE
  PROVE  [Service!Next]_(Service!serviceVars)
<1> USE DEF ServiceState, Pending, Ready
<1>0. TypeInv /\ Once /\ DOMAIN completed = 1 .. Len(completed) /\ Len(completed) \in Nat
  BY Contents DEF TokenInv
<1>01. /\ \A i, j \in Outstanding : TokenAt(i) = TokenAt(j) => i = j
       /\ \A i, j \in DOMAIN completed : completed[i] = completed[j] => i = j
       /\ \A i \in Outstanding : Inq(TokenAt(i))
       /\ \A j \in DOMAIN completed : Inq(completed[j])
  BY <1>0 DEF Once
<1>1. CASE Still
  <2>1. UNCHANGED <<Pending, Ready, workerError>>
    <3>1. UNCHANGED <<generation, queue, block, completed, workerError>>
      BY <1>1 DEF Still
    <3> QED
      BY <1>0, <3>1, StillTokens
  <2>2. CASE UNCHANGED opened
    BY <2>1, <2>2 DEF Service!serviceVars
  <2>3. CASE ~opened /\ opened'
    BY <2>1, <2>3 DEF Service!serviceVars, Service!Next, Service!Open
  <2>4. CASE opened /\ ~opened' /\ Outstanding = {}
    BY <2>1, <2>4 DEF Service!serviceVars, Service!Next, Service!Close
  <2> QED
    BY <1>0, <2>2, <2>3, <2>4, OpenedStep
<1>2. CASE Takes
  <2>1. UNCHANGED <<completed, workerError, opened>>
    BY <1>2 DEF Takes
  <2>2. /\ \A i \in Outstanding' : i + 1 \in Outstanding /\ TokenAt(i)' = TokenAt(i + 1)
        /\ \A i \in Outstanding : i - 1 \in Outstanding' /\ TokenAt(i - 1)' = TokenAt(i)
    BY <1>0, <1>2, TakenTokens
  <2>3. Pending' = Pending
    BY <2>2
  <2> QED
    BY <2>1, <2>3 DEF Service!serviceVars
<1>3. CASE Plays \/ Drops
  <2>1. Outstanding' = Outstanding \ {0} /\ \A i \in Outstanding' : TokenAt(i)' = TokenAt(i)
    BY <1>0, <1>3, PlayedTokens
  <2>2. Pending' = IF 0 \in Outstanding THEN Pending \ {TokenAt(0)} ELSE Pending
    BY <1>01, <2>1
  <2>3. UNCHANGED opened
    BY <1>3 DEF Plays, Drops
  <2>4. CASE Plays /\ Ignored
    BY <2>2, <2>3, <2>4 DEF Ignored, Service!serviceVars
  <2>5. CASE Drops \/ Refused
    <3>1. UNCHANGED completed /\ ServiceState' = "failed"
      BY <2>5 DEF Drops, Refused
    <3>2. Service!Fail
      BY <2>2, <3>1 DEF Service!Fail
    <3> QED
      BY <3>2 DEF Service!Next
  <2>6. CASE Plays /\ Pushed
    <3>1. /\ DOMAIN completed' = 1 .. Len(completed) + 1 /\ TokenAt(0) = block.token
          /\ completed'[Len(completed) + 1] = block.token
          /\ \A j \in 1 .. Len(completed) : completed'[j] = completed[j]
          /\ 0 \in Outstanding /\ UNCHANGED workerError
      BY <1>0, <2>6, OutstandingStep DEF Pushed, Outstandings
    <3>2. Ready' = Ready \cup {TokenAt(0)}
      <4>1. \A j \in DOMAIN completed' : j \in DOMAIN completed \/ j = Len(completed) + 1
        BY <1>0, <3>1
      <4>2. \A j \in DOMAIN completed : j \in DOMAIN completed'
        BY <1>0, <3>1
      <4>3. Len(completed) + 1 \in DOMAIN completed'
        BY <1>0, <3>1
      <4> QED
        BY <1>0, <3>1, <4>1, <4>2, <4>3
    <3>3. TokenAt(0) \in Tokens
      BY <1>0, <3>1, OutstandingAre, Contents DEF Outstandings
    <3> PICK t \in Tokens : t = TokenAt(0)
      BY <3>3
    <3>4. Service!Consume(t)
      BY <2>2, <2>3, <3>1, <3>2 DEF Service!Consume
    <3> QED
      BY <3>4 DEF Service!Next
  <2> QED
    BY <1>0, <1>3, <2>4, <2>5, <2>6, PushedToken
<1>4. CASE Discards
  <2>1. UNCHANGED <<opened, workerError>> /\ Ready' = {}
    BY <1>4 DEF Discards
  <2>2. Outstanding' \subseteq {0} \cap Outstanding /\ TokenAt(0)' = TokenAt(0)
    BY <1>0, <1>4, DiscardedTokens
  <2>3. Service!Forget
    BY <2>1, <2>2 DEF Service!Forget
  <2> QED
    BY <2>3 DEF Service!Next
<1>5. ASSUME NEW h \in Headers, Delivers(h) PROVE Service!Next
  <2>1. Outstanding' = Outstanding /\ (\A i : TokenAt(i)' = TokenAt(i)) /\ UNCHANGED <<opened, workerError>>
        /\ workerError = "ok"
    BY <1>0, <1>5, StillTokens DEF Delivers
  <2>2. /\ Len(completed) >= 1 /\ Len(completed') = Len(completed) - 1 /\ completed' \in Seq(Tokens)
        /\ \A i \in 1 .. Len(completed') : completed'[i] = completed[i + 1]
        /\ h = completed[1]
    BY <1>0, <1>5, DeliveredToken
  <2>3. DOMAIN completed' = 1 .. Len(completed')
    BY <2>2
  <2>4. Ready' = Ready \ {h} /\ h \in Ready
    <3>1. \A j \in DOMAIN completed' : j + 1 \in DOMAIN completed /\ j + 1 # 1
      BY <1>0, <2>2, <2>3
    <3>2. \A j \in DOMAIN completed : j # 1 => j - 1 \in DOMAIN completed' /\ completed'[j - 1] = completed[j]
      BY <1>0, <2>2, <2>3
    <3>3. 1 \in DOMAIN completed
      BY <1>0, <2>2
    <3>4. \A x : x \in Ready' => x \in Ready \ {h}
      BY <1>01, <2>2, <2>3, <3>1, <3>3
    <3>5. \A x : x \in Ready \ {h} => x \in Ready'
      BY <2>2, <3>2
    <3> QED
      BY <2>2, <3>3, <3>4, <3>5
  <2>5. Service!Return(h)
    BY <2>1, <2>4 DEF Service!Return
  <2> QED
    BY <2>5 DEF Service!Next
<1>6. ASSUME NEW h \in Headers, NEW n \in 0 .. MaxBlocks, Writes(h, n) PROVE Service!Next
  <2> PICK k : k = Len(queue) + n
    OBVIOUS
  <2>1. /\ Outstanding' = Outstanding \cup {k} /\ TokenAt(k)' = h
        /\ \A i \in Outstanding : TokenAt(i)' = TokenAt(i)
    BY <1>0, <1>6, WrittenTokens
  <2>2. ~Inq(h) /\ workerError = "ok" /\ opened /\ UNCHANGED <<opened, workerError, completed>>
    BY <1>6 DEF Writes
  <2>3. Pending' = Pending \cup {h}
    BY <2>1
  <2>4. h \notin Pending \cup Ready
    BY <1>01, <2>2
  <2>5. Service!Accept(h)
    BY <2>2, <2>3, <2>4 DEF Service!Accept
  <2> QED
    BY <2>5 DEF Service!Next
<1> QED
  BY <1>0, <1>1, <1>2, <1>3, <1>4, <1>5, <1>6, Steps

\* Driven by the adapter and raced by its worker, the backend keeps the promise
\* of src/pw_win32.h: a token is returned once, after its last sample.
THEOREM ServiceKept ==
  ASSUME GuestRewrites = FALSE
  PROVE  Spec => ServiceContract
<1> DEFINE Inv == TokenInv /\ Exited
<1>1. Init => Inv
  BY TokenInvStart DEF Init, AudioInit, Exited
<1>2. Inv /\ [Next]_vars => Inv'
  BY TokenInvStep, ExitedStep DEF TokenInv
<1>3. Init => Service!Init
  <2> SUFFICES ASSUME Init PROVE Service!Init
    OBVIOUS
  <2>1. Outstanding = {}
    BY TypeInvStart, OutstandingAre DEF Outstandings, Init, AudioInit, NoBlock
  <2> QED
    BY <2>1 DEF Init, AudioInit, Service!Init
<1>4. Inv /\ [Next]_vars => [Service!Next]_(Service!serviceVars)
  BY ServiceStep
<1> QED
  BY <1>1, <1>2, <1>3, <1>4, PTL DEF Spec, ServiceContract, Service!Spec

-----------------------------------------------------------------------------
(* The order of submissions                                                *)

\* Entries carry the submission of their header's last write.
LEMMA OrderedStep ==
  ASSUME TypeInv, Once, Ordered, [Next]_vars, GuestRewrites = FALSE
  PROVE  Ordered'
<1>0. /\ Len(queue) \in Nat /\ DOMAIN queue = 1 .. Len(queue)
      /\ Len(completed) \in Nat /\ DOMAIN completed = 1 .. Len(completed)
      /\ \A j \in 1 .. Len(completed) : completed[j] \in Headers
      /\ \A i \in 1 .. Len(queue) : queue[i].submission \in 1 .. enqueues
      /\ block.submission \in 0 .. enqueues /\ enqueues \in Nat
      /\ latest \in [Headers -> 0 .. MaxSubmits]
  BY Contents DEF TypeInv, TypeOK
<1>1. /\ \A i \in Outstanding : Entry(i).submission = latest[TokenAt(i)] /\ TokenAt(i) \in Headers
      /\ \A i \in Outstanding : i = 0 \/ i \in 1 .. Len(queue)
      /\ 0 \in Outstanding => block.token # NoToken
  BY OutstandingAre, Contents DEF Ordered, Outstandings
<1>2. \A j \in 1 .. Len(completed) :
         /\ latest[completed[j]] \in 1 .. enqueues
         /\ latest[completed[j]] # block.submission
         /\ 0 \in Outstanding => latest[completed[j]] < block.submission
         /\ \A i \in 1 .. Len(queue) : latest[completed[j]] < queue[i].submission
         /\ \A i \in 1 .. j - 1 : latest[completed[i]] < latest[completed[j]]
  BY <1>0 DEF Ordered
<1>3. \A j \in 1 .. Len(queue) :
         /\ block.submission <= queue[j].submission
         /\ block.token # NoToken => block.submission < queue[j].submission
         /\ \A i \in 1 .. j - 1 :
              /\ queue[i].submission <= queue[j].submission
              /\ queue[i].token # NoToken => queue[i].submission < queue[j].submission
  BY <1>0 DEF Ordered
<1>4. CASE Still
  <2>1. UNCHANGED <<generation, queue, completed, block, enqueues, latest>>
    BY <1>4 DEF Still
  <2>2. Outstanding' = Outstanding /\ \A i : TokenAt(i)' = TokenAt(i)
    BY <2>1, StillTokens
  <2> QED
    BY <2>1, <2>2 DEF Ordered, Entry
<1>5. CASE Takes
  <2>1. UNCHANGED <<completed, enqueues, latest>>
    BY <1>5 DEF Takes
  <2>2. /\ \A i \in Outstanding' : i \in Nat /\ i + 1 \in Outstanding /\ TokenAt(i)' = TokenAt(i + 1)
    BY <1>5, TakenTokens
  <2>3. /\ Len(queue) >= 1 /\ Len(queue') = Len(queue) - 1 /\ queue' \in Seq(Block)
        /\ \A i \in 1 .. Len(queue') : queue'[i] = queue[i + 1]
        /\ block' = queue[1]
    BY <1>5, TakenBlock
  <2>4. DOMAIN queue' = 1 .. Len(queue')
    BY <2>3
  <2>5. \A i \in Outstanding' : Entry(i)'.submission = latest'[TokenAt(i)']
    <3> SUFFICES ASSUME NEW i \in Outstanding' PROVE Entry(i)' = Entry(i + 1)
      BY <1>1, <2>1, <2>2
    <3>1. i \in Nat /\ i + 1 \in 1 .. Len(queue)
      BY <1>1, <2>2
    <3>2. CASE i = 0
      BY <2>3, <3>1, <3>2 DEF Entry
    <3>3. CASE i # 0
      BY <1>0, <2>3, <3>1, <3>3 DEF Entry
    <3> QED
      BY <3>2, <3>3
  <2>6. \A j \in DOMAIN completed' :
         /\ latest'[completed'[j]] \in 1 .. enqueues'
         /\ latest'[completed'[j]] # block'.submission
         /\ 0 \in Outstanding' => latest'[completed'[j]] < block'.submission
         /\ \A i \in DOMAIN queue' : latest'[completed'[j]] < queue'[i].submission
         /\ \A i \in 1 .. j - 1 : latest'[completed'[i]] < latest'[completed'[j]]
    <3> SUFFICES ASSUME NEW j \in 1 .. Len(completed)
                 PROVE  /\ latest[completed[j]] \in 1 .. enqueues
                        /\ latest[completed[j]] # queue[1].submission
                        /\ latest[completed[j]] < queue[1].submission
                        /\ \A i \in DOMAIN queue' : latest[completed[j]] < queue'[i].submission
                        /\ \A i \in 1 .. j - 1 : latest[completed[i]] < latest[completed[j]]
      BY <1>0, <2>1, <2>3
    <3>1. \A i \in DOMAIN queue' : i + 1 \in 1 .. Len(queue) /\ queue'[i] = queue[i + 1]
      BY <1>0, <2>3, <2>4
    <3>2. 1 \in 1 .. Len(queue)
      BY <1>0, <2>3
    <3>3. latest[completed[j]] < queue[1].submission /\ latest[completed[j]] \in Nat /\ queue[1].submission \in Nat
      BY <1>0, <1>2, <3>2
    <3> QED
      BY <1>2, <3>1, <3>3
  <2>7. \A j \in DOMAIN queue' :
         /\ block'.submission <= queue'[j].submission
         /\ block'.token # NoToken => block'.submission < queue'[j].submission
         /\ \A i \in 1 .. j - 1 :
              /\ queue'[i].submission <= queue'[j].submission
              /\ queue'[i].token # NoToken => queue'[i].submission < queue'[j].submission
    <3> SUFFICES ASSUME NEW j \in 1 .. Len(queue')
                 PROVE  /\ queue[1].submission <= queue[j + 1].submission
                        /\ queue[1].token # NoToken => queue[1].submission < queue[j + 1].submission
                        /\ \A i \in 1 .. j - 1 :
                             /\ queue'[i].submission <= queue[j + 1].submission
                             /\ queue'[i].token # NoToken => queue'[i].submission < queue[j + 1].submission
      BY <2>3, <2>4
    <3>1. j + 1 \in 1 .. Len(queue) /\ 1 \in 1 .. (j + 1) - 1
      BY <1>0, <2>3
    <3>2. \A i \in 1 .. j - 1 : i + 1 \in 1 .. (j + 1) - 1 /\ queue'[i] = queue[i + 1]
      BY <1>0, <2>3
    <3> QED
      BY <1>3, <3>1, <3>2
  <2> QED
    BY <2>5, <2>6, <2>7 DEF Ordered
<1>6. CASE Plays \/ Drops
  <2>1. Outstanding' = Outstanding \ {0} /\ \A i \in Outstanding' : TokenAt(i)' = TokenAt(i)
    BY <1>6, PlayedTokens
  <2>2. UNCHANGED <<queue, enqueues, latest>> /\ block' = NoBlock /\ block'.submission = 0 /\ block'.token = NoToken
    BY <1>6 DEF Plays, Drops, NoBlock
  <2>3. \A i \in Outstanding' : Entry(i)'.submission = latest'[TokenAt(i)']
    BY <1>1, <2>1, <2>2 DEF Entry
  <2>4. \A j \in DOMAIN queue' :
         /\ block'.submission <= queue'[j].submission
         /\ block'.token # NoToken => block'.submission < queue'[j].submission
         /\ \A i \in 1 .. j - 1 :
              /\ queue'[i].submission <= queue'[j].submission
              /\ queue'[i].token # NoToken => queue'[i].submission < queue'[j].submission
    BY <1>0, <1>3, <2>2
  <2>5. CASE UNCHANGED completed
    <3>1. \A j \in DOMAIN completed :
           /\ latest[completed[j]] \in 1 .. enqueues
           /\ latest[completed[j]] # block'.submission
           /\ \A i \in DOMAIN queue : latest[completed[j]] < queue[i].submission
           /\ \A i \in 1 .. j - 1 : latest[completed[i]] < latest[completed[j]]
      BY <1>0, <1>2, <2>2
    <3> QED
      BY <2>1, <2>2, <2>3, <2>4, <2>5, <3>1 DEF Ordered
  <2>6. CASE Pushed
    <3>1. /\ DOMAIN completed' = 1 .. Len(completed) + 1 /\ TokenAt(0) = block.token /\ 0 \in Outstanding
          /\ completed'[Len(completed) + 1] = block.token
          /\ \A j \in 1 .. Len(completed) : completed'[j] = completed[j]
      BY <2>6, OutstandingStep DEF Pushed, Outstandings
    <3>2. latest[block.token] = block.submission /\ block.token # NoToken
      BY <1>1, <3>1 DEF Entry
    <3>3. block.submission \in 1 .. enqueues
      BY <3>2, Contents DEF Submissions, NoBlock
    <3>4. ASSUME NEW j \in 1 .. Len(completed) + 1
          PROVE  /\ latest[completed'[j]] \in 1 .. enqueues
                 /\ latest[completed'[j]] # 0
                 /\ \A i \in 1 .. Len(queue) : latest[completed'[j]] < queue[i].submission
                 /\ \A i \in 1 .. j - 1 : latest[completed'[i]] < latest[completed'[j]]
      <4>1. CASE j \in 1 .. Len(completed)
        <5>1. \A i \in 1 .. j - 1 : i \in 1 .. Len(completed)
          BY <1>0, <4>1
        <5> QED
          BY <1>0, <1>2, <3>1, <4>1, <5>1
      <4>2. CASE j = Len(completed) + 1
        <5>1. \A i \in 1 .. j - 1 : i \in 1 .. Len(completed)
          BY <1>0, <4>2
        <5> QED
          BY <1>0, <1>2, <1>3, <3>1, <3>2, <3>3, <4>2, <5>1
      <4> QED
        BY <1>0, <4>1, <4>2
    <3> QED
      BY <1>0, <2>1, <2>2, <2>3, <2>4, <3>1, <3>4 DEF Ordered
  <2> QED
    BY <1>6, <2>5, <2>6, PushedToken DEF Drops, Ignored, Refused
<1>7. CASE Discards
  <2>1. DOMAIN completed' = {} /\ DOMAIN queue' = {} /\ UNCHANGED <<block, latest>>
    BY <1>7 DEF Discards
  <2>2. Outstanding' \subseteq {0} \cap Outstanding /\ TokenAt(0)' = TokenAt(0)
    BY <1>7, DiscardedTokens
  <2>3. \A i \in Outstanding' : Entry(i)'.submission = latest'[TokenAt(i)']
    BY <1>1, <2>1, <2>2 DEF Entry
  <2> QED
    BY <2>1, <2>3 DEF Ordered
<1>8. ASSUME NEW h \in Headers, Delivers(h) PROVE Ordered'
  <2>1. Outstanding' = Outstanding /\ (\A i : TokenAt(i)' = TokenAt(i)) /\ UNCHANGED <<queue, block, enqueues, latest>>
    BY <1>8, StillTokens DEF Delivers
  <2>2. /\ Len(completed) >= 1 /\ Len(completed') = Len(completed) - 1 /\ completed' \in Seq(Tokens)
        /\ \A i \in 1 .. Len(completed') : completed'[i] = completed[i + 1]
    BY <1>8, DeliveredToken
  <2>3. DOMAIN completed' = 1 .. Len(completed')
    BY <2>2
  <2>4. ASSUME NEW j \in 1 .. Len(completed')
        PROVE  /\ latest[completed'[j]] \in 1 .. enqueues
               /\ latest[completed'[j]] # block.submission
               /\ 0 \in Outstanding => latest[completed'[j]] < block.submission
               /\ \A i \in 1 .. Len(queue) : latest[completed'[j]] < queue[i].submission
               /\ \A i \in 1 .. j - 1 : latest[completed'[i]] < latest[completed'[j]]
    <3>0. completed'[j] = completed[j + 1]
      BY <2>2
    <3>1. j + 1 \in 1 .. Len(completed) /\ completed'[j] = completed[j + 1]
      BY <1>0, <2>2, <3>0
    <3>2. \A i \in 1 .. j - 1 : i + 1 \in 1 .. (j + 1) - 1 /\ completed'[i] = completed[i + 1]
      BY <1>0, <2>2
    <3> QED
      BY <1>2, <3>1, <3>2
  <2> QED
    BY <1>0, <1>1, <1>3, <2>1, <2>3, <2>4 DEF Ordered, Entry
<1>9. ASSUME NEW h \in Headers, NEW n \in 0 .. MaxBlocks, Writes(h, n) PROVE Ordered'
  <2> PICK k : k = Len(queue) + n
    OBVIOUS
  <2>1. /\ Outstanding' = Outstanding \cup {k} /\ TokenAt(k)' = h
        /\ \A i \in Outstanding : TokenAt(i)' = TokenAt(i)
    BY <1>9, WrittenTokens
  <2>2. /\ ~Inq(h) /\ UNCHANGED <<completed, block>> /\ enqueues' = enqueues + 1
        /\ enqueues + 1 \in 1 .. MaxSubmits
        /\ latest' = [latest EXCEPT ![h] = enqueues + 1]
    BY <1>0, <1>9, AudioAssumption DEF Writes
  <2>3. /\ Len(queue') = k /\ queue' \in Seq(Block) /\ n \in Nat /\ n > 0
        /\ \A i \in 1 .. Len(queue) : queue'[i] = queue[i]
        /\ \A i \in Len(queue) + 1 .. k :
             /\ queue'[i].token = IF i = k THEN h ELSE NoToken
             /\ queue'[i].submission = enqueues + 1
    BY <1>9, QueuedBlocks, AudioAssumption
  <2>4. DOMAIN queue' = 1 .. k /\ \A i \in 1 .. k : i \in 1 .. Len(queue) \/ i \in Len(queue) + 1 .. k
    BY <1>0, <2>3
  <2>5. /\ \A i \in Outstanding : TokenAt(i) # h
        /\ \A j \in 1 .. Len(completed) : completed[j] # h
    BY <1>0, <2>2 DEF Once
  <2>6. /\ \A i \in Outstanding : latest'[TokenAt(i)] = latest[TokenAt(i)]
        /\ \A j \in 1 .. Len(completed) : latest'[completed[j]] = latest[completed[j]]
        /\ latest'[h] = enqueues + 1
    BY <1>0, <1>1, <2>2, <2>5
  <2>7. \A i \in Outstanding' : Entry(i)'.submission = latest'[TokenAt(i)']
    <3> SUFFICES ASSUME NEW i \in Outstanding' PROVE Entry(i)'.submission = latest'[TokenAt(i)']
      OBVIOUS
    <3>1. CASE i = k
      <4>1. k # 0 /\ k \in Len(queue) + 1 .. k
        BY <1>0, <2>3
      <4> QED
        BY <2>1, <2>3, <2>6, <3>1, <4>1 DEF Entry
    <3>2. CASE i \in Outstanding
      <4>1. Entry(i)' = Entry(i)
        BY <1>1, <2>2, <2>3, <3>2 DEF Entry
      <4> QED
        BY <1>1, <2>1, <2>6, <3>2, <4>1
    <3> QED
      BY <2>1, <3>1, <3>2
  <2>8. ASSUME NEW j \in 1 .. Len(completed)
        PROVE  /\ latest'[completed[j]] \in 1 .. enqueues + 1
               /\ latest'[completed[j]] # block.submission
               /\ 0 \in Outstanding' => latest'[completed[j]] < block.submission
               /\ \A i \in 1 .. k : latest'[completed[j]] < queue'[i].submission
               /\ \A i \in 1 .. j - 1 : latest'[completed[i]] < latest'[completed[j]]
    <3>1. k # 0 /\ \A i \in 1 .. j - 1 : i \in 1 .. Len(completed)
      BY <1>0, <2>3
    <3>2. \A i \in 1 .. k : latest'[completed[j]] < queue'[i].submission
      <4> SUFFICES ASSUME NEW i \in 1 .. k PROVE latest[completed[j]] < queue'[i].submission
        BY <2>6
      <4>1. CASE i \in 1 .. Len(queue)
        BY <1>2, <2>3, <4>1
      <4>2. CASE i \in Len(queue) + 1 .. k
        BY <1>0, <1>2, <2>3, <4>2
      <4> QED
        BY <2>4, <4>1, <4>2
    <3> QED
      BY <1>0, <1>2, <2>1, <2>6, <3>1, <3>2
  <2>9. ASSUME NEW j \in 1 .. k
        PROVE  /\ block.submission <= queue'[j].submission
               /\ block.token # NoToken => block.submission < queue'[j].submission
               /\ \A i \in 1 .. j - 1 :
                    /\ queue'[i].submission <= queue'[j].submission
                    /\ queue'[i].token # NoToken => queue'[i].submission < queue'[j].submission
    <3>1. CASE j \in 1 .. Len(queue)
      <4>1. \A i \in 1 .. j - 1 : i \in 1 .. Len(queue)
        BY <1>0, <3>1
      <4> QED
        BY <1>3, <2>3, <3>1, <4>1
    <3>2. CASE j \in Len(queue) + 1 .. k
      <4>1. queue'[j].submission = enqueues + 1 /\ block.submission < enqueues + 1 /\ block.submission <= enqueues + 1
        BY <1>0, <2>3, <3>2
      <4>2. ASSUME NEW i \in 1 .. j - 1
            PROVE  /\ queue'[i].submission <= enqueues + 1
                   /\ queue'[i].token # NoToken => queue'[i].submission < enqueues + 1
        <5>1. CASE i \in 1 .. Len(queue)
          BY <1>0, <2>3, <5>1
        <5>2. CASE i \in Len(queue) + 1 .. k /\ i # k
          BY <1>0, <2>3, <5>2
        <5> QED
          BY <1>0, <2>3, <3>2, <5>1, <5>2
      <4> QED
        BY <4>1, <4>2
    <3> QED
      BY <2>4, <3>1, <3>2
  <2> QED
    BY <1>0, <2>2, <2>4, <2>7, <2>8, <2>9 DEF Ordered
<1> QED
  BY <1>4, <1>5, <1>6, <1>7, <1>8, <1>9, Steps

\* What is counted is what is left to play.
LEMMA ExactStep ==
  ASSUME TypeInv, Ordered, Exact, [Next]_vars, Once, GuestRewrites = FALSE
  PROVE  Exact'
<1> SUFFICES ASSUME workerError' = "ok" PROVE Exact'
  BY DEF Exact
<1>0. /\ Len(queue) \in Nat /\ DOMAIN queue = 1 .. Len(queue)
      /\ Len(completed) \in Nat /\ DOMAIN completed = 1 .. Len(completed)
      /\ \A j \in 1 .. Len(completed) : completed[j] \in Headers
      /\ \A i \in 1 .. Len(queue) : queue[i].submission \in 1 .. enqueues /\ queue[i].submission \in Submissions
      /\ block.submission \in 0 .. enqueues /\ enqueues \in Nat /\ MaxSubmits \in Nat
      /\ latest \in [Headers -> 0 .. MaxSubmits] /\ unplayed \in [Submissions -> 0 .. MaxBlocks]
      /\ MaxBlocks \in Nat
  BY Contents, AudioAssumption DEF TypeInv, TypeOK
<1>1. workerError = "ok" /\ ~Drops /\ ~(Plays /\ Refused)
  BY ErrorStays
<1>2. \A j \in 1 .. Len(completed) :
         /\ unplayed[latest[completed[j]]] = 0
         /\ latest[completed[j]] \in 1 .. enqueues
         /\ latest[completed[j]] # block.submission
  BY <1>0, <1>1 DEF Exact, Ordered
<1>3. block.token # NoToken => unplayed[block.submission] = 1
  BY <1>1 DEF Exact
<1>4. \A i \in 1 .. Len(queue) :
        queue[i].token # NoToken =>
          /\ unplayed[queue[i].submission] <= i + 1
          /\ unplayed[queue[i].submission] = i + 1 => block.submission = queue[i].submission
          /\ \A j \in 1 .. i : j > i - unplayed[queue[i].submission] =>
                                  queue[j].submission = queue[i].submission
  BY <1>0, <1>1 DEF Exact
<1>5. /\ Active => unplayed[block.submission] >= 1
      /\ \A j \in 1 .. Len(queue) :
           /\ block.submission = queue[j].submission => unplayed[queue[j].submission] >= j + 1
           /\ \A k \in 1 .. j :
                queue[k].submission = queue[j].submission => unplayed[queue[j].submission] >= j - k + 1
  BY <1>0 DEF TypeInv, Counted
<1>6. CASE Still
  BY <1>1, <1>6 DEF Still, Exact
<1>7. CASE Takes
  <2>1. UNCHANGED <<completed, enqueues, latest, unplayed>>
    BY <1>7 DEF Takes
  <2>2. /\ Len(queue) >= 1 /\ Len(queue') = Len(queue) - 1 /\ queue' \in Seq(Block)
        /\ \A i \in 1 .. Len(queue') : queue'[i] = queue[i + 1]
        /\ block' = queue[1] /\ block = NoBlock
    BY <1>7, TakenBlock
  <2>3. DOMAIN queue' = 1 .. Len(queue') /\ 1 \in 1 .. Len(queue) /\ block.submission = 0
    BY <1>0, <2>2 DEF NoBlock
  <2>4. block'.token # NoToken => unplayed[block'.submission] = 1
    <3> SUFFICES ASSUME queue[1].token # NoToken PROVE unplayed[queue[1].submission] = 1
      BY <2>2
    <3>1. unplayed[queue[1].submission] <= 2 /\ unplayed[queue[1].submission] # 2
      BY <1>0, <1>4, <2>3
    <3>2. unplayed[queue[1].submission] >= 1
      BY <1>5, <2>3
    <3> QED
      BY <1>0, <2>3, <3>1, <3>2
  <2>5. ASSUME NEW i \in 1 .. Len(queue'), queue'[i].token # NoToken
        PROVE  /\ unplayed[queue'[i].submission] <= i + 1
               /\ unplayed[queue'[i].submission] = i + 1 => block'.submission = queue'[i].submission
               /\ \A j \in 1 .. i : j > i - unplayed[queue'[i].submission] =>
                                      queue'[j].submission = queue'[i].submission
    <3> DEFINE u == unplayed[queue[i + 1].submission]
    <3>1. i + 1 \in 1 .. Len(queue) /\ queue'[i] = queue[i + 1]
      BY <1>0, <2>2
    <3>2. /\ u <= i + 2 /\ u # i + 2 /\ u \in Nat
          /\ \A j \in 1 .. i + 1 : j > i + 1 - u => queue[j].submission = queue[i + 1].submission
      <4> PICK m \in 1 .. Len(queue) : m = i + 1
        BY <3>1
      <4>1. /\ queue[m].token # NoToken /\ queue[m].submission \in Submissions
            /\ queue[m].submission # block.submission /\ u = unplayed[queue[m].submission]
        BY <1>0, <2>3, <2>5, <3>1
      <4>2. /\ u <= m + 1 /\ u # m + 1 /\ u \in Nat
            /\ \A j \in 1 .. m : j > m - u => queue[j].submission = queue[m].submission
        <5>1. u \in Nat
          BY <1>0, <4>1
        <5> QED
          BY <1>4, <4>1, <5>1
      <4> HIDE DEF u
      <4> QED
        BY <4>2
    <3>3. \A j \in 1 .. i : queue'[j] = queue[j + 1] /\ j + 1 \in 1 .. i + 1
      BY <1>0, <2>2
    <3> HIDE DEF u
    <3>4. u <= i + 1 /\ (u = i + 1 => queue[1].submission = queue[i + 1].submission)
      BY <3>2
    <3>5. \A j \in 1 .. i : j > i - u => queue[j + 1].submission = queue[i + 1].submission
      BY <3>2, <3>3
    <3> QED
      BY <2>2, <3>1, <3>3, <3>4, <3>5 DEF u
  <2> QED
    BY <1>0, <1>2, <2>1, <2>3, <2>4, <2>5 DEF Exact
<1>8. CASE Plays
  <2> DEFINE b == block.submission
  <2>1. /\ UNCHANGED <<queue, enqueues, latest>> /\ block' = NoBlock /\ block'.token = NoToken /\ block'.submission = 0
        /\ unplayed' = [unplayed EXCEPT ![b] = @ - 1] /\ b \in Submissions
    BY <1>8, Contents DEF Plays, NoBlock
  <2>2. unplayed'[b] = unplayed[b] - 1 /\ \A s \in Submissions : s # b => unplayed'[s] = unplayed[s]
    BY <1>0, <2>1
  <2>3. ASSUME NEW j \in 1 .. Len(completed) PROVE unplayed'[latest[completed[j]]] = 0
    BY <1>0, <1>2, <2>2 DEF Submissions
  <2>4. \A j \in DOMAIN completed' : unplayed'[latest'[completed'[j]]] = 0
    <3>1. CASE Ignored
      BY <1>0, <2>1, <2>3, <3>1 DEF Ignored
    <3>2. CASE Pushed
      <4>1. /\ DOMAIN completed' = 1 .. Len(completed) + 1 /\ TokenAt(0) = block.token /\ 0 \in Outstanding
            /\ completed'[Len(completed) + 1] = block.token /\ block.token # NoToken
            /\ \A j \in 1 .. Len(completed) : completed'[j] = completed[j]
        BY <3>2, OutstandingStep DEF Pushed, Outstandings
      <4>2. latest[block.token] = b
        BY <4>1 DEF Ordered, Entry
      <4>3. unplayed'[latest[block.token]] = 0
        BY <1>3, <2>2, <4>1, <4>2
      <4>4. \A j \in 1 .. Len(completed) + 1 : j \in 1 .. Len(completed) \/ j = Len(completed) + 1
        BY <1>0
      <4> QED
        BY <2>1, <2>3, <4>1, <4>3, <4>4
    <3> QED
      BY <1>1, <1>8, <3>1, <3>2, PushedToken
  <2>5. ASSUME NEW i \in 1 .. Len(queue), queue[i].token # NoToken
        PROVE  /\ unplayed'[queue[i].submission] <= i + 1
               /\ unplayed'[queue[i].submission] # i + 1
               /\ \A j \in 1 .. i : j > i - unplayed'[queue[i].submission] =>
                                      queue[j].submission = queue[i].submission
    <3> DEFINE s == queue[i].submission
    <3>1. /\ unplayed[s] <= i + 1 /\ (unplayed[s] = i + 1 => b = s) /\ unplayed[s] \in Nat /\ s \in Submissions
          /\ \A j \in 1 .. i : j > i - unplayed[s] => queue[j].submission = s
      BY <1>0, <1>4, <2>5
    <3>2. CASE s = b
      <4>1. unplayed[s] >= i + 1
        BY <1>5, <3>2
      <4>2. unplayed'[s] = i
        BY <2>2, <3>1, <3>2, <4>1
      <4>3. \A j \in 1 .. i : queue[j].submission = s
        BY <3>1, <4>1
      <4> QED
        BY <4>2, <4>3
    <3>3. CASE s # b
      <4>1. unplayed'[s] = unplayed[s]
        BY <2>2, <3>1, <3>3
      <4> QED
        BY <3>1, <3>3, <4>1
    <3> QED
      BY <3>2, <3>3
  <2>6. \A i \in DOMAIN queue' :
          queue'[i].token # NoToken =>
            /\ unplayed'[queue'[i].submission] <= i + 1
            /\ unplayed'[queue'[i].submission] = i + 1 => block'.submission = queue'[i].submission
            /\ \A j \in 1 .. i : j > i - unplayed'[queue'[i].submission] =>
                                   queue'[j].submission = queue'[i].submission
    <3>1. queue' = queue
      BY <2>1
    <3> QED
      BY <1>0, <2>5, <3>1
  <2> QED
    BY <2>1, <2>4, <2>6 DEF Exact
<1>9. CASE Discards
  <2>1. DOMAIN completed' = {} /\ DOMAIN queue' = {} /\ UNCHANGED <<block, unplayed>>
    BY <1>9 DEF Discards
  <2> QED
    BY <1>3, <2>1 DEF Exact
<1>10. ASSUME NEW h \in Headers, Delivers(h) PROVE Exact'
  <2>1. UNCHANGED <<queue, block, unplayed, latest>>
    BY <1>10 DEF Delivers
  <2>2. /\ Len(completed) >= 1 /\ Len(completed') = Len(completed) - 1 /\ completed' \in Seq(Tokens)
        /\ \A i \in 1 .. Len(completed') : completed'[i] = completed[i + 1]
    BY <1>10, DeliveredToken
  <2>3. DOMAIN completed' = 1 .. Len(completed')
    BY <2>2
  <2>4. ASSUME NEW j \in 1 .. Len(completed') PROVE unplayed[latest[completed'[j]]] = 0
    <3>1. completed'[j] = completed[j + 1]
      BY <2>2
    <3>2. j + 1 \in 1 .. Len(completed)
      BY <1>0, <2>2
    <3> QED
      BY <1>2, <3>1, <3>2
  <2> QED
    BY <1>0, <1>3, <1>4, <2>1, <2>3, <2>4 DEF Exact
<1>11. ASSUME NEW h \in Headers, NEW n \in 0 .. MaxBlocks, Writes(h, n) PROVE Exact'
  <2> PICK k : k = Len(queue) + n
    OBVIOUS
  <2> DEFINE e == enqueues + 1
  <2>1. /\ ~Inq(h) /\ UNCHANGED <<completed, block>>
        /\ e \in Submissions /\ latest' = [latest EXCEPT ![h] = e] /\ unplayed' = [unplayed EXCEPT ![e] = n]
    BY <1>0, <1>11 DEF Writes, Submissions
  <2>2. /\ Len(queue') = k /\ queue' \in Seq(Block) /\ n \in Nat /\ n > 0
        /\ \A i \in 1 .. Len(queue) : queue'[i] = queue[i]
        /\ \A i \in Len(queue) + 1 .. k :
             /\ queue'[i].token = IF i = k THEN h ELSE NoToken
             /\ queue'[i].submission = e
    BY <1>11, QueuedBlocks, AudioAssumption
  <2>3. DOMAIN queue' = 1 .. k /\ \A i \in 1 .. k : i \in 1 .. Len(queue) \/ i \in Len(queue) + 1 .. k
    BY <1>0, <2>2
  <2>4. \A j \in 1 .. Len(completed) : completed[j] # h
    BY <1>0, <2>1 DEF Once
  <2>5. unplayed'[e] = n /\ \A s \in 1 .. enqueues : s \in Submissions /\ unplayed'[s] = unplayed[s]
    BY <1>0, <2>1 DEF Submissions
  <2>6. \A j \in 1 .. Len(completed) : unplayed'[latest'[completed[j]]] = 0
    BY <1>0, <1>2, <2>1, <2>4, <2>5
  <2>7. block.token # NoToken => unplayed'[block.submission] = 1
    <3>1. block.token # NoToken => block.submission \in 1 .. enqueues
      BY <1>0, Contents DEF Submissions, NoBlock
    <3> QED
      BY <1>3, <2>5, <3>1
  <2>8. ASSUME NEW i \in 1 .. k, queue'[i].token # NoToken
        PROVE  /\ unplayed'[queue'[i].submission] <= i + 1
               /\ unplayed'[queue'[i].submission] = i + 1 => block.submission = queue'[i].submission
               /\ \A j \in 1 .. i : j > i - unplayed'[queue'[i].submission] =>
                                      queue'[j].submission = queue'[i].submission
    <3>1. CASE i \in 1 .. Len(queue)
      <4>1. queue'[i] = queue[i] /\ \A j \in 1 .. i : queue'[j] = queue[j]
        BY <1>0, <2>2, <3>1
      <4>2. unplayed'[queue[i].submission] = unplayed[queue[i].submission]
        BY <1>0, <2>5, <3>1
      <4> QED
        BY <1>4, <2>8, <3>1, <4>1, <4>2
    <3>2. CASE i \in Len(queue) + 1 .. k
      <4>0. \A j \in 1 .. k : j > k - n => j \in Len(queue) + 1 .. k
        BY <1>0, <2>2
      <4>1. i = k /\ queue'[i].submission = e
        BY <2>2, <2>8, <3>2
      <4>2. \A j \in 1 .. k : j > k - n => queue'[j].submission = e
        BY <2>2, <4>0
      <4>3. n <= k + 1 /\ n # k + 1
        BY <1>0, <2>2
      <4> QED
        BY <2>5, <4>1, <4>2, <4>3
    <3> QED
      BY <2>3, <3>1, <3>2
  <2> QED
    BY <1>0, <2>1, <2>3, <2>6, <2>7, <2>8 DEF Exact
<1> QED
  BY <1>1, <1>6, <1>7, <1>8, <1>9, <1>10, <1>11, Steps

\* Nothing is queued at the start.
LEMMA PlayInvStart == Init => PlayInv
<1> SUFFICES ASSUME Init PROVE PlayInv
  OBVIOUS
<1>1. TokenInv
  BY TokenInvStart
<1>2. Outstanding = {}
  BY <1>1, OutstandingAre DEF TokenInv, Outstandings, Init, AudioInit, NoBlock
<1> QED
  BY <1>1, <1>2 DEF PlayInv, Ordered, Exact, Init, AudioInit, NoBlock

\* Order and counts are inductive with the places of the tokens.
LEMMA PlayInvStep ==
  ASSUME PlayInv, [Next]_vars, GuestRewrites = FALSE
  PROVE  PlayInv'
  BY TokenInvStep, OrderedStep, ExactStep DEF PlayInv, TokenInv

\* The pump gives back a header only when the device has consumed every block
\* of its last write, and before any header written after it.
THEOREM DoneAlwaysMeansPlayed ==
  ASSUME GuestRewrites = FALSE
  PROVE  Spec => DoneMeansPlayed
<1>1. Init => PlayInv
  BY PlayInvStart
<1>2. PlayInv /\ [Next]_vars => PlayInv'
  BY PlayInvStep
<1>3. ASSUME PlayInv, [Next]_vars, NEW h \in Headers, Inq(h), ~Inq(h)', turn = "pump"
      PROVE  /\ unplayed[latest[h]] = 0
             /\ \A g \in headers : Inq(g)' => latest[g] > latest[h]
  <2>0. /\ TypeInv /\ Once /\ DOMAIN completed = 1 .. Len(completed) /\ Len(completed) \in Nat
        /\ DOMAIN queue = 1 .. Len(queue)
    BY <1>3, Contents DEF PlayInv, TokenInv
  <2>1. ~stopping /\ headers \subseteq Headers
    BY <1>3, <2>0 DEF TypeInv, Turns, TypeOK
  <2>2. Delivers(h)
    <3>1. ~Still /\ ~Takes /\ ~Plays /\ ~Drops
      BY <1>3, <2>0, MarksStep DEF Still
    <3>2. ~Discards
      BY <1>3 DEF Discards, Inq
    <3>3. \A g \in Headers, n \in 0 .. MaxBlocks : ~Writes(g, n)
      BY <1>3, <2>0, MarksStep
    <3>4. \A g \in Headers : Delivers(g) => g = h
      BY <1>3, <2>0, MarksStep
    <3> QED
      BY <1>3, <2>0, <3>1, <3>2, <3>3, <3>4, Steps
  <2>3. h = completed[1] /\ 1 \in DOMAIN completed /\ workerError = "ok"
    <3>1. Len(completed) >= 1 /\ h = completed[1] /\ workerError = "ok"
      BY <2>0, <2>2, DeliveredToken DEF Delivers
    <3> QED
      BY <2>0, <3>1
  <2>4. unplayed[latest[h]] = 0
    BY <1>3, <2>3 DEF PlayInv, Exact
  <2>5. ASSUME NEW g \in headers, Inq(g)' PROVE latest[g] > latest[h]
    <3>1. Inq(g) /\ g # h /\ g \in Headers
      BY <1>3, <2>0, <2>1, <2>2, <2>5, MarksStep
    <3>2. Somewhere(g)
      BY <1>3, <2>1, <2>3, <3>1 DEF PlayInv, TokenInv, Accounted
    <3>3. latest \in [Headers -> 0 .. MaxSubmits] /\ MaxSubmits \in Nat /\ h \in Headers
      BY <1>3, <2>0, AudioAssumption DEF TypeInv, TypeOK
    <3>4. latest[h] < latest[g]
      <4>1. CASE \E i \in Outstanding : TokenAt(i) = g
        <5> PICK i \in Outstanding : TokenAt(i) = g
          BY <4>1
        <5>1. latest[g] = Entry(i).submission /\ (i = 0 \/ i \in DOMAIN queue)
          BY <1>3, <2>0, OutstandingAre DEF PlayInv, Ordered, Outstandings
        <5>2. CASE i = 0
          BY <1>3, <2>3, <5>1, <5>2 DEF PlayInv, Ordered, Entry
        <5>3. CASE i \in DOMAIN queue
          <6>1. i # 0
            BY <2>0, <5>3
          <6> QED
            BY <1>3, <2>3, <5>1, <5>3, <6>1 DEF PlayInv, Ordered, Entry
        <5> QED
          BY <5>1, <5>2, <5>3
      <4>2. CASE \E j \in DOMAIN completed : completed[j] = g
        <5> PICK j \in DOMAIN completed : completed[j] = g
          BY <4>2
        <5>1. 1 \in 1 .. j - 1
          BY <2>0, <2>3, <3>1
        <5> QED
          BY <1>3, <2>3, <5>1 DEF PlayInv, Ordered
      <4> QED
        BY <3>2, <4>1, <4>2 DEF Somewhere
    <3> QED
      BY <3>3, <3>4
  <2> QED
    BY <2>4, <2>5
<1>4. PlayInv /\ [Next]_vars =>
        [\A h \in Headers :
           "inqueue" \in flags[h] /\ "inqueue" \notin flags'[h] /\ turn = "pump" =>
             /\ unplayed[latest[h]] = 0
             /\ \A g \in headers : "inqueue" \in flags'[g] => latest[g] > latest[h]]_vars
  BY <1>3 DEF Inq
<1> QED
  BY <1>1, <1>2, <1>4, PTL DEF Spec, DoneMeansPlayed

=============================================================================
