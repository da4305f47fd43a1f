------------------------------ MODULE AudioPs5 ------------------------------
(***************************************************************************)
(* The asynchronous audio backend, projects/prospero-win/native/            *)
(* pw_audio_ps5.c: a bounded queue of 256-frame blocks shared, under one    *)
(* mutex and one condition variable, by the guest thread, which makes the   *)
(* API calls, and by the worker, the only caller of sceAudioOutOutput.      *)
(*                                                                          *)
(* Each action is one critical section.  The operators named after API      *)
(* calls take the result of the call as a parameter; WaveOut composes them  *)
(* with the adapter that makes the calls.                                   *)
(***************************************************************************)
EXTENDS Integers, Sequences

CONSTANTS Tokens,           \* completion tokens (guest addresses of WAVEHDRs)
          QueueBlocks,      \* PW_AUDIO_PS5_QUEUE_BLOCKS
          CompletionSlots,  \* PW_AUDIO_PS5_COMPLETIONS
          MaxBlocks,        \* bound: blocks of one submission
          MaxSubmits,       \* bound: submissions of a run
          MaxGeneration     \* bound: generations of a run

NoToken == "none"

ASSUME AudioAssumption ==
  /\ NoToken \notin Tokens
  /\ QueueBlocks \in Nat \ {0} /\ CompletionSlots \in Nat \ {0}
  /\ MaxBlocks \in Nat /\ MaxSubmits \in Nat /\ MaxGeneration \in Nat \ {0}

VARIABLES
  opened, paused, stopping, workerError, generation,
  queue,      \* blocks between queue_head and queue_head+queue_count
  completed,  \* tokens in the completion ring
  worker,     \* "waiting" on the condition, "awake", in "output", "exited"
  block,      \* the worker's copy of the block it took
  device,     \* whether the SceAudioOut handle is open
  enqueues,   \* submissions accepted
  unplayed    \* submission -> blocks of it the device has not consumed

audioVars == <<opened, paused, stopping, workerError, generation, queue,
               completed, worker, block, device, enqueues, unplayed>>

Submissions == 1 .. MaxSubmits
Block == [token : Tokens \cup {NoToken}, generation : 1 .. MaxGeneration,
          submission : Submissions]
NoBlock == [token |-> NoToken, generation |-> 0, submission |-> 0]
Active == worker = "output"

Broadcast == worker' = IF worker = "waiting" THEN "awake" ELSE worker

AudioInit ==  \* pw_audio_ps5_init has returned: its worker is on the condition
  /\ opened = FALSE /\ paused = FALSE /\ stopping = FALSE
  /\ workerError = "ok" /\ generation = 1
  /\ queue = <<>> /\ completed = <<>>
  /\ worker = "waiting" /\ block = NoBlock
  /\ device = "closed"
  /\ enqueues = 0 /\ unplayed = [s \in Submissions |-> 0]

-----------------------------------------------------------------------------
(* audio_worker *)

WorkerSpurious ==
  /\ worker = "waiting" /\ worker' = "awake"
  /\ UNCHANGED <<opened, paused, stopping, workerError, generation, queue,
                 completed, block, device, enqueues, unplayed>>

HasWork == opened /\ ~paused /\ queue # <<>>

WorkerWaits ==
  /\ worker = "awake" /\ ~stopping /\ ~HasWork
  /\ worker' = "waiting"
  /\ UNCHANGED <<opened, paused, stopping, workerError, generation, queue,
                 completed, block, device, enqueues, unplayed>>

WorkerTakes ==
  /\ worker = "awake" /\ ~stopping /\ HasWork
  /\ block' = Head(queue) /\ queue' = Tail(queue)
  /\ worker' = "output"
  /\ UNCHANGED <<opened, paused, stopping, workerError, generation,
                 completed, device, enqueues, unplayed>>

WorkerExits ==
  /\ worker = "awake" /\ stopping
  /\ worker' = "exited"
  /\ UNCHANGED <<opened, paused, stopping, workerError, generation, queue,
                 completed, block, device, enqueues, unplayed>>

\* Seeded bugs: a completion of an older generation is kept; it jumps ahead;
\* the ring is taken for full one slot early.
CompletedPushStale(b) ==
  /\ completed' = IF b.token = NoToken THEN completed ELSE Append(completed, b.token)
  /\ UNCHANGED workerError
CompletedPushFirst(b) ==
  /\ completed' = IF b.token = NoToken \/ b.generation # generation THEN completed
                  ELSE <<b.token>> \o completed
  /\ UNCHANGED workerError
CompletedPushEarlyFull(b) ==
  IF b.token = NoToken \/ b.generation # generation
  THEN UNCHANGED <<completed, workerError>>
  ELSE IF Len(completed) = CompletionSlots - 1
  THEN workerError' = "limit" /\ UNCHANGED completed
  ELSE completed' = Append(completed, b.token) /\ UNCHANGED workerError

\* completed_push, called for blocks of the current generation only.
CompletedPush(b) ==
  IF b.token = NoToken \/ b.generation # generation
  THEN UNCHANGED <<completed, workerError>>
  ELSE IF Len(completed) = CompletionSlots
  THEN workerError' = "limit" /\ UNCHANGED completed
  ELSE completed' = Append(completed, b.token) /\ UNCHANGED workerError

WorkerPlayed ==
  /\ Active
  /\ CompletedPush(block)
  /\ unplayed' = [unplayed EXCEPT ![block.submission] = @ - 1]
  /\ worker' = "awake" /\ block' = NoBlock
  /\ UNCHANGED <<opened, paused, stopping, generation, queue, device, enqueues>>

WorkerOutputFails ==
  /\ Active
  /\ workerError' = "state"
  /\ worker' = "awake" /\ block' = NoBlock
  /\ UNCHANGED <<opened, paused, stopping, generation, queue, completed,
                 device, enqueues, unplayed>>

-----------------------------------------------------------------------------
(* Calls of the guest thread *)

Open(result) ==
  \/ /\ result = "state"  \* already open, or the platform refused
     /\ UNCHANGED audioVars
  \/ /\ result = "ok" /\ ~opened
     /\ opened' = TRUE /\ paused' = FALSE /\ workerError' = "ok"
     /\ device' = "open"
     /\ Broadcast
     /\ UNCHANGED <<stopping, generation, queue, completed, block, enqueues, unplayed>>

\* Seeded bugs: queued without waking the worker; one block too many accepted.
EnqueuedSilently(blocks) == queue' = queue \o blocks /\ UNCHANGED worker
Enqueued(blocks) == queue' = queue \o blocks /\ Broadcast
FitsOneMore(n) == n > 0 /\ n <= QueueBlocks + 1 - Len(queue)
Fits(n) == n > 0 /\ n <= QueueBlocks - Len(queue)

BlocksOf(token, n) ==
  [i \in 1 .. n |-> [token |-> IF i = n THEN token ELSE NoToken,
                     generation |-> generation, submission |-> enqueues + 1]]

Submit(token, n, result) ==
  \/ /\ result = "state" /\ (~opened \/ workerError # "ok")
     /\ UNCHANGED audioVars
  \/ /\ result = "limit" /\ opened /\ workerError = "ok" /\ ~Fits(n)
     /\ UNCHANGED audioVars
  \/ /\ result = "ok" /\ opened /\ workerError = "ok" /\ Fits(n)
     /\ enqueues < MaxSubmits
     /\ Enqueued(BlocksOf(token, n))
     /\ enqueues' = enqueues + 1
     /\ unplayed' = [unplayed EXCEPT ![enqueues + 1] = n]
     /\ UNCHANGED <<opened, paused, stopping, workerError, generation,
                    completed, block, device>>

\* The error of the worker hides completions that are already in the ring.
Poll(token, result) ==
  \/ /\ result = workerError /\ workerError # "ok"
     /\ UNCHANGED audioVars
  \/ /\ result = "not_found" /\ workerError = "ok" /\ completed = <<>>
     /\ UNCHANGED audioVars
  \/ /\ result = "ok" /\ workerError = "ok" /\ completed # <<>>
     /\ token = Head(completed) /\ completed' = Tail(completed)
     /\ UNCHANGED <<opened, paused, stopping, workerError, generation, queue,
                    worker, block, device, enqueues, unplayed>>

SetPaused(value) ==
  /\ opened
  /\ paused' = value
  /\ Broadcast
  /\ UNCHANGED <<opened, stopping, workerError, generation, queue, completed,
                 block, device, enqueues, unplayed>>

\* Seeded bug: completions survive the reset.
DiscardedQueueOnly == queue' = <<>> /\ UNCHANGED completed
Discarded == queue' = <<>> /\ completed' = <<>>

Reset ==
  /\ opened /\ generation < MaxGeneration
  /\ generation' = generation + 1
  /\ Discarded
  /\ paused' = FALSE
  /\ Broadcast
  /\ UNCHANGED <<opened, stopping, workerError, block, device, enqueues, unplayed>>

\* Seeded bug: only the queue is looked at.
BusyQueueOnly == queue # <<>>
Busy == Active \/ queue # <<>>

\* PW_AUDIO_CLOSE up to its unlock; the handle is closed after it.
CloseBegins ==
  /\ opened /\ ~Busy
  /\ opened' = FALSE
  /\ UNCHANGED <<paused, stopping, workerError, generation, queue, completed,
                 worker, block, device, enqueues, unplayed>>

CloseEnds ==
  /\ device' = "closed"
  /\ UNCHANGED <<opened, paused, stopping, workerError, generation, queue,
                 completed, worker, block, enqueues, unplayed>>

\* pw_audio_ps5_close up to the join, and from the join on.
\* Seeded bug: the worker is not woken to see stopping.
StopSilently == stopping' = TRUE /\ UNCHANGED worker
Stop == stopping' = TRUE /\ Broadcast

TeardownBegins ==
  /\ ~stopping
  /\ Stop
  /\ queue' = <<>> /\ completed' = <<>>
  /\ UNCHANGED <<opened, paused, workerError, generation, block, device,
                 enqueues, unplayed>>

TeardownEnds ==
  /\ worker = "exited"
  /\ device' = IF opened THEN "closed" ELSE device
  /\ opened' = FALSE
  /\ UNCHANGED <<paused, stopping, workerError, generation, queue, completed,
                 worker, block, enqueues, unplayed>>
=============================================================================
