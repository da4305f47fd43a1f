------------------------------- MODULE WaveOut -------------------------------
(***************************************************************************)
(* The guest thread of projects/prospero-win against the audio worker: the  *)
(* WinMM adapter (waveout_dispatch and pw_win32_pump_audio of               *)
(* src/pw_win32.c), the loop of native/runtime_main.c that alternates       *)
(* between draining completions and one guest call, and its teardown.       *)
(*                                                                          *)
(* A call that returns an error other than a Win32 result aborts the        *)
(* runtime (abort_runtime).  The guest calls the API in any order, with one *)
(* promise unless GuestRewrites: it does not write a header still queued.   *)
(***************************************************************************)
EXTENDS AudioPs5, FiniteSets

CONSTANTS HeaderSlots,    \* PwWaveOut.headers
          MessageSlots,   \* PW_USER32_QUEUE_CAPACITY
          GuestRewrites,  \* whether the guest writes a header that is queued
          ClosesPrepared  \* whether it closes the device with headers prepared

ASSUME WaveAssumption ==
  /\ HeaderSlots \in Nat \ {0} /\ MessageSlots \in Nat
  /\ GuestRewrites \in BOOLEAN /\ ClosesPrepared \in BOOLEAN

VARIABLES
  isOpen,      \* wave_out.open
  isPaused,    \* wave_out.paused
  callback,    \* whether the device was opened with CALLBACK_WINDOW
  headers,     \* wave_out.headers
  flags,       \* dwFlags of each WAVEHDR, in guest memory
  latest,      \* submission that last wrote each header
  messages,    \* WOM_DONE messages in the guest's queue
  turn,        \* "pump", "guest", or the call the guest thread is inside
  aborted

waveVars == <<isOpen, isPaused, callback, headers>>
guestVars == <<flags, latest, messages>>
vars == <<audioVars, waveVars, guestVars, turn, aborted>>

Headers == Tokens
Results == {"ok", "state", "limit", "not_found"}

Init ==
  /\ AudioInit
  /\ isOpen = FALSE /\ isPaused = FALSE /\ callback = FALSE /\ headers = {}
  /\ flags = [h \in Headers |-> {}] /\ latest = [h \in Headers |-> 0]
  /\ messages = <<>>
  /\ turn = "pump" /\ aborted = FALSE

Abort == /\ aborted' = TRUE /\ UNCHANGED turn
EndCall == turn' = "pump" /\ UNCHANGED aborted

-----------------------------------------------------------------------------
(* pw_win32_pump_audio: polls until the ring is empty *)

Pumping == turn = "pump" /\ ~aborted

PumpFails ==
  /\ Pumping
  /\ \E result \in {"state", "limit"} : Poll(NoToken, result)
  /\ Abort
  /\ UNCHANGED <<waveVars, guestVars>>

PumpEmpty ==
  /\ Pumping /\ Poll(NoToken, "not_found")
  /\ turn' = "guest"
  /\ UNCHANGED <<waveVars, guestVars, aborted>>

\* The header is given back to the guest, whose window is told.
GivenBack(h) ==
  /\ flags' = [flags EXCEPT ![h] = (@ \cup {"done"}) \ {"inqueue"}]
  /\ \/ UNCHANGED <<messages, turn, aborted>>  \* no window to tell, or it is gone
     \/ /\ callback /\ Len(messages) < MessageSlots
        /\ messages' = Append(messages, h)
        /\ UNCHANGED <<turn, aborted>>
     \/ callback /\ Len(messages) = MessageSlots /\ Abort /\ UNCHANGED messages

\* A token that names no prepared header, or one not in the queue, is fatal.
PumpDelivers(h) ==
  /\ Pumping /\ Poll(h, "ok")
  /\ IF h \in headers /\ "inqueue" \in flags[h]
     THEN GivenBack(h)
     ELSE Abort /\ UNCHANGED <<flags, messages>>
  /\ UNCHANGED <<waveVars, latest>>

-----------------------------------------------------------------------------
(* waveout_dispatch, one call of the guest *)

Calling == turn = "guest" /\ ~aborted

\* A call that touches nothing here, or is refused by the adapter's checks.
OtherCall ==
  /\ Calling /\ EndCall
  /\ UNCHANGED <<audioVars, waveVars, guestVars>>

ReadMessage ==
  /\ Calling /\ messages # <<>>
  /\ messages' = Tail(messages) /\ EndCall
  /\ UNCHANGED <<audioVars, waveVars, flags, latest>>

WaveOpen ==
  /\ Calling /\ ~isOpen
  /\ \/ /\ Open("ok")
        /\ isOpen' = TRUE /\ isPaused' = FALSE /\ headers' = {}
        /\ callback' \in BOOLEAN
        /\ EndCall
     \/ Open("state") /\ Abort /\ UNCHANGED waveVars
  /\ UNCHANGED guestVars

Prepare(h) ==
  /\ Calling /\ isOpen
  /\ IF h \notin headers /\ Cardinality(headers) = HeaderSlots
     THEN Abort /\ UNCHANGED <<headers, flags>>
     ELSE /\ headers' = headers \cup {h}
          /\ flags' = [flags EXCEPT ![h] = @ \cup {"prepared"}]
          /\ EndCall
  /\ UNCHANGED <<audioVars, isOpen, isPaused, callback, latest, messages>>

Unprepare(h) ==
  /\ Calling /\ isOpen /\ h \in headers /\ "prepared" \in flags[h]
  /\ "inqueue" \notin flags[h]  \* else WAVERR_STILLPLAYING
  /\ headers' = headers \ {h}
  /\ flags' = [flags EXCEPT ![h] = @ \ {"prepared"}]
  /\ EndCall
  /\ UNCHANGED <<audioVars, isOpen, isPaused, callback, latest, messages>>

Write(h, n) ==
  /\ Calling /\ isOpen /\ h \in headers /\ "prepared" \in flags[h] /\ ~isPaused
  /\ GuestRewrites \/ "inqueue" \notin flags[h]
  /\ \/ /\ Submit(h, n, "ok")
        /\ flags' = [flags EXCEPT ![h] = (@ \cup {"inqueue"}) \ {"done"}]
        /\ latest' = [latest EXCEPT ![h] = enqueues']
        /\ EndCall
     \/ Submit(h, n, "limit") /\ EndCall /\ UNCHANGED <<flags, latest>>
     \/ Submit(h, n, "state") /\ Abort /\ UNCHANGED <<flags, latest>>
  /\ UNCHANGED <<waveVars, messages>>

\* Any control call the backend refuses aborts the runtime.
ControlFails ==
  /\ Calling /\ isOpen
  /\ \/ ~opened
     \/ Busy /\ (ClosesPrepared \/ headers = {})  \* waveOutClose
  /\ Abort
  /\ UNCHANGED <<audioVars, waveVars, guestVars>>

PauseOrRestart(value) ==
  /\ Calling /\ isOpen /\ SetPaused(value)
  /\ isPaused' = value
  /\ EndCall
  /\ UNCHANGED <<isOpen, callback, headers, guestVars>>

ResetFlags == [h \in Headers |-> IF h \in headers
                                 THEN (flags[h] \cup {"done"}) \ {"inqueue"}
                                 ELSE flags[h]]

WaveReset ==
  /\ Calling /\ isOpen /\ Reset
  /\ isPaused' = FALSE /\ flags' = ResetFlags
  /\ EndCall
  /\ UNCHANGED <<isOpen, callback, headers, latest, messages>>

CloseStarts ==
  /\ Calling /\ isOpen /\ (ClosesPrepared \/ headers = {})
  /\ CloseBegins
  /\ turn' = "closing"
  /\ UNCHANGED <<waveVars, guestVars, aborted>>

\* Seeded bug: wave_out stays open.
ForgottenFormat == isPaused' = FALSE /\ callback' = FALSE /\ UNCHANGED <<isOpen, headers>>
Forgotten == /\ isOpen' = FALSE /\ isPaused' = FALSE /\ callback' = FALSE
             /\ headers' = {}

\* The backend is closed before the headers are looked at: with one still
\* prepared the guest is told WAVERR_STILLPLAYING and wave_out stays open.
CloseReturns ==
  /\ turn = "closing" /\ ~aborted
  /\ CloseEnds
  /\ \/ /\ EndCall
        /\ IF headers # {} THEN UNCHANGED waveVars ELSE Forgotten
     \/ Abort /\ UNCHANGED waveVars
  /\ UNCHANGED guestVars

-----------------------------------------------------------------------------
(* The end of the runtime: pw_audio_ps5_close on the guest thread *)

ExitStarts ==
  /\ Calling /\ TeardownBegins
  /\ turn' = "joining"
  /\ UNCHANGED <<waveVars, guestVars, aborted>>

ExitJoined ==
  /\ turn = "joining" /\ TeardownEnds
  /\ turn' = "ended"
  /\ UNCHANGED <<waveVars, guestVars, aborted>>

Worker ==
  /\ ~aborted
  /\ WorkerWaits \/ WorkerTakes \/ WorkerExits \/ WorkerPlayed \/ WorkerOutputFails
  /\ UNCHANGED <<waveVars, guestVars, turn, aborted>>

WorkerWakes ==
  /\ ~aborted /\ WorkerSpurious
  /\ UNCHANGED <<waveVars, guestVars, turn, aborted>>

Pump == PumpFails \/ PumpEmpty \/ \E h \in Headers : PumpDelivers(h)

Call ==
  \/ OtherCall \/ ReadMessage \/ WaveOpen \/ ControlFails \/ WaveReset \/ CloseStarts
  \/ \E h \in Headers : \/ Prepare(h) \/ Unprepare(h)
                        \/ \E n \in 0 .. MaxBlocks : Write(h, n)
  \/ \E value \in BOOLEAN : PauseOrRestart(value)

Next == Worker \/ WorkerWakes \/ Pump \/ Call \/ CloseReturns \/ ExitStarts \/ ExitJoined

\* The threads run, sceAudioOutOutput and the calls of the guest return.
Fairness == WF_vars(Worker) /\ WF_vars(Pump) /\ WF_vars(Call)
            /\ WF_vars(CloseReturns) /\ WF_vars(ExitJoined)

Spec == Init /\ [][Next]_vars /\ Fairness

-----------------------------------------------------------------------------
(* Properties *)

\* Every variable has the type its C declaration gives it.
TypeOK ==
  /\ opened \in BOOLEAN /\ paused \in BOOLEAN /\ stopping \in BOOLEAN
  /\ workerError \in {"ok", "state", "limit"}
  /\ generation \in 1 .. MaxGeneration
  /\ queue \in Seq(Block) /\ Len(queue) <= QueueBlocks
  /\ completed \in Seq(Tokens) /\ Len(completed) <= CompletionSlots
  /\ worker \in {"waiting", "awake", "output", "exited"}
  /\ block \in Block \cup {NoBlock}
  /\ device \in {"open", "closed"}
  /\ enqueues \in 0 .. MaxSubmits /\ unplayed \in [Submissions -> 0 .. MaxBlocks]
  /\ isOpen \in BOOLEAN /\ isPaused \in BOOLEAN /\ callback \in BOOLEAN
  /\ headers \subseteq Headers /\ Cardinality(headers) <= HeaderSlots
  /\ flags \in [Headers -> SUBSET {"prepared", "inqueue", "done"}]
  /\ latest \in [Headers -> 0 .. MaxSubmits]
  /\ messages \in Seq(Headers) /\ Len(messages) <= MessageSlots
  /\ turn \in {"pump", "guest", "closing", "joining", "ended"}
  /\ aborted \in BOOLEAN

\* Blocks the backend still has to play for the current generation.
Outstanding ==
  {i \in 0 .. Len(queue) : LET b == IF i = 0 THEN block ELSE queue[i]
                           IN  b.generation = generation /\ b.token # NoToken}
TokenAt(i) == IF i = 0 THEN block.token ELSE queue[i].token
Held(h) == Cardinality({i \in Outstanding : TokenAt(i) = h})
           + Cardinality({i \in DOMAIN completed : completed[i] = h})

\* The flag in guest memory and the backend agree on who owns a header: while
\* the runtime is healthy, a header is marked INQUEUE exactly when its token is
\* somewhere in queue, worker or completion ring, and it is there once.
TokensAccounted ==
  workerError = "ok" /\ ~stopping /\ ~aborted =>
    \A h \in Headers : Held(h) = IF "inqueue" \in flags[h] THEN 1 ELSE 0

\* The handle is never closed under a sceAudioOutOutput call, and an open
\* backend always has its handle.
DeviceOwned == Active \/ opened => device = "open"

\* A completion never finds the ring full: it has a slot for every header that
\* can be queued, whatever resets and retries come between.
RingHasRoom ==
  HeaderSlots <= CompletionSlots /\ ~GuestRewrites => workerError # "limit"

\* "A nonzero token is returned exactly once by audio_poll after the host has
\* consumed the final sample" (src/pw_win32.h): the backend, driven by this
\* adapter and raced by its worker, implements the audio service.
Service == INSTANCE AudioService WITH
  state <- IF workerError # "ok" THEN "failed" ELSE IF opened THEN "open" ELSE "closed",
  pending <- {TokenAt(i) : i \in Outstanding},
  ready <- {completed[i] : i \in DOMAIN completed}
ServiceContract == Service!Spec

\* WHDR_DONE by the pump means played: every block of the header's last write
\* has been consumed by the device, and no earlier write is still queued.
DoneMeansPlayed ==
  [][\A h \in Headers :
       "inqueue" \in flags[h] /\ "inqueue" \notin flags'[h] /\ turn = "pump" =>
         /\ unplayed[latest[h]] = 0
         /\ \A g \in headers : "inqueue" \in flags'[g] => latest[g] > latest[h]]_vars

\* A queued buffer is given back in the end, by completion or reset, unless the
\* guest pauses the device, the runtime ends, or the guest ends it.
BuffersComplete ==
  \A h \in Headers : "inqueue" \in flags[h] ~>
    \/ "inqueue" \notin flags[h]
    \/ isPaused \/ aborted \/ stopping

\* pw_audio_ps5_close returns: the worker sees stopping from wherever it is.
TeardownFinishes == stopping ~> turn = "ended"

\* A device the adapter reports as open is open in the backend: "Pause,
\* restart, reset, queue exhaustion, worker failure and teardown are explicit
\* states" (projects/prospero-win/docs/ARCHITECTURE.md:172).
OpenMeansOpened == isOpen /\ turn \in {"pump", "guest"} /\ ~aborted => opened
=============================================================================
