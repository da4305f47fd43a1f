------------------------------ MODULE AgcStage ------------------------------
(***************************************************************************)
(* The native AGC titles of src/legacy: a process acquires the GPU module, *)
(* a command arena, VideoOut and the buffers it draws into, hands command  *)
(* buffers with a flip to the GPU, waits for the ownership fence and then  *)
(* for the flip's event, scrubs, and gives everything back.  A failure     *)
(* before the first flip is built undoes the acquisitions; one after it    *)
(* "parks": the process keeps all it holds and waits forever, because the  *)
(* GPU and the display may still be using it.                              *)
(*                                                                         *)
(* stage_b_main.cpp is one source for several titles, chosen by macros.    *)
(* The builds told apart here: "B" flips a buffer the CPU filled, "C"      *)
(* (stage_c_main.cpp) fills memory and never flips, "D" fills a buffer and *)
(* flips it, "E" flips a recovery buffer first and then draws, "I" draws   *)
(* Frames frames in two slots.  What is drawn is left out.                 *)
(***************************************************************************)
EXTENDS Naturals, Sequences, SequencesExt

CONSTANTS
    Builds,      \* the builds launched
    Frames,      \* frames of the "I" build (bound)
    EarlyExit    \* TRUE: the watchdog may fire in "E" before it is armed but
                 \* after a flip was built

ASSUME AgcStageAssumption ==
    /\ Builds \subseteq {"B", "C", "D", "E", "I"}
    /\ Frames \in Nat \ {0}
    /\ EarlyExit \in BOOLEAN

VARIABLES
    build,       \* the title that runs
    at,          \* where main() is
    next,        \* the acquisitions made
    holding,     \* Resources: what is to be given back
    armed,       \* g_transaction_possible
    built,       \* SetFlips built
    sent,        \* command buffers handed to the driver
    retired,     \* command buffers whose waits have ended
    fences,      \* slot -> the ownership fence, 1 until the GPU is done
    sample,      \* the fence value a poll has read
    deferred,    \* the buffers could not be unregistered before the close
    gpu,         \* the command buffers the GPU has not finished
    gpuFlipped,  \* the head of gpu has queued its flip
    pending,     \* VideoOut: flips waiting for a vertical blank
    onScreen,    \* VideoOut: the slot on the screen, or NoSlot
    events,      \* VideoOut: completed flips the title has not read
    faulty       \* history: a call failed, a deadline or the alarm expired

stageVars == <<build, at, next, holding, armed, built, sent, retired, fences,
               sample, deferred, gpu, gpuFlipped, pending, onScreen, events,
               faulty>>
stageCpu == <<next, holding, armed, built, sent, retired, fences, sample, deferred>>
hardware == <<gpu, gpuFlipped, pending, onScreen, events>>

NoSlot == 2
FrameSlot(n) == n % 2

Command == <<"command_reserve", "command_allocate", "command_map">>
Data == <<"data_reserve", "data_allocate", "data_map">>
Framebuffer == <<"framebuffer_allocate", "framebuffer_map">>
Shader == <<"shader_allocate", "shader_map">>
Depth == <<"depth_allocate", "depth_map">>

(* The calls main() makes before the transaction, in order.                *)
Acquisitions(b) ==
    <<"agc", "agc_init">> \o Command \o
    IF b = "C" THEN Data
    ELSE <<"video", "equeue", "event", "flip_rate">> \o Framebuffer \o <<"buffers">>
         \o (IF b \in {"E", "I"} THEN Shader \o <<"shaders">> ELSE <<>>)
         \o (IF b = "I" THEN Depth \o <<"depth_state">> ELSE <<>>)

(* Calls that leave nothing to give back.                                  *)
Momentary == {"agc_init", "flip_rate", "shaders", "depth_state"}

(* The order cleanup_resources() and cleanup_all() give things back in.    *)
ReleaseOrder(b) ==
    (IF b = "C" THEN Reverse(Data)
     ELSE <<"buffers", "event", "equeue", "video">>
          \o Reverse(Framebuffer) \o Reverse(Depth) \o Reverse(Shader))
    \o Reverse(Command) \o <<"agc">>

Resources(b) == ToSet(Acquisitions(b)) \ Momentary
Total(b) == CASE b = "I" -> Frames [] b = "E" -> 2 [] OTHER -> 1
InFlight(b) == IF b = "I" THEN 2 ELSE 1
Flips == build # "C"

StageInit ==
    /\ build \in Builds
    /\ at = "acquire"
    /\ next = 0
    /\ holding = {}
    /\ armed = FALSE
    /\ built = 0 /\ sent = 0 /\ retired = 0
    /\ fences = [s \in {0, 1} |-> 0]
    /\ sample = 0
    /\ deferred = FALSE
    /\ gpu = <<>> /\ gpuFlipped = FALSE /\ pending = <<>> /\ events = <<>>
    /\ onScreen = NoSlot
    /\ faulty = FALSE

Park == at' = "parked"

(***************************************************************************)
(* Acquisition and the clean failure before a transaction.                 *)
(***************************************************************************)
StageAcquire ==
    /\ at = "acquire"
    /\ LET calls == Acquisitions(build) IN
       /\ holding' = holding \cup ({calls[next + 1]} \ Momentary)
       /\ next' = next + 1
       /\ at' = IF next + 1 = Len(calls) THEN "turn" ELSE "acquire"
    /\ UNCHANGED <<build, armed, built, sent, retired, fences, sample, deferred,
                   hardware, faulty>>

(* A BatchMap that failed may have mapped; every other failure is clean.   *)
StageAcquireFails ==
    /\ at = "acquire"
    /\ LET call == Acquisitions(build)[next + 1] IN
       at' = IF call \in {"command_map"} \cup ({"data_map"} \cap Resources(build))
             THEN "parked" ELSE "release"
    /\ faulty' = TRUE
    /\ UNCHANGED <<build, stageCpu, hardware>>

(***************************************************************************)
(* One command buffer: build it, hand it over, wait for it.                *)
(***************************************************************************)
MayCompose == sent < Total(build) /\ sent - retired < InFlight(build)

(* "I" and "B", "D" mark the transaction before the builder runs, "E" only *)
(* just before its last submission, "C" has no builder.                    *)
Compose ==
    /\ at = "turn" /\ MayCompose
    /\ fences' = [fences EXCEPT ![FrameSlot(sent)] = 1]
    /\ built' = IF Flips THEN built + 1 ELSE built
    /\ armed' = (armed \/ build # "E")
    /\ at' = "submit"
    /\ UNCHANGED <<build, next, holding, sent, retired, sample, deferred, hardware,
                   faulty>>

(* The drawing commands did not fit: nothing was built for this buffer.    *)
DrawFails ==
    /\ at = "turn" /\ MayCompose
    /\ build = "I" \/ (build = "E" /\ sent = 1)
    /\ at' = IF build = "I" /\ sent = 0 THEN "release" ELSE "parked"
    /\ faulty' = TRUE
    /\ UNCHANGED <<build, stageCpu, hardware>>

(* SetFlip was refused after it had reserved its flip.                     *)
BuilderFails ==
    /\ at = "turn" /\ MayCompose /\ Flips
    /\ fences' = [fences EXCEPT ![FrameSlot(sent)] = 1]
    /\ built' = built + 1
    /\ armed' = (armed \/ build # "E")
    /\ Park
    /\ faulty' = TRUE
    /\ UNCHANGED <<build, next, holding, sent, retired, sample, deferred, hardware>>

(* "E" marks the transaction only before its last submission.              *)
Arms == armed \/ build # "E" \/ sent = 1

SubmitDcb ==
    /\ at = "submit"
    /\ gpu' = Append(gpu, sent)
    /\ sent' = sent + 1
    /\ armed' = Arms
    /\ at' = "turn"
    /\ UNCHANGED <<build, next, holding, built, retired, fences, sample, deferred,
                   gpuFlipped, pending, onScreen, events, faulty>>

(* A submission that reports failure may have reached the GPU.             *)
SubmitFails ==
    /\ at = "submit"
    /\ gpu' \in {gpu, Append(gpu, sent)}
    /\ armed' = Arms
    /\ Park
    /\ faulty' = TRUE
    /\ UNCHANGED <<build, next, holding, built, sent, retired, fences, sample,
                   deferred, gpuFlipped, pending, onScreen, events>>

(* A bug the wait is there to exclude: reading the event without waiting   *)
(* for the fence.                                                          *)
MFenceZero ==
    /\ at = "turn" /\ retired < sent
    /\ at' = IF build \in {"B", "I"} \/ sent < Total(build) THEN "poll"
             ELSE "check"
    /\ UNCHANGED <<build, stageCpu, hardware, faulty>>

(* The frame runner of "I" may wait for the oldest frame before it composes*)
(* the next; the others compose one buffer at a time.                      *)
FenceZero ==
    /\ at = "turn" /\ retired < sent
    /\ fences[FrameSlot(retired)] = 0
    /\ at' = IF build \in {"B", "I"} \/ sent < Total(build) THEN "poll"
             ELSE "check"
    /\ UNCHANGED <<build, stageCpu, hardware, faulty>>

(* The target, the guards around it or the recovery buffer may not hold    *)
(* what the title expects.                                                 *)
Check(ok) ==
    /\ at = "check"
    /\ at' = IF ~ok THEN "parked"
             ELSE IF build \in {"C", "I"} THEN "scrub" ELSE "poll"
    /\ retired' = IF ok /\ build = "C" THEN retired + 1 ELSE retired
    /\ faulty' = (faulty \/ ~ok)
    /\ UNCHANGED <<build, next, holding, armed, built, sent, fences, sample,
                   deferred, hardware>>

(* stage_b_poll_videoout_completion() reads the fence before it waits.      *)
PollFence ==
    /\ at = "poll"
    /\ sample' = fences[FrameSlot(retired)]
    /\ at' = "event"
    /\ UNCHANGED <<build, next, holding, armed, built, sent, retired, fences,
                   deferred, hardware, faulty>>

AfterPoll == IF retired + 1 < Total(build) THEN "turn"
             ELSE IF build = "I" THEN "check" ELSE "scrub"

PollEvent ==
    /\ at = "event" /\ events # <<>>
    /\ events' = Tail(events)
    /\ IF sample = 0 /\ Head(events) = retired
       THEN at' = AfterPoll /\ retired' = retired + 1
       ELSE Park /\ retired' = retired
    /\ UNCHANGED <<build, next, holding, armed, built, sent, fences, sample,
                   deferred, gpu, gpuFlipped, pending, onScreen, faulty>>

(* The wait timed out without an event and the deadline has not passed.    *)
PollAgain ==
    /\ at = "event" /\ events = <<>>
    /\ at' = "poll"
    /\ UNCHANGED <<build, stageCpu, hardware, faulty>>

(* Two seconds without the fence or the event, or an event that cannot be   *)
(* decoded.                                                                *)
WaitFails ==
    /\ \/ at = "turn" /\ retired < sent
       \/ at = "event"
    /\ Park
    /\ faulty' = TRUE
    /\ UNCHANGED <<build, stageCpu, hardware>>

Scrub ==
    /\ at = "scrub"
    /\ at' = "release"
    /\ UNCHANGED <<build, stageCpu, hardware, faulty>>

(***************************************************************************)
(* Giving back: cleanup_resources() stops at the first refusal.            *)
(***************************************************************************)
Owes(r) == r \in holding /\ ~(r = "buffers" /\ deferred)
Owed == SelectInSeq(ReleaseOrder(build), Owes)       \* 0 if nothing is
Due == ReleaseOrder(build)[Owed]

ReleaseNext ==
    /\ at = "release" /\ Owed # 0
    /\ holding' = holding \ ({Due} \cup (IF Due = "video" THEN {"buffers"} ELSE {}))
    /\ onScreen' = IF Due = "video" THEN NoSlot ELSE onScreen
    /\ UNCHANGED <<build, at, next, armed, built, sent, retired, fences, sample,
                   deferred, gpu, gpuFlipped, pending, events, faulty>>

(* The set on the screen stays busy until VideoOut is closed.              *)
UnregisterBusy ==
    /\ at = "release" /\ Owed # 0 /\ Due = "buffers"
    /\ onScreen # NoSlot
    /\ deferred' = TRUE
    /\ UNCHANGED <<build, at, next, holding, armed, built, sent, retired, fences,
                   sample, hardware, faulty>>

ReleaseFails ==
    /\ at = "release" /\ Owed # 0
    /\ Park
    /\ faulty' = TRUE
    /\ UNCHANGED <<build, stageCpu, hardware>>

StageEnds ==
    /\ at = "release" /\ Owed = 0
    /\ at' = IF armed /\ build # "C" THEN "complete" ELSE "parked_safe"
    /\ armed' = FALSE
    /\ UNCHANGED <<build, next, holding, built, sent, retired, fences, sample,
                   deferred, hardware, faulty>>

Ended == at \in {"parked", "parked_safe", "complete", "killed"}

(***************************************************************************)
(* The hardware: the flip is queued before the fence is written, so the     *)
(* event can come before the fence is zero.                                *)
(***************************************************************************)
GpuFlip ==
    /\ gpu # <<>> /\ ~gpuFlipped
    /\ gpuFlipped' = TRUE
    /\ pending' = IF Flips THEN Append(pending, Head(gpu)) ELSE pending
    /\ UNCHANGED <<build, at, stageCpu, gpu, onScreen, events, faulty>>

GpuFence ==
    /\ gpu # <<>> /\ gpuFlipped
    /\ fences' = [fences EXCEPT ![FrameSlot(Head(gpu))] = 0]
    /\ gpu' = Tail(gpu)
    /\ gpuFlipped' = FALSE
    /\ UNCHANGED <<build, at, next, holding, armed, built, sent, retired, sample,
                   deferred, pending, onScreen, events, faulty>>

Blank ==
    /\ pending # <<>>
    /\ onScreen' = FrameSlot(Head(pending))
    /\ events' = Append(events, Head(pending))
    /\ pending' = Tail(pending)
    /\ UNCHANGED <<build, at, stageCpu, gpu, gpuFlipped, faulty>>

(* What the hardware may still use.                                        *)
HardwareBusy == built > sent \/ gpu # <<>> \/ pending # <<>>

(* The alarm, or a fault signal.                                           *)
Watchdog ==
    /\ ~Ended
    /\ armed \/ EarlyExit \/ ~HardwareBusy
    /\ at' = IF armed THEN "parked" ELSE "killed"
    /\ faulty' = TRUE
    /\ UNCHANGED <<build, stageCpu, hardware>>

StageNext ==
    \/ StageAcquire
    \/ StageAcquireFails
    \/ Compose
    \/ DrawFails
    \/ BuilderFails
    \/ SubmitDcb
    \/ SubmitFails
    \/ FenceZero
    \/ \E ok \in BOOLEAN : Check(ok)
    \/ PollFence
    \/ PollEvent
    \/ PollAgain
    \/ WaitFails
    \/ Scrub
    \/ ReleaseNext
    \/ UnregisterBusy
    \/ ReleaseFails
    \/ StageEnds
    \/ GpuFlip
    \/ GpuFence
    \/ Blank
    \/ Watchdog

StageSpec == StageInit /\ [][StageNext]_stageVars

(***************************************************************************)
(* Properties                                                              *)
(***************************************************************************)
(* The counters stay in their order and only known resources are held.     *)
StageTypeOK ==
    /\ build \in Builds
    /\ holding \subseteq Resources(build)
    /\ retired <= sent /\ sent <= Total(build)
    /\ built \in {0} \cup (sent .. sent + 1)
    /\ armed \in BOOLEAN /\ faulty \in BOOLEAN /\ deferred \in BOOLEAN
    /\ onScreen \in {0, 1, NoSlot}
    /\ sample \in {0, 1} /\ fences \in [{0, 1} -> {0, 1}]

(* A flip that was built, a command buffer the GPU has or a flip that      *)
(* waits for the screen finds everything still held by a living process.   *)
Retained == HardwareBusy => at \notin {"killed", "complete", "parked_safe"}
                     /\ holding = Resources(build)

(* The screen never scans out a buffer that is no longer mapped.           *)
ScreenMapped ==
    onScreen # NoSlot /\ at # "killed" => "framebuffer_map" \in holding

(* A run in which no call fails and no deadline passes never parks, in     *)
(* whatever order fences and event arrive; and a title that says it is     *)
(* complete or clean holds nothing.                                        *)
EndsWell ==
    /\ at = "parked" => faulty
    /\ at \in {"complete", "parked_safe"} => holding = {}

StageSound == Retained /\ ScreenMapped /\ EndsWell
=============================================================================
