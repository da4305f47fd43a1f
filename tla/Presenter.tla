----------------------------- MODULE Presenter -----------------------------
(***************************************************************************)
(* A frame's way to the screen: pw_videoout_ps5_present draws it into a    *)
(* staging buffer, pw_agc_ps5_copy_flip hands the GPU a command buffer     *)
(* (wait until the scanout buffer is safe, copy, flip, fence) and waits    *)
(* for the fence.  The GPU and the display run on their own.  The clock    *)
(* that bounds the wait may run out at any time.                           *)
(***************************************************************************)
EXTENDS Integers, Sequences, FiniteSets

CONSTANT MaxFrames      \* frames in a behaviour
ASSUME PresenterAssumption == MaxFrames \in Nat

VARIABLES
    cpu,        \* the step of present
    index,      \* PwVideoOutPs5.index
    flips,      \* frames presented
    staging,    \* the frame in the staging buffer
    scan,       \* the frame in each scanout buffer
    packets,    \* the command buffer from the GPU's position on
    fence,
    flipping,   \* the buffer of the flip the display has not made yet
    shown,      \* the buffer on the screen
    frame       \* the frame that was in it when it came on the screen

frameVars == <<cpu, index, flips, staging, scan, packets, fence, flipping, shown, frame>>

Buffers == {0, 1}
None == 2      \* no buffer

FrameInit ==
    /\ cpu = "idle" /\ index = 0 /\ flips = 0 /\ staging = 0
    /\ scan = [b \in Buffers |-> 0]
    /\ packets = <<>> /\ fence = 0
    /\ flipping = None /\ shown = None /\ frame = 0

Target == 1 - index       \* index^1, the buffer this frame goes to

-----------------------------------------------------------------------------
(* The title                                                               *)

\* The background and the picture, pixel by pixel, into the staging buffer.
Draw ==
    /\ cpu = "idle" /\ flips < MaxFrames
    /\ staging' = flips + 1
    /\ cpu' = "drawn"
    /\ UNCHANGED <<index, flips, scan, packets, fence, flipping, shown, frame>>

\* copy_flip up to sceAgcDriverSubmitDcb: the command buffer is cleared, the
\* fence set, the packets written and submitted.
Submit ==
    /\ cpu = "drawn"
    /\ packets' = <<"safe", "copy", "flip", "fence">>
    /\ fence' = 1
    /\ cpu' = "submitted"
    /\ UNCHANGED <<index, flips, staging, scan, flipping, shown, frame>>

\* sceAgcSuspendPoint; the wait for the fence follows if it worked.
Suspend ==
    /\ cpu = "submitted"
    /\ cpu' = "waiting"
    /\ UNCHANGED <<index, flips, staging, scan, packets, fence, flipping, shown, frame>>

\* The last poll of the fence.
Fenced == fence = 0

WaitFence ==
    /\ cpu = "waiting" /\ Fenced
    /\ cpu' = "vblank"
    /\ UNCHANGED <<index, flips, staging, scan, packets, fence, flipping, shown, frame>>

\* sceVideoOutWaitVblank, whose result is ignored, then the bookkeeping.
WaitVblank ==
    /\ cpu = "vblank"
    /\ index' = Target /\ flips' = flips + 1
    /\ cpu' = "idle"
    /\ UNCHANGED <<staging, scan, packets, fence, flipping, shown, frame>>

\* What makes present return an error: preparing or submitting the packets is
\* refused, so is the suspend point after the GPU was given them, or the fence
\* is not seen in time.
PresentFails == cpu \in {"drawn", "submitted"} \/ (cpu = "waiting" /\ fence = 1)

-----------------------------------------------------------------------------
(* The GPU, and the display's vertical blank                               *)

Gpu ==
    /\ packets # <<>>
    /\ LET packet == Head(packets)
       IN  /\ packet = "safe" => Target \notin {shown, flipping}
           /\ packet = "flip" => flipping = None
           /\ scan' = IF packet = "copy" THEN [scan EXCEPT ![Target] = staging] ELSE scan
           /\ flipping' = IF packet = "flip" THEN Target ELSE flipping
           /\ fence' = IF packet = "fence" THEN 0 ELSE fence
    /\ packets' = Tail(packets)
    /\ UNCHANGED <<cpu, index, flips, staging, shown, frame>>

Vblank ==
    /\ flipping # None
    /\ shown' = flipping /\ frame' = scan[flipping]
    /\ flipping' = None
    /\ UNCHANGED <<cpu, index, flips, staging, scan, packets, fence>>

-----------------------------------------------------------------------------
\* The picture on the screen is not written while it is there, the frames
\* come in order and none is lost: the one on the screen is the last that was
\* presented, or the flip to it is on its way.  Nothing the GPU still has to
\* read (the staging buffer, the command buffer) is rewritten.
FramesWhole ==
    /\ shown # None => scan[shown] = frame
    /\ frame \in {flips - 1, flips, flips + 1}
    /\ cpu = "idle" /\ flips > 0 =>
         IF flipping = None THEN frame = flips ELSE flipping = index /\ scan[index] = flips
    /\ packets # <<>> => cpu \in {"submitted", "waiting"} /\ staging = flips + 1
=============================================================================
