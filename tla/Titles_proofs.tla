--------------------------- MODULE Titles_proofs ---------------------------
(***************************************************************************)
(* The native titles and what they load.  A frame is whole whenever it is  *)
(* on the screen, however the GPU and the display lag behind the title,    *)
(* and what the title acquires is given back, in order, wherever it ends   *)
(* (FramesInv, HoldingInv).  The image of a module is laid out, relocated  *)
(* and bound inside what was reserved for it, whatever its file says       *)
(* (PeInv).  The gate's log is true, because the registry holds, module by *)
(* module, what was resolved so far, and the visits that are active are a  *)
(* path of imports (GtInv).  All of it for any number of frames, any file  *)
(* and program, and with any calls of the platform refused.                *)
(***************************************************************************)
EXTENDS TitleRuntime, Gate, PeImage, TLAPS, FiniteSetTheorems, SequenceTheorems, WellFoundedInduction

\* What is left of the command buffer of a frame before each of its packets.
ToSafe == <<"safe", "copy", "flip", "fence">>
ToCopy == <<"copy", "flip", "fence">>
ToFlip == <<"flip", "fence">>
ToFence == <<"fence">>
Empty == <<>>
CommandBuffers == {ToSafe, ToCopy, ToFlip, ToFence, Empty}

FrameTypes ==
    /\ cpu \in {"idle", "drawn", "submitted", "waiting", "vblank"}
    /\ index \in Buffers /\ flips \in Nat /\ staging \in Nat
    /\ scan \in [Buffers -> Nat]
    /\ packets \in CommandBuffers /\ fence \in {0, 1}
    /\ flipping \in Buffers \cup {None} /\ shown \in Buffers \cup {None}
    /\ frame \in Nat

\* The last frame is on the screen, or its flip is on the way.
Settled ==
    IF flipping = None
    THEN frame = flips /\ (flips > 0 => shown = index)
    ELSE flips > 0 /\ flipping = index /\ scan[index] = flips /\ frame = flips - 1 /\ shown # index

\* The same of the frame after it, which goes to the other buffer.
Flipped ==
    /\ scan[Target] = flips + 1
    /\ IF flipping = None
       THEN frame = flips + 1 /\ shown = Target
       ELSE flipping = Target /\ frame = flips /\ shown # Target

\* Where the frame is, by what the GPU has left to do.
Progress ==
    /\ packets # Empty => fence = 1 /\ cpu \in {"submitted", "waiting"} /\ staging = flips + 1
    /\ packets = ToSafe => Settled
    /\ packets = ToCopy => Settled /\ Target \notin {shown, flipping}
    /\ packets = ToFlip => Settled /\ Target \notin {shown, flipping} /\ scan[Target] = flips + 1
    /\ packets = ToFence => Flipped
    /\ packets = Empty =>
         /\ cpu \in {"idle", "drawn"} => Settled
         /\ cpu \in {"submitted", "waiting", "vblank"} => Flipped /\ fence = 0
         /\ cpu = "drawn" => staging = flips + 1

\* The inductive invariant: the picture on the screen is whole, and it is
\* known where every frame is.
FramesInv ==
    /\ FrameTypes
    /\ shown # None => scan[shown] = frame
    /\ Progress

\* The command buffers are told apart, and the GPU takes one packet at a time.
LEMMA Packets ==
  /\ Head(ToSafe) = "safe" /\ Tail(ToSafe) = ToCopy
  /\ Head(ToCopy) = "copy" /\ Tail(ToCopy) = ToFlip
  /\ Head(ToFlip) = "flip" /\ Tail(ToFlip) = ToFence
  /\ Head(ToFence) = "fence" /\ Tail(ToFence) = Empty
  /\ ToSafe \notin {ToCopy, ToFlip, ToFence, Empty}
  /\ ToCopy \notin {ToFlip, ToFence, Empty}
  /\ ToFlip \notin {ToFence, Empty}
  /\ ToFence # Empty
<1>1. Head(ToSafe) = "safe" /\ Tail(ToSafe) = ToCopy
  BY DEF ToSafe, ToCopy
<1>2. Head(ToCopy) = "copy" /\ Tail(ToCopy) = ToFlip
  BY DEF ToCopy, ToFlip
<1>3. Head(ToFlip) = "flip" /\ Tail(ToFlip) = ToFence
  BY DEF ToFlip, ToFence
<1>4. Head(ToFence) = "fence" /\ Tail(ToFence) = Empty
  BY DEF ToFence, Empty
<1>5. Len(ToSafe) = 4 /\ Len(ToCopy) = 3 /\ Len(ToFlip) = 2 /\ Len(ToFence) = 1 /\ Len(Empty) = 0
  BY DEF ToSafe, ToCopy, ToFlip, ToFence, Empty
<1>6. ToSafe \notin {ToCopy, ToFlip, ToFence, Empty} /\ ToCopy \notin {ToFlip, ToFence, Empty}
  <2>1. Len(ToSafe) # Len(ToCopy) /\ Len(ToSafe) # Len(ToFlip) /\ Len(ToSafe) # Len(ToFence)
    BY <1>5
  <2>2. Len(ToSafe) # Len(Empty) /\ Len(ToCopy) # Len(ToFlip)
    BY <1>5
  <2>3. Len(ToCopy) # Len(ToFence) /\ Len(ToCopy) # Len(Empty)
    BY <1>5
  <2> QED
    BY <2>1, <2>2, <2>3, Zenon
<1>7. ToFlip \notin {ToFence, Empty} /\ ToFence # Empty
  <2>1. Len(ToFlip) # Len(ToFence) /\ Len(ToFlip) # Len(Empty) /\ Len(ToFence) # Len(Empty)
    BY <1>5
  <2> QED
    BY <2>1, Zenon
<1> QED
  BY <1>1, <1>2, <1>3, <1>4, <1>6, <1>7

\* The first frame is still to come.
LEMMA FramesStart == FrameInit => FramesInv
<1> SUFFICES ASSUME FrameInit PROVE FramesInv
  OBVIOUS
<1>1. packets = Empty
  BY DEF FrameInit, Empty
<1>2. FrameTypes
  BY <1>1 DEF FrameInit, FrameTypes, CommandBuffers, Buffers, None
<1>3. Settled
  BY DEF FrameInit, Settled, None
<1> QED
  BY <1>1, <1>2, <1>3, Packets DEF FrameInit, FramesInv, Progress, None

\* The title's own steps keep the invariant.
LEMMA TitleKeeps ==
  ASSUME FramesInv, Draw \/ Submit \/ Suspend \/ WaitFence \/ WaitVblank
  PROVE  FramesInv'
<1> USE Packets DEF FramesInv, FrameTypes, CommandBuffers, Progress, Settled, Flipped, Target, Buffers, None
<1>1. CASE Draw
  BY <1>1 DEF Draw
<1>2. CASE Submit
  <2>1. packets' = ToSafe
    BY <1>2 DEF Submit, ToSafe
  <2>2. packets = Empty /\ Settled
    BY <1>2 DEF Submit
  <2> QED
    BY <1>2, <2>1, <2>2 DEF Submit
<1>3. CASE Suspend
  BY <1>3 DEF Suspend
<1>4. CASE WaitFence
  BY <1>4 DEF WaitFence, Fenced
<1>5. CASE WaitVblank
  <2>1. packets = Empty /\ Flipped /\ fence = 0
    BY <1>5 DEF WaitVblank
  <2>2. index' = Target /\ flips' = flips + 1 /\ cpu' = "idle"
    BY <1>5 DEF WaitVblank
  <2>3. UNCHANGED <<staging, scan, packets, fence, flipping, shown, frame>>
    BY <1>5 DEF WaitVblank
  <2>4. Settled'
    BY <2>1, <2>2, <2>3
  <2> QED
    BY <2>1, <2>2, <2>3, <2>4
<1> QED
  BY <1>1, <1>2, <1>3, <1>4, <1>5

\* The GPU's next packet.
LEMMA GpuKeeps ==
  ASSUME FramesInv, Gpu
  PROVE  FramesInv'
<1> USE Packets DEF FramesInv, FrameTypes, CommandBuffers, Progress, Settled, Flipped, Target, Buffers, None
<1>1. packets # Empty /\ UNCHANGED <<cpu, index, flips, staging, shown, frame>> /\ packets' = Tail(packets)
  BY DEF Gpu, Empty
<1>2. CASE packets = ToSafe
  <2>1. Target \notin {shown, flipping} /\ scan' = scan /\ flipping' = flipping /\ fence' = fence
    BY <1>2 DEF Gpu
  <2>2. packets' = ToCopy
    BY <1>1, <1>2
  <2> QED
    BY <1>1, <1>2, <2>1, <2>2
<1>3. CASE packets = ToCopy
  <2>1. scan' = [scan EXCEPT ![Target] = staging] /\ flipping' = flipping /\ fence' = fence
    BY <1>3 DEF Gpu
  <2>2. packets' = ToFlip
    BY <1>1, <1>3
  <2>3. scan'[Target] = flips + 1 /\ scan'[index] = scan[index] /\ (shown # None => scan'[shown] = scan[shown])
    BY <1>3, <2>1
  <2>4. Settled'
    BY <1>1, <1>3, <2>1, <2>3
  <2>5. FrameTypes' /\ (shown' # None => scan'[shown'] = frame')
    BY <1>1, <1>3, <2>1, <2>2, <2>3
  <2> QED
    BY <1>1, <1>3, <2>1, <2>2, <2>3, <2>4, <2>5
<1>4. CASE packets = ToFlip
  BY <1>1, <1>4 DEF Gpu
<1>5. CASE packets = ToFence
  BY <1>1, <1>5 DEF Gpu
<1> QED
  BY <1>1, <1>2, <1>3, <1>4, <1>5

\* The display makes the flip it was given.
LEMMA VblankKeeps ==
  ASSUME FramesInv, Vblank
  PROVE  FramesInv'
<1> USE Packets DEF FramesInv, FrameTypes, CommandBuffers, Progress, Settled, Flipped, Target, Buffers, None
<1>1. UNCHANGED <<cpu, index, flips, staging, scan, packets, fence>>
  BY DEF Vblank
<1>2. flipping \in Buffers /\ flipping' = None /\ shown' = flipping /\ frame' = scan[flipping]
  BY DEF Vblank
<1>3. Settled => Settled'
  BY <1>1, <1>2
<1>4. Flipped => Flipped'
  BY <1>1, <1>2
<1> QED
  BY <1>1, <1>2, <1>3, <1>4

\* Every step of the title: the others do not touch a frame.
LEMMA FramesStep ==
  ASSUME FramesInv, [TitleNext]_titleVars
  PROVE  FramesInv'
<1>1. CASE UNCHANGED frameVars
  BY <1>1 DEF frameVars, FramesInv, FrameTypes, Progress, Settled, Flipped, Target
<1>2. CASE Present
  BY <1>2, TitleKeeps, GpuKeeps, VblankKeeps DEF Present
<1>3. UNCHANGED frameVars \/ Present
  BY DEF TitleNext, titleVars, Acquire, UserNotOwned, AcquireFails, Ready, Stream, Abort, Leave,
         GiveBack, End
<1> QED
  BY <1>1, <1>2, <1>3

\* With the frames as the invariant has them, no picture is torn or lost.
LEMMA FramesAreWhole == ASSUME FramesInv PROVE FramesWhole
<1> USE DEF FramesInv, FrameTypes, Progress, Settled, Flipped, Target, Buffers, None
<1>1. packets # Empty => cpu \in {"submitted", "waiting"} /\ staging = flips + 1
  OBVIOUS
<1>2. packets = Empty => (Settled \/ Flipped)
  OBVIOUS
<1>3. packets # Empty => (Settled \/ Flipped)
  BY DEF CommandBuffers
<1>4. frame \in {flips - 1, flips, flips + 1}
  BY <1>2, <1>3
<1>5. cpu = "idle" => Settled
  BY <1>1
<1>6. packets # <<>> => cpu \in {"submitted", "waiting"} /\ staging = flips + 1
  BY <1>1 DEF Empty
<1> QED
  BY <1>4, <1>5, <1>6 DEF FramesWhole

\* Pictures are whole on the screen, come in order and are not lost.
THEOREM FramesAlwaysWhole == TitleSpec => []FramesWhole
<1>1. TitleInit => FramesInv
  BY FramesStart DEF TitleInit
<1>2. FramesInv /\ [TitleNext]_titleVars => FramesInv'
  BY FramesStep
<1>3. FramesInv => FramesWhole
  BY FramesAreWhole
<1> QED
  BY <1>1, <1>2, <1>3, PTL DEF TitleSpec
-----------------------------------------------------------------------------
(***************************************************************************)
(* What the title holds, and what of it is still to be given back.         *)
(***************************************************************************)
Names == {"root", "stack", "thread", "crt", "heap", "image", "audio", "user", "pad", "engine",
          "agcModule", "agcRange", "agcMemory", "agcMap",
          "video", "videoMemory", "videoMap", "buffers", "streams"}
GpuParts == {"agcModule", "agcRange", "agcMemory", "agcMap", "video", "videoMemory", "videoMap", "buffers"}

\* What is still to be acquired or given back, and what the title may lose.
Left == {todo[i] : i \in 1 .. Len(todo)}
StillHeld == held \ refused

\* The first k of the start have been acquired, the user service perhaps not.
StartedTo(k) ==
    /\ Len(todo) = 18 - k /\ \A i \in 1 .. 18 - k : todo[i] = Startup[k + i]
    /\ held \subseteq {Startup[j] : j \in 1 .. k}
    /\ \A j \in 1 .. k : j # 8 => Startup[j] \in held

\* The first of a pair that is still there goes before the second.
Orderly == \A u \in Uses, i \in 1 .. Len(todo) :
               todo[i] = u[2] /\ u[1] \in StillHeld => \E j \in 1 .. i - 1 : todo[j] = u[1]

HoldingTypes ==
    /\ phase \in {"start", "undo", "loop", "teardown", "ended", "aborted"}
    /\ todo \in Seq(Names) /\ held \subseteq Names

\* The inductive invariant: what the title holds is what it has still to give
\* back, in an order in which nothing goes before what uses it.
HoldingInv ==
    /\ HoldingTypes
    /\ \A u \in Uses : u[1] \in StillHeld => u[2] \in held
    /\ packets # Empty => phase \in {"loop", "aborted"}
    /\ phase \in {"start", "loop"} => refused = {}
    /\ phase = "start" => \E k \in 0 .. 18 : StartedTo(k)
    /\ phase = "loop" => \A j \in 1 .. 18 : j # 8 => Startup[j] \in held
    /\ phase \in {"undo", "teardown"} => Orderly
    /\ phase = "undo" =>
         /\ StillHeld \cap GpuParts \subseteq Left
         /\ "user" \in StillHeld => "pad" \in held \/ "user" \in Left
         /\ "pad" \notin Left
    /\ phase = "teardown" => StillHeld \subseteq Left
    /\ phase = "ended" => StillHeld = {}

\* A sequence of n names, and what joining two of them gives.
Row(s, n) == n \in Nat /\ s \in Seq(Names) /\ Len(s) = n

Joins(r, s, m, t, n) ==
    /\ Row(r, m + n)
    /\ \A i \in 1 .. m : r[i] = s[i]
    /\ \A i \in m + 1 .. m + n : r[i] = t[i - m]

\* Joining two sequences of names gives their names in order.
LEMMA Joined ==
  ASSUME NEW s, NEW t, NEW m, NEW n, Row(s, m), Row(t, n), NEW r, r = s \o t
  PROVE  Joins(r, s, m, t, n)
<1>1. s \in Seq(Names) /\ t \in Seq(Names) /\ Len(s) = m /\ Len(t) = n /\ m \in Nat /\ n \in Nat
  BY DEF Row
<1>2. r \in Seq(Names) /\ Len(r) = m + n
  BY <1>1, ConcatProperties
<1>3. \A i \in 1 .. m : r[i] = s[i]
  BY <1>1, ConcatProperties
<1>4. \A i \in m + 1 .. m + n : r[i] = t[i - m]
  BY <1>1, ConcatProperties
<1> QED
  BY <1>1, <1>2, <1>3, <1>4 DEF Joins, Row

\* The orders of the source, name by name.
LEMMA AgcClosesAre ==
  /\ Row(AgcCloses, 4)
  /\ AgcCloses[1] = "agcMap" /\ AgcCloses[2] = "agcMemory"
  /\ AgcCloses[3] = "agcRange" /\ AgcCloses[4] = "agcModule"
  BY DEF AgcCloses, Names, Row

\* The closes of the display, with those of the GPU behind them.
LEMMA VideoClosesAre ==
  /\ Row(VideoCloses, 8)
  /\ VideoCloses[1] = "buffers" /\ VideoCloses[2] = "video"
  /\ VideoCloses[3] = "videoMap" /\ VideoCloses[4] = "videoMemory"
  /\ VideoCloses[5] = "agcMap" /\ VideoCloses[6] = "agcMemory"
  /\ VideoCloses[7] = "agcRange" /\ VideoCloses[8] = "agcModule"
<1> DEFINE a == <<"buffers", "video", "videoMap", "videoMemory">>
<1>1. Row(a, 4) /\ a[1] = "buffers" /\ a[2] = "video" /\ a[3] = "videoMap" /\ a[4] = "videoMemory"
  BY DEF Names, Row
<1> HIDE DEF a
<1>2. VideoCloses = a \o AgcCloses
  BY DEF VideoCloses, a
<1>3. Joins(VideoCloses, a, 4, AgcCloses, 4)
  BY <1>1, <1>2, AgcClosesAre, Joined
<1>4. Row(VideoCloses, 8)
  BY <1>3 DEF Joins
<1>5. /\ VideoCloses[1] = a[1] /\ VideoCloses[2] = a[2] /\ VideoCloses[3] = a[3] /\ VideoCloses[4] = a[4]
  BY <1>3 DEF Joins
<1>6. /\ VideoCloses[5] = AgcCloses[1] /\ VideoCloses[6] = AgcCloses[2]
      /\ VideoCloses[7] = AgcCloses[3] /\ VideoCloses[8] = AgcCloses[4]
  BY <1>3 DEF Joins
<1> QED
  BY <1>1, <1>4, <1>5, <1>6, AgcClosesAre

\* The whole teardown.
LEMMA TeardownIs ==
  /\ Row(Teardown, 19)
  /\ Teardown[1] = "pad" /\ Teardown[2] = "user" /\ Teardown[3] = "audio"
  /\ Teardown[4] = "buffers" /\ Teardown[5] = "video" /\ Teardown[6] = "videoMap" /\ Teardown[7] = "videoMemory"
  /\ Teardown[8] = "agcMap" /\ Teardown[9] = "agcMemory" /\ Teardown[10] = "agcRange" /\ Teardown[11] = "agcModule"
  /\ Teardown[12] = "engine" /\ Teardown[13] = "image" /\ Teardown[14] = "root" /\ Teardown[15] = "stack"
  /\ Teardown[16] = "thread" /\ Teardown[17] = "crt" /\ Teardown[18] = "heap" /\ Teardown[19] = "streams"
<1> DEFINE a == <<"pad", "user", "audio">>
           b == <<"engine", "image", "root", "stack", "thread", "crt", "heap", "streams">>
           c == a \o VideoCloses
<1>1. Row(a, 3) /\ a[1] = "pad" /\ a[2] = "user" /\ a[3] = "audio"
  BY DEF Names, Row
<1>2. /\ Row(b, 8) /\ b[1] = "engine" /\ b[2] = "image" /\ b[3] = "root" /\ b[4] = "stack"
      /\ b[5] = "thread" /\ b[6] = "crt" /\ b[7] = "heap" /\ b[8] = "streams"
  BY DEF Names, Row
<1>3. Teardown = c \o b
  BY DEF Teardown
<1> HIDE DEF a, b, c
<1>4. Joins(c, a, 3, VideoCloses, 8)
  BY <1>1, VideoClosesAre, Joined DEF c
<1>5. /\ Row(c, 11) /\ c[1] = a[1] /\ c[2] = a[2] /\ c[3] = a[3]
      /\ c[4] = VideoCloses[1] /\ c[5] = VideoCloses[2] /\ c[6] = VideoCloses[3] /\ c[7] = VideoCloses[4]
      /\ c[8] = VideoCloses[5] /\ c[9] = VideoCloses[6] /\ c[10] = VideoCloses[7] /\ c[11] = VideoCloses[8]
  <2>1. Row(c, 11)
    BY <1>4 DEF Joins, Row
  <2>2. c[1] = a[1] /\ c[2] = a[2] /\ c[3] = a[3]
    BY <1>4 DEF Joins
  <2>3. c[4] = VideoCloses[1] /\ c[5] = VideoCloses[2] /\ c[6] = VideoCloses[3] /\ c[7] = VideoCloses[4]
    BY <1>4 DEF Joins
  <2>4. c[8] = VideoCloses[5] /\ c[9] = VideoCloses[6] /\ c[10] = VideoCloses[7] /\ c[11] = VideoCloses[8]
    BY <1>4 DEF Joins
  <2> QED
    BY <2>1, <2>2, <2>3, <2>4
<1>6. Joins(Teardown, c, 11, b, 8)
  BY <1>2, <1>3, <1>5, Joined
<1>7. /\ Row(Teardown, 19)
      /\ Teardown[12] = b[1] /\ Teardown[13] = b[2] /\ Teardown[14] = b[3] /\ Teardown[15] = b[4]
      /\ Teardown[16] = b[5] /\ Teardown[17] = b[6] /\ Teardown[18] = b[7] /\ Teardown[19] = b[8]
  <2>1. Row(Teardown, 19)
    BY <1>6 DEF Joins, Row
  <2>2. Teardown[12] = b[1] /\ Teardown[13] = b[2] /\ Teardown[14] = b[3] /\ Teardown[15] = b[4]
    BY <1>6 DEF Joins
  <2>3. Teardown[16] = b[5] /\ Teardown[17] = b[6] /\ Teardown[18] = b[7] /\ Teardown[19] = b[8]
    BY <1>6 DEF Joins
  <2> QED
    BY <2>1, <2>2, <2>3
<1>8. \A i \in 1 .. 11 : Teardown[i] = c[i]
  BY <1>6 DEF Joins
<1>9. /\ Teardown[1] = c[1] /\ Teardown[2] = c[2] /\ Teardown[3] = c[3] /\ Teardown[4] = c[4]
      /\ Teardown[5] = c[5] /\ Teardown[6] = c[6] /\ Teardown[7] = c[7] /\ Teardown[8] = c[8]
      /\ Teardown[9] = c[9] /\ Teardown[10] = c[10] /\ Teardown[11] = c[11]
  BY <1>8
<1>10. /\ Teardown[1] = "pad" /\ Teardown[2] = "user" /\ Teardown[3] = "audio"
       /\ Teardown[4] = "buffers" /\ Teardown[5] = "video" /\ Teardown[6] = "videoMap" /\ Teardown[7] = "videoMemory"
  BY <1>1, <1>5, <1>9, VideoClosesAre
<1>11. /\ Teardown[8] = "agcMap" /\ Teardown[9] = "agcMemory"
       /\ Teardown[10] = "agcRange" /\ Teardown[11] = "agcModule"
  BY <1>5, <1>9, VideoClosesAre
<1> QED
  BY <1>2, <1>7, <1>10, <1>11

\* The whole start.
LEMMA StartupIs ==
  /\ Row(Startup, 18)
  /\ Startup[1] = "root" /\ Startup[2] = "stack" /\ Startup[3] = "thread" /\ Startup[4] = "crt"
  /\ Startup[5] = "heap" /\ Startup[6] = "image" /\ Startup[7] = "audio" /\ Startup[8] = "user"
  /\ Startup[9] = "pad" /\ Startup[10] = "engine"
  /\ Startup[11] = "agcModule" /\ Startup[12] = "agcRange" /\ Startup[13] = "agcMemory" /\ Startup[14] = "agcMap"
  /\ Startup[15] = "video" /\ Startup[16] = "videoMemory" /\ Startup[17] = "videoMap" /\ Startup[18] = "buffers"
<1> DEFINE a == <<"root", "stack", "thread", "crt", "heap", "image", "audio">>
           e == <<"engine">>
           b == a \o PadParts
           c == b \o e
           d == c \o AgcParts
<1>1. /\ Row(a, 7) /\ a[1] = "root" /\ a[2] = "stack" /\ a[3] = "thread" /\ a[4] = "crt"
      /\ a[5] = "heap" /\ a[6] = "image" /\ a[7] = "audio"
  BY DEF Names, Row
<1>2. Row(PadParts, 2) /\ PadParts[1] = "user" /\ PadParts[2] = "pad"
  BY DEF PadParts, Names, Row
<1>3. Row(e, 1) /\ e[1] = "engine"
  BY DEF Names, Row
<1>4. /\ Row(AgcParts, 4) /\ AgcParts[1] = "agcModule" /\ AgcParts[2] = "agcRange"
      /\ AgcParts[3] = "agcMemory" /\ AgcParts[4] = "agcMap"
  BY DEF AgcParts, Names, Row
<1>5. /\ Row(VideoParts, 4) /\ VideoParts[1] = "video" /\ VideoParts[2] = "videoMemory"
      /\ VideoParts[3] = "videoMap" /\ VideoParts[4] = "buffers"
  BY DEF VideoParts, Names, Row
<1>6. Startup = d \o VideoParts
  BY DEF Startup
<1> HIDE DEF a, b, c, d, e
<1>7. Joins(b, a, 7, PadParts, 2)
  BY <1>1, <1>2, Joined DEF b
<1>8. Row(b, 9) /\ (\A i \in 1 .. 7 : b[i] = a[i]) /\ b[8] = PadParts[1] /\ b[9] = PadParts[2]
  <2>1. Row(b, 9)
    BY <1>7 DEF Joins, Row
  <2>2. \A i \in 1 .. 7 : b[i] = a[i]
    BY <1>7 DEF Joins
  <2>3. b[8] = PadParts[1] /\ b[9] = PadParts[2]
    BY <1>7 DEF Joins
  <2> QED
    BY <2>1, <2>2, <2>3
<1>9. Joins(c, b, 9, e, 1)
  BY <1>3, <1>8, Joined DEF c
<1>10. Row(c, 10) /\ (\A i \in 1 .. 9 : c[i] = b[i]) /\ c[10] = e[1]
  <2>1. Row(c, 10)
    BY <1>9 DEF Joins, Row
  <2>2. \A i \in 1 .. 9 : c[i] = b[i]
    BY <1>9 DEF Joins
  <2>3. c[10] = e[1]
    BY <1>9 DEF Joins
  <2> QED
    BY <2>1, <2>2, <2>3
<1>11. Joins(d, c, 10, AgcParts, 4)
  BY <1>4, <1>10, Joined DEF d
<1>12. /\ Row(d, 14) /\ (\A i \in 1 .. 10 : d[i] = c[i])
       /\ d[11] = AgcParts[1] /\ d[12] = AgcParts[2] /\ d[13] = AgcParts[3] /\ d[14] = AgcParts[4]
  <2>1. Row(d, 14)
    BY <1>11 DEF Joins, Row
  <2>2. \A i \in 1 .. 10 : d[i] = c[i]
    BY <1>11 DEF Joins
  <2>3. d[11] = AgcParts[1] /\ d[12] = AgcParts[2] /\ d[13] = AgcParts[3] /\ d[14] = AgcParts[4]
    BY <1>11 DEF Joins
  <2> QED
    BY <2>1, <2>2, <2>3
<1>13. Joins(Startup, d, 14, VideoParts, 4)
  BY <1>5, <1>6, <1>12, Joined
<1>14. /\ Row(Startup, 18) /\ (\A i \in 1 .. 14 : Startup[i] = d[i])
       /\ Startup[15] = VideoParts[1] /\ Startup[16] = VideoParts[2]
       /\ Startup[17] = VideoParts[3] /\ Startup[18] = VideoParts[4]
  <2>1. Row(Startup, 18)
    BY <1>13 DEF Joins, Row
  <2>2. \A i \in 1 .. 14 : Startup[i] = d[i]
    BY <1>13 DEF Joins
  <2>3. /\ Startup[15] = VideoParts[1] /\ Startup[16] = VideoParts[2]
        /\ Startup[17] = VideoParts[3] /\ Startup[18] = VideoParts[4]
    BY <1>13 DEF Joins
  <2> QED
    BY <2>1, <2>2, <2>3
<1>15. \A i \in 1 .. 7 : Startup[i] = a[i]
  BY <1>8, <1>10, <1>12, <1>14
<1>16. Startup[8] = PadParts[1] /\ Startup[9] = PadParts[2] /\ Startup[10] = e[1]
  BY <1>8, <1>10, <1>12, <1>14
<1>17. Startup[11] = d[11] /\ Startup[12] = d[12] /\ Startup[13] = d[13] /\ Startup[14] = d[14]
  BY <1>14
<1>18. /\ Startup[1] = "root" /\ Startup[2] = "stack" /\ Startup[3] = "thread" /\ Startup[4] = "crt"
       /\ Startup[5] = "heap" /\ Startup[6] = "image" /\ Startup[7] = "audio"
  BY <1>1, <1>15
<1>19. Startup[8] = "user" /\ Startup[9] = "pad" /\ Startup[10] = "engine"
  BY <1>2, <1>3, <1>16
<1>20. Startup[11] = "agcModule" /\ Startup[12] = "agcRange" /\ Startup[13] = "agcMemory" /\ Startup[14] = "agcMap"
  BY <1>4, <1>12, <1>17
<1>21. Startup[15] = "video" /\ Startup[16] = "videoMemory" /\ Startup[17] = "videoMap" /\ Startup[18] = "buffers"
  BY <1>5, <1>14
<1> QED
  BY <1>14, <1>18, <1>19, <1>20, <1>21

\* Nothing is given back before what uses it, in any of the closes.
InOrder(s, n) == \A u \in Uses, i \in 1 .. n : s[i] = u[2] => \E j \in 1 .. i - 1 : s[j] = u[1]

\* What cannot be given back while something else uses it, pair by pair.
LEMMA UsesAre ==
  \A u \in Uses :
     \/ u[1] = "engine" /\ u[2] = "image"
     \/ u[1] = "image" /\ u[2] = "root"
     \/ u[1] = "agcMap" /\ u[2] = "agcMemory"
     \/ u[1] = "agcMap" /\ u[2] = "agcRange"
     \/ u[1] = "agcRange" /\ u[2] = "agcModule"
     \/ u[1] = "videoMap" /\ u[2] = "videoMemory"
     \/ u[1] = "buffers" /\ u[2] = "videoMap"
     \/ u[1] = "buffers" /\ u[2] = "video"
  BY DEF Uses

\* It holds of what every opener undoes, and of the teardown.
LEMMA ClosesInOrder ==
  InOrder(AgcCloses, 4) /\ InOrder(VideoCloses, 8) /\ InOrder(Teardown, 19) /\ InOrder(<<"user">>, 1)
<1>1. InOrder(AgcCloses, 4)
  <2> SUFFICES ASSUME NEW u \in Uses, NEW i \in 1 .. 4, AgcCloses[i] = u[2]
               PROVE  \E j \in 1 .. i - 1 : AgcCloses[j] = u[1]
    BY DEF InOrder
  <2>1. \/ i \in {2, 3} /\ u[1] = "agcMap"
        \/ i = 4 /\ u[1] = "agcRange"
    BY AgcClosesAre, UsesAre
  <2>2. 1 \in 1 .. i - 1 /\ (i = 4 => 3 \in 1 .. i - 1)
    BY <2>1
  <2> QED
    BY <2>1, <2>2, AgcClosesAre
<1>2. InOrder(VideoCloses, 8)
  <2> SUFFICES ASSUME NEW u \in Uses, NEW i \in 1 .. 8, VideoCloses[i] = u[2]
               PROVE  \E j \in 1 .. i - 1 : VideoCloses[j] = u[1]
    BY DEF InOrder
  <2>1. \/ i \in {2, 3} /\ u[1] = "buffers"
        \/ i = 4 /\ u[1] = "videoMap"
        \/ i \in {6, 7} /\ u[1] = "agcMap"
        \/ i = 8 /\ u[1] = "agcRange"
    BY VideoClosesAre, UsesAre
  <2>2. /\ 1 \in 1 .. i - 1 /\ (i = 4 => 3 \in 1 .. i - 1)
        /\ (i \in 6 .. 8 => 5 \in 1 .. i - 1) /\ (i = 8 => 7 \in 1 .. i - 1)
    BY <2>1
  <2> QED
    BY <2>1, <2>2, VideoClosesAre
<1>3. InOrder(Teardown, 19)
  <2> SUFFICES ASSUME NEW u \in Uses, NEW i \in 1 .. 19, Teardown[i] = u[2]
               PROVE  \E j \in 1 .. i - 1 : Teardown[j] = u[1]
    BY DEF InOrder
  <2>1. \/ i \in {5, 6} /\ u[1] = "buffers"
        \/ i = 7 /\ u[1] = "videoMap"
        \/ i \in {9, 10} /\ u[1] = "agcMap"
        \/ i = 11 /\ u[1] = "agcRange"
        \/ i = 13 /\ u[1] = "engine"
        \/ i = 14 /\ u[1] = "image"
    BY TeardownIs, UsesAre
  <2>2. /\ 4 \in 1 .. i - 1 /\ (i >= 7 => 6 \in 1 .. i - 1) /\ (i >= 9 => 8 \in 1 .. i - 1)
        /\ (i >= 11 => 10 \in 1 .. i - 1) /\ (i >= 13 => 12 \in 1 .. i - 1) /\ (i >= 14 => 13 \in 1 .. i - 1)
    BY <2>1
  <2> QED
    BY <2>1, <2>2, TeardownIs
<1>4. InOrder(<<"user">>, 1)
  BY DEF InOrder, Uses
<1> QED
  BY <1>1, <1>2, <1>3, <1>4

\* What something uses is acquired before it.
LEMMA StartInOrder ==
  ASSUME NEW u \in Uses, NEW i \in 1 .. 18, Startup[i] = u[1]
  PROVE  \E j \in 1 .. i - 1 : j # 8 /\ Startup[j] = u[2]
<1>1. \/ i = 6 /\ u[2] = "root"
      \/ i = 10 /\ u[2] = "image"
      \/ i = 12 /\ u[2] = "agcModule"
      \/ i = 14 /\ u[2] \in {"agcRange", "agcMemory"}
      \/ i = 17 /\ u[2] = "videoMemory"
      \/ i = 18 /\ u[2] \in {"video", "videoMap"}
  BY StartupIs, UsesAre
<1>2. /\ 1 \in 1 .. i - 1 /\ (i >= 10 => 6 \in 1 .. i - 1) /\ (i >= 12 => 11 \in 1 .. i - 1)
      /\ (i >= 14 => 12 \in 1 .. i - 1 /\ 13 \in 1 .. i - 1) /\ (i >= 17 => 16 \in 1 .. i - 1)
      /\ (i >= 18 => 15 \in 1 .. i - 1 /\ 17 \in 1 .. i - 1)
  BY <1>1
<1> QED
  BY <1>1, <1>2, StartupIs

\* The teardown names everything there is.
LEMMA TeardownNamesAll == \A x \in Names : \E i \in 1 .. 19 : Teardown[i] = x
<1> SUFFICES ASSUME NEW x \in Names PROVE \E i \in 1 .. 19 : Teardown[i] = x
  OBVIOUS
<1>1. CASE x \in {"pad", "user", "audio", "buffers", "video", "videoMap", "videoMemory"}
  BY <1>1, TeardownIs
<1>2. CASE x \in {"agcMap", "agcMemory", "agcRange", "agcModule", "engine", "image"}
  BY <1>2, TeardownIs
<1>3. CASE x \in {"root", "stack", "thread", "crt", "heap", "streams"}
  BY <1>3, TeardownIs
<1> QED
  BY <1>1, <1>2, <1>3 DEF Names

\* What an opener gives back when its step k + 1 fails covers what the openers
\* of the GPU have acquired, and the user service when the pad is not held.
Covers(s, n, k) ==
    /\ Row(s, n) /\ InOrder(s, n)
    /\ \A j \in 1 .. k : Startup[j] \in GpuParts => \E i \in 1 .. n : s[i] = Startup[j]
    /\ k = 8 => \E i \in 1 .. n : s[i] = "user"
    /\ \A i \in 1 .. n : s[i] # "pad"

\* The parts of each opener as a set.
LEMMA PartsAre ==
  /\ ToSet(PadParts) = {"user", "pad"}
  /\ ToSet(AgcParts) = {"agcModule", "agcRange", "agcMemory", "agcMap"}
  /\ ToSet(VideoParts) = {"video", "videoMemory", "videoMap", "buffers"}
  /\ ToSet(AgcParts \o VideoParts) = GpuParts
<1>1. ToSet(PadParts) = {"user", "pad"}
  BY DEF ToSet, PadParts
<1>2. ToSet(AgcParts) = {"agcModule", "agcRange", "agcMemory", "agcMap"}
  BY DEF ToSet, AgcParts
<1>3. ToSet(VideoParts) = {"video", "videoMemory", "videoMap", "buffers"}
  BY DEF ToSet, VideoParts
<1>4. ToSet(AgcParts \o VideoParts) = GpuParts
  <2>1. PICK r : r = AgcParts \o VideoParts
    OBVIOUS
  <2>2. /\ Row(AgcParts, 4) /\ AgcParts[1] = "agcModule" /\ AgcParts[2] = "agcRange"
        /\ AgcParts[3] = "agcMemory" /\ AgcParts[4] = "agcMap"
    BY DEF AgcParts, Names, Row
  <2>3. /\ Row(VideoParts, 4) /\ VideoParts[1] = "video" /\ VideoParts[2] = "videoMemory"
        /\ VideoParts[3] = "videoMap" /\ VideoParts[4] = "buffers"
    BY DEF VideoParts, Names, Row
  <2>4. Joins(r, AgcParts, 4, VideoParts, 4)
    BY <2>1, <2>2, <2>3, Joined
  <2>5. Row(r, 8)
    BY <2>4 DEF Joins
  <2>6. r[1] = AgcParts[1] /\ r[2] = AgcParts[2] /\ r[3] = AgcParts[3] /\ r[4] = AgcParts[4]
    BY <2>4 DEF Joins
  <2>7. r[5] = VideoParts[1] /\ r[6] = VideoParts[2] /\ r[7] = VideoParts[3] /\ r[8] = VideoParts[4]
    BY <2>4 DEF Joins
  <2>8. DOMAIN r = 1 .. 8
    BY <2>5 DEF Row
  <2>9. ToSet(r) = GpuParts
    BY <2>2, <2>3, <2>6, <2>7, <2>8 DEF ToSet, GpuParts
  <2> QED
    BY <2>1, <2>9
<1> QED
  BY <1>1, <1>2, <1>3, <1>4

\* The openers undo what they have to, wherever the start fails.
LEMMA UndoneCovers ==
  ASSUME NEW k \in 0 .. 17, k # 7
  PROVE  \E n \in 0 .. 8 : Covers(Undone(Startup[k + 1]), n, k)
<1>1. CASE k <= 6 \/ k = 9
  <2>1. Undone(Startup[k + 1]) = <<>>
    <3>1. k \in {0, 1, 2, 3, 4, 5, 6, 9}
      BY <1>1
    <3>2. Startup[k + 1] \in {"root", "stack", "thread", "crt", "heap", "image", "audio", "engine"}
      BY <3>1, StartupIs
    <3> QED
      BY <3>2, PartsAre DEF Undone
  <2>2. \A j \in 1 .. k : Startup[j] \notin GpuParts
    BY <1>1, StartupIs DEF GpuParts
  <2>3. Row(<<>>, 0) /\ InOrder(<<>>, 0)
    BY DEF Row, InOrder
  <2> QED
    BY <1>1, <2>1, <2>2, <2>3 DEF Covers
<1>2. CASE k = 8
  <2>1. Undone(Startup[k + 1]) = <<"user">>
    BY <1>2, PartsAre, StartupIs DEF Undone
  <2>2. \A j \in 1 .. k : Startup[j] \notin GpuParts
    BY <1>2, StartupIs DEF GpuParts
  <2>3. Row(<<"user">>, 1)
    BY DEF Row, Names
  <2> QED
    BY <1>2, <2>1, <2>2, <2>3, ClosesInOrder DEF Covers
<1>3. CASE k \in 10 .. 13
  <2>1. Undone(Startup[k + 1]) = AgcCloses
    BY <1>3, PartsAre, StartupIs DEF Undone
  <2>2. \A j \in 1 .. k : Startup[j] \in GpuParts => \E i \in 1 .. 4 : AgcCloses[i] = Startup[j]
    BY <1>3, StartupIs, AgcClosesAre DEF GpuParts
  <2>3. \A i \in 1 .. 4 : AgcCloses[i] # "pad"
    BY AgcClosesAre
  <2> QED
    BY <1>3, <2>1, <2>2, <2>3, AgcClosesAre, ClosesInOrder DEF Covers
<1>4. CASE k \in 14 .. 17
  <2>1. Undone(Startup[k + 1]) = VideoCloses
    BY <1>4, PartsAre, StartupIs DEF Undone
  <2>2. \A j \in 1 .. k : Startup[j] \in GpuParts => \E i \in 1 .. 8 : VideoCloses[i] = Startup[j]
    BY VideoClosesAre DEF GpuParts
  <2>3. \A i \in 1 .. 8 : VideoCloses[i] # "pad"
    BY VideoClosesAre
  <2> QED
    BY <1>4, <2>1, <2>2, <2>3, VideoClosesAre, ClosesInOrder DEF Covers
<1> QED
  BY <1>1, <1>2, <1>3, <1>4

\* What is left when the first of it is done with.
LEMMA Taken ==
  ASSUME HoldingTypes, todo # <<>>, todo' = Tail(todo)
  PROVE  /\ Len(todo) >= 1 /\ Len(todo)' = Len(todo) - 1 /\ todo' \in Seq(Names)
         /\ Head(todo) = todo[1] /\ todo[1] \in Names
         /\ \A i \in 1 .. Len(todo) - 1 : todo'[i] = todo[i + 1]
         /\ Left \subseteq Left' \cup {todo[1]}
         /\ Left' \subseteq Left
<1>1. todo \in Seq(Names) /\ Len(todo) \in Nat /\ Len(todo) >= 1
  BY DEF HoldingTypes
<1>2. Len(todo)' = Len(todo) - 1 /\ todo' \in Seq(Names) /\ Head(todo) = todo[1] /\ todo[1] \in Names
  BY <1>1
<1>3. \A i \in 1 .. Len(todo) - 1 : todo'[i] = todo[i + 1]
  BY <1>1
<1>4. Left \subseteq Left' \cup {todo[1]}
  <2> SUFFICES ASSUME NEW i \in 1 .. Len(todo), i # 1 PROVE todo[i] \in Left'
    BY DEF Left
  <2>1. i - 1 \in 1 .. Len(todo)' /\ todo'[i - 1] = todo[i]
    BY <1>1, <1>2, <1>3
  <2> QED
    BY <2>1 DEF Left
<1>5. Left' \subseteq Left
  <2> SUFFICES ASSUME NEW i \in 1 .. Len(todo)' PROVE todo'[i] \in Left
    BY DEF Left
  <2>1. i + 1 \in 1 .. Len(todo) /\ todo'[i] = todo[i + 1]
    BY <1>1, <1>2, <1>3
  <2> QED
    BY <2>1 DEF Left
<1> QED
  BY <1>1, <1>2, <1>3, <1>4, <1>5

\* The list of an opener or of the teardown, before its first name is done with.
LEMMA Listed ==
  ASSUME NEW s, NEW n, Row(s, n), InOrder(s, n), todo' = s
  PROVE  todo' \in Seq(Names) /\ Left' = {s[i] : i \in 1 .. n} /\ Orderly'
  BY DEF Row, InOrder, Left, Orderly

\* Nothing is held before the start.
LEMMA HoldingStart == TitleInit => HoldingInv
<1> SUFFICES ASSUME TitleInit PROVE HoldingInv
  OBVIOUS
<1>1. phase = "start" /\ held = {} /\ refused = {} /\ todo = Startup /\ packets = Empty
  BY DEF TitleInit, FrameInit, Empty
<1>2. StartedTo(0)
  BY <1>1, StartupIs DEF StartedTo, Row
<1>3. HoldingTypes
  BY <1>1, StartupIs DEF HoldingTypes, Row
<1> QED
  BY <1>1, <1>2, <1>3 DEF HoldingInv, StillHeld

\* One more part is acquired, or used without being owned.
LEMMA AcquireKeeps ==
  ASSUME HoldingInv, Acquire \/ UserNotOwned
  PROVE  HoldingInv'
<1>1. /\ phase = "start" /\ phase' = phase /\ todo # <<>> /\ todo' = Tail(todo)
      /\ refused = {} /\ refused' = {} /\ packets' = packets /\ packets = Empty
  BY DEF HoldingInv, Acquire, UserNotOwned, frameVars
<1>2. PICK k \in 0 .. 18 : StartedTo(k)
  BY <1>1 DEF HoldingInv
<1> DEFINE x == Startup[k + 1]
<1>3. /\ todo[1] = Head(todo) /\ Len(todo) >= 1 /\ Len(todo)' = Len(todo) - 1 /\ todo' \in Seq(Names)
      /\ \A i \in 1 .. Len(todo) - 1 : todo'[i] = todo[i + 1]
      /\ todo[1] \in Names
  BY <1>1, Taken DEF HoldingInv
<1>4. k + 1 \in 1 .. 18 /\ todo[1] = x
  BY <1>2, <1>3 DEF StartedTo
<1>5. held' = held \cup {x} \/ (held' = held /\ k + 1 = 8)
  <2>1. CASE Acquire
    BY <2>1, <1>3, <1>4 DEF Acquire
  <2>2. CASE UserNotOwned
    <3>1. x = "user" /\ held' = held
      BY <2>2, <1>3, <1>4 DEF UserNotOwned
    <3>2. k + 1 = 8
      BY <3>1, <1>4, StartupIs
    <3> QED
      BY <3>1, <3>2
  <2> QED
    BY <2>1, <2>2
<1>6. StartedTo(k + 1)'
  <2>1. Len(todo)' = 18 - (k + 1)
    BY <1>2, <1>3, SMTT(20) DEF StartedTo
  <2>2. \A i \in 1 .. 18 - (k + 1) : todo'[i] = Startup[k + 1 + i]
    <3> SUFFICES ASSUME NEW i \in 1 .. 18 - (k + 1) PROVE todo'[i] = Startup[k + 1 + i]
      OBVIOUS
    <3>1. todo'[i] = todo[i + 1] /\ i + 1 \in 1 .. 18 - k
      BY <1>2, <1>3 DEF StartedTo
    <3>2. todo[i + 1] = Startup[k + (i + 1)]
      BY <3>1, <1>2 DEF StartedTo
    <3> QED
      BY <3>1, <3>2
  <2>3. held' \subseteq {Startup[j] : j \in 1 .. k + 1}
    BY <1>2, <1>4, <1>5 DEF StartedTo
  <2>4. \A j \in 1 .. k + 1 : j # 8 => Startup[j] \in held'
    BY <1>2, <1>4, <1>5 DEF StartedTo
  <2> QED
    BY <2>1, <2>2, <2>3, <2>4 DEF StartedTo
<1>7. \A u \in Uses : u[1] \in StillHeld' => u[2] \in held'
  <2> SUFFICES ASSUME NEW u \in Uses, u[1] \in held' PROVE u[2] \in held'
    BY DEF StillHeld
  <2>1. CASE u[1] \in held
    BY <2>1, <1>1, <1>5 DEF HoldingInv, StillHeld
  <2>2. CASE u[1] = x
    <3>1. PICK j \in 1 .. (k + 1) - 1 : j # 8 /\ Startup[j] = u[2]
      BY <2>2, <1>4, StartInOrder
    <3>2. j \in 1 .. k
      BY <3>1
    <3> QED
      BY <3>1, <3>2, <1>2, <1>5 DEF StartedTo
  <2> QED
    BY <2>1, <2>2, <1>5
<1>8. HoldingTypes'
  BY <1>1, <1>3, <1>4, <1>5 DEF HoldingInv, HoldingTypes
<1> QED
  BY <1>1, <1>4, <1>6, <1>7, <1>8 DEF HoldingInv

\* A part cannot be had: its opener gives back what it had acquired.
LEMMA AcquireFailsKeeps ==
  ASSUME HoldingInv, AcquireFails
  PROVE  HoldingInv'
<1>1. /\ phase = "start" /\ phase' = "undo" /\ todo # <<>> /\ todo' = Undone(Head(todo)) /\ Head(todo) # "user"
      /\ refused = {} /\ refused' = {} /\ held' = held /\ packets' = packets /\ packets = Empty
  BY DEF HoldingInv, AcquireFails, frameVars
<1>2. PICK k \in 0 .. 18 : StartedTo(k)
  BY <1>1 DEF HoldingInv
<1>3. todo \in Seq(Names) /\ Len(todo) >= 1 /\ Head(todo) = todo[1]
  BY <1>1 DEF HoldingInv, HoldingTypes
<1>4. k \in 0 .. 17 /\ Head(todo) = Startup[k + 1]
  BY <1>2, <1>3 DEF StartedTo
<1>5. k # 7
  BY <1>1, <1>4, StartupIs
<1>6. PICK n \in 0 .. 8 : Covers(todo', n, k)
  BY <1>1, <1>4, <1>5, UndoneCovers
<1>7. PICK s : s = todo'
  OBVIOUS
<1>8. todo' \in Seq(Names) /\ Left' = {s[i] : i \in 1 .. n} /\ Orderly'
  BY <1>6, <1>7, Listed DEF Covers
<1>9. StillHeld' = held /\ StillHeld = held
  BY <1>1 DEF StillHeld
<1>10. held \cap GpuParts \subseteq Left'
  <2> SUFFICES ASSUME NEW y \in held, y \in GpuParts PROVE y \in Left'
    OBVIOUS
  <2>1. PICK j \in 1 .. k : y = Startup[j]
    BY <1>2 DEF StartedTo
  <2>2. PICK i \in 1 .. n : s[i] = y
    BY <2>1, <1>6, <1>7 DEF Covers
  <2> QED
    BY <2>2, <1>8
<1>11. "user" \in held => "pad" \in held \/ "user" \in Left'
  <2>1. CASE k <= 7
    <3>1. \A j \in 1 .. k : Startup[j] # "user"
      BY <2>1, <1>5, StartupIs
    <3> QED
      BY <3>1, <1>2 DEF StartedTo
  <2>2. CASE k = 8
    BY <2>2, <1>6, <1>7, <1>8 DEF Covers
  <2>3. CASE k >= 9
    <3>1. 9 \in 1 .. k
      BY <2>3
    <3> QED
      BY <3>1, <1>2, StartupIs DEF StartedTo
  <2> QED
    BY <2>1, <2>2, <2>3
<1>12. "pad" \notin Left'
  BY <1>6, <1>7, <1>8 DEF Covers
<1>13. HoldingTypes'
  BY <1>1, <1>8 DEF HoldingInv, HoldingTypes
<1>14. \A u \in Uses : u[1] \in StillHeld' => u[2] \in held'
  BY <1>1, <1>9 DEF HoldingInv
<1> QED
  BY <1>1, <1>8, <1>9, <1>10, <1>11, <1>12, <1>13, <1>14 DEF HoldingInv

\* The start ends with everything held, but for the user service perhaps.
LEMMA ReadyKeeps ==
  ASSUME HoldingInv, Ready
  PROVE  HoldingInv'
<1>1. /\ phase = "start" /\ phase' = "loop" /\ todo = <<>> /\ todo' = todo /\ held' = held
      /\ refused' = refused /\ packets' = packets
  BY DEF HoldingInv, Ready, frameVars
<1>2. PICK k \in 0 .. 18 : StartedTo(k)
  BY <1>1 DEF HoldingInv
<1>3. k = 18
  BY <1>1, <1>2 DEF StartedTo
<1>4. \A j \in 1 .. 18 : j # 8 => Startup[j] \in held
  BY <1>2, <1>3 DEF StartedTo
<1>5. HoldingTypes' /\ StillHeld' = StillHeld
  BY <1>1 DEF HoldingInv, HoldingTypes, StillHeld
<1> QED
  BY <1>1, <1>4, <1>5 DEF HoldingInv

\* Presenting acquires and gives back nothing; only the loop submits.
LEMMA PresentKeeps ==
  ASSUME HoldingInv, Present
  PROVE  HoldingInv'
<1>1. phase' = phase /\ todo' = todo /\ held' = held /\ refused' = refused
  BY DEF Present
<1>2. packets' # Empty => phase \in {"loop", "aborted"}
  <2>1. CASE phase = "loop"
    BY <2>1
  <2>2. CASE Gpu
    BY <2>2 DEF Gpu, HoldingInv, Empty
  <2>3. CASE Vblank
    BY <2>3 DEF Vblank, HoldingInv
  <2> QED
    BY <2>1, <2>2, <2>3 DEF Present
<1>3. HoldingTypes' /\ StillHeld' = StillHeld /\ Left' = Left /\ (Orderly => Orderly')
  BY <1>1 DEF HoldingInv, HoldingTypes, StillHeld, Left, Orderly
<1>4. \A k \in 0 .. 18 : StartedTo(k) => StartedTo(k)'
  BY <1>1 DEF StartedTo
<1> QED
  BY <1>1, <1>2, <1>3, <1>4 DEF HoldingInv

\* A stream of the guest is nothing that anything else uses.
LEMMA StreamKeeps ==
  ASSUME HoldingInv, Stream
  PROVE  HoldingInv'
<1>1. /\ phase = "loop" /\ phase' = phase /\ todo' = todo /\ refused' = refused /\ packets' = packets
      /\ held' \in {held \cup {"streams"}, held \ {"streams"}}
  BY DEF Stream, frameVars
<1>2. \A u \in Uses : u[1] # "streams" /\ u[2] # "streams"
  BY UsesAre
<1>3. \A j \in 1 .. 18 : Startup[j] # "streams"
  BY StartupIs
<1>4. \A x : x # "streams" => (x \in held' <=> x \in held) /\ (x \in StillHeld' <=> x \in StillHeld)
  BY <1>1 DEF StillHeld
<1>5. \A u \in Uses : u[1] \in StillHeld' => u[2] \in held'
  BY <1>2, <1>4 DEF HoldingInv
<1>6. \A j \in 1 .. 18 : j # 8 => Startup[j] \in held'
  BY <1>1, <1>3, <1>4 DEF HoldingInv
<1>7. "streams" \in Names
  BY DEF Names
<1> QED
  BY <1>1, <1>5, <1>6, <1>7 DEF HoldingInv, HoldingTypes

\* The process ends as it stands.
LEMMA AbortKeeps ==
  ASSUME HoldingInv, Abort
  PROVE  HoldingInv'
<1>1. phase' = "aborted" /\ todo' = todo /\ held' = held /\ refused' = refused
  BY DEF Abort
<1>2. HoldingTypes' /\ StillHeld' = StillHeld
  BY <1>1 DEF HoldingInv, HoldingTypes, StillHeld
<1> QED
  BY <1>1, <1>2 DEF HoldingInv

\* An orderly end: between two frames, with everything listed.
LEMMA LeaveKeeps ==
  ASSUME HoldingInv, FramesInv, Leave
  PROVE  HoldingInv'
<1>1. /\ phase = "loop" /\ phase' = "teardown" /\ todo' = Teardown /\ held' = held
      /\ refused' = refused /\ packets' = packets /\ cpu = "idle"
  BY DEF Leave, frameVars
<1>2. packets = Empty
  BY <1>1 DEF FramesInv, Progress
<1>3. Row(Teardown, 19) /\ InOrder(Teardown, 19)
  BY TeardownIs, ClosesInOrder
<1>4. todo' \in Seq(Names) /\ Left' = {Teardown[i] : i \in 1 .. 19} /\ Orderly'
  BY <1>1, <1>3, Listed
<1>5. held \subseteq Left'
  BY <1>4, TeardownNamesAll DEF HoldingInv, HoldingTypes
<1>6. HoldingTypes' /\ StillHeld' = StillHeld /\ StillHeld \subseteq held
  BY <1>1, <1>4 DEF HoldingInv, HoldingTypes, StillHeld
<1> QED
  BY <1>1, <1>2, <1>4, <1>5, <1>6 DEF HoldingInv

\* A close, taken back or refused: what uses it has gone before.
LEMMA GiveBackKeeps ==
  ASSUME HoldingInv, GiveBack
  PROVE  HoldingInv'
<1>1. /\ phase \in {"undo", "teardown"} /\ phase' = phase /\ todo # <<>> /\ todo' = Tail(todo)
      /\ packets' = packets /\ packets = Empty
  BY DEF HoldingInv, GiveBack, frameVars
<1>2. /\ Len(todo) >= 1 /\ Len(todo)' = Len(todo) - 1 /\ todo' \in Seq(Names)
      /\ Head(todo) = todo[1] /\ \A i \in 1 .. Len(todo) - 1 : todo'[i] = todo[i + 1]
      /\ Left \subseteq Left' \cup {todo[1]} /\ Left' \subseteq Left
  BY <1>1, Taken DEF HoldingInv
<1>3. PICK x : x = todo[1]
  OBVIOUS
<1>4. \/ held' = held \ {x} /\ refused' = refused
      \/ held' = held /\ refused' = refused \cup {x} /\ x \in held
  BY <1>2, <1>3 DEF GiveBack
<1>5. StillHeld' = StillHeld \ {x}
  BY <1>4 DEF StillHeld
<1>6. \A u \in Uses : u[1] \in StillHeld' => u[2] \in held'
  <2> SUFFICES ASSUME NEW u \in Uses, u[1] \in StillHeld' PROVE u[2] \in held'
    OBVIOUS
  <2>1. u[1] \in StillHeld /\ u[2] \in held
    BY <1>5 DEF HoldingInv
  <2>2. u[2] # x
    <3> SUFFICES ASSUME u[2] = x PROVE FALSE
      OBVIOUS
    <3>1. 1 \in 1 .. Len(todo) /\ Len(todo) \in Nat
      BY <1>2 DEF HoldingInv, HoldingTypes
    <3>2. \E j \in 1 .. 1 - 1 : todo[j] = u[1]
      BY <1>1, <1>3, <2>1, <3>1 DEF HoldingInv, Orderly
    <3> QED
      BY <3>2
  <2> QED
    BY <1>4, <2>1, <2>2
<1>7. Orderly'
  <2> SUFFICES ASSUME NEW u \in Uses, NEW i \in 1 .. Len(todo)', todo'[i] = u[2], u[1] \in StillHeld'
               PROVE  \E j \in 1 .. i - 1 : todo'[j] = u[1]
    BY DEF Orderly
  <2>1. i + 1 \in 1 .. Len(todo) /\ todo[i + 1] = u[2] /\ u[1] \in StillHeld /\ u[1] # x
    BY <1>2, <1>5 DEF HoldingInv, HoldingTypes
  <2>2. PICK j \in 1 .. (i + 1) - 1 : todo[j] = u[1]
    BY <1>1, <2>1 DEF HoldingInv, Orderly
  <2>3. j # 1
    BY <1>3, <2>1, <2>2
  <2>4. j - 1 \in 1 .. i - 1 /\ j - 1 \in 1 .. Len(todo) - 1
    BY <2>1, <2>2, <2>3, <1>2 DEF HoldingInv, HoldingTypes
  <2>5. todo'[j - 1] = todo[(j - 1) + 1]
    BY <1>2, <2>4
  <2> QED
    BY <2>2, <2>4, <2>5
<1>8. phase = "undo" =>
        /\ StillHeld' \cap GpuParts \subseteq Left'
        /\ "user" \in StillHeld' => "pad" \in held' \/ "user" \in Left'
        /\ "pad" \notin Left'
  <2> SUFFICES ASSUME phase = "undo"
               PROVE  /\ StillHeld' \cap GpuParts \subseteq Left'
                      /\ "user" \in StillHeld' => "pad" \in held' \/ "user" \in Left'
                      /\ "pad" \notin Left'
    OBVIOUS
  <2>1. StillHeld \cap GpuParts \subseteq Left /\ "pad" \notin Left
    BY DEF HoldingInv
  <2>2. "user" \in StillHeld => "pad" \in held \/ "user" \in Left
    BY DEF HoldingInv
  <2>3. x \in Left
    BY <1>2, <1>3 DEF Left
  <2>4. x # "pad"
    BY <2>1, <2>3
  <2> QED
    BY <2>1, <2>2, <2>4, <1>2, <1>3, <1>4, <1>5
<1>9. phase = "teardown" => StillHeld' \subseteq Left'
  BY <1>2, <1>3, <1>5 DEF HoldingInv
<1>10. HoldingTypes'
  BY <1>1, <1>2, <1>4 DEF HoldingInv, HoldingTypes
<1> QED
  BY <1>1, <1>6, <1>7, <1>8, <1>9, <1>10 DEF HoldingInv

\* The end of the teardown.
LEMMA EndKeeps ==
  ASSUME HoldingInv, End
  PROVE  HoldingInv'
<1>1. /\ phase = "teardown" /\ phase' = "ended" /\ todo = <<>> /\ todo' = todo /\ held' = held
      /\ refused' = refused /\ packets' = packets
  BY DEF End, frameVars
<1>2. Left = {} /\ StillHeld = {}
  BY <1>1 DEF HoldingInv, Left
<1>3. HoldingTypes' /\ StillHeld' = StillHeld
  BY <1>1 DEF HoldingInv, HoldingTypes, StillHeld
<1> QED
  BY <1>1, <1>2, <1>3 DEF HoldingInv

\* Every step of the title.
LEMMA HoldingStep ==
  ASSUME HoldingInv, FramesInv, [TitleNext]_titleVars
  PROVE  HoldingInv'
<1>1. CASE UNCHANGED titleVars
  <2>1. /\ phase' = phase /\ todo' = todo /\ held' = held /\ refused' = refused /\ packets' = packets
    BY <1>1 DEF titleVars, frameVars
  <2>2. HoldingTypes' /\ StillHeld' = StillHeld /\ Left' = Left /\ (Orderly => Orderly')
    BY <2>1 DEF HoldingInv, HoldingTypes, StillHeld, Left, Orderly
  <2>3. \A k \in 0 .. 18 : StartedTo(k) => StartedTo(k)'
    BY <2>1 DEF StartedTo
  <2> QED
    BY <2>1, <2>2, <2>3 DEF HoldingInv
<1> QED
  BY <1>1, AcquireKeeps, AcquireFailsKeeps, ReadyKeeps, PresentKeeps, StreamKeeps, AbortKeeps, LeaveKeeps,
     GiveBackKeeps, EndKeeps DEF TitleNext

\* With the holdings as the invariant has them, the teardown leaves nothing behind.
LEMMA HoldingIsSound == ASSUME FramesInv, HoldingInv PROVE TeardownExhaustive
<1>1. phase = "ended" => held \subseteq refused
  BY DEF HoldingInv, StillHeld
<1>2. phase = "undo" /\ todo = <<>> =>
        /\ held \cap ToSet(AgcParts \o VideoParts) \subseteq refused
        /\ "user" \in held \ refused => "pad" \in held
  <2> SUFFICES ASSUME phase = "undo", todo = <<>>
               PROVE  /\ held \cap GpuParts \subseteq refused
                      /\ "user" \in held \ refused => "pad" \in held
    BY PartsAre
  <2>1. Left = {}
    BY DEF Left
  <2> QED
    BY <2>1 DEF HoldingInv, StillHeld
<1>3. \A u \in Uses : u[1] \in held \ refused => u[2] \in held
  BY DEF HoldingInv, StillHeld
<1>4. phase # "aborted" /\ packets # <<>> => {"agcMap", "videoMap", "video"} \subseteq held
  <2> SUFFICES ASSUME phase # "aborted", packets # <<>> PROVE {"agcMap", "videoMap", "video"} \subseteq held
    OBVIOUS
  <2>1. phase = "loop"
    BY DEF HoldingInv, Empty
  <2>2. Startup[14] \in held /\ Startup[15] \in held /\ Startup[17] \in held
    BY <2>1 DEF HoldingInv
  <2> QED
    BY <2>2, StartupIs
<1> QED
  BY <1>1, <1>2, <1>3, <1>4 DEF TeardownExhaustive

\* Whatever calls the platform refuses, and wherever the start fails or the
\* title is told to end: nothing is left that could have been given back,
\* nothing goes before what uses it, and the pictures stay whole.
THEOREM RuntimeAlwaysSound == TitleSpec => []RuntimeSound
<1>1. TitleInit => FramesInv /\ HoldingInv
  BY FramesStart, HoldingStart DEF TitleInit
<1>2. FramesInv /\ HoldingInv /\ [TitleNext]_titleVars => (FramesInv /\ HoldingInv)'
  BY FramesStep, HoldingStep
<1>3. FramesInv /\ HoldingInv => TeardownExhaustive
  BY HoldingIsSound
<1>4. TitleSpec => []TeardownExhaustive
  BY <1>1, <1>2, <1>3, PTL DEF TitleSpec
<1> QED
  BY <1>4, FramesAlwaysWhole, PTL DEF RuntimeSound

\* What is still to be given back is listed once, and nothing of it was
\* refused before; every frame and every refusal is within the bounds.
OneEach(s, n) == \A i, j \in 1 .. n : j < i => s[i] # s[j]
TitleBounds ==
    /\ refused \subseteq held
    /\ phase \in {"undo", "teardown"} => OneEach(todo, Len(todo)) /\ Left \cap refused = {}
    /\ flips \in 0 .. MaxFrames /\ (cpu # "idle" => flips < MaxFrames)
    /\ failures \in 0 .. TitleFaults

\* Every list of closes names a part once.
LEMMA ListedOnce ==
  OneEach(AgcCloses, 4) /\ OneEach(VideoCloses, 8) /\ OneEach(Teardown, 19)
<1>1. OneEach(AgcCloses, 4)
  BY AgcClosesAre DEF OneEach
<1>2. OneEach(VideoCloses, 8)
  BY VideoClosesAre DEF OneEach
<1>3. OneEach(Teardown, 19)
  <2> SUFFICES ASSUME NEW i \in 1 .. 19, NEW j \in 1 .. 19, j < i PROVE Teardown[i] # Teardown[j]
    BY DEF OneEach
  <2>1. CASE i \in 1 .. 7
    BY <2>1, TeardownIs
  <2>2. CASE i \in 8 .. 13
    BY <2>2, TeardownIs
  <2>3. CASE i \in 14 .. 19
    BY <2>3, TeardownIs
  <2> QED
    BY <2>1, <2>2, <2>3
<1> QED
  BY <1>1, <1>2, <1>3

\* What an opener gives back is listed once.
LEMMA UndoneOnce ==
  ASSUME NEW part
  PROVE  OneEach(Undone(part), Len(Undone(part)))
<1>1. Undone(part) \in {<<>>, <<"user">>, AgcCloses, VideoCloses}
  BY DEF Undone
<1>2. OneEach(<<>>, Len(<<>>)) /\ OneEach(<<"user">>, Len(<<"user">>))
  BY DEF OneEach
<1>3. OneEach(AgcCloses, Len(AgcCloses)) /\ OneEach(VideoCloses, Len(VideoCloses))
  BY ListedOnce, AgcClosesAre, VideoClosesAre DEF Row
<1> QED
  BY <1>1, <1>2, <1>3

\* It holds at the start.
LEMMA TitleBoundsStart == TitleInit => TitleBounds
BY PresenterAssumption, TitleAssumption DEF TitleInit, FrameInit, TitleBounds

\* A frame is counted once, when its present began below the bound.
LEMMA FramesCounted ==
  ASSUME FramesInv, TitleBounds, Present
  PROVE  flips' \in 0 .. MaxFrames /\ (cpu' # "idle" => flips' < MaxFrames)
<1>1. flips \in Nat /\ flips <= MaxFrames /\ (cpu # "idle" => flips < MaxFrames)
  BY DEF TitleBounds
<1>2. CASE Draw
  BY <1>1, <1>2, PresenterAssumption DEF Draw, TitleBounds
<1>3. CASE WaitVblank
  BY <1>1, <1>3, PresenterAssumption DEF WaitVblank
<1>4. CASE Submit \/ Suspend \/ WaitFence \/ Gpu \/ Vblank
  BY <1>1, <1>4, PresenterAssumption DEF Submit, Suspend, WaitFence, Gpu, Vblank
<1> QED
  BY <1>2, <1>3, <1>4 DEF Present

\* A close, taken back or refused: no name comes twice.
LEMMA GiveBackOnce ==
  ASSUME HoldingInv, TitleBounds, GiveBack
  PROVE  /\ refused' \subseteq held' /\ failures' \in 0 .. TitleFaults
         /\ OneEach(todo, Len(todo))' /\ Left' \cap refused' = {}
<1>1. /\ phase \in {"undo", "teardown"} /\ todo # <<>> /\ todo' = Tail(todo)
      /\ HoldingTypes /\ OneEach(todo, Len(todo)) /\ Left \cap refused = {} /\ refused \subseteq held
  BY DEF HoldingInv, TitleBounds, GiveBack
<1>2. /\ Len(todo) >= 1 /\ Len(todo)' = Len(todo) - 1 /\ Head(todo) = todo[1]
      /\ \A i \in 1 .. Len(todo) - 1 : todo'[i] = todo[i + 1]
      /\ Left' \subseteq Left
  BY <1>1, Taken
<1>3. PICK x : x = todo[1]
  OBVIOUS
<1>4. Len(todo) \in Nat
  BY <1>1 DEF HoldingTypes
<1>5. x \in Left
  BY <1>2, <1>3, <1>4 DEF Left
<1>6. x \notin Left'
  <2> SUFFICES ASSUME NEW i \in 1 .. Len(todo)', todo'[i] = x PROVE FALSE
    BY DEF Left
  <2>1. i + 1 \in 1 .. Len(todo) /\ 1 \in 1 .. Len(todo) /\ 1 < i + 1 /\ todo[i + 1] = todo[1]
    BY <1>2, <1>3, <1>4
  <2> QED
    BY <1>1, <2>1 DEF OneEach
<1>7. OneEach(todo, Len(todo))'
  <2> SUFFICES ASSUME NEW i \in 1 .. Len(todo)', NEW j \in 1 .. Len(todo)', j < i PROVE todo'[i] # todo'[j]
    BY DEF OneEach
  <2>1. i + 1 \in 1 .. Len(todo) /\ j + 1 \in 1 .. Len(todo) /\ j + 1 < i + 1 /\ todo'[i] = todo[i + 1] /\ todo'[j] = todo[j + 1]
    BY <1>2, <1>4
  <2> QED
    BY <1>1, <2>1 DEF OneEach
<1>8. \/ held' = held \ {x} /\ refused' = refused /\ failures' = failures
      \/ held' = held /\ refused' = refused \cup {x} /\ x \in held /\ failures > 0 /\ failures' = failures - 1
  BY <1>2, <1>3 DEF GiveBack
<1>9. x \notin refused
  BY <1>1, <1>5
<1>10. failures' \in 0 .. TitleFaults
  BY <1>8, TitleAssumption DEF TitleBounds
<1> QED
  BY <1>1, <1>2, <1>6, <1>7, <1>8, <1>9, <1>10

\* Every step of the title keeps it.
LEMMA TitleBoundsStep ==
  ASSUME FramesInv, HoldingInv, TitleBounds, [TitleNext]_titleVars
  PROVE  TitleBounds'
<1>1. CASE Present
  <2>1. UNCHANGED <<phase, held, todo, refused, failures>>
    BY <1>1 DEF Present
  <2>2. flips' \in 0 .. MaxFrames /\ (cpu' # "idle" => flips' < MaxFrames)
    BY <1>1, FramesCounted
  <2> QED
    BY <2>1, <2>2 DEF TitleBounds, Left
<1>2. CASE GiveBack
  <2>1. UNCHANGED <<cpu, flips, phase>>
    BY <1>2 DEF GiveBack, frameVars
  <2>2. /\ refused' \subseteq held' /\ failures' \in 0 .. TitleFaults
        /\ OneEach(todo, Len(todo))' /\ Left' \cap refused' = {}
    BY <1>2, GiveBackOnce
  <2> QED
    BY <2>1, <2>2 DEF TitleBounds
<1>3. CASE AcquireFails
  <2>1. /\ UNCHANGED <<cpu, flips, held, refused>> /\ failures > 0 /\ failures' = failures - 1
        /\ phase' = "undo" /\ phase = "start" /\ todo' = Undone(Head(todo))
    BY <1>3 DEF AcquireFails, frameVars
  <2>2. refused = {}
    BY <2>1 DEF HoldingInv
  <2>3. OneEach(todo', Len(todo'))
    BY <2>1, UndoneOnce
  <2>4. failures' \in 0 .. TitleFaults
    BY <2>1, TitleAssumption DEF TitleBounds
  <2> QED
    BY <2>1, <2>2, <2>3, <2>4 DEF TitleBounds
<1>4. CASE Leave
  <2>1. /\ UNCHANGED <<cpu, flips, held, refused, failures>> /\ phase = "loop" /\ todo' = Teardown
    BY <1>4 DEF Leave, frameVars
  <2>2. refused = {}
    BY <2>1 DEF HoldingInv
  <2>3. OneEach(todo', Len(todo'))
    BY <2>1, ListedOnce, TeardownIs DEF Row
  <2> QED
    BY <2>1, <2>2, <2>3 DEF TitleBounds
<1>5. CASE Acquire \/ UserNotOwned \/ Ready \/ Stream
  <2>1. UNCHANGED <<cpu, flips, refused, failures>> /\ phase \in {"start", "loop"} /\ phase' \in {"start", "loop"}
    BY <1>5 DEF Acquire, UserNotOwned, Ready, Stream, frameVars
  <2>2. refused = {}
    BY <2>1 DEF HoldingInv
  <2> QED
    BY <2>1, <2>2 DEF TitleBounds
<1>6. CASE Abort \/ End
  <2>1. UNCHANGED <<cpu, flips, held, refused, failures>> /\ phase' \in {"aborted", "ended"}
    BY <1>6 DEF Abort, End, frameVars
  <2> QED
    BY <2>1 DEF TitleBounds
<1>7. CASE UNCHANGED titleVars
  BY <1>7 DEF titleVars, frameVars, TitleBounds, Left
<1> QED
  BY <1>1, <1>2, <1>3, <1>4, <1>5, <1>6, <1>7 DEF TitleNext

\* The names of what the title acquires.
LEMMA NamesAre == Names = ToSet(Startup) \cup {"streams"}
<1>1. DOMAIN Startup = 1 .. 18
  BY StartupIs DEF Row
<1>2. ToSet(Startup) = {Startup[i] : i \in 1 .. 18}
  BY <1>1 DEF ToSet
<1>3. \A i \in 1 .. 18 : Startup[i] \in Names
  <2>1. Startup \in Seq(Names) /\ Len(Startup) = 18
    BY StartupIs DEF Row
  <2> QED
    BY <2>1, ElementOfSeq
<1>4. \A x \in Names \ {"streams"} : \E i \in 1 .. 18 : Startup[i] = x
  <2> SUFFICES ASSUME NEW x \in Names, x # "streams" PROVE \E i \in 1 .. 18 : Startup[i] = x
    OBVIOUS
  <2>1. CASE x \in {"root", "stack", "thread", "crt", "heap", "image", "audio"}
    BY <2>1, StartupIs
  <2>2. CASE x \in {"user", "pad", "engine", "agcModule", "agcRange"}
    BY <2>2, StartupIs
  <2>3. CASE x \in {"agcMemory", "agcMap", "video", "videoMemory", "videoMap", "buffers"}
    BY <2>3, StartupIs
  <2> QED
    BY <2>1, <2>2, <2>3 DEF Names
<1>5. "streams" \in Names
  BY DEF Names
<1> QED
  BY <1>2, <1>3, <1>4, <1>5

\* What the title holds has its types, and its frames and refusals their bounds.
LEMMA TitleTyped == ASSUME FramesInv, HoldingInv, TitleBounds PROVE TitleTypeOK
<1>1. held \subseteq ToSet(Startup) \cup {"streams"}
  BY NamesAre DEF HoldingInv, HoldingTypes
<1>2. cpu \in {"idle", "drawn", "submitted", "waiting", "vblank"}
  BY DEF FramesInv, FrameTypes
<1> QED
  BY <1>1, <1>2 DEF TitleTypeOK, TitleBounds

\* The runtime holds only what it can acquire, what was refused is among it,
\* and no more frames are presented or calls refused than a behaviour may have.
THEOREM TitleTyping == TitleSpec => []TitleTypeOK
<1>1. TitleInit => FramesInv /\ HoldingInv /\ TitleBounds
  BY FramesStart, HoldingStart, TitleBoundsStart DEF TitleInit
<1>2. FramesInv /\ HoldingInv /\ TitleBounds /\ [TitleNext]_titleVars => (FramesInv /\ HoldingInv /\ TitleBounds)'
  BY FramesStep, HoldingStep, TitleBoundsStep
<1>3. FramesInv /\ HoldingInv /\ TitleBounds => TitleTypeOK
  BY TitleTyped
<1> QED
  BY <1>1, <1>2, <1>3, PTL DEF TitleSpec

-----------------------------------------------------------------------------
(* The image of a module.                                                  *)

\* A section as it was planned, and headers that passed.
PePlaced == [rva : Nat, mapped : Nat, bytes : Nat, at : Nat, size : Nat, raw : Nat]
PeFits(s, n) ==
    s.bytes <= s.mapped /\ s.raw <= s.bytes /\ s.raw <= s.size /\ (s.size # 0 => s.at + s.size <= n)
PeHeader(p) ==
    /\ p.file \in Nat /\ p.headers \in Nat /\ p.bytes \in Words /\ p.count \in Nat /\ p.wide \in BOOLEAN
    /\ p.sections \subseteq FileSections
    /\ p.headers <= p.file
    /\ AlignUp(p.headers) \in Words /\ p.headers <= AlignUp(p.headers)

\* The sections planned follow each other, after the headers and below e.
PeBelow(ps, e) == \A i \in 1 .. Len(ps) : ps[i].rva + ps[i].mapped <= e
PeBehind(ps, h) == \A i \in 1 .. Len(ps) : h <= ps[i].rva
PeOrdered(ps) == \A i, j \in 1 .. Len(ps) : i < j => ps[i].rva + ps[i].mapped <= ps[j].rva
PePlan(p, ps, e) ==
    /\ ps \in Seq(PePlaced) /\ Len(ps) <= p.count
    /\ e \in Words /\ AlignUp(p.headers) <= e /\ e <= p.bytes
    /\ \A i \in 1 .. Len(ps) : PeFits(ps[i], p.file)
    /\ PeBehind(ps, AlignUp(p.headers)) /\ PeBelow(ps, e) /\ PeOrdered(ps)

\* An interval of so many units, and slots that do not overlap in them.
PeInside(t, n) == t[1] \in Nat /\ t[2] \in Nat /\ t[1] + t[2] <= n
PeApart(ws) == \A a, b \in ws : a # b => a + ThunkUnits <= b \/ b + ThunkUnits <= a
PeSlots(ws, n) == (\A w \in ws : w \in Nat /\ w + ThunkUnits <= n) /\ PeApart(ws)

PeStages == {"parse", "plan", "map", "reloc", "blocks", "bind", "ready", "refused"}
PeEmpty == {"parse", "refused"}

PeTypes ==
    /\ stage \in PeStages
    /\ region = NoRegion \/ region \in Bases
    /\ block \in [rva : Nat, left : Nat]
PeNothing ==
    stage \in PeEmpty =>
        /\ pe = NoHeaders /\ planned = <<>> /\ planEnd = 0 /\ region = NoRegion
        /\ touched = {} /\ read = {} /\ writes = {}
PePlans == stage \notin PeEmpty => PeHeader(pe) /\ PePlan(pe, planned, planEnd)
PePlaces == region # NoRegion /\ ~pe.wide => region + pe.bytes <= Word
PeTouches == \A t \in touched : PeInside(t, pe.bytes)
PeReads == \A r \in read : PeInside(r, pe.file)
PeBinds == PeSlots(writes, pe.bytes)
PeBound == (bound # {} => stage = "ready") /\ PeApart(bound)
PeInv ==
    PeTypes /\ PeNothing /\ PePlans /\ PePlaces /\ PeTouches /\ PeReads /\ PeBinds /\ PeBound

\* The numbers.
LEMMA PeNumbers ==
  /\ Page \in Nat /\ Page > 1 /\ Word \in Nat /\ Word > 0 /\ Words = 0 .. Word - 1 /\ Words \subseteq Nat
  /\ Spans \subseteq Words /\ Widths \subseteq Nat /\ Bases \subseteq Nat /\ Images \subseteq FileHeaders
BY PeImageAssumption DEF Words

\* align_up_u32 gives a word, and not a smaller one, or overflows.
LEMMA PeAligned ==
  ASSUME NEW v \in Words, AlignUp(v) # Overflow
  PROVE  AlignUp(v) \in Words /\ v <= AlignUp(v)
<1>1. v \in Nat /\ Page \in Nat /\ Page > 1 /\ Word \in Nat /\ Words = 0 .. Word - 1
  BY PeNumbers
<1>2. v <= Word - 1 - (Page - 1) /\ AlignUp(v) = ((v + Page - 1) \div Page) * Page
  BY <1>1 DEF AlignUp
<1>3. PICK m \in Nat : m = v + Page - 1
  BY <1>1
<1>4. PICK k \in Nat : k = m \div Page
  BY <1>1
<1>5. m = Page * k + (m % Page) /\ m % Page \in Nat /\ m % Page < Page
  BY <1>1, <1>4
<1>6. AlignUp(v) = k * Page
  BY <1>2, <1>3, <1>4
<1>7. k * Page \in Nat /\ k * Page = Page * k
  BY <1>1
<1>8. k * Page >= v /\ k * Page <= m
  BY <1>1, <1>3, <1>5, <1>7
<1> QED
  BY <1>1, <1>2, <1>3, <1>6, <1>7, <1>8

\* At the start.
LEMMA PeStarts ==
  ASSUME PeInit
  PROVE  PeInv
<1> USE DEF PeInit
<1>1. PeTypes /\ PeNothing
  BY DEF PeTypes, PeNothing, PeStages, PeEmpty, NoBlock
<1>2. PePlans /\ PePlaces
  BY DEF PePlans, PePlaces, PeEmpty
<1>3. PeTouches /\ PeReads
  BY DEF PeTouches, PeReads
<1>4. PeBinds /\ PeBound
  BY DEF PeBinds, PeBound, PeSlots, PeApart
<1> QED
  BY <1>1, <1>2, <1>3, <1>4 DEF PeInv

\* A refusal leaves nothing.
LEMMA PeRefused ==
  ASSUME PeInv, stage # "ready", Refuse
  PROVE  PeInv'
<1> USE DEF Refuse
<1>1. bound' = {}
  BY DEF PeInv, PeBound
<1>2. PeTypes' /\ PeNothing'
  BY DEF PeTypes, PeNothing, PeStages, PeEmpty, NoBlock
<1>3. PePlans' /\ PePlaces'
  BY DEF PePlans, PePlaces, PeEmpty
<1>4. PeTouches' /\ PeReads'
  BY DEF PeTouches, PeReads
<1>5. PeBinds' /\ PeBound'
  BY <1>1 DEF PeBinds, PeBound, PeSlots, PeApart
<1> QED
  BY <1>2, <1>3, <1>4, <1>5 DEF PeInv

\* Headers that pass.
LEMMA PeParsed ==
  ASSUME PeInv, NEW h \in Images, ParseHeaders(h)
  PROVE  PeInv'
<1>1. stage = "parse"
  BY DEF ParseHeaders
<1>2. CASE ~HeadersPass(h)
  BY <1>1, <1>2, PeRefused DEF ParseHeaders
<1>3. CASE HeadersPass(h)
  <2>1. /\ pe' = [h EXCEPT !.bytes = AlignUp(h.size)] /\ planEnd' = AlignUp(h.headers) /\ stage' = "plan"
        /\ read' = {<<0, h.headers>>}
        /\ UNCHANGED <<planned, region, relocAt, block, writes, bound, touched, turns>>
    BY <1>3 DEF ParseHeaders
  <2>2. /\ h \in FileHeaders /\ h.file \in Nat /\ h.headers \in Words /\ h.size \in Words /\ h.count \in Nat
        /\ h.wide \in BOOLEAN /\ h.sections \subseteq FileSections
    BY PeNumbers DEF FileHeaders
  <2>3. /\ pe'.file = h.file /\ pe'.headers = h.headers /\ pe'.bytes = AlignUp(h.size) /\ pe'.count = h.count
        /\ pe'.wide = h.wide /\ pe'.sections = h.sections
    BY <2>1, <2>2 DEF FileHeaders
  <2>4. /\ h.headers <= h.file /\ AlignUp(h.size) # Overflow /\ AlignUp(h.headers) # Overflow
        /\ AlignUp(h.headers) <= AlignUp(h.size)
    BY <1>3 DEF HeadersPass
  <2>5. AlignUp(h.size) \in Words /\ AlignUp(h.headers) \in Words /\ h.headers <= AlignUp(h.headers)
    BY <2>2, <2>4, PeAligned
  <2>6. h.headers \in Nat
    BY <2>2, PeNumbers
  <2>7. planned = <<>> /\ region = NoRegion /\ bound = {}
    BY <1>1 DEF PeInv, PeNothing, PeEmpty, PeBound
  <2>8. touched = {} /\ writes = {}
    BY <1>1 DEF PeInv, PeNothing, PeEmpty
  <2>9. PeTypes' /\ PeNothing'
    BY <2>1 DEF PeInv, PeTypes, PeNothing, PeStages, PeEmpty
  <2>10. PeHeader(pe')
    BY <2>2, <2>3, <2>4, <2>5, <2>6 DEF PeHeader
  <2>11. PePlan(pe', <<>>, AlignUp(h.headers))
    <3>1. <<>> \in Seq(PePlaced) /\ Len(<<>>) = 0
      OBVIOUS
    <3>2. 0 <= h.count
      BY <2>2
    <3>3. \A i \in 1 .. 0 : FALSE
      OBVIOUS
    <3>4. AlignUp(h.headers) <= AlignUp(h.headers)
      BY <2>5, PeNumbers
    <3>5. PeBehind(<<>>, AlignUp(h.headers)) /\ PeBelow(<<>>, AlignUp(h.headers)) /\ PeOrdered(<<>>)
      BY <3>1, <3>3 DEF PeBehind, PeBelow, PeOrdered
    <3> QED
      BY <2>3, <2>4, <2>5, <3>1, <3>2, <3>3, <3>4, <3>5 DEF PePlan
  <2>12. PePlans'
    BY <2>1, <2>7, <2>10, <2>11 DEF PePlans
  <2>13. PePlaces' /\ PeTouches'
    BY <2>1, <2>7, <2>8 DEF PePlaces, PeTouches
  <2>14. PeReads'
    <3>1. \A r \in {<<0, h.headers>>} : r[1] = 0 /\ r[2] = h.headers
      OBVIOUS
    <3> QED
      BY <2>1, <2>3, <2>4, <2>6, <3>1 DEF PeReads, PeInside
  <2>15. PeBinds' /\ PeBound'
    BY <2>1, <2>7, <2>8 DEF PeBinds, PeBound, PeSlots, PeApart
  <2> QED
    BY <2>9, <2>12, <2>13, <2>14, <2>15 DEF PeInv
<1> QED
  BY <1>2, <1>3

\* A section of the plan.
LEMMA PePart ==
  ASSUME NEW ps, ps \in Seq(PePlaced)
  PROVE  /\ Len(ps) \in Nat
         /\ \A i \in 1 .. Len(ps) : /\ ps[i] \in PePlaced /\ ps[i].rva \in Nat /\ ps[i].mapped \in Nat
                                    /\ ps[i].bytes \in Nat /\ ps[i].at \in Nat /\ ps[i].size \in Nat
                                    /\ ps[i].raw \in Nat
<1>1. Len(ps) \in Nat /\ \A i \in 1 .. Len(ps) : ps[i] \in PePlaced
  BY LenProperties, ElementOfSeq
<1> QED
  BY <1>1 DEF PePlaced

\* One more section, behind the others.
LEMMA PeLonger ==
  ASSUME NEW p, PeHeader(p), NEW ps, NEW e, PePlan(p, ps, e), Len(ps) < p.count,
         NEW s \in PePlaced, PeFits(s, p.file), e <= s.rva, s.rva + s.mapped <= p.bytes,
         NEW r, r = Append(ps, s)
  PROVE  PePlan(p, r, s.rva + s.mapped)
<1>1. /\ ps \in Seq(PePlaced) /\ e \in Nat /\ AlignUp(p.headers) \in Nat /\ AlignUp(p.headers) <= e
      /\ s.rva \in Nat /\ s.mapped \in Nat /\ p.bytes \in Words /\ p.count \in Nat
  BY PeNumbers DEF PePlan, PeHeader, PePlaced
<1>2. PICK n \in Nat : n = Len(ps)
  BY <1>1, PePart
<1>3. /\ r \in Seq(PePlaced) /\ Len(r) = n + 1 /\ r[n + 1] = s
      /\ \A i \in 1 .. n : r[i] = ps[i]
  BY <1>1, <1>2, AppendProperties
<1>4. \A i \in 1 .. n : ps[i].rva \in Nat /\ ps[i].mapped \in Nat
  BY <1>1, <1>2, PePart
<1>5. /\ \A i \in 1 .. n : PeFits(ps[i], p.file) /\ AlignUp(p.headers) <= ps[i].rva /\ ps[i].rva + ps[i].mapped <= e
      /\ \A i, j \in 1 .. n : i < j => ps[i].rva + ps[i].mapped <= ps[j].rva
  BY <1>2 DEF PePlan, PeBehind, PeBelow, PeOrdered
<1>6. Len(r) <= p.count
  BY <1>1, <1>2, <1>3
<1>7. s.rva + s.mapped \in Words /\ AlignUp(p.headers) <= s.rva + s.mapped
  BY <1>1, PeNumbers
<1>8. ASSUME NEW i \in 1 .. n + 1
      PROVE  PeFits(r[i], p.file) /\ AlignUp(p.headers) <= r[i].rva /\ r[i].rva + r[i].mapped <= s.rva + s.mapped
  <2>1. CASE i = n + 1
    BY <1>1, <1>3, <2>1
  <2>2. CASE i \in 1 .. n
    <3>1. r[i] = ps[i] /\ ps[i].rva \in Nat /\ ps[i].mapped \in Nat
      BY <1>3, <1>4, <2>2
    <3>2. PeFits(ps[i], p.file) /\ AlignUp(p.headers) <= ps[i].rva /\ ps[i].rva + ps[i].mapped <= e
      BY <1>5, <2>2
    <3>3. ps[i].rva + ps[i].mapped <= s.rva + s.mapped
      BY <1>1, <3>1, <3>2, SMTT(20)
    <3> QED
      BY <3>1, <3>2, <3>3
  <2> QED
    BY <1>2, <2>1, <2>2
<1>9. ASSUME NEW i \in 1 .. n + 1, NEW j \in 1 .. n + 1, i < j
      PROVE  r[i].rva + r[i].mapped <= r[j].rva
  <2>1. i \in 1 .. n /\ r[i] = ps[i] /\ ps[i].rva \in Nat /\ ps[i].mapped \in Nat
    BY <1>2, <1>3, <1>4, <1>9
  <2>2. CASE j = n + 1
    <3>1. ps[i].rva + ps[i].mapped <= e
      BY <1>5, <2>1
    <3> QED
      BY <1>1, <1>3, <2>1, <2>2, <3>1
  <2>3. CASE j \in 1 .. n
    BY <1>3, <1>5, <1>9, <2>1, <2>3
  <2> QED
    BY <1>2, <2>2, <2>3
<1>10. PeBehind(r, AlignUp(p.headers)) /\ PeBelow(r, s.rva + s.mapped) /\ PeOrdered(r)
  BY <1>3, <1>8, <1>9 DEF PeBehind, PeBelow, PeOrdered
<1>11. \A i \in 1 .. Len(r) : PeFits(r[i], p.file)
  BY <1>3, <1>8
<1> QED
  BY <1>1, <1>3, <1>6, <1>7, <1>10, <1>11 DEF PePlan

\* What passes as a section can be planned.
LEMMA PeSectioned ==
  ASSUME PeHeader(pe), PePlan(pe, planned, planEnd), NEW s \in FileSections, SectionPass(s),
         NEW t, t = [rva |-> s.rva, mapped |-> AlignUp(VirtualBytes(s)), bytes |-> VirtualBytes(s), at |-> s.at,
                     size |-> s.raw, raw |-> Smaller(s.raw, VirtualBytes(s))]
  PROVE  /\ t \in PePlaced /\ PeFits(t, pe.file) /\ planEnd <= t.rva /\ t.rva + t.mapped <= pe.bytes
         /\ (s.rva + AlignUp(VirtualBytes(s))) % Word = t.rva + t.mapped
<1>1. /\ s.rva \in Words /\ s.virtual \in Words /\ s.raw \in Words /\ s.at \in Words
      /\ s.rva \in Nat /\ s.virtual \in Nat /\ s.raw \in Nat /\ s.at \in Nat
  BY PeNumbers DEF FileSections
<1>2. PICK v \in Words : v = VirtualBytes(s)
  BY <1>1 DEF VirtualBytes
<1>3. /\ s.raw # 0 => s.raw <= pe.file /\ s.at <= pe.file - s.raw
      /\ s.rva >= planEnd /\ AlignUp(v) # Overflow
      /\ AlignUp(v) <= pe.bytes /\ s.rva <= pe.bytes - AlignUp(v)
  BY <1>2 DEF SectionPass, SpanOk
<1>4. PICK m \in Words : m = AlignUp(v) /\ v <= m
  BY <1>3, PeAligned
<1>5. m \in Nat /\ v \in Nat /\ pe.bytes \in Words /\ pe.bytes \in Nat /\ pe.file \in Nat /\ planEnd \in Nat
  BY PeNumbers DEF PeHeader, PePlan
<1>6. PICK w \in Nat : w = Smaller(s.raw, v) /\ w <= s.raw /\ w <= v
  BY <1>1, <1>5 DEF Smaller
<1>7. t.rva = s.rva /\ t.mapped = m /\ t.bytes = v /\ t.at = s.at /\ t.size = s.raw /\ t.raw = w
  BY <1>2, <1>4, <1>6
<1>8. t \in PePlaced
  BY <1>1, <1>2, <1>4, <1>5, <1>6 DEF PePlaced
<1>9. s.raw # 0 => s.at + s.raw <= pe.file
  BY <1>1, <1>3, <1>5
<1>10. PeFits(t, pe.file)
  BY <1>4, <1>6, <1>7, <1>9 DEF PeFits
<1>11. s.rva + m <= pe.bytes /\ planEnd <= s.rva
  BY <1>1, <1>3, <1>4, <1>5
<1>12. (s.rva + m) % Word = s.rva + m
  <2>1. PICK k \in Nat : k = s.rva + m
    BY <1>1, <1>5
  <2>2. k < Word /\ Word \in Nat /\ Word > 0
    BY <1>5, <1>11, <2>1, PeNumbers
  <2>3. k % Word = k
    BY ONLY <2>1, <2>2
  <2> QED
    BY <2>1, <2>3
<1> QED
  BY <1>2, <1>4, <1>7, <1>8, <1>10, <1>11, <1>12

\* A section is planned.
LEMMA PePlansOne ==
  ASSUME PeInv, NEW s \in pe.sections, PlanSection(s)
  PROVE  PeInv'
<1>1. stage = "plan"
  BY DEF PlanSection
<1>2. CASE ~SectionPass(s)
  BY <1>1, <1>2, PeRefused DEF PlanSection
<1>3. CASE SectionPass(s)
  <2>1. PeHeader(pe) /\ PePlan(pe, planned, planEnd)
    BY <1>1 DEF PeInv, PePlans, PeEmpty
  <2>2. PICK t : t = [rva |-> s.rva, mapped |-> AlignUp(VirtualBytes(s)), bytes |-> VirtualBytes(s), at |-> s.at,
                      size |-> s.raw, raw |-> Smaller(s.raw, VirtualBytes(s))]
    OBVIOUS
  <2>3. /\ planned' = Append(planned, t) /\ planEnd' = (s.rva + AlignUp(VirtualBytes(s))) % Word
        /\ UNCHANGED <<stage, pe, region, relocAt, block, writes, bound, touched, read, turns>>
        /\ Len(planned) < pe.count
    BY <1>3, <2>2 DEF PlanSection
  <2>4. s \in FileSections
    BY <2>1 DEF PeHeader
  <2>5. /\ t \in PePlaced /\ PeFits(t, pe.file) /\ planEnd <= t.rva /\ t.rva + t.mapped <= pe.bytes
        /\ planEnd' = t.rva + t.mapped
    BY <1>3, <2>1, <2>2, <2>3, <2>4, PeSectioned
  <2>6. PICK r : r = Append(planned, t)
    OBVIOUS
  <2>7. PePlan(pe, r, t.rva + t.mapped)
    BY <2>1, <2>3, <2>5, <2>6, PeLonger
  <2>8. PePlans'
    BY <2>1, <2>3, <2>5, <2>6, <2>7 DEF PePlans
  <2>9. PeTypes' /\ PeNothing'
    BY <1>1, <2>3 DEF PeInv, PeTypes, PeNothing, PeEmpty
  <2>10. PePlaces' /\ PeTouches' /\ PeReads' /\ PeBinds' /\ PeBound'
    BY <2>3 DEF PeInv, PePlaces, PeTouches, PeReads, PeBinds, PeBound
  <2> QED
    BY <2>8, <2>9, <2>10 DEF PeInv
<1> QED
  BY <1>2, <1>3

\* The plan is at its end.
LEMMA PePlansEnd ==
  ASSUME PeInv, PlanEnds
  PROVE  PeInv'
<1>1. stage = "plan"
  BY DEF PlanEnds
<1>2. CASE ~(planEnd <= pe.bytes /\ (pe.entry # 0 => pe.entry < pe.bytes))
  BY <1>1, <1>2, PeRefused DEF PlanEnds
<1>3. CASE planEnd <= pe.bytes /\ (pe.entry # 0 => pe.entry < pe.bytes)
  <2>1. /\ stage' = "map"
        /\ UNCHANGED <<pe, planned, planEnd, region, relocAt, block, writes, bound, touched, read, turns>>
    BY <1>3 DEF PlanEnds
  <2>2. PeTypes' /\ PeNothing' /\ PePlans'
    BY <1>1, <2>1 DEF PeInv, PeTypes, PeNothing, PePlans, PeEmpty, PeStages
  <2>3. PePlaces' /\ PeTouches' /\ PeReads' /\ PeBinds' /\ PeBound'
    BY <1>1, <2>1 DEF PeInv, PePlaces, PeTouches, PeReads, PeBinds, PeBound
  <2> QED
    BY <2>2, <2>3 DEF PeInv
<1> QED
  BY <1>2, <1>3

\* What is copied lies in the mapping, and comes from the file.
LEMMA PeCopied ==
  ASSUME PeHeader(pe), PePlan(pe, planned, planEnd), NEW c \in Copies
  PROVE  PeInside(<<c[1], c[3]>>, pe.bytes) /\ PeInside(<<c[2], c[3]>>, pe.file)
<1>1. /\ pe.headers \in Nat /\ pe.file \in Nat /\ pe.headers <= pe.file /\ pe.bytes \in Nat /\ planEnd \in Nat
      /\ AlignUp(pe.headers) \in Nat /\ pe.headers <= AlignUp(pe.headers)
      /\ AlignUp(pe.headers) <= planEnd /\ planEnd <= pe.bytes
  BY PeNumbers DEF PeHeader, PePlan
<1>2. CASE c = <<0, 0, pe.headers>>
  BY <1>1, <1>2 DEF PeInside
<1>3. CASE c # <<0, 0, pe.headers>>
  <2>1. PICK s \in ToSet(planned) : s.raw # 0 /\ c = <<s.rva, s.at, s.raw>>
    BY <1>3 DEF Copies
  <2>2. planned \in Seq(PePlaced)
    BY DEF PePlan
  <2>3. PICK i \in 1 .. Len(planned) : s = planned[i]
    BY <2>1, <2>2, LenProperties DEF ToSet
  <2>4. /\ s.rva \in Nat /\ s.mapped \in Nat /\ s.bytes \in Nat /\ s.at \in Nat /\ s.size \in Nat /\ s.raw \in Nat
    BY <2>2, <2>3, PePart
  <2>5. /\ s.bytes <= s.mapped /\ s.raw <= s.bytes /\ s.raw <= s.size /\ (s.size # 0 => s.at + s.size <= pe.file)
        /\ s.rva + s.mapped <= planEnd
    BY <2>3 DEF PePlan, PeFits, PeBelow
  <2>6. PICK x, y, z, m, b, f, e \in Nat :
           /\ x = s.rva /\ y = s.at /\ z = s.raw /\ m = s.mapped /\ b = s.size
           /\ f = pe.file /\ e = pe.bytes
    BY <1>1, <2>4
  <2>8. z <= m /\ y + b <= f /\ z <= b /\ x + m <= e
    <3>1. s.size # 0
      BY ONLY <2>1, <2>4, <2>5
    <3>2. z <= m
      BY ONLY <2>4, <2>5, <2>6, SMTT(20)
    <3>3. z <= b /\ y + b <= f
      BY <2>5, <2>6, <3>1
    <3>4. PICK d \in Nat : d = planEnd /\ d <= e
      BY <1>1, <2>6
    <3>5. x + m <= d
      BY <2>5, <2>6, <3>4
    <3> QED
      BY ONLY <2>6, <3>2, <3>3, <3>4, <3>5, SMTT(20)
  <2>9. x + z <= e /\ y + z <= f
    BY <2>8
  <2>7. c[1] = s.rva /\ c[2] = s.at /\ c[3] = s.raw
    BY <2>1
  <2> QED
    BY <2>6, <2>7, <2>9 DEF PeInside
<1> QED
  BY <1>2, <1>3

\* The image is mapped.
LEMMA PeMapped ==
  ASSUME PeInv, NEW a \in Bases, MapImage(a)
  PROVE  PeInv'
<1>1. stage = "map"
  BY DEF MapImage
<1>2. PeHeader(pe) /\ PePlan(pe, planned, planEnd) /\ pe.bytes \in Nat
  BY <1>1, PeNumbers DEF PeInv, PePlans, PeEmpty, PeHeader
<1>3. CASE ~((Relocatable \/ a = pe.base) /\ (pe.wide \/ (a < Word /\ pe.bytes <= Word - a)))
  BY <1>1, <1>3, PeRefused DEF MapImage
<1>4. CASE (Relocatable \/ a = pe.base) /\ (pe.wide \/ (a < Word /\ pe.bytes <= Word - a))
  <2>1. /\ region' = a /\ touched' = {<<c[1], c[3]>> : c \in Copies} /\ read' = {<<c[2], c[3]>> : c \in Copies}
        /\ stage' \in {"bind", "reloc"}
        /\ UNCHANGED <<pe, planned, planEnd, block, writes, bound, turns>>
    BY <1>4 DEF MapImage
  <2>2. PeTypes' /\ PeNothing' /\ PePlans'
    BY <1>2, <2>1 DEF PeInv, PeTypes, PeNothing, PePlans, PeEmpty, PeStages
  <2>3. PePlaces'
    <3>1. a \in Nat /\ Word \in Nat
      BY PeNumbers
    <3>2. pe.wide \/ a + pe.bytes <= Word
      BY <1>2, <1>4, <3>1
    <3> QED
      BY <2>1, <3>2 DEF PePlaces
  <2>4. PeTouches' /\ PeReads'
    BY <1>2, <2>1, PeCopied DEF PeTouches, PeReads
  <2>5. PeBinds' /\ PeBound'
    BY <1>1, <2>1 DEF PeInv, PeBinds, PeBound
  <2> QED
    BY <2>2, <2>3, <2>4, <2>5 DEF PeInv
<1> QED
  BY <1>3, <1>4

\* What the steps of the relocation do not change.
PeKeeps == pe' = pe /\ planned' = planned /\ planEnd' = planEnd /\ region' = region
LEMMA PeKept ==
  ASSUME PeInv, PeKeeps, stage \notin PeEmpty, stage' \in PeStages \ PeEmpty,
         block' \in [rva : Nat, left : Nat], stage # "ready", UNCHANGED <<writes, bound>>,
         PeTouches', PeReads'
  PROVE  PeInv'
<1>1. PeTypes' /\ PeNothing' /\ PePlans'
  BY DEF PeInv, PeKeeps, PeTypes, PeNothing, PePlans
<1>2. PePlaces' /\ PeBinds' /\ PeBound'
  BY DEF PeInv, PeKeeps, PePlaces, PeBinds, PeBound
<1> QED
  BY <1>1, <1>2 DEF PeInv

\* The directory of relocations is in the image.
LEMMA PeRelocStarted ==
  ASSUME PeInv, RelocStarts
  PROVE  PeInv'
<1>1. stage = "reloc"
  BY DEF RelocStarts
<1>2. CASE ~SpanOk(pe.bytes, pe.reloc[1], pe.reloc[2])
  BY <1>1, <1>2, PeRefused DEF RelocStarts
<1>3. CASE SpanOk(pe.bytes, pe.reloc[1], pe.reloc[2])
  <2>1. /\ stage' = "blocks" /\ touched' = {} /\ read' = {}
        /\ UNCHANGED <<pe, planned, planEnd, region, relocAt, block, writes, bound, turns>>
    BY <1>3 DEF RelocStarts
  <2>2. PeTouches' /\ PeReads'
    BY <2>1 DEF PeTouches, PeReads
  <2> QED
    BY <1>1, <2>1, <2>2, PeKept DEF PeKeeps, PeInv, PeTypes, PeStages, PeEmpty
<1> QED
  BY <1>2, <1>3

\* A block of relocations.
LEMMA PeBlocked ==
  ASSUME PeInv, NEW rva \in Spans, NEW size \in Spans, RelocBlock(rva, size)
  PROVE  PeInv'
<1>1. stage = "blocks"
  BY DEF RelocBlock
<1>2. CASE ~(size >= HeaderUnits /\ size <= RelocEnd - relocAt /\ rva < pe.bytes)
  BY <1>1, <1>2, PeRefused DEF RelocBlock
<1>3. CASE size >= HeaderUnits /\ size <= RelocEnd - relocAt /\ rva < pe.bytes
  <2>1. /\ block' = [rva |-> rva, left |-> size - HeaderUnits] /\ touched' = {}
        /\ UNCHANGED <<stage, pe, planned, planEnd, region, writes, bound, read>>
    BY <1>3 DEF RelocBlock
  <2>2. rva \in Nat /\ size \in Nat
    BY PeNumbers
  <2>3. size - HeaderUnits \in Nat
    BY <1>3, <2>2 DEF HeaderUnits
  <2>4. block' \in [rva : Nat, left : Nat]
    BY <2>1, <2>2, <2>3
  <2>5. PeTouches' /\ PeReads'
    BY <2>1 DEF PeInv, PeTouches, PeReads
  <2> QED
    BY <1>1, <2>1, <2>4, <2>5, PeKept DEF PeKeeps, PeStages, PeEmpty
<1> QED
  BY <1>2, <1>3

\* A block with an entry less to do.
LEMMA PeOneLess ==
  ASSUME PeInv, block.left > 0
  PROVE  [block EXCEPT !.left = @ - 1] \in [rva : Nat, left : Nat]
BY DEF PeInv, PeTypes

\* A relocation patches what lies in the mapping, or is refused.
LEMMA PePatched ==
  ASSUME PeInv, NEW w \in Widths \cup {0}, NEW o \in 0 .. Page - 1, RelocEntry(w, o)
  PROVE  PeInv'
<1>1. stage = "blocks" /\ block.left > 0
  BY DEF RelocEntry
<1>2. PICK t : t = (block.rva + o) % Word
  OBVIOUS
<1>3. CASE t >= pe.bytes \/ w = 0 \/ (Delta # 0 /\ (pe.bytes < w \/ t > pe.bytes - w))
  BY <1>1, <1>2, <1>3, PeRefused DEF RelocEntry
<1>4. CASE ~(t >= pe.bytes \/ w = 0 \/ (Delta # 0 /\ (pe.bytes < w \/ t > pe.bytes - w)))
  <2>1. /\ touched' = IF Delta = 0 THEN {} ELSE {<<t, w>>}
        /\ block' = [block EXCEPT !.left = @ - 1]
        /\ UNCHANGED <<stage, pe, planned, planEnd, region, relocAt, writes, bound, read, turns>>
    BY <1>2, <1>4 DEF RelocEntry
  <2>2. block' \in [rva : Nat, left : Nat]
    BY <1>1, <2>1, PeOneLess
  <2>3. pe.bytes \in Nat
    BY <1>1, PeNumbers DEF PeInv, PePlans, PeEmpty, PeHeader
  <2>4. t \in Nat /\ w \in Nat
    <3>1. block.rva \in Nat /\ o \in Nat /\ Word \in Nat /\ Word > 0
      BY PeNumbers DEF PeInv, PeTypes
    <3>2. PICK n \in Nat : n = block.rva + o
      BY <3>1
    <3>3. n % Word \in Nat
      BY ONLY <3>1, <3>2
    <3> QED
      BY <1>2, <3>2, <3>3, PeNumbers
  <2>5. Delta # 0 => t + w <= pe.bytes
    BY <1>4, <2>3, <2>4
  <2>6. \A x \in {<<t, w>>} : x[1] = t /\ x[2] = w
    OBVIOUS
  <2>7. PeTouches'
    BY <2>1, <2>4, <2>5, <2>6 DEF PeTouches, PeInside
  <2>8. PeReads'
    BY <2>1 DEF PeInv, PeReads
  <2> QED
    BY <1>1, <2>1, <2>2, <2>7, <2>8, PeKept DEF PeKeeps, PeStages, PeEmpty
<1> QED
  BY <1>3, <1>4

\* Padding patches nothing, and at the end nothing is left to patch.
LEMMA PePadded ==
  ASSUME PeInv, RelocPadding \/ RelocEnds
  PROVE  PeInv'
<1>1. CASE RelocPadding
  <2>1. /\ stage = "blocks" /\ block.left > 0 /\ block' = [block EXCEPT !.left = @ - 1] /\ touched' = {}
        /\ UNCHANGED <<stage, pe, planned, planEnd, region, relocAt, writes, bound, read, turns>>
    BY <1>1 DEF RelocPadding
  <2>2. block' \in [rva : Nat, left : Nat]
    BY <2>1, PeOneLess
  <2>3. PeTouches' /\ PeReads'
    BY <2>1 DEF PeInv, PeTouches, PeReads
  <2> QED
    BY <2>1, <2>2, <2>3, PeKept DEF PeKeeps, PeStages, PeEmpty
<1>2. CASE RelocEnds
  <2>1. /\ stage = "blocks" /\ stage' = "bind" /\ touched' = {} /\ block' = NoBlock
        /\ UNCHANGED <<pe, planned, planEnd, region, relocAt, writes, bound, read>>
    BY <1>2 DEF RelocEnds
  <2>2. block' \in [rva : Nat, left : Nat]
    BY <2>1 DEF NoBlock
  <2>3. PeTouches' /\ PeReads'
    BY <2>1 DEF PeInv, PeTouches, PeReads
  <2> QED
    BY <2>1, <2>2, <2>3, PeKept DEF PeKeeps, PeStages, PeEmpty
<1> QED
  BY <1>1, <1>2

\* An address lies in one section at most.
LEMMA PeOneSection ==
  ASSUME PeHeader(pe), PePlan(pe, planned, planEnd), NEW a \in Nat,
         NEW s \in SectionFor(a), NEW t \in SectionFor(a)
  PROVE  s = t
<1>1. planned \in Seq(PePlaced)
  BY DEF PePlan
<1>2. PICK i \in 1 .. Len(planned) : s = planned[i]
  BY <1>1, LenProperties DEF SectionFor, ToSet
<1>3. PICK j \in 1 .. Len(planned) : t = planned[j]
  BY <1>1, LenProperties DEF SectionFor, ToSet
<1>4. Len(planned) \in Nat /\ i \in Nat /\ j \in Nat
  BY <1>1, PePart
<1>5. ASSUME NEW k \in 1 .. Len(planned), NEW l \in 1 .. Len(planned), k < l,
             planned[k] \in SectionFor(a), planned[l] \in SectionFor(a)
      PROVE  FALSE
  <2>1. /\ planned[k].rva \in Nat /\ planned[k].mapped \in Nat /\ planned[k].bytes \in Nat /\ planned[l].rva \in Nat
    BY <1>1, PePart
  <2>2. planned[k].bytes <= planned[k].mapped /\ planned[k].rva + planned[k].mapped <= planned[l].rva
    BY <1>5 DEF PePlan, PeFits, PeOrdered
  <2>3. a >= planned[k].rva /\ a - planned[k].rva < planned[k].bytes /\ a >= planned[l].rva
    BY <1>5 DEF SectionFor
  <2>4. PICK x \in Nat, m \in Nat, b \in Nat, y \in Nat :
           x = planned[k].rva /\ m = planned[k].mapped /\ b = planned[k].bytes /\ y = planned[l].rva
    BY <2>1
  <2>5. b <= m /\ x + m <= y /\ a - x < b /\ a >= y
    BY <2>2, <2>3, <2>4
  <2> QED
    BY <2>5
<1> QED
  BY <1>2, <1>3, <1>4, <1>5

\* pe_image_file_offset answers with a place in the file.
LEMMA PeOffset ==
  ASSUME PeHeader(pe), PePlan(pe, planned, planEnd), NEW a \in Nat, NEW n \in Nat, FileOffset(a, n) # -1
  PROVE  PeInside(<<FileOffset(a, n), n>>, pe.file)
<1>1. PICK f \in Nat : f = pe.file
  BY DEF PeHeader
<1>2. CASE a < pe.headers
  <2>1. FileOffset(a, n) = a /\ SpanOk(pe.file, a, n)
    BY <1>2 DEF FileOffset
  <2>2. a + n <= f
    <3>1. a <= f - n
      BY <1>1, <2>1 DEF SpanOk
    <3> QED
      BY <3>1
  <2> QED
    BY <1>1, <2>1, <2>2 DEF PeInside
<1>3. CASE ~(a < pe.headers)
  <2>1. PICK s \in SectionFor(a) : SpanOk(pe.file, s.at + a - s.rva, n)
    BY <1>3 DEF FileOffset
  <2>2. (CHOOSE t \in SectionFor(a) : TRUE) = s
    BY <2>1, PeOneSection
  <2>3. FileOffset(a, n) = s.at + a - s.rva
    BY <1>3, <2>2 DEF FileOffset
  <2>4. planned \in Seq(PePlaced)
    BY DEF PePlan
  <2>5. PICK i \in 1 .. Len(planned) : s = planned[i]
    BY <2>4, LenProperties DEF SectionFor, ToSet
  <2>6. s.at \in Nat /\ s.rva \in Nat
    BY <2>4, <2>5, PePart
  <2>7. a >= s.rva
    BY DEF SectionFor
  <2>8. PICK o \in Nat : o = s.at + a - s.rva
    BY <2>6, <2>7
  <2>9. o <= f - n
    BY <1>1, <2>1, <2>8 DEF SpanOk
  <2>10. o + n <= f
    BY <2>9
  <2>11. FileOffset(a, n) = o
    BY <2>3, <2>8
  <2> QED
    BY <1>1, <2>10, <2>11 DEF PeInside
<1> QED
  BY <1>2, <1>3

\* An import takes a slot of its own.
LEMMA PeImported ==
  ASSUME PeInv, NEW t \in Spans, NEW s \in Spans, BindImport(t, s)
  PROVE  PeInv'
<1> DEFINE Good == FileOffset(t, ThunkUnits) # -1 /\ Writable32(s) /\ ~\E w \in writes : Meets(s, w)
<1>1. stage = "bind"
  BY DEF BindImport
<1>2. CASE ~Good
  BY <1>1, <1>2, PeRefused DEF BindImport
<1>3. CASE Good
  <2>1. /\ writes' = writes \cup {s} /\ read' = {<<FileOffset(t, ThunkUnits), ThunkUnits>>} /\ touched' = {}
        /\ UNCHANGED <<stage, pe, planned, planEnd, region, block, bound>>
    BY <1>3 DEF BindImport
  <2>2. PeHeader(pe) /\ PePlan(pe, planned, planEnd) /\ pe.bytes \in Nat /\ t \in Nat /\ s \in Nat
    BY <1>1, PeNumbers DEF PeInv, PePlans, PeEmpty, PeHeader
  <2>3. ThunkUnits \in Nat
    BY DEF ThunkUnits
  <2>4. PeInside(<<FileOffset(t, ThunkUnits), ThunkUnits>>, pe.file)
    BY <1>3, <2>2, <2>3, PeOffset
  <2>5. PeReads' /\ PeTouches'
    BY <2>1, <2>4 DEF PeReads, PeTouches
  <2>6. s + ThunkUnits <= pe.bytes
    BY <1>3, <2>2, <2>3 DEF Writable32
  <2>7. \A w \in writes : w \in Nat /\ w + ThunkUnits <= pe.bytes
    BY DEF PeInv, PeBinds, PeSlots
  <2>8. \A w \in writes : s + ThunkUnits <= w \/ w + ThunkUnits <= s
    <3>1. TAKE w \in writes
    <3>2. ~(s < w + ThunkUnits /\ w < s + ThunkUnits) /\ w \in Nat
      BY <1>3, <2>7 DEF Meets
    <3> QED
      BY <2>2, <2>3, <3>2
  <2>9. PeApart(writes)
    BY DEF PeInv, PeBinds, PeSlots
  <2>10. PeApart(writes \cup {s})
    BY <2>8, <2>9 DEF PeApart
  <2>11. PeBinds'
    BY <2>1, <2>2, <2>6, <2>7, <2>10 DEF PeBinds, PeSlots
  <2>12. PeTypes' /\ PeNothing' /\ PePlans'
    BY <1>1, <2>1 DEF PeInv, PeTypes, PeNothing, PePlans, PeEmpty
  <2>13. PePlaces' /\ PeBound'
    BY <2>1 DEF PeInv, PePlaces, PeBound
  <2> QED
    BY <2>5, <2>11, <2>12, <2>13 DEF PeInv
<1> QED
  BY <1>2, <1>3

\* All the slots are written at once.
LEMMA PeBoundAll ==
  ASSUME PeInv, BindWrites
  PROVE  PeInv'
<1>1. /\ stage = "bind" /\ stage' = "ready" /\ touched' = {<<w, ThunkUnits>> : w \in writes} /\ bound' = writes
      /\ writes' = {} /\ read' = {}
      /\ UNCHANGED <<pe, planned, planEnd, region, relocAt, block>>
  BY DEF BindWrites
<1>2. PeTypes' /\ PeNothing' /\ PePlans'
  BY <1>1 DEF PeInv, PeTypes, PeNothing, PePlans, PeEmpty, PeStages
<1>3. PePlaces' /\ PeReads' /\ PeBinds'
  BY <1>1 DEF PeInv, PePlaces, PeReads, PeBinds, PeSlots, PeApart
<1>4. \A w \in writes : w \in Nat /\ w + ThunkUnits <= pe.bytes
  BY DEF PeInv, PeBinds, PeSlots
<1>5. ThunkUnits \in Nat
  BY DEF ThunkUnits
<1>6. PeTouches'
  BY <1>1, <1>4, <1>5 DEF PeTouches, PeInside
<1>7. PeBound'
  BY <1>1 DEF PeInv, PeBinds, PeSlots, PeBound
<1> QED
  BY <1>2, <1>3, <1>6, <1>7 DEF PeInv

\* A step of the loading.
LEMMA PeSteps ==
  ASSUME PeInv, [PeNext]_peVars
  PROVE  PeInv'
<1>1. CASE UNCHANGED peVars
  <2>1. UNCHANGED <<stage, pe, planned, planEnd, region, block, writes, bound, touched, read>>
    BY <1>1 DEF peVars
  <2>2. PeTypes' /\ PeNothing' /\ PePlans'
    BY <2>1 DEF PeInv, PeTypes, PeNothing, PePlans
  <2>3. PePlaces' /\ PeTouches' /\ PeReads' /\ PeBinds' /\ PeBound'
    BY <2>1 DEF PeInv, PePlaces, PeTouches, PeReads, PeBinds, PeBound
  <2> QED
    BY <2>2, <2>3 DEF PeInv
<1>2. ASSUME NEW h \in Images, ParseHeaders(h) PROVE PeInv'
  BY <1>2, PeParsed
<1>3. ASSUME NEW s \in pe.sections, PlanSection(s) PROVE PeInv'
  BY <1>3, PePlansOne
<1>4. ASSUME NEW a \in Bases, MapImage(a) PROVE PeInv'
  BY <1>4, PeMapped
<1>5. ASSUME NEW rva \in Spans, NEW size \in Spans, RelocBlock(rva, size) PROVE PeInv'
  BY <1>5, PeBlocked
<1>6. ASSUME NEW w \in Widths \cup {0}, NEW o \in 0 .. Page - 1, RelocEntry(w, o) PROVE PeInv'
  BY <1>6, PePatched
<1>7. ASSUME NEW t \in Spans, NEW s \in Spans, BindImport(t, s) PROVE PeInv'
  BY <1>7, PeImported
<1>8. CASE BindFails
  BY <1>8, PeRefused DEF BindFails
<1> QED
  BY <1>1, <1>2, <1>3, <1>4, <1>5, <1>6, <1>7, <1>8, PePlansEnd, PeRelocStarted, PePadded, PeBoundAll DEF PeNext

\* The headers and the sections, as parts of the image.
LEMMA PeParts ==
  ASSUME PeHeader(pe), PePlan(pe, planned, planEnd)
  PROVE  /\ \A i \in DOMAIN Parts : Within(Parts[i], pe.bytes)
         /\ \A i, j \in DOMAIN Parts : i < j => Parts[i][1] + Parts[i][2] <= Parts[j][1]
<1>1. PICK h \in Nat, e \in Nat, b \in Nat : h = AlignUp(pe.headers) /\ e = planEnd /\ b = pe.bytes /\ h <= e /\ e <= b
  BY PeNumbers DEF PeHeader, PePlan
<1>2. planned \in Seq(PePlaced)
  BY DEF PePlan
<1>3. PICK n \in Nat : n = Len(planned) /\ DOMAIN planned = 1 .. n
  BY <1>2, LenProperties
<1>4. PICK q : q = [i \in 1 .. n |-> <<planned[i].rva, planned[i].mapped>>]
  OBVIOUS
<1>5. \A i \in 1 .. n : planned[i].rva \in Nat /\ planned[i].mapped \in Nat
  BY <1>2, <1>3, PePart
<1>6. /\ \A i \in 1 .. n : h <= planned[i].rva /\ planned[i].rva + planned[i].mapped <= e
      /\ \A i, j \in 1 .. n : i < j => planned[i].rva + planned[i].mapped <= planned[j].rva
  BY <1>1, <1>3 DEF PePlan, PeBehind, PeBelow, PeOrdered
<1>7. q \in Seq(Nat \X Nat) /\ Len(q) = n
  <2>1. \A i \in 1 .. n : q[i] \in Nat \X Nat
    BY <1>4, <1>5
  <2> QED
    BY <1>3, <1>4, <2>1
<1>8. PICK f : f = <<<<0, h>>>>
  OBVIOUS
<1>9. f \in Seq(Nat \X Nat) /\ Len(f) = 1 /\ f[1] = <<0, h>>
  BY <1>1, <1>8
<1>10. Parts = f \o q
  BY <1>1, <1>3, <1>4, <1>8 DEF Parts
<1>11. /\ f \o q \in Seq(Nat \X Nat) /\ Len(f \o q) = 1 + n
       /\ \A i \in 1 .. 1 + n : (f \o q)[i] = IF i <= 1 THEN f[i] ELSE q[i - 1]
  <2>1. /\ f \o q \in Seq(Nat \X Nat) /\ Len(f \o q) = Len(f) + Len(q)
        /\ \A i \in 1 .. Len(f) + Len(q) : (f \o q)[i] = IF i <= Len(f) THEN f[i] ELSE q[i - Len(f)]
    BY <1>7, <1>9, ConcatProperties
  <2>2. Len(f) + Len(q) = 1 + n
    BY ONLY <1>7, <1>9
  <2> QED
    BY <1>9, <2>1, <2>2
<1>12. DOMAIN Parts = 1 .. 1 + n /\ Parts[1] = <<0, h>> /\ \A i \in 1 .. n : Parts[i + 1] = <<planned[i].rva, planned[i].mapped>>
  <2>1. DOMAIN Parts = 1 .. 1 + n /\ Parts[1] = f[1]
    <3>1. DOMAIN (f \o q) = 1 .. Len(f \o q)
      BY <1>11, LenProperties
    <3>2. 1 \in 1 .. 1 + n /\ 1 <= 1
      BY <1>3
    <3> QED
      BY <1>10, <1>11, <3>1, <3>2
  <2>2. ASSUME NEW i \in 1 .. n
        PROVE  Parts[i + 1] = <<planned[i].rva, planned[i].mapped>>
    <3>1. i + 1 \in 1 .. 1 + n /\ ~(i + 1 <= 1) /\ (i + 1) - 1 = i
      BY <1>3
    <3>2. Parts[i + 1] = q[i]
      BY <1>10, <1>11, <3>1
    <3> QED
      BY <1>4, <3>2
  <2> QED
    BY <1>9, <2>1, <2>2
<1>13. \A i \in 1 .. 1 + n : i = 1 \/ \E k \in 1 .. n : i = k + 1
  <2>1. TAKE i \in 1 .. 1 + n
  <2>2. i # 1 => i - 1 \in 1 .. n /\ i = (i - 1) + 1
    BY <1>3
  <2> QED
    BY <2>2
<1>14. ASSUME NEW i \in DOMAIN Parts
       PROVE  Within(Parts[i], pe.bytes)
  <2>1. CASE i = 1
    <3>1. 0 + h <= b /\ 0 >= 0
      BY <1>1
    <3> QED
      BY <1>1, <1>12, <2>1, <3>1 DEF Within
  <2>2. CASE i # 1
    <3>1. PICK k \in 1 .. n : i = k + 1
      BY <1>12, <1>13, <2>2
    <3>2. PICK x \in Nat, m \in Nat : x = planned[k].rva /\ m = planned[k].mapped
      BY <1>5
    <3>3. x + m <= e /\ Parts[i] = <<x, m>>
      BY <1>6, <1>12, <3>1, <3>2
    <3>4. x + m <= b /\ x >= 0
      <4>1. e <= b
        BY <1>1
      <4> QED
        BY <3>3, <4>1
    <3> QED
      BY <1>1, <3>3, <3>4 DEF Within
  <2> QED
    BY <2>1, <2>2
<1>15. ASSUME NEW i \in DOMAIN Parts, NEW j \in DOMAIN Parts, i < j
       PROVE  Parts[i][1] + Parts[i][2] <= Parts[j][1]
  <2>1. i \in 1 .. 1 + n /\ j \in 1 .. 1 + n /\ j # 1
    BY <1>3, <1>12, <1>15
  <2>2. PICK l \in 1 .. n : j = l + 1
    BY <1>13, <2>1
  <2>3. Parts[j][1] = planned[l].rva
    BY <1>12, <2>2
  <2>4. CASE i = 1
    <3>1. Parts[i][1] + Parts[i][2] = 0 + h
      BY <1>12, <2>4
    <3>2. 0 + h = h
      BY <1>1
    <3> QED
      BY <1>6, <2>3, <3>1, <3>2
  <2>5. CASE i # 1
    <3>1. PICK k \in 1 .. n : i = k + 1
      BY <1>13, <2>1, <2>5
    <3>2. k < l
      BY <1>3, <1>15, <2>2, <3>1
    <3>3. Parts[i][1] + Parts[i][2] = planned[k].rva + planned[k].mapped
      BY <1>12, <3>1
    <3> QED
      BY <1>6, <2>3, <3>2, <3>3
  <2> QED
    BY <2>4, <2>5
<1> QED
  BY <1>14, <1>15

\* The invariant is what was to be shown.
LEMMA PeSoundFromInv ==
  ASSUME PeInv
  PROVE  ImageSound /\ PeTypeOK
<1>1. stage \notin PeEmpty => PeHeader(pe) /\ PePlan(pe, planned, planEnd)
  BY DEF PeInv, PePlans
<1>2. (\A t \in touched : Within(t, pe.bytes)) /\ (\A r \in read : Within(r, pe.file))
  BY DEF PeInv, PeTouches, PeReads, PeInside, Within
<1>3. ImageContained
  BY <1>1, <1>2, PeParts DEF ImageContained, PeEmpty, PeInv, PePlaces
<1>4. BoundWhole
  BY DEF BoundWhole, PeInv, PeBound, PeApart, PeNothing, PeEmpty
<1>5. Len(planned) <= pe.count /\ planEnd \in 0 .. Word - 1
  <2>1. CASE stage \in PeEmpty
    <3>1. planned = <<>> /\ planEnd = 0 /\ pe.count = 0
      BY <2>1 DEF PeInv, PeNothing, NoHeaders
    <3>2. Len(<<>>) = 0 /\ 0 <= 0
      OBVIOUS
    <3>3. 0 \in 0 .. Word - 1
      BY PeNumbers
    <3> QED
      BY <3>1, <3>2, <3>3
  <2>2. CASE stage \notin PeEmpty
    BY <1>1, <2>2 DEF PePlan, Words
  <2> QED
    BY <2>1, <2>2
<1>6. PeTypeOK
  BY <1>5 DEF PeTypeOK, PeInv, PeTypes, PeStages
<1> QED
  BY <1>3, <1>4, <1>6 DEF ImageSound

\* The steps of the loading keep what was planned and bound sound, whatever
\* the file says (pe_image.c, pe_layout.c, pe_reloc.c, pw_map.c,
\* pw_import_bind.c): parts apart and inside, no write outside the mapping, no
\* read outside the file, and the imports bound all or none.
THEOREM ImageAlwaysSound == PeSpec => []ImageSound
<1>1. PeInit => PeInv
  BY PeStarts
<1>2. PeInv /\ [PeNext]_peVars => PeInv'
  BY PeSteps
<1>3. PeInv => ImageSound
  BY PeSoundFromInv
<1> QED
  BY <1>1, <1>2, <1>3, PTL DEF PeSpec

\* A plan has no more sections than the file says, in 32 bits.
THEOREM ImageTyping == PeSpec => []PeTypeOK
<1>1. PeInit => PeInv
  BY PeStarts
<1>2. PeInv /\ [PeNext]_peVars => PeInv'
  BY PeSteps
<1>3. PeInv => PeTypeOK
  BY PeSoundFromInv
<1> QED
  BY <1>1, <1>2, <1>3, PTL DEF PeSpec
\* A least element of a nonempty set of naturals.
LEMMA Least ==
  ASSUME NEW T \in SUBSET Nat, T # {}
  PROVE  \E n \in T : \A m \in T : n <= m
<1> DEFINE Below == {0 .. n : n \in T}
<1>1. Below \subseteq FiniteSubsetsOf(Nat)
  <2> SUFFICES ASSUME NEW n \in T PROVE 0 .. n \in FiniteSubsetsOf(Nat)
    OBVIOUS
  <2>1. IsFiniteSet(0 .. n)
    BY FS_Interval
  <2> QED
    BY <2>1 DEF FiniteSubsetsOf
<1>2. PICK X \in Below : \A Y \in Below : ~(<<Y, X>> \in StrictSubsetOrdering(Nat))
  <2>1. IsWellFoundedOn(StrictSubsetOrdering(Nat), FiniteSubsetsOf(Nat))
    BY FS_StrictSubsetOrderingWellFounded
  <2>2. Below # {}
    OBVIOUS
  <2> QED
    BY <1>1, <2>1, <2>2, WFMin
<1>3. PICK n \in T : X = 0 .. n
  OBVIOUS
<1>4. ASSUME NEW m \in T, m < n PROVE FALSE
  <2>1. 0 .. m \in Below /\ 0 .. m \subseteq 0 .. n /\ 0 .. m # 0 .. n
    BY <1>4
  <2>2. <<0 .. m, 0 .. n>> \in StrictSubsetOrdering(Nat)
    BY <2>1 DEF StrictSubsetOrdering
  <2> QED
    BY <2>1, <2>2, <1>2, <1>3
<1> QED
  BY <1>4

\* The least of some places below n, or 0 if there are none.
LEMMA FirstOf ==
  ASSUME NEW n \in Nat, NEW I, I \subseteq 1 .. n, NEW u, u = IF I # {} THEN Min(I) ELSE 0
  PROVE  u \in 0 .. n /\ (u # 0 => u \in I /\ \A i \in I : u <= i) /\ (u = 0 => I = {})
<1>1. CASE I = {}
  BY <1>1
<1>2. CASE I # {}
  <2>1. I \in SUBSET Nat
    OBVIOUS
  <2>2. \E x \in I : \A y \in I : x =< y
    BY <1>2, <2>1, Least
  <2>3. u \in I /\ \A i \in I : u <= i
    BY <1>2, <2>2 DEF Min
  <2> QED
    BY <1>2, <2>3
<1> QED
  BY <1>1, <1>2

-----------------------------------------------------------------------------
(* The gate, and the loader under it.                                      *)

GtKinds == {"root", "local", "host"}
GtModules == [name : ModuleNames, kind : GtKinds, depth : Nat, deps : Seq(Nat \ {0}),
              mapped : BOOLEAN, owned : BOOLEAN, protected : BOOLEAN]
GtEarly == {"scratch", "smoke", "install", "sealing", "backend", "exec", "root"}
GtLoaded == {"resolve", "order", "undo", "loaded", "finalize", "release"}
GtSteps == GtEarly \cup {"load"} \cup GtLoaded \cup {"failed", "exit", "closed"}

\* What a registry holds: names, mappings, files.
GtMappedIn(ms) == {ms[i].name : i \in {j \in DOMAIN ms : ms[j].mapped}}
GtOwnedIn(ms) == {ms[i].name : i \in {j \in DOMAIN ms : ms[j].owned}}
GtNamed(ms) == \A i, j \in 1 .. Len(ms) : ms[i].name = ms[j].name => i = j
GtNamesOf(ms, i) == {ms[k].name : k \in ToSet(ms[i].deps)}

\* The registry while the imports of module c are resolved, those before e done.
GtEdges(ms) == \A i \in 1 .. Len(ms) : ToSet(ms[i].deps) \subseteq 1 .. Len(ms)
GtNear(ms) == \A i \in 1 .. Len(ms) : \A k \in ToSet(ms[i].deps) : ms[k].depth <= ms[i].depth + 1
GtParents(ms) ==
    \A i \in 1 .. Len(ms) : i # 1 =>
        \E k \in 1 .. Len(ms) : i \in ToSet(ms[k].deps) /\ ms[k].depth = ms[i].depth - 1
GtLayers(ms) == \A i, j \in 1 .. Len(ms) : i <= j => ms[i].depth <= ms[j].depth
GtHeld(ms) == \A i \in 1 .. Len(ms) : ms[i].mapped = (ms[i].kind # "host")
GtBefore(ms, c) == \A i \in 1 .. Len(ms) : i < c => GtNamesOf(ms, i) = ToSet(Imports(ms[i]))
GtAt(ms, c, e) ==
    c <= Len(ms) =>
        /\ e <= Len(Imports(ms[c])) + 1
        /\ GtNamesOf(ms, c) = {Imports(ms[c])[k] : k \in 1 .. e - 1}
        /\ \A i \in 1 .. Len(ms) : ms[i].depth <= ms[c].depth + 1
GtBehind(ms, c) == \A i \in 1 .. Len(ms) : i > c => ms[i].deps = <<>>
GtResolved(ms, c, e) ==
    /\ c \in Nat \ {0} /\ e \in Nat \ {0} /\ c <= Len(ms) + 1 /\ 1 <= Len(ms)
    /\ GtEdges(ms) /\ GtNear(ms) /\ GtParents(ms) /\ GtLayers(ms) /\ GtHeld(ms)
    /\ GtBefore(ms, c) /\ GtAt(ms, c, e) /\ GtBehind(ms, c)

\* The visits: those active are a path, and reach each other; what a module
\* imports is visited before it ends, or is active.
GtPairs == (Nat \ {0}) \X (Nat \ {0})
GtReach(ms, i, j) ==
    \A s \in SUBSET (1 .. Len(ms)) : i \in s /\ (\A k \in s : ToSet(ms[k].deps) \subseteq s) => j \in s
GtActive(w) == {w[i][1] : i \in 1 .. Len(w)}
GtTimely(ms, o, p) ==
    \A d \in ToSet(ms[o[p]].deps) : (\E q \in 1 .. p : o[q] = d) \/ GtReach(ms, d, o[p])
GtTrails(ms, w) ==
    /\ \A k, l \in 1 .. Len(w) : k # l => w[k][1] # w[l][1]
    /\ \A k, l \in 1 .. Len(w) : k <= l => GtReach(ms, w[k][1], w[l][1])
GtSeen(ms, w, o, k) ==
    \A e \in 1 .. Len(ms[w[k][1]].deps) : e < w[k][2] => ms[w[k][1]].deps[e] \in ToSet(o) \cup GtActive(w)
GtListed(ms, o) ==
    /\ o \in Seq(Nat \ {0}) /\ ToSet(o) \subseteq 1 .. Len(ms)
    /\ \A p, q \in 1 .. Len(o) : o[p] = o[q] => p = q
    /\ \A p \in 1 .. Len(o) : GtTimely(ms, o, p)
GtWalked(ms, w, o) ==
    /\ w \in Seq(GtPairs)
    /\ \A k \in 1 .. Len(w) : w[k][1] \in 1 .. Len(ms) /\ w[k][1] \notin ToSet(o)
    /\ GtTrails(ms, w) /\ \A k \in 1 .. Len(w) : GtSeen(ms, w, o, k)

\* The invariant.
GtTypes ==
    /\ program \in Programs /\ modules \in Seq(GtModules) /\ step \in GtSteps /\ result \in {"ok", "error"}
GtNone == step \notin GtLoaded => modules = <<>> /\ cursor = <<1, 1>> /\ walk = <<>> /\ order = <<>>
GtFiles ==
    spans \subseteq (IF step \in GtEarly \cup {"closed"} THEN {} ELSE {program.root}) \cup GtOwnedIn(modules)
GtLow == step # "sealing" => low = {}
GtMaps ==
    /\ regions \subseteq GtMappedIn(modules) \cup refusals
    /\ result = "ok" => refusals = {}
    /\ step = "undo" => result = "error"
GtExits == exit.status = "ok" => step \in {"exit", "closed"} /\ regions = {} /\ exit.released = exit.mapped
GtImages ==
    \A i \in 1 .. Len(modules) :
        /\ modules[i].kind # "host" => modules[i].name \in DOMAIN program.imports
        /\ modules[i].mapped => modules[i].kind # "host"
GtMade == step \in GtLoaded \ {"undo"} =>
    GtNamed(modules) /\ \A i \in 1 .. Len(modules) : modules[i].mapped => modules[i].name \in DOMAIN access
GtRights ==
    \A i \in 1 .. Len(modules) : modules[i].protected =>
        /\ step \in {"finalize", "release"} /\ modules[i].mapped
        /\ \A p \in Pages(modules[i].name) : access[modules[i].name][p] = PageAccess(modules[i].name, p)
GtResolving ==
    /\ step = "resolve" => cursor = <<cursor[1], cursor[2]>> /\ GtResolved(modules, cursor[1], cursor[2])
    /\ step = "resolve" => walk = <<>> /\ order = <<>>
GtOrdering ==
    /\ step \in {"order", "loaded", "finalize"} => Closed /\ GtEdges(modules)
    /\ step = "order" => GtListed(modules, order) /\ GtWalked(modules, walk, order)
    /\ step \in {"loaded", "finalize"} => Ordered
GtCounts ==
    /\ step = "finalize" => counted = Cardinality(GtMappedIn(modules))
    /\ step = "release" /\ result = "ok" => Unprotected = {} /\ counted = Cardinality(GtMappedIn(modules))
GtInv ==
    /\ GtTypes /\ GtNone /\ GtFiles /\ GtLow /\ GtMaps /\ GtExits
    /\ GtImages /\ GtMade /\ GtRights /\ GtResolving /\ GtOrdering /\ GtCounts


\* What a program is.
LEMMA GtPrograms ==
  ASSUME program \in Programs
  PROVE  /\ program.root \in DOMAIN program.imports /\ DOMAIN program.imports \subseteq ModuleNames
         /\ \A n \in DOMAIN program.imports :
              /\ program.imports[n] \in Seq(ModuleNames)
              /\ program.sections[n] \in Seq([first : Nat, last : Nat, access : SUBSET {"r", "w", "x"}]) \ {<<>>}
BY LoaderAssumption DEF ModuleNames

\* A module of a registry.
LEMMA GtModule ==
  ASSUME NEW ms, ms \in Seq(GtModules)
  PROVE  /\ Len(ms) \in Nat /\ DOMAIN ms = 1 .. Len(ms)
         /\ \A i \in 1 .. Len(ms) :
              /\ ms[i] \in GtModules /\ ms[i].name \in ModuleNames /\ ms[i].kind \in GtKinds /\ ms[i].depth \in Nat
              /\ ms[i].deps \in Seq(Nat \ {0}) /\ ms[i].mapped \in BOOLEAN /\ ms[i].owned \in BOOLEAN
              /\ ms[i].protected \in BOOLEAN
<1>1. Len(ms) \in Nat /\ DOMAIN ms = 1 .. Len(ms) /\ \A i \in 1 .. Len(ms) : ms[i] \in GtModules
  BY LenProperties, ElementOfSeq
<1> QED
  BY <1>1 DEF GtModules

\* The imports of a module.
LEMMA GtImported ==
  ASSUME program \in Programs, NEW m \in GtModules, m.kind # "host" => m.name \in DOMAIN program.imports
  PROVE  /\ Imports(m) \in Seq(ModuleNames) /\ Len(Imports(m)) \in Nat
         /\ ToSet(Imports(m)) = {Imports(m)[k] : k \in 1 .. Len(Imports(m))}
<1>1. Imports(m) \in Seq(ModuleNames)
  BY GtPrograms DEF Imports
<1> QED
  BY <1>1, LenProperties DEF ToSet

\* Modules that differ only in what is found later; they import the same.
GtSame(x, y) ==
    x.name = y.name /\ x.kind = y.kind /\ x.depth = y.depth /\ x.owned = y.owned
LEMMA GtSameImports ==
  ASSUME NEW x, NEW y, GtSame(x, y)
  PROVE  Imports(x) = Imports(y)
BY DEF GtSame, Imports

\* The same registry, but for what is mapped and protected.
GtLike(r, ms) ==
    /\ r \in Seq(GtModules) /\ Len(r) = Len(ms)
    /\ \A k \in 1 .. Len(ms) : GtSame(r[k], ms[k]) /\ r[k].deps = ms[k].deps

LEMMA GtOwnedLike ==
  ASSUME NEW ms, ms \in Seq(GtModules), NEW r, GtLike(r, ms)
  PROVE  GtOwnedIn(r) = GtOwnedIn(ms) /\ DOMAIN r = DOMAIN ms
<1>1. DOMAIN r = 1 .. Len(ms) /\ DOMAIN ms = 1 .. Len(ms)
  BY GtModule DEF GtLike
<1>2. \A k \in 1 .. Len(ms) : r[k].name = ms[k].name /\ r[k].owned = ms[k].owned
  BY DEF GtLike, GtSame
<1> QED
  BY <1>1, <1>2 DEF GtOwnedIn

\* A registry with a mapping put in.
GtPut(ms, i, u) == [ms EXCEPT ![i].mapped = u]
LEMMA GtSetMapped ==
  ASSUME NEW ms, ms \in Seq(GtModules), NEW i \in 1 .. Len(ms), NEW u \in BOOLEAN,
         NEW r, r = GtPut(ms, i, u)
  PROVE  /\ GtLike(r, ms) /\ r[i].mapped = u
         /\ \A k \in 1 .. Len(ms) : r[k].protected = ms[k].protected /\ (k # i => r[k] = ms[k])
<1>1. PICK n \in Nat : n = Len(ms) /\ DOMAIN ms = 1 .. n
  BY GtModule
<1>2. ms[i] \in GtModules
  BY GtModule
<1>3. PICK e : e = [ms[i] EXCEPT !.mapped = u] /\ r = [ms EXCEPT ![i].mapped = u]
  BY DEF GtPut
<1>4. e \in GtModules /\ GtSame(e, ms[i]) /\ e.deps = ms[i].deps /\ e.mapped = u /\ e.protected = ms[i].protected
  BY <1>2, <1>3 DEF GtModules, GtSame
<1>5. r = [ms EXCEPT ![i] = e]
  BY <1>3
<1>6. r \in Seq(GtModules) /\ Len(r) = Len(ms) /\ r[i] = e /\ \A k \in 1 .. Len(ms) : k # i => r[k] = ms[k]
  <2>1. /\ [ms EXCEPT ![i] = e] \in Seq(GtModules) /\ Len([ms EXCEPT ![i] = e]) = Len(ms)
        /\ \A k \in 1 .. Len(ms) : [ms EXCEPT ![i] = e][k] = IF k = i THEN e ELSE ms[k]
    BY <1>4, ExceptSeq
  <2> QED
    BY <1>5, <2>1
<1>7. \A k \in 1 .. Len(ms) : GtSame(ms[k], ms[k])
  BY DEF GtSame
<1> QED
  BY <1>4, <1>6, <1>7 DEF GtLike

\* One protected.
GtGuard(ms, i) == [ms EXCEPT ![i].protected = TRUE]
LEMMA GtSetProtected ==
  ASSUME NEW ms, ms \in Seq(GtModules), NEW i \in 1 .. Len(ms),
         NEW r, r = GtGuard(ms, i)
  PROVE  /\ GtLike(r, ms)
         /\ \A k \in 1 .. Len(ms) : r[k].mapped = ms[k].mapped /\ (r[k].protected => k = i \/ ms[k].protected)
<1>1. PICK n \in Nat : n = Len(ms) /\ DOMAIN ms = 1 .. n
  BY GtModule
<1>2. ms[i] \in GtModules
  BY GtModule
<1>3. PICK e : e = [ms[i] EXCEPT !.protected = TRUE] /\ r = [ms EXCEPT ![i].protected = TRUE]
  BY DEF GtGuard
<1>4. e \in GtModules /\ GtSame(e, ms[i]) /\ e.deps = ms[i].deps /\ e.mapped = ms[i].mapped
  BY <1>2, <1>3 DEF GtModules, GtSame
<1>5. r = [ms EXCEPT ![i] = e]
  BY <1>3
<1>6. r \in Seq(GtModules) /\ Len(r) = Len(ms) /\ r[i] = e /\ \A k \in 1 .. Len(ms) : k # i => r[k] = ms[k]
  <2>1. /\ [ms EXCEPT ![i] = e] \in Seq(GtModules) /\ Len([ms EXCEPT ![i] = e]) = Len(ms)
        /\ \A k \in 1 .. Len(ms) : [ms EXCEPT ![i] = e][k] = IF k = i THEN e ELSE ms[k]
    BY <1>4, ExceptSeq
  <2> QED
    BY <1>5, <2>1
<1>7. \A k \in 1 .. Len(ms) : GtSame(ms[k], ms[k])
  BY DEF GtSame
<1> QED
  BY <1>4, <1>6, <1>7 DEF GtLike

\* A module at the end.
LEMMA GtAppended ==
  ASSUME NEW ms, ms \in Seq(GtModules), NEW m \in GtModules, NEW r, r = Append(ms, m)
  PROVE  /\ r \in Seq(GtModules) /\ Len(r) = Len(ms) + 1 /\ r[Len(ms) + 1] = m
         /\ \A k \in 1 .. Len(ms) : r[k] = ms[k]
BY AppendProperties

\* add_dependency.
GtLonger(a, b, t) == ToSet(a) = ToSet(b) \cup {t}
LEMMA GtEdged ==
  ASSUME NEW ms, ms \in Seq(GtModules), NEW c \in 1 .. Len(ms), NEW t \in Nat \ {0}, NEW r, r = Edge(ms, c, t)
  PROVE  /\ r \in Seq(GtModules) /\ Len(r) = Len(ms)
         /\ \A k \in 1 .. Len(ms) : /\ GtSame(r[k], ms[k]) /\ r[k].mapped = ms[k].mapped
                                    /\ r[k].protected = ms[k].protected /\ (k # c => r[k].deps = ms[k].deps)
         /\ GtLonger(r[c].deps, ms[c].deps, t)
<1>1. PICK n \in Nat : n = Len(ms) /\ DOMAIN ms = 1 .. n
  BY GtModule
<1>2. ms[c] \in GtModules /\ ms[c].deps \in Seq(Nat \ {0})
  BY GtModule
<1>3. CASE t \in ToSet(ms[c].deps)
  BY <1>3 DEF Edge, GtSame, GtLonger
<1>4. CASE t \notin ToSet(ms[c].deps)
  <2>1. PICK d : d = Append(ms[c].deps, t)
    OBVIOUS
  <2>2. d \in Seq(Nat \ {0}) /\ ToSet(d) = ToSet(ms[c].deps) \cup {t}
    <3>1. /\ d \in Seq(Nat \ {0}) /\ Len(d) = Len(ms[c].deps) + 1 /\ d[Len(ms[c].deps) + 1] = t
          /\ \A k \in 1 .. Len(ms[c].deps) : d[k] = ms[c].deps[k]
      BY <1>2, <2>1, AppendProperties
    <3>2. Len(ms[c].deps) \in Nat /\ DOMAIN ms[c].deps = 1 .. Len(ms[c].deps) /\ DOMAIN d = 1 .. Len(ms[c].deps) + 1
      BY <1>2, <3>1, LenProperties
    <3>3. ToSet(d) \subseteq ToSet(ms[c].deps) \cup {t}
      <4>1. ASSUME NEW k \in DOMAIN d
            PROVE  d[k] \in ToSet(ms[c].deps) \cup {t}
        <5>1. k = Len(ms[c].deps) + 1 \/ k \in 1 .. Len(ms[c].deps)
          BY <3>2
        <5>2. k \in 1 .. Len(ms[c].deps) => ms[c].deps[k] \in ToSet(ms[c].deps)
          BY <3>2 DEF ToSet
        <5> QED
          BY <3>1, <5>1, <5>2
      <4> QED
        BY <4>1 DEF ToSet
    <3>4. t \in ToSet(d)
      <4>1. Len(ms[c].deps) + 1 \in DOMAIN d
        BY <3>2
      <4> QED
        BY <3>1, <4>1 DEF ToSet
    <3>5. ToSet(ms[c].deps) \subseteq ToSet(d)
      BY <3>1, <3>2 DEF ToSet
    <3> QED
      BY <3>1, <3>3, <3>4, <3>5
  <2>3. PICK e : e = [ms[c] EXCEPT !.deps = d]
    OBVIOUS
  <2>4. e \in GtModules /\ GtSame(e, ms[c]) /\ e.deps = d /\ e.mapped = ms[c].mapped /\ e.protected = ms[c].protected
    BY <1>2, <2>2, <2>3 DEF GtModules, GtSame
  <2>5. r = [ms EXCEPT ![c] = e]
    BY <1>4, <2>1, <2>3 DEF Edge
  <2>6. r \in Seq(GtModules) /\ Len(r) = Len(ms) /\ r[c] = e /\ \A k \in 1 .. Len(ms) : k # c => r[k] = ms[k]
    <3>1. /\ [ms EXCEPT ![c] = e] \in Seq(GtModules) /\ Len([ms EXCEPT ![c] = e]) = Len(ms)
          /\ \A k \in 1 .. Len(ms) : [ms EXCEPT ![c] = e][k] = IF k = c THEN e ELSE ms[k]
      BY <2>4, ExceptSeq
    <3> QED
      BY <2>5, <3>1
  <2>7. \A k \in 1 .. Len(ms) : GtSame(ms[k], ms[k])
    BY DEF GtSame
  <2> QED
    BY <2>2, <2>4, <2>6, <2>7 DEF GtLonger
<1> QED
  BY <1>3, <1>4

\* A name that is found, or is not.
LEMMA GtFound ==
  ASSUME NEW ms, ms \in Seq(GtModules), NEW n, NEW i, i = Find(ms, n)
  PROVE  /\ i # 0 => i \in 1 .. Len(ms) /\ ms[i].name = n
         /\ i = 0 => \A k \in 1 .. Len(ms) : ms[k].name # n
<1>0. PICK z \in Nat : z = Len(ms)
  BY GtModule
<1> DEFINE I == {k \in 1 .. Len(ms) : ms[k].name = n}
<1>1. i = IF I # {} THEN Min(I) ELSE 0
  BY DEF Find, SelectInSeq
<1>2. I \subseteq 1 .. z
  BY <1>0
<1>3. i \in 0 .. z /\ (i # 0 => i \in I) /\ (i = 0 => I = {})
  <2> HIDE DEF I
  <2> QED
    BY <1>1, <1>2, FirstOf
<1> QED
  BY <1>0, <1>3

\* A module is prepared, or not.
LEMMA GtPrepared ==
  ASSUME NEW ms, ms \in Seq(GtModules), NEW i \in 1 .. Len(ms), NEW how \in DOMAIN Prepares, Prepare(ms, i, how),
         ~ms[i].mapped, regions \subseteq GtMappedIn(ms) \cup refusals
  PROVE  /\ GtLike(modules', ms)
         /\ modules'[i].mapped = (how \in {"ok", "unverified"})
         /\ \A k \in 1 .. Len(ms) : modules'[k].protected = ms[k].protected /\ (k # i => modules'[k] = ms[k])
         /\ regions' \subseteq GtMappedIn(modules') \cup refusals'
         /\ how # "lost" => refusals' = refusals
         /\ DOMAIN access \subseteq DOMAIN access'
         /\ how = "ok" => ms[i].name \in DOMAIN access'
<1> DEFINE has == how \in {"ok", "unverified"}
           name == ms[i].name
<1>1. /\ modules' = [ms EXCEPT ![i].mapped = has]
      /\ regions' = IF how = "unmapped" THEN regions ELSE regions \cup {name}
      /\ refusals' = IF how = "lost" THEN refusals \cup {name} ELSE refusals
      /\ access' = IF has THEN [n \in DOMAIN access \cup {name} |->
                                   IF n = name THEN [p \in Pages(name) |-> Writable] ELSE access[n]]
                   ELSE access
  BY DEF Prepare
<1>2. /\ GtLike(modules', ms) /\ modules'[i].mapped = has
      /\ \A k \in 1 .. Len(ms) : modules'[k].protected = ms[k].protected /\ (k # i => modules'[k] = ms[k])
  <2>1. has \in BOOLEAN
    OBVIOUS
  <2>2. modules' = GtPut(ms, i, has)
    BY <1>1 DEF GtPut
  <2> HIDE DEF has
  <2> QED
    BY <2>1, <2>2, GtSetMapped
<1>3. how \in {"ok", "unmapped", "lost", "unverified"}
  BY DEF Prepares
<1>4. DOMAIN access \subseteq DOMAIN access' /\ (has => name \in DOMAIN access')
  BY <1>1
<1>5. DOMAIN ms = 1 .. Len(ms) /\ DOMAIN modules' = 1 .. Len(ms)
  BY <1>2, GtModule DEF GtLike
<1>6. \A k \in 1 .. Len(ms) : modules'[k].name = ms[k].name
  BY <1>2 DEF GtLike, GtSame
<1>7. GtMappedIn(ms) \subseteq GtMappedIn(modules')
  BY <1>2, <1>5, <1>6 DEF GtMappedIn
<1>8. has => name \in GtMappedIn(modules')
  BY <1>2, <1>5, <1>6 DEF GtMappedIn
<1>9. regions' \subseteq GtMappedIn(modules') \cup refusals'
  BY <1>1, <1>3, <1>7, <1>8
<1> QED
  BY <1>1, <1>2, <1>4, <1>9

\* A registry with one edge more, and perhaps the module it leads to.
GtGrown(r, ms, c, t) ==
    /\ r \in Seq(GtModules) /\ t \in 1 .. Len(r)
    /\ \/ Len(r) = Len(ms)
       \/ /\ Len(r) = Len(ms) + 1 /\ t = Len(ms) + 1
          /\ r[t].deps = <<>> /\ r[t].depth = ms[c].depth + 1 /\ r[t].mapped = (r[t].kind # "host")
          /\ \A k \in 1 .. Len(ms) : ms[k].name # r[t].name
    /\ \A k \in 1 .. Len(ms) : GtSame(r[k], ms[k]) /\ r[k].mapped = ms[k].mapped /\ (k # c => r[k].deps = ms[k].deps)
    /\ ToSet(r[c].deps) = ToSet(ms[c].deps) \cup {t}

\* One import more is resolved.
LEMMA GtResolvesOne ==
  ASSUME program \in Programs, NEW ms, ms \in Seq(GtModules), NEW c, NEW e, GtResolved(ms, c, e), GtNamed(ms),
         c <= Len(ms), e <= Len(Imports(ms[c])), ms[c].kind # "host" => ms[c].name \in DOMAIN program.imports,
         NEW r, NEW t, GtGrown(r, ms, c, t), r[t].name = Imports(ms[c])[e]
  PROVE  GtResolved(r, c, e + 1) /\ GtNamed(r)
<1>1. PICK n \in Nat, m \in Nat : n = Len(ms) /\ m = Len(r) /\ (m = n \/ m = n + 1) /\ t \in 1 .. m
  BY GtModule DEF GtGrown
<1>2. c \in 1 .. n /\ e \in Nat /\ e > 0 /\ c \in Nat
  BY <1>1 DEF GtResolved
<1>3. \A i \in 1 .. n : /\ r[i].name = ms[i].name /\ r[i].depth = ms[i].depth /\ r[i].kind = ms[i].kind
                        /\ r[i].mapped = ms[i].mapped /\ Imports(r[i]) = Imports(ms[i])
                        /\ (i # c => r[i].deps = ms[i].deps)
  BY <1>1, GtSameImports DEF GtGrown, GtSame
<1>4. \A i \in 1 .. m : i \in 1 .. n \/ (m = n + 1 /\ i = m /\ t = m)
  BY <1>1 DEF GtGrown
<1>5. m = n + 1 => /\ t = m /\ r[t].deps = <<>> /\ r[t].depth = ms[c].depth + 1 /\ r[t].mapped = (r[t].kind # "host")
                   /\ \A k \in 1 .. n : ms[k].name # r[t].name
  BY <1>1 DEF GtGrown
<1>6. /\ \A i \in 1 .. n : ms[i].depth \in Nat /\ ToSet(ms[i].deps) \subseteq 1 .. n
      /\ \A i \in 1 .. m : r[i].depth \in Nat
  BY <1>1, GtModule DEF GtGrown, GtResolved, GtEdges
<1>7. ToSet(<<>>) = {}
  BY DEF ToSet
<1>8. ASSUME NEW i \in 1 .. m, NEW k \in ToSet(r[i].deps)
      PROVE  (i \in 1 .. n /\ k \in ToSet(ms[i].deps) /\ k \in 1 .. n) \/ (i = c /\ k = t)
  <2>1. CASE i \in 1 .. n /\ i # c
    BY <1>3, <1>6, <1>8, <2>1
  <2>2. CASE i = c
    BY <1>2, <1>6, <1>8, <2>2 DEF GtGrown
  <2>3. CASE i \notin 1 .. n
    BY <1>4, <1>5, <1>7, <1>8, <2>3
  <2> QED
    BY <2>1, <2>2, <2>3
<1>9. \A i \in 1 .. n : ToSet(ms[i].deps) \subseteq ToSet(r[i].deps)
  BY <1>3 DEF GtGrown
<1>10. /\ \A i \in 1 .. n : \A k \in ToSet(ms[i].deps) : ms[k].depth <= ms[i].depth + 1
       /\ \A i \in 1 .. n : ms[i].depth <= ms[c].depth + 1
       /\ \A i, j \in 1 .. n : i <= j => ms[i].depth <= ms[j].depth
  BY <1>1 DEF GtResolved, GtNear, GtAt, GtLayers
<1>11. t \in 1 .. n \/ (m = n + 1 /\ t = m)
  BY <1>1, <1>4
<1>12. r[t].depth <= ms[c].depth + 1 /\ r[c].depth = ms[c].depth
  BY <1>2, <1>3, <1>5, <1>6, <1>10, <1>11
<1>13. GtEdges(r)
  BY <1>1, <1>8 DEF GtEdges
<1>14. GtNear(r)
  <2>1. ASSUME NEW i \in 1 .. m, NEW k \in ToSet(r[i].deps)
        PROVE  r[k].depth <= r[i].depth + 1
    <3>1. CASE i = c /\ k = t
      BY <1>12, <3>1
    <3>2. CASE i \in 1 .. n /\ k \in ToSet(ms[i].deps) /\ k \in 1 .. n
      BY <1>3, <1>10, <3>2
    <3> QED
      BY <1>8, <2>1, <3>1, <3>2
  <2> QED
    BY <1>1, <2>1 DEF GtNear
<1>15. GtParents(r)
  <2>1. ASSUME NEW i \in 1 .. m, i # 1
        PROVE  \E k \in 1 .. m : i \in ToSet(r[k].deps) /\ r[k].depth = r[i].depth - 1
    <3>1. CASE i \in 1 .. n
      <4>1. PICK k \in 1 .. n : i \in ToSet(ms[k].deps) /\ ms[k].depth = ms[i].depth - 1
        BY <1>1, <2>1, <3>1 DEF GtResolved, GtParents
      <4>2. k \in 1 .. m /\ i \in ToSet(r[k].deps) /\ r[k].depth = r[i].depth - 1
        <5>1. k \in 1 .. m
          BY <1>1, <4>1
        <5>2. i \in ToSet(r[k].deps)
          BY <1>9, <4>1
        <5>3. r[k].depth = ms[k].depth /\ r[i].depth = ms[i].depth
          BY <1>3, <3>1
        <5> QED
          BY <4>1, <5>1, <5>2, <5>3
      <4> QED
        BY <4>2
    <3>2. CASE i \notin 1 .. n
      <4>1. i = t /\ r[t].depth = ms[c].depth + 1
        BY <1>4, <1>5, <3>2
      <4>2. c \in 1 .. m /\ t \in ToSet(r[c].deps)
        BY <1>1, <1>2 DEF GtGrown
      <4>3. r[c].depth = r[t].depth - 1
        BY <1>2, <1>6, <1>12, <4>1
      <4> QED
        BY <4>1, <4>2, <4>3
    <3> QED
      BY <3>1, <3>2
  <2> QED
    BY <1>1, <2>1 DEF GtParents
<1>16. GtLayers(r)
  <2>1. ASSUME NEW i \in 1 .. m, NEW j \in 1 .. m, i <= j
        PROVE  r[i].depth <= r[j].depth
    <3>1. CASE j \in 1 .. n
      <4>1. i \in 1 .. n
        BY <1>1, <2>1, <3>1
      <4> QED
        BY <1>3, <1>10, <2>1, <3>1, <4>1
    <3>2. CASE j \notin 1 .. n
      <4>1. m = n + 1 /\ j = t /\ r[t].depth = ms[c].depth + 1
        BY <1>4, <1>5, <3>2
      <4>2. CASE i \in 1 .. n
        BY <1>3, <1>10, <4>1, <4>2
      <4>3. CASE i \notin 1 .. n
        <5>1. i = j /\ r[j].depth \in Nat
          BY <1>4, <1>6, <4>1, <4>3
        <5> QED
          BY <5>1
      <4> QED
        BY <4>2, <4>3
    <3> QED
      BY <3>1, <3>2
  <2> QED
    BY <1>1, <2>1 DEF GtLayers
<1>17. GtHeld(r)
  <2>1. \A i \in 1 .. n : ms[i].mapped = (ms[i].kind # "host")
    BY <1>1 DEF GtResolved, GtHeld
  <2> QED
    BY <1>1, <1>3, <1>4, <1>5, <2>1 DEF GtHeld
<1>18. \A i \in 1 .. n : {r[k].name : k \in ToSet(ms[i].deps)} = GtNamesOf(ms, i)
  <2>1. TAKE i \in 1 .. n
  <2>2. \A k \in ToSet(ms[i].deps) : r[k].name = ms[k].name
    BY <1>3, <1>6
  <2> QED
    BY <2>2 DEF GtNamesOf
<1>19. GtBefore(r, c)
  <2>1. ASSUME NEW i \in 1 .. m, i < c
        PROVE  GtNamesOf(r, i) = ToSet(Imports(r[i]))
    <3>1. i \in 1 .. n /\ i # c
      BY <1>2, <2>1
    <3>2. r[i].deps = ms[i].deps
      BY <1>3, <3>1
    <3>3. GtNamesOf(r, i) = GtNamesOf(ms, i)
      BY <1>18, <3>1, <3>2 DEF GtNamesOf
    <3>4. GtNamesOf(ms, i) = ToSet(Imports(ms[i]))
      BY <1>1, <2>1, <3>1 DEF GtResolved, GtBefore
    <3> QED
      BY <1>3, <3>1, <3>3, <3>4
  <2> QED
    BY <1>1, <2>1 DEF GtBefore
<1>20. GtAt(r, c, e + 1)
  <2>1. ms[c] \in GtModules
    BY <1>1, <1>2, GtModule
  <2>2. PICK z \in Nat : z = Len(Imports(ms[c])) /\ Imports(r[c]) = Imports(ms[c])
    BY <1>2, <1>3, <2>1, GtImported
  <2>3. e + 1 <= z + 1
    BY <1>2, <2>2
  <2>4. GtNamesOf(ms, c) = {Imports(ms[c])[k] : k \in 1 .. e - 1}
    BY <1>1, <1>2 DEF GtResolved, GtAt
  <2>5. GtNamesOf(r, c) = GtNamesOf(ms, c) \cup {r[t].name}
    <3>1. ToSet(r[c].deps) = ToSet(ms[c].deps) \cup {t}
      BY DEF GtGrown
    <3>2. GtNamesOf(r, c) = {r[k].name : k \in ToSet(ms[c].deps)} \cup {r[t].name}
      BY <3>1 DEF GtNamesOf
    <3> QED
      BY <1>2, <1>18, <3>2
  <2>6. \A k : k \in 1 .. (e + 1) - 1 <=> k \in 1 .. e - 1 \/ k = e
    BY <1>2
  <2>7. GtNamesOf(r, c) = {Imports(ms[c])[k] : k \in 1 .. (e + 1) - 1}
    BY <2>4, <2>5, <2>6
  <2>8. \A i \in 1 .. m : r[i].depth <= r[c].depth + 1
    BY <1>3, <1>4, <1>10, <1>12
  <2> QED
    BY <1>1, <2>2, <2>3, <2>7, <2>8 DEF GtAt
<1>21. GtBehind(r, c)
  <2>1. \A i \in 1 .. n : i > c => ms[i].deps = <<>>
    BY <1>1 DEF GtResolved, GtBehind
  <2>2. ASSUME NEW i \in 1 .. m, i > c
        PROVE  r[i].deps = <<>>
    <3>1. CASE i \in 1 .. n
      BY <1>2, <1>3, <2>1, <2>2, <3>1
    <3>2. CASE i \notin 1 .. n
      BY <1>4, <1>5, <3>2
    <3> QED
      BY <3>1, <3>2
  <2> QED
    BY <1>1, <2>2 DEF GtBehind
<1>22. GtNamed(r)
  <2>1. \A i, j \in 1 .. n : ms[i].name = ms[j].name => i = j
    BY <1>1 DEF GtNamed
  <2>2. ASSUME NEW i \in 1 .. m, NEW j \in 1 .. m, r[i].name = r[j].name
        PROVE  i = j
    <3>1. CASE i \in 1 .. n /\ j \in 1 .. n
      BY <1>3, <2>1, <2>2, <3>1
    <3>2. CASE i \notin 1 .. n /\ j \in 1 .. n
      BY <1>3, <1>4, <1>5, <2>2, <3>2
    <3>3. CASE i \in 1 .. n /\ j \notin 1 .. n
      BY <1>3, <1>4, <1>5, <2>2, <3>3
    <3>4. CASE i \notin 1 .. n /\ j \notin 1 .. n
      BY <1>4, <3>4
    <3> QED
      BY <3>1, <3>2, <3>3, <3>4
  <2> QED
    BY <1>1, <2>2 DEF GtNamed
<1>23. c \in Nat \ {0} /\ e + 1 \in Nat \ {0} /\ c <= Len(r) + 1 /\ 1 <= Len(r)
  BY <1>1, <1>2
<1> QED
  BY <1>13, <1>14, <1>15, <1>16, <1>17, <1>19, <1>20, <1>21, <1>22, <1>23 DEF GtResolved

\* What is resolved of the program's imports.
LEMMA GtResolvedThen ==
  ASSUME UNCHANGED program, cursor' = <<cursor'[1], cursor'[2]>>, walk' = <<>>, order' = <<>>,
         GtResolved(modules', cursor'[1], cursor'[2])
  PROVE  GtResolving'
<1>2. GtBefore(modules', cursor'[1]) => GtBefore(modules, cursor[1])'
  BY DEF GtBefore, GtNamesOf, Imports
<1>3. GtAt(modules', cursor'[1], cursor'[2]) => GtAt(modules, cursor[1], cursor[2])'
  BY DEF GtAt, GtNamesOf, Imports
<1>4. GtResolved(modules, cursor[1], cursor[2])'
  BY <1>2, <1>3 DEF GtResolved, GtEdges, GtNear, GtParents, GtLayers, GtHeld, GtBehind
<1> QED
  BY <1>4 DEF GtResolving

\* A load that fails has what it made to undo.
LEMMA GtFailing ==
  ASSUME GtInv, step \in {"load", "resolve", "order"}, step' = "undo", result' = "error",
         UNCHANGED <<program, low, exit>>, modules' \in Seq(GtModules),
         spans' \subseteq {program.root} \cup GtOwnedIn(modules'),
         regions' \subseteq GtMappedIn(modules') \cup refusals', GtImages',
         \A i \in 1 .. Len(modules') : ~modules'[i].protected
  PROVE  GtInv'
<1> USE DEF GtSteps, GtEarly, GtLoaded
<1>1. GtTypes' /\ GtNone'
  BY DEF GtInv, GtTypes, GtNone
<1>2. GtFiles' /\ GtLow' /\ GtMaps'
  BY DEF GtInv, GtFiles, GtLow, GtMaps
<1>3. GtExits'
  BY DEF GtInv, GtExits
<1>4. GtMade' /\ GtRights'
  BY DEF GtMade, GtRights
<1>5. GtResolving' /\ GtOrdering' /\ GtCounts'
  BY DEF GtResolving, GtOrdering, GtCounts
<1> QED
  BY <1>1, <1>2, <1>3, <1>4, <1>5 DEF GtInv

\* A registry of one module.
LEMMA GtRootOnly ==
  ASSUME program \in Programs, NEW ms, ms = <<Module(program.root, "root", 0)>>
  PROVE  /\ ms \in Seq(GtModules) /\ Len(ms) = 1 /\ ms[1] = Module(program.root, "root", 0)
         /\ ms[1].name = program.root /\ ms[1].kind = "root" /\ ms[1].depth = 0 /\ ms[1].deps = <<>>
         /\ ~ms[1].mapped /\ ~ms[1].owned /\ ~ms[1].protected
<1>1. PICK m : m = Module(program.root, "root", 0)
  OBVIOUS
<1>2. <<>> \in Seq(Nat \ {0})
  OBVIOUS
<1>3. /\ m.name = program.root /\ m.kind = "root" /\ m.depth = 0 /\ m.deps = <<>>
      /\ ~m.mapped /\ ~m.owned /\ ~m.protected
  BY <1>1 DEF Module
<1>4. m \in GtModules
  BY <1>1, <1>2, GtPrograms DEF Module, GtModules, GtKinds
<1>5. <<m>> \in Seq(GtModules) /\ Len(<<m>>) = 1 /\ <<m>>[1] = m
  BY <1>4
<1> QED
  BY <1>1, <1>3, <1>5

\* The registry of the root alone.
LEMMA GtRootResolved ==
  ASSUME program \in Programs, NEW ms, ms \in Seq(GtModules), Len(ms) = 1, ms[1].deps = <<>>,
         ms[1].kind = "root", ms[1].mapped, ms[1].name = program.root
  PROVE  GtResolved(ms, 1, 1) /\ GtNamed(ms)
<1>1. 1 \in 1 .. Len(ms) /\ \A i \in 1 .. Len(ms) : i = 1
  OBVIOUS
<1>2. ToSet(<<>>) = {}
  BY DEF ToSet
<1>3. ms[1] \in GtModules /\ ms[1].depth \in Nat
  BY <1>1, GtModule
<1>4. Len(Imports(ms[1])) \in Nat
  BY <1>3, GtPrograms, GtImported
<1>5. GtEdges(ms) /\ GtNear(ms) /\ GtParents(ms)
  BY <1>1, <1>2 DEF GtEdges, GtNear, GtParents
<1>6. GtLayers(ms) /\ GtNamed(ms)
  BY <1>1, <1>3 DEF GtLayers, GtNamed
<1>7. GtHeld(ms)
  BY <1>1 DEF GtHeld
<1>8. GtBefore(ms, 1) /\ GtBehind(ms, 1)
  BY <1>1 DEF GtBefore, GtBehind
<1>9. GtAt(ms, 1, 1)
  <2>1. GtNamesOf(ms, 1) = {}
    BY <1>2 DEF GtNamesOf
  <2>2. {Imports(ms[1])[k] : k \in 1 .. 1 - 1} = {}
    OBVIOUS
  <2>3. 1 <= Len(Imports(ms[1])) + 1
    BY <1>4
  <2>4. \A i \in 1 .. Len(ms) : ms[i].depth <= ms[1].depth + 1
    BY <1>1, <1>3
  <2> QED
    BY <2>1, <2>2, <2>3, <2>4 DEF GtAt
<1> QED
  BY <1>5, <1>6, <1>7, <1>8, <1>9 DEF GtResolved

\* The root is prepared.
LEMMA GtRootLoaded ==
  ASSUME GtInv, LoadRoot, UNCHANGED <<low, exit>>
  PROVE  GtInv'
<1>3. PICK ms : ms = <<Module(program.root, "root", 0)>>
  OBVIOUS
<1>0. program \in Programs /\ modules = <<>> /\ cursor = <<1, 1>> /\ walk = <<>> /\ order = <<>> /\ step = "load"
  BY DEF GtInv, GtTypes, GtNone, LoadRoot, GtLoaded
<1>1. PICK how \in DOMAIN Prepares :
        /\ Prepare(ms, 1, how)
        /\ IF how = "ok" THEN step' = "resolve" /\ UNCHANGED result ELSE Fails
  BY <1>3 DEF LoadRoot
<1>2. UNCHANGED <<program, cursor, walk, order, spans>>
  BY DEF LoadRoot
<1>4. /\ ms \in Seq(GtModules) /\ Len(ms) = 1 /\ 1 \in 1 .. Len(ms)
      /\ ms[1].name = program.root /\ ms[1].kind = "root" /\ ms[1].depth = 0 /\ ms[1].deps = <<>>
      /\ ~ms[1].mapped /\ ~ms[1].owned /\ ~ms[1].protected
  BY <1>0, <1>3, GtRootOnly
<1>5. regions \subseteq refusals
  BY <1>0 DEF GtInv, GtMaps, GtMappedIn
<1>6. /\ GtLike(modules', ms) /\ modules'[1].mapped = (how \in {"ok", "unverified"})
      /\ \A k \in 1 .. Len(ms) : modules'[k].protected = ms[k].protected
      /\ regions' \subseteq GtMappedIn(modules') \cup refusals'
      /\ (how # "lost" => refusals' = refusals)
      /\ (how = "ok" => ms[1].name \in DOMAIN access')
  BY <1>1, <1>4, <1>5, GtPrepared
<1>7. /\ modules' \in Seq(GtModules) /\ Len(modules') = 1 /\ modules'[1].name = program.root
      /\ modules'[1].kind = "root" /\ modules'[1].deps = <<>>
  BY <1>4, <1>6 DEF GtLike, GtSame
<1>8. \A i \in 1 .. Len(modules') : i = 1
  BY <1>7
<1>9. \A i \in 1 .. Len(modules') : ~modules'[i].protected
  BY <1>4, <1>6, <1>8
<1>10. spans' \subseteq {program.root} \cup GtOwnedIn(modules')
  <2>1. spans \subseteq {program.root}
    BY <1>0 DEF GtInv, GtFiles, GtOwnedIn
  <2> QED
    BY <1>2, <2>1
<1>11. GtImages'
  BY <1>0, <1>2, <1>7, <1>8, GtPrograms DEF GtImages
<1>12. CASE how # "ok"
  BY <1>0, <1>1, <1>2, <1>6, <1>7, <1>9, <1>10, <1>11, <1>12, GtFailing DEF Fails
<1>13. CASE how = "ok"
  <2>1. step' = "resolve" /\ result' = result /\ modules'[1].mapped /\ refusals' = refusals
        /\ program.root \in DOMAIN access'
    BY <1>1, <1>4, <1>6, <1>13
  <2>2. GtResolved(modules', 1, 1) /\ GtNamed(modules')
    BY <1>0, <1>7, <2>1, GtRootResolved
  <2> USE DEF GtSteps, GtEarly, GtLoaded
  <2>3. GtTypes' /\ GtNone' /\ GtLow'
    BY <1>0, <1>2, <1>7, <2>1 DEF GtInv, GtTypes, GtNone, GtLow
  <2>4. GtFiles' /\ GtMaps'
    BY <1>2, <1>6, <1>10, <2>1 DEF GtInv, GtFiles, GtMaps
  <2>5. GtExits'
    BY <1>0, <2>1 DEF GtInv, GtExits
  <2>6. GtMade' /\ GtRights'
    BY <1>7, <1>8, <1>9, <2>1, <2>2 DEF GtMade, GtRights
  <2>7. GtResolving'
    <3>1. cursor' = <<1, 1>> /\ cursor'[1] = 1 /\ cursor'[2] = 1
      BY <1>0, <1>2
    <3>2. cursor' = <<cursor'[1], cursor'[2]>> /\ GtResolved(modules', cursor'[1], cursor'[2])
      BY <2>2, <3>1
    <3> QED
      BY <1>0, <1>2, <3>2, GtResolvedThen
  <2>8. GtOrdering' /\ GtCounts'
    BY <2>1 DEF GtOrdering, GtCounts
  <2> QED
    BY <1>11, <2>3, <2>4, <2>5, <2>6, <2>7, <2>8 DEF GtInv
<1> QED
  BY <1>12, <1>13


\* An import that is about to be resolved.
LEMMA GtImporting ==
  ASSUME GtInv, Resolving
  PROVE  /\ program \in Programs /\ modules \in Seq(GtModules) /\ step = "resolve" /\ walk = <<>> /\ order = <<>>
         /\ cursor[1] \in 1 .. Len(modules) /\ cursor[2] \in Nat \ {0} /\ Len(modules) \in Nat
         /\ GtResolved(modules, cursor[1], cursor[2]) /\ GtNamed(modules)
         /\ Importer = modules[cursor[1]] /\ Importer \in GtModules /\ Importer.depth \in Nat
         /\ Importer.kind # "host" => Importer.name \in DOMAIN program.imports
         /\ cursor[2] <= Len(Imports(Importer)) /\ Import = Imports(modules[cursor[1]])[cursor[2]]
         /\ Import \in ModuleNames
         /\ \A i \in 1 .. Len(modules) : ~modules[i].protected /\ (modules[i].mapped => modules[i].name \in DOMAIN access)
         /\ GtImages /\ regions \subseteq GtMappedIn(modules) \cup refusals
         /\ spans \subseteq {program.root} \cup GtOwnedIn(modules)
<1>1. /\ program \in Programs /\ modules \in Seq(GtModules) /\ step = "resolve" /\ walk = <<>> /\ order = <<>>
      /\ GtResolved(modules, cursor[1], cursor[2])
  BY DEF GtInv, GtTypes, GtResolving, Resolving
<1>2. cursor[1] \in 1 .. Len(modules) /\ cursor[2] \in Nat \ {0} /\ Len(modules) \in Nat
  <2>1. Len(modules) \in Nat
    BY <1>1, GtModule
  <2> QED
    BY <1>1, <2>1 DEF GtResolved, Resolving
<1>3. Importer = modules[cursor[1]] /\ Importer \in GtModules /\ Importer.depth \in Nat
  BY <1>1, <1>2, GtModule DEF Importer
<1>4. GtImages /\ (Importer.kind # "host" => Importer.name \in DOMAIN program.imports)
  BY <1>2, <1>3 DEF GtInv, GtImages
<1>5. cursor[2] <= Len(Imports(Importer)) /\ Import = Imports(modules[cursor[1]])[cursor[2]]
  BY <1>3 DEF Resolving, Import
<1>6. Import \in ModuleNames
  <2>1. Imports(Importer) \in Seq(ModuleNames) /\ Len(Imports(Importer)) \in Nat
    BY <1>1, <1>3, <1>4, GtImported
  <2> QED
    BY <1>2, <1>3, <1>5, <2>1, ElementOfSeq
<1>7. /\ GtNamed(modules)
      /\ \A i \in 1 .. Len(modules) : ~modules[i].protected /\ (modules[i].mapped => modules[i].name \in DOMAIN access)
  BY <1>1 DEF GtInv, GtMade, GtRights, GtLoaded
<1>8. regions \subseteq GtMappedIn(modules) \cup refusals /\ spans \subseteq {program.root} \cup GtOwnedIn(modules)
  BY <1>1 DEF GtInv, GtMaps, GtFiles, GtEarly
<1> QED
  BY <1>1, <1>2, <1>3, <1>4, <1>5, <1>6, <1>7, <1>8

\* What a registry that grows keeps.
LEMMA GtGrownKeeps ==
  ASSUME NEW ms, ms \in Seq(GtModules), NEW r, r \in Seq(GtModules), Len(r) = Len(ms) \/ Len(r) = Len(ms) + 1,
         \A k \in 1 .. Len(ms) : GtSame(r[k], ms[k]) /\ r[k].mapped = ms[k].mapped
  PROVE  GtMappedIn(ms) \subseteq GtMappedIn(r) /\ GtOwnedIn(ms) \subseteq GtOwnedIn(r)
<1>1. PICK n \in Nat, m \in Nat : n = Len(ms) /\ m = Len(r) /\ DOMAIN ms = 1 .. n /\ DOMAIN r = 1 .. m /\ (m = n \/ m = n + 1)
  BY GtModule
<1>2. \A k \in 1 .. n : k \in 1 .. m /\ r[k].name = ms[k].name /\ r[k].owned = ms[k].owned /\ r[k].mapped = ms[k].mapped
  BY <1>1 DEF GtSame
<1> QED
  BY <1>1, <1>2 DEF GtMappedIn, GtOwnedIn

\* An import is resolved.
LEMMA GtGrowing ==
  ASSUME GtInv, Resolving, UNCHANGED <<program, walk, order, step, result, refusals, low, exit>>,
         cursor' = <<cursor[1], cursor[2] + 1>>, NEW t, GtGrown(modules', modules, cursor[1], t),
         modules'[t].name = Import, GtImages', regions' \subseteq GtMappedIn(modules') \cup refusals',
         spans' \subseteq {program.root} \cup GtOwnedIn(modules'),
         \A i \in 1 .. Len(modules') : ~modules'[i].protected /\ (modules'[i].mapped => modules'[i].name \in DOMAIN access')
  PROVE  GtInv'
<1> USE DEF GtSteps, GtEarly, GtLoaded
<1>1. /\ program \in Programs /\ modules \in Seq(GtModules) /\ step = "resolve" /\ walk = <<>> /\ order = <<>>
      /\ cursor[1] \in 1 .. Len(modules) /\ cursor[2] \in Nat \ {0}
      /\ GtResolved(modules, cursor[1], cursor[2]) /\ GtNamed(modules)
      /\ modules[cursor[1]].kind # "host" => modules[cursor[1]].name \in DOMAIN program.imports
      /\ cursor[2] <= Len(Imports(modules[cursor[1]])) /\ Import = Imports(modules[cursor[1]])[cursor[2]]
  BY GtImporting
<1>2. cursor[1] <= Len(modules)
  BY <1>1
<1>3. GtResolved(modules', cursor[1], cursor[2] + 1) /\ GtNamed(modules')
  BY <1>1, <1>2, GtResolvesOne
<1>4. modules' \in Seq(GtModules)
  BY DEF GtGrown
<1>5. GtTypes' /\ GtNone' /\ GtLow'
  BY <1>1, <1>4 DEF GtInv, GtTypes, GtNone, GtLow
<1>6. GtFiles' /\ GtMaps' /\ GtExits'
  BY <1>1 DEF GtInv, GtFiles, GtMaps, GtExits
<1>7. GtMade' /\ GtRights'
  BY <1>1, <1>3 DEF GtMade, GtRights
<1>8. GtResolving'
  <2>1. cursor'[1] = cursor[1] /\ cursor'[2] = cursor[2] + 1
    OBVIOUS
  <2> QED
    BY <1>1, <1>3, <2>1, GtResolvedThen
<1>9. GtOrdering' /\ GtCounts'
  BY <1>1 DEF GtOrdering, GtCounts
<1> QED
  BY <1>5, <1>6, <1>7, <1>8, <1>9 DEF GtInv

\* A module as it is registered.
LEMMA GtNew ==
  ASSUME NEW n \in ModuleNames, NEW kind \in GtKinds, NEW d \in Nat, NEW m, m = Module(n, kind, d)
  PROVE  /\ m \in GtModules /\ m.name = n /\ m.kind = kind /\ m.depth = d /\ m.deps = <<>>
         /\ ~m.mapped /\ ~m.owned /\ ~m.protected
<1>1. <<>> \in Seq(Nat \ {0})
  OBVIOUS
<1>2. /\ m.name = n /\ m.kind = kind /\ m.depth = d /\ m.deps = <<>>
      /\ ~m.mapped /\ ~m.owned /\ ~m.protected
  BY DEF Module
<1>3. m \in GtModules
  BY <1>1 DEF Module, GtModules
<1> QED
  BY <1>2, <1>3

\* One that a file was opened for.
GtOwning(m) == [m EXCEPT !.owned = TRUE]
LEMMA GtNewLocal ==
  ASSUME NEW n \in ModuleNames, NEW d \in Nat, NEW m, m = GtOwning(Module(n, "local", d))
  PROVE  /\ m \in GtModules /\ m.name = n /\ m.kind = "local" /\ m.depth = d /\ m.deps = <<>>
         /\ ~m.mapped /\ m.owned /\ ~m.protected
<1>1. PICK x : x = Module(n, "local", d)
  OBVIOUS
<1>2. /\ x \in GtModules /\ x.name = n /\ x.kind = "local" /\ x.depth = d /\ x.deps = <<>>
      /\ ~x.mapped /\ ~x.protected
  BY <1>1, GtNew DEF GtKinds
<1>3. m = [x EXCEPT !.owned = TRUE]
  BY <1>1 DEF GtOwning
<1> QED
  BY <1>2, <1>3 DEF GtModules

\* An edge to a module that is there, or was just put at the end.
GtOrNew(x, ms, c) ==
    \/ x = ms
    \/ \E m \in GtModules : /\ x = Append(ms, m) /\ m.deps = <<>> /\ m.depth = ms[c].depth + 1
                            /\ ~m.protected /\ \A k \in 1 .. Len(ms) : ms[k].name # m.name
GtBy(r, y, ms) == GtLike(r, y) /\ \A k \in 1 .. Len(ms) : r[k] = y[k]
LEMMA GtGrows ==
  ASSUME NEW ms, ms \in Seq(GtModules), NEW c \in 1 .. Len(ms), NEW x, x \in Seq(GtModules),
         GtOrNew(x, ms, c),
         NEW t \in 1 .. Len(x), x # ms => t = Len(ms) + 1,
         NEW y, y = Edge(x, c, t), NEW r, GtBy(r, y, ms),
         x # ms => r[t].mapped = (r[t].kind # "host")
  PROVE  GtGrown(r, ms, c, t) /\ r[t].name = x[t].name
<1>1. PICK n \in Nat, m \in Nat : n = Len(ms) /\ m = Len(x) /\ DOMAIN ms = 1 .. n
  BY GtModule
<1>2. x # ms => /\ m = n + 1 /\ t = n + 1 /\ x[t].deps = <<>> /\ x[t].depth = ms[c].depth + 1
                /\ \A k \in 1 .. n : ms[k].name # x[t].name
  BY <1>1, GtAppended DEF GtOrNew
<1>3. x = ms => m = n
  BY <1>1
<1>4. \A k \in 1 .. n : x[k] = ms[k] /\ k \in 1 .. m
  BY <1>1, <1>2, <1>3, GtAppended DEF GtOrNew
<1>5. c \in 1 .. m /\ c \in 1 .. Len(x) /\ t \in Nat \ {0}
  BY <1>1, <1>4
<1>6. /\ y \in Seq(GtModules) /\ Len(y) = m
      /\ \A k \in 1 .. m : /\ GtSame(y[k], x[k]) /\ y[k].mapped = x[k].mapped
                           /\ y[k].protected = x[k].protected /\ (k # c => y[k].deps = x[k].deps)
      /\ GtLonger(y[c].deps, x[c].deps, t)
  <2>1. y \in Seq(GtModules) /\ Len(y) = Len(x)
    BY <1>5, GtEdged
  <2>2. \A k \in 1 .. Len(x) : /\ GtSame(y[k], x[k]) /\ y[k].mapped = x[k].mapped
                              /\ y[k].protected = x[k].protected /\ (k # c => y[k].deps = x[k].deps)
    BY <1>5, GtEdged
  <2>3. GtLonger(y[c].deps, x[c].deps, t)
    BY <1>5, GtEdged
  <2> QED
    BY <1>1, <2>1, <2>2, <2>3
<1>7. r \in Seq(GtModules) /\ Len(r) = m /\ \A k \in 1 .. m : GtSame(r[k], y[k]) /\ r[k].deps = y[k].deps
  BY <1>6 DEF GtBy, GtLike
<1>8. \A k \in 1 .. n : GtSame(r[k], ms[k]) /\ r[k].mapped = ms[k].mapped /\ (k # c => r[k].deps = ms[k].deps)
  BY <1>1, <1>4, <1>6 DEF GtBy
<1>9. ToSet(r[c].deps) = ToSet(ms[c].deps) \cup {t}
  BY <1>1, <1>4, <1>6 DEF GtBy, GtLonger
<1>10. r[t].name = x[t].name /\ r[t].depth = x[t].depth
  BY <1>1, <1>6, <1>7 DEF GtSame
<1>11. x # ms => r[t].deps = <<>>
  <2>1. x # ms => t # c
    BY <1>1, <1>2
  <2> QED
    BY <1>1, <1>2, <1>6, <1>7, <2>1
<1> QED
  BY <1>1, <1>2, <1>3, <1>7, <1>8, <1>9, <1>10, <1>11 DEF GtGrown

\* An import that is registered already, or that the runtime provides.
LEMMA GtKnown ==
  ASSUME GtInv, ResolveKnown, UNCHANGED <<low, exit>>
  PROVE  GtInv'
<1>0. Resolving
  BY DEF ResolveKnown
<1>1. PICK c, n \in Nat : c = cursor[1] /\ n = Len(modules) /\ c \in 1 .. n
  BY <1>0, GtImporting
<1>2. PICK m : m = Module(Import, "host", Importer.depth + 1)
  OBVIOUS
<1>3. PICK known : known = Find(modules, Import)
  OBVIOUS
<1>4. PICK x : x = IF known = 0 THEN Append(modules, m) ELSE modules
  OBVIOUS
<1>5. PICK t : t = Find(x, Import)
  OBVIOUS
<1>6. /\ modules' = Edge(x, c, t) /\ cursor' = <<cursor[1], cursor[2] + 1>>
      /\ UNCHANGED <<program, walk, order, regions, refusals, spans, access, step, result>>
  BY <1>1, <1>2, <1>3, <1>4, <1>5 DEF ResolveKnown
<1>7. /\ program \in Programs /\ modules \in Seq(GtModules) /\ Importer = modules[c] /\ Importer.depth \in Nat
      /\ Import \in ModuleNames
      /\ \A i \in 1 .. n : ~modules[i].protected /\ (modules[i].mapped => modules[i].name \in DOMAIN access)
      /\ GtImages /\ regions \subseteq GtMappedIn(modules) \cup refusals
      /\ spans \subseteq {program.root} \cup GtOwnedIn(modules)
  BY <1>0, <1>1, GtImporting
<1>8. /\ m \in GtModules /\ m.name = Import /\ m.kind = "host" /\ m.depth = modules[c].depth + 1 /\ m.deps = <<>>
      /\ ~m.mapped /\ ~m.protected
  BY <1>2, <1>7, GtNew DEF GtKinds
<1>9. x \in Seq(GtModules) /\ Len(x) = (IF known = 0 THEN n + 1 ELSE n) /\ (known = 0 => x[n + 1] = m)
      /\ \A k \in 1 .. n : x[k] = modules[k]
  BY <1>1, <1>4, <1>7, <1>8, GtAppended
<1>10. known # 0 => known \in 1 .. n /\ modules[known].name = Import
  BY <1>1, <1>3, <1>7, GtFound
<1>11. known = 0 => \A k \in 1 .. n : modules[k].name # Import
  BY <1>1, <1>3, <1>7, GtFound
<1>12. t \in 1 .. Len(x) /\ x[t].name = Import
  <2>1. \E k \in 1 .. Len(x) : x[k].name = Import
    <3>1. CASE known = 0
      <4>1. n + 1 \in 1 .. Len(x) /\ x[n + 1].name = Import
        BY <1>8, <1>9, <3>1
      <4> QED
        BY <4>1
    <3>2. CASE known # 0
      BY <1>9, <1>10, <3>2
    <3> QED
      BY <3>1, <3>2
  <2>2. t # 0
    BY <1>5, <1>9, <2>1, GtFound
  <2> QED
    BY <1>5, <1>9, <2>2, GtFound
<1>13. known = 0 => t = n + 1
  <2>1. SUFFICES ASSUME known = 0, t # n + 1 PROVE FALSE
    OBVIOUS
  <2>2. t \in 1 .. n
    BY <1>1, <1>9, <1>12, <2>1
  <2> QED
    BY <1>9, <1>11, <1>12, <2>1, <2>2
<1>14. x # modules => known = 0
  BY <1>4
<1>15. PICK y : y = Edge(x, c, t)
  OBVIOUS
<1>16. c \in 1 .. Len(x) /\ t \in Nat \ {0}
  BY <1>1, <1>9, <1>12
<1>17. /\ y \in Seq(GtModules) /\ Len(y) = Len(x)
       /\ \A k \in 1 .. Len(x) : /\ GtSame(y[k], x[k]) /\ y[k].mapped = x[k].mapped /\ y[k].protected = x[k].protected
  BY <1>9, <1>15, <1>16, GtEdged
<1>18. GtBy(y, y, modules)
  BY <1>17 DEF GtBy, GtLike, GtSame
<1>19. x # modules => y[t].mapped = (y[t].kind # "host")
  <2>1. SUFFICES ASSUME x # modules PROVE y[t].mapped = (y[t].kind # "host")
    OBVIOUS
  <2>2. x[t] = m /\ y[t].mapped = x[t].mapped /\ y[t].kind = x[t].kind
    BY <1>9, <1>12, <1>13, <1>14, <1>17, <2>1 DEF GtSame
  <2>3. m.mapped = FALSE /\ m.kind = "host"
    BY <1>8
  <2> QED
    BY <2>2, <2>3
<1>20. GtOrNew(x, modules, c)
  BY <1>1, <1>4, <1>8, <1>11 DEF GtOrNew
<1>21. GtGrown(y, modules, c, t) /\ y[t].name = Import
  <2>1. c \in 1 .. Len(modules) /\ (x # modules => t = Len(modules) + 1)
    BY <1>1, <1>13, <1>14
  <2> QED
    BY <1>7, <1>9, <1>12, <1>15, <1>18, <1>19, <1>20, <2>1, GtGrows
<1>22. \A i \in 1 .. Len(y) : i \in 1 .. n \/ (known = 0 /\ i = n + 1)
  BY <1>1, <1>9, <1>17
<1>23. \A i \in 1 .. n : /\ y[i].name = modules[i].name /\ y[i].kind = modules[i].kind /\ y[i].mapped = modules[i].mapped
                         /\ y[i].protected = modules[i].protected
  BY <1>1, <1>9, <1>17 DEF GtSame
<1>24. known = 0 => y[n + 1].kind = "host" /\ ~y[n + 1].mapped /\ ~y[n + 1].protected
  BY <1>1, <1>8, <1>9, <1>17 DEF GtSame
<1>25. \A i \in 1 .. Len(y) : ~y[i].protected /\ (y[i].mapped => y[i].name \in DOMAIN access)
  BY <1>7, <1>22, <1>23, <1>24
<1>26. GtImages'
  <2>1. \A i \in 1 .. n : /\ modules[i].kind # "host" => modules[i].name \in DOMAIN program.imports
                          /\ modules[i].mapped => modules[i].kind # "host"
    BY <1>1, <1>7 DEF GtImages
  <2>2. \A i \in 1 .. Len(y) : /\ y[i].kind # "host" => y[i].name \in DOMAIN program.imports
                               /\ y[i].mapped => y[i].kind # "host"
    BY <1>22, <1>23, <1>24, <2>1
  <2> QED
    BY <1>6, <1>15, <2>2 DEF GtImages
<1>27. GtMappedIn(modules) \subseteq GtMappedIn(y) /\ GtOwnedIn(modules) \subseteq GtOwnedIn(y)
  <2>1. Len(y) = Len(modules) \/ Len(y) = Len(modules) + 1
    BY <1>1, <1>9, <1>17
  <2>2. \A k \in 1 .. Len(modules) : GtSame(y[k], modules[k]) /\ y[k].mapped = modules[k].mapped
    BY <1>1, <1>9, <1>17
  <2> QED
    BY <1>7, <1>17, <2>1, <2>2, GtGrownKeeps
<1>28. modules' = y
  BY <1>6, <1>15
<1>29. regions' \subseteq GtMappedIn(modules') \cup refusals' /\ spans' \subseteq {program.root} \cup GtOwnedIn(modules')
  BY <1>6, <1>7, <1>27, <1>28
<1>30. GtGrown(modules', modules, cursor[1], t) /\ modules'[t].name = Import
  BY <1>1, <1>21, <1>28
<1>31. \A i \in 1 .. Len(modules') : ~modules'[i].protected /\ (modules'[i].mapped => modules'[i].name \in DOMAIN access')
  BY <1>6, <1>25, <1>28
<1> QED
  BY <1>0, <1>6, <1>26, <1>29, <1>30, <1>31, GtGrowing

\* An import whose file is opened and mapped, or fails.
LEMMA GtLocal ==
  ASSUME GtInv, ResolveLocal, UNCHANGED <<low, exit>>
  PROVE  GtInv'
<1>0. Resolving /\ Find(modules, Import) = 0
  BY DEF ResolveLocal
<1>1. PICK c, n \in Nat : c = cursor[1] /\ n = Len(modules) /\ c \in 1 .. n
  BY <1>0, GtImporting
<1>2. PICK m : m = GtOwning(Module(Import, "local", Importer.depth + 1))
  OBVIOUS
<1>3. PICK x : x = Append(modules, m)
  OBVIOUS
<1>4. PICK t \in Nat : t = n + 1
  BY <1>1
<1>5. PICK y : y = Edge(x, c, t)
  OBVIOUS
<1>6. spans' = spans \cup {Import} /\ UNCHANGED <<program, walk, order>>
  BY DEF ResolveLocal
<1>7. PICK how \in DOMAIN Prepares :
        IF how = "ok" /\ EdgeFits(Importer, t)
        THEN /\ Prepare(y, t, how)
             /\ cursor' = <<cursor[1], cursor[2] + 1>>
             /\ UNCHANGED <<step, result>>
        ELSE Prepare(x, t, how) /\ Fails /\ UNCHANGED cursor
  BY <1>1, <1>2, <1>3, <1>4, <1>5 DEF ResolveLocal, GtOwning
<1>8. /\ program \in Programs /\ modules \in Seq(GtModules) /\ Importer = modules[c] /\ Importer.depth \in Nat
      /\ Import \in ModuleNames /\ step = "resolve"
      /\ \A i \in 1 .. n : ~modules[i].protected /\ (modules[i].mapped => modules[i].name \in DOMAIN access)
      /\ GtImages /\ regions \subseteq GtMappedIn(modules) \cup refusals
      /\ spans \subseteq {program.root} \cup GtOwnedIn(modules)
  BY <1>0, <1>1, GtImporting
<1>9. /\ m \in GtModules /\ m.name = Import /\ m.kind = "local" /\ m.depth = modules[c].depth + 1 /\ m.deps = <<>>
      /\ ~m.mapped /\ m.owned /\ ~m.protected
  BY <1>2, <1>8, GtNewLocal
<1>10. x \in Seq(GtModules) /\ Len(x) = t /\ x[t] = m /\ \A k \in 1 .. n : x[k] = modules[k]
  BY <1>1, <1>3, <1>4, <1>8, <1>9, GtAppended
<1>11. \A k \in 1 .. n : modules[k].name # Import
  BY <1>0, <1>1, <1>8, GtFound
<1>12. c \in 1 .. Len(x) /\ t \in Nat \ {0} /\ t \in 1 .. Len(x)
  BY <1>1, <1>4, <1>10
<1>13. /\ y \in Seq(GtModules) /\ Len(y) = Len(x)
       /\ \A k \in 1 .. Len(x) : /\ GtSame(y[k], x[k]) /\ y[k].mapped = x[k].mapped /\ y[k].protected = x[k].protected
  BY <1>5, <1>10, <1>12, GtEdged
<1>14. Import \in DOMAIN program.imports
  BY DEF ResolveLocal
\* What either way of preparing it comes to.
<1> DEFINE Prepared(z) ==
      /\ GtLike(modules', z) /\ modules'[t].mapped = (how \in {"ok", "unverified"})
      /\ \A k \in 1 .. Len(z) : modules'[k].protected = z[k].protected /\ (k # t => modules'[k] = z[k])
      /\ regions' \subseteq GtMappedIn(modules') \cup refusals'
      /\ how # "lost" => refusals' = refusals
      /\ DOMAIN access \subseteq DOMAIN access'
      /\ how = "ok" => z[t].name \in DOMAIN access'
<1>15. ASSUME NEW z, z \in Seq(GtModules), Len(z) = t, Prepare(z, t, how),
              \A k \in 1 .. t : GtSame(z[k], x[k]) /\ z[k].mapped = x[k].mapped /\ z[k].protected = x[k].protected
       PROVE  /\ Prepared(z) /\ modules' \in Seq(GtModules) /\ Len(modules') = t
              /\ \A k \in 1 .. n : /\ modules'[k].name = modules[k].name /\ modules'[k].kind = modules[k].kind
                                   /\ modules'[k].mapped = modules[k].mapped /\ modules'[k].protected = modules[k].protected
              /\ modules'[t].name = Import /\ modules'[t].kind = "local" /\ ~modules'[t].protected
              /\ GtImages' /\ spans' \subseteq {program.root} \cup GtOwnedIn(modules')
              /\ \A k \in 1 .. t : k \in 1 .. n \/ k = t
  <2>1. \A k \in 1 .. t : k \in 1 .. n \/ k = t
    BY <1>1, <1>4
  <2>2. \A k \in 1 .. n : k \in 1 .. t /\ k # t
    BY <1>1, <1>4
  <2>3. t \in 1 .. Len(z) /\ t \in 1 .. t
    BY <1>4, <1>15
  <2>4. ~z[t].mapped /\ ~z[t].protected /\ z[t].name = Import /\ z[t].kind = "local" /\ z[t].owned
    BY <1>9, <1>10, <1>15, <2>3 DEF GtSame
  <2>5. Len(z) = Len(modules) + 1 /\ \A k \in 1 .. Len(modules) : GtSame(z[k], modules[k]) /\ z[k].mapped = modules[k].mapped
    BY <1>1, <1>4, <1>10, <1>15, <2>2
  <2>6. GtMappedIn(modules) \subseteq GtMappedIn(z) /\ GtOwnedIn(modules) \subseteq GtOwnedIn(z)
    BY <1>8, <1>15, <2>5, GtGrownKeeps
  <2>7. regions \subseteq GtMappedIn(z) \cup refusals
    BY <1>8, <2>6
  <2>8. Prepared(z)
    BY <1>15, <2>3, <2>4, <2>7, GtPrepared
  <2>9. modules' \in Seq(GtModules) /\ Len(modules') = t
    BY <1>15, <2>8 DEF GtLike
  <2>10. \A k \in 1 .. n : /\ modules'[k].name = modules[k].name /\ modules'[k].kind = modules[k].kind
                           /\ modules'[k].mapped = modules[k].mapped /\ modules'[k].protected = modules[k].protected
    BY <1>1, <1>10, <1>15, <2>2, <2>5, <2>8 DEF GtSame
  <2>11. modules'[t].name = Import /\ modules'[t].kind = "local" /\ ~modules'[t].protected
    BY <1>15, <2>3, <2>4, <2>8 DEF GtLike, GtSame
  <2>12. GtImages'
    <3>1. \A i \in 1 .. n : /\ modules[i].kind # "host" => modules[i].name \in DOMAIN program.imports
                            /\ modules[i].mapped => modules[i].kind # "host"
      BY <1>1, <1>8 DEF GtImages
    <3>2. \A i \in 1 .. t : /\ modules'[i].kind # "host" => modules'[i].name \in DOMAIN program.imports
                            /\ modules'[i].mapped => modules'[i].kind # "host"
      BY <1>14, <2>1, <2>10, <2>11, <3>1
    <3> QED
      BY <1>6, <2>9, <3>2 DEF GtImages
  <2>13. spans' \subseteq {program.root} \cup GtOwnedIn(modules')
    <3>1. GtOwnedIn(modules') = GtOwnedIn(z)
      BY <1>15, <2>8, GtOwnedLike
    <3>2. Import \in GtOwnedIn(z)
      BY <1>15, <2>3, <2>4, GtModule DEF GtOwnedIn
    <3> QED
      BY <1>6, <1>8, <2>6, <3>1, <3>2
  <2> QED
    BY <2>1, <2>8, <2>9, <2>10, <2>11, <2>12, <2>13
<1>16. CASE how = "ok" /\ EdgeFits(Importer, t)
  <2>1. /\ Prepare(y, t, how) /\ cursor' = <<cursor[1], cursor[2] + 1>> /\ UNCHANGED <<step, result>>
    BY <1>7, <1>16
  <2>2. Len(y) = t /\ \A k \in 1 .. t : GtSame(y[k], x[k]) /\ y[k].mapped = x[k].mapped /\ y[k].protected = x[k].protected
    BY <1>10, <1>13
  <2>3. /\ Prepared(y) /\ modules' \in Seq(GtModules) /\ Len(modules') = t
        /\ \A k \in 1 .. n : /\ modules'[k].name = modules[k].name /\ modules'[k].kind = modules[k].kind
                             /\ modules'[k].mapped = modules[k].mapped /\ modules'[k].protected = modules[k].protected
        /\ modules'[t].name = Import /\ modules'[t].kind = "local" /\ ~modules'[t].protected
        /\ GtImages' /\ spans' \subseteq {program.root} \cup GtOwnedIn(modules')
        /\ \A k \in 1 .. t : k \in 1 .. n \/ k = t
    <3> HIDE DEF Prepared
    <3> QED
      BY <1>13, <1>15, <2>1, <2>2
  <2>4. modules'[t].mapped /\ refusals' = refusals /\ Import \in DOMAIN access' /\ DOMAIN access \subseteq DOMAIN access'
    <3>1. y[t].name = Import
      BY <1>9, <1>10, <1>12, <2>2 DEF GtSame
    <3>2. how = "ok" /\ (how \in {"ok", "unverified"}) = TRUE /\ how # "lost"
      BY <1>16
    <3>3. Prepared(y)
      BY <2>3
    <3> QED
      BY <3>1, <3>2, <3>3
  <2>5. GtBy(modules', y, modules)
    <3>1. \A k \in 1 .. Len(modules) : k \in 1 .. Len(y) /\ k # t
      BY <1>1, <1>4, <2>2
    <3> QED
      BY <2>3, <3>1 DEF GtBy
  <2>6. GtOrNew(x, modules, c)
    BY <1>1, <1>3, <1>9, <1>11 DEF GtOrNew
  <2>7. x # modules => t = Len(modules) + 1
    BY <1>1, <1>4
  <2>8. x # modules => modules'[t].mapped = (modules'[t].kind # "host")
    BY <2>3, <2>4
  <2>9. c \in 1 .. Len(modules)
    BY <1>1
  <2>10. GtGrown(modules', modules, c, t)
    BY <1>5, <1>8, <1>10, <1>12, <2>5, <2>6, <2>7, <2>8, <2>9, GtGrows
  <2>11. \A i \in 1 .. Len(modules') : ~modules'[i].protected /\ (modules'[i].mapped => modules'[i].name \in DOMAIN access')
    BY <1>8, <2>3, <2>4
  <2> QED
    BY <1>0, <1>1, <1>6, <2>1, <2>3, <2>4, <2>10, <2>11, GtGrowing
<1>17. CASE ~(how = "ok" /\ EdgeFits(Importer, t))
  <2>1. Prepare(x, t, how) /\ Fails
    BY <1>7, <1>17
  <2>2. \A k \in 1 .. t : GtSame(x[k], x[k])
    BY DEF GtSame
  <2>3. /\ Prepared(x) /\ modules' \in Seq(GtModules) /\ Len(modules') = t
        /\ \A k \in 1 .. n : modules'[k].protected = modules[k].protected
        /\ ~modules'[t].protected
        /\ GtImages' /\ spans' \subseteq {program.root} \cup GtOwnedIn(modules')
        /\ \A k \in 1 .. t : k \in 1 .. n \/ k = t
    <3> HIDE DEF Prepared
    <3> QED
      BY <1>10, <1>15, <2>1, <2>2
  <2>4. \A i \in 1 .. Len(modules') : ~modules'[i].protected
    BY <1>8, <2>3
  <2> QED
    BY <1>6, <1>8, <2>1, <2>3, <2>4, GtFailing DEF Fails
<1> QED
  BY <1>16, <1>17

\* An import that cannot be had.
LEMMA GtFails ==
  ASSUME GtInv, ResolveFails, UNCHANGED <<low, exit>>
  PROVE  GtInv'
<1>1. Resolving /\ Fails /\ UNCHANGED <<program, modules, spans, regions, refusals>>
  BY DEF ResolveFails
<1>2. /\ modules \in Seq(GtModules) /\ step = "resolve" /\ GtImages
      /\ \A i \in 1 .. Len(modules) : ~modules[i].protected
      /\ regions \subseteq GtMappedIn(modules) \cup refusals
      /\ spans \subseteq {program.root} \cup GtOwnedIn(modules)
  BY <1>1, GtImporting
<1>3. GtImages'
  BY <1>1, <1>2 DEF GtImages
<1> QED
  BY <1>1, <1>2, <1>3, GtFailing DEF Fails

\* The imports of a module are all resolved.
LEMMA GtResolvesNext ==
  ASSUME program \in Programs, NEW ms, ms \in Seq(GtModules), NEW c, NEW e, GtResolved(ms, c, e),
         c <= Len(ms), e > Len(Imports(ms[c])),
         \A i \in 1 .. Len(ms) : ms[i].kind # "host" => ms[i].name \in DOMAIN program.imports
  PROVE  GtResolved(ms, c + 1, 1)
<1>1. PICK n \in Nat : n = Len(ms) /\ 1 <= n
  BY GtModule DEF GtResolved
<1>2. c \in 1 .. n /\ e \in Nat \ {0} /\ c + 1 \in Nat \ {0} /\ c + 1 <= n + 1
  BY <1>1 DEF GtResolved
<1>3. \A i \in 1 .. n : /\ ms[i] \in GtModules /\ ms[i].depth \in Nat /\ Len(Imports(ms[i])) \in Nat
                        /\ ToSet(Imports(ms[i])) = {Imports(ms[i])[k] : k \in 1 .. Len(Imports(ms[i]))}
  BY <1>1, GtModule, GtImported
<1>4. /\ e <= Len(Imports(ms[c])) + 1
      /\ GtNamesOf(ms, c) = {Imports(ms[c])[k] : k \in 1 .. e - 1}
      /\ \A i \in 1 .. n : ms[i].depth <= ms[c].depth + 1
  BY <1>1, <1>2 DEF GtResolved, GtAt
<1>5. e - 1 = Len(Imports(ms[c]))
  BY <1>2, <1>3, <1>4
<1>6. GtBefore(ms, c + 1)
  <2>1. GtNamesOf(ms, c) = ToSet(Imports(ms[c]))
    BY <1>2, <1>3, <1>4, <1>5
  <2>2. \A i \in 1 .. n : i < c => GtNamesOf(ms, i) = ToSet(Imports(ms[i]))
    BY <1>1 DEF GtResolved, GtBefore
  <2>3. \A i \in 1 .. n : i < c + 1 => i < c \/ i = c
    BY <1>2
  <2> QED
    BY <1>1, <2>1, <2>2, <2>3 DEF GtBefore
<1>7. GtBehind(ms, c + 1) /\ (c + 1 <= n => ms[c + 1].deps = <<>>)
  <2>1. \A i \in 1 .. n : i > c => ms[i].deps = <<>>
    BY <1>1 DEF GtResolved, GtBehind
  <2> QED
    BY <1>1, <1>2, <2>1 DEF GtBehind
<1>8. GtAt(ms, c + 1, 1)
  <2>1. SUFFICES ASSUME c + 1 <= n
                 PROVE  /\ 1 <= Len(Imports(ms[c + 1])) + 1
                        /\ GtNamesOf(ms, c + 1) = {Imports(ms[c + 1])[k] : k \in 1 .. 1 - 1}
                        /\ \A i \in 1 .. n : ms[i].depth <= ms[c + 1].depth + 1
    BY <1>1 DEF GtAt
  <2>2. c + 1 \in 1 .. n
    BY <1>2, <2>1
  <2>3. ToSet(<<>>) = {}
    BY DEF ToSet
  <2>4. GtNamesOf(ms, c + 1) = {}
    BY <1>7, <2>1, <2>3 DEF GtNamesOf
  <2>5. ms[c].depth <= ms[c + 1].depth
    BY <1>1, <1>2, <2>2 DEF GtResolved, GtLayers
  <2>6. \A i \in 1 .. n : ms[i].depth <= ms[c + 1].depth + 1
    <3>1. (\A i \in 1 .. n : ms[i].depth \in Nat) /\ (\A i \in 1 .. n : ms[i].depth <= ms[c].depth + 1)
      BY <1>3, <1>4
    <3>2. ASSUME NEW i \in 1 .. n
          PROVE  ms[i].depth <= ms[c + 1].depth + 1
      <4>1. PICK a \in Nat, b \in Nat, d \in Nat : a = ms[i].depth /\ b = ms[c].depth /\ d = ms[c + 1].depth
        BY <1>2, <2>2, <3>1
      <4>2. a <= b + 1 /\ b <= d
        BY <2>5, <3>1, <4>1
      <4>3. a <= d + 1
        BY ONLY <4>2, a \in Nat, b \in Nat, d \in Nat
      <4> QED
        BY <4>1, <4>3
    <3> QED
      BY <3>2
  <2> QED
    BY <1>3, <2>2, <2>4, <2>6
<1> QED
  BY <1>1, <1>2, <1>6, <1>7, <1>8 DEF GtResolved

LEMMA GtNext ==
  ASSUME GtInv, ResolveNext, UNCHANGED <<low, exit>>
  PROVE  GtInv'
<1> USE DEF GtSteps, GtEarly, GtLoaded
<1>1. /\ step = "resolve" /\ cursor[1] <= Len(modules) /\ cursor[2] > Len(Imports(modules[cursor[1]]))
      /\ cursor' = <<cursor[1] + 1, 1>>
      /\ UNCHANGED <<program, modules, walk, order, regions, refusals, spans, access, step, result, faults>>
  BY DEF ResolveNext, Importer
<1>2. /\ program \in Programs /\ modules \in Seq(GtModules) /\ GtResolved(modules, cursor[1], cursor[2])
      /\ \A i \in 1 .. Len(modules) : modules[i].kind # "host" => modules[i].name \in DOMAIN program.imports
      /\ walk = <<>> /\ order = <<>>
  BY <1>1 DEF GtInv, GtTypes, GtResolving, GtImages
<1>3. GtResolved(modules', cursor[1] + 1, 1)
  BY <1>1, <1>2, GtResolvesNext
<1>4. GtResolving'
  <2>1. cursor'[1] = cursor[1] + 1 /\ cursor'[2] = 1
    BY <1>1
  <2> QED
    BY <1>1, <1>2, <1>3, <2>1, GtResolvedThen
<1>5. GtTypes' /\ GtNone' /\ GtFiles' /\ GtLow' /\ GtMaps' /\ GtExits'
  BY <1>1 DEF GtInv, GtTypes, GtNone, GtFiles, GtLow, GtMaps, GtExits
<1>6. GtImages' /\ GtMade'
  BY <1>1 DEF GtInv, GtImages, GtMade
<1>7. GtRights' /\ GtOrdering' /\ GtCounts'
  BY <1>1 DEF GtInv, GtRights, GtOrdering, GtCounts
<1> QED
  BY <1>4, <1>5, <1>6, <1>7 DEF GtInv

\* Where the edges lead.
LEMMA GtReachSelf ==
  ASSUME NEW ms, NEW i
  PROVE  GtReach(ms, i, i)
BY DEF GtReach

LEMMA GtReachOn ==
  ASSUME NEW ms, NEW i, NEW j \in 1 .. Len(ms), NEW k, GtReach(ms, i, j), k \in ToSet(ms[j].deps)
  PROVE  GtReach(ms, i, k)
BY DEF GtReach

LEMMA GtReachIs ==
  ASSUME modules \in Seq(GtModules), NEW i, NEW j
  PROVE  Reaches(i, j) <=> GtReach(modules, i, j)
<1>1. DOMAIN modules = 1 .. Len(modules)
  BY GtModule
<1> QED
  BY <1>1 DEF Reaches, GtReach

\* The innermost visit.
LEMMA GtTop ==
  ASSUME NEW w, w \in Seq(GtPairs), w # <<>>
  PROVE  /\ Len(w) \in Nat \ {0} /\ Last(w) = w[Len(w)] /\ Last(w)[1] \in Nat \ {0} /\ Last(w)[2] \in Nat \ {0}
         /\ Front(w) \in Seq(GtPairs) /\ Len(Front(w)) = Len(w) - 1
         /\ \A k \in 1 .. Len(w) - 1 : Front(w)[k] = w[k]
<1>1. Len(w) \in Nat \ {0} /\ \A k \in 1 .. Len(w) : w[k] \in GtPairs
  BY LenProperties, EmptySeq, ElementOfSeq
<1>2. Last(w) = w[Len(w)] /\ w[Len(w)] \in GtPairs
  BY <1>1 DEF Last
<1>3. Last(w)[1] \in Nat \ {0} /\ Last(w)[2] \in Nat \ {0}
  BY <1>2 DEF GtPairs
<1>4. /\ SubSeq(w, 1, Len(w) - 1) \in Seq(GtPairs)
      /\ Len(SubSeq(w, 1, Len(w) - 1)) = (IF 1 <= Len(w) - 1 THEN (Len(w) - 1) - 1 + 1 ELSE 0)
      /\ \A i \in 1 .. (Len(w) - 1) - 1 + 1 : SubSeq(w, 1, Len(w) - 1)[i] = w[1 + i - 1]
  <2>1. 1 \in Int /\ Len(w) - 1 \in Int /\ \A i \in 1 .. Len(w) - 1 : w[i] \in GtPairs
    BY <1>1
  <2> QED
    BY <2>1, SubSeqProperties
<1>5. Front(w) = SubSeq(w, 1, Len(w) - 1)
  BY DEF Front
<1>6. Len(Front(w)) = Len(w) - 1
  <2>1. PICK z \in Nat \ {0} : z = Len(w)
    BY <1>1
  <2>2. Len(Front(w)) = (IF 1 <= z - 1 THEN (z - 1) - 1 + 1 ELSE 0)
    BY <1>4, <1>5, <2>1
  <2>3. (IF 1 <= z - 1 THEN (z - 1) - 1 + 1 ELSE 0) = z - 1
    OBVIOUS
  <2> QED
    BY ONLY <2>1, <2>2, <2>3
<1>7. \A k \in 1 .. Len(w) - 1 : Front(w)[k] = w[k]
  <2>1. \A k \in 1 .. Len(w) - 1 : k \in 1 .. (Len(w) - 1) - 1 + 1 /\ 1 + k - 1 = k
    BY <1>1
  <2> QED
    BY <1>4, <1>5, <2>1
<1> QED
  BY <1>1, <1>2, <1>3, <1>4, <1>5, <1>6, <1>7

\* A visit ends.
LEMMA GtVisitEnds ==
  ASSUME NEW ms, ms \in Seq(GtModules), NEW w, NEW o, GtListed(ms, o), GtWalked(ms, w, o), w # <<>>,
         NEW here, here = Last(w)[1], Last(w)[2] > Len(ms[here].deps), NEW u, u = Append(o, here)
  PROVE  GtListed(ms, u) /\ GtWalked(ms, Front(w), u)
<1>1. w \in Seq(GtPairs) /\ o \in Seq(Nat \ {0})
  BY DEF GtListed, GtWalked
<1>2. PICK n, top, v, e : n = Len(ms) /\ top = Len(w) /\ v = Front(w) /\ e = Last(w)[2]
  OBVIOUS
<1>3. /\ top \in Nat \ {0} /\ w[top][1] = here /\ w[top][2] = e /\ e \in Nat \ {0} /\ here \in Nat \ {0}
      /\ v \in Seq(GtPairs) /\ Len(v) = top - 1 /\ \A k \in 1 .. top - 1 : v[k] = w[k]
  BY <1>1, <1>2, GtTop
<1>4. n \in Nat /\ \A i \in 1 .. n : ms[i].deps \in Seq(Nat \ {0})
  BY <1>2, GtModule
<1>5. PICK z \in Nat : z = Len(o)
  BY <1>1, LenProperties
<1>6. u \in Seq(Nat \ {0}) /\ Len(u) = z + 1 /\ u[z + 1] = here /\ \A p \in 1 .. z : u[p] = o[p]
  BY <1>1, <1>3, <1>5, AppendProperties
<1>7. DOMAIN o = 1 .. z /\ DOMAIN u = 1 .. z + 1
  BY <1>1, <1>5, <1>6, LenProperties
<1>8. \A p : p \in 1 .. z + 1 <=> p \in 1 .. z \/ p = z + 1
  OBVIOUS
<1>9. ToSet(u) = ToSet(o) \cup {here}
  BY <1>6, <1>7, <1>8 DEF ToSet
<1>10. \A k \in 1 .. top : w[k][1] \in 1 .. n /\ w[k][1] \notin ToSet(o)
  BY <1>2 DEF GtWalked
<1>11. top \in 1 .. top /\ here \in 1 .. n /\ here \notin ToSet(o)
  BY <1>3, <1>10
<1>12. \A p \in 1 .. z : o[p] \in ToSet(o)
  BY <1>7 DEF ToSet
<1>13. \A p, q \in 1 .. z + 1 : u[p] = u[q] => p = q
  <2>1. \A p, q \in 1 .. z : o[p] = o[q] => p = q
    BY <1>5 DEF GtListed
  <2>2. \A p \in 1 .. z : o[p] # here
    BY <1>11, <1>12
  <2> QED
    BY <1>6, <1>8, <2>1, <2>2
<1>14. GtActive(w) = GtActive(v) \cup {here}
  <2>1. \A k : k \in 1 .. top <=> k \in 1 .. top - 1 \/ k = top
    BY <1>3
  <2>2. GtActive(w) = {w[k][1] : k \in 1 .. top} /\ GtActive(v) = {v[k][1] : k \in 1 .. top - 1}
    BY <1>2, <1>3 DEF GtActive
  <2>3. \A k \in 1 .. top : w[k][1] \in GtActive(v) \cup {here}
    BY <1>3, <2>1, <2>2
  <2>4. \A k \in 1 .. top - 1 : v[k][1] \in GtActive(w)
    BY <1>3, <2>1, <2>2
  <2>5. here \in GtActive(w)
    BY <1>3, <2>1, <2>2
  <2>6. GtActive(w) \subseteq GtActive(v) \cup {here}
    BY <2>2, <2>3
  <2>7. GtActive(v) \subseteq GtActive(w)
    BY <2>2, <2>4
  <2> QED
    BY <2>5, <2>6, <2>7
<1>15. \A p \in 1 .. z + 1 : GtTimely(ms, u, p)
  <2>1. ASSUME NEW p \in 1 .. z
        PROVE  GtTimely(ms, u, p)
    <3>1. GtTimely(ms, o, p) /\ u[p] = o[p] /\ \A q \in 1 .. p : u[q] = o[q]
      BY <1>5, <1>6 DEF GtListed
    <3> QED
      BY <3>1 DEF GtTimely
  <2>2. GtTimely(ms, u, z + 1)
    <3>1. SUFFICES ASSUME NEW d \in ToSet(ms[here].deps)
                   PROVE  (\E q \in 1 .. z + 1 : u[q] = d) \/ GtReach(ms, d, here)
      BY <1>6 DEF GtTimely
    <3>2. PICK k \in 1 .. Len(ms[here].deps) : ms[here].deps[k] = d
      <4>1. DOMAIN ms[here].deps = 1 .. Len(ms[here].deps)
        BY <1>4, <1>11, LenProperties
      <4> QED
        BY <4>1 DEF ToSet
    <3>3. k < w[top][2]
      <4>1. Len(ms[here].deps) \in Nat
        BY <1>4, <1>11, LenProperties
      <4> QED
        BY <1>2, <1>3, <4>1
    <3>4. d \in ToSet(o) \cup GtActive(w)
      BY <1>2, <1>3, <1>11, <3>2, <3>3 DEF GtWalked, GtSeen
    <3>5. CASE d \in ToSet(o)
      <4>1. PICK q \in 1 .. z : o[q] = d
        BY <1>7, <3>5 DEF ToSet
      <4>2. q \in 1 .. z + 1 /\ u[q] = d
        BY <1>6, <1>8, <4>1
      <4> QED
        BY <4>2
    <3>6. CASE d \in GtActive(w)
      <4>1. PICK l \in 1 .. top : w[l][1] = d
        BY <1>2, <3>6 DEF GtActive
      <4>2. l <= top
        BY <1>3
      <4>3. GtReach(ms, w[l][1], w[top][1])
        BY <1>2, <1>11, <4>2 DEF GtWalked, GtTrails
      <4> QED
        BY <1>3, <4>1, <4>3
    <3> QED
      BY <3>4, <3>5, <3>6
  <2> QED
    BY <1>8, <2>1, <2>2
<1>16. GtListed(ms, u)
  <2>1. ToSet(u) \subseteq 1 .. Len(ms)
    BY <1>2, <1>9, <1>11 DEF GtListed
  <2> QED
    BY <1>6, <1>13, <1>15, <2>1 DEF GtListed
<1>17. \A k \in 1 .. top - 1 : k \in 1 .. top /\ k # top
  BY <1>3
<1>18. \A k, l \in 1 .. top : k # l => w[k][1] # w[l][1]
  BY <1>2 DEF GtWalked, GtTrails
<1>19. \A k \in 1 .. Len(v) : v[k][1] \in 1 .. n /\ v[k][1] \notin ToSet(u)
  BY <1>3, <1>9, <1>10, <1>11, <1>17, <1>18
<1>20. GtTrails(ms, v)
  <2>1. \A k, l \in 1 .. top : k <= l => GtReach(ms, w[k][1], w[l][1])
    BY <1>2 DEF GtWalked, GtTrails
  <2> QED
    BY <1>3, <1>17, <1>18, <2>1 DEF GtTrails
<1>21. \A k \in 1 .. Len(v) : GtSeen(ms, v, u, k)
  <2>1. \A k \in 1 .. top : GtSeen(ms, w, o, k)
    BY <1>2 DEF GtWalked
  <2>2. ASSUME NEW k \in 1 .. top - 1
        PROVE  GtSeen(ms, v, u, k)
    <3>1. GtSeen(ms, w, o, k) /\ v[k] = w[k]
      BY <1>3, <1>17, <2>1
    <3>2. ToSet(o) \cup GtActive(w) \subseteq ToSet(u) \cup GtActive(v)
      BY <1>9, <1>14
    <3> QED
      BY <3>1, <3>2 DEF GtSeen
  <2> QED
    BY <1>3, <2>2
<1>22. GtWalked(ms, v, u)
  BY <1>2, <1>3, <1>19, <1>20, <1>21 DEF GtWalked
<1> QED
  BY <1>2, <1>16, <1>22

\* A visit goes on, and perhaps another begins.
GtGoes(v, w, o, here, e, target) ==
    /\ v \in Seq(GtPairs)
    /\ \/ Len(v) = Len(w)
       \/ Len(v) = Len(w) + 1 /\ v[Len(w) + 1] = <<target, 1>> /\ target \notin ToSet(o) \cup GtActive(w)
    /\ Len(v) = Len(w) => target \in ToSet(o) \cup GtActive(w)
    /\ \A k \in 1 .. Len(w) - 1 : v[k] = w[k]
    /\ v[Len(w)] = <<here, e + 1>>
LEMMA GtVisitGoes ==
  ASSUME NEW ms, ms \in Seq(GtModules), NEW w, NEW o, GtWalked(ms, w, o), w # <<>>,
         NEW here, here = Last(w)[1], NEW e, e = Last(w)[2], e <= Len(ms[here].deps),
         NEW target, target = ms[here].deps[e], target \in 1 .. Len(ms),
         NEW v, GtGoes(v, w, o, here, e, target)
  PROVE  GtWalked(ms, v, o)
<1>1. PICK n, top : n = Len(ms) /\ top = Len(w)
  OBVIOUS
<1>2. /\ w \in Seq(GtPairs) /\ \A k \in 1 .. top : w[k][1] \in 1 .. n /\ w[k][1] \notin ToSet(o)
      /\ \A k, l \in 1 .. top : k # l => w[k][1] # w[l][1]
      /\ \A k, l \in 1 .. top : k <= l => GtReach(ms, w[k][1], w[l][1])
      /\ \A k \in 1 .. top : GtSeen(ms, w, o, k)
  BY <1>1 DEF GtWalked, GtTrails
<1>3. top \in Nat \ {0} /\ w[top][1] = here /\ w[top][2] = e /\ e \in Nat \ {0}
  BY <1>1, <1>2, GtTop
<1>4. \A k \in 1 .. top : k \in 1 .. top - 1 \/ k = top
  BY <1>3
<1>5. \A k \in 1 .. top : v[k][1] = w[k][1] /\ (k # top => v[k] = w[k])
  <2>1. v[top] = <<here, e + 1>> /\ \A k \in 1 .. top - 1 : v[k] = w[k]
    BY <1>1 DEF GtGoes
  <2>2. v[top][1] = w[top][1]
    BY <1>3, <2>1
  <2> QED
    BY <1>4, <2>1, <2>2
<1>6. PICK end : end = Len(v)
  OBVIOUS
<1>7. /\ end \in {top, top + 1} /\ \A k \in 1 .. end : k \in 1 .. top \/ (end = top + 1 /\ k = end)
      /\ end = top + 1 => v[end][1] = target /\ v[end][2] = 1 /\ target \notin ToSet(o) /\ target \notin GtActive(w)
      /\ \A k \in 1 .. top : k \in 1 .. end
  <2>1. end = top \/ (end = top + 1 /\ v[top + 1] = <<target, 1>> /\ target \notin ToSet(o) \cup GtActive(w))
    BY <1>1, <1>6 DEF GtGoes
  <2>2. end \in {top, top + 1}
    BY <2>1
  <2>3. \A k \in 1 .. end : k \in 1 .. top \/ (end = top + 1 /\ k = end)
    BY <1>3, <2>2
  <2>4. \A k \in 1 .. top : k \in 1 .. end
    BY <1>3, <2>2
  <2>5. end = top + 1 => v[end][1] = target /\ v[end][2] = 1 /\ target \notin ToSet(o) /\ target \notin GtActive(w)
    <3>1. top + 1 # top
      BY <1>3
    <3> QED
      BY <2>1, <3>1
  <2> QED
    BY <2>2, <2>3, <2>4, <2>5
<1>8. \A k \in 1 .. top : w[k][1] \in GtActive(w)
  BY <1>1 DEF GtActive
<1>9. \A k \in 1 .. end : v[k][1] \in 1 .. n /\ v[k][1] \notin ToSet(o)
  BY <1>1, <1>2, <1>5, <1>7
<1>10. top \in 1 .. top /\ here \in 1 .. n /\ target \in ToSet(ms[here].deps)
  <2>1. top \in 1 .. top
    BY <1>3
  <2>4. here \in 1 .. n
    <3>1. w[top][1] \in 1 .. n
      BY <1>2, <2>1
    <3> QED
      BY <1>3, <3>1
  <2>2. ms[here].deps \in Seq(Nat \ {0})
    BY <1>1, <2>4, GtModule
  <2>3. e \in DOMAIN ms[here].deps
    BY <1>3, <2>2, LenProperties
  <2> QED
    BY <2>1, <2>3, <2>4 DEF ToSet
<1>11. ASSUME NEW k \in 1 .. end, NEW l \in 1 .. end, k # l
       PROVE  v[k][1] # v[l][1]
  <2>1. \A x, y \in 1 .. top : x # y => v[x][1] # v[y][1]
    BY <1>2, <1>5
  <2>2. end = top + 1 => \A x \in 1 .. top : v[x][1] # v[end][1]
    BY <1>5, <1>7, <1>8
  <2>3. (k \in 1 .. top \/ (end = top + 1 /\ k = end)) /\ (l \in 1 .. top \/ (end = top + 1 /\ l = end))
    BY <1>7
  <2> QED
    BY <1>11, <2>1, <2>2, <2>3
<1>12. ASSUME NEW k \in 1 .. end, NEW l \in 1 .. end, k <= l
       PROVE  GtReach(ms, v[k][1], v[l][1])
  <2>1. CASE k = l
    BY <2>1, GtReachSelf
  <2>2. CASE l \in 1 .. top
    <3>1. k \in 1 .. top
      BY <1>3, <1>7, <1>12, <2>2
    <3> QED
      BY <1>2, <1>5, <1>12, <2>2, <3>1
  <2>3. CASE k # l /\ l \notin 1 .. top
    <3>1. end = top + 1 /\ l = end /\ k \in 1 .. top
      BY <1>7, <2>3
    <3>2. GtReach(ms, w[k][1], here)
      <4>1. k <= top
        BY <1>3, <3>1
      <4> QED
        BY <1>2, <1>3, <1>10, <3>1, <4>1
    <3>3. GtReach(ms, w[k][1], target)
      BY <1>1, <1>10, <3>2, GtReachOn
    <3> QED
      BY <1>5, <1>7, <3>1, <3>3
  <2> QED
    BY <2>1, <2>2, <2>3
<1>13. GtActive(w) \subseteq GtActive(v) /\ target \in ToSet(o) \cup GtActive(v)
  <2>1. GtActive(w) \subseteq GtActive(v)
    BY <1>1, <1>5, <1>6, <1>7 DEF GtActive
  <2>2. CASE end = top
    BY <1>1, <1>6, <2>1, <2>2 DEF GtGoes
  <2>3. CASE end = top + 1
    <3>1. end \in 1 .. end /\ v[end][1] = target
      BY <1>3, <1>7, <2>3
    <3> QED
      BY <1>6, <2>1, <3>1 DEF GtActive
  <2> QED
    BY <1>7, <2>1, <2>2, <2>3
<1>14. ASSUME NEW k \in 1 .. end
       PROVE  GtSeen(ms, v, o, k)
  <2>1. CASE k \in 1 .. top /\ k # top
    <3>1. v[k] = w[k] /\ GtSeen(ms, w, o, k)
      BY <1>2, <1>5, <2>1
    <3> QED
      BY <1>13, <3>1 DEF GtSeen
  <2>2. CASE k = top
    <3>1. v[k][1] = here /\ v[k][2] = e + 1 /\ GtSeen(ms, w, o, top)
      BY <1>1, <1>2, <1>10, <2>2 DEF GtGoes
    <3>2. ASSUME NEW x \in 1 .. Len(ms[here].deps), x < e + 1
          PROVE  ms[here].deps[x] \in ToSet(o) \cup GtActive(v)
      <4>1. x < e \/ x = e
        BY <1>3, <3>2
      <4>2. CASE x < e
        BY <1>3, <1>13, <3>1, <3>2, <4>2 DEF GtSeen
      <4>3. CASE x = e
        BY <1>13, <4>3
      <4> QED
        BY <4>1, <4>2, <4>3
    <3> QED
      BY <3>1, <3>2 DEF GtSeen
  <2>3. CASE k \notin 1 .. top
    <3>1. v[k][2] = 1
      BY <1>7, <2>3
    <3> QED
      BY <3>1 DEF GtSeen
  <2> QED
    BY <2>1, <2>2, <2>3
<1> QED
  BY <1>1, <1>6, <1>9, <1>11, <1>12, <1>14 DEF GtWalked, GtTrails, GtGoes

\* The registry when every import is resolved.
LEMMA GtAllResolved ==
  ASSUME modules \in Seq(GtModules), NEW c, NEW e, GtResolved(modules, c, e), c > Len(modules)
  PROVE  Closed /\ GtEdges(modules)
<1>1. PICK n \in Nat : n = Len(modules) /\ DOMAIN modules = 1 .. n
  BY GtModule
<1>2. \A i \in 1 .. n : i < c
  BY <1>1 DEF GtResolved
<1>3. \A i \in 1 .. n : {modules[k].name : k \in ToSet(modules[i].deps)} = ToSet(Imports(modules[i]))
  BY <1>1, <1>2 DEF GtResolved, GtBefore, GtNamesOf
<1>4. \A i \in 1 .. n : modules[i].mapped = (modules[i].kind # "host")
  BY <1>1 DEF GtResolved, GtHeld
<1>5. \A i \in 1 .. n : i # 1 =>
        \E k \in 1 .. n : i \in ToSet(modules[k].deps) /\ modules[k].depth = modules[i].depth - 1
  BY <1>1 DEF GtResolved, GtParents
<1>6. \A i \in 1 .. n : \A k \in ToSet(modules[i].deps) : modules[k].depth <= modules[i].depth + 1
  BY <1>1 DEF GtResolved, GtNear
<1>7. GtEdges(modules)
  BY DEF GtResolved
<1> QED
  BY <1>1, <1>3, <1>4, <1>5, <1>6, <1>7 DEF Closed

\* What the loader does not touch while it orders what it loaded.
LEMMA GtOrdersOn ==
  ASSUME GtInv, step \in {"resolve", "order"}, step' \in {"order", "loaded"},
         UNCHANGED <<program, modules, regions, refusals, spans, access, result, low, exit>>,
         Closed, GtEdges(modules),
         step' = "order" => GtListed(modules, order') /\ GtWalked(modules, walk', order'), step' = "loaded" => Ordered'
  PROVE  GtInv'
<1> USE DEF GtSteps, GtEarly, GtLoaded
<1>1. GtTypes' /\ GtNone' /\ GtFiles' /\ GtLow' /\ GtMaps' /\ GtExits'
  BY DEF GtInv, GtTypes, GtNone, GtFiles, GtLow, GtMaps, GtExits
<1>2. GtImages' /\ GtMade'
  BY DEF GtInv, GtImages, GtMade
<1>3. GtRights' /\ GtResolving' /\ GtCounts'
  BY DEF GtInv, GtRights, GtResolving, GtCounts
<1>4. Closed'
  BY DEF Closed, Imports
<1>5. GtEdges(modules')
  OBVIOUS
<1>6. GtEdges(modules)'
  BY <1>5 DEF GtEdges
<1>7. step' = "order" => GtListed(modules', order') /\ GtWalked(modules', walk', order')
  OBVIOUS
<1>8. GtOrdering'
  BY <1>4, <1>5, <1>7 DEF GtOrdering
<1> QED
  BY <1>1, <1>2, <1>3, <1>8 DEF GtInv

\* The order begins with a visit to the root.
LEMMA GtOrderStarts ==
  ASSUME GtInv, OrderStart, UNCHANGED <<low, exit>>
  PROVE  GtInv'
<1>1. /\ step = "resolve" /\ cursor[1] > Len(modules) /\ step' = "order" /\ walk' = <<<<1, 1>>>>
      /\ UNCHANGED <<program, modules, order, regions, refusals, spans, access, result>>
  BY DEF OrderStart
<1>2. modules \in Seq(GtModules) /\ GtResolved(modules, cursor[1], cursor[2]) /\ order = <<>>
  BY <1>1 DEF GtInv, GtTypes, GtResolving
<1>3. Closed /\ GtEdges(modules)
  BY <1>1, <1>2, GtAllResolved
<1>4. PICK w : w = <<<<1, 1>>>>
  OBVIOUS
<1>5. Len(w) = 1 /\ w[1][1] = 1 /\ w[1][2] = 1 /\ w \in Seq(GtPairs)
  <2>1. <<1, 1>> \in GtPairs
    BY DEF GtPairs
  <2> QED
    BY <1>4, <2>1
<1>6. \A k \in 1 .. Len(w) : k = 1
  BY <1>5
<1>7. ToSet(<<>>) = {} /\ 1 \in 1 .. Len(modules)
  <2>1. 1 <= Len(modules) /\ Len(modules) \in Nat
    BY <1>2, GtModule DEF GtResolved
  <2> QED
    BY <2>1 DEF ToSet
<1>8. GtListed(modules, <<>>)
  BY <1>7 DEF GtListed
<1>9. GtTrails(modules, w)
  BY <1>5, <1>6, GtReachSelf DEF GtTrails
<1>10. \A k \in 1 .. Len(w) : GtSeen(modules, w, <<>>, k)
  BY <1>5, <1>6 DEF GtSeen
<1>11. GtWalked(modules, w, <<>>)
  BY <1>5, <1>6, <1>7, <1>9, <1>10 DEF GtWalked
<1> QED
  BY <1>1, <1>2, <1>3, <1>4, <1>8, <1>11, GtOrdersOn

\* The visits.
LEMMA GtVisit ==
  ASSUME GtInv, Visit, UNCHANGED <<low, exit>>
  PROVE  GtInv'
<1>1. PICK here, edge, next : here = Last(walk)[1] /\ edge = Last(walk)[2] /\ next = Append(Front(walk), <<here, edge + 1>>)
  OBVIOUS
<1>2. /\ step = "order" /\ walk # <<>> /\ step' = "order"
      /\ UNCHANGED <<program, modules, regions, refusals, spans, access, result>>
  BY DEF Visit
<1>3. IF edge > Len(modules[here].deps)
      THEN walk' = Front(walk) /\ order' = Append(order, here)
      ELSE /\ walk' = IF modules[here].deps[edge] \in ToSet(order) \cup Active THEN next
                      ELSE Append(next, <<modules[here].deps[edge], 1>>)
           /\ UNCHANGED order
  BY <1>1 DEF Visit, Done
<1>4. /\ modules \in Seq(GtModules) /\ Closed /\ GtEdges(modules) /\ GtListed(modules, order)
      /\ GtWalked(modules, walk, order) /\ walk \in Seq(GtPairs)
  BY <1>2 DEF GtInv, GtTypes, GtOrdering, GtWalked
<1>5. CASE edge > Len(modules[here].deps)
  <2>1. GtListed(modules, order') /\ GtWalked(modules, walk', order')
    BY <1>1, <1>2, <1>3, <1>4, <1>5, GtVisitEnds
  <2> QED
    BY <1>2, <1>4, <2>1, GtOrdersOn
<1>6. CASE ~(edge > Len(modules[here].deps))
  <2>1. PICK top, f : top \in Nat \ {0} /\ top = Len(walk) /\ f = Front(walk)
    BY <1>2, <1>4, GtTop
  <2>2. /\ walk[top][1] = here /\ walk[top][2] = edge /\ here \in Nat \ {0} /\ edge \in Nat \ {0}
        /\ f \in Seq(GtPairs) /\ Len(f) = top - 1 /\ \A k \in 1 .. top - 1 : f[k] = walk[k]
    BY <1>1, <1>2, <1>4, <2>1, GtTop
  <2>3. <<here, edge + 1>> \in GtPairs
    BY <2>2 DEF GtPairs
  <2>4. next \in Seq(GtPairs) /\ Len(next) = top /\ next[top] = <<here, edge + 1>> /\ \A k \in 1 .. top - 1 : next[k] = walk[k]
    <3>1. next = Append(f, <<here, edge + 1>>)
      BY <1>1, <2>1
    <3>2. /\ next \in Seq(GtPairs) /\ Len(next) = Len(f) + 1 /\ next[Len(f) + 1] = <<here, edge + 1>>
          /\ \A k \in 1 .. Len(f) : next[k] = f[k]
      BY <2>2, <2>3, <3>1, AppendProperties
    <3>3. Len(f) + 1 = top /\ 1 .. Len(f) = 1 .. top - 1
      BY <2>1, <2>2
    <3>4. next \in Seq(GtPairs) /\ Len(next) = top /\ next[top] = <<here, edge + 1>>
      BY <3>2, <3>3
    <3>5. \A k \in 1 .. top - 1 : next[k] = walk[k]
      <4> SUFFICES ASSUME NEW k \in 1 .. top - 1 PROVE next[k] = walk[k]
        OBVIOUS
      <4>1. next[k] = f[k] /\ f[k] = walk[k]
        BY <2>2, <3>2, <3>3
      <4> QED
        BY <4>1
    <3> QED
      BY <3>4, <3>5
  <2>5. here \in 1 .. Len(modules)
    <3>1. top \in 1 .. Len(walk)
      BY <2>1
    <3> QED
      BY <1>4, <2>2, <3>1 DEF GtWalked
  <2>6. modules[here].deps \in Seq(Nat \ {0}) /\ Len(modules[here].deps) \in Nat
    BY <1>4, <2>5, GtModule, LenProperties
  <2>7. edge <= Len(modules[here].deps)
    BY <1>6, <2>2, <2>6
  <2>8. PICK target : target = modules[here].deps[edge]
    OBVIOUS
  <2>9. target \in 1 .. Len(modules)
    <3>1. edge \in DOMAIN modules[here].deps
      BY <2>2, <2>6, <2>7, LenProperties
    <3>2. target \in ToSet(modules[here].deps)
      BY <2>8, <3>1 DEF ToSet
    <3> QED
      BY <1>4, <2>5, <3>2 DEF GtEdges
  <2>10. Active = GtActive(walk)
    <3>1. DOMAIN walk = 1 .. Len(walk)
      BY <1>4, LenProperties
    <3> QED
      BY <3>1 DEF Active, GtActive
  <2>11. GtWalked(modules, walk', order)
    <3>1. CASE target \in ToSet(order) \cup Active
      <4>1. walk' = next
        BY <1>3, <1>6, <2>8, <3>1
      <4>2. GtGoes(walk', walk, order, here, edge, target)
        BY <2>1, <2>4, <2>10, <3>1, <4>1 DEF GtGoes
      <4> QED
        BY <1>1, <1>2, <1>4, <2>7, <2>8, <2>9, <4>2, GtVisitGoes
    <3>2. CASE target \notin ToSet(order) \cup Active
      <4>1. walk' = Append(next, <<target, 1>>)
        BY <1>3, <1>6, <2>8, <3>2
      <4>2. <<target, 1>> \in GtPairs
        <5>1. target \in Nat \ {0}
          BY <2>9
        <5> QED
          BY <5>1 DEF GtPairs
      <4>3. /\ walk' \in Seq(GtPairs) /\ Len(walk') = Len(next) + 1 /\ walk'[Len(next) + 1] = <<target, 1>>
            /\ \A k \in 1 .. Len(next) : walk'[k] = next[k]
        BY <2>4, <4>1, <4>2, AppendProperties
      <4>4. /\ Len(walk') = Len(walk) + 1 /\ walk'[Len(walk) + 1] = <<target, 1>>
            /\ \A k \in 1 .. Len(walk) - 1 : walk'[k] = walk[k]
            /\ walk'[Len(walk)] = <<here, edge + 1>>
        <5>1. top \in 1 .. top /\ \A k \in 1 .. top - 1 : k \in 1 .. top
          BY <2>1
        <5>2. Len(next) = top /\ Len(walk) = top /\ Len(walk') = top + 1
          BY <2>1, <2>4, <4>3
        <5>3. walk'[top + 1] = <<target, 1>> /\ \A k \in 1 .. top : walk'[k] = next[k]
          BY <4>3, <5>2
        <5>4. walk'[top] = <<here, edge + 1>>
          BY <2>4, <5>1, <5>3
        <5>5. \A k \in 1 .. top - 1 : walk'[k] = walk[k]
          BY <2>4, <5>1, <5>3
        <5> QED
          BY <5>2, <5>3, <5>4, <5>5
      <4>5. Len(walk') # Len(walk)
        BY <2>1, <4>4
      <4>6. GtGoes(walk', walk, order, here, edge, target)
        BY <2>10, <3>2, <4>3, <4>4, <4>5 DEF GtGoes
      <4> QED
        BY <1>1, <1>2, <1>4, <2>7, <2>8, <2>9, <4>6, GtVisitGoes
    <3> QED
      BY <3>1, <3>2
  <2>12. order' = order
    BY <1>3, <1>6
  <2> QED
    BY <1>2, <1>4, <2>11, <2>12, GtOrdersOn
<1> QED
  BY <1>5, <1>6

\* The order when no visit is left.
LEMMA GtAllListed ==
  ASSUME modules \in Seq(GtModules), GtListed(modules, order), Len(order) = Len(modules)
  PROVE  Ordered
<1>1. PICK n \in Nat : n = Len(modules) /\ DOMAIN modules = 1 .. n /\ n = Len(order)
  BY GtModule
<1>2. DOMAIN order = 1 .. n /\ order \in Seq(Nat \ {0})
  BY <1>1, LenProperties DEF GtListed
<1>3. \A p, q \in 1 .. n : order[p] = order[q] => p = q
  BY <1>1 DEF GtListed
<1>4. ToSet(order) \subseteq 1 .. n
  BY <1>1 DEF GtListed
<1>5. ToSet(order) = 1 .. n
  <2>1. \A p \in 1 .. n : order[p] \in 1 .. n
    BY <1>2, <1>4 DEF ToSet
  <2>2. order \in [1 .. n -> 1 .. n]
    BY <1>2, <2>1
  <2>3. order \in Injection(1 .. n, 1 .. n)
    BY <1>3, <2>2 DEF Injection, IsInjective
  <2>4. IsFiniteSet(1 .. n)
    BY FS_Interval
  <2>5. order \in Surjection(1 .. n, 1 .. n)
    BY <2>3, <2>4, FS_Injection
  <2>6. \A t \in 1 .. n : \E s \in 1 .. n : order[s] = t
    BY <2>5 DEF Surjection
  <2> QED
    BY <1>2, <1>4, <2>6 DEF ToSet
<1>6. ASSUME NEW p \in 1 .. n, NEW q \in 1 .. n, order[q] \in ToSet(modules[order[p]].deps), p < q
      PROVE  Reaches(order[q], order[p])
  <2>1. (\E x \in 1 .. p : order[x] = order[q]) \/ GtReach(modules, order[q], order[p])
    BY <1>1, <1>6 DEF GtListed, GtTimely
  <2>2. \A x \in 1 .. p : order[x] # order[q]
    <3>1. \A x \in 1 .. p : x \in 1 .. n /\ x # q
      BY <1>6
    <3> QED
      BY <1>3, <3>1
  <2> QED
    BY <2>1, <2>2, GtReachIs
<1> QED
  BY <1>1, <1>2, <1>5, <1>6 DEF Ordered

LEMMA GtOrderEnds ==
  ASSUME GtInv, OrderEnd, UNCHANGED <<low, exit>>
  PROVE  GtInv'
<1>1. /\ step = "order" /\ walk = <<>>
      /\ IF Len(order) = Len(modules) THEN step' = "loaded" /\ UNCHANGED result ELSE Fails
      /\ UNCHANGED <<program, modules, walk, order, regions, refusals, spans, access>>
  BY DEF OrderEnd
<1>2. /\ modules \in Seq(GtModules) /\ Closed /\ GtEdges(modules) /\ GtListed(modules, order) /\ GtImages
      /\ \A i \in 1 .. Len(modules) : ~modules[i].protected
      /\ regions \subseteq GtMappedIn(modules) \cup refusals
      /\ spans \subseteq {program.root} \cup GtOwnedIn(modules)
  BY <1>1 DEF GtInv, GtTypes, GtOrdering, GtRights, GtMaps, GtFiles, GtEarly
<1>3. CASE Len(order) = Len(modules)
  <2>1. Ordered
    BY <1>2, <1>3, GtAllListed
  <2>2. Ordered'
    BY <1>1, <2>1 DEF Ordered, Reaches
  <2> QED
    BY <1>1, <1>2, <1>3, <2>2, GtOrdersOn
<1>4. CASE Len(order) # Len(modules)
  <2>1. GtImages'
    BY <1>1, <1>2 DEF GtImages
  <2> QED
    BY <1>1, <1>2, <1>4, <2>1, GtFailing DEF Fails
<1> QED
  BY <1>3, <1>4

\* The pages of an image.
LEMMA GtPages ==
  ASSUME program \in Programs, NEW n \in DOMAIN program.imports
  PROVE  \A p \in Pages(n) : p \in Nat /\ p < Cardinality(Pages(n))
<1>1. program.sections[n] \in Seq([first : Nat, last : Nat, access : SUBSET {"r", "w", "x"}]) /\ program.sections[n] # <<>>
  BY GtPrograms
<1>2. Last(program.sections[n]).last \in Nat
  <2>1. PICK s, S : s = program.sections[n] /\ S = [first : Nat, last : Nat, access : SUBSET {"r", "w", "x"}]
    OBVIOUS
  <2>2. s \in Seq(S) /\ s # <<>>
    BY <1>1, <2>1
  <2>3. Len(s) \in Nat \ {0}
    BY <2>2, LenProperties, EmptySeq
  <2>4. s[Len(s)] \in S
    BY <2>2, <2>3, ElementOfSeq
  <2>5. Last(s) \in S
    BY <2>4 DEF Last
  <2> QED
    BY <2>1, <2>5
<1>3. PICK z \in Nat : z = Last(program.sections[n]).last \div 2
  BY <1>2
<1>4. Pages(n) = 0 .. z
  BY <1>3 DEF Pages
<1>5. Cardinality(0 .. z) = z + 1
  BY FS_Interval
<1> QED
  BY <1>4, <1>5

\* A registry that is only protected further is loaded as it was.
GtWants(p, m) == IF m.kind = "host" THEN <<>> ELSE p.imports[m.name]
LEMMA GtLoadedOn ==
  ASSUME modules \in Seq(GtModules), GtLike(modules', modules), UNCHANGED <<program, order>>,
         \A k \in 1 .. Len(modules) : modules'[k].mapped = modules[k].mapped,
         Closed, GtEdges(modules), Ordered
  PROVE  /\ Closed' /\ GtEdges(modules') /\ Ordered' /\ GtMappedIn(modules') = GtMappedIn(modules)
         /\ GtOwnedIn(modules') = GtOwnedIn(modules)
<1>1. PICK n \in Nat : n = Len(modules) /\ DOMAIN modules = 1 .. n /\ n = Len(modules') /\ DOMAIN modules' = 1 .. n
  BY GtModule DEF GtLike
<1>2. \A k \in 1 .. n : /\ modules'[k].name = modules[k].name /\ modules'[k].kind = modules[k].kind
                        /\ modules'[k].depth = modules[k].depth /\ modules'[k].owned = modules[k].owned
                        /\ modules'[k].deps = modules[k].deps /\ modules'[k].mapped = modules[k].mapped
  BY <1>1 DEF GtLike, GtSame
<1>3. \A k \in 1 .. n : ToSet(modules[k].deps) \subseteq 1 .. n
  BY <1>1 DEF GtEdges
<1>4. GtEdges(modules')
  BY <1>1, <1>2, <1>3 DEF GtEdges
<1>5. GtMappedIn(modules') = GtMappedIn(modules) /\ GtOwnedIn(modules') = GtOwnedIn(modules)
  BY <1>1, <1>2 DEF GtMappedIn, GtOwnedIn
<1>6. Ordered'
  <2>1. \A i, j : Reaches(i, j) => Reaches(i, j)'
    BY <1>1, <1>2 DEF Reaches
  <2>2. \A p \in DOMAIN order : order[p] \in 1 .. n
    BY <1>1 DEF Ordered, ToSet
  <2> QED
    BY <1>1, <1>2, <2>1, <2>2 DEF Ordered
<1>7. Closed'
  <2>1. ASSUME NEW i \in 1 .. n
        PROVE  {modules'[k].name : k \in ToSet(modules'[i].deps)} = ToSet(GtWants(program, modules'[i]))
    <3>1. PICK d : d = ToSet(modules[i].deps) /\ d = ToSet(modules'[i].deps) /\ d \subseteq 1 .. n
      BY <1>2, <1>3
    <3>2. \A k \in d : modules'[k].name = modules[k].name
      BY <1>2, <3>1
    <3>3. {modules[k].name : k \in d} = ToSet(GtWants(program, modules[i]))
      BY <1>1, <3>1 DEF Closed, Imports, GtWants
    <3>4. {modules'[k].name : k \in d} = {modules[k].name : k \in d}
      BY <3>2
    <3>5. GtWants(program, modules'[i]) = GtWants(program, modules[i])
      BY <1>2 DEF GtWants
    <3> QED
      BY <3>1, <3>3, <3>4, <3>5
  <2>2. \A i \in 1 .. n : modules'[i].mapped = (modules'[i].kind # "host")
    BY <1>1, <1>2 DEF Closed
  <2>3. \A i \in 1 .. n : i # 1 =>
          \E k \in 1 .. n : i \in ToSet(modules'[k].deps) /\ modules'[k].depth = modules'[i].depth - 1
    BY <1>1, <1>2 DEF Closed
  <2>4. \A i \in 1 .. n : \A k \in ToSet(modules'[i].deps) : modules'[k].depth <= modules'[i].depth + 1
    BY <1>1, <1>2, <1>3 DEF Closed
  <2> QED
    BY <1>1, <2>1, <2>2, <2>3, <2>4 DEF Closed, Imports, GtWants
<1> QED
  BY <1>4, <1>5, <1>6, <1>7

\* The rights of the pages while one image gets them.
LEMMA GtProtects ==
  ASSUME GtInv, Finalize, UNCHANGED <<low, exit, counted>>
  PROVE  GtInv'
<1> USE DEF GtSteps, GtEarly, GtLoaded
<1>1. PICK i : i = CHOOSE j \in Unprotected : \A k \in Unprotected : j <= k
  OBVIOUS
<1>2. PICK name, size : name = modules[i].name /\ size = Cardinality(Pages(name))
  OBVIOUS
<1>3. /\ step = "finalize" /\ Unprotected # {}
      /\ UNCHANGED <<program, cursor, walk, order, regions, refusals, spans, step>>
      /\ \/ /\ access' = [access EXCEPT ![name] = Protected(name, size)]
            /\ modules' = GtGuard(modules, i)
            /\ UNCHANGED result
         \/ /\ \E stop \in RunStarts(name) : access' = [access EXCEPT ![name] = Protected(name, stop)]
            /\ result' = "error"
            /\ UNCHANGED modules
  BY <1>1, <1>2 DEF Finalize, GtGuard
<1>4. /\ program \in Programs /\ modules \in Seq(GtModules) /\ GtImages /\ GtNamed(modules) /\ exit.status # "ok"
      /\ \A k \in 1 .. Len(modules) : modules[k].mapped => modules[k].name \in DOMAIN access
      /\ Closed /\ GtEdges(modules) /\ Ordered /\ counted = Cardinality(GtMappedIn(modules))
  BY <1>3 DEF GtInv, GtTypes, GtMade, GtOrdering, GtCounts, GtExits
<1>5. \A k \in 1 .. Len(modules) : modules[k].protected => modules[k].mapped /\
        \A p \in Pages(modules[k].name) : access[modules[k].name][p] = PageAccess(modules[k].name, p)
  BY DEF GtInv, GtRights
<1>6. i \in 1 .. Len(modules) /\ modules[i].mapped /\ ~modules[i].protected
  <2>1. Unprotected \in SUBSET Nat /\ \A k \in Unprotected : k \in 1 .. Len(modules) /\ modules[k].mapped /\ ~modules[k].protected
    BY <1>4, GtModule DEF Unprotected
  <2>2. i \in Unprotected
    BY <1>1, <1>3, <2>1, Least
  <2> QED
    BY <2>1, <2>2
<1>7. name \in DOMAIN access /\ name \in DOMAIN program.imports
  BY <1>2, <1>4, <1>6 DEF GtImages
<1>8. \A k \in 1 .. Len(modules) : k # i => modules[k].name # name
  BY <1>2, <1>4, <1>6 DEF GtNamed
<1>9. DOMAIN access' = DOMAIN access /\ \A q \in DOMAIN access : q # name => access'[q] = access[q]
  BY <1>3, <1>7
<1>10. ASSUME NEW k \in 1 .. Len(modules), modules[k].protected
       PROVE  \A p \in Pages(modules[k].name) : access'[modules[k].name][p] = PageAccess(modules[k].name, p)
  <2>1. k # i
    BY <1>6, <1>10
  <2>2. modules[k].name \in DOMAIN access /\ modules[k].name # name
    BY <1>4, <1>5, <1>8, <1>10, <2>1
  <2> QED
    BY <1>5, <1>9, <1>10, <2>2
<1>11. GtLow' /\ GtNone' /\ GtExits'
  BY <1>3, <1>4 DEF GtInv, GtLow, GtNone, GtExits
<1>12. CASE /\ access' = [access EXCEPT ![name] = Protected(name, size)]
            /\ modules' = GtGuard(modules, i)
            /\ UNCHANGED result
  <2>1. /\ GtLike(modules', modules)
        /\ \A k \in 1 .. Len(modules) : /\ modules'[k].mapped = modules[k].mapped
                                        /\ modules'[k].protected => k = i \/ modules[k].protected
    BY <1>4, <1>6, <1>12, GtSetProtected
  <2>2. Len(modules') = Len(modules) /\ modules' \in Seq(GtModules)
        /\ \A k \in 1 .. Len(modules) : modules'[k].name = modules[k].name /\ modules'[k].kind = modules[k].kind
    BY <2>1 DEF GtLike, GtSame
  <2>3. /\ Closed' /\ GtEdges(modules') /\ Ordered' /\ GtMappedIn(modules') = GtMappedIn(modules)
        /\ GtOwnedIn(modules') = GtOwnedIn(modules)
    BY <1>3, <1>4, <2>1, GtLoadedOn
  <2>4. GtTypes' /\ GtFiles' /\ GtMaps'
    BY <1>3, <1>12, <2>2, <2>3 DEF GtInv, GtTypes, GtFiles, GtMaps
  <2>5. GtImages'
    BY <1>3, <1>4, <2>1, <2>2 DEF GtImages
  <2>6. GtMade'
    BY <1>4, <1>9, <2>1, <2>2 DEF GtMade, GtNamed
  <2>7. GtRights'
    <3>1. \A p \in Pages(name) : access'[name][p] = PageAccess(name, p)
      <4>1. access'[name] = Protected(name, size)
        BY <1>7, <1>12
      <4>2. \A p \in Pages(name) : p < size
        BY <1>2, <1>4, <1>7, GtPages
      <4> QED
        BY <4>1, <4>2 DEF Protected
    <3>2. ASSUME NEW k \in 1 .. Len(modules), modules'[k].protected
          PROVE  modules'[k].mapped /\
                 \A p \in Pages(modules'[k].name) : access'[modules'[k].name][p] = PageAccess(modules'[k].name, p)
      <4>1. CASE k = i
        BY <1>2, <1>6, <2>1, <2>2, <3>1, <4>1
      <4>2. CASE modules[k].protected
        BY <1>5, <1>10, <2>1, <2>2, <4>2
      <4> QED
        BY <2>1, <3>2, <4>1, <4>2
    <3>3. \A k \in 1 .. Len(modules') : modules'[k].protected =>
            /\ step' \in {"finalize", "release"} /\ modules'[k].mapped
            /\ \A p \in Pages(modules'[k].name) : access'[modules'[k].name][p] = PageAccess(modules'[k].name, p)
      BY <1>3, <1>12, <2>2, <3>2
    <3> QED
      BY <1>3, <3>3 DEF GtRights, Pages, PageAccess
  <2>8. GtResolving' /\ GtCounts'
    BY <1>3, <1>4, <1>12, <2>3 DEF GtResolving, GtCounts
  <2>9. GtOrdering'
    <3>1. GtEdges(modules)'
      BY <2>3 DEF GtEdges
    <3> QED
      BY <1>3, <1>12, <2>3, <3>1 DEF GtOrdering
  <2> QED
    BY <1>11, <2>4, <2>5, <2>6, <2>7, <2>8, <2>9 DEF GtInv
<1>13. CASE /\ \E stop \in RunStarts(name) : access' = [access EXCEPT ![name] = Protected(name, stop)]
            /\ result' = "error"
            /\ UNCHANGED modules
  <2>1. GtTypes' /\ GtFiles' /\ GtMaps'
    BY <1>3, <1>13 DEF GtInv, GtTypes, GtFiles, GtMaps
  <2>2. GtImages' /\ GtMade'
    BY <1>3, <1>4, <1>9, <1>13 DEF GtImages, GtMade, GtNamed
  <2>3. GtRights'
    <3>1. \A k \in 1 .. Len(modules') : modules'[k].protected =>
            /\ step' \in {"finalize", "release"} /\ modules'[k].mapped
            /\ \A p \in Pages(modules'[k].name) : access'[modules'[k].name][p] = PageAccess(modules'[k].name, p)
      BY <1>3, <1>5, <1>10, <1>13
    <3> QED
      BY <1>3, <3>1 DEF GtRights, Pages, PageAccess
  <2>4. GtLike(modules', modules) /\ \A k \in 1 .. Len(modules) : modules'[k].mapped = modules[k].mapped
    BY <1>4, <1>13 DEF GtLike, GtSame
  <2>5. Closed' /\ GtEdges(modules') /\ Ordered' /\ GtMappedIn(modules') = GtMappedIn(modules)
    BY <1>3, <1>4, <2>4, GtLoadedOn
  <2>6. GtEdges(modules)'
    BY <2>5 DEF GtEdges
  <2>7. GtResolving' /\ GtOrdering' /\ GtCounts'
    BY <1>3, <1>4, <1>13, <2>5, <2>6 DEF GtResolving, GtOrdering, GtCounts
  <2> QED
    BY <1>11, <2>1, <2>2, <2>3, <2>7 DEF GtInv
<1> QED
  BY <1>3, <1>12, <1>13

\* Everything is given back, or refused.
LEMMA GtReleases ==
  ASSUME GtInv, NEW kept, Release(kept)
  PROVE  /\ modules' = <<>> /\ cursor' = <<1, 1>> /\ walk' = <<>> /\ order' = <<>>
         /\ regions' \subseteq refusals' /\ refusals' = refusals \cup kept
         /\ (step \notin GtEarly \cup {"closed"} => spans' \subseteq {program.root})
<1>1. /\ kept \subseteq MappedNames /\ regions' = regions \ (MappedNames \ kept)
      /\ refusals' = refusals \cup kept /\ spans' = spans \ ReleasedSpans
      /\ modules' = <<>> /\ order' = <<>> /\ walk' = <<>> /\ cursor' = <<1, 1>>
  BY DEF Release
<1>2. MappedNames = GtMappedIn(modules) /\ ReleasedSpans = GtOwnedIn(modules)
  BY DEF MappedNames, ReleasedSpans, GtMappedIn, GtOwnedIn
<1>3. regions \subseteq GtMappedIn(modules) \cup refusals
  BY DEF GtInv, GtMaps
<1>4. step \notin GtEarly \cup {"closed"} => spans \subseteq {program.root} \cup GtOwnedIn(modules)
  BY DEF GtInv, GtFiles
<1> QED
  BY <1>1, <1>2, <1>3, <1>4

\* No module is registered, before a load and after it.
LEMMA GtNothing ==
  ASSUME program \in Programs, program' = program, modules' = <<>>, cursor' = <<1, 1>>, walk' = <<>>, order' = <<>>,
         step' \in GtSteps \ GtLoaded, result' \in {"ok", "error"},
         spans' \subseteq (IF step' \in GtEarly \cup {"closed"} THEN {} ELSE {program.root}),
         step' # "sealing" => low' = {}, regions' \subseteq refusals', result' = "ok" => refusals' = {},
         exit'.status = "ok" => step' \in {"exit", "closed"} /\ regions' = {} /\ exit'.released = exit'.mapped
  PROVE  GtInv'
<1>1. <<>> \in Seq(GtModules) /\ Len(<<>>) = 0 /\ \A i \in 1 .. 0 : FALSE
  OBVIOUS
<1>2. GtTypes' /\ GtNone' /\ GtLow' /\ GtExits'
  BY <1>1 DEF GtTypes, GtNone, GtLow, GtExits
<1>3. GtFiles' /\ GtMaps'
  BY DEF GtFiles, GtMaps, GtLoaded
<1>4. GtImages' /\ GtMade' /\ GtRights'
  BY <1>1 DEF GtImages, GtMade, GtRights
<1>5. step' \notin {"resolve", "order", "loaded", "finalize", "release"}
  BY DEF GtLoaded
<1>6. GtResolving' /\ GtOrdering' /\ GtCounts'
  BY <1>5 DEF GtResolving, GtOrdering, GtCounts
<1> QED
  BY <1>2, <1>3, <1>4, <1>6 DEF GtInv

\* A load that failed is undone, and forgotten.
LEMMA GtUndone ==
  ASSUME GtInv, Undo, UNCHANGED <<low, exit>>
  PROVE  GtInv'
<1>1. PICK kept : Release(kept)
  BY DEF Undo
<1>2. step = "undo" /\ step' = "failed" /\ UNCHANGED <<program, result>>
  BY DEF Undo
<1>3. /\ modules' = <<>> /\ cursor' = <<1, 1>> /\ walk' = <<>> /\ order' = <<>>
      /\ regions' \subseteq refusals' /\ spans' \subseteq {program.root}
  BY <1>1, <1>2, GtReleases DEF GtEarly
<1>4. program \in Programs /\ result = "error" /\ low = {} /\ exit.status # "ok"
  BY <1>2 DEF GtInv, GtTypes, GtMaps, GtLow, GtExits
<1>5. "failed" \in GtSteps \ GtLoaded /\ "failed" \notin GtEarly \cup {"closed"}
  BY DEF GtSteps, GtLoaded, GtEarly
<1> QED
  BY <1>2, <1>3, <1>4, <1>5, GtNothing

\* The end of pw_gate_run.
LEMMA GtRecordsExit ==
  ASSUME GtInv, GateRelease
  PROVE  GtInv'
<1>1. PICK kept :
        /\ Release(kept) /\ result' = ExitStatus(kept)
        /\ exit' = IF lines < ReportLines
                   THEN [status |-> result', mapped |-> counted,
                         released |-> IF kept = {} THEN counted ELSE 0, truncated |-> missed]
                   ELSE NoExit
  BY DEF GateRelease
<1>2. step \in {"release", "failed"} /\ step' = "exit" /\ UNCHANGED <<program, low>>
  BY DEF GateRelease
<1>3. /\ modules' = <<>> /\ cursor' = <<1, 1>> /\ walk' = <<>> /\ order' = <<>>
      /\ regions' \subseteq refusals' /\ refusals' = refusals \cup kept /\ spans' \subseteq {program.root}
  BY <1>1, <1>2, GtReleases DEF GtEarly
<1>4. program \in Programs /\ result \in {"ok", "error"} /\ low = {} /\ (result = "ok" => refusals = {})
  BY <1>2 DEF GtInv, GtTypes, GtMaps, GtLow
<1>5. "exit" \in GtSteps \ GtLoaded /\ "exit" \notin GtEarly \cup {"closed"} /\ "exit" # "sealing"
  BY DEF GtSteps, GtLoaded, GtEarly
<1>6. result' \in {"ok", "error"} /\ (result' = "ok" => kept = {} /\ refusals' = {})
  BY <1>1, <1>3, <1>4 DEF ExitStatus
<1>7. exit'.status = "ok" => regions' = {} /\ exit'.released = exit'.mapped
  <2>1. CASE lines < ReportLines
    <3>1. exit'.status = result' /\ exit'.mapped = counted /\ (kept = {} => exit'.released = counted)
      BY <1>1, <2>1
    <3> QED
      BY <1>3, <1>6, <3>1
  <2>2. CASE ~(lines < ReportLines)
    <3>1. exit'.status = "none"
      BY <1>1, <2>2 DEF NoExit
    <3> QED
      BY <3>1
  <2> QED
    BY <2>1, <2>2
<1> QED
  BY <1>2, <1>3, <1>4, <1>5, <1>6, <1>7, GtNothing

\* The steps around the loader's.
LEMMA GtAround ==
  ASSUME GtInv, Prelude \/ PreludeFails \/ CompatReserve \/ CompatRelease \/ ExecProbe \/ RootOpen \/ GateExit
  PROVE  GtInv'
<1>1. /\ step \in GtEarly \cup {"exit"} /\ UNCHANGED <<program, modules, cursor, walk, order, exit>>
      /\ step' \in GtEarly \cup {"load", "closed"}
  BY DEF Prelude, PreludeFails, CompatReserve, CompatRelease, ExecProbe, RootOpen, GateExit, LoadSame, ReportSame, GtEarly
<1>2. /\ program \in Programs /\ result \in {"ok", "error"} /\ (result = "ok" => refusals = {})
      /\ modules = <<>> /\ cursor = <<1, 1>> /\ walk = <<>> /\ order = <<>>
  <2>1. step \notin GtLoaded
    BY <1>1 DEF GtEarly, GtLoaded
  <2> QED
    BY <2>1 DEF GtInv, GtTypes, GtNone, GtMaps
<1>3. /\ regions \subseteq refusals /\ spans \subseteq (IF step \in GtEarly \cup {"closed"} THEN {} ELSE {program.root})
      /\ step # "sealing" => low = {}
      /\ exit.status = "ok" => step \in {"exit", "closed"} /\ regions = {} /\ exit.released = exit.mapped
  <2>1. GtMappedIn(modules) = {} /\ GtOwnedIn(modules) = {}
    BY <1>2 DEF GtMappedIn, GtOwnedIn
  <2> QED
    BY <2>1 DEF GtInv, GtMaps, GtFiles, GtLow, GtExits
<1>4. step' \in GtSteps \ GtLoaded
  BY <1>1 DEF GtSteps, GtEarly, GtLoaded
<1>5. result' \in {"ok", "error"} /\ regions' \subseteq refusals' /\ (result' = "ok" => refusals' = {})
  <2>1. CASE ExecProbe
    <3>1. \/ UNCHANGED <<regions, refusals, result>>
          \/ result' = "error" /\ UNCHANGED <<regions, refusals>>
          \/ result' = "error" /\ regions' = regions \cup {"probe"} /\ refusals' = refusals \cup {"probe"}
      BY <2>1 DEF ExecProbe
    <3> QED
      BY <1>2, <1>3, <3>1
  <2>2. CASE PreludeFails
    BY <1>2, <1>3, <2>2 DEF PreludeFails
  <2>3. CASE Prelude \/ CompatReserve \/ CompatRelease \/ RootOpen \/ GateExit
    BY <1>2, <1>3, <2>3 DEF Prelude, CompatReserve, CompatRelease, RootOpen, GateExit
  <2> QED
    BY <2>1, <2>2, <2>3
<1>6. spans' \subseteq (IF step' \in GtEarly \cup {"closed"} THEN {} ELSE {program.root})
  <2>1. CASE Prelude
    BY <1>1, <1>3, <2>1 DEF Prelude, GtEarly
  <2>2. CASE PreludeFails \/ CompatReserve \/ CompatRelease \/ ExecProbe
    BY <1>3, <2>2 DEF PreludeFails, CompatReserve, CompatRelease, ExecProbe, GtEarly
  <2>3. CASE RootOpen
    BY <1>3, <2>3 DEF RootOpen, GtEarly
  <2>4. CASE GateExit
    BY <1>3, <2>4 DEF GateExit, GtEarly
  <2> QED
    BY <2>1, <2>2, <2>3, <2>4
<1>7. step' # "sealing" => low' = {}
  BY <1>3 DEF Prelude, PreludeFails, CompatReserve, CompatRelease, ExecProbe, RootOpen, GateExit
<1>8. exit'.status = "ok" => step' \in {"exit", "closed"} /\ regions' = {} /\ exit'.released = exit'.mapped
  <2>1. CASE GateExit
    BY <1>1, <1>3, <2>1 DEF GateExit
  <2>2. CASE ~GateExit
    <3>1. step \in GtEarly
      BY <2>2 DEF Prelude, PreludeFails, CompatReserve, CompatRelease, ExecProbe, RootOpen, GtEarly
    <3> QED
      BY <1>1, <1>3, <3>1 DEF GtEarly
  <2> QED
    BY <2>1, <2>2
<1> QED
  BY <1>1, <1>2, <1>4, <1>5, <1>6, <1>7, <1>8, GtNothing

\* The records of a load, and of the protections.
LEMMA GtRecorded ==
  ASSUME GtInv, RecordLoad \/ RecordProtection
  PROVE  GtInv'
<1> USE DEF GtSteps, GtEarly, GtLoaded
<1>1. UNCHANGED <<program, modules, cursor, walk, order, access, regions, refusals, spans, low, result, exit>>
  BY DEF RecordLoad, RecordProtection, LoadSame
<1>2. \/ step = "loaded" /\ step' = "finalize" /\ counted' = Cardinality(MappedNames)
      \/ step = "finalize" /\ step' = "release" /\ (Unprotected = {} \/ result = "error") /\ UNCHANGED counted
  BY DEF RecordLoad, RecordProtection
<1>3. MappedNames = GtMappedIn(modules)
  BY DEF MappedNames, GtMappedIn
<1>4. GtTypes' /\ GtNone' /\ GtFiles' /\ GtLow' /\ GtMaps'
  BY <1>1, <1>2 DEF GtInv, GtTypes, GtNone, GtFiles, GtLow, GtMaps
<1>5. GtExits' /\ GtImages' /\ GtMade' /\ GtResolving'
  BY <1>1, <1>2 DEF GtInv, GtExits, GtImages, GtMade, GtResolving
<1>6. GtRights'
  <2>1. \A i \in 1 .. Len(modules) : modules[i].protected => step' \in {"finalize", "release"}
    BY <1>2 DEF GtInv, GtRights
  <2> QED
    BY <1>1, <2>1 DEF GtInv, GtRights, Pages, PageAccess
<1>7. GtOrdering'
  <2>1. Closed /\ GtEdges(modules) /\ Ordered
    BY <1>2 DEF GtInv, GtOrdering
  <2>2. Closed'
    BY <1>1, <2>1 DEF Closed, Imports
  <2>3. Ordered'
    BY <1>1, <2>1 DEF Ordered, Reaches
  <2>4. GtEdges(modules)'
    BY <1>1, <2>1 DEF GtEdges
  <2> QED
    BY <1>2, <2>2, <2>3, <2>4 DEF GtOrdering
<1>8. GtCounts'
  <2>1. GtMappedIn(modules)' = GtMappedIn(modules) /\ Unprotected' = Unprotected
    BY <1>1 DEF GtMappedIn, Unprotected
  <2>2. result = "ok" => result # "error"
    OBVIOUS
  <2>3. step = "finalize" => counted = Cardinality(GtMappedIn(modules))
    BY DEF GtInv, GtCounts
  <2> QED
    BY <1>1, <1>2, <1>3, <2>1, <2>2, <2>3 DEF GtCounts
<1> QED
  BY <1>4, <1>5, <1>6, <1>7, <1>8 DEF GtInv

\* It begins.
LEMMA GtStarts ==
  ASSUME GateInit
  PROVE  GtInv
<1>1. /\ program \in Programs /\ modules = <<>> /\ cursor = <<1, 1>> /\ walk = <<>> /\ order = <<>>
      /\ regions = {} /\ refusals = {} /\ spans = {} /\ result = "ok" /\ step = "scratch" /\ low = {}
      /\ exit.status = "none"
  BY DEF GateInit, LoaderInit, NoExit
<1>2. <<>> \in Seq(GtModules) /\ Len(<<>>) = 0 /\ \A i \in 1 .. 0 : FALSE
  OBVIOUS
<1> USE DEF GtSteps, GtEarly, GtLoaded
<1>3. GtTypes /\ GtNone /\ GtFiles /\ GtLow /\ GtMaps /\ GtExits
  BY <1>1, <1>2 DEF GtTypes, GtNone, GtFiles, GtLow, GtMaps, GtExits
<1>4. GtImages /\ GtMade /\ GtRights
  BY <1>1, <1>2 DEF GtImages, GtMade, GtRights
<1>5. GtResolving /\ GtOrdering /\ GtCounts
  BY <1>1 DEF GtResolving, GtOrdering, GtCounts
<1> QED
  BY <1>3, <1>4, <1>5 DEF GtInv

\* Nothing happens.
LEMMA GtStays ==
  ASSUME GtInv, UNCHANGED gateVars
  PROVE  GtInv'
<1>1. UNCHANGED <<program, modules, cursor, walk, order, regions, refusals, spans, access, step, result,
                  low, counted, exit>>
  BY DEF gateVars, loaderVars
<1>2. GtTypes' /\ GtNone' /\ GtFiles' /\ GtLow' /\ GtMaps' /\ GtExits'
  BY <1>1 DEF GtInv, GtTypes, GtNone, GtFiles, GtLow, GtMaps, GtExits
<1>3. GtImages' /\ GtMade'
  BY <1>1 DEF GtInv, GtImages, GtMade
<1>4. GtRights'
  BY <1>1 DEF GtInv, GtRights, Pages, PageAccess
<1>5. GtResolving'
  <2>1. CASE step = "resolve"
    <3>1. /\ cursor' = <<cursor'[1], cursor'[2]>> /\ walk' = <<>> /\ order' = <<>>
          /\ GtResolved(modules', cursor'[1], cursor'[2])
      BY <1>1, <2>1 DEF GtInv, GtResolving
    <3> QED
      BY <1>1, <3>1, GtResolvedThen
  <2>2. CASE step # "resolve"
    BY <1>1, <2>2 DEF GtResolving
  <2> QED
    BY <2>1, <2>2
<1>6. GtOrdering'
  <2>1. step \in {"order", "loaded", "finalize"} => Closed /\ GtEdges(modules)
    BY DEF GtInv, GtOrdering
  <2>2. Closed => Closed'
    BY <1>1 DEF Closed, Imports
  <2>3. step \in {"loaded", "finalize"} => Ordered
    BY DEF GtInv, GtOrdering
  <2>4. Ordered => Ordered'
    BY <1>1 DEF Ordered, Reaches
  <2>5. step = "order" => GtListed(modules', order') /\ GtWalked(modules', walk', order')
    BY <1>1 DEF GtInv, GtOrdering
  <2>6. GtEdges(modules) => GtEdges(modules)'
    BY <1>1 DEF GtEdges
  <2> QED
    BY <1>1, <2>1, <2>2, <2>3, <2>4, <2>5, <2>6 DEF GtOrdering
<1>7. GtCounts'
  <2>1. GtMappedIn(modules)' = GtMappedIn(modules) /\ Unprotected' = Unprotected
    BY <1>1 DEF GtMappedIn, Unprotected
  <2> QED
    BY <1>1, <2>1 DEF GtInv, GtCounts
<1> QED
  BY <1>2, <1>3, <1>4, <1>5, <1>6, <1>7 DEF GtInv

\* Every step.
LEMMA GtMoves ==
  ASSUME GtInv, [GateNext]_gateVars
  PROVE  GtInv'
<1>1. CASE Load
  <2>1. UNCHANGED <<low, exit, counted>>
    BY <1>1 DEF Load, ReportSame
  <2>2. \/ LoadRoot \/ ResolveKnown \/ ResolveLocal \/ ResolveFails \/ ResolveNext
        \/ OrderStart \/ Visit \/ OrderEnd \/ Finalize \/ Undo
    BY <1>1 DEF Load
  <2> QED
    BY <2>1, <2>2, GtRootLoaded, GtKnown, GtLocal, GtFails, GtNext, GtOrderStarts, GtVisit, GtOrderEnds, GtProtects, GtUndone
<1>2. CASE UNCHANGED gateVars
  BY <1>2, GtStays
<1>3. CASE Prelude \/ PreludeFails \/ CompatReserve \/ CompatRelease \/ ExecProbe \/ RootOpen \/ GateExit
  BY <1>3, GtAround
<1>4. CASE RecordLoad \/ RecordProtection
  BY <1>4, GtRecorded
<1>5. CASE GateRelease
  BY <1>5, GtRecordsExit
<1> QED
  BY <1>1, <1>2, <1>3, <1>4, <1>5 DEF GateNext

\* The rights of a page are what the sections on it ask for.
LEMMA GtPageRights ==
  ASSUME program \in Programs, NEW n \in DOMAIN program.imports, NEW p \in Nat, NEW right
  PROVE  right \in PageAccess(n, p) <=>
           \/ p = 0 /\ right = "r"
           \/ \E s \in ToSet(program.sections[n]) :
                right \in s.access /\ s.first < 2 * (p + 1) /\ s.last >= 2 * p
<1>1. PICK S : S = ToSet(program.sections[n])
  OBVIOUS
<1>2. \A s \in S : s.first \in Nat /\ s.last \in Nat
  <2>1. PICK q, R : q = program.sections[n] /\ R = [first : Nat, last : Nat, access : SUBSET {"r", "w", "x"}]
    OBVIOUS
  <2>2. q \in Seq(R)
    BY <2>1, GtPrograms
  <2>3. \A k \in DOMAIN q : q[k] \in R
    BY <2>2, LenProperties, ElementOfSeq
  <2>4. S \subseteq R
    BY <1>1, <2>1, <2>3 DEF ToSet
  <2> QED
    BY <2>1, <2>4
<1>3. \A a, b \in Nat : /\ a < 2 * (p + 1) <=> a \div 2 <= p
                        /\ b >= 2 * p <=> p <= b \div 2
  OBVIOUS
<1>4. right \in PageAccess(n, p) <=>
        \/ p = 0 /\ right = "r"
        \/ \E s \in S : right \in s.access /\ s.first \div 2 <= p /\ p <= s.last \div 2
  <2>1. PageAccess(n, p) = (IF p = 0 THEN {"r"} ELSE {}) \cup
          UNION {s.access : s \in {t \in S : t.first \div 2 <= p /\ p <= t.last \div 2}}
    BY <1>1 DEF PageAccess
  <2> QED
    BY <2>1
<1>5. (\E s \in S : right \in s.access /\ s.first \div 2 <= p /\ p <= s.last \div 2) <=>
      (\E s \in S : right \in s.access /\ s.first < 2 * (p + 1) /\ s.last >= 2 * p)
  BY <1>2, <1>3
<1> QED
  BY <1>1, <1>4, <1>5

-----------------------------------------------------------------------------
(* Within the gate's bounds.                                               *)

\* The registry, the files in memory, the refusals and the report have room.
GtBounds ==
    /\ Len(modules) <= MaxModules /\ faults \in 0 .. MaxFaults
    /\ IsFiniteSet(spans) /\ Cardinality(spans) <= MaxSpans
    /\ lines \in 0 .. ReportLines /\ counted \in Nat

\* What a step leaves alone keeps its bound.
GtSameSize == Len(modules') = Len(modules) /\ spans' = spans
GtSameReport == UNCHANGED <<lines, counted>>

\* The bounds are numbers.
LEMMA GtLimits ==
  MaxModules \in Nat \ {0} /\ MaxSpans \in Nat \ {0} /\ MaxFaults \in Nat /\ ReportLines \in Nat \ {0}
BY LoaderAssumption, GateAssumption

\* A preparation takes the refusals it needs, and the registry keeps its size.
LEMMA GtPreparedSize ==
  ASSUME NEW ms, ms \in Seq(GtModules), NEW i \in 1 .. Len(ms), NEW how \in DOMAIN Prepares, Prepare(ms, i, how),
         faults \in 0 .. MaxFaults
  PROVE  Len(modules') = Len(ms) /\ faults' \in 0 .. MaxFaults
<1>1. modules' = GtPut(ms, i, how \in {"ok", "unverified"})
  BY DEF Prepare, GtPut
<1>2. Len(modules') = Len(ms)
  <2>1. PICK has \in BOOLEAN : has = (how \in {"ok", "unverified"})
    <3>1. CASE how \in {"ok", "unverified"}
      <4>1. TRUE \in BOOLEAN /\ TRUE = (how \in {"ok", "unverified"})
        BY <3>1
      <4> QED
        BY <4>1
    <3>2. CASE how \notin {"ok", "unverified"}
      <4>1. FALSE \in BOOLEAN /\ FALSE = (how \in {"ok", "unverified"})
        BY <3>2
      <4> QED
        BY <4>1
    <3> QED
      BY <3>1, <3>2
  <2>2. modules' = GtPut(ms, i, has)
    BY <1>1, <2>1
  <2>3. GtLike(modules', ms)
    BY <2>2, GtSetMapped
  <2> QED
    BY <2>3 DEF GtLike
<1>3. \E n \in Trims : Prepares[how] \in {0, 1} /\ Ignoring(n, Prepares[how])
  BY DEF Prepare, Prepares
<1> QED
  BY <1>2, <1>3, GtLimits DEF Trims, Ignoring

\* A file more, where there was room for it.
LEMMA GtOneFile ==
  ASSUME IsFiniteSet(spans), Cardinality(spans) < MaxSpans, NEW n, spans' = spans \cup {n}
  PROVE  IsFiniteSet(spans') /\ Cardinality(spans') <= MaxSpans
<1>1. /\ IsFiniteSet(spans \cup {n})
      /\ Cardinality(spans \cup {n}) = IF n \in spans THEN Cardinality(spans) ELSE Cardinality(spans) + 1
  BY FS_AddElement
<1>2. Cardinality(spans) \in Nat
  BY FS_CardinalityType
<1> QED
  BY <1>1, <1>2, GtLimits

\* Some files less.
LEMMA GtFewerFiles ==
  ASSUME IsFiniteSet(spans), Cardinality(spans) <= MaxSpans, spans' \subseteq spans
  PROVE  IsFiniteSet(spans') /\ Cardinality(spans') <= MaxSpans
<1>1. IsFiniteSet(spans') /\ Cardinality(spans') <= Cardinality(spans)
  BY FS_Subset
<1>2. Cardinality(spans) \in Nat /\ Cardinality(spans') \in Nat
  BY <1>1, FS_CardinalityType
<1> QED
  BY <1>1, <1>2, GtLimits

\* The refusals that the steps around the loader's meet.
LEMMA GtAroundIgnores ==
  ASSUME Prelude \/ PreludeFails \/ CompatReserve \/ CompatRelease \/ ExecProbe \/ RootOpen \/ GateExit
  PROVE  UNCHANGED <<faults, ignored>> \/ \E n, others \in Nat : Ignoring(n, others)
<1>1. CASE Prelude \/ RootOpen
  BY <1>1 DEF Prelude, RootOpen
<1>2. CASE PreludeFails \/ GateExit
  <2>1. \E n, others \in 0 .. 1 : Ignoring(n, others)
    BY <1>2 DEF PreludeFails, GateExit
  <2> QED
    BY <2>1
<1>3. CASE CompatReserve
  <2>1. \E n \in 0 .. CandidateBases, others \in 0 .. 1 : Ignoring(n, others)
    BY <1>3 DEF CompatReserve
  <2> QED
    BY <2>1 DEF CandidateBases
<1>4. CASE CompatRelease
  <2>1. \E n \in 0 .. Cardinality(low), others \in {0, 1} : Ignoring(n, others)
    BY <1>4 DEF CompatRelease
  <2> QED
    BY <2>1
<1>5. CASE ExecProbe
  <2>1. \E n \in Trims, others \in 0 .. 2 : Ignoring(n, others)
    BY <1>5 DEF ExecProbe
  <2> QED
    BY <2>1 DEF Trims
<1> QED
  BY <1>1, <1>2, <1>3, <1>4, <1>5

\* The steps around the loader's keep the bounds.
LEMMA GtAroundBounds ==
  ASSUME GtInv, GtBounds, Prelude \/ PreludeFails \/ CompatReserve \/ CompatRelease \/ ExecProbe \/ RootOpen \/ GateExit
  PROVE  GtBounds'
<1>1. UNCHANGED <<modules, counted>>
  BY DEF Prelude, PreludeFails, CompatReserve, CompatRelease, ExecProbe, RootOpen, GateExit, LoadSame, ReportSame
<1>2. faults' \in 0 .. MaxFaults
  <2>1. faults \in 0 .. MaxFaults /\ MaxFaults \in Nat
    BY GtLimits DEF GtBounds
  <2>2. UNCHANGED faults \/ \E n, others \in Nat : Ignoring(n, others)
    BY GtAroundIgnores
  <2> QED
    BY <2>1, <2>2 DEF Ignoring
<1>3. IsFiniteSet(spans') /\ Cardinality(spans') <= MaxSpans
  <2>1. CASE RootOpen
    <3>1. spans = {}
      <4>1. step = "root" /\ modules = <<>>
        BY <2>1 DEF RootOpen, GtInv, GtNone, GtLoaded
      <4>2. GtOwnedIn(modules) = {}
        BY <4>1 DEF GtOwnedIn
      <4> QED
        BY <4>1, <4>2 DEF GtInv, GtFiles, GtEarly
    <3>2. IsFiniteSet(spans) /\ Cardinality(spans) = 0
      BY <3>1, FS_EmptySet
    <3> QED
      BY <2>1, <3>2, GtOneFile, GtLimits DEF RootOpen
  <2>2. CASE ~RootOpen
    <3>1. spans' \subseteq spans
      BY <2>2 DEF Prelude, PreludeFails, CompatReserve, CompatRelease, ExecProbe, GateExit
    <3> QED
      BY <3>1, GtFewerFiles DEF GtBounds
  <2> QED
    BY <2>1, <2>2
<1>4. lines' = lines \/ lines' = 1
  BY DEF Prelude, PreludeFails, CompatReserve, CompatRelease, ExecProbe, RootOpen, GateExit, ReportSame
<1> QED
  BY <1>1, <1>2, <1>3, <1>4, GtLimits DEF GtBounds

\* The root is registered.
LEMMA GtRootBounds ==
  ASSUME GtInv, GtBounds, LoadRoot, GtSameReport
  PROVE  GtBounds'
<1>1. PICK ms : ms = <<Module(program.root, "root", 0)>>
  OBVIOUS
<1>2. PICK how \in DOMAIN Prepares : Prepare(ms, 1, how)
  BY <1>1 DEF LoadRoot
<1>3. ms \in Seq(GtModules) /\ Len(ms) = 1 /\ 1 \in 1 .. Len(ms)
  BY <1>1, GtRootOnly DEF GtInv, GtTypes
<1>4. Len(modules') = 1 /\ faults' \in 0 .. MaxFaults
  BY <1>2, <1>3, GtPreparedSize DEF GtBounds
<1>5. spans' = spans
  BY DEF LoadRoot
<1> QED
  BY <1>4, <1>5, GtLimits DEF GtBounds, GtSameReport

\* An import that is registered, or that the runtime provides.
LEMMA GtKnownBounds ==
  ASSUME GtInv, GtBounds, ResolveKnown, GtSameReport
  PROVE  GtBounds'
<1>1. PICK m : m = Module(Import, "host", Importer.depth + 1)
  OBVIOUS
<1>2. PICK known : known = Find(modules, Import)
  OBVIOUS
<1>3. PICK x : x = IF known = 0 THEN Append(modules, m) ELSE modules
  OBVIOUS
<1>4. PICK t : t = Find(x, Import)
  OBVIOUS
<1>5. PICK c : c = cursor[1]
  OBVIOUS
<1>6. /\ Resolving /\ modules' = Edge(x, c, t) /\ spans' = spans /\ faults' = faults
      /\ known # 0 \/ Len(modules) < MaxModules
  BY <1>1, <1>2, <1>3, <1>4, <1>5 DEF ResolveKnown
<1>7. /\ modules \in Seq(GtModules) /\ c \in 1 .. Len(modules) /\ Importer.depth \in Nat /\ Import \in ModuleNames
      /\ Len(modules) \in Nat
  BY <1>5, <1>6, GtImporting
<1>8. m \in GtModules
  BY <1>1, <1>7, GtNew DEF GtKinds
<1>9. x \in Seq(GtModules) /\ Len(x) = (IF known = 0 THEN Len(modules) + 1 ELSE Len(modules)) /\ c \in 1 .. Len(x)
  BY <1>3, <1>7, <1>8, GtAppended
<1>10. Len(modules') = Len(x)
  BY <1>6, <1>9 DEF Edge
<1>11. Len(modules') <= MaxModules
  BY <1>6, <1>7, <1>9, <1>10, GtLimits DEF GtBounds
<1> QED
  BY <1>6, <1>11 DEF GtBounds, GtSameReport

\* An import whose file is opened, whatever becomes of it.
LEMMA GtLocalBounds ==
  ASSUME GtInv, GtBounds, ResolveLocal, GtSameReport
  PROVE  GtBounds'
<1>1. PICK m : m = GtOwning(Module(Import, "local", Importer.depth + 1))
  OBVIOUS
<1>2. PICK x : x = Append(modules, m)
  OBVIOUS
<1>3. PICK t : t = Len(modules) + 1
  OBVIOUS
<1>4. PICK c : c = cursor[1]
  OBVIOUS
<1>5. PICK y : y = Edge(x, c, t)
  OBVIOUS
<1>6. /\ Resolving /\ Len(modules) < MaxModules /\ Cardinality(spans) < MaxSpans /\ spans' = spans \cup {Import}
  BY DEF ResolveLocal
<1>7. \E how \in DOMAIN Prepares : Prepare(y, t, how) \/ Prepare(x, t, how)
  BY <1>1, <1>2, <1>3, <1>4, <1>5 DEF ResolveLocal, GtOwning
<1>8. /\ modules \in Seq(GtModules) /\ c \in 1 .. Len(modules) /\ Importer.depth \in Nat /\ Import \in ModuleNames
      /\ Len(modules) \in Nat
  BY <1>4, <1>6, GtImporting
<1>9. m \in GtModules
  BY <1>1, <1>8, GtNewLocal
<1>10. x \in Seq(GtModules) /\ Len(x) = t /\ c \in 1 .. Len(x) /\ t \in Nat \ {0} /\ t \in 1 .. t
  BY <1>2, <1>3, <1>8, <1>9, GtAppended
<1>11. y \in Seq(GtModules) /\ Len(y) = t
  BY <1>5, <1>10, GtEdged
<1>12. Len(modules') = t /\ faults' \in 0 .. MaxFaults
  BY <1>7, <1>10, <1>11, GtPreparedSize DEF GtBounds
<1>13. IsFiniteSet(spans') /\ Cardinality(spans') <= MaxSpans
  BY <1>6, GtOneFile DEF GtBounds
<1> QED
  BY <1>3, <1>6, <1>8, <1>12, <1>13, GtLimits DEF GtBounds, GtSameReport

\* The loader's steps that register nothing.
LEMMA GtOtherBounds ==
  ASSUME GtInv, GtBounds, ResolveFails \/ ResolveNext \/ OrderStart \/ Visit \/ OrderEnd \/ Finalize, GtSameReport
  PROVE  GtBounds'
<1>1. spans' = spans
  BY DEF ResolveFails, ResolveNext, OrderStart, Visit, OrderEnd, Finalize
<1>2. \/ faults' = faults \/ (faults > 0 /\ faults' = faults - 1)
      \/ \E n, others \in 0 .. 1 : Ignoring(n, others)
  BY DEF ResolveFails, ResolveNext, OrderStart, Visit, OrderEnd, Finalize
<1>3. faults' \in 0 .. MaxFaults
  BY <1>2, GtLimits DEF GtBounds, Ignoring
<1>4. Len(modules') = Len(modules)
  <2>1. CASE Finalize
    BY <2>1 DEF Finalize, GtInv, GtTypes
  <2>2. CASE ~Finalize
    BY <2>2 DEF ResolveFails, ResolveNext, OrderStart, Visit, OrderEnd
  <2> QED
    BY <2>1, <2>2
<1> QED
  BY <1>1, <1>3, <1>4 DEF GtBounds, GtSameReport

\* The names that are mapped are finitely many.
LEMMA GtMappedFinite ==
  ASSUME GtInv
  PROVE  IsFiniteSet(MappedNames) /\ Cardinality(MappedNames) \in Nat
<1>1. PICK n \in Nat : n = Len(modules) /\ DOMAIN modules = 1 .. n
  BY GtModule DEF GtInv, GtTypes
<1> DEFINE I == {j \in 1 .. n : modules[j].mapped}
<1>2. IsFiniteSet(1 .. n)
  BY FS_Interval
<1>3. IsFiniteSet(I)
  BY <1>2, FS_Subset
<1>4. IsFiniteSet({modules[i].name : i \in I})
  <2> DEFINE f == [i \in I |-> modules[i].name]
             T == {modules[i].name : i \in I}
  <2>1. f \in Surjection(I, T)
    BY DEF Surjection
  <2> HIDE DEF f, T, I
  <2>2. IsFiniteSet(T)
    BY <1>3, <2>1, FS_Surjection
  <2> QED
    BY <2>2 DEF T
<1>5. MappedNames = {modules[i].name : i \in I}
  BY <1>1 DEF MappedNames
<1>6. IsFiniteSet(MappedNames)
  BY <1>4, <1>5
<1> QED
  BY <1>6, FS_CardinalityType

\* The files that are closed are finitely many; what a release meets.
LEMMA GtReleaseIgnores ==
  ASSUME GtInv, NEW kept, Release(kept)
  PROVE  /\ IsFiniteSet(kept) /\ Cardinality(kept) \in Nat
         /\ \E n \in Nat : Ignoring(n, Cardinality(kept))
<1>1. kept \subseteq MappedNames /\ \E n \in 0 .. Cardinality(ReleasedSpans) : Ignoring(n, Cardinality(kept))
  BY DEF Release
<1>2. IsFiniteSet(kept)
  BY <1>1, GtMappedFinite, FS_Subset
<1> QED
  BY <1>1, <1>2, FS_CardinalityType

\* A release takes the refusals it meets.
LEMMA GtReleaseBounds ==
  ASSUME GtInv, GtBounds, NEW kept, Release(kept)
  PROVE  /\ Len(modules') <= MaxModules /\ faults' \in 0 .. MaxFaults
         /\ IsFiniteSet(spans') /\ Cardinality(spans') <= MaxSpans
<1>1. spans' = spans \ ReleasedSpans /\ modules' = <<>>
  BY DEF Release
<1>2. \E n, others \in Nat : Ignoring(n, others)
  BY GtReleaseIgnores
<1>3. faults' \in 0 .. MaxFaults
  BY <1>2, GtLimits DEF GtBounds, Ignoring
<1>4. IsFiniteSet(spans') /\ Cardinality(spans') <= MaxSpans
  BY <1>1, GtFewerFiles DEF GtBounds
<1> QED
  BY <1>1, <1>3, <1>4, GtLimits

\* Records that there is room for, and no others.
LEMMA GtRecordsFit ==
  ASSUME GtBounds, NEW n \in Nat, Records(n)
  PROVE  lines' \in 0 .. ReportLines
<1>1. PICK a \in Nat, b \in Nat : a = lines + n /\ b = ReportLines
  BY GtLimits DEF GtBounds
<1>2. lines' = Min({a, b})
  BY <1>1 DEF Records
<1>3. Min({a, b}) \in {a, b} /\ Min({a, b}) <= b
  <2>1. \E x \in {a, b} : \A y \in {a, b} : x <= y
    BY <1>1
  <2> QED
    BY <1>1, <2>1 DEF Min
<1> QED
  BY <1>1, <1>2, <1>3

\* The records of the edges are a number.
LEMMA GtEdgesFinite ==
  ASSUME GtInv
  PROVE  Cardinality(EdgeRecords) \in Nat
<1>1. PICK n \in Nat : n = Len(modules) /\ DOMAIN modules = 1 .. n
  BY GtModule DEF GtInv, GtTypes
<1> DEFINE Of(i) == {i} \X DOMAIN modules[i].deps
<1>2. IsFiniteSet({Of(i) : i \in 1 .. n})
  <2> DEFINE f == [i \in 1 .. n |-> Of(i)]
             T == {Of(i) : i \in 1 .. n}
  <2>1. f \in Surjection(1 .. n, T)
    BY DEF Surjection
  <2>2. IsFiniteSet(1 .. n)
    BY FS_Interval
  <2> HIDE DEF f, T
  <2>3. IsFiniteSet(T)
    BY <2>1, <2>2, FS_Surjection
  <2> QED
    BY <2>3 DEF T
<1>3. \A T \in {Of(i) : i \in 1 .. n} : IsFiniteSet(T)
  <2> SUFFICES ASSUME NEW i \in 1 .. n PROVE IsFiniteSet(Of(i))
    OBVIOUS
  <2>1. modules[i].deps \in Seq(Nat \ {0})
    BY <1>1, GtModule DEF GtInv, GtTypes
  <2>2. Len(modules[i].deps) \in Nat /\ DOMAIN modules[i].deps = 1 .. Len(modules[i].deps)
    BY <2>1, LenProperties
  <2>3. IsFiniteSet(DOMAIN modules[i].deps)
    BY <2>2, FS_Interval
  <2>4. IsFiniteSet({i})
    BY FS_Singleton
  <2> QED
    BY <2>3, <2>4, FS_Product
<1>4. IsFiniteSet(UNION {Of(i) : i \in 1 .. n})
  <2> HIDE DEF Of
  <2> QED
    BY <1>2, <1>3, FS_UNION
<1>5. EdgeRecords = UNION {Of(i) : i \in 1 .. n}
  BY <1>1 DEF EdgeRecords
<1>6. IsFiniteSet(EdgeRecords)
  BY <1>4, <1>5
<1> QED
  BY <1>6, FS_CardinalityType

\* The report, and what is counted for it.
LEMMA GtReportBounds ==
  ASSUME GtInv, GtBounds, RecordLoad \/ RecordProtection \/ GateRelease
  PROVE  GtBounds'
<1>1. CASE RecordLoad
  <2>1. UNCHANGED <<modules, spans, faults>> /\ counted' = Cardinality(MappedNames) /\ step = "loaded"
    BY <1>1 DEF RecordLoad, LoadSame
  <2>2. Len(modules) \in Nat /\ Len(order) = Len(modules)
    BY <2>1, GtModule DEF GtInv, GtTypes, GtOrdering, Ordered
  <2>3. PICK n \in Nat : n = LoadRecords
    BY <2>2, GtEdgesFinite DEF LoadRecords
  <2>4. Records(n)
    BY <1>1, <2>3 DEF RecordLoad
  <2>5. lines' \in 0 .. ReportLines
    BY <2>4, GtRecordsFit
  <2> QED
    BY <2>1, <2>5, GtMappedFinite DEF GtBounds
<1>2. CASE RecordProtection
  <2>1. UNCHANGED <<modules, spans, faults, counted>> /\ Records(counted) /\ counted \in Nat
    BY <1>2 DEF RecordProtection, LoadSame, GtBounds
  <2>2. lines' \in 0 .. ReportLines
    BY <2>1, GtRecordsFit
  <2> QED
    BY <2>1, <2>2 DEF GtBounds
<1>3. CASE GateRelease
  <2>1. PICK kept : Release(kept)
    BY <1>3 DEF GateRelease
  <2>2. Records(1) /\ counted' = counted
    BY <1>3 DEF GateRelease
  <2>3. lines' \in 0 .. ReportLines
    BY <2>2, GtRecordsFit
  <2>4. /\ Len(modules') <= MaxModules /\ faults' \in 0 .. MaxFaults
        /\ IsFiniteSet(spans') /\ Cardinality(spans') <= MaxSpans
    BY <2>1, GtReleaseBounds
  <2> QED
    BY <2>2, <2>3, <2>4 DEF GtBounds
<1> QED
  BY <1>1, <1>2, <1>3

\* It begins within them.
LEMMA GtBoundsStart == GateInit => GtBounds
<1> SUFFICES ASSUME GateInit PROVE GtBounds
  OBVIOUS
<1>1. modules = <<>> /\ faults = MaxFaults /\ spans = {} /\ lines = 0 /\ counted = 0
  BY DEF GateInit, LoaderInit
<1>2. IsFiniteSet(spans) /\ Cardinality(spans) = 0
  BY <1>1, FS_EmptySet
<1> QED
  BY <1>1, <1>2, GtLimits DEF GtBounds

\* Every step stays within them.
LEMMA GtBoundsStep ==
  ASSUME GtInv, GtBounds, [GateNext]_gateVars
  PROVE  GtBounds'
<1>1. CASE Load
  <2>1. GtSameReport
    BY <1>1 DEF Load, ReportSame, GtSameReport
  <2>2. CASE LoadRoot \/ ResolveKnown \/ ResolveLocal
    BY <2>1, <2>2, GtRootBounds, GtKnownBounds, GtLocalBounds
  <2>3. CASE ResolveFails \/ ResolveNext \/ OrderStart \/ Visit \/ OrderEnd \/ Finalize
    BY <2>1, <2>3, GtOtherBounds
  <2>4. CASE Undo
    <3>1. PICK kept : Release(kept)
      BY <2>4 DEF Undo
    <3>2. /\ Len(modules') <= MaxModules /\ faults' \in 0 .. MaxFaults
          /\ IsFiniteSet(spans') /\ Cardinality(spans') <= MaxSpans
      BY <3>1, GtReleaseBounds
    <3> QED
      BY <2>1, <3>2 DEF GtBounds, GtSameReport
  <2> QED
    BY <1>1, <2>2, <2>3, <2>4 DEF Load
<1>2. CASE UNCHANGED gateVars
  BY <1>2 DEF gateVars, loaderVars, GtBounds
<1>3. CASE Prelude \/ PreludeFails \/ CompatReserve \/ CompatRelease \/ ExecProbe \/ RootOpen \/ GateExit
  BY <1>3, GtAroundBounds
<1>4. CASE RecordLoad \/ RecordProtection \/ GateRelease
  BY <1>4, GtReportBounds
<1> QED
  BY <1>1, <1>2, <1>3, <1>4 DEF GateNext

-----------------------------------------------------------------------------
(* What the gate's log accounts for: each mapping that is left has its      *)
(* refused call, and each record that is due is there or was missed.        *)

GtLeft == IsFiniteSet(refusals) /\ ignored \in Nat /\ Cardinality(refusals) + ignored <= MaxFaults - faults
GtOpening == {"load", "resolve", "order", "undo", "loaded", "failed"}
GtTold ==
    /\ owed \in Nat /\ missed \in BOOLEAN /\ (missed => lines = ReportLines)
    /\ step \in GtEarly => owed = 0 /\ ~missed
    /\ step \in GtOpening => lines = 1 /\ owed = 2 /\ ~missed
    /\ step = "finalize" => owed = lines + counted + 1 \/ missed
    /\ step = "release" => owed = lines + 1 \/ missed
    /\ step \notin {"exit", "closed"} => exit.status = "none"
    /\ exit.status # "none" => lines = owed /\ ~exit.truncated
    /\ step \in {"exit", "closed"} /\ exit.status = "none" => owed = 0 \/ missed
GtAccount == GtLeft /\ GtTold

\* What is left, after a step that met some refusals.
GtMeets ==
    \E n, others \in Nat :
        /\ Ignoring(n, others)
        /\ IsFiniteSet(refusals') /\ Cardinality(refusals') <= Cardinality(refusals) + others
LEMMA GtLeftOn ==
  ASSUME GtBounds, GtLeft, UNCHANGED <<faults, ignored, refusals>> \/ GtMeets
  PROVE  GtLeft'
<1>1. CASE UNCHANGED <<faults, ignored, refusals>>
  BY <1>1 DEF GtLeft
<1>2. CASE GtMeets
  <2>1. PICK n \in Nat, others \in Nat :
          /\ Ignoring(n, others)
          /\ IsFiniteSet(refusals') /\ Cardinality(refusals') <= Cardinality(refusals) + others
    BY <1>2 DEF GtMeets
  <2>2. Cardinality(refusals) \in Nat /\ Cardinality(refusals') \in Nat
    BY <2>1, FS_CardinalityType DEF GtLeft
  <2>3. faults' = faults - n - others /\ ignored' = ignored + n
    BY <2>1 DEF Ignoring
  <2> QED
    BY <2>1, <2>2, <2>3, GtLimits DEF GtLeft, GtBounds
<1> QED
  BY <1>1, <1>2

\* Some refusals more, or none.
LEMMA GtRefuses ==
  ASSUME GtLeft, NEW kept, IsFiniteSet(kept), NEW n \in Nat, NEW others \in Nat, Ignoring(n, others),
         Cardinality(kept) <= others, refusals' = refusals \cup kept
  PROVE  GtMeets
<1>1. IsFiniteSet(refusals)
  BY DEF GtLeft
<1>2. /\ IsFiniteSet(refusals \cup kept) /\ IsFiniteSet(refusals \cap kept)
      /\ Cardinality(refusals \cup kept) =
           Cardinality(refusals) + Cardinality(kept) - Cardinality(refusals \cap kept)
  BY <1>1, FS_Union, FS_Intersection
<1>3. /\ Cardinality(refusals) \in Nat /\ Cardinality(kept) \in Nat
      /\ Cardinality(refusals \cap kept) \in Nat
  BY <1>1, <1>2, FS_CardinalityType
<1>4. Cardinality(refusals') <= Cardinality(refusals) + others
  BY <1>2, <1>3
<1> QED
  BY <1>2, <1>4 DEF GtMeets

\* No refusal that is remembered, or one.
LEMMA GtRefusesFew ==
  ASSUME GtLeft, NEW n \in Nat, NEW others \in Nat, Ignoring(n, others),
         refusals' = refusals \/ \E r : refusals' = refusals \cup {r} /\ others >= 1
  PROVE  GtMeets
<1>1. CASE refusals' = refusals
  <2>1. refusals' = refusals \cup {} /\ IsFiniteSet({}) /\ Cardinality({}) = 0
    BY <1>1, FS_EmptySet
  <2> QED
    BY <2>1, GtRefuses
<1>2. CASE \E r : refusals' = refusals \cup {r} /\ others >= 1
  <2>1. PICK r : refusals' = refusals \cup {r} /\ others >= 1
    BY <1>2
  <2>2. IsFiniteSet({r}) /\ Cardinality({r}) = 1
    BY FS_Singleton
  <2>3. Cardinality({r}) <= others
    BY <2>1, <2>2
  <2> QED
    BY <2>1, <2>2, <2>3, GtRefuses
<1> QED
  BY <1>1, <1>2

\* A preparation loses one reservation at most.
LEMMA GtPreparedLeft ==
  ASSUME GtLeft, NEW ms, NEW i, NEW how \in DOMAIN Prepares, Prepare(ms, i, how)
  PROVE  GtMeets
<1>1. PICK n \in Trims : Ignoring(n, Prepares[how])
  BY DEF Prepare
<1>2. refusals' = IF how = "lost" THEN refusals \cup {ms[i].name} ELSE refusals
  BY DEF Prepare
<1>3. n \in Nat /\ Prepares[how] \in Nat /\ (how = "lost" => Prepares[how] >= 1)
  BY DEF Prepares, Trims
<1>4. refusals' = refusals \/ \E r : refusals' = refusals \cup {r} /\ Prepares[how] >= 1
  BY <1>2, <1>3
<1> QED
  BY <1>1, <1>3, <1>4, GtRefusesFew

\* The loader's steps.
LEMMA GtLoadLeft ==
  ASSUME GtInv, GtBounds, GtLeft, Load
  PROVE  GtLeft'
<1>1. CASE LoadRoot
  <2>1. \E how \in DOMAIN Prepares : Prepare(<<Module(program.root, "root", 0)>>, 1, how)
    BY <1>1 DEF LoadRoot
  <2> QED
    BY <2>1, GtPreparedLeft, GtLeftOn
<1>2. CASE ResolveLocal
  <2>1. \E ms, i : \E how \in DOMAIN Prepares : Prepare(ms, i, how)
    BY <1>2 DEF ResolveLocal
  <2> QED
    BY <2>1, GtPreparedLeft, GtLeftOn
<1>3. CASE ResolveFails
  <2>1. UNCHANGED refusals /\ (UNCHANGED <<faults, ignored>> \/ \E n, others \in 0 .. 1 : Ignoring(n, others))
    BY <1>3 DEF ResolveFails
  <2>2. \A x \in 0 .. 1 : x \in Nat
    OBVIOUS
  <2> QED
    BY <2>1, <2>2, GtRefusesFew, GtLeftOn
<1>4. CASE Finalize
  <2>1. UNCHANGED refusals /\ (UNCHANGED <<faults, ignored>> \/ Ignoring(0, 1))
    BY <1>4, GtLimits DEF Finalize, Ignoring, GtLeft, GtBounds
  <2> QED
    BY <2>1, GtRefusesFew, GtLeftOn
<1>5. CASE Undo
  <2>1. PICK kept : Release(kept)
    BY <1>5 DEF Undo
  <2>2. refusals' = refusals \cup kept
    BY <2>1 DEF Release
  <2> QED
    BY <2>1, <2>2, GtReleaseIgnores, GtRefuses, GtLeftOn
<1>6. CASE ResolveKnown \/ ResolveNext \/ OrderStart \/ Visit \/ OrderEnd
  <2>1. UNCHANGED <<faults, ignored, refusals>>
    BY <1>6 DEF ResolveKnown, ResolveNext, OrderStart, Visit, OrderEnd
  <2> QED
    BY <2>1, GtLeftOn
<1> QED
  BY <1>1, <1>2, <1>3, <1>4, <1>5, <1>6 DEF Load

\* Every step.
LEMMA GtLeftStep ==
  ASSUME GtInv, GtBounds, GtLeft, [GateNext]_gateVars
  PROVE  GtLeft'
<1>1. CASE Load
  BY <1>1, GtLoadLeft
<1>2. CASE ExecProbe
  <2>1. \E n \in Trims, others \in 0 .. 2 : Ignoring(n, others) /\
          (refusals' = refusals \/ (refusals' = refusals \cup {"probe"} /\ others >= 1))
    BY <1>2 DEF ExecProbe
  <2>2. \A x \in 0 .. 2 : x \in Nat
    OBVIOUS
  <2> QED
    BY <2>1, <2>2, GtRefusesFew, GtLeftOn DEF Trims
<1>3. CASE Prelude \/ PreludeFails \/ CompatReserve \/ CompatRelease \/ RootOpen \/ GateExit
  <2>1. UNCHANGED refusals
    BY <1>3 DEF Prelude, PreludeFails, CompatReserve, CompatRelease, RootOpen, GateExit
  <2>2. UNCHANGED <<faults, ignored>> \/ \E n, others \in Nat : Ignoring(n, others)
    BY <1>3, GtAroundIgnores
  <2> QED
    BY <2>1, <2>2, GtRefusesFew, GtLeftOn
<1>4. CASE RecordLoad \/ RecordProtection \/ UNCHANGED gateVars
  <2>1. UNCHANGED <<faults, ignored, refusals>>
    BY <1>4 DEF RecordLoad, RecordProtection, gateVars, loaderVars
  <2> QED
    BY <2>1, GtLeftOn
<1>5. CASE GateRelease
  <2>1. PICK kept : Release(kept)
    BY <1>5 DEF GateRelease
  <2>2. refusals' = refusals \cup kept
    BY <2>1 DEF Release
  <2> QED
    BY <2>1, <2>2, GtReleaseIgnores, GtRefuses, GtLeftOn
<1> QED
  BY <1>1, <1>2, <1>3, <1>4, <1>5 DEF GateNext

\* Records that are made, as far as there is room.
LEMMA GtRecordsMade ==
  ASSUME GtBounds, GtTold, NEW n \in Nat, Records(n)
  PROVE  /\ lines' \in Nat /\ lines' <= ReportLines /\ missed' \in BOOLEAN
         /\ missed' => lines' = ReportLines
         /\ ~missed' => ~missed /\ lines' = lines + n
<1>1. PICK a \in Nat, b \in Nat : a = lines + n /\ b = ReportLines /\ lines \in Nat /\ lines <= b
  BY GtLimits DEF GtBounds
<1>2. lines' = Min({a, b}) /\ missed' = (missed \/ a > b)
  BY <1>1 DEF Records
<1>3. Min({a, b}) = IF a > b THEN b ELSE a
  <2>1. \E x \in {a, b} : \A y \in {a, b} : x <= y
    BY <1>1
  <2> QED
    BY <1>1, <2>1 DEF Min
<1>4. missed \in BOOLEAN /\ (missed => lines = b)
  BY <1>1 DEF GtTold
<1>5. lines' \in Nat /\ lines' <= b /\ (a > b \/ lines = b => lines' = b) /\ (~(a > b) => lines' = lines + n)
  BY <1>1, <1>2, <1>3
<1>6. missed' \in BOOLEAN /\ (missed' => a > b \/ missed) /\ (~missed' => ~missed /\ ~(a > b))
  BY <1>2
<1>7. missed' => lines' = b
  BY <1>4, <1>5, <1>6
<1> QED
  BY <1>1, <1>5, <1>6, <1>7

\* The last line of the report has room for a record.
LEMMA GtRoom ==
  ASSUME GtBounds, lines < ReportLines, ~missed, missed \in BOOLEAN, Records(1)
  PROVE  ~missed' /\ lines' = lines + 1
<1>1. PICK a \in Nat, b \in Nat : a = lines + 1 /\ b = ReportLines /\ a <= b
  BY GtLimits DEF GtBounds
<1>2. lines' = Min({a, b}) /\ missed' = (missed \/ a > b)
  BY <1>1 DEF Records
<1>3. Min({a, b}) = a
  <2>1. \E x \in {a, b} : \A y \in {a, b} : x <= y
    BY <1>1
  <2> QED
    BY <1>1, <2>1 DEF Min
<1> QED
  BY <1>1, <1>2, <1>3

\* The steps that record nothing.
LEMMA GtToldOn ==
  ASSUME GtInv, GtTold, UNCHANGED <<lines, owed, missed, counted, exit>>,
         \/ step' = step
         \/ step \in GtEarly /\ step' \in GtEarly \cup {"closed"}
         \/ step \in GtOpening /\ step' \in GtOpening
         \/ step = "exit" /\ step' = "closed"
  PROVE  GtTold'
<1>1. step \in GtEarly => step \notin {"exit", "closed"}
  BY DEF GtEarly
<1>2. step \in GtOpening => step \notin {"exit", "closed"} \cup GtEarly
  BY DEF GtEarly, GtOpening
<1> QED
  BY <1>1, <1>2 DEF GtTold, GtEarly, GtOpening

\* The records of a load and of its protections.
LEMMA GtToldMore ==
  ASSUME GtInv, GtBounds, GtTold, RecordLoad \/ RecordProtection
  PROVE  GtTold'
<1>1. CASE RecordLoad
  <2>1. /\ step = "loaded" /\ step' = "finalize" /\ Records(LoadRecords) /\ UNCHANGED exit
        /\ counted' = Cardinality(MappedNames) /\ owed' = owed + LoadRecords + counted'
    BY <1>1 DEF RecordLoad
  <2>2. Len(modules) \in Nat /\ Len(order) = Len(modules)
    BY <2>1, GtModule DEF GtInv, GtTypes, GtOrdering, Ordered
  <2>3. LoadRecords \in Nat /\ counted' \in Nat
    BY <2>1, <2>2, GtEdgesFinite, GtMappedFinite DEF LoadRecords
  <2>4. /\ lines' \in Nat /\ missed' \in BOOLEAN /\ (missed' => lines' = ReportLines)
        /\ (~missed' => ~missed /\ lines' = lines + LoadRecords)
    BY <2>1, <2>3, GtRecordsMade
  <2>5. lines = 1 /\ owed = 2 /\ exit.status = "none"
    BY <2>1 DEF GtTold, GtOpening
  <2>6. owed' \in Nat /\ (owed' = lines' + counted' + 1 \/ missed')
    BY <2>1, <2>3, <2>4, <2>5
  <2> QED
    BY <2>1, <2>4, <2>5, <2>6, GtLimits DEF GtTold, GtEarly, GtOpening
<1>2. CASE RecordProtection
  <2>1. /\ step = "finalize" /\ step' = "release" /\ Records(counted) /\ UNCHANGED <<exit, owed, counted>>
        /\ counted \in Nat
    BY <1>2 DEF RecordProtection, GtBounds
  <2>2. /\ lines' \in Nat /\ missed' \in BOOLEAN /\ (missed' => lines' = ReportLines)
        /\ (~missed' => ~missed /\ lines' = lines + counted)
    BY <2>1, GtRecordsMade
  <2>3. exit.status = "none" /\ owed \in Nat /\ (owed = lines + counted + 1 \/ missed) /\ missed \in BOOLEAN
    BY <2>1 DEF GtTold
  <2>4. owed = lines' + 1 \/ missed'
    BY <2>2, <2>3
  <2> QED
    BY <2>1, <2>2, <2>3, <2>4 DEF GtTold, GtEarly, GtOpening
<1> QED
  BY <1>1, <1>2

\* The exit record, or its absence.
LEMMA GtToldLast ==
  ASSUME GtInv, GtBounds, GtTold, GateRelease
  PROVE  GtTold'
<1>1. /\ step \in {"release", "failed"} /\ step' = "exit" /\ Records(1) /\ UNCHANGED owed
      /\ result' \in {"ok", "error"}
      /\ exit' = IF lines < ReportLines
                 THEN [status |-> result', mapped |-> counted, released |-> exit'.released, truncated |-> missed]
                 ELSE NoExit
  <2>1. PICK kept :
          /\ result' = ExitStatus(kept)
          /\ exit' = IF lines < ReportLines
                     THEN [status |-> result', mapped |-> counted,
                           released |-> IF kept = {} THEN counted ELSE 0, truncated |-> missed]
                     ELSE NoExit
    BY DEF GateRelease
  <2>2. result' \in {"ok", "error"}
    BY <2>1 DEF ExitStatus, GtInv, GtTypes
  <2> QED
    BY <2>1, <2>2 DEF GateRelease
<1>2. /\ lines' \in Nat /\ lines' <= ReportLines /\ missed' \in BOOLEAN /\ (missed' => lines' = ReportLines)
      /\ (~missed' => ~missed /\ lines' = lines + 1)
  BY <1>1, GtRecordsMade
<1>3. lines \in Nat /\ ReportLines \in Nat /\ lines <= ReportLines
  BY GtLimits DEF GtBounds
<1>4. /\ owed \in Nat /\ missed \in BOOLEAN /\ (missed => lines = ReportLines)
      /\ owed = lines + 1 \/ missed
  BY <1>1, <1>3 DEF GtTold, GtOpening
<1>5. CASE lines < ReportLines
  <2>0. lines # ReportLines
    BY <1>3, <1>5
  <2>1. ~missed /\ missed \in BOOLEAN
    BY <1>4, <2>0
  <2>2. ~missed' /\ lines' = lines + 1
    BY <1>1, <1>5, <2>1, GtRoom
  <2>3. exit' = [status |-> result', mapped |-> counted, released |-> exit'.released, truncated |-> missed]
    BY <1>1, <1>5
  <2>4. exit'.status # "none" /\ ~exit'.truncated
    BY <1>1, <2>1, <2>3
  <2> QED
    BY <1>1, <1>2, <1>4, <2>2, <2>4 DEF GtTold, GtEarly, GtOpening
<1>6. CASE ~(lines < ReportLines)
  <2>1. exit'.status = "none"
    BY <1>1, <1>6 DEF NoExit
  <2>2. missed'
    BY <1>2, <1>3, <1>6
  <2> QED
    BY <1>1, <1>2, <1>4, <2>1, <2>2 DEF GtTold, GtEarly, GtOpening
<1> QED
  BY <1>5, <1>6

\* The first of the records.
LEMMA GtToldFirst ==
  ASSUME GtInv, GtTold, RootOpen
  PROVE  GtTold'
<1>1. step = "root" /\ step' = "load" /\ lines' = 1 /\ owed' = 2 /\ UNCHANGED <<missed, exit>>
  BY DEF RootOpen
<1>2. ~missed /\ exit.status = "none"
  BY <1>1 DEF GtTold, GtEarly
<1> QED
  BY <1>1, <1>2 DEF GtTold, GtEarly, GtOpening

\* Every step.
LEMMA GtToldStep ==
  ASSUME GtInv, GtBounds, GtTold, [GateNext]_gateVars
  PROVE  GtTold'
<1>1. CASE Load
  <2>1. UNCHANGED <<lines, owed, missed, counted, exit>>
    BY <1>1 DEF Load, ReportSame
  <2>2. step' = step \/ (step \in GtOpening /\ step' \in GtOpening)
    BY <1>1 DEF Load, LoadRoot, ResolveKnown, ResolveLocal, ResolveFails, Resolving, ResolveNext, OrderStart,
                Visit, OrderEnd, Finalize, Undo, Fails, GtOpening
  <2> QED
    BY <2>1, <2>2, GtToldOn
<1>2. CASE Prelude \/ PreludeFails \/ CompatReserve \/ CompatRelease \/ ExecProbe \/ GateExit
  <2>1. UNCHANGED <<lines, owed, missed, counted, exit>>
    BY <1>2 DEF Prelude, PreludeFails, CompatReserve, CompatRelease, ExecProbe, GateExit, ReportSame
  <2>2. (step \in GtEarly /\ step' \in GtEarly \cup {"closed"}) \/ (step = "exit" /\ step' = "closed")
    BY <1>2 DEF Prelude, PreludeFails, CompatReserve, CompatRelease, ExecProbe, GateExit, GtEarly
  <2> QED
    BY <2>1, <2>2, GtToldOn
<1>3. CASE UNCHANGED gateVars
  <2>1. UNCHANGED <<step, lines, owed, missed, counted, exit>>
    BY <1>3 DEF gateVars, loaderVars
  <2> QED
    BY <2>1, GtToldOn
<1> QED
  BY <1>1, <1>2, <1>3, GtToldFirst, GtToldMore, GtToldLast DEF GateNext

\* It begins with nothing left and nothing to tell, and stays so.
LEMMA GtAccountStart == GateInit => GtAccount
<1> SUFFICES ASSUME GateInit PROVE GtAccount
  OBVIOUS
<1>1. /\ refusals = {} /\ ignored = 0 /\ faults = MaxFaults /\ owed = 0 /\ ~missed /\ missed \in BOOLEAN
      /\ step = "scratch" /\ exit.status = "none"
  BY DEF GateInit, LoaderInit, NoExit
<1>2. GtLeft
  BY <1>1, FS_EmptySet, GtLimits DEF GtLeft
<1>3. GtTold
  BY <1>1 DEF GtTold, GtEarly, GtOpening
<1> QED
  BY <1>2, <1>3 DEF GtAccount
LEMMA GtAccountStep ==
  ASSUME GtInv, GtBounds, GtAccount, [GateNext]_gateVars
  PROVE  GtAccount'
BY GtLeftStep, GtToldStep DEF GtAccount

\* The gate's state has its types.
LEMMA GtTyped == ASSUME GtInv, GtBounds, GtAccount PROVE GateTypeOK
BY GtLimits DEF GtInv, GtTypes, GtBounds, GtAccount, GtLeft, GateTypeOK

\* No table of the loader or of the report overflows, for any programs and
\* bounds: a registry, the provider's files and the report each stay within
\* their capacity, and no more calls are refused than a behaviour may have.
THEOREM GateTyping == GateSpec => []GateTypeOK
<1>1. GateInit => GtInv /\ GtBounds /\ GtAccount
  BY GtStarts, GtBoundsStart, GtAccountStart
<1>2. GtInv /\ GtBounds /\ GtAccount /\ [GateNext]_gateVars => (GtInv /\ GtBounds /\ GtAccount)'
  BY GtMoves, GtBoundsStep, GtAccountStep
<1>3. GtInv /\ GtBounds /\ GtAccount => GateTypeOK
  BY GtTyped
<1> QED
  BY <1>1, <1>2, <1>3, PTL DEF GateSpec

\* What the invariant says of the log.
LEMMA GtHonest ==
  ASSUME GtInv, GtBounds, GtAccount
  PROVE  GateHonest
<1>1. ASSUME step = "closed"
      PROVE  /\ spans = {} /\ low = {} /\ regions \subseteq refusals
             /\ Cardinality(regions) + ignored <= MaxFaults - faults
             /\ exit.status = "ok" => regions = {} /\ exit.released = exit.mapped
             /\ exit.status # "none" => lines = owed /\ ~exit.truncated
             /\ exit.status = "none" => owed = 0 \/ missed
  <2>1. modules = <<>>
    BY <1>1 DEF GtInv, GtNone, GtLoaded
  <2>2. GtMappedIn(modules) = {} /\ GtOwnedIn(modules) = {}
    BY <2>1 DEF GtMappedIn, GtOwnedIn
  <2>3. /\ spans = {} /\ low = {} /\ regions \subseteq refusals
        /\ exit.status = "ok" => regions = {} /\ exit.released = exit.mapped
    BY <1>1, <2>2 DEF GtInv, GtFiles, GtLow, GtMaps, GtExits
  <2>4. Cardinality(regions) + ignored <= MaxFaults - faults
    <3>1. IsFiniteSet(refusals) /\ ignored \in Nat /\ Cardinality(refusals) + ignored <= MaxFaults - faults
      BY DEF GtAccount, GtLeft
    <3>2. IsFiniteSet(regions) /\ Cardinality(regions) <= Cardinality(refusals)
      BY <2>3, <3>1, FS_Subset
    <3>3. Cardinality(regions) \in Nat /\ Cardinality(refusals) \in Nat
      BY <3>1, <3>2, FS_CardinalityType
    <3> QED
      BY <3>1, <3>2, <3>3, GtLimits DEF GtBounds
  <2>5. /\ exit.status # "none" => lines = owed /\ ~exit.truncated
        /\ exit.status = "none" => owed = 0 \/ missed
    BY <1>1 DEF GtAccount, GtTold
  <2> QED
    BY <2>3, <2>4, <2>5
<1>2. step \in {"loaded", "finalize"} => Closed /\ Ordered
  BY DEF GtInv, GtOrdering
<1>3. step = "release" /\ result = "ok" => Unprotected = {} /\ counted = Cardinality(MappedNames)
  <2>1. MappedNames = GtMappedIn(modules)
    BY DEF MappedNames, GtMappedIn
  <2> QED
    BY <2>1 DEF GtInv, GtCounts
<1>4. Sealed
  <2>1. program \in Programs /\ modules \in Seq(GtModules)
    BY DEF GtInv, GtTypes
  <2>2. SUFFICES ASSUME NEW i \in DOMAIN modules, modules[i].protected,
                        NEW p \in Pages(modules[i].name), NEW right \in {"r", "w", "x"}
                 PROVE  right \in access[modules[i].name][p] <=>
                          \/ p = 0 /\ right = "r"
                          \/ \E s \in ToSet(program.sections[modules[i].name]) :
                               right \in s.access /\ s.first < 2 * (p + 1) /\ s.last >= 2 * p
    BY DEF Sealed
  <2>3. i \in 1 .. Len(modules)
    BY <2>1, GtModule
  <2>4. access[modules[i].name][p] = PageAccess(modules[i].name, p) /\ modules[i].mapped
    BY <2>2, <2>3 DEF GtInv, GtRights
  <2>5. modules[i].name \in DOMAIN program.imports
    BY <2>3, <2>4 DEF GtInv, GtImages
  <2>6. p \in Nat
    BY <2>1, <2>5, GtPages
  <2> QED
    BY <2>1, <2>4, <2>5, <2>6, GtPageRights
<1> QED
  BY <1>1, <1>2, <1>3, <1>4 DEF GateHonest

\* The gate's log is true, whatever the platform refused, for any programs and
\* bounds: what a load registers is what the imports reach, in an order that
\* puts a module after its imports; a page has the rights its sections ask for
\* and no others; an exit with status ok follows the release of every image,
\* and an exit record the whole report, the protections that failed included;
\* and each mapping that is left at the end has its own refused call.
THEOREM GateAlwaysHonest == GateSpec => []GateHonest
<1>1. GateInit => GtInv /\ GtBounds /\ GtAccount
  BY GtStarts, GtBoundsStart, GtAccountStart
<1>2. GtInv /\ GtBounds /\ GtAccount /\ [GateNext]_gateVars => (GtInv /\ GtBounds /\ GtAccount)'
  BY GtMoves, GtBoundsStep, GtAccountStep
<1>3. GtInv /\ GtBounds /\ GtAccount => GateHonest
  BY GtHonest
<1> QED
  BY <1>1, <1>2, <1>3, PTL DEF GateSpec
=============================================================================
