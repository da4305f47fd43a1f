---------------------------- MODULE TitleRuntime ----------------------------
(***************************************************************************)
(* What the runtime title (native/runtime_main.c) acquires, in order, and  *)
(* gives back: when a start fails half way (each opener undoes its own     *)
(* part, then the process ends), and in the teardown of an orderly end,    *)
(* which goes on whatever is refused.  Between the two it presents frames. *)
(***************************************************************************)
EXTENDS Presenter, SequencesExt

CONSTANT TitleFaults     \* calls the platform refuses in a behaviour
ASSUME TitleAssumption == TitleFaults \in Nat

VARIABLES
    phase,      \* "start", "undo", "loop", "teardown", then "ended" or "aborted"
    held,       \* the resources the process has
    todo,       \* what is still to be acquired, or to be given back
    refused,    \* the resources the platform did not take back
    failures    \* the calls it may still refuse

titleVars == <<frameVars, phase, held, todo, refused, failures>>

\* In the order of main, pw_pad_ps5_open, pw_videoout_ps5_open and, inside
\* it, pw_agc_ps5_open.
PadParts == <<"user", "pad">>
AgcParts == <<"agcModule", "agcRange", "agcMemory", "agcMap">>
VideoParts == <<"video", "videoMemory", "videoMap", "buffers">>
Startup == <<"root", "stack", "thread", "crt", "heap", "image", "audio">> \o PadParts
           \o <<"engine">> \o AgcParts \o VideoParts

\* pw_agc_ps5_close and pw_videoout_ps5_close.
AgcCloses == <<"agcMap", "agcMemory", "agcRange", "agcModule">>
VideoCloses == <<"buffers", "video", "videoMap", "videoMemory">> \o AgcCloses

\* Mutant: the direct memory is released before it is unmapped.
MTeardown == <<"pad", "user", "audio", "buffers", "video", "videoMemory", "videoMap">> \o AgcCloses
             \o <<"engine", "image", "root", "stack", "thread", "crt", "heap", "streams">>

\* The teardown of main.
Teardown == <<"pad", "user", "audio">> \o VideoCloses
            \o <<"engine", "image", "root", "stack", "thread", "crt", "heap", "streams">>

\* What an opener whose step fails gives back before the title aborts.
Undone(part) ==
    CASE part \in ToSet(PadParts) -> <<"user">>
      [] part \in ToSet(AgcParts) -> AgcCloses
      [] part \in ToSet(VideoParts) -> VideoCloses
      [] OTHER -> <<>>

TitleInit ==
    /\ FrameInit
    /\ phase = "start" /\ held = {} /\ todo = Startup
    /\ refused = {} /\ failures = TitleFaults

Acquire ==
    /\ phase = "start" /\ todo # <<>>
    /\ held' = held \cup {Head(todo)}
    /\ todo' = Tail(todo)
    /\ UNCHANGED <<frameVars, phase, refused, failures>>

\* The user service may belong to someone else: then it is used, not owned.
UserNotOwned ==
    /\ phase = "start" /\ todo # <<>> /\ Head(todo) = "user"
    /\ todo' = Tail(todo)
    /\ UNCHANGED <<frameVars, phase, held, refused, failures>>

AcquireFails ==
    /\ phase = "start" /\ todo # <<>> /\ Head(todo) # "user" /\ failures > 0
    /\ failures' = failures - 1
    /\ todo' = Undone(Head(todo))
    /\ phase' = "undo"
    /\ UNCHANGED <<frameVars, held, refused>>

Ready ==
    /\ phase = "start" /\ todo = <<>>
    /\ phase' = "loop"
    /\ UNCHANGED <<frameVars, held, todo, refused, failures>>

\* The title's part of a present, in the loop; the GPU and the display go on
\* as long as there is a process whose memory they use.
Present ==
    /\ \/ phase = "loop" /\ (Draw \/ Submit \/ Suspend \/ WaitFence \/ WaitVblank)
       \/ phase \notin {"aborted", "ended"} /\ (Gpu \/ (Vblank /\ "video" \in held))
    /\ UNCHANGED <<phase, held, todo, refused, failures>>

\* fopen and fclose of the guest; one of the eight streams stands for them.
Stream ==
    /\ phase = "loop" /\ cpu = "idle"
    /\ held' \in {held \cup {"streams"}, held \ {"streams"}} /\ held' # held
    /\ UNCHANGED <<frameVars, phase, todo, refused, failures>>

\* Anything that goes wrong in the loop ends the process as it stands.
Abort ==
    /\ \/ phase = "loop" /\ cpu = "idle"
       \/ phase = "loop" /\ PresentFails
       \/ phase = "undo" /\ todo = <<>>
    /\ phase' = "aborted"
    /\ UNCHANGED <<frameVars, held, todo, refused, failures>>

\* A signal, the deadline, or the guest's return or exit.
Leave ==
    /\ phase = "loop" /\ cpu = "idle"
    /\ phase' = "teardown" /\ todo' = Teardown
    /\ UNCHANGED <<frameVars, held, refused, failures>>

\* A close, which is skipped for what is not held; its refusal is recorded,
\* and the next one follows in any case.
GiveBack ==
    /\ phase \in {"undo", "teardown"} /\ todo # <<>>
    /\ \/ held' = held \ {Head(todo)} /\ UNCHANGED <<refused, failures>>
       \/ /\ Head(todo) \in held \ {"root"} /\ failures > 0
          /\ refused' = refused \cup {Head(todo)} /\ failures' = failures - 1
          /\ UNCHANGED held
    /\ todo' = Tail(todo)
    /\ UNCHANGED <<frameVars, phase>>

End ==
    /\ phase = "teardown" /\ todo = <<>>
    /\ phase' = "ended"
    /\ UNCHANGED <<frameVars, held, todo, refused, failures>>

TitleNext ==
    \/ Acquire \/ UserNotOwned \/ AcquireFails \/ Ready
    \/ Present \/ Stream \/ Abort
    \/ Leave \/ GiveBack \/ End

TitleSpec == TitleInit /\ [][TitleNext]_titleVars

-----------------------------------------------------------------------------
TitleTypeOK ==
    /\ held \subseteq ToSet(Startup) \cup {"streams"} /\ refused \subseteq held
    /\ flips \in 0..MaxFrames /\ failures \in 0..TitleFaults
    /\ cpu \in {"idle", "drawn", "submitted", "waiting", "vblank"}

\* What cannot be given back while something else still uses it.
Uses == {<<"engine", "image">>, <<"image", "root">>,
         <<"agcMap", "agcMemory">>, <<"agcMap", "agcRange">>, <<"agcRange", "agcModule">>,
         <<"videoMap", "videoMemory">>, <<"buffers", "videoMap">>, <<"buffers", "video">>}

\* Whatever is refused on the way: a start that fails leaves nothing of what
\* the failing opener had acquired, an orderly end leaves nothing at all, but
\* for what the platform would not take back; nothing is given back that
\* something else the process still has uses, the GPU included.
TeardownExhaustive ==
    /\ phase = "ended" => held \subseteq refused
    /\ phase = "undo" /\ todo = <<>> =>
         /\ held \cap ToSet(AgcParts \o VideoParts) \subseteq refused
         /\ "user" \in held \ refused => "pad" \in held
    /\ \A u \in Uses : u[1] \in held \ refused => u[2] \in held
    /\ phase # "aborted" /\ packets # <<>> => {"agcMap", "videoMap", "video"} \subseteq held

\* What the runtime holds is given back, and what it presents is whole.
RuntimeSound == TeardownExhaustive /\ FramesWhole
=============================================================================
