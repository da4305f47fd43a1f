------------------------------ MODULE Services ------------------------------
(***************************************************************************)
(* The parts of prospero-win and of its titles that one thread runs and    *)
(* that share no state, side by side: the guest's heap, its registry, its  *)
(* desktop, the loader under the gate, the runtime's own resources with    *)
(* the presenter, the native titles' frames, the image a module is made    *)
(* from, and the guest's x87 unit.  Each behaviour is about one of them,   *)
(* the subject; the others stay where they start.  A step of one changes   *)
(* nothing another reads, so interleaving them would show nothing more.    *)
(***************************************************************************)
EXTENDS GuestHeap, StateStore, Desktop, Gate, TitleRuntime, AgcStage, PeImage, X87

VARIABLE subject

Subjects == {"heap", "registry", "desktop", "gate", "title", "stage", "image", "x87"}

servicesVars == <<subject, heapVars, stateVars, desktopVars, gateVars, titleVars, stageVars, peVars, x87Vars>>

ServicesInit ==
    /\ subject \in Subjects
    /\ HeapInit /\ StateInit /\ DesktopInit /\ GateInit /\ TitleInit /\ StageInit /\ PeInit /\ X87Init
    /\ subject # "desktop" => scene = CHOOSE s \in Scenes : TRUE
    /\ subject # "gate" => program = CHOOSE p \in Programs : TRUE
    /\ subject # "stage" => build = CHOOSE b \in Builds : TRUE

Only(s) == subject = s /\ UNCHANGED subject

ServicesNext ==
    \/ Only("heap") /\ HeapNext
         /\ UNCHANGED <<stateVars, desktopVars, gateVars, titleVars, stageVars, peVars, x87Vars>>
    \/ Only("registry") /\ StateNext
         /\ UNCHANGED <<heapVars, desktopVars, gateVars, titleVars, stageVars, peVars, x87Vars>>
    \/ Only("desktop") /\ DesktopNext
         /\ UNCHANGED <<heapVars, stateVars, gateVars, titleVars, stageVars, peVars, x87Vars>>
    \/ Only("gate") /\ GateNext
         /\ UNCHANGED <<heapVars, stateVars, desktopVars, titleVars, stageVars, peVars, x87Vars>>
    \/ Only("title") /\ TitleNext
         /\ UNCHANGED <<heapVars, stateVars, desktopVars, gateVars, stageVars, peVars, x87Vars>>
    \/ Only("stage") /\ StageNext
         /\ UNCHANGED <<heapVars, stateVars, desktopVars, gateVars, titleVars, peVars, x87Vars>>
    \/ Only("image") /\ PeNext
         /\ UNCHANGED <<heapVars, stateVars, desktopVars, gateVars, titleVars, stageVars, x87Vars>>
    \/ Only("x87") /\ X87Next
         /\ UNCHANGED <<heapVars, stateVars, desktopVars, gateVars, titleVars, stageVars, peVars>>

ServicesSpec == ServicesInit /\ [][ServicesNext]_servicesVars

-----------------------------------------------------------------------------
\* Every part's state has its type, and the heap is as its own check wants it.
ServicesTypeOK ==
    /\ subject \in Subjects
    /\ HeapTypeOK /\ HeapValid
    /\ StateTypeOK /\ DesktopTypeOK /\ GateTypeOK /\ TitleTypeOK /\ StageTypeOK /\ PeTypeOK
    /\ X87TypeOK
=============================================================================
