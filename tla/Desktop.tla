------------------------------ MODULE Desktop ------------------------------
(***************************************************************************)
(* The window calls of src/pw_win32.c that span both components: the       *)
(* windows of pw_user32.c and the surfaces pw_gdi.c keeps for them, which  *)
(* know each other only by the window's handle.                            *)
(***************************************************************************)
EXTENDS GuestWindows, Gdi

desktopVars == <<userVars, gdiVars>>

DesktopWindow == 1000      \* PW_USER32_DESKTOP_HANDLE, no window's handle

\* How many handles of pw_gdi.c a behaviour may give out.
ASSUME DesktopAssumption == \A s \in Scenes : s.handles \in Nat

DesktopInit == UserInit /\ GdiInit

\* What a handle names for GetDC: a window, or the desktop.
Rect(h, size) == IF h = DesktopWindow THEN size \in BitmapSizes /\ \A n \in BitmapSizes : n <= size
                 ELSE IsWindow(h) /\ size = Window(h).size

\* Mutant: the window's surface is kept.
MDestroyWindow(h) == DestroyUser(h) /\ UNCHANGED gdiVars

DestroyWindow(h) == DestroyUser(h) /\ DestroyTarget(h)

\* The target is cleared before the window is looked up, so a call with the
\* desktop's handle fails and has cleared the desktop's.
DestroyDesktop == Calls("window") /\ Targets(DesktopWindow) # {} /\ DestroyTarget(DesktopWindow) /\ UNCHANGED userVars

\* The surface first: if it has no room, the call fails and the window has not moved.
MoveWindow(h, size) == ResizeTarget(h, size) /\ MoveUser(h, size)

BeginPaint(h) == IsWindow(h) /\ GetDc(h, Window(h).size) /\ BeginUser(h, nextGdi)

EndPaint(h) == IsWindow(h) /\ ReleaseDc(h, Window(h).dc) /\ EndUser(h, Window(h).dc)

FatalDesktop ==
    \/ Calls("window") /\ \E h \in Handles : WindowDcs(h) # {} \/ Window(h).dc # 0       \* DestroyWindow
    \/ Calls("window") /\ \E h \in Handles, n \in Sizes, s \in InUse :                    \* MoveWindow
         s \in Targets(h) /\ n > surfaces[s].size /\ Gaps(n, {s}) = {}
    \/ Calls("paint") /\ \E h \in Handles :                                               \* BeginPaint, EndPaint
         Cardinality(DOMAIN dcs) = DcSlots \/ Window(h).dc \notin WindowDcs(h)

DesktopEnds ==
    /\ Ends \/ (~ended /\ FatalDesktop)
    /\ ended' = TRUE
    /\ UNCHANGED <<scene, tables, records, issued, passed, gdiVars>>

\* The calls of gdi32.dll, GetDC and ReleaseDC, with the handles they gave.
GdiCall ==
    \/ \E h \in Handles \cup {DesktopWindow}, n \in Sizes \cup BitmapSizes : Rect(h, n) /\ GetDc(h, n)
    \/ \E d \in DOMAIN dcs :
         \/ ReleaseDc(dcs[d].owner, d)
         \/ CreateCompatibleDc(d) \/ DeleteDc(d)
         \/ \E b \in 1..(nextGdi - 1) : SelectBitmap(d, b)
    \/ \E n \in BitmapSizes : CreateBitmap(n)
    \/ \E b \in 1..(nextGdi - 1) : DeleteBitmap(b)

PaletteCall ==
    \/ CreatePalette
    \/ \E p \in DOMAIN palettes : DeletePalette(p)
    \/ \E d \in DOMAIN dcs, p \in DOMAIN palettes \cup {0} : SelectPalette(d, p)

DesktopNext ==
    \/ UserNext /\ UNCHANGED gdiVars
    \/ \E h \in Handles :
         \/ DestroyWindow(h)
         \/ \E n \in Sizes : MoveWindow(h, n)
         \/ BeginPaint(h) /\ nextGdi <= scene.handles
         \/ EndPaint(h)
    \/ DestroyDesktop
    \/ Calls("gdi") /\ GdiCall /\ nextGdi' <= scene.handles + 1 /\ UNCHANGED userVars
    \/ Calls("palette") /\ PaletteCall /\ nextGdi' <= scene.handles + 1 /\ UNCHANGED userVars
    \/ DesktopEnds

DesktopSpec == DesktopInit /\ [][DesktopNext]_desktopVars

-----------------------------------------------------------------------------
DesktopTypeOK ==
    /\ UserTypeOK
    /\ Cardinality(DOMAIN dcs) <= DcSlots /\ nextGdi \in 1..(scene.handles + 1)
    /\ \A s \in InUse : surfaces[s].size \in Sizes \cup BitmapSizes

\* The components agree while the title runs.  A surface is kept for a window
\* that exists and has its size: nothing is presented for a window that is
\* gone, and GetDC finds the size it expects.  The context a painting window
\* remembers is its own, if the guest has not released it behind its back.
\* And pw_gdi.c keeps what pw_gdi_validate checks.
SurfacesSound ==
    /\ GdiValid
    /\ \A s \in InUse : surfaces[s].kind = "target" =>
         \/ surfaces[s].target = DesktopWindow
         \/ IsWindow(surfaces[s].target) /\ Window(surfaces[s].target).size = surfaces[s].size
    /\ \A h \in Handles : Window(h).dc \in DOMAIN dcs => dcs[Window(h).dc].owner = h
=============================================================================
