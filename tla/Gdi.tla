-------------------------------- MODULE Gdi --------------------------------
(***************************************************************************)
(* src/pw_gdi.c: device contexts, surfaces and palettes.  A surface is the *)
(* pixels of a window (a target, which all its contexts share and which    *)
(* outlives them) or a bitmap; every surface has its part of one block of  *)
(* memory.  Contexts name surfaces by slot, everything else by handle.     *)
(*                                                                         *)
(* Pixels are not modelled, nor calls that fail: the adapter (gdi_failure) *)
(* tells the guest and nothing has changed.  A bitmap read from a resource *)
(* (pw_gdi_create_dib_bitmap) that turns out malformed is such a failure:  *)
(* it gives back the surface, and the handle, which is the newest.         *)
(***************************************************************************)
EXTENDS Integers, FiniteSets, FiniteSetsExt, Functions

CONSTANTS DcSlots, SurfaceSlots, PaletteSlots, PixelCapacity, BitmapSizes

ASSUME GdiAssumption ==
    /\ {DcSlots, SurfaceSlots, PaletteSlots, PixelCapacity} \subseteq Nat \ {0}
    /\ BitmapSizes \subseteq Nat \ {0}

VARIABLES
    dcs,          \* PwGdi.dcs: from the handle to the context
    surfaces,     \* PwGdi.surfaces, by slot
    palettes,     \* PwGdi.palettes: from the handle to selected_by
    nextGdi       \* PwGdi.next_handle

gdiVars == <<dcs, surfaces, palettes, nextGdi>>

Stock == -1       \* PW_GDI_STOCK_BITMAP: selected into a new memory context
NoSurface == [kind |-> "none", handle |-> 0, target |-> 0, size |-> 0, offset |-> 0, selected |-> 0]

GdiInit ==
    /\ dcs = <<>> /\ palettes = <<>>
    /\ surfaces = [s \in 1..SurfaceSlots |-> NoSurface]
    /\ nextGdi = 1

InUse == {s \in DOMAIN surfaces : surfaces[s].kind # "none"}
Targets(owner) == {s \in InUse : surfaces[s].kind = "target" /\ surfaces[s].target = owner}
Bitmap(handle) == {s \in InUse : surfaces[s].kind = "bitmap" /\ surfaces[s].handle = handle}
WindowDcs(owner) == {d \in DOMAIN dcs : dcs[d].kind = "window" /\ dcs[d].owner = owner}
Without(f, x) == Restrict(f, DOMAIN f \ {x})
With(f, x, v) == [y \in DOMAIN f \cup {x} |-> IF y = x THEN v ELSE f[y]]

\* pixel_gap_ignoring: the least offset at which so much memory is free.
Overlap(a, m, b, n) == a < b + n /\ b < a + m
Gaps(size, ignored) ==
    {o \in 0..(PixelCapacity - size) :
        \A s \in InUse \ ignored : ~Overlap(o, size, surfaces[s].offset, surfaces[s].size)}
Gap(size, ignored) == Min(Gaps(size, ignored))

\* allocate_surface, in the first free slot.
Allocates(size) == InUse # DOMAIN surfaces /\ Gaps(size, {}) # {}
Allocated(kind, handle, target, size) ==
    [surfaces EXCEPT ![Min(DOMAIN surfaces \ InUse)] =
        [NoSurface EXCEPT !.kind = kind, !.handle = handle, !.target = target, !.size = size, !.offset = Gap(size, {})]]

-----------------------------------------------------------------------------
(* Contexts of windows: GetDC and ReleaseDC, BeginPaint and EndPaint.      *)

NewDc(dc) ==
    /\ Cardinality(DOMAIN dcs) < DcSlots
    /\ dcs' = With(dcs, nextGdi, dc)
    /\ nextGdi' = nextGdi + 1

\* A target of another size than the window has is an error.
GetDc(owner, size) ==
    /\ \A s \in Targets(owner) : surfaces[s].size = size
    /\ IF Targets(owner) # {}
       THEN UNCHANGED surfaces
       ELSE Allocates(size) /\ surfaces' = Allocated("target", 0, owner, size)
    /\ NewDc([kind |-> "window", owner |-> owner, bitmap |-> 0, palette |-> 0,
              surface |-> IF Targets(owner) # {} THEN Min(Targets(owner)) ELSE Min(DOMAIN surfaces \ InUse)])
    /\ UNCHANGED palettes

\* A palette's count follows the contexts that select it.
Deselected(palette) == IF palette \in DOMAIN palettes THEN [palettes EXCEPT ![palette] = @ - 1] ELSE palettes

ReleaseDc(owner, dc) ==
    /\ dc \in WindowDcs(owner)
    /\ palettes' = Deselected(dcs[dc].palette)
    /\ dcs' = Without(dcs, dc)
    /\ UNCHANGED <<surfaces, nextGdi>>

DestroyTarget(owner) ==
    /\ WindowDcs(owner) = {}
    /\ surfaces' = [s \in DOMAIN surfaces |-> IF s \in Targets(owner) THEN NoSurface ELSE surfaces[s]]
    /\ UNCHANGED <<dcs, palettes, nextGdi>>

\* A target that grows moves; one that shrinks stays.
ResizeTarget(owner, size) ==
    /\ \A s \in Targets(owner) : size > surfaces[s].size => Gaps(size, {s}) # {}
    /\ surfaces' = [s \in DOMAIN surfaces |->
                      IF s \notin Targets(owner) THEN surfaces[s]
                      ELSE [surfaces[s] EXCEPT !.size = size,
                                               !.offset = IF size > surfaces[s].size THEN Gap(size, {s}) ELSE @]]
    /\ UNCHANGED <<dcs, palettes, nextGdi>>

-----------------------------------------------------------------------------
(* Memory contexts and bitmaps.                                            *)

CreateCompatibleDc(dc) ==
    /\ dc \in DOMAIN dcs
    /\ NewDc([kind |-> "memory", owner |-> 0, bitmap |-> Stock, palette |-> 0, surface |-> 0])
    /\ UNCHANGED <<surfaces, palettes>>

\* CreateCompatibleBitmap, which needs a context, and LoadBitmapA, which does not.
CreateBitmap(size) ==
    /\ Allocates(size)
    /\ surfaces' = Allocated("bitmap", nextGdi, 0, size)
    /\ nextGdi' = nextGdi + 1
    /\ UNCHANGED <<dcs, palettes>>

\* A bitmap may be selected by one context; the context's previous one, unless
\* it is the stock bitmap, is no longer selected.
SelectBitmap(dc, bitmap) ==
    /\ dc \in DOMAIN dcs /\ dcs[dc].kind = "memory"
    /\ dcs[dc].bitmap # bitmap
    /\ \E s \in Bitmap(bitmap) :
         /\ surfaces[s].selected = 0
         /\ surfaces' = [t \in DOMAIN surfaces |->
                           IF t = s THEN [surfaces[t] EXCEPT !.selected = @ + 1]
                           ELSE IF t \in Bitmap(dcs[dc].bitmap) THEN [surfaces[t] EXCEPT !.selected = @ - 1]
                           ELSE surfaces[t]]
         /\ dcs' = [dcs EXCEPT ![dc].bitmap = bitmap, ![dc].surface = s]
    /\ UNCHANGED <<palettes, nextGdi>>

DeleteDc(dc) ==
    /\ dc \in DOMAIN dcs /\ dcs[dc].kind = "memory"
    /\ surfaces' = [s \in DOMAIN surfaces |->
                      IF s \in Bitmap(dcs[dc].bitmap) THEN [surfaces[s] EXCEPT !.selected = @ - 1] ELSE surfaces[s]]
    /\ palettes' = Deselected(dcs[dc].palette)
    /\ dcs' = Without(dcs, dc)
    /\ UNCHANGED nextGdi

\* DeleteObject: of a bitmap or a palette that no context selects.
DeleteBitmap(bitmap) ==
    /\ \E s \in Bitmap(bitmap) : surfaces[s].selected = 0 /\ surfaces' = [surfaces EXCEPT ![s] = NoSurface]
    /\ UNCHANGED <<dcs, palettes, nextGdi>>

DeletePalette(palette) ==
    /\ palette \in DOMAIN palettes /\ palettes[palette] = 0
    /\ palettes' = Without(palettes, palette)
    /\ UNCHANGED <<dcs, surfaces, nextGdi>>

CreatePalette ==
    /\ Cardinality(DOMAIN palettes) < PaletteSlots
    /\ palettes' = With(palettes, nextGdi, 0)
    /\ nextGdi' = nextGdi + 1
    /\ UNCHANGED <<dcs, surfaces>>

\* Into any context; palette 0 selects none.
SelectPalette(dc, palette) ==
    /\ dc \in DOMAIN dcs /\ palette \in DOMAIN palettes \cup {0}
    /\ dcs[dc].palette # palette
    /\ palettes' = [p \in DOMAIN palettes |->
                      IF p = palette THEN palettes[p] + 1
                      ELSE IF p = dcs[dc].palette THEN palettes[p] - 1 ELSE palettes[p]]
    /\ dcs' = [dcs EXCEPT ![dc].palette = palette]
    /\ UNCHANGED <<surfaces, nextGdi>>

-----------------------------------------------------------------------------
\* pw_gdi_validate, which the tests call and no call of the guest does: no two
\* surfaces share a pixel, a context's slot holds the surface it stands for
\* (and not another that took a freed slot), and what is counted as selected
\* is selected, so that it can be deleted again once it is not.
GdiValid ==
    /\ \A s \in InUse : surfaces[s].offset + surfaces[s].size <= PixelCapacity
    /\ \A s, t \in InUse : s # t => ~Overlap(surfaces[s].offset, surfaces[s].size, surfaces[t].offset, surfaces[t].size)
    /\ \A s \in InUse : surfaces[s].kind = "bitmap" =>
         surfaces[s].selected = Cardinality({d \in DOMAIN dcs : dcs[d].kind = "memory" /\ dcs[d].surface = s
                                                                /\ dcs[d].bitmap = surfaces[s].handle})
    /\ \A d \in DOMAIN dcs :
         CASE dcs[d].kind = "window" -> dcs[d].surface \in Targets(dcs[d].owner)
           [] dcs[d].bitmap = Stock -> dcs[d].surface = 0
           [] OTHER -> dcs[d].surface \in Bitmap(dcs[d].bitmap)
    /\ \A d \in DOMAIN dcs : dcs[d].palette \in DOMAIN palettes \cup {0}
    /\ \A p \in DOMAIN palettes : palettes[p] = Cardinality({d \in DOMAIN dcs : dcs[d].palette = p})
=============================================================================
