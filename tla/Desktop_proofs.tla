--------------------------- MODULE Desktop_proofs ---------------------------
(***************************************************************************)
(* The guest's windows and what is drawn in them, for any classes, sizes,  *)
(* capacities and scenes.  However creations, destructions and callbacks   *)
(* nest, a handle names what it named or nothing and nothing refers to a   *)
(* window that is gone (WnInv); and surfaces, contexts and palettes follow *)
(* the windows and what selects them (GdInv, DkInv).  The least element of *)
(* a set (Least, FirstOf) is that of Titles_proofs.                        *)
(***************************************************************************)
EXTENDS Desktop, Titles_proofs

-----------------------------------------------------------------------------
(* The windows.                                                            *)

WnRecord == [handle : Nat, class : Classes \cup {""}, creating : BOOLEAN, visible : BOOLEAN,
             dirty : BOOLEAN, dc : Nat, menu : Nat, size : Nat]
WnTable == [1 .. WindowSlots -> WnRecord]
WnMessage == [window : Nat, kind : Kinds]
WnCreation == [slot : 1 .. WindowSlots, handle : Nat \ {0}, phase : {1, 2}]
WnCursor == [name : Cursors, handle : Nat \ {0}]

\* A slot not in use is empty; one in use has a class and a size.
WnSlots(W) ==
    /\ W \in WnTable
    /\ \A s \in 1 .. WindowSlots : W[s].handle = 0 => W[s] = NoWindow
    /\ \A s \in 1 .. WindowSlots : W[s].handle # 0 => W[s].class \in Classes /\ W[s].size \in Sizes

\* No two objects have the same handle.
WnDistinct(W, C) ==
    /\ \A s, t \in 1 .. WindowSlots : W[s].handle # 0 /\ W[s].handle = W[t].handle => s = t
    /\ \A s, t \in 1 .. WindowSlots : W[s].menu # 0 /\ W[s].menu = W[t].menu => s = t
    /\ \A s, t \in 1 .. WindowSlots : W[s].handle # 0 => W[s].handle # W[t].menu
    /\ \A s \in 1 .. WindowSlots, r \in C : r.handle # W[s].handle /\ r.handle # W[s].menu
    /\ \A r \in C : r.handle # 0
    /\ \A r, q \in C : r.handle = q.handle => r = q

\* The next handle is above them.  Those of a creation under way were not
\* returned yet, and those of the other windows were.
WnBelow(W, C, I, n) ==
    /\ \A s \in 1 .. WindowSlots : W[s].handle < n /\ W[s].menu < n
    /\ \A r \in C : r.handle \in Nat /\ r.handle < n
    /\ I \subseteq Nat \ {0} /\ \A h \in I : h < n
WnHidden(W, I) ==
    \A s \in 1 .. WindowSlots :
        /\ W[s].creating => W[s].handle \notin I /\ W[s].menu \notin I
        /\ W[s].handle # 0 /\ ~W[s].creating => W[s].handle \in I

\* Whoever names a window or a menu, names one that is there.
WnIs(W, h) == h # 0 /\ \E s \in 1 .. WindowSlots : W[s].handle = h /\ ~W[s].creating
WnNames(W, q, f, X) ==
    /\ \A i \in 1 .. Len(q) : WnIs(W, q[i].window)
    /\ f # 0 => WnIs(W, f)
    /\ \A x \in X : x[1] # 0 /\ \E s \in 1 .. WindowSlots : W[s].menu = x[1]
\* The guest names menus it was given.
WnKnown(X, I) == \A x \in X : x[1] \in I
WnClassed(W, K) == \A s \in 1 .. WindowSlots : W[s].handle # 0 => W[s].class \in K

\* The creations under way, innermost last.
WnCreating(W, c) ==
    /\ \A i \in 1 .. Len(c) : W[c[i].slot].creating /\ W[c[i].slot].handle = c[i].handle
    /\ \A i, j \in 1 .. Len(c) : c[i].slot = c[j].slot => i = j
    /\ \A s \in 1 .. WindowSlots : W[s].creating => \E i \in 1 .. Len(c) : c[i].slot = s

WnTypes ==
    /\ scene \in Scenes /\ ended \in BOOLEAN /\ classes \subseteq Classes
    /\ nextObject \in Nat \ {0} /\ nextObject <= scene.objects + 1
    /\ queue \in Seq(WnMessage) /\ Len(queue) <= QueueSlots
    /\ IsFiniteSet(items) /\ Cardinality(items) <= ItemSlots
    /\ creates \in Seq(WnCreation) /\ Len(creates) <= CreateDepth
    /\ inits \in Seq(Nat) /\ Len(inits) <= InitDepth
    /\ pressed \subseteq Buttons /\ IsFiniteSet(cursors) /\ cursors \subseteq WnCursor

\* The inductive invariant of the windows.
WnInv ==
    /\ WnTypes /\ WnSlots(windows) /\ WnDistinct(windows, cursors)
    /\ WnBelow(windows, cursors, issued, nextObject) /\ WnHidden(windows, issued)
    /\ WnNames(windows, queue, focus, items) /\ WnClassed(windows, classes)
    /\ WnCreating(windows, creates) /\ WnKnown(items, issued)

\* What the constants are.
LEMMA WnConstants ==
  /\ MenuClasses \subseteq Classes /\ WindowSlots \in Nat \ {0} /\ QueueSlots \in Nat \ {0}
  /\ ItemSlots \in Nat /\ CreateDepth \in Nat /\ InitDepth \in Nat /\ Sizes \subseteq Nat \ {0}
  /\ \A s \in Scenes : s.objects \in Nat /\ s.classes \subseteq Classes /\ s.handles \in Nat
BY WindowsAssumption, DesktopAssumption

\* The fields of a window.
LEMMA WnFields ==
  ASSUME NEW W, W \in WnTable, NEW s \in 1 .. WindowSlots
  PROVE  /\ W[s] \in WnRecord /\ W[s].handle \in Nat /\ W[s].menu \in Nat /\ W[s].dc \in Nat /\ W[s].size \in Nat
         /\ W[s].creating \in BOOLEAN /\ W[s].visible \in BOOLEAN /\ W[s].dirty \in BOOLEAN
         /\ W[s].class \in Classes \cup {""} /\ DOMAIN W = 1 .. WindowSlots
<1>1. W[s] \in WnRecord /\ DOMAIN W = 1 .. WindowSlots
  BY DEF WnTable
<1> QED
  BY <1>1 DEF WnRecord

LEMMA WnEmpty ==
  /\ NoWindow.handle = 0 /\ NoWindow.creating = FALSE /\ NoWindow.menu = 0 /\ NoWindow.dc = 0
  /\ NoWindow.size = 0 /\ NoWindow.class = "" /\ NoWindow \in WnRecord
BY DEF NoWindow, WnRecord

\* The window of a handle, and its slot.
LEMMA WnFound ==
  ASSUME WnSlots(windows), WnDistinct(windows, cursors), NEW h, IsWindow(h)
  PROVE  /\ Slot(h) \in 1 .. WindowSlots /\ windows[Slot(h)].handle = h /\ h # 0 /\ h \in Nat
         /\ ~windows[Slot(h)].creating /\ Window(h) = windows[Slot(h)] /\ WnIs(windows, h)
<1>1. windows \in WnTable /\ DOMAIN windows = 1 .. WindowSlots
  BY DEF WnSlots, WnTable
<1>2. PICK t \in 1 .. WindowSlots : windows[t].handle = h /\ h # 0 /\ ~windows[t].creating
  BY <1>1 DEF IsWindow
<1>3. Slot(h) \in 1 .. WindowSlots /\ windows[Slot(h)].handle = h
  BY <1>1, <1>2 DEF Slot
<1>4. Slot(h) = t
  BY <1>2, <1>3 DEF WnDistinct
<1>5. h \in Nat
  BY <1>1, <1>2, WnFields
<1> QED
  BY <1>2, <1>3, <1>4, <1>5 DEF Window, WnIs

LEMMA WnIsWindow ==
  ASSUME windows \in WnTable, NEW h
  PROVE  IsWindow(h) <=> WnIs(windows, h)
<1>1. DOMAIN windows = 1 .. WindowSlots
  BY DEF WnTable
<1> QED
  BY <1>1 DEF IsWindow, WnIs

\* The creations.
LEMMA WnCreations ==
  ASSUME NEW c, c \in Seq(WnCreation)
  PROVE  /\ Len(c) \in Nat /\ DOMAIN c = 1 .. Len(c)
         /\ \A i \in 1 .. Len(c) : c[i] \in WnCreation /\ c[i].slot \in 1 .. WindowSlots /\ c[i].handle \in Nat \ {0}
<1>1. Len(c) \in Nat /\ DOMAIN c = 1 .. Len(c) /\ \A i \in 1 .. Len(c) : c[i] \in WnCreation
  BY LenProperties, ElementOfSeq
<1> QED
  BY <1>1 DEF WnCreation

\* A table with the same windows, whatever else of them changed.
WnSame(V, W) ==
    \A s \in 1 .. WindowSlots :
        /\ V[s].handle = W[s].handle /\ V[s].menu = W[s].menu /\ V[s].creating = W[s].creating
        /\ V[s].class = W[s].class
LEMMA WnChanged ==
  ASSUME NEW W, NEW V, WnSame(V, W), NEW C, NEW I, NEW n, NEW q, NEW f, NEW X, NEW K, NEW c, c \in Seq(WnCreation),
         WnDistinct(W, C), WnBelow(W, C, I, n), WnHidden(W, I), WnNames(W, q, f, X), WnClassed(W, K), WnCreating(W, c)
  PROVE  /\ WnDistinct(V, C) /\ WnBelow(V, C, I, n) /\ WnHidden(V, I) /\ WnNames(V, q, f, X)
         /\ WnClassed(V, K) /\ WnCreating(V, c)
<1>1. WnDistinct(V, C)
  BY DEF WnDistinct, WnSame
<1>2. WnBelow(V, C, I, n)
  BY DEF WnBelow, WnSame
<1>3. WnHidden(V, I)
  BY DEF WnHidden, WnSame
<1>4. WnNames(V, q, f, X)
  <2>1. \A h : WnIs(W, h) => WnIs(V, h)
    BY DEF WnIs, WnSame
  <2> QED
    BY <2>1 DEF WnNames, WnSame
<1>5. WnClassed(V, K)
  BY DEF WnClassed, WnSame
<1>6. WnCreating(V, c)
  <2>1. Len(c) \in Nat /\ \A i \in 1 .. Len(c) : c[i].slot \in 1 .. WindowSlots
    BY WnCreations
  <2> QED
    BY <2>1 DEF WnCreating, WnSame
<1> QED
  BY <1>1, <1>2, <1>3, <1>4, <1>5, <1>6

\* All slots but one are the same.
WnElse(V, W, s) == \A t \in 1 .. WindowSlots : t # s => V[t] = W[t]

\* A slot that is emptied.
WnEmpties(V, W, s) == V = [W EXCEPT ![s] = NoWindow]
LEMMA WnEmptied ==
  ASSUME NEW W, WnSlots(W), NEW C, NEW I, NEW n \in Nat \ {0}, NEW K,
         WnDistinct(W, C), WnBelow(W, C, I, n), WnHidden(W, I), WnClassed(W, K),
         NEW s \in 1 .. WindowSlots, NEW V, WnEmpties(V, W, s)
  PROVE  /\ WnSlots(V) /\ WnDistinct(V, C) /\ WnBelow(V, C, I, n) /\ WnHidden(V, I) /\ WnClassed(V, K)
         /\ V[s] = NoWindow /\ WnElse(V, W, s)
<1>1. /\ W \in WnTable /\ V \in WnTable /\ V[s] = NoWindow
      /\ \A t \in 1 .. WindowSlots : t # s => V[t] = W[t]
  BY WnEmpty DEF WnSlots, WnTable, WnEmpties
<1>2. \A t \in 1 .. WindowSlots : W[t].handle \in Nat /\ W[t].menu \in Nat
  BY <1>1, WnFields
<1>3. WnSlots(V)
  BY <1>1, WnEmpty DEF WnSlots
<1>4. \A t \in 1 .. WindowSlots : V[t] = NoWindow \/ V[t] = W[t]
  BY <1>1
<1>5. WnDistinct(V, C)
  <2>1. \A t \in 1 .. WindowSlots : (V[t].handle = 0 \/ V[t].handle = W[t].handle) /\ (V[t].menu = 0 \/ V[t].menu = W[t].menu)
    BY <1>4, WnEmpty
  <2>2. \A t, u \in 1 .. WindowSlots : V[t].handle # 0 /\ V[t].handle = V[u].handle => t = u
    BY <2>1 DEF WnDistinct
  <2>3. \A t, u \in 1 .. WindowSlots : V[t].menu # 0 /\ V[t].menu = V[u].menu => t = u
    BY <2>1 DEF WnDistinct
  <2>4. \A t, u \in 1 .. WindowSlots : V[t].handle # 0 => V[t].handle # V[u].menu
    BY <2>1 DEF WnDistinct
  <2>5. \A t \in 1 .. WindowSlots, r \in C : r.handle # V[t].handle /\ r.handle # V[t].menu
    BY <2>1 DEF WnDistinct
  <2>6. (\A r \in C : r.handle # 0) /\ \A r, r1 \in C : r.handle = r1.handle => r = r1
    BY DEF WnDistinct
  <2> QED
    BY ONLY <2>2, <2>3, <2>4, <2>5, <2>6 DEF WnDistinct
<1>6. WnBelow(V, C, I, n)
  <2>1. \A t \in 1 .. WindowSlots : W[t].handle < n /\ W[t].menu < n
    BY DEF WnBelow
  <2>2. \A t \in 1 .. WindowSlots : V[t].handle < n /\ V[t].menu < n
    <3> SUFFICES ASSUME NEW t \in 1 .. WindowSlots PROVE V[t].handle < n /\ V[t].menu < n
      OBVIOUS
    <3>1. CASE V[t] = NoWindow
      <4>1. V[t].handle = 0 /\ V[t].menu = 0
        BY <3>1, WnEmpty
      <4>2. 0 < n
        OBVIOUS
      <4> QED
        BY <4>1, <4>2
    <3>2. CASE V[t] = W[t]
      BY <2>1, <3>2
    <3> QED
      BY <1>4, <3>1, <3>2
  <2>3. (\A r \in C : r.handle \in Nat /\ r.handle < n) /\ I \subseteq Nat \ {0} /\ \A h \in I : h < n
    BY DEF WnBelow
  <2> QED
    BY <2>2, <2>3 DEF WnBelow
<1>7. WnHidden(V, I)
  BY <1>4, WnEmpty DEF WnHidden
<1>8. WnClassed(V, K)
  BY <1>4, WnEmpty DEF WnClassed
<1> QED
  BY <1>1, <1>3, <1>5, <1>6, <1>7, <1>8 DEF WnElse

\* Of the messages of q, those that are not for h.
WnFrom(p, q, h) == \A i \in 1 .. Len(p) : \E j \in 1 .. Len(q) : p[i] = q[j] /\ q[j].window # h

\* The focus and the menu items once a window is gone.
WnForgets(g, f, Y, X, w) == g = (IF f = w.handle THEN 0 ELSE f) /\ Y = {x \in X : x[1] # w.menu}

\* A window that goes: what names it goes with it, and it was not being created.
LEMMA WnGone ==
  ASSUME NEW W, WnSlots(W), NEW C, NEW I, NEW n \in Nat \ {0}, NEW q, NEW f, NEW X, NEW K, NEW c, c \in Seq(WnCreation),
         WnDistinct(W, C), WnBelow(W, C, I, n), WnHidden(W, I), WnNames(W, q, f, X), WnClassed(W, K), WnCreating(W, c),
         NEW s \in 1 .. WindowSlots, ~W[s].creating, W[s].handle # 0, NEW V, WnEmpties(V, W, s),
         NEW p, WnFrom(p, q, W[s].handle),
         NEW g, NEW Y, WnForgets(g, f, Y, X, W[s])
  PROVE  /\ WnSlots(V) /\ WnDistinct(V, C) /\ WnBelow(V, C, I, n) /\ WnHidden(V, I) /\ WnNames(V, p, g, Y)
         /\ WnClassed(V, K) /\ WnCreating(V, c)
<1>1. /\ WnSlots(V) /\ WnDistinct(V, C) /\ WnBelow(V, C, I, n) /\ WnHidden(V, I) /\ WnClassed(V, K)
      /\ V[s] = NoWindow /\ WnElse(V, W, s)
  BY WnEmptied
<1>2. \A t \in 1 .. WindowSlots : (V[t] = NoWindow \/ V[t] = W[t]) /\ (t # s => V[t] = W[t])
  BY <1>1 DEF WnElse
<1>3. WnCreating(V, c)
  <2>1. Len(c) \in Nat /\ \A i \in 1 .. Len(c) : c[i].slot \in 1 .. WindowSlots
    BY WnCreations
  <2>2. \A i \in 1 .. Len(c) : c[i].slot # s
    BY DEF WnCreating
  <2>3. \A i \in 1 .. Len(c) : V[c[i].slot] = W[c[i].slot]
    BY <1>2, <2>1, <2>2
  <2> QED
    BY <1>2, <2>3, WnEmpty DEF WnCreating
<1>4. \A h : WnIs(W, h) /\ h # W[s].handle => WnIs(V, h)
  <2> SUFFICES ASSUME NEW h, WnIs(W, h), h # W[s].handle PROVE WnIs(V, h)
    OBVIOUS
  <2>1. PICK t \in 1 .. WindowSlots : h # 0 /\ W[t].handle = h /\ ~W[t].creating
    BY DEF WnIs
  <2>2. V[t] = W[t]
    BY <1>2, <2>1
  <2> QED
    BY <2>1, <2>2 DEF WnIs
<1>5. \A i \in 1 .. Len(p) : WnIs(V, p[i].window)
  BY <1>4 DEF WnNames, WnFrom
<1>6. g # 0 => WnIs(V, g)
  BY <1>4 DEF WnNames, WnForgets
<1>7. \A x \in Y : x[1] # 0 /\ \E t \in 1 .. WindowSlots : V[t].menu = x[1]
  <2> SUFFICES ASSUME NEW x \in Y PROVE x[1] # 0 /\ \E t \in 1 .. WindowSlots : V[t].menu = x[1]
    OBVIOUS
  <2>1. x \in X /\ x[1] # W[s].menu
    BY DEF WnForgets
  <2>2. PICK t \in 1 .. WindowSlots : x[1] # 0 /\ W[t].menu = x[1]
    BY <2>1 DEF WnNames
  <2>3. V[t] = W[t]
    BY <1>2, <2>1, <2>2
  <2> QED
    BY <2>2, <2>3
<1>8. WnNames(V, p, g, Y)
  BY <1>5, <1>6, <1>7 DEF WnNames
<1> QED
  BY <1>1, <1>3, <1>8

\* The window of a creation that begins, and the creation.
WnMade(w, n, m, K) ==
    /\ w \in WnRecord /\ w.handle = n /\ w.creating /\ w.class \in K /\ w.class \in Classes /\ w.size \in Sizes
    /\ m \in {n + 1, n + 2} /\ w.menu = IF m = n + 1 THEN 0 ELSE n + 1
WnStarts(V, W, s, w, d, c) ==
    V = [W EXCEPT ![s] = w] /\ d = Append(c, [slot |-> s, handle |-> w.handle, phase |-> 1])

\* A creation that begins, in a slot that is free.
LEMMA WnBegins ==
  ASSUME NEW W, WnSlots(W), NEW C, NEW I, NEW n \in Nat \ {0}, NEW q, NEW f, NEW X, NEW K, NEW c, c \in Seq(WnCreation),
         WnDistinct(W, C), WnBelow(W, C, I, n), WnHidden(W, I), WnNames(W, q, f, X), WnClassed(W, K), WnCreating(W, c),
         NEW s \in 1 .. WindowSlots, W[s].handle = 0, NEW w, NEW m, WnMade(w, n, m, K), NEW V, NEW d, WnStarts(V, W, s, w, d, c)
  PROVE  /\ WnSlots(V) /\ WnDistinct(V, C) /\ WnBelow(V, C, I, m) /\ WnHidden(V, I) /\ WnNames(V, q, f, X)
         /\ WnClassed(V, K) /\ WnCreating(V, d) /\ d \in Seq(WnCreation) /\ Len(d) = Len(c) + 1
<1>0. /\ w.handle = n /\ w.creating /\ w.class \in K /\ w.class \in Classes /\ w.size \in Sizes /\ m \in {n + 1, n + 2}
      /\ w.menu = (IF m = n + 1 THEN 0 ELSE n + 1) /\ d = Append(c, [slot |-> s, handle |-> n, phase |-> 1])
  BY DEF WnMade, WnStarts
<1>1. /\ W \in WnTable /\ V \in WnTable /\ V[s] = w
      /\ \A t \in 1 .. WindowSlots : t # s => V[t] = W[t]
  BY DEF WnSlots, WnTable, WnMade, WnStarts
<1>2. \A t \in 1 .. WindowSlots : W[t].handle \in Nat /\ W[t].menu \in Nat /\ W[t].handle < n /\ W[t].menu < n
  BY <1>1, WnFields DEF WnBelow
<1>3. W[s] = NoWindow
  BY DEF WnSlots
<1>4. WnSlots(V)
  BY <1>0, <1>1 DEF WnSlots
<1>5. /\ V[s].handle = n /\ (V[s].menu = 0 \/ V[s].menu = n + 1) /\ n # 0 /\ n # n + 1
      /\ \A t \in 1 .. WindowSlots : t # s =>
           /\ V[t].handle = W[t].handle /\ V[t].menu = W[t].menu /\ V[t].handle # n /\ V[t].handle # n + 1
           /\ V[t].menu # n /\ V[t].menu # n + 1
  BY <1>0, <1>1, <1>2
<1>6. WnDistinct(V, C)
  <2>1. \A t, u \in 1 .. WindowSlots : V[t].handle # 0 /\ V[t].handle = V[u].handle => t = u
    BY <1>5 DEF WnDistinct
  <2>2. \A t, u \in 1 .. WindowSlots : V[t].menu # 0 /\ V[t].menu = V[u].menu => t = u
    BY <1>5 DEF WnDistinct
  <2>3. \A t, u \in 1 .. WindowSlots : V[t].handle # 0 => V[t].handle # V[u].menu
    BY <1>5 DEF WnDistinct
  <2>4. \A t \in 1 .. WindowSlots, r \in C : r.handle # V[t].handle /\ r.handle # V[t].menu
    <3>1. \A r \in C : r.handle # 0 /\ r.handle < n
      BY DEF WnDistinct, WnBelow
    <3>2. \A r \in C : r.handle # n /\ r.handle # n + 1
      BY <3>1 DEF WnBelow
    <3>3. \A t \in 1 .. WindowSlots, r \in C : r.handle # W[t].handle /\ r.handle # W[t].menu
      BY DEF WnDistinct
    <3> QED
      BY <1>5, <3>1, <3>2, <3>3
  <2>5. (\A r \in C : r.handle # 0) /\ \A r, r1 \in C : r.handle = r1.handle => r = r1
    BY DEF WnDistinct
  <2> QED
    BY ONLY <2>1, <2>2, <2>3, <2>4, <2>5 DEF WnDistinct
<1>7. WnBelow(V, C, I, m)
  <2>1. \A t \in 1 .. WindowSlots : V[t].handle < m /\ V[t].menu < m
    <3>1. w.handle < m /\ w.menu < m /\ n < m
      BY <1>0
    <3>2. \A t \in 1 .. WindowSlots : W[t].handle < m /\ W[t].menu < m
      BY <1>0, <1>2
    <3> QED
      BY <1>1, <3>1, <3>2
  <2>2. (\A r \in C : r.handle \in Nat /\ r.handle < n) /\ I \subseteq Nat \ {0} /\ \A h \in I : h < n
    BY DEF WnBelow
  <2>3. (\A r \in C : r.handle < m) /\ \A h \in I : h < m
    BY <1>0, <2>2
  <2> QED
    BY <2>1, <2>2, <2>3 DEF WnBelow
<1>8. WnHidden(V, I)
  <2>1. n \notin I /\ n + 1 \notin I /\ 0 \notin I
    BY DEF WnBelow
  <2>2. V[s].handle \notin I /\ V[s].menu \notin I
    BY <1>5, <2>1
  <2>3. V[s].creating
    BY <1>0, <1>1
  <2>4. \A t \in 1 .. WindowSlots : V[t].creating => V[t].handle \notin I /\ V[t].menu \notin I
    BY <1>1, <2>2 DEF WnHidden
  <2>5. \A t \in 1 .. WindowSlots : V[t].handle # 0 /\ ~V[t].creating => V[t].handle \in I
    BY <1>1, <2>3 DEF WnHidden
  <2> QED
    BY ONLY <2>4, <2>5 DEF WnHidden
<1>9. WnClassed(V, K)
  BY <1>0, <1>1 DEF WnClassed
<1>10. WnNames(V, q, f, X)
  <2>1. W[s].handle = 0 /\ W[s].menu = 0
    BY <1>3, WnEmpty
  <2>2. \A h : WnIs(W, h) => WnIs(V, h)
    <3> SUFFICES ASSUME NEW h, WnIs(W, h) PROVE WnIs(V, h)
      OBVIOUS
    <3>1. PICK t \in 1 .. WindowSlots : h # 0 /\ W[t].handle = h /\ ~W[t].creating
      BY DEF WnIs
    <3> QED
      BY <1>1, <2>1, <3>1 DEF WnIs
  <2>3. \A x \in X : x[1] # 0 /\ \E t \in 1 .. WindowSlots : V[t].menu = x[1]
    <3> SUFFICES ASSUME NEW x \in X PROVE x[1] # 0 /\ \E t \in 1 .. WindowSlots : V[t].menu = x[1]
      OBVIOUS
    <3>1. PICK t \in 1 .. WindowSlots : x[1] # 0 /\ W[t].menu = x[1]
      BY DEF WnNames
    <3> QED
      BY <1>1, <2>1, <3>1
  <2> QED
    BY <2>2, <2>3 DEF WnNames
<1>11. /\ d \in Seq(WnCreation) /\ Len(d) = Len(c) + 1 /\ d[Len(c) + 1] = [slot |-> s, handle |-> n, phase |-> 1]
       /\ \A i \in 1 .. Len(c) : d[i] = c[i]
  <2>1. [slot |-> s, handle |-> n, phase |-> 1] \in WnCreation
    BY DEF WnCreation
  <2> QED
    BY <1>0, <2>1, AppendProperties
<1>12. WnCreating(V, d)
  <2>1. PICK k \in Nat : k = Len(c)
    BY WnCreations
  <2>2. /\ \A i \in 1 .. k : /\ W[c[i].slot].creating /\ W[c[i].slot].handle = c[i].handle /\ c[i].slot \in 1 .. WindowSlots
                            /\ c[i].handle # 0
        /\ \A i, j \in 1 .. k : c[i].slot = c[j].slot => i = j
        /\ \A t \in 1 .. WindowSlots : W[t].creating => \E i \in 1 .. k : c[i].slot = t
    <3>1. \A i \in 1 .. Len(c) : c[i].slot \in 1 .. WindowSlots /\ c[i].handle # 0
      BY WnCreations
    <3> QED
      BY <2>1, <3>1 DEF WnCreating
  <2>3. \A i \in 1 .. k : c[i].slot # s
    BY <2>2, <1>3, WnEmpty
  <2>4. d[k + 1].slot = s /\ d[k + 1].handle = n /\ \A i \in 1 .. k : d[i] = c[i]
    BY <1>11, <2>1
  <2>5. \A i \in 1 .. k + 1 : i = k + 1 \/ i \in 1 .. k
    BY <2>1
  <2>6. \A i \in 1 .. k : V[c[i].slot] = W[c[i].slot]
    BY <1>1, <2>2, <2>3
  <2>7. \A i \in 1 .. k + 1 : V[d[i].slot].creating /\ V[d[i].slot].handle = d[i].handle
    <3>1. V[d[k + 1].slot].creating /\ V[d[k + 1].slot].handle = d[k + 1].handle
      BY <1>0, <1>1, <2>4
    <3>2. \A i \in 1 .. k : V[d[i].slot].creating /\ V[d[i].slot].handle = d[i].handle
      BY <2>2, <2>4, <2>6
    <3> QED
      BY <2>5, <3>1, <3>2
  <2>8. \A i, j \in 1 .. k + 1 : d[i].slot = d[j].slot => i = j
    <3> SUFFICES ASSUME NEW i \in 1 .. k + 1, NEW j \in 1 .. k + 1, d[i].slot = d[j].slot PROVE i = j
      OBVIOUS
    <3>1. CASE i \in 1 .. k /\ j \in 1 .. k
      <4>1. c[i].slot = c[j].slot
        BY <2>4, <3>1
      <4> QED
        BY <2>2, <3>1, <4>1
    <3>2. CASE i = k + 1 /\ j \in 1 .. k
      BY <2>3, <2>4, <3>2
    <3>3. CASE i \in 1 .. k /\ j = k + 1
      BY <2>3, <2>4, <3>3
    <3> QED
      BY <2>5, <3>1, <3>2, <3>3
  <2>9. \A t \in 1 .. WindowSlots : V[t].creating => \E i \in 1 .. k + 1 : d[i].slot = t
    <3> SUFFICES ASSUME NEW t \in 1 .. WindowSlots, V[t].creating PROVE \E i \in 1 .. k + 1 : d[i].slot = t
      OBVIOUS
    <3>1. CASE t = s
      BY <2>4, <3>1
    <3>2. CASE t # s
      <4>1. PICK i \in 1 .. k : c[i].slot = t
        BY <1>1, <2>2, <3>2
      <4>2. i \in 1 .. k + 1 /\ d[i].slot = t
        BY <2>1, <2>4, <4>1
      <4> QED
        BY <4>2
    <3> QED
      BY <3>1, <3>2
  <2>10. Len(d) = k + 1
    BY <1>11, <2>1
  <2> QED
    BY <2>7, <2>8, <2>9, <2>10 DEF WnCreating
<1> QED
  BY <1>4, <1>6, <1>7, <1>8, <1>9, <1>10, <1>11, <1>12

\* A creation that ends, innermost first.
WnBut(c, d, s) ==
    /\ Len(c) >= 1 /\ Len(d) = Len(c) - 1 /\ d \in Seq(WnCreation) /\ s = c[Len(c)].slot
    /\ \A i \in 1 .. Len(d) : d[i] = c[i]
LEMMA WnFront ==
  ASSUME NEW c, c \in Seq(WnCreation), c # <<>>
  PROVE  WnBut(c, Front(c), Last(c).slot) /\ Last(c) = c[Len(c)] /\ Len(c) \in 1 .. Len(c)
<1>1. PICK k \in Nat : k = Len(c) /\ k >= 1
  BY EmptySeq, LenProperties
<1>2. \A i \in 1 .. k - 1 : c[i] \in WnCreation
  BY <1>1, WnCreations
<1>3. /\ SubSeq(c, 1, k - 1) \in Seq(WnCreation) /\ Len(SubSeq(c, 1, k - 1)) = IF 1 <= k - 1 THEN k - 1 - 1 + 1 ELSE 0
      /\ \A i \in 1 .. k - 1 - 1 + 1 : SubSeq(c, 1, k - 1)[i] = c[1 + i - 1]
  BY <1>1, <1>2, SubSeqProperties
<1>4. PICK d : d = Front(c) /\ d = SubSeq(c, 1, k - 1)
  BY <1>1 DEF Front
<1>5. d \in Seq(WnCreation) /\ Len(d) = k - 1 /\ \A i \in 1 .. k - 1 : d[i] = c[i]
  BY <1>1, <1>3, <1>4
<1>6. Last(c) = c[k]
  BY <1>1 DEF Last
<1> QED
  BY <1>1, <1>4, <1>5, <1>6 DEF WnBut

LEMMA WnEnding ==
  ASSUME NEW W, NEW c, c \in Seq(WnCreation), WnCreating(W, c), NEW d, NEW s, WnBut(c, d, s),
         NEW V, WnElse(V, W, s), ~V[s].creating
  PROVE  WnCreating(V, d)
<1>1. PICK k \in Nat : k = Len(c) /\ k >= 1 /\ Len(d) = k - 1
  BY WnCreations DEF WnBut
<1>2. /\ \A i \in 1 .. k : c[i].slot \in 1 .. WindowSlots /\ W[c[i].slot].creating /\ W[c[i].slot].handle = c[i].handle
      /\ \A i, j \in 1 .. k : c[i].slot = c[j].slot => i = j
      /\ \A t \in 1 .. WindowSlots : W[t].creating => \E i \in 1 .. k : c[i].slot = t
  <2>1. \A i \in 1 .. Len(c) : c[i].slot \in 1 .. WindowSlots
    BY WnCreations
  <2> QED
    BY <1>1, <2>1 DEF WnCreating
<1>3. s = c[k].slot /\ \A i \in 1 .. k - 1 : i \in 1 .. k /\ d[i] = c[i]
  BY <1>1 DEF WnBut
<1>4. k \in 1 .. k /\ \A i \in 1 .. k - 1 : i # k
  BY <1>1
<1>5. \A i \in 1 .. k - 1 : c[i].slot # s
  BY <1>2, <1>3, <1>4
<1>6. \A i \in 1 .. k - 1 : V[d[i].slot].creating /\ V[d[i].slot].handle = d[i].handle
  <2> SUFFICES ASSUME NEW i \in 1 .. k - 1 PROVE V[d[i].slot].creating /\ V[d[i].slot].handle = d[i].handle
    OBVIOUS
  <2>1. i \in 1 .. k /\ d[i] = c[i] /\ c[i].slot # s
    BY <1>3, <1>5
  <2>2. c[i].slot \in 1 .. WindowSlots /\ W[c[i].slot].creating /\ W[c[i].slot].handle = c[i].handle
    BY <1>2, <2>1
  <2>3. V[c[i].slot] = W[c[i].slot]
    BY <2>1, <2>2 DEF WnElse
  <2> QED
    BY <2>1, <2>2, <2>3
<1>7. \A i, j \in 1 .. k - 1 : d[i].slot = d[j].slot => i = j
  BY <1>2, <1>3
<1>8. \A t \in 1 .. WindowSlots : V[t].creating => \E i \in 1 .. k - 1 : d[i].slot = t
  <2> SUFFICES ASSUME NEW t \in 1 .. WindowSlots, V[t].creating PROVE \E i \in 1 .. k - 1 : d[i].slot = t
    OBVIOUS
  <2>1. t # s /\ W[t].creating
    BY DEF WnElse
  <2>2. PICK i \in 1 .. k : c[i].slot = t
    BY <1>2, <2>1
  <2>3. i # k
    BY <1>3, <2>1, <2>2
  <2>4. i \in 1 .. k - 1
    BY <1>1, <2>3
  <2> QED
    BY <1>3, <2>2, <2>4
<1> QED
  BY <1>1, <1>6, <1>7, <1>8 DEF WnCreating

\* The window that is ready, and the handles given out.
WnOpens(V, W, s, J, I) ==
    V = [W EXCEPT ![s].creating = FALSE] /\ J = (I \cup {W[s].handle, W[s].menu}) \ {0}

\* A creation accepted: its handles are given out.
LEMMA WnAccepted ==
  ASSUME NEW W, WnSlots(W), NEW C, NEW I, NEW n, NEW q, NEW f, NEW X, NEW K, NEW c, c \in Seq(WnCreation),
         WnDistinct(W, C), WnBelow(W, C, I, n), WnHidden(W, I), WnNames(W, q, f, X), WnClassed(W, K), WnCreating(W, c),
         NEW d, NEW s \in 1 .. WindowSlots, WnBut(c, d, s), NEW V, NEW J, WnOpens(V, W, s, J, I)
  PROVE  /\ WnSlots(V) /\ WnDistinct(V, C) /\ WnBelow(V, C, J, n) /\ WnHidden(V, J) /\ WnNames(V, q, f, X)
         /\ WnClassed(V, K) /\ WnCreating(V, d)
<1>1. W \in WnTable
  BY DEF WnSlots
<1>2. /\ V \in WnTable /\ V[s] = [W[s] EXCEPT !.creating = FALSE]
      /\ \A t \in 1 .. WindowSlots : t # s => V[t] = W[t]
  BY <1>1 DEF WnTable, WnRecord, WnOpens
<1>3. ~V[s].creating /\ V[s].handle = W[s].handle /\ V[s].menu = W[s].menu /\ V[s].class = W[s].class /\ V[s].size = W[s].size
  <2>1. W[s] \in WnRecord
    BY <1>1, WnFields
  <2>2. PICK w \in WnRecord : w = W[s]
    BY <2>1
  <2>3. V[s] = [w EXCEPT !.creating = FALSE]
    BY <1>2, <2>2
  <2>4. V[s].handle = w.handle /\ V[s].menu = w.menu
    <3>1. [w EXCEPT !.creating = FALSE].handle = w.handle
      BY DEF WnRecord
    <3>2. [w EXCEPT !.creating = FALSE].menu = w.menu
      BY DEF WnRecord
    <3> QED
      BY <2>3, <3>1, <3>2
  <2>5. V[s].class = w.class /\ V[s].size = w.size
    BY <2>3 DEF WnRecord
  <2>6. V[s].creating = FALSE
    BY <2>3 DEF WnRecord
  <2> QED
    BY <2>2, <2>4, <2>5, <2>6
<1>4. W[s].creating /\ W[s].handle # 0
  <2>1. Len(c) \in 1 .. Len(c) /\ s = c[Len(c)].slot /\ c[Len(c)].handle # 0
    BY WnCreations DEF WnBut
  <2> QED
    BY <2>1 DEF WnCreating
<1>5. \A t \in 1 .. WindowSlots : V[t].handle = W[t].handle /\ V[t].menu = W[t].menu /\ V[t].class = W[t].class
                                /\ V[t].size = W[t].size /\ (V[t].creating => W[t].creating /\ t # s)
                                /\ (~W[t].creating => ~V[t].creating)
  BY <1>2, <1>3
<1>6. WnSlots(V)
  BY <1>2, <1>4, <1>5 DEF WnSlots
<1>7. WnDistinct(V, C)
  BY <1>5 DEF WnDistinct
<1>8. WnBelow(V, C, J, n)
  <2>1. \A h \in J : h \in Nat \ {0} /\ h < n
    <3>1. W[s].handle \in Nat /\ W[s].menu \in Nat /\ W[s].handle < n /\ W[s].menu < n
      BY <1>1, WnFields DEF WnBelow
    <3>2. \A h \in I : h \in Nat \ {0} /\ h < n
      BY DEF WnBelow
    <3> QED
      BY <3>1, <3>2 DEF WnOpens
  <2>2. \A t \in 1 .. WindowSlots : V[t].handle < n /\ V[t].menu < n
    BY <1>5 DEF WnBelow
  <2>3. \A r \in C : r.handle \in Nat /\ r.handle < n
    BY DEF WnBelow
  <2> QED
    BY <2>1, <2>2, <2>3 DEF WnBelow
<1>9. WnHidden(V, J)
  <2>1. ASSUME NEW t \in 1 .. WindowSlots, V[t].creating PROVE V[t].handle \notin J /\ V[t].menu \notin J
    <3>1. t # s /\ W[t].creating /\ W[t].handle \notin I /\ W[t].menu \notin I
      BY <1>5, <2>1 DEF WnHidden
    <3>2. W[t].handle # 0
      BY <3>1, WnEmpty DEF WnSlots
    <3>3. W[t].handle # W[s].handle /\ W[t].handle # W[s].menu /\ W[s].handle # W[t].menu
      BY <1>4, <3>1, <3>2 DEF WnDistinct
    <3>4. W[t].menu # 0 => W[t].menu # W[s].menu
      BY <3>1 DEF WnDistinct
    <3> QED
      BY <1>5, <3>1, <3>3, <3>4 DEF WnOpens
  <2>2. ASSUME NEW t \in 1 .. WindowSlots, V[t].handle # 0, ~V[t].creating PROVE V[t].handle \in J
    <3>1. CASE t = s
      BY <1>5, <2>2, <3>1 DEF WnOpens
    <3>2. CASE t # s
      <4>1. V[t] = W[t]
        BY <1>2, <3>2
      <4> QED
        BY <2>2, <4>1 DEF WnOpens, WnHidden
    <3> QED
      BY <3>1, <3>2
  <2> QED
    BY ONLY <2>1, <2>2 DEF WnHidden
<1>10. WnNames(V, q, f, X)
  <2>1. \A h : WnIs(W, h) => WnIs(V, h)
    BY <1>5 DEF WnIs
  <2>2. (\A i \in 1 .. Len(q) : WnIs(V, q[i].window)) /\ (f # 0 => WnIs(V, f))
    BY <2>1 DEF WnNames
  <2>3. \A x \in X : x[1] # 0 /\ \E t \in 1 .. WindowSlots : V[t].menu = x[1]
    BY <1>5 DEF WnNames
  <2> QED
    BY <2>2, <2>3 DEF WnNames
<1>11. WnClassed(V, K)
  BY <1>5 DEF WnClassed
<1>12. WnCreating(V, d)
  <2>1. WnElse(V, W, s)
    BY <1>2 DEF WnElse
  <2> QED
    BY <1>3, <2>1, WnEnding
<1> QED
  BY <1>6, <1>7, <1>8, <1>9, <1>10, <1>11, <1>12

\* The next handle once those of a refused creation are given back.
LEMMA WnNumbers ==
  ASSUME NEW w, w.handle \in Nat \ {0}, w.menu \in Nat, NEW n \in Nat \ {0}, w.handle < n, w.menu < n
  PROVE  /\ Unnumbered(n, w) \in Nat \ {0} /\ Unnumbered(n, w) <= n
         /\ \A h \in Nat : h < n /\ h # w.handle /\ (w.menu # 0 => h # w.menu) => h < Unnumbered(n, w)
<1>1. PICK x \in Nat \ {0}, y \in Nat : x = w.handle /\ y = w.menu /\ x < n /\ y < n
  OBVIOUS
<1>2. PICK a : a = IF y # 0 /\ y + 1 = n THEN n - 1 ELSE n
  OBVIOUS
<1>3. Unnumbered(n, w) = IF x + 1 = a THEN a - 1 ELSE a
  BY <1>1, <1>2 DEF Unnumbered
<1>4. a \in Nat \ {0} /\ a <= n /\ \A h \in Nat : h < n /\ (y # 0 => h # y) => h < a
  BY <1>1, <1>2
<1>5. PICK b : b = IF x + 1 = a THEN a - 1 ELSE a
  OBVIOUS
<1>6. b \in Nat \ {0} /\ b <= a /\ \A h \in Nat : h < a /\ h # x => h < b
  BY <1>1, <1>4, <1>5
<1>7. b <= n
  BY <1>4, <1>6
<1>8. \A h \in Nat : h < n /\ h # x /\ (y # 0 => h # y) => h < b
  BY <1>4, <1>6
<1> QED
  BY <1>1, <1>3, <1>5, <1>6, <1>7, <1>8

\* A creation refused.
LEMMA WnRefused ==
  ASSUME NEW W, WnSlots(W), NEW C, NEW I, NEW n \in Nat \ {0}, NEW q, NEW f, NEW X, NEW K, NEW c, c \in Seq(WnCreation),
         WnDistinct(W, C), WnBelow(W, C, I, n), WnHidden(W, I), WnNames(W, q, f, X), WnClassed(W, K), WnCreating(W, c),
         WnKnown(X, I),
         NEW d, NEW s \in 1 .. WindowSlots, WnBut(c, d, s), NEW V, WnEmpties(V, W, s),
         NEW m, m = Unnumbered(n, W[s])
  PROVE  /\ WnSlots(V) /\ WnDistinct(V, C) /\ WnBelow(V, C, I, m) /\ WnHidden(V, I) /\ WnNames(V, q, f, X)
         /\ WnClassed(V, K) /\ WnCreating(V, d) /\ m \in Nat \ {0} /\ m <= n
<1>1. /\ WnSlots(V) /\ WnDistinct(V, C) /\ WnBelow(V, C, I, n) /\ WnHidden(V, I) /\ WnClassed(V, K)
      /\ V[s] = NoWindow /\ WnElse(V, W, s)
  BY WnEmptied
<1>2. \A t \in 1 .. WindowSlots : (V[t] = NoWindow \/ V[t] = W[t]) /\ (t # s => V[t] = W[t])
  BY <1>1 DEF WnElse
<1>3. W[s].creating /\ W[s].handle \in Nat \ {0} /\ W[s].menu \in Nat /\ W[s].handle < n /\ W[s].menu < n
  <2>1. Len(c) \in 1 .. Len(c) /\ s = c[Len(c)].slot /\ c[Len(c)].handle # 0
    BY WnCreations DEF WnBut
  <2>2. W[s].creating /\ W[s].handle # 0
    BY <2>1 DEF WnCreating
  <2>3. W[s].handle \in Nat /\ W[s].menu \in Nat
    BY WnFields DEF WnSlots
  <2> QED
    BY <2>2, <2>3 DEF WnBelow
<1>4. /\ m \in Nat \ {0} /\ m <= n
      /\ \A h \in Nat : h < n /\ h # W[s].handle /\ (W[s].menu # 0 => h # W[s].menu) => h < m
  BY <1>3, WnNumbers
<1>5. WnBelow(V, C, I, m)
  <2>1. \A t \in 1 .. WindowSlots : V[t].handle < m /\ V[t].menu < m
    <3> SUFFICES ASSUME NEW t \in 1 .. WindowSlots PROVE V[t].handle < m /\ V[t].menu < m
      OBVIOUS
    <3>1. CASE t = s
      <4>1. V[t].handle = 0 /\ V[t].menu = 0
        BY <1>1, <3>1, WnEmpty
      <4>2. 0 < m
        BY <1>4
      <4> QED
        BY <4>1, <4>2
    <3>2. CASE t # s
      <4>1. /\ W[t].handle \in Nat /\ W[t].menu \in Nat /\ W[t].handle < n /\ W[t].menu < n /\ V[t] = W[t]
        BY <1>2, <3>2, WnFields DEF WnSlots, WnBelow
      <4>2. W[t].handle # W[s].handle /\ (W[s].menu # 0 => W[t].menu # W[s].menu) /\ W[t].menu # W[s].handle
        BY <1>3, <3>2 DEF WnDistinct
      <4>3. W[s].menu # 0 => W[t].handle # W[s].menu
        BY DEF WnDistinct
      <4> QED
        BY <1>4, <4>1, <4>2, <4>3
    <3> QED
      BY <3>1, <3>2
  <2>2. \A r \in C : r.handle \in Nat /\ r.handle < m
    <3> SUFFICES ASSUME NEW r \in C PROVE r.handle \in Nat /\ r.handle < m
      OBVIOUS
    <3>1. r.handle \in Nat /\ r.handle < n
      BY DEF WnBelow
    <3>2. r.handle # W[s].handle /\ r.handle # W[s].menu
      BY DEF WnDistinct
    <3> QED
      BY <1>4, <3>1, <3>2
  <2>3. \A h \in I : h \in Nat \ {0} /\ h < m
    <3> SUFFICES ASSUME NEW h \in I PROVE h \in Nat \ {0} /\ h < m
      OBVIOUS
    <3>1. h \in Nat \ {0} /\ h < n
      BY DEF WnBelow
    <3>2. h # W[s].handle /\ h # W[s].menu
      BY <1>3 DEF WnHidden
    <3> QED
      BY <1>4, <3>1, <3>2
  <2> QED
    BY <2>1, <2>2, <2>3 DEF WnBelow
<1>6. WnNames(V, q, f, X)
  <2>1. \A h : WnIs(W, h) => WnIs(V, h)
    <3> SUFFICES ASSUME NEW h, WnIs(W, h) PROVE WnIs(V, h)
      OBVIOUS
    <3>1. PICK t \in 1 .. WindowSlots : h # 0 /\ W[t].handle = h /\ ~W[t].creating
      BY DEF WnIs
    <3>2. V[t] = W[t]
      BY <1>2, <1>3, <3>1
    <3> QED
      BY <3>1, <3>2 DEF WnIs
  <2>2. (\A i \in 1 .. Len(q) : WnIs(V, q[i].window)) /\ (f # 0 => WnIs(V, f))
    BY <2>1 DEF WnNames
  <2>3. \A x \in X : x[1] # 0 /\ \E t \in 1 .. WindowSlots : V[t].menu = x[1]
    <3> SUFFICES ASSUME NEW x \in X PROVE x[1] # 0 /\ \E t \in 1 .. WindowSlots : V[t].menu = x[1]
      OBVIOUS
    <3>1. PICK t \in 1 .. WindowSlots : x[1] # 0 /\ W[t].menu = x[1]
      BY DEF WnNames
    <3>2. t # s
      BY <1>3, <3>1 DEF WnHidden, WnKnown
    <3> QED
      BY <1>2, <3>1, <3>2
  <2> QED
    BY <2>2, <2>3 DEF WnNames
<1>7. WnCreating(V, d)
  <2>1. ~V[s].creating
    BY <1>1, WnEmpty
  <2> QED
    BY <1>1, <2>1, WnEnding
<1> QED
  BY <1>1, <1>4, <1>5, <1>6, <1>7

\* The messages that a loop over a queue keeps.
WnKeeps(q, h, n, K) ==
    K = [i \in 0 .. n |-> IF i = 0 THEN <<>> ELSE IF q[i].window = h THEN K[i - 1] ELSE Append(K[i - 1], q[i])]
LEMMA WnKeepsOn ==
  ASSUME NEW q, NEW h, NEW n \in Nat
  PROVE  \E K : WnKeeps(q, h, n, K)
<1> DEFINE T == {m \in Nat : ~\E K : WnKeeps(q, h, m, K)}
<1>1. T = {}
  <2> SUFFICES ASSUME T # {} PROVE FALSE
    OBVIOUS
  <2>1. PICK m \in T : \A l \in T : m <= l
    <3>1. T \in SUBSET Nat
      OBVIOUS
    <3> QED
      BY <3>1, Least
  <2>2. m # 0
    <3> DEFINE E == [i \in 0 .. 0 |-> <<>>]
    <3>1. E = [i \in 0 .. 0 |-> IF i = 0 THEN <<>> ELSE IF q[i].window = h THEN E[i - 1] ELSE Append(E[i - 1], q[i])]
      OBVIOUS
    <3>2. WnKeeps(q, h, 0, E)
      <4> HIDE DEF E
      <4> QED
        BY <3>1 DEF WnKeeps
    <3> HIDE DEF E
    <3> QED
      BY <2>1, <3>2
  <2>3. PICK l \in Nat : m = l + 1
    BY <2>1, <2>2
  <2>4. PICK K : WnKeeps(q, h, l, K)
    BY <2>1, <2>3
  <2> DEFINE next == IF q[m].window = h THEN K[l] ELSE Append(K[l], q[m])
             G == [i \in 0 .. m |-> IF i = m THEN next ELSE K[i]]
  <2>5. \A i \in 0 .. l : K[i] = IF i = 0 THEN <<>> ELSE IF q[i].window = h THEN K[i - 1] ELSE Append(K[i - 1], q[i])
    <3>1. K = [i \in 0 .. l |-> IF i = 0 THEN <<>> ELSE IF q[i].window = h THEN K[i - 1] ELSE Append(K[i - 1], q[i])]
      BY <2>4 DEF WnKeeps
    <3> QED
      BY <3>1
  <2>6. G[m] = next /\ (\A i \in 0 .. l : G[i] = K[i]) /\ G[m - 1] = K[l]
    <3>1. m \in 0 .. m /\ (\A i \in 0 .. l : i \in 0 .. m /\ i # m) /\ m - 1 = l
      BY <2>3
    <3> QED
      BY <3>1, <2>3
  <2>7. \A i \in 0 .. m : G[i] = IF i = 0 THEN <<>> ELSE IF q[i].window = h THEN G[i - 1] ELSE Append(G[i - 1], q[i])
    <3> SUFFICES ASSUME NEW i \in 0 .. m
                 PROVE  G[i] = IF i = 0 THEN <<>> ELSE IF q[i].window = h THEN G[i - 1] ELSE Append(G[i - 1], q[i])
      OBVIOUS
    <3>1. CASE i = m
      <4> HIDE DEF G
      <4> QED
        BY <2>2, <2>6, <3>1
    <3>2. CASE i = 0
      <4> HIDE DEF G
      <4> QED
        BY <2>2, <2>3, <2>5, <2>6, <3>2
    <3>3. CASE i # m /\ i # 0
      <4>1. i \in 0 .. l /\ i - 1 \in 0 .. l
        BY <2>3, <3>3
      <4>2. G[i] = K[i] /\ G[i - 1] = K[i - 1]
        BY <2>6, <4>1
      <4>3. K[i] = IF q[i].window = h THEN K[i - 1] ELSE Append(K[i - 1], q[i])
        BY <2>5, <3>3, <4>1
      <4> HIDE DEF G
      <4> QED
        BY <3>3, <4>2, <4>3
    <3> QED
      BY <3>1, <3>2, <3>3
  <2>8. G = [i \in 0 .. m |-> IF i = 0 THEN <<>> ELSE IF q[i].window = h THEN G[i - 1] ELSE Append(G[i - 1], q[i])]
    <3>1. G = [i \in 0 .. m |-> G[i]]
      OBVIOUS
    <3> HIDE DEF G
    <3> QED
      BY <2>7, <3>1
  <2>9. WnKeeps(q, h, m, G)
    <3> HIDE DEF G
    <3> QED
      BY <2>8 DEF WnKeeps
  <2> HIDE DEF G
  <2> QED
    BY <2>1, <2>9
<1> QED
  BY <1>1

\* What is kept are the messages of the others.
LEMMA WnOthers ==
  ASSUME NEW h, queue \in Seq(WnMessage)
  PROVE  /\ Others(h) \in Seq(WnMessage) /\ Len(Others(h)) <= Len(queue) /\ WnFrom(Others(h), queue, h)
<1>1. PICK n \in Nat : n = Len(queue)
  BY LenProperties
<1>2. \E K : WnKeeps(queue, h, n, K)
  BY WnKeepsOn
<1>3. Others(h) = (CHOOSE K : WnKeeps(queue, h, n, K))[n]
  BY <1>1 DEF Others, WnKeeps
<1>4. PICK K : WnKeeps(queue, h, n, K) /\ Others(h) = K[n]
  BY <1>2, <1>3
<1>5. \A i \in 0 .. n : K[i] = IF i = 0 THEN <<>> ELSE IF queue[i].window = h THEN K[i - 1] ELSE Append(K[i - 1], queue[i])
  <2>1. K = [i \in 0 .. n |-> IF i = 0 THEN <<>> ELSE IF queue[i].window = h THEN K[i - 1] ELSE Append(K[i - 1], queue[i])]
    BY <1>4 DEF WnKeeps
  <2> QED
    BY <2>1
<1> DEFINE Good(m) == K[m] \in Seq(WnMessage) /\ Len(K[m]) <= m /\ WnFrom(K[m], queue, h)
           T == {m \in 0 .. n : ~Good(m)}
<1>6. T = {}
  <2> SUFFICES ASSUME T # {} PROVE FALSE
    OBVIOUS
  <2>1. PICK m \in T : \A l \in T : m <= l
    <3>1. T \in SUBSET Nat
      OBVIOUS
    <3> QED
      BY <3>1, Least
  <2>2. Good(0)
    <3>1. K[0] = <<>>
      BY <1>5
    <3> QED
      BY <3>1, EmptySeq DEF WnFrom
  <2>3. m # 0
    BY <2>1, <2>2
  <2>4. PICK l \in 0 .. n : m = l + 1
    <3>1. m - 1 \in 0 .. n /\ m = (m - 1) + 1
      BY <2>1, <2>3
    <3> QED
      BY <3>1
  <2>5. Good(l)
    BY <2>1, <2>4
  <2>6. K[m] = IF queue[m].window = h THEN K[l] ELSE Append(K[l], queue[m])
    BY <1>5, <2>1, <2>3, <2>4
  <2>7. PICK s \in Seq(WnMessage) : s = K[l] /\ Len(s) \in Nat /\ Len(s) <= l /\ WnFrom(s, queue, h)
    BY <2>5, LenProperties
  <2>8. CASE queue[m].window = h
    <3>1. K[m] = s
      BY <2>6, <2>7, <2>8
    <3>2. Good(m)
      BY <2>4, <2>7, <3>1
    <3> QED
      BY <2>1, <3>2
  <2>9. CASE queue[m].window # h
    <3>1. K[m] = Append(s, queue[m])
      BY <2>6, <2>7, <2>9
    <3>2. m \in 1 .. Len(queue) /\ queue[m] \in WnMessage
      BY <1>1, <2>1, <2>3, ElementOfSeq
    <3>3. PICK r : r = Append(s, queue[m])
      OBVIOUS
    <3>4. /\ r \in Seq(WnMessage) /\ Len(r) = Len(s) + 1 /\ r[Len(s) + 1] = queue[m]
          /\ \A i \in 1 .. Len(s) : r[i] = s[i]
      BY <2>7, <3>2, <3>3, AppendProperties
    <3>5. WnFrom(r, queue, h)
      <4> SUFFICES ASSUME NEW i \in 1 .. Len(r) PROVE \E j \in 1 .. Len(queue) : r[i] = queue[j] /\ queue[j].window # h
        BY DEF WnFrom
      <4>1. CASE i = Len(s) + 1
        BY <2>9, <3>2, <3>4, <4>1
      <4>2. CASE i # Len(s) + 1
        <5>1. i \in 1 .. Len(s) /\ r[i] = s[i]
          BY <2>7, <3>4, <4>2, SMTT(20)
        <5> QED
          BY <2>7, <5>1 DEF WnFrom
      <4> QED
        BY <4>1, <4>2
    <3>6. Len(r) <= m
      BY <2>4, <2>7, <3>4
    <3>7. Good(m)
      BY <3>1, <3>3, <3>4, <3>5, <3>6
    <3> QED
      BY <2>1, <3>7
  <2> QED
    BY <2>8, <2>9
<1>7. Good(n)
  BY <1>6
<1> QED
  BY <1>1, <1>4, <1>7

-----------------------------------------------------------------------------
(* One lemma for each call.                                                *)

\* What most calls leave alone.
WnStill == windows' = windows /\ nextObject' = nextObject /\ cursors' = cursors /\ issued' = issued
WnStays ==
    /\ scene' = scene /\ classes' = classes /\ items' = items /\ creates' = creates /\ inits' = inits
    /\ pressed' = pressed /\ focus' = focus

\* A window that changes, but for its names, its class and its being created.
WnEdited(V, W, s, v) ==
    /\ V = [W EXCEPT ![s] = v] /\ v \in WnRecord /\ v.size \in Sizes
    /\ v.handle = W[s].handle /\ v.menu = W[s].menu /\ v.creating = W[s].creating /\ v.class = W[s].class

LEMMA WnEdits ==
  ASSUME NEW W, WnSlots(W), NEW s \in 1 .. WindowSlots, W[s].handle # 0, NEW v, NEW V, WnEdited(V, W, s, v)
  PROVE  WnSlots(V) /\ WnSame(V, W)
<1>1. /\ W \in WnTable /\ V \in WnTable /\ V[s] = v
      /\ \A t \in 1 .. WindowSlots : t # s => V[t] = W[t]
  BY DEF WnSlots, WnTable, WnEdited
<1>2. WnSame(V, W)
  BY <1>1 DEF WnSame, WnEdited
<1>3. W[s].class \in Classes
  BY DEF WnSlots
<1>4. V[s].handle # 0 /\ V[s].class \in Classes /\ V[s].size \in Sizes
  BY <1>1, <1>3 DEF WnEdited
<1>5. WnSlots(V)
  BY <1>1, <1>4 DEF WnSlots
<1> QED
  BY <1>2, <1>5

\* A call that at most changes such a window, and the queue.
LEMMA WnEditing ==
  ASSUME WnInv, NEW s \in 1 .. WindowSlots, windows[s].handle # 0, NEW v, WnEdited(windows', windows, s, v),
         WnStays, nextObject' = nextObject, cursors' = cursors, issued' = issued, ended' = ended,
         queue' \in Seq(WnMessage), Len(queue') <= QueueSlots, \A i \in 1 .. Len(queue') : WnIs(windows, queue'[i].window)
  PROVE  WnInv'
<1>1. WnSlots(windows') /\ WnSame(windows', windows)
  BY WnEdits DEF WnInv
<1>2. creates \in Seq(WnCreation)
  BY DEF WnInv, WnTypes
<1>3. /\ WnDistinct(windows', cursors) /\ WnBelow(windows', cursors, issued, nextObject) /\ WnHidden(windows', issued)
      /\ WnNames(windows', queue', focus, items) /\ WnClassed(windows', classes) /\ WnCreating(windows', creates)
  <2>1. WnNames(windows, queue', focus, items)
    BY DEF WnInv, WnNames
  <2> QED
    BY <1>1, <1>2, <2>1, WnChanged DEF WnInv
<1>4. WnTypes'
  BY DEF WnInv, WnTypes, WnStays
<1> QED
  BY <1>1, <1>3, <1>4 DEF WnInv, WnStays

\* A call that changes no window: the queue, the focus, what is pressed and the
\* functions of _initterm may.
LEMMA WnResting ==
  ASSUME WnInv, WnStill, scene' = scene, ended' \in BOOLEAN, classes' = classes, items' = items, creates' = creates,
         queue' \in Seq(WnMessage), Len(queue') <= QueueSlots, \A i \in 1 .. Len(queue') : WnIs(windows, queue'[i].window),
         focus' # 0 => WnIs(windows, focus'), pressed' \subseteq Buttons,
         inits' \in Seq(Nat), Len(inits') <= InitDepth
  PROVE  WnInv'
<1>1. WnTypes'
  BY DEF WnInv, WnTypes, WnStill
<1>2. WnNames(windows, queue', focus', items)
  BY DEF WnInv, WnNames
<1> QED
  BY <1>1, <1>2 DEF WnInv, WnStill

\* The queue as it is.
LEMMA WnQueue ==
  ASSUME WnInv
  PROVE  /\ queue \in Seq(WnMessage) /\ Len(queue) \in Nat /\ Len(queue) <= QueueSlots /\ DOMAIN queue = 1 .. Len(queue)
         /\ \A i \in 1 .. Len(queue) : WnIs(windows, queue[i].window)
         /\ focus # 0 => WnIs(windows, focus)
         /\ pressed \subseteq Buttons /\ inits \in Seq(Nat) /\ Len(inits) <= InitDepth /\ windows \in WnTable
         /\ ended \in BOOLEAN
<1>1. queue \in Seq(WnMessage)
  BY DEF WnInv, WnTypes
<1>2. Len(queue) \in Nat /\ DOMAIN queue = 1 .. Len(queue)
  BY <1>1, LenProperties
<1> QED
  BY <1>1, <1>2 DEF WnInv, WnTypes, WnNames, WnSlots

\* A message for a window that is there.
LEMMA WnPosted ==
  ASSUME WnInv, NEW h \in Nat, WnIs(windows, h), NEW k \in Kinds, Len(queue) < QueueSlots,
         NEW q, q = Append(queue, [window |-> h, kind |-> k])
  PROVE  q \in Seq(WnMessage) /\ Len(q) <= QueueSlots /\ \A i \in 1 .. Len(q) : WnIs(windows, q[i].window)
<1>1. [window |-> h, kind |-> k] \in WnMessage /\ [window |-> h, kind |-> k].window = h
  BY DEF WnMessage
<1>2. PICK m \in WnMessage : m = [window |-> h, kind |-> k] /\ m.window = h
  BY <1>1
<1>3. /\ q \in Seq(WnMessage) /\ Len(q) = Len(queue) + 1 /\ q[Len(queue) + 1] = m
      /\ \A i \in 1 .. Len(queue) : q[i] = queue[i]
  BY <1>2, WnQueue, AppendProperties
<1>4. Len(q) <= QueueSlots
  BY <1>3, WnQueue, WnConstants
<1>5. \A i \in 1 .. Len(q) : WnIs(windows, q[i].window)
  <2> SUFFICES ASSUME NEW i \in 1 .. Len(q) PROVE WnIs(windows, q[i].window)
    OBVIOUS
  <2>1. CASE i = Len(queue) + 1
    BY <1>2, <1>3, <2>1
  <2>2. CASE i # Len(queue) + 1
    <3>1. i \in 1 .. Len(queue)
      BY <1>3, <2>2, WnQueue
    <3> QED
      BY <1>3, <3>1, WnQueue
  <2> QED
    BY <2>1, <2>2
<1> QED
  BY <1>3, <1>4, <1>5

LEMMA WnHandles ==
  ASSUME WnInv, NEW h, IsWindow(h)
  PROVE  /\ Slot(h) \in 1 .. WindowSlots /\ windows[Slot(h)].handle = h /\ h # 0 /\ h \in Nat
         /\ ~windows[Slot(h)].creating /\ Window(h) = windows[Slot(h)] /\ WnIs(windows, h)
         /\ windows[Slot(h)] \in WnRecord /\ windows[Slot(h)].size \in Sizes /\ windows[Slot(h)].class \in Classes
<1>1. /\ Slot(h) \in 1 .. WindowSlots /\ windows[Slot(h)].handle = h /\ h # 0 /\ h \in Nat
      /\ ~windows[Slot(h)].creating /\ Window(h) = windows[Slot(h)] /\ WnIs(windows, h)
  BY WnFound DEF WnInv
<1> QED
  BY <1>1 DEF WnInv, WnSlots, WnTable

LEMMA WnPostMessage == ASSUME WnInv, NEW h, PostMessage(h) PROVE WnInv'
<1>1. h \in Nat /\ WnIs(windows, h) /\ Len(queue) < QueueSlots
  BY WnHandles DEF PostMessage
<1>2. queue' = Append(queue, [window |-> h, kind |-> "post"]) /\ "post" \in Kinds
  BY DEF PostMessage, Kinds
<1>3. /\ queue' \in Seq(WnMessage) /\ Len(queue') <= QueueSlots
      /\ \A i \in 1 .. Len(queue') : WnIs(windows, queue'[i].window)
  BY <1>1, <1>2, WnPosted
<1> QED
  BY <1>3, WnQueue, WnResting DEF PostMessage, records, WnStill

LEMMA WnWaitMessage == ASSUME WnInv, NEW h, WaitMessage(h) PROVE WnInv'
<1>1. h \in Nat /\ WnIs(windows, h) /\ Len(queue) < QueueSlots
  BY WnHandles DEF WaitMessage
<1>2. queue' = Append(queue, [window |-> h, kind |-> "focus"]) /\ "focus" \in Kinds
  BY DEF WaitMessage, Kinds
<1>3. /\ queue' \in Seq(WnMessage) /\ Len(queue') <= QueueSlots
      /\ \A i \in 1 .. Len(queue') : WnIs(windows, queue'[i].window)
  BY <1>1, <1>2, WnPosted
<1> QED
  BY <1>3, WnQueue, WnResting DEF WaitMessage, records, WnStill

LEMMA WnSetFocus == ASSUME WnInv, NEW h, SetFocus(h) PROVE WnInv'
<1>1. WnIs(windows, focus')
  BY WnHandles DEF SetFocus
<1> QED
  BY <1>1, WnQueue, WnResting DEF SetFocus, records, WnStill

LEMMA WnPostQuit == ASSUME WnInv, PostQuit PROVE WnInv'
BY WnQueue, WnResting DEF PostQuit, records, WnStill

LEMMA WnDispatch == ASSUME WnInv, (\E h : DispatchMessage(h) \/ UpdateWindow(h)) \/ DispatchReturn PROVE WnInv'
BY WnQueue, WnResting DEF DispatchMessage, UpdateWindow, DispatchReturn, tables, WnStill

LEMMA WnRemoved ==
  ASSUME NEW q \in Seq(WnMessage), NEW i \in 1 .. Len(q), NEW p, p = RemoveAt(q, i)
  PROVE  p \in Seq(WnMessage) /\ Len(p) <= Len(q) /\ \A k \in 1 .. Len(p) : \E j \in 1 .. Len(q) : p[k] = q[j]
<1>1. PICK n \in Nat : n = Len(q) /\ \A k \in 1 .. n : q[k] \in WnMessage
  BY LenProperties, ElementOfSeq
<1>2. PICK a : a = SubSeq(q, 1, i - 1)
  OBVIOUS
<1>3. PICK b : b = SubSeq(q, i + 1, n)
  OBVIOUS
<1>4. i \in Nat /\ i >= 1 /\ i <= n /\ (\A k \in 1 .. i - 1 : q[k] \in WnMessage) /\ \A k \in i + 1 .. n : q[k] \in WnMessage
  BY <1>1
<1>5. a \in Seq(WnMessage) /\ Len(a) = i - 1 /\ \A k \in 1 .. i - 1 : a[k] = q[k]
  <2>1. /\ SubSeq(q, 1, i - 1) \in Seq(WnMessage) /\ Len(SubSeq(q, 1, i - 1)) = IF 1 <= i - 1 THEN i - 1 - 1 + 1 ELSE 0
        /\ \A k \in 1 .. i - 1 - 1 + 1 : SubSeq(q, 1, i - 1)[k] = q[1 + k - 1]
    BY <1>4, SubSeqProperties
  <2> QED
    BY <1>2, <1>4, <2>1
<1>6. b \in Seq(WnMessage) /\ Len(b) = n - i /\ \A k \in 1 .. n - i : b[k] = q[i + k]
  <2>1. /\ SubSeq(q, i + 1, n) \in Seq(WnMessage) /\ Len(SubSeq(q, i + 1, n)) = IF i + 1 <= n THEN n - (i + 1) + 1 ELSE 0
        /\ \A k \in 1 .. n - (i + 1) + 1 : SubSeq(q, i + 1, n)[k] = q[(i + 1) + k - 1]
    BY <1>1, <1>4, SubSeqProperties
  <2> QED
    BY <1>1, <1>3, <1>4, <2>1
<1>7. p = a \o b
  BY <1>1, <1>2, <1>3 DEF RemoveAt
<1>8. /\ p \in Seq(WnMessage) /\ Len(p) = Len(a) + Len(b)
      /\ \A k \in 1 .. Len(a) + Len(b) : p[k] = IF k <= Len(a) THEN a[k] ELSE b[k - Len(a)]
  <2>1. a \in Seq(WnMessage) /\ b \in Seq(WnMessage)
    BY <1>5, <1>6
  <2>2. /\ a \o b \in Seq(WnMessage) /\ Len(a \o b) = Len(a) + Len(b)
        /\ \A k \in 1 .. Len(a) + Len(b) : (a \o b)[k] = IF k <= Len(a) THEN a[k] ELSE b[k - Len(a)]
    BY <2>1, ConcatProperties
  <2> QED
    BY <1>7, <2>2
<1>9. Len(p) = n - 1 /\ \A k \in 1 .. n - 1 : p[k] = IF k <= i - 1 THEN a[k] ELSE b[k - (i - 1)]
  <2>1. Len(a) = i - 1 /\ Len(b) = n - i
    BY <1>5, <1>6
  <2>2. Len(a) + Len(b) = n - 1
    BY <1>1, <1>4, <2>1
  <2> QED
    BY <1>8, <2>1, <2>2
<1>10. ASSUME NEW k \in 1 .. Len(p) PROVE \E j \in 1 .. n : p[k] = q[j]
  <2>1. CASE k <= i - 1
    <3>1. k \in 1 .. i - 1 /\ k \in 1 .. n /\ p[k] = a[k]
      BY <1>4, <1>9, <2>1
    <3> QED
      BY <1>5, <3>1
  <2>2. CASE ~(k <= i - 1)
    <3>1. p[k] = b[k - (i - 1)] /\ k - (i - 1) \in 1 .. n - i /\ i + (k - (i - 1)) \in 1 .. n
      BY <1>1, <1>4, <1>9, <2>2
    <3>2. b[k - (i - 1)] = q[i + (k - (i - 1))]
      BY <1>6, <3>1
    <3> QED
      BY <3>1, <3>2
  <2> QED
    BY <2>1, <2>2
<1> QED
  BY <1>1, <1>8, <1>9, <1>10

LEMMA WnTakeMessage == ASSUME WnInv, NEW h, TakeMessage(h) PROVE WnInv'
<1>1. WnStill /\ scene' = scene /\ classes' = classes /\ items' = items /\ creates' = creates /\ ended' = ended
      /\ focus' = focus /\ pressed' = pressed /\ inits' = inits
  BY DEF TakeMessage, records, WnStill
<1>2. CASE queue' = queue
  BY <1>1, <1>2, WnQueue, WnResting
<1>3. CASE queue' # queue
  <2>1. PICK I : I = {i \in 1 .. Len(queue) : h \in {0, queue[i].window}}
    OBVIOUS
  <2>2. PICK u : u = IF I # {} THEN Min(I) ELSE 0
    OBVIOUS
  <2>3. SelectInSeq(queue, LAMBDA m : h \in {0, m.window}) = u
    BY <2>1, <2>2 DEF SelectInSeq
  <2>4. u # 0 /\ queue' = RemoveAt(queue, u)
    BY <1>3, <2>3 DEF TakeMessage
  <2>5. I \subseteq 1 .. Len(queue)
    BY <2>1
  <2>6. u \in 1 .. Len(queue)
    BY <2>2, <2>4, <2>5, FirstOf, WnQueue
  <2>7. /\ queue' \in Seq(WnMessage) /\ Len(queue') <= Len(queue)
        /\ \A k \in 1 .. Len(queue') : \E j \in 1 .. Len(queue) : queue'[k] = queue[j]
    BY <2>4, <2>6, WnRemoved, WnQueue
  <2>8. Len(queue') <= QueueSlots
    <3>1. Len(queue') \in Nat
      BY <2>7, LenProperties
    <3> QED
      BY <2>7, <3>1, WnQueue, WnConstants
  <2>9. \A i \in 1 .. Len(queue') : WnIs(windows, queue'[i].window)
    BY <2>7, WnQueue
  <2> QED
    BY <1>1, <2>7, <2>8, <2>9, WnQueue, WnResting
<1> QED
  BY <1>2, <1>3

\* The keys of the buttons that changed.
LEMMA WnPadPoll == ASSUME WnInv, NEW h, NEW bs \in SUBSET Buttons, PadPoll(h, bs) PROVE WnInv'
<1>1. h \in Nat /\ WnIs(windows, h)
  BY WnHandles DEF PadPoll
<1>2. PICK k : k = Keyed(bs)
  OBVIOUS
<1>3. k \in Nat
  <2>1. IsFiniteSet(Buttons)
    <3>1. IsFiniteSet({"left"})
      BY FS_Singleton
    <3>2. IsFiniteSet({"left"} \cup {"create"})
      BY <3>1, FS_AddElement
    <3>3. Buttons = {"left"} \cup {"create"}
      BY DEF Buttons
    <3> QED
      BY <3>2, <3>3
  <2>2. ((pressed \ bs) \cup (bs \ pressed)) \ {"create"} \in SUBSET Buttons
    BY WnQueue
  <2> QED
    BY <1>2, <2>1, <2>2, FS_Subset, FS_CardinalityType DEF Keyed
<1>4. PICK e : e = [i \in 1 .. k |-> [window |-> h, kind |-> "key"]]
  OBVIOUS
<1>5. PICK m \in WnMessage : m = [window |-> h, kind |-> "key"] /\ m.window = h
  <2>1. "key" \in Kinds
    BY DEF Kinds
  <2>2. [window |-> h, kind |-> "key"] \in WnMessage /\ [window |-> h, kind |-> "key"].window = h
    BY <1>1, <2>1 DEF WnMessage
  <2> QED
    BY <2>2
<1>6. e \in Seq(WnMessage) /\ Len(e) = k /\ \A i \in 1 .. k : e[i] = m
  <2>1. e = [i \in 1 .. k |-> m]
    BY <1>4, <1>5
  <2>2. e \in [1 .. k -> WnMessage] /\ \A i \in 1 .. k : e[i] = m
    BY <1>5, <2>1
  <2> QED
    BY <1>3, <2>2
<1>7. queue' = queue \o e /\ Len(queue) + k <= QueueSlots
  BY <1>2, <1>4 DEF PadPoll
<1>8. /\ queue' \in Seq(WnMessage) /\ Len(queue') = Len(queue) + Len(e)
      /\ \A i \in 1 .. Len(queue) + Len(e) : queue'[i] = IF i <= Len(queue) THEN queue[i] ELSE e[i - Len(queue)]
  BY <1>6, <1>7, ConcatProperties, WnQueue
<1>9. Len(queue') <= QueueSlots
  BY <1>6, <1>7, <1>8
<1>10. \A i \in 1 .. Len(queue') : WnIs(windows, queue'[i].window)
  <2> SUFFICES ASSUME NEW i \in 1 .. Len(queue') PROVE WnIs(windows, queue'[i].window)
    OBVIOUS
  <2>1. CASE i <= Len(queue)
    <3>1. i \in 1 .. Len(queue) /\ queue'[i] = queue[i]
      BY <1>8, <2>1, WnQueue
    <3> QED
      BY <3>1, WnQueue
  <2>2. CASE ~(i <= Len(queue))
    <3>1. i - Len(queue) \in 1 .. k /\ queue'[i] = e[i - Len(queue)]
      BY <1>3, <1>6, <1>8, <2>2, WnQueue
    <3>2. queue'[i] = m
      BY <1>6, <3>1
    <3> QED
      BY <1>1, <1>5, <3>2
  <2> QED
    BY <2>1, <2>2
<1>11. pressed' \subseteq Buttons
  BY DEF PadPoll
<1> QED
  BY <1>8, <1>9, <1>10, <1>11, WnQueue, WnResting DEF PadPoll, records, WnStill

LEMMA WnInits == ASSUME WnInv, (\E n \in 1 .. 2 : InitTerm(n)) \/ InitReturn PROVE WnInv'
<1>1. inits' \in Seq(Nat) /\ Len(inits') <= InitDepth
  <2>1. PICK k \in Nat : k = Len(inits) /\ k <= InitDepth /\ inits \in Seq(Nat)
    BY WnQueue, LenProperties
  <2>2. ASSUME NEW n \in 1 .. 2, InitTerm(n) PROVE inits' \in Seq(Nat) /\ Len(inits') <= InitDepth
    <3>1. inits' = Append(inits, n - 1) /\ n - 1 \in Nat /\ k < InitDepth
      BY <2>1, <2>2 DEF InitTerm, Entered
    <3>2. inits' \in Seq(Nat) /\ Len(inits') = k + 1
      BY <2>1, <3>1, AppendProperties
    <3> QED
      BY <2>1, <3>1, <3>2, WnConstants
  <2>3. ASSUME InitReturn PROVE inits' \in Seq(Nat) /\ Len(inits') <= InitDepth
    <3>1. inits # <<>> /\ k >= 1 /\ k \in 1 .. Len(inits)
      BY <2>1, <2>3, EmptySeq DEF InitReturn
    <3>2. Last(inits) = inits[k] /\ inits[k] \in Nat
      BY <2>1, <3>1, ElementOfSeq DEF Last
    <3>3. CASE Last(inits) > 0
      <4>1. inits' = [inits EXCEPT ![k] = inits[k] - 1] /\ inits[k] - 1 \in Nat
        BY <2>1, <2>3, <3>2, <3>3 DEF InitReturn
      <4>2. inits' \in Seq(Nat) /\ Len(inits') = k
        BY <2>1, <3>1, <4>1, ExceptSeq
      <4> QED
        BY <2>1, <4>2
    <3>4. CASE ~(Last(inits) > 0)
      <4>1. inits' = SubSeq(inits, 1, k - 1)
        BY <2>1, <2>3, <3>4 DEF InitReturn, Front
      <4>2. \A i \in 1 .. k - 1 : inits[i] \in Nat
        BY <2>1, ElementOfSeq
      <4>3. inits' \in Seq(Nat) /\ Len(inits') = IF 1 <= k - 1 THEN k - 1 - 1 + 1 ELSE 0
        BY <2>1, <4>1, <4>2, SubSeqProperties
      <4> QED
        BY <2>1, <4>3, WnConstants
    <3> QED
      BY <3>3, <3>4
  <2> QED
    BY <2>2, <2>3
<1> QED
  BY <1>1, WnQueue, WnResting DEF InitTerm, InitReturn, tables, WnStill


\* A window shown is activated, by a message.
LEMMA WnShowWindow == ASSUME WnInv, NEW h, NEW on \in BOOLEAN, ShowWindow(h, on) PROVE WnInv'
<1>1. PICK s \in 1 .. WindowSlots : s = Slot(h) /\ windows[s].handle = h /\ h # 0 /\ h \in Nat
                                    /\ WnIs(windows, h) /\ windows[s] \in WnRecord /\ windows[s].size \in Sizes
  BY WnHandles DEF ShowWindow
<1>2. PICK w \in WnRecord : w = windows[s]
  BY <1>1
<1>3. PICK v : v = [w EXCEPT !.visible = on, !.dirty = (on \/ w.dirty)]
  OBVIOUS
<1>4. v \in WnRecord /\ v.size = w.size
  BY <1>3 DEF WnRecord
<1>5. v.handle = w.handle /\ v.menu = w.menu
  BY <1>3 DEF WnRecord
<1>6. v.creating = w.creating /\ v.class = w.class
  BY <1>3 DEF WnRecord
<1>7. windows \in WnTable
  BY WnQueue
<1>8. windows' = [windows EXCEPT ![s] = v]
  <2>1. windows' = [windows EXCEPT ![s].visible = on, ![s].dirty = (on \/ @)]
    BY <1>1 DEF ShowWindow
  <2> QED
    BY <2>1, <1>2, <1>3, <1>7 DEF WnTable, WnRecord
<1>9. WnEdited(windows', windows, s, v)
  BY <1>1, <1>2, <1>4, <1>5, <1>6, <1>8 DEF WnEdited
<1>10. /\ queue' \in Seq(WnMessage) /\ Len(queue') <= QueueSlots
       /\ \A i \in 1 .. Len(queue') : WnIs(windows, queue'[i].window)
  <2>1. CASE on /\ ~Window(h).visible
    <3>1. Len(queue) < QueueSlots /\ queue' = Append(queue, [window |-> h, kind |-> "activate"]) /\ "activate" \in Kinds
      BY <2>1 DEF ShowWindow, Kinds
    <3> QED
      BY <1>1, <3>1, WnPosted
  <2>2. CASE ~(on /\ ~Window(h).visible)
    <3>1. queue' = queue
      BY <2>2 DEF ShowWindow
    <3> QED
      BY <3>1, WnQueue
  <2> QED
    BY <2>1, <2>2
<1>11. WnStays /\ nextObject' = nextObject /\ cursors' = cursors /\ issued' = issued /\ ended' = ended
  BY DEF ShowWindow, records, WnStays
<1> QED
  BY <1>1, <1>9, <1>10, <1>11, WnEditing

\* A call that changes another field of one window.
WnPlain == queue' = queue /\ WnStays /\ nextObject' = nextObject /\ cursors' = cursors /\ issued' = issued /\ ended' = ended

LEMMA WnDrawMenuBar == ASSUME WnInv, NEW h, DrawMenuBar(h) PROVE WnInv'
<1>1. PICK s \in 1 .. WindowSlots : s = Slot(h) /\ windows[s].handle # 0 /\ windows[s] \in WnRecord /\ windows[s].size \in Sizes
  BY WnHandles DEF DrawMenuBar
<1>2. PICK w \in WnRecord : w = windows[s]
  BY <1>1
<1>3. PICK v : v = [w EXCEPT !.dirty = TRUE]
  OBVIOUS
<1>4. v \in WnRecord /\ v.size = w.size /\ v.handle = w.handle
  BY <1>3 DEF WnRecord
<1>5. v.menu = w.menu /\ v.creating = w.creating /\ v.class = w.class
  BY <1>3 DEF WnRecord
<1>6. windows' = [windows EXCEPT ![s] = v]
  BY <1>1, <1>2, <1>3 DEF DrawMenuBar
<1>7. WnEdited(windows', windows, s, v)
  BY <1>1, <1>2, <1>4, <1>5, <1>6 DEF WnEdited
<1>8. WnPlain
  BY DEF DrawMenuBar, records, WnPlain, WnStays
<1> QED
  BY <1>1, <1>7, <1>8, WnEditing, WnQueue DEF WnPlain

LEMMA WnUpdateReturn == ASSUME WnInv, UpdateReturn PROVE WnInv'
<1>1. PICK s \in 1 .. WindowSlots : /\ s = Slot(updating) /\ windows[s].handle # 0 /\ windows[s] \in WnRecord
                                    /\ windows[s].size \in Sizes
  BY WnHandles DEF UpdateReturn
<1>2. PICK w \in WnRecord : w = windows[s]
  BY <1>1
<1>3. PICK v : v = [w EXCEPT !.dirty = FALSE]
  OBVIOUS
<1>4. v \in WnRecord /\ v.size = w.size /\ v.handle = w.handle
  BY <1>3 DEF WnRecord
<1>5. v.menu = w.menu /\ v.creating = w.creating /\ v.class = w.class
  BY <1>3 DEF WnRecord
<1>6. windows' = [windows EXCEPT ![s] = v]
  BY <1>1, <1>2, <1>3 DEF UpdateReturn
<1>7. WnEdited(windows', windows, s, v)
  BY <1>1, <1>2, <1>4, <1>5, <1>6 DEF WnEdited
<1>8. WnPlain
  BY DEF UpdateReturn, WnPlain, WnStays
<1> QED
  BY <1>1, <1>7, <1>8, WnEditing, WnQueue DEF WnPlain

LEMMA WnMoveUser == ASSUME WnInv, NEW h, NEW size \in Sizes, MoveUser(h, size) PROVE WnInv'
<1>1. PICK s \in 1 .. WindowSlots : s = Slot(h) /\ windows[s].handle # 0 /\ windows[s] \in WnRecord
  BY WnHandles DEF MoveUser
<1>2. PICK w \in WnRecord : w = windows[s]
  BY <1>1
<1>3. PICK v : v = [w EXCEPT !.size = size]
  OBVIOUS
<1>4. v \in WnRecord /\ v.size = size /\ v.handle = w.handle
  BY <1>3, WnConstants DEF WnRecord
<1>5. v.menu = w.menu /\ v.creating = w.creating /\ v.class = w.class
  BY <1>3 DEF WnRecord
<1>6. windows' = [windows EXCEPT ![s] = v]
  BY <1>1, <1>2, <1>3 DEF MoveUser
<1>7. WnEdited(windows', windows, s, v)
  BY <1>2, <1>4, <1>5, <1>6 DEF WnEdited
<1>8. WnPlain
  BY DEF MoveUser, records, WnPlain, WnStays
<1> QED
  BY <1>1, <1>7, <1>8, WnEditing, WnQueue DEF WnPlain

LEMMA WnPainting ==
  ASSUME WnInv, NEW h, NEW dc \in Nat, BeginUser(h, dc) \/ EndUser(h, dc)
  PROVE  WnInv'
<1>1. PICK s \in 1 .. WindowSlots : s = Slot(h) /\ windows[s].handle # 0 /\ windows[s] \in WnRecord /\ windows[s].size \in Sizes
  BY WnHandles DEF BeginUser, EndUser
<1>2. PICK w \in WnRecord : w = windows[s]
  BY <1>1
<1>3. PICK u \in Nat : windows' = [windows EXCEPT ![s].dc = u]
  BY <1>1 DEF BeginUser, EndUser
<1>4. PICK v : v = [w EXCEPT !.dc = u]
  OBVIOUS
<1>5. v \in WnRecord /\ v.size = w.size /\ v.handle = w.handle
  BY <1>4 DEF WnRecord
<1>6. v.menu = w.menu /\ v.creating = w.creating /\ v.class = w.class
  BY <1>4 DEF WnRecord
<1>7. windows' = [windows EXCEPT ![s] = v]
  BY <1>2, <1>3, <1>4
<1>8. WnEdited(windows', windows, s, v)
  BY <1>1, <1>2, <1>5, <1>6, <1>7 DEF WnEdited
<1>9. WnPlain
  BY DEF BeginUser, EndUser, records, WnPlain, WnStays
<1> QED
  BY <1>1, <1>8, <1>9, WnEditing, WnQueue DEF WnPlain

\* What WnInv says of the windows, without the types.
WnParts ==
    /\ WnSlots(windows) /\ WnDistinct(windows, cursors) /\ WnBelow(windows, cursors, issued, nextObject)
    /\ WnHidden(windows, issued) /\ WnNames(windows, queue, focus, items) /\ WnClassed(windows, classes)
    /\ WnCreating(windows, creates) /\ WnKnown(items, issued)
LEMMA WnWhole == ASSUME WnInv PROVE WnParts
BY DEF WnInv, WnParts

\* A class goes only when no window has it.
LEMMA WnClasses == ASSUME WnInv, NEW c, c \in Classes, RegisterClass(c) \/ UnregisterClass(c) PROVE WnInv'
<1>1. /\ WnStill /\ scene' = scene /\ items' = items /\ creates' = creates /\ inits' = inits /\ pressed' = pressed
      /\ focus' = focus /\ queue' = queue /\ ended' = ended
  BY DEF RegisterClass, UnregisterClass, records, WnStill
<1>2. classes' \subseteq Classes
  BY DEF RegisterClass, UnregisterClass, WnInv, WnTypes
<1>3. WnClassed(windows, classes')
  <2>1. \A s \in 1 .. WindowSlots : windows[s].handle # 0 => windows[s].class \in classes
    BY DEF WnInv, WnClassed
  <2>2. CASE RegisterClass(c)
    BY <2>1, <2>2 DEF RegisterClass, WnClassed
  <2>3. CASE UnregisterClass(c)
    <3>1. \A s \in 1 .. WindowSlots : windows[s].class # c
      BY <2>3 DEF UnregisterClass, WnInv, WnSlots, WnTable
    <3> QED
      BY <2>1, <2>3, <3>1 DEF UnregisterClass, WnClassed
  <2> QED
    BY <2>2, <2>3
<1>4. WnTypes'
  BY <1>1, <1>2 DEF WnInv, WnTypes, WnStill
<1> QED
  BY <1>1, <1>3, <1>4 DEF WnInv, WnStill

\* A cursor has the next handle.
LEMMA WnLoadCursor == ASSUME WnInv, NEW c \in Cursors, LoadCursor(c) PROVE WnInv'
<1>1. PICK n \in Nat \ {0} : n = nextObject /\ n <= scene.objects /\ scene \in Scenes
  BY DEF WnInv, WnTypes, LoadCursor
<1>2. scene.objects \in Nat
  BY <1>1, WnConstants
<1>3. PICK k \in WnCursor : k = [name |-> c, handle |-> n] /\ k.handle = n
  <2>1. [name |-> c, handle |-> n] \in WnCursor /\ [name |-> c, handle |-> n].handle = n
    BY DEF WnCursor
  <2> QED
    BY <2>1
<1>4. /\ cursors' = cursors \cup {k} /\ nextObject' = n + 1 /\ issued' = issued \cup {n} /\ windows' = windows
      /\ WnStays /\ ended' = ended /\ queue' = queue
  BY <1>1, <1>3 DEF LoadCursor, records, WnStays
<1>5. WnTypes'
  <2>1. IsFiniteSet(cursors \cup {k})
    BY FS_AddElement DEF WnInv, WnTypes
  <2>2. cursors \cup {k} \subseteq WnCursor
    BY <1>3 DEF WnInv, WnTypes
  <2>3. nextObject' \in Nat \ {0} /\ nextObject' <= scene.objects + 1
    BY <1>1, <1>2, <1>4
  <2> QED
    BY <1>4, <2>1, <2>2, <2>3 DEF WnInv, WnTypes, WnStays
<1>6. \A s \in 1 .. WindowSlots : /\ windows[s].handle \in Nat /\ windows[s].menu \in Nat
                                  /\ windows[s].handle < n /\ windows[s].menu < n
  BY <1>1, WnFields DEF WnInv, WnSlots, WnBelow
<1>7. \A r \in cursors : r.handle \in Nat /\ r.handle < n
  BY <1>1 DEF WnInv, WnBelow
<1>8. \A h \in issued : h \in Nat \ {0} /\ h < n
  BY <1>1 DEF WnInv, WnBelow
<1>9. WnDistinct(windows, cursors')
  <2>1. \A r \in cursors' : r = k \/ r \in cursors
    BY <1>4
  <2>2. WnDistinct(windows, cursors)
    BY DEF WnInv
  <2>3. \A s \in 1 .. WindowSlots, r \in cursors' : r.handle # windows[s].handle /\ r.handle # windows[s].menu
    <3> SUFFICES ASSUME NEW s \in 1 .. WindowSlots, NEW r \in cursors'
                 PROVE  r.handle # windows[s].handle /\ r.handle # windows[s].menu
      OBVIOUS
    <3>1. CASE r = k
      BY <1>3, <1>6, <3>1
    <3>2. CASE r \in cursors
      BY <2>2, <3>2 DEF WnDistinct
    <3> QED
      BY <2>1, <3>1, <3>2
  <2>4. \A r \in cursors' : r.handle # 0
    BY <1>3, <2>1, <2>2 DEF WnDistinct
  <2>5. \A r \in cursors : r.handle # k.handle
    BY <1>3, <1>7
  <2>6. \A r, r1 \in cursors' : r.handle = r1.handle => r = r1
    BY <2>1, <2>2, <2>5 DEF WnDistinct
  <2> QED
    BY <2>2, <2>3, <2>4, <2>6 DEF WnDistinct
<1>10. WnBelow(windows, cursors', issued', n + 1)
  <2>1. \A s \in 1 .. WindowSlots : windows[s].handle < n + 1 /\ windows[s].menu < n + 1
    BY <1>6
  <2>2. \A r \in cursors' : r.handle \in Nat /\ r.handle < n + 1
    <3> SUFFICES ASSUME NEW r \in cursors' PROVE r.handle \in Nat /\ r.handle < n + 1
      OBVIOUS
    <3>1. CASE r = k
      BY <1>3, <3>1
    <3>2. CASE r \in cursors
      BY <1>7, <3>2
    <3> QED
      BY <1>4, <3>1, <3>2
  <2>3. \A h \in issued' : h \in Nat \ {0} /\ h < n + 1
    BY <1>4, <1>8
  <2> QED
    BY <2>1, <2>2, <2>3 DEF WnBelow
<1>11. WnHidden(windows, issued')
  BY <1>4, <1>6 DEF WnHidden, WnInv
<1>12. WnKnown(items, issued')
  BY <1>4 DEF WnKnown, WnInv
<1> QED
  BY <1>4, <1>5, <1>9, <1>10, <1>11, <1>12 DEF WnInv, WnStays

\* An item of a menu the guest was given.
LEMMA WnSetMenuItem == ASSUME WnInv, NEW m, NEW i, SetMenuItem(m, i) PROVE WnInv'
<1>1. PICK e : e = <<m, i>> /\ e[1] = m
  <2>1. <<m, i>>[1] = m
    OBVIOUS
  <2> QED
    BY <2>1
<1>2. items' = items \cup {e} /\ WnStill /\ scene' = scene /\ ended' = ended /\ classes' = classes /\ queue' = queue
      /\ focus' = focus /\ pressed' = pressed /\ creates' = creates /\ inits' = inits
  BY <1>1 DEF SetMenuItem, records, WnStill
<1>3. m # 0 /\ m \in issued /\ (\E s \in 1 .. WindowSlots : windows[s].menu = m)
  <2>1. DOMAIN windows = 1 .. WindowSlots
    BY DEF WnInv, WnSlots, WnTable
  <2> QED
    BY <2>1 DEF SetMenuItem, Menus
<1>4. IsFiniteSet(items') /\ Cardinality(items') <= ItemSlots
  <2>1. PICK k \in Nat : k = Cardinality(items) /\ IsFiniteSet(items) /\ k < ItemSlots /\ e \notin items
    BY <1>1, FS_CardinalityType DEF WnInv, WnTypes, SetMenuItem
  <2>2. IsFiniteSet(items') /\ Cardinality(items') = k + 1
    BY <1>2, <2>1, FS_AddElement
  <2> QED
    BY <2>1, <2>2, WnConstants
<1>5. WnTypes'
  BY <1>2, <1>4 DEF WnInv, WnTypes, WnStill
<1>6. \A x \in items' : x = e \/ x \in items
  BY <1>2
<1>7. WnNames(windows, queue, focus, items')
  BY <1>1, <1>3, <1>6 DEF WnInv, WnNames
<1>8. WnKnown(items', issued)
  BY <1>1, <1>3, <1>6 DEF WnInv, WnKnown
<1> QED
  BY <1>2, <1>5, <1>7, <1>8 DEF WnInv, WnStill

LEMMA WnCreateWindow == ASSUME WnInv, NEW c \in Classes, NEW size \in Sizes, CreateWindow(c, size) PROVE WnInv'
<1>1. /\ windows \in WnTable /\ DOMAIN windows = 1 .. WindowSlots /\ creates \in Seq(WnCreation)
      /\ Len(creates) \in Nat /\ scene \in Scenes
  BY WnCreations DEF WnInv, WnSlots, WnTypes, WnTable
<1>2. PICK n \in Nat \ {0} : n = nextObject
  BY DEF WnInv, WnTypes
<1>3. PICK s \in 1 .. WindowSlots :
         /\ windows[s].handle = 0 /\ windows' = Began(s, c, size) /\ nextObject' <= scene.objects + 1
         /\ creates' = Append(creates, [slot |-> s, handle |-> n, phase |-> 1])
         /\ nextObject' = n + (IF c \in MenuClasses THEN 2 ELSE 1)
  BY <1>1, <1>2 DEF CreateWindow, Used
<1>4. PICK u \in Nat : u = IF c \in MenuClasses THEN n + 1 ELSE 0
  OBVIOUS
<1>5. PICK w : w = [NoWindow EXCEPT !.handle = n, !.class = c, !.creating = TRUE, !.size = size, !.menu = u]
  OBVIOUS
<1>6. windows' = [windows EXCEPT ![s] = w]
  BY <1>2, <1>3, <1>4, <1>5 DEF Began
<1>7. w = [handle |-> n, class |-> c, creating |-> TRUE, visible |-> FALSE, dirty |-> FALSE, dc |-> 0, menu |-> u, size |-> size]
  BY <1>5 DEF NoWindow
<1>8. w \in WnRecord
  BY <1>7, WnConstants DEF WnRecord
<1>9. w.handle = n /\ w.creating /\ w.class = c /\ w.size = size /\ w.menu = u
  BY <1>7
<1>10. nextObject' \in {n + 1, n + 2} /\ u = IF nextObject' = n + 1 THEN 0 ELSE n + 1
  BY <1>3, <1>4
<1>11. c \in classes /\ Len(creates) < CreateDepth
  BY DEF CreateWindow
<1>12. /\ WnSlots(windows') /\ WnDistinct(windows', cursors) /\ WnBelow(windows', cursors, issued, nextObject')
       /\ WnHidden(windows', issued) /\ WnNames(windows', queue, focus, items) /\ WnClassed(windows', classes)
       /\ WnCreating(windows', creates') /\ creates' \in Seq(WnCreation) /\ Len(creates') = Len(creates) + 1
  <2>1. WnParts
    BY WnWhole
  <2>2. WnMade(w, n, nextObject', classes)
    BY <1>8, <1>9, <1>10, <1>11 DEF WnMade
  <2>3. WnStarts(windows', windows, s, w, creates', creates)
    BY <1>3, <1>6, <1>9 DEF WnStarts
  <2>4. windows[s].handle = 0 /\ creates \in Seq(WnCreation) /\ WnBelow(windows, cursors, issued, n)
    BY <1>1, <1>2, <1>3, <2>1 DEF WnParts
  <2>5. PICK m : m = nextObject' /\ WnMade(w, n, m, classes)
    BY <2>2
  <2>6. /\ WnSlots(windows') /\ WnDistinct(windows', cursors) /\ WnBelow(windows', cursors, issued, m)
        /\ WnHidden(windows', issued) /\ WnNames(windows', queue, focus, items) /\ WnClassed(windows', classes)
        /\ WnCreating(windows', creates') /\ creates' \in Seq(WnCreation) /\ Len(creates') = Len(creates) + 1
    BY <2>1, <2>3, <2>4, <2>5, WnBegins DEF WnParts
  <2> QED
    BY <2>5, <2>6
<1>13. /\ scene' = scene /\ ended' = ended /\ classes' = classes /\ cursors' = cursors /\ items' = items /\ queue' = queue
       /\ focus' = focus /\ pressed' = pressed /\ inits' = inits /\ issued' = issued
  BY DEF CreateWindow
<1>14. WnTypes'
  <2>1. Len(creates') <= CreateDepth
    BY <1>1, <1>11, <1>12, WnConstants
  <2>2. nextObject' \in Nat \ {0}
    BY <1>10
  <2> QED
    BY <1>3, <1>12, <1>13, <2>1, <2>2 DEF WnInv, WnTypes
<1> QED
  BY <1>12, <1>13, <1>14 DEF WnInv

LEMMA WnCreateReturn == ASSUME WnInv, NEW ok \in BOOLEAN, CreateReturn(ok) PROVE WnInv'
<1>1. /\ scene' = scene /\ ended' = ended /\ classes' = classes /\ cursors' = cursors /\ items' = items /\ queue' = queue
      /\ focus' = focus /\ pressed' = pressed /\ inits' = inits /\ creates # <<>>
  BY DEF CreateReturn
<1>2. creates \in Seq(WnCreation) /\ scene \in Scenes /\ scene.objects \in Nat
  BY WnConstants DEF WnInv, WnTypes
<1>3. PICK k \in Nat : k = Len(creates) /\ k <= CreateDepth
  BY <1>2, WnCreations DEF WnInv, WnTypes
<1>4. PICK e : e = Last(creates)
  OBVIOUS
<1>5. /\ WnBut(creates, Front(creates), e.slot) /\ k \in 1 .. k /\ e = creates[k]
  BY <1>1, <1>2, <1>3, <1>4, WnFront
<1>6. e \in WnCreation /\ e.slot \in 1 .. WindowSlots
  BY <1>2, <1>3, <1>5, WnCreations
<1>7. PICK s \in 1 .. WindowSlots : s = e.slot
  BY <1>6
<1>8. PICK d : d = Front(creates)
  OBVIOUS
<1>9. WnBut(creates, d, s) /\ d \in Seq(WnCreation) /\ Len(d) <= CreateDepth
  <2>1. WnBut(creates, d, s)
    BY <1>5, <1>7, <1>8
  <2>2. d \in Seq(WnCreation) /\ Len(d) = k - 1
    BY <1>3, <2>1 DEF WnBut
  <2> QED
    BY <1>3, <2>1, <2>2, WnConstants
<1>10. CASE creates' = [creates EXCEPT ![k].phase = 2] /\ windows' = windows /\ nextObject' = nextObject /\ issued' = issued
  <2>1. PICK f : f = [e EXCEPT !.phase = 2]
    OBVIOUS
  <2>2. f \in WnCreation /\ f.slot = e.slot /\ f.handle = e.handle
    BY <1>6, <2>1 DEF WnCreation
  <2>3. creates' = [creates EXCEPT ![k] = f]
    BY <1>5, <1>10, <2>1
  <2>4. creates' \in Seq(WnCreation) /\ Len(creates') = k
    BY <1>2, <1>3, <1>5, <2>2, <2>3, ExceptSeq
  <2>5. \A i \in 1 .. k : creates'[i].slot = creates[i].slot /\ creates'[i].handle = creates[i].handle
    <3>1. DOMAIN creates = 1 .. k
      BY <1>2, <1>3, WnCreations
    <3>2. \A i \in 1 .. k : creates'[i] = IF i = k THEN f ELSE creates[i]
      BY <1>5, <2>3, <3>1
    <3> QED
      BY <1>5, <2>2, <3>2
  <2>6. WnCreating(windows, creates')
    BY <1>3, <2>4, <2>5 DEF WnInv, WnCreating
  <2>7. WnTypes'
    BY <1>1, <1>3, <1>10, <2>4 DEF WnInv, WnTypes
  <2> QED
    BY <1>1, <1>10, <2>6, <2>7 DEF WnInv
<1>11. CASE /\ windows' = [windows EXCEPT ![s].creating = FALSE] /\ nextObject' = nextObject /\ creates' = d
            /\ issued' = (issued \cup {windows[s].handle, windows[s].menu}) \ {0}
  <2>1. /\ WnSlots(windows') /\ WnDistinct(windows', cursors) /\ WnBelow(windows', cursors, issued', nextObject)
        /\ WnHidden(windows', issued') /\ WnNames(windows', queue, focus, items) /\ WnClassed(windows', classes)
        /\ WnCreating(windows', d)
    <3>1. WnParts
      BY WnWhole
    <3>2. WnOpens(windows', windows, s, issued', issued)
      BY <1>11 DEF WnOpens
    <3> QED
      BY <1>2, <1>9, <3>1, <3>2, WnAccepted DEF WnParts
  <2>2. WnTypes'
    BY <1>1, <1>9, <1>11 DEF WnInv, WnTypes
  <2>3. WnKnown(items, issued')
    <3>1. \A x \in items : x[1] \in issued /\ x[1] # 0
      BY DEF WnInv, WnKnown, WnNames
    <3> QED
      BY <1>11, <3>1 DEF WnKnown
  <2> QED
    BY <1>1, <1>11, <2>1, <2>2, <2>3 DEF WnInv
<1>12. CASE /\ windows' = [windows EXCEPT ![s] = NoWindow] /\ nextObject' = Unnumbered(nextObject, windows[s])
            /\ creates' = d /\ issued' = issued
  <2>1. WnEmpties(windows', windows, s)
    BY <1>12 DEF WnEmpties
  <2>2. PICK n \in Nat \ {0} : n = nextObject /\ n <= scene.objects + 1
    BY DEF WnInv, WnTypes
  <2>3. /\ WnSlots(windows') /\ WnDistinct(windows', cursors) /\ WnBelow(windows', cursors, issued, nextObject')
        /\ WnHidden(windows', issued) /\ WnNames(windows', queue, focus, items) /\ WnClassed(windows', classes)
        /\ WnCreating(windows', d) /\ nextObject' \in Nat \ {0} /\ nextObject' <= n
    BY <1>2, <1>9, <1>12, <2>1, <2>2, WnRefused DEF WnInv
  <2>4. nextObject' <= scene.objects + 1
    BY <1>2, <2>2, <2>3
  <2>5. WnTypes'
    BY <1>1, <1>9, <1>12, <2>3, <2>4 DEF WnInv, WnTypes
  <2> QED
    BY <1>1, <1>12, <2>3, <2>5 DEF WnInv
<1> QED
  BY <1>3, <1>4, <1>7, <1>8, <1>10, <1>11, <1>12 DEF CreateReturn

LEMMA WnDestroyUser == ASSUME WnInv, NEW h, DestroyUser(h) PROVE WnInv'
<1>1. PICK s \in 1 .. WindowSlots : s = Slot(h) /\ windows[s].handle = h /\ h # 0 /\ h \in Nat
                                    /\ ~windows[s].creating /\ Window(h) = windows[s]
  BY WnHandles DEF DestroyUser
<1>2. /\ WnEmpties(windows', windows, s) /\ items' = {x \in items : x[1] # windows[s].menu}
      /\ focus' = (IF focus = h THEN 0 ELSE focus) /\ queue' = Others(h)
      /\ scene' = scene /\ ended' = ended /\ classes' = classes /\ nextObject' = nextObject /\ cursors' = cursors
      /\ pressed' = pressed /\ creates' = creates /\ inits' = inits /\ issued' = issued
  BY <1>1 DEF DestroyUser, Destroyed, records, WnEmpties
<1>3. queue' \in Seq(WnMessage) /\ Len(queue') <= Len(queue) /\ WnFrom(queue', queue, h)
  BY <1>2, WnOthers, WnQueue
<1>4. creates \in Seq(WnCreation) /\ nextObject \in Nat \ {0}
  BY DEF WnInv, WnTypes
<1>5. /\ WnSlots(windows') /\ WnDistinct(windows', cursors) /\ WnBelow(windows', cursors, issued, nextObject)
      /\ WnHidden(windows', issued) /\ WnNames(windows', queue', focus', items') /\ WnClassed(windows', classes)
      /\ WnCreating(windows', creates)
  <2>1. WnParts
    BY WnWhole
  <2>2. WnFrom(queue', queue, windows[s].handle) /\ WnForgets(focus', focus, items', items, windows[s])
    BY <1>1, <1>2, <1>3 DEF WnForgets
  <2> QED
    BY <1>1, <1>2, <1>4, <2>1, <2>2, WnGone DEF WnParts
<1>6. WnTypes'
  <2>1. IsFiniteSet(items') /\ Cardinality(items') <= ItemSlots
    <3>1. IsFiniteSet(items) /\ Cardinality(items) \in Nat /\ Cardinality(items) <= ItemSlots
      BY FS_CardinalityType DEF WnInv, WnTypes
    <3>2. items' \subseteq items
      BY <1>2
    <3>3. IsFiniteSet(items') /\ Cardinality(items') <= Cardinality(items) /\ Cardinality(items') \in Nat
      BY <3>1, <3>2, FS_Subset, FS_CardinalityType
    <3> QED
      BY <3>1, <3>3, WnConstants
  <2>2. Len(queue') <= QueueSlots
    <3>1. Len(queue') \in Nat
      BY <1>3, LenProperties
    <3> QED
      BY <1>3, <3>1, WnQueue, WnConstants
  <2> QED
    BY <1>2, <1>3, <2>1, <2>2 DEF WnInv, WnTypes
<1>7. WnKnown(items', issued)
  BY <1>2 DEF WnInv, WnKnown
<1> QED
  BY <1>2, <1>5, <1>6, <1>7 DEF WnInv

\* Every step of the windows.
LEMMA WnNext ==
  ASSUME WnInv, UserNext \/ (\E h : DestroyUser(h)) \/ UNCHANGED userVars
  PROVE  WnInv'
<1>1. CASE UserNext
  <2>1. ASSUME NEW c \in Classes, RegisterClass(c) \/ UnregisterClass(c) \/ \E n \in Sizes : CreateWindow(c, n) PROVE WnInv'
    BY <2>1, WnClasses, WnCreateWindow
  <2>2. ASSUME NEW h, \/ \E b \in BOOLEAN : ShowWindow(h, b)
                      \/ \E bs \in SUBSET Buttons : PadPoll(h, bs)
                      \/ DrawMenuBar(h) \/ SetFocus(h) \/ PostMessage(h) \/ WaitMessage(h)
                      \/ DispatchMessage(h) \/ UpdateWindow(h)
        PROVE WnInv'
    BY <2>2, WnShowWindow, WnPadPoll, WnDrawMenuBar, WnSetFocus, WnPostMessage, WnWaitMessage, WnDispatch
  <2> QED
    BY <1>1, <2>1, <2>2, WnLoadCursor, WnSetMenuItem, WnCreateReturn, WnTakeMessage, WnPostQuit, WnDispatch,
       WnUpdateReturn, WnInits DEF UserNext
<1>2. CASE UNCHANGED userVars
  BY <1>2 DEF userVars, WnInv, WnTypes
<1> QED
  BY <1>1, <1>2, WnDestroyUser

\* A set has as many elements as the places it is read from, if no two agree.
LEMMA ImageCount ==
  ASSUME NEW S, IsFiniteSet(S), NEW F, DOMAIN F = S, \A x, y \in S : F[x] = F[y] => x = y,
         NEW T, T = {F[x] : x \in S}
  PROVE  IsFiniteSet(T) /\ Cardinality(T) = Cardinality(S) /\ Cardinality(T) \in Nat
<1>1. PICK G : G = [x \in S |-> F[x]]
  OBVIOUS
<1>2. G \in [S -> T] /\ (\A x \in S : G[x] = F[x]) /\ \A y \in T : \E x \in S : G[x] = y
  BY <1>1
<1>3. G \in Injection(S, T)
  BY <1>2 DEF Injection, IsInjective
<1>4. G \in Surjection(S, T)
  BY <1>2 DEF Surjection
<1>5. ExistsBijection(S, T)
  BY <1>3, <1>4 DEF ExistsBijection, Bijection
<1> QED
  BY <1>5, FS_Bijection, FS_CardinalityType

\* The sets of handles that HandlesUnique adds up.
WnUsed == {s \in DOMAIN windows : Used(s)}
WnMenued == {s \in DOMAIN windows : windows[s].menu # 0}
WnWindows == {windows[s].handle : s \in WnUsed}
WnCursors == {r.handle : r \in cursors}

LEMMA WnUnique == ASSUME WnInv PROVE HandlesUnique
<1>1. DOMAIN windows = 1 .. WindowSlots /\ windows \in WnTable /\ IsFiniteSet(cursors) /\ IsFiniteSet(1 .. WindowSlots)
  <2>1. WindowSlots \in Int /\ 1 \in Int
    BY WnConstants
  <2>2. IsFiniteSet(1 .. WindowSlots)
    BY <2>1, FS_Interval
  <2> QED
    BY <2>2 DEF WnInv, WnSlots, WnTypes, WnTable
<1>2. WnDistinct(windows, cursors) /\ WnBelow(windows, cursors, issued, nextObject) /\ WnHidden(windows, issued)
  BY DEF WnInv
<1>3. Live = WnWindows \cup Menus \cup WnCursors
  BY DEF Live, WnWindows, WnCursors, WnUsed
<1>4. IsFiniteSet(WnUsed) /\ IsFiniteSet(WnMenued)
  <2>1. WnUsed \in SUBSET (1 .. WindowSlots) /\ WnMenued \in SUBSET (1 .. WindowSlots)
    BY <1>1 DEF WnUsed, WnMenued
  <2> QED
    BY <1>1, <2>1, FS_Subset
<1>5. IsFiniteSet(WnWindows) /\ Cardinality(WnWindows) = Cardinality(WnUsed) /\ Cardinality(WnWindows) \in Nat
  <2>1. PICK F : F = [s \in WnUsed |-> windows[s].handle]
    OBVIOUS
  <2>2. DOMAIN F = WnUsed /\ WnWindows = {F[s] : s \in WnUsed}
    BY <2>1 DEF WnWindows
  <2>3. \A s, t \in WnUsed : F[s] = F[t] => s = t
    <3>1. \A s \in WnUsed : s \in 1 .. WindowSlots /\ windows[s].handle # 0 /\ F[s] = windows[s].handle
      BY <1>1, <2>1 DEF WnUsed, Used
    <3> QED
      BY <1>2, <3>1 DEF WnDistinct
  <2> QED
    BY <1>4, <2>2, <2>3, ImageCount
<1>6. IsFiniteSet(Menus) /\ Cardinality(Menus) = Cardinality(WnMenued) /\ Cardinality(Menus) \in Nat
  <2>1. PICK F : F = [s \in WnMenued |-> windows[s].menu]
    OBVIOUS
  <2>2. DOMAIN F = WnMenued /\ Menus = {F[s] : s \in WnMenued}
    BY <2>1 DEF WnMenued, Menus
  <2>3. \A s, t \in WnMenued : F[s] = F[t] => s = t
    <3>1. \A s \in WnMenued : s \in 1 .. WindowSlots /\ windows[s].menu # 0 /\ F[s] = windows[s].menu
      BY <1>1, <2>1 DEF WnMenued
    <3> QED
      BY <1>2, <3>1 DEF WnDistinct
  <2> QED
    BY <1>4, <2>2, <2>3, ImageCount
<1>7. IsFiniteSet(WnCursors) /\ Cardinality(WnCursors) = Cardinality(cursors) /\ Cardinality(WnCursors) \in Nat
  <2>1. PICK F : F = [r \in cursors |-> r.handle]
    OBVIOUS
  <2>2. DOMAIN F = cursors /\ WnCursors = {F[r] : r \in cursors} /\ \A r \in cursors : F[r] = r.handle
    BY <2>1 DEF WnCursors
  <2>3. \A r, q \in cursors : F[r] = F[q] => r = q
    BY <1>2, <2>2 DEF WnDistinct
  <2> QED
    BY <1>1, <2>2, <2>3, ImageCount
<1>8. WnWindows \cap Menus = {}
  <2> SUFFICES ASSUME NEW s \in WnUsed, windows[s].handle \in Menus PROVE FALSE
    BY DEF WnWindows
  <2>1. PICK t \in 1 .. WindowSlots : windows[t].menu = windows[s].handle
    BY <1>1 DEF Menus
  <2> QED
    BY <1>1, <1>2, <2>1 DEF WnUsed, Used, WnDistinct
<1>9. (WnWindows \cup Menus) \cap WnCursors = {}
  <2> SUFFICES ASSUME NEW r \in cursors, r.handle \in WnWindows \cup Menus PROVE FALSE
    BY DEF WnCursors
  <2>1. PICK t \in 1 .. WindowSlots : windows[t].menu = r.handle \/ windows[t].handle = r.handle
    BY <1>1 DEF Menus, WnWindows, WnUsed
  <2> QED
    BY <1>2, <2>1 DEF WnDistinct
<1>10. Cardinality(Live) = Cardinality(WnUsed) + Cardinality(WnMenued) + Cardinality(cursors)
  <2>1. /\ IsFiniteSet(WnWindows \cup Menus)
        /\ Cardinality(WnWindows \cup Menus) = Cardinality(WnWindows) + Cardinality(Menus) - Cardinality(WnWindows \cap Menus)
    BY <1>5, <1>6, FS_Union
  <2>2. Cardinality(WnWindows \cap Menus) = 0 /\ Cardinality((WnWindows \cup Menus) \cap WnCursors) = 0
    BY <1>8, <1>9, FS_EmptySet
  <2>3. Cardinality(WnWindows \cup Menus \cup WnCursors)
          = Cardinality(WnWindows \cup Menus) + Cardinality(WnCursors) - Cardinality((WnWindows \cup Menus) \cap WnCursors)
    BY <1>7, <2>1, FS_Union
  <2>4. Cardinality(WnWindows \cup Menus \cup WnCursors)
          = Cardinality(WnWindows) + Cardinality(Menus) + Cardinality(WnCursors)
    <3>1. PICK a \in Nat, b \in Nat, c \in Nat :
             a = Cardinality(WnWindows) /\ b = Cardinality(Menus) /\ c = Cardinality(WnCursors)
      BY <1>5, <1>6, <1>7
    <3>2. Cardinality(WnWindows \cup Menus) = a + b
      BY <2>1, <2>2, <3>1
    <3> QED
      BY <2>2, <2>3, <3>1, <3>2
  <2> QED
    BY <1>3, <1>5, <1>6, <1>7, <2>4
<1>11. \A h \in Live \cup issued : h < nextObject
  <2>1. \A h \in WnWindows : h < nextObject
    BY <1>1, <1>2 DEF WnWindows, WnUsed, WnBelow
  <2>2. \A h \in Menus : h < nextObject
    BY <1>1, <1>2 DEF Menus, WnBelow
  <2>3. \A h \in WnCursors : h < nextObject
    BY <1>2 DEF WnCursors, WnBelow
  <2>4. \A h \in issued : h < nextObject
    BY <1>2 DEF WnBelow
  <2> QED
    BY <1>3, <2>1, <2>2, <2>3, <2>4
<1>12. \A s \in DOMAIN windows : windows[s].creating => {windows[s].handle, windows[s].menu} \cap issued = {}
  BY <1>1, <1>2 DEF WnHidden
<1>13. \A h \in passed \ issued : ~IsWindow(h)
  BY <1>1, <1>2 DEF IsWindow, WnHidden
<1> QED
  BY <1>10, <1>11, <1>12, <1>13 DEF HandlesUnique, WnUsed, WnMenued

LEMMA WnReferences == ASSUME WnInv PROVE NoDangling
<1>1. DOMAIN windows = 1 .. WindowSlots /\ windows \in WnTable /\ creates \in Seq(WnCreation)
  BY DEF WnInv, WnSlots, WnTypes, WnTable
<1>2. WnNames(windows, queue, focus, items) /\ WnClassed(windows, classes) /\ WnCreating(windows, creates)
  BY DEF WnInv
<1>3. \A i \in DOMAIN queue : IsWindow(queue[i].window)
  BY <1>1, WnQueue, WnIsWindow
<1>4. focus # 0 => IsWindow(focus)
  BY <1>1, WnQueue, WnIsWindow
<1>5. \A x \in items : x[1] \in Menus
  BY <1>1, <1>2 DEF WnNames, Menus
<1>6. \A s \in DOMAIN windows : Used(s) => windows[s].class \in classes
  BY <1>1, <1>2 DEF Used, WnClassed
<1>7. /\ DOMAIN creates = 1 .. Len(creates) /\ \A i \in DOMAIN creates : creates[i].slot \in 1 .. WindowSlots
  BY <1>1, WnCreations
<1>8. \A i \in DOMAIN creates : windows[creates[i].slot].handle = creates[i].handle
  BY <1>2, <1>7 DEF WnCreating
<1>9. {s \in DOMAIN windows : windows[s].creating} = {creates[i].slot : i \in DOMAIN creates}
  BY <1>1, <1>2, <1>7 DEF WnCreating
<1> QED
  BY <1>3, <1>4, <1>5, <1>6, <1>8, <1>9 DEF NoDangling

LEMMA WnSound == ASSUME WnInv PROVE WindowsSound /\ UserTypeOK
<1>1. nextObject \in 1 .. (scene.objects + 1)
  <2>1. nextObject \in Nat \ {0} /\ nextObject <= scene.objects + 1 /\ scene.objects \in Nat
    BY WnConstants DEF WnInv, WnTypes
  <2> QED
    BY <2>1
<1>2. \A s \in DOMAIN windows : windows[s] # NoWindow => windows[s].class \in Classes /\ windows[s].size \in Sizes
  BY DEF WnInv, WnSlots, WnTable
<1>3. UserTypeOK
  BY <1>1, <1>2 DEF UserTypeOK, WnInv, WnTypes
<1> QED
  BY <1>3, WnUnique, WnReferences DEF WindowsSound

LEMMA WnStart == ASSUME UserInit PROVE WnInv
<1>1. /\ queue \in Seq(WnMessage) /\ creates \in Seq(WnCreation) /\ inits \in Seq(Nat)
      /\ Len(queue) = 0 /\ Len(creates) = 0 /\ Len(inits) = 0
  BY EmptySeq DEF UserInit
<1>2. scene \in Scenes /\ scene.objects \in Nat
  BY WnConstants DEF UserInit
<1>3. WnTypes
  <2>1. IsFiniteSet({}) /\ Cardinality({}) = 0
    BY FS_EmptySet
  <2>2. /\ scene \in Scenes /\ ended \in BOOLEAN /\ classes \subseteq Classes /\ pressed \subseteq Buttons
        /\ IsFiniteSet(items) /\ Cardinality(items) = 0 /\ IsFiniteSet(cursors) /\ cursors \subseteq WnCursor
        /\ nextObject = 1
    BY <2>1 DEF UserInit
  <2>3. nextObject \in Nat \ {0} /\ nextObject <= scene.objects + 1
    BY <1>2, <2>2
  <2>4. Len(queue) <= QueueSlots /\ Cardinality(items) <= ItemSlots /\ Len(creates) <= CreateDepth /\ Len(inits) <= InitDepth
    BY <1>1, <2>2, WnConstants
  <2> QED
    BY <1>1, <2>2, <2>3, <2>4 DEF WnTypes
<1>4. /\ windows = [s \in 1 .. WindowSlots |-> NoWindow] /\ \A s \in 1 .. WindowSlots : windows[s] = NoWindow
  BY DEF UserInit
<1>5. WnSlots(windows)
  BY <1>4, WnEmpty DEF WnSlots, WnTable
<1>6. cursors = {} /\ issued = {} /\ items = {} /\ classes = {} /\ nextObject = 1 /\ focus = 0
  BY DEF UserInit
<1>7. WnDistinct(windows, cursors) /\ WnHidden(windows, issued)
  BY <1>4, <1>6, WnEmpty DEF WnDistinct, WnHidden
<1>8. WnBelow(windows, cursors, issued, nextObject)
  <2>1. 0 < nextObject
    BY <1>6
  <2> QED
    BY <1>4, <1>6, <2>1, WnEmpty DEF WnBelow
<1>9. WnNames(windows, queue, focus, items) /\ WnCreating(windows, creates)
  <2>1. \A i \in 1 .. 0 : FALSE
    OBVIOUS
  <2> QED
    BY <1>1, <1>4, <1>6, <2>1, WnEmpty DEF WnNames, WnCreating
<1>10. WnClassed(windows, classes) /\ WnKnown(items, issued)
  BY <1>4, <1>6, WnEmpty DEF WnClassed, WnKnown
<1> QED
  BY <1>3, <1>5, <1>7, <1>8, <1>9, <1>10 DEF WnInv

-----------------------------------------------------------------------------
(* The surfaces, the contexts and the palettes.                            *)

SfRecord == [kind : {"none", "target", "bitmap"}, handle : Nat, target : Nat, size : Nat, offset : Nat, selected : Nat]
SfTable == [1 .. SurfaceSlots -> SfRecord]
DcRecord == [kind : {"window", "memory"}, owner : Nat, bitmap : Nat \cup {Stock}, palette : Nat,
             surface : 0 .. SurfaceSlots]

\* Every surface in use has its own part of the memory.
SfPlaces(S) ==
    /\ S \in SfTable
    /\ \A s \in 1 .. SurfaceSlots : S[s].kind # "none" =>
         S[s].offset + S[s].size <= PixelCapacity /\ S[s].size \in Sizes \cup BitmapSizes
    /\ \A s, t \in 1 .. SurfaceSlots : S[s].kind # "none" /\ S[t].kind # "none" /\ s # t =>
         ~Overlap(S[s].offset, S[s].size, S[t].offset, S[t].size)

\* An owner has one target; a bitmap's handle is its own, and was given out.
SfNamed(S, n) ==
    /\ \A s, t \in 1 .. SurfaceSlots : S[s].kind = "target" /\ S[t].kind = "target" /\ S[s].target = S[t].target => s = t
    /\ \A s, t \in 1 .. SurfaceSlots : S[s].kind = "bitmap" /\ S[t].kind = "bitmap" /\ S[s].handle = S[t].handle => s = t
    /\ \A s \in 1 .. SurfaceSlots : S[s].kind = "bitmap" => S[s].handle # 0 /\ S[s].handle < n

DcTable(D, n) ==
    /\ IsFiniteSet(DOMAIN D) /\ Cardinality(DOMAIN D) <= DcSlots
    /\ \A d \in DOMAIN D : d \in Nat \ {0} /\ d < n /\ D[d] \in DcRecord

\* A context's slot holds the surface it stands for.
DcHeld(w, S) ==
    /\ w.kind = "window" => /\ w.bitmap = 0 /\ w.surface \in 1 .. SurfaceSlots
                            /\ S[w.surface].kind = "target" /\ S[w.surface].target = w.owner
    /\ w.kind = "memory" /\ w.bitmap = Stock => w.surface = 0
    /\ w.kind = "memory" /\ w.bitmap # Stock =>
         w.surface \in 1 .. SurfaceSlots /\ S[w.surface].kind = "bitmap" /\ S[w.surface].handle = w.bitmap
DcHolds(D, S) == \A d \in DOMAIN D : DcHeld(D[d], S)

\* What is counted as selected is.
Holders(D, s) == {d \in DOMAIN D : D[d].kind = "memory" /\ D[d].surface = s}
DcCounts(D, S) == \A s \in 1 .. SurfaceSlots : S[s].kind = "bitmap" => S[s].selected = Cardinality(Holders(D, s))

Painters(D, p) == {d \in DOMAIN D : D[d].palette = p}
DcPalettes(D, P, n) ==
    /\ \A p \in DOMAIN P : p \in Nat \ {0} /\ p < n /\ P[p] = Cardinality(Painters(D, p))
    /\ \A d \in DOMAIN D : D[d].palette # 0 => D[d].palette \in DOMAIN P

\* The inductive invariant of what is drawn in.
GdInv ==
    /\ nextGdi \in Nat \ {0} /\ DcTable(dcs, nextGdi) /\ SfPlaces(surfaces) /\ SfNamed(surfaces, nextGdi)
    /\ DcHolds(dcs, surfaces) /\ DcCounts(dcs, surfaces) /\ DcPalettes(dcs, palettes, nextGdi)

LEMMA GdConstants ==
  /\ DcSlots \in Nat \ {0} /\ SurfaceSlots \in Nat \ {0} /\ PixelCapacity \in Nat \ {0}
  /\ Sizes \cup BitmapSizes \subseteq Nat \ {0} /\ IsFiniteSet(1 .. SurfaceSlots) /\ Stock \notin Nat
<1>1. DcSlots \in Nat \ {0} /\ SurfaceSlots \in Nat \ {0} /\ PixelCapacity \in Nat \ {0} /\ BitmapSizes \subseteq Nat \ {0}
  BY GdiAssumption
<1>2. SurfaceSlots \in Int /\ 1 \in Int /\ -1 \notin Nat
  BY <1>1
<1>3. IsFiniteSet(1 .. SurfaceSlots)
  BY <1>2, FS_Interval
<1> QED
  BY <1>1, <1>2, <1>3, WnConstants DEF Stock

\* The fields of a surface and of a context.
LEMMA SfFields ==
  ASSUME NEW S, S \in SfTable, NEW s \in 1 .. SurfaceSlots
  PROVE  /\ S[s] \in SfRecord /\ S[s].kind \in {"none", "target", "bitmap"} /\ S[s].handle \in Nat /\ S[s].target \in Nat
         /\ S[s].size \in Nat /\ S[s].offset \in Nat /\ S[s].selected \in Nat /\ DOMAIN S = 1 .. SurfaceSlots
<1>1. S[s] \in SfRecord /\ DOMAIN S = 1 .. SurfaceSlots
  BY DEF SfTable
<1> QED
  BY <1>1 DEF SfRecord

LEMMA DcFields ==
  ASSUME NEW v \in DcRecord
  PROVE  /\ v.kind \in {"window", "memory"} /\ v.owner \in Nat /\ v.bitmap \in Nat \cup {Stock} /\ v.palette \in Nat
         /\ v.surface \in 0 .. SurfaceSlots
BY DEF DcRecord

LEMMA MinIn ==
  ASSUME NEW T, T \subseteq Nat, T # {}
  PROVE  Min(T) \in T
<1>1. \E x \in T : \A y \in T : x =< y
  BY Least
<1> QED
  BY <1>1 DEF Min

\* Slots, as the code sees them.
LEMMA GdSlots ==
  ASSUME surfaces \in SfTable, NEW owner, NEW b
  PROVE  /\ InUse = {s \in 1 .. SurfaceSlots : surfaces[s].kind # "none"} /\ DOMAIN surfaces = 1 .. SurfaceSlots
         /\ Targets(owner) = {s \in 1 .. SurfaceSlots : surfaces[s].kind = "target" /\ surfaces[s].target = owner}
         /\ Bitmap(b) = {s \in 1 .. SurfaceSlots : surfaces[s].kind = "bitmap" /\ surfaces[s].handle = b}
<1>1. DOMAIN surfaces = 1 .. SurfaceSlots
  BY DEF SfTable
<1> QED
  BY <1>1 DEF InUse, Targets, Bitmap

\* All surfaces but one are the same.
SfElse(T, S, s) == \A t \in 1 .. SurfaceSlots : t # s => T[t] = S[t]

\* A surface that moves where it overlaps no other.
SfFits(S, s, v) ==
    v.kind # "none" =>
        /\ v.offset + v.size <= PixelCapacity /\ v.size \in Sizes \cup BitmapSizes
        /\ \A t \in 1 .. SurfaceSlots : t # s /\ S[t].kind # "none" => ~Overlap(v.offset, v.size, S[t].offset, S[t].size)
LEMMA SfMoved ==
  ASSUME NEW S, SfPlaces(S), NEW s \in 1 .. SurfaceSlots, NEW T, T \in SfTable, SfElse(T, S, s), SfFits(S, s, T[s])
  PROVE  SfPlaces(T)
<1>1. \A t \in 1 .. SurfaceSlots : T[t].kind # "none" =>
        T[t].offset + T[t].size <= PixelCapacity /\ T[t].size \in Sizes \cup BitmapSizes
  <2> SUFFICES ASSUME NEW t \in 1 .. SurfaceSlots, T[t].kind # "none"
               PROVE  T[t].offset + T[t].size <= PixelCapacity /\ T[t].size \in Sizes \cup BitmapSizes
    OBVIOUS
  <2>1. CASE t = s
    BY <2>1 DEF SfFits
  <2>2. CASE t # s
    <3>1. T[t] = S[t]
      BY <2>2 DEF SfElse
    <3> QED
      BY <3>1 DEF SfPlaces
  <2> QED
    BY <2>1, <2>2
<1>2. ASSUME NEW t \in 1 .. SurfaceSlots, NEW u \in 1 .. SurfaceSlots, T[t].kind # "none", T[u].kind # "none", t # u
      PROVE  ~Overlap(T[t].offset, T[t].size, T[u].offset, T[u].size)
  <2>1. CASE t = s
    <3>1. T[u] = S[u] /\ u # s
      BY <1>2, <2>1 DEF SfElse
    <3> QED
      BY <1>2, <2>1, <3>1 DEF SfFits
  <2>2. CASE u = s
    <3>1. T[t] = S[t] /\ t # s
      BY <1>2, <2>2 DEF SfElse
    <3>2. ~Overlap(T[u].offset, T[u].size, T[t].offset, T[t].size)
      BY <1>2, <2>2, <3>1 DEF SfFits
    <3> QED
      BY <3>2 DEF Overlap
  <2>3. CASE t # s /\ u # s
    <3>1. T[t] = S[t] /\ T[u] = S[u]
      BY <2>3 DEF SfElse
    <3> QED
      BY <1>2, <3>1 DEF SfPlaces
  <2> QED
    BY <2>1, <2>2, <2>3
<1> QED
  BY <1>1, <1>2 DEF SfPlaces

\* A part of the memory that is free, but for what the ignored surface has.
LEMMA SfGap ==
  ASSUME SfPlaces(surfaces), NEW size \in Sizes \cup BitmapSizes, NEW I, Gaps(size, I) # {}
  PROVE  /\ Gap(size, I) \in Nat /\ Gap(size, I) + size <= PixelCapacity
         /\ \A t \in 1 .. SurfaceSlots : t \notin I /\ surfaces[t].kind # "none" =>
              ~Overlap(Gap(size, I), size, surfaces[t].offset, surfaces[t].size)
<1>1. Gaps(size, I) \subseteq Nat
  BY DEF Gaps
<1>2. PICK o : o = Gap(size, I)
  OBVIOUS
<1>3. o \in Gaps(size, I)
  BY <1>1, <1>2, MinIn DEF Gap
<1>4. /\ o \in 0 .. (PixelCapacity - size)
      /\ \A s \in InUse \ I : ~Overlap(o, size, surfaces[s].offset, surfaces[s].size)
  BY <1>3 DEF Gaps
<1>5. size \in Nat /\ PixelCapacity \in Nat
  BY GdConstants
<1>6. o \in Nat /\ o + size <= PixelCapacity
  BY <1>4, <1>5
<1>7. \A t \in 1 .. SurfaceSlots : t \notin I /\ surfaces[t].kind # "none" => t \in InUse \ I
  BY GdSlots DEF SfPlaces
<1> QED
  BY <1>2, <1>4, <1>6, <1>7

\* allocate_surface.
SfAllocates(T, s, kind, handle, owner, size) ==
    T = Allocated(kind, handle, owner, size) /\ s = Min(DOMAIN surfaces \ InUse)
LEMMA SfAllocated ==
  ASSUME SfPlaces(surfaces), NEW kind \in {"target", "bitmap"}, NEW handle \in Nat, NEW owner \in Nat,
         NEW size \in Sizes \cup BitmapSizes, Allocates(size), NEW T, NEW s, SfAllocates(T, s, kind, handle, owner, size)
  PROVE  /\ s \in 1 .. SurfaceSlots /\ surfaces[s].kind = "none" /\ SfPlaces(T) /\ SfElse(T, surfaces, s)
         /\ T[s].kind = kind /\ T[s].handle = handle /\ T[s].target = owner /\ T[s].size = size /\ T[s].selected = 0
<1>1. surfaces \in SfTable /\ DOMAIN surfaces = 1 .. SurfaceSlots /\ InUse = {t \in 1 .. SurfaceSlots : surfaces[t].kind # "none"}
  BY GdSlots DEF SfPlaces
<1>2. s \in DOMAIN surfaces \ InUse
  <2>1. DOMAIN surfaces \ InUse # {}
    BY <1>1 DEF Allocates
  <2>2. DOMAIN surfaces \ InUse \subseteq Nat
    BY <1>1
  <2> QED
    BY <2>1, <2>2, MinIn DEF SfAllocates
<1>3. s \in 1 .. SurfaceSlots /\ surfaces[s].kind = "none"
  BY <1>1, <1>2
<1>4. PICK o : o = Gap(size, {})
  OBVIOUS
<1>5. /\ o \in Nat /\ o + size <= PixelCapacity
      /\ \A t \in 1 .. SurfaceSlots : surfaces[t].kind # "none" => ~Overlap(o, size, surfaces[t].offset, surfaces[t].size)
  BY <1>4, SfGap DEF Allocates
<1>6. PICK v : v = [NoSurface EXCEPT !.kind = kind, !.handle = handle, !.target = owner, !.size = size, !.offset = o]
  OBVIOUS
<1>7. /\ v.kind = kind /\ v.handle = handle /\ v.target = owner /\ v.size = size /\ v.offset = o /\ v.selected = 0
      /\ v \in SfRecord
  <2>1. v = [kind |-> kind, handle |-> handle, target |-> owner, size |-> size, offset |-> o, selected |-> 0]
    BY <1>6 DEF NoSurface
  <2> QED
    BY <1>5, <2>1, GdConstants DEF SfRecord
<1>8. T = [surfaces EXCEPT ![s] = v]
  BY <1>4, <1>6 DEF Allocated, SfAllocates
<1>9. T \in SfTable /\ T[s] = v /\ SfElse(T, surfaces, s)
  BY <1>1, <1>3, <1>7, <1>8 DEF SfTable, SfElse
<1>10. SfFits(surfaces, s, T[s])
  BY <1>5, <1>7, <1>9 DEF SfFits
<1> QED
  BY <1>3, <1>7, <1>9, <1>10, SfMoved

\* Contexts that come, go and change.
DcAdds(E, D, n, v) == E = With(D, n, v)
DcGrown(E, D, n, v) == DOMAIN E = DOMAIN D \cup {n} /\ E[n] = v /\ n \notin DOMAIN D /\ \A d \in DOMAIN D : E[d] = D[d]
DcDrops(E, D, x) == E = Without(D, x)
LEMMA DcAdded ==
  ASSUME NEW D, NEW n, n \in Nat \ {0}, DcTable(D, n), Cardinality(DOMAIN D) < DcSlots, NEW v, v \in DcRecord,
         NEW E, DcAdds(E, D, n, v)
  PROVE  DcTable(E, n + 1) /\ DcGrown(E, D, n, v)
<1>1. n \notin DOMAIN D
  BY DEF DcTable
<1>2. DOMAIN E = DOMAIN D \cup {n} /\ E[n] = v /\ \A d \in DOMAIN D : E[d] = D[d]
  BY <1>1 DEF With, DcAdds
<1>3. IsFiniteSet(DOMAIN E) /\ Cardinality(DOMAIN E) <= DcSlots
  <2>1. PICK k \in Nat : k = Cardinality(DOMAIN D) /\ k < DcSlots
    BY FS_CardinalityType DEF DcTable
  <2>2. IsFiniteSet(DOMAIN E) /\ Cardinality(DOMAIN E) = k + 1
    BY <1>1, <1>2, <2>1, FS_AddElement DEF DcTable
  <2> QED
    BY <2>1, <2>2, GdConstants
<1>4. \A d \in DOMAIN E : d \in Nat \ {0} /\ d < n + 1 /\ E[d] \in DcRecord
  <2> SUFFICES ASSUME NEW d \in DOMAIN E PROVE d \in Nat \ {0} /\ d < n + 1 /\ E[d] \in DcRecord
    OBVIOUS
  <2>1. CASE d = n
    BY <1>2, <2>1
  <2>2. CASE d \in DOMAIN D
    <3>1. d \in Nat \ {0} /\ d < n /\ E[d] \in DcRecord
      BY <1>2, <2>2 DEF DcTable
    <3> QED
      BY <3>1
  <2> QED
    BY <1>2, <2>1, <2>2
<1> QED
  BY <1>1, <1>2, <1>3, <1>4 DEF DcTable, DcGrown

LEMMA DcDropped ==
  ASSUME NEW D, NEW n, n \in Nat \ {0}, DcTable(D, n), NEW x, x \in DOMAIN D, NEW E, DcDrops(E, D, x)
  PROVE  DcTable(E, n) /\ DOMAIN E = DOMAIN D \ {x} /\ \A d \in DOMAIN E : E[d] = D[d]
<1>1. DOMAIN E = DOMAIN D \ {x} /\ \A d \in DOMAIN E : E[d] = D[d]
  BY DEF Without, Restrict, DcDrops
<1>2. IsFiniteSet(DOMAIN E) /\ Cardinality(DOMAIN E) <= DcSlots
  <2>1. PICK k \in Nat : k = Cardinality(DOMAIN D) /\ k <= DcSlots
    BY FS_CardinalityType DEF DcTable
  <2>2. IsFiniteSet(DOMAIN E) /\ Cardinality(DOMAIN E) = k - 1
    BY <1>1, <2>1, FS_RemoveElement DEF DcTable
  <2> QED
    BY <2>1, <2>2, GdConstants
<1> QED
  BY <1>1, <1>2 DEF DcTable

\* The counts of a surface and of a palette follow the contexts.
DcAsMany(E, D) ==
    /\ \A s \in 1 .. SurfaceSlots : Holders(E, s) = Holders(D, s)
    /\ \A p \in Nat \ {0} : Painters(E, p) = Painters(D, p)
LEMMA DcAddedCounts ==
  ASSUME NEW D, NEW n, NEW v, NEW E, DcGrown(E, D, n, v), v.palette = 0, v.kind = "memory" => v.surface = 0
  PROVE  DcAsMany(E, D)
<1>0. DOMAIN E = DOMAIN D \cup {n} /\ E[n] = v /\ n \notin DOMAIN D /\ \A d \in DOMAIN D : E[d] = D[d]
  BY DEF DcGrown
<1>1. \A d \in DOMAIN E : d = n \/ (d \in DOMAIN D /\ E[d] = D[d])
  BY <1>0
<1>2. ASSUME NEW s \in 1 .. SurfaceSlots PROVE Holders(E, s) = Holders(D, s)
  <2>1. ~(v.kind = "memory" /\ v.surface = s)
    OBVIOUS
  <2> QED
    BY <1>0, <1>1, <2>1 DEF Holders
<1>3. ASSUME NEW p \in Nat \ {0} PROVE Painters(E, p) = Painters(D, p)
  <2>1. v.palette # p
    OBVIOUS
  <2> QED
    BY <1>0, <1>1, <2>1 DEF Painters
<1> QED
  BY <1>2, <1>3 DEF DcAsMany

\* Sets of contexts with one less or one more.
LEMMA CountLess ==
  ASSUME NEW A, IsFiniteSet(A), NEW x \in A, NEW B, B = A \ {x}
  PROVE  Cardinality(B) = Cardinality(A) - 1 /\ Cardinality(B) \in Nat /\ Cardinality(A) \in Nat
BY FS_RemoveElement, FS_CardinalityType
LEMMA CountMore ==
  ASSUME NEW A, IsFiniteSet(A), NEW x, x \notin A, NEW B, B = A \cup {x}
  PROVE  Cardinality(B) = Cardinality(A) + 1 /\ Cardinality(B) \in Nat /\ Cardinality(A) \in Nat
BY FS_AddElement, FS_CardinalityType
LEMMA DcFinite ==
  ASSUME NEW D, IsFiniteSet(DOMAIN D), NEW s, NEW p
  PROVE  IsFiniteSet(Holders(D, s)) /\ IsFiniteSet(Painters(D, p))
<1>1. Holders(D, s) \in SUBSET DOMAIN D /\ Painters(D, p) \in SUBSET DOMAIN D
  BY DEF Holders, Painters
<1> QED
  BY <1>1, FS_Subset

\* A surface with the same names.
SfLike(T, S, s) == T[s].kind = S[s].kind /\ T[s].handle = S[s].handle /\ T[s].target = S[s].target
LEMMA DcHeldOn ==
  ASSUME NEW w, w \in DcRecord, NEW S, DcHeld(w, S), NEW T,
         \A t \in 1 .. SurfaceSlots : S[t].kind # "none" /\ t = w.surface => SfLike(T, S, t)
  PROVE  DcHeld(w, T)
BY DEF DcHeld, SfLike
LEMMA SfNamedOn ==
  ASSUME NEW S, NEW n, SfNamed(S, n), NEW T, \A t \in 1 .. SurfaceSlots : SfLike(T, S, t) \/ T[t].kind = "none"
  PROVE  SfNamed(T, n)
<1>1. \A t \in 1 .. SurfaceSlots : T[t].kind # "none" => SfLike(T, S, t)
  OBVIOUS
<1>2. \A s, t \in 1 .. SurfaceSlots : T[s].kind = "target" /\ T[t].kind = "target" /\ T[s].target = T[t].target => s = t
  BY <1>1 DEF SfNamed, SfLike
<1>3. \A s, t \in 1 .. SurfaceSlots : T[s].kind = "bitmap" /\ T[t].kind = "bitmap" /\ T[s].handle = T[t].handle => s = t
  BY <1>1 DEF SfNamed, SfLike
<1>4. \A s \in 1 .. SurfaceSlots : T[s].kind = "bitmap" => T[s].handle # 0 /\ T[s].handle < n
  BY <1>1 DEF SfNamed, SfLike
<1> QED
  BY <1>2, <1>3, <1>4 DEF SfNamed
LEMMA SfNamedNext ==
  ASSUME NEW S, S \in SfTable, NEW n, n \in Nat \ {0}, SfNamed(S, n)
  PROVE  SfNamed(S, n + 1)
<1>1. ASSUME NEW s \in 1 .. SurfaceSlots, S[s].kind = "bitmap" PROVE S[s].handle # 0 /\ S[s].handle < n + 1
  <2>1. S[s].handle \in Nat /\ S[s].handle # 0 /\ S[s].handle < n
    BY <1>1, SfFields DEF SfNamed
  <2> QED
    BY <2>1
<1> QED
  BY <1>1 DEF SfNamed
LEMMA DcPalettesNext ==
  ASSUME NEW D, NEW P, NEW n, n \in Nat \ {0}, DcPalettes(D, P, n)
  PROVE  DcPalettes(D, P, n + 1)
<1>1. ASSUME NEW p \in DOMAIN P PROVE p \in Nat \ {0} /\ p < n + 1 /\ P[p] = Cardinality(Painters(D, p))
  <2>1. p \in Nat \ {0} /\ p < n /\ P[p] = Cardinality(Painters(D, p))
    BY DEF DcPalettes
  <2> QED
    BY <2>1
<1> QED
  BY <1>1 DEF DcPalettes

\* GetDC and BeginPaint.
LEMMA GdGetDc ==
  ASSUME GdInv, NEW owner \in Nat, NEW size \in Sizes \cup BitmapSizes, GetDc(owner, size)
  PROVE  /\ GdInv' /\ nextGdi' = nextGdi + 1 /\ dcs' = With(dcs, nextGdi, dcs'[nextGdi]) /\ dcs'[nextGdi].owner = owner
         /\ \A t \in 1 .. SurfaceSlots : \/ surfaces'[t] = surfaces[t]
                                         \/ surfaces'[t].kind = "target" /\ surfaces'[t].target = owner
                                            /\ surfaces'[t].size = size
<1>1. PICK n \in Nat \ {0} : n = nextGdi /\ nextGdi' = n + 1 /\ palettes' = palettes
  BY DEF GdInv, GetDc, NewDc
<1>2. /\ DcTable(dcs, n) /\ SfPlaces(surfaces) /\ SfNamed(surfaces, n) /\ surfaces \in SfTable
      /\ DcHolds(dcs, surfaces) /\ DcCounts(dcs, surfaces) /\ DcPalettes(dcs, palettes, n)
  BY <1>1 DEF GdInv, SfPlaces
<1>3. PICK s : s = IF Targets(owner) # {} THEN Min(Targets(owner)) ELSE Min(DOMAIN surfaces \ InUse)
  OBVIOUS
<1>4. PICK v : v = [kind |-> "window", owner |-> owner, bitmap |-> 0, palette |-> 0, surface |-> s]
  OBVIOUS
<1>5. dcs' = With(dcs, n, v) /\ Cardinality(DOMAIN dcs) < DcSlots
  BY <1>1, <1>3, <1>4 DEF GetDc, NewDc
<1>6. /\ s \in 1 .. SurfaceSlots /\ surfaces'[s].kind = "target" /\ surfaces'[s].target = owner /\ surfaces'[s].size = size
      /\ SfElse(surfaces', surfaces, s) /\ SfPlaces(surfaces')
      /\ surfaces' = surfaces \/ (surfaces[s].kind = "none" /\ Targets(owner) = {})
  <2>1. CASE Targets(owner) # {}
    <3>1. surfaces' = surfaces
      BY <2>1 DEF GetDc
    <3>2. Targets(owner) = {t \in 1 .. SurfaceSlots : surfaces[t].kind = "target" /\ surfaces[t].target = owner}
      BY <1>2, GdSlots
    <3>3. Targets(owner) \subseteq Nat
      BY <3>2
    <3>4. s \in Targets(owner)
      BY <1>3, <2>1, <3>3, MinIn
    <3>5. surfaces[s].size = size
      BY <3>4 DEF GetDc
    <3> QED
      BY <1>2, <3>1, <3>2, <3>4, <3>5 DEF SfElse
  <2>2. CASE Targets(owner) = {}
    <3>1. Allocates(size) /\ surfaces' = Allocated("target", 0, owner, size) /\ s = Min(DOMAIN surfaces \ InUse)
      BY <1>3, <2>2 DEF GetDc
    <3>2. SfAllocates(surfaces', s, "target", 0, owner, size)
      BY <3>1 DEF SfAllocates
    <3>3. /\ s \in 1 .. SurfaceSlots /\ surfaces[s].kind = "none" /\ SfPlaces(surfaces') /\ SfElse(surfaces', surfaces, s)
          /\ surfaces'[s].kind = "target" /\ surfaces'[s].target = owner /\ surfaces'[s].size = size
      BY <1>2, <3>1, <3>2, SfAllocated
    <3> QED
      BY <2>2, <3>3
  <2> QED
    BY <2>1, <2>2
<1>7. v \in DcRecord
  BY <1>4, <1>6 DEF DcRecord
<1>8. /\ DcTable(dcs', n + 1) /\ DOMAIN dcs' = DOMAIN dcs \cup {n} /\ dcs'[n] = v /\ n \notin DOMAIN dcs
      /\ \A d \in DOMAIN dcs : dcs'[d] = dcs[d]
  <2>1. DcAdds(dcs', dcs, n, v)
    BY <1>5 DEF DcAdds
  <2>2. DcTable(dcs', n + 1) /\ DcGrown(dcs', dcs, n, v)
    BY <1>2, <1>5, <1>7, <2>1, DcAdded
  <2> QED
    BY <2>2 DEF DcGrown
<1>9. \A t \in 1 .. SurfaceSlots : surfaces'[t] = surfaces[t] \/ (t = s /\ surfaces[t].kind = "none" /\ Targets(owner) = {})
  BY <1>6 DEF SfElse
<1>10. SfNamed(surfaces', n + 1)
  <2>1. \A t \in 1 .. SurfaceSlots : Targets(owner) = {} => ~(surfaces[t].kind = "target" /\ surfaces[t].target = owner)
    BY <1>2, GdSlots
  <2>2. ASSUME NEW t \in 1 .. SurfaceSlots, NEW u \in 1 .. SurfaceSlots, surfaces'[t].kind = "target",
               surfaces'[u].kind = "target", surfaces'[t].target = surfaces'[u].target
        PROVE  t = u
    BY <1>2, <1>6, <1>9, <2>1, <2>2 DEF SfNamed
  <2>3. \A t \in 1 .. SurfaceSlots : surfaces'[t].kind = "bitmap" => surfaces'[t] = surfaces[t] /\ surfaces[t].kind = "bitmap"
    BY <1>6, <1>9
  <2>4. \A t \in 1 .. SurfaceSlots : surfaces'[t].kind = "bitmap" => surfaces'[t].handle # 0 /\ surfaces'[t].handle < n + 1
    <3> SUFFICES ASSUME NEW t \in 1 .. SurfaceSlots, surfaces'[t].kind = "bitmap"
                 PROVE  surfaces'[t].handle # 0 /\ surfaces'[t].handle < n + 1
      OBVIOUS
    <3>1. surfaces'[t].handle \in Nat /\ surfaces'[t].handle # 0 /\ surfaces'[t].handle < n
      BY <1>2, <2>3, SfFields DEF SfNamed
    <3> QED
      BY <3>1
  <2> QED
    BY <1>2, <2>2, <2>3, <2>4 DEF SfNamed
<1>11. DcHolds(dcs', surfaces')
  <2> SUFFICES ASSUME NEW d \in DOMAIN dcs' PROVE DcHeld(dcs'[d], surfaces')
    BY DEF DcHolds
  <2>1. CASE d = n
    <3>1. dcs'[d] = v
      BY <1>8, <2>1
    <3>2. v.kind = "window" /\ v.bitmap = 0 /\ v.surface = s /\ v.owner = owner
      BY <1>4
    <3>3. DcHeld(v, surfaces')
      BY <1>6, <3>2 DEF DcHeld
    <3> QED
      BY <3>1, <3>3
  <2>2. CASE d # n
    <3>1. d \in DOMAIN dcs /\ dcs'[d] = dcs[d] /\ dcs[d] \in DcRecord /\ DcHeld(dcs[d], surfaces)
      BY <1>2, <1>8, <2>2 DEF DcTable, DcHolds
    <3>2. ASSUME NEW t \in 1 .. SurfaceSlots, surfaces[t].kind # "none" PROVE SfLike(surfaces', surfaces, t)
      BY <1>9, <3>2 DEF SfLike
    <3> QED
      BY <3>1, <3>2, DcHeldOn
  <2> QED
    BY <2>1, <2>2
<1>12. /\ \A t \in 1 .. SurfaceSlots : Holders(dcs', t) = Holders(dcs, t)
       /\ \A p \in Nat \ {0} : Painters(dcs', p) = Painters(dcs, p)
  <2>1. v.palette = 0 /\ v.kind # "memory"
    BY <1>4
  <2>2. DcGrown(dcs', dcs, n, v)
    BY <1>8 DEF DcGrown
  <2>3. DcAsMany(dcs', dcs)
    BY <2>1, <2>2, DcAddedCounts
  <2> QED
    BY <2>3 DEF DcAsMany
<1>13. DcCounts(dcs', surfaces')
  <2>1. \A t \in 1 .. SurfaceSlots : surfaces'[t].kind = "bitmap" => surfaces'[t] = surfaces[t]
    BY <1>6, <1>9
  <2> QED
    BY <1>2, <1>12, <2>1 DEF DcCounts
<1>14. DcPalettes(dcs', palettes', n + 1)
  <2>1. DcPalettes(dcs', palettes, n)
    <3>1. \A d \in DOMAIN dcs' : dcs'[d].palette # 0 => dcs'[d].palette \in DOMAIN palettes
      BY <1>2, <1>4, <1>8 DEF DcPalettes
    <3> QED
      BY <1>2, <1>12, <3>1 DEF DcPalettes
  <2> QED
    BY <1>1, <2>1, DcPalettesNext
<1>15. GdInv'
  BY <1>1, <1>6, <1>8, <1>10, <1>11, <1>13, <1>14 DEF GdInv
<1> QED
  BY <1>1, <1>4, <1>5, <1>6, <1>8, <1>9, <1>15

\* What every call leaves: the targets there are, the contexts' owners.
GdSteady ==
    /\ \A t \in 1 .. SurfaceSlots : surfaces'[t].kind = "target" =>
         surfaces[t].kind = "target" /\ surfaces'[t].target = surfaces[t].target /\ surfaces'[t].size = surfaces[t].size
    /\ \A d \in DOMAIN dcs' : d = nextGdi \/ (d \in DOMAIN dcs /\ dcs'[d].owner = dcs[d].owner)
    /\ nextGdi' \in {nextGdi, nextGdi + 1}

LEMMA GdParts ==
  ASSUME GdInv
  PROVE  /\ nextGdi \in Nat \ {0} /\ DcTable(dcs, nextGdi) /\ SfPlaces(surfaces) /\ SfNamed(surfaces, nextGdi)
         /\ surfaces \in SfTable /\ DOMAIN surfaces = 1 .. SurfaceSlots
         /\ DcHolds(dcs, surfaces) /\ DcCounts(dcs, surfaces) /\ DcPalettes(dcs, palettes, nextGdi)
         /\ IsFiniteSet(DOMAIN dcs) /\ \A d \in DOMAIN dcs : dcs[d] \in DcRecord /\ DcHeld(dcs[d], surfaces)
BY DEF GdInv, SfPlaces, SfTable, DcTable, DcHolds

\* A context that goes: its palette is used by one less.
LEMMA DcPalettesLess ==
  ASSUME NEW D, IsFiniteSet(DOMAIN D), NEW P, NEW n, DcPalettes(D, P, n), NEW x, x \in DOMAIN D,
         NEW E, DOMAIN E = DOMAIN D \ {x}, \A d \in DOMAIN E : E[d] = D[d],
         NEW Q, NEW p, p = D[x].palette, Q = IF p \in DOMAIN P THEN [P EXCEPT ![p] = @ - 1] ELSE P
  PROVE  DcPalettes(E, Q, n)
<1>1. DOMAIN Q = DOMAIN P /\ \A q \in DOMAIN P : Q[q] = IF q = p THEN P[q] - 1 ELSE P[q]
  OBVIOUS
<1>2. ASSUME NEW q \in DOMAIN P PROVE Q[q] = Cardinality(Painters(E, q))
  <2>1. P[q] = Cardinality(Painters(D, q)) /\ IsFiniteSet(Painters(D, q))
    BY DcFinite DEF DcPalettes
  <2>2. CASE q = p
    <3>1. x \in Painters(D, q) /\ Painters(E, q) = Painters(D, q) \ {x}
      BY <2>2 DEF Painters
    <3> QED
      BY <1>1, <2>1, <2>2, <3>1, CountLess
  <2>3. CASE q # p
    <3>1. Painters(E, q) = Painters(D, q)
      BY <2>3 DEF Painters
    <3> QED
      BY <1>1, <2>1, <2>3, <3>1
  <2> QED
    BY <2>2, <2>3
<1>3. \A d \in DOMAIN E : E[d].palette # 0 => E[d].palette \in DOMAIN Q
  BY <1>1 DEF DcPalettes
<1> QED
  BY <1>1, <1>2, <1>3 DEF DcPalettes

\* A context that goes.
LEMMA DcGone ==
  ASSUME GdInv, NEW x, x \in DOMAIN dcs, dcs' = Without(dcs, x), palettes' = Deselected(dcs[x].palette)
  PROVE  /\ DcTable(dcs', nextGdi) /\ DOMAIN dcs' = DOMAIN dcs \ {x} /\ DcPalettes(dcs', palettes', nextGdi)
         /\ \A d \in DOMAIN dcs' : dcs'[d] = dcs[d]
<1>1. DcDrops(dcs', dcs, x) /\ DcTable(dcs, nextGdi) /\ nextGdi \in Nat \ {0}
  BY GdParts DEF DcDrops
<1>2. DcTable(dcs', nextGdi) /\ DOMAIN dcs' = DOMAIN dcs \ {x} /\ \A d \in DOMAIN dcs' : dcs'[d] = dcs[d]
  BY <1>1, DcDropped
<1>3. PICK p : p = dcs[x].palette
  OBVIOUS
<1>4. palettes' = IF p \in DOMAIN palettes THEN [palettes EXCEPT ![p] = @ - 1] ELSE palettes
  BY <1>3 DEF Deselected
<1>5. DcPalettes(dcs', palettes', nextGdi)
  BY <1>2, <1>3, <1>4, GdParts, DcPalettesLess
<1> QED
  BY <1>2, <1>5

LEMMA GdReleaseDc == ASSUME GdInv, NEW owner, NEW x, ReleaseDc(owner, x) PROVE GdInv' /\ GdSteady
<1>1. /\ x \in DOMAIN dcs /\ dcs[x].kind = "window" /\ surfaces' = surfaces /\ nextGdi' = nextGdi
      /\ dcs' = Without(dcs, x) /\ palettes' = Deselected(dcs[x].palette)
  BY DEF ReleaseDc, WindowDcs
<1>2. /\ DcTable(dcs', nextGdi) /\ DOMAIN dcs' = DOMAIN dcs \ {x} /\ DcPalettes(dcs', palettes', nextGdi)
      /\ \A d \in DOMAIN dcs' : dcs'[d] = dcs[d]
  BY <1>1, DcGone
<1>3. DcHolds(dcs', surfaces)
  BY <1>2, GdParts DEF DcHolds
<1>4. DcCounts(dcs', surfaces)
  <2>1. \A s : Holders(dcs', s) = Holders(dcs, s)
    BY <1>1, <1>2 DEF Holders
  <2> QED
    BY <2>1, GdParts DEF DcCounts
<1> QED
  BY <1>1, <1>2, <1>3, <1>4, GdParts DEF GdInv, GdSteady

\* The surface of a memory context is the only one of its bitmap.
LEMMA GdOwnBitmap ==
  ASSUME GdInv, NEW x, x \in DOMAIN dcs, dcs[x].kind = "memory", NEW s \in 1 .. SurfaceSlots
  PROVE  s \in Bitmap(dcs[x].bitmap) <=> (s = dcs[x].surface /\ surfaces[s].kind = "bitmap")
<1>1. PICK u : u = dcs[x].surface
  OBVIOUS
<1>2. DcHeld(dcs[x], surfaces)
  BY GdParts
<1>3. PICK b : b = dcs[x].bitmap /\ Bitmap(b) = {t \in 1 .. SurfaceSlots : surfaces[t].kind = "bitmap" /\ surfaces[t].handle = b}
  BY GdParts, GdSlots
<1>4. surfaces[s].handle \in Nat /\ surfaces \in SfTable
  BY GdParts, SfFields
<1>5. CASE b = Stock
  <2>1. u = 0 /\ s # 0
    BY <1>1, <1>2, <1>3, <1>5 DEF DcHeld
  <2>2. surfaces[s].handle # b
    BY <1>4, <1>5, GdConstants
  <2> QED
    BY <1>1, <1>3, <2>1, <2>2
<1>6. CASE b # Stock
  <2>1. u \in 1 .. SurfaceSlots /\ surfaces[u].kind = "bitmap" /\ surfaces[u].handle = b
    BY <1>1, <1>2, <1>3, <1>6 DEF DcHeld
  <2> QED
    BY <1>1, <1>3, <2>1, GdParts DEF SfNamed
<1> QED
  BY <1>5, <1>6

\* A surface that is selected by one more or one less.
LEMMA SfSelected ==
  ASSUME NEW w \in SfRecord, NEW k \in Nat, NEW v, v = [w EXCEPT !.selected = k]
  PROVE  /\ v \in SfRecord /\ v.kind = w.kind /\ v.handle = w.handle /\ v.target = w.target
         /\ v.offset = w.offset /\ v.size = w.size /\ v.selected = k
<1>1. v \in SfRecord /\ v.kind = w.kind /\ v.handle = w.handle
  BY DEF SfRecord
<1>2. v.target = w.target /\ v.offset = w.offset /\ v.size = w.size
  BY DEF SfRecord
<1>3. v.selected = k
  BY DEF SfRecord
<1> QED
  BY <1>1, <1>2, <1>3

LEMMA GdDeleteDc == ASSUME GdInv, NEW x, DeleteDc(x) PROVE GdInv' /\ GdSteady
<1>1. /\ x \in DOMAIN dcs /\ dcs[x].kind = "memory" /\ nextGdi' = nextGdi
      /\ dcs' = Without(dcs, x) /\ palettes' = Deselected(dcs[x].palette)
  BY DEF DeleteDc
<1>2. /\ DcTable(dcs', nextGdi) /\ DOMAIN dcs' = DOMAIN dcs \ {x} /\ DcPalettes(dcs', palettes', nextGdi)
      /\ \A d \in DOMAIN dcs' : dcs'[d] = dcs[d]
  BY <1>1, DcGone
<1>3. PICK u : u = dcs[x].surface
  OBVIOUS
<1>4. dcs[x] \in DcRecord /\ DcHeld(dcs[x], surfaces)
  BY <1>1, GdParts
<1>5. PICK b : b = dcs[x].bitmap
  OBVIOUS
<1>6. \A s \in 1 .. SurfaceSlots : s \in Bitmap(b) <=> (s = u /\ surfaces[s].kind = "bitmap")
  BY <1>1, <1>3, <1>5, GdOwnBitmap
<1>7. ASSUME NEW s \in 1 .. SurfaceSlots, s \in Bitmap(b)
      PROVE  /\ surfaces[s].selected = Cardinality(Holders(dcs, s))
             /\ surfaces[s].selected - 1 = Cardinality(Holders(dcs', s)) /\ surfaces[s].selected - 1 \in Nat
  <2>1. s = u /\ surfaces[s].kind = "bitmap" /\ surfaces[s].selected = Cardinality(Holders(dcs, s))
    BY <1>6, <1>7, GdParts DEF DcCounts
  <2>2. x \in Holders(dcs, s) /\ Holders(dcs', s) = Holders(dcs, s) \ {x}
    BY <1>1, <1>2, <1>3, <2>1 DEF Holders
  <2>3. IsFiniteSet(Holders(dcs, s))
    BY GdParts, DcFinite
  <2> QED
    BY <2>1, <2>2, <2>3, CountLess
<1>8. /\ surfaces' = [s \in 1 .. SurfaceSlots |-> IF s \in Bitmap(b) THEN [surfaces[s] EXCEPT !.selected = @ - 1] ELSE surfaces[s]]
  BY <1>5, GdParts DEF DeleteDc
<1>9. ASSUME NEW s \in 1 .. SurfaceSlots
      PROVE  /\ surfaces'[s] \in SfRecord /\ SfLike(surfaces', surfaces, s)
             /\ surfaces'[s].offset = surfaces[s].offset /\ surfaces'[s].size = surfaces[s].size
             /\ surfaces'[s].selected = IF s \in Bitmap(b) THEN surfaces[s].selected - 1 ELSE surfaces[s].selected
  <2>1. PICK w \in SfRecord : w = surfaces[s]
    BY GdParts, SfFields
  <2>2. CASE s \in Bitmap(b)
    <3>1. surfaces'[s] = [w EXCEPT !.selected = w.selected - 1] /\ w.selected - 1 \in Nat
      BY <1>7, <1>8, <2>1, <2>2
    <3> QED
      BY <2>1, <2>2, <3>1, SfSelected DEF SfLike
  <2>3. CASE s \notin Bitmap(b)
    BY <1>8, <2>1, <2>3 DEF SfLike
  <2> QED
    BY <2>2, <2>3
<1>10. surfaces' \in SfTable
  BY <1>8, <1>9 DEF SfTable
<1>11. SfPlaces(surfaces')
  BY <1>9, <1>10, GdParts DEF SfPlaces, SfLike
<1>12. SfNamed(surfaces', nextGdi)
  BY <1>9, GdParts, SfNamedOn
<1>13. DcHolds(dcs', surfaces')
  BY <1>2, <1>9, GdParts, DcHeldOn DEF DcHolds
<1>14. DcCounts(dcs', surfaces')
  <2> SUFFICES ASSUME NEW s \in 1 .. SurfaceSlots, surfaces'[s].kind = "bitmap"
               PROVE  surfaces'[s].selected = Cardinality(Holders(dcs', s))
    BY DEF DcCounts
  <2>1. surfaces[s].kind = "bitmap"
    BY <1>9 DEF SfLike
  <2>2. CASE s \in Bitmap(b)
    BY <1>7, <1>9, <2>2
  <2>3. CASE s \notin Bitmap(b)
    <3>1. s # u
      BY <1>6, <2>1, <2>3
    <3>2. Holders(dcs', s) = Holders(dcs, s)
      BY <1>2, <1>3, <3>1 DEF Holders
    <3> QED
      BY <1>9, <2>1, <2>3, <3>2, GdParts DEF DcCounts
  <2> QED
    BY <2>2, <2>3
<1>15. GdSteady
  BY <1>1, <1>2, <1>9 DEF GdSteady, SfLike
<1> QED
  BY <1>1, <1>2, <1>11, <1>12, <1>13, <1>14, <1>15, GdParts DEF GdInv

LEMMA GdCreateDc == ASSUME GdInv, NEW x, CreateCompatibleDc(x) PROVE GdInv' /\ GdSteady
<1>1. PICK n \in Nat \ {0} : n = nextGdi /\ nextGdi' = n + 1 /\ palettes' = palettes /\ surfaces' = surfaces
  BY DEF GdInv, CreateCompatibleDc, NewDc
<1>2. PICK v : v = [kind |-> "memory", owner |-> 0, bitmap |-> Stock, palette |-> 0, surface |-> 0]
  OBVIOUS
<1>3. v.kind = "memory" /\ v.bitmap = Stock /\ v.palette = 0 /\ v.surface = 0 /\ v \in DcRecord
  BY <1>2, GdConstants DEF DcRecord
<1>4. dcs' = With(dcs, n, v) /\ Cardinality(DOMAIN dcs) < DcSlots
  BY <1>1, <1>2 DEF CreateCompatibleDc, NewDc
<1>5. DcTable(dcs', n + 1) /\ DcGrown(dcs', dcs, n, v)
  <2>1. DcAdds(dcs', dcs, n, v)
    BY <1>4 DEF DcAdds
  <2> QED
    BY <1>1, <1>3, <1>4, <2>1, GdParts, DcAdded
<1>6. DOMAIN dcs' = DOMAIN dcs \cup {n} /\ dcs'[n] = v /\ n \notin DOMAIN dcs /\ \A d \in DOMAIN dcs : dcs'[d] = dcs[d]
  BY <1>5 DEF DcGrown
<1>7. DcHolds(dcs', surfaces)
  <2>1. DcHeld(v, surfaces)
    BY <1>3 DEF DcHeld
  <2> QED
    BY <1>6, <2>1, GdParts DEF DcHolds
<1>8. /\ \A s \in 1 .. SurfaceSlots : Holders(dcs', s) = Holders(dcs, s)
      /\ \A p \in Nat \ {0} : Painters(dcs', p) = Painters(dcs, p)
  <2>1. DcAsMany(dcs', dcs)
    BY <1>3, <1>5, DcAddedCounts
  <2> QED
    BY <2>1 DEF DcAsMany
<1>9. DcCounts(dcs', surfaces)
  BY <1>8, GdParts DEF DcCounts
<1>10. DcPalettes(dcs', palettes, n)
  <2>1. \A d \in DOMAIN dcs' : dcs'[d].palette # 0 => dcs'[d].palette \in DOMAIN palettes
    BY <1>3, <1>6, GdParts DEF DcPalettes
  <2> QED
    BY <1>1, <1>8, <2>1, GdParts DEF DcPalettes
<1>11. SfNamed(surfaces, n + 1) /\ DcPalettes(dcs', palettes, n + 1)
  BY <1>1, <1>10, GdParts, SfNamedNext, DcPalettesNext
<1>12. GdSteady
  BY <1>1, <1>6 DEF GdSteady
<1> QED
  BY <1>1, <1>5, <1>7, <1>9, <1>11, <1>12, GdParts DEF GdInv

LEMMA GdCreateBitmap == ASSUME GdInv, NEW size \in BitmapSizes, CreateBitmap(size) PROVE GdInv' /\ GdSteady
<1>1. PICK n \in Nat \ {0} : n = nextGdi /\ nextGdi' = n + 1 /\ palettes' = palettes /\ dcs' = dcs
  BY DEF GdInv, CreateBitmap
<1>2. PICK s : s = Min(DOMAIN surfaces \ InUse)
  OBVIOUS
<1>3. Allocates(size) /\ SfAllocates(surfaces', s, "bitmap", n, 0, size)
  BY <1>1, <1>2 DEF CreateBitmap, SfAllocates
<1>4. /\ s \in 1 .. SurfaceSlots /\ surfaces[s].kind = "none" /\ SfPlaces(surfaces') /\ SfElse(surfaces', surfaces, s)
      /\ surfaces'[s].kind = "bitmap" /\ surfaces'[s].handle = n /\ surfaces'[s].selected = 0
  BY <1>3, GdParts, SfAllocated
<1>5. \A t \in 1 .. SurfaceSlots : t # s => surfaces'[t] = surfaces[t]
  BY <1>4 DEF SfElse
<1>6. SfNamed(surfaces', n + 1)
  <2>1. ASSUME NEW t \in 1 .. SurfaceSlots, surfaces[t].kind = "bitmap" PROVE surfaces[t].handle # n /\ surfaces[t].handle < n + 1
    <3>1. surfaces[t].handle \in Nat /\ surfaces[t].handle < n
      BY <1>1, <2>1, GdParts, SfFields DEF SfNamed
    <3> QED
      BY <3>1
  <2>2. ASSUME NEW t \in 1 .. SurfaceSlots, NEW u \in 1 .. SurfaceSlots, surfaces'[t].kind = "bitmap",
               surfaces'[u].kind = "bitmap", surfaces'[t].handle = surfaces'[u].handle
        PROVE  t = u
    BY <1>4, <1>5, <2>1, <2>2, GdParts DEF SfNamed
  <2>3. ASSUME NEW t \in 1 .. SurfaceSlots, NEW u \in 1 .. SurfaceSlots, surfaces'[t].kind = "target",
               surfaces'[u].kind = "target", surfaces'[t].target = surfaces'[u].target
        PROVE  t = u
    BY <1>4, <1>5, <2>3, GdParts DEF SfNamed
  <2>4. ASSUME NEW t \in 1 .. SurfaceSlots, surfaces'[t].kind = "bitmap"
        PROVE  surfaces'[t].handle # 0 /\ surfaces'[t].handle < n + 1
    BY <1>4, <1>5, <2>1, <2>4, GdParts DEF SfNamed
  <2> QED
    BY <2>2, <2>3, <2>4 DEF SfNamed
<1>7. DcHolds(dcs, surfaces')
  <2>1. ASSUME NEW t \in 1 .. SurfaceSlots, surfaces[t].kind # "none" PROVE SfLike(surfaces', surfaces, t)
    BY <1>4, <1>5, <2>1 DEF SfLike
  <2> QED
    BY <2>1, GdParts, DcHeldOn DEF DcHolds
<1>8. DcCounts(dcs, surfaces')
  <2>1. Holders(dcs, s) = {}
    <3>1. \A d \in DOMAIN dcs : dcs[d].kind = "memory" => dcs[d].surface # s
      BY <1>4, GdParts DEF DcHeld
    <3> QED
      BY <3>1 DEF Holders
  <2>2. Cardinality(Holders(dcs, s)) = 0
    BY <2>1, FS_EmptySet
  <2> QED
    BY <1>4, <1>5, <2>2, GdParts DEF DcCounts
<1>9. DcPalettes(dcs, palettes, n + 1)
  BY <1>1, GdParts, DcPalettesNext
<1>10. DcTable(dcs, n + 1)
  <2>1. \A d \in DOMAIN dcs : d \in Nat \ {0} /\ d < n + 1
    <3> SUFFICES ASSUME NEW d \in DOMAIN dcs PROVE d \in Nat \ {0} /\ d < n + 1
      OBVIOUS
    <3>1. d \in Nat \ {0} /\ d < n
      BY <1>1, GdParts DEF DcTable
    <3> QED
      BY <3>1
  <2> QED
    BY <2>1, GdParts DEF DcTable
<1>11. GdSteady
  BY <1>1, <1>4, <1>5 DEF GdSteady
<1> QED
  BY <1>1, <1>4, <1>6, <1>7, <1>8, <1>9, <1>10, <1>11 DEF GdInv

\* A surface that is freed, which no context stands for.
LEMMA GdFreed ==
  ASSUME GdInv, NEW F, \A s \in F : s \in 1 .. SurfaceSlots /\ \A d \in DOMAIN dcs : dcs[d].surface # s \/ dcs[d].surface = 0,
         surfaces' = [s \in 1 .. SurfaceSlots |-> IF s \in F THEN NoSurface ELSE surfaces[s]],
         dcs' = dcs, palettes' = palettes, nextGdi' = nextGdi
  PROVE  GdInv' /\ GdSteady
<1>1. NoSurface \in SfRecord /\ NoSurface.kind = "none"
  BY DEF NoSurface, SfRecord
<1>2. \A s \in 1 .. SurfaceSlots : surfaces'[s].kind = "none" \/ surfaces'[s] = surfaces[s]
  BY <1>1
<1>3. surfaces' \in SfTable
  BY <1>1, GdParts, SfFields DEF SfTable
<1>4. SfPlaces(surfaces')
  <2>1. \A s \in 1 .. SurfaceSlots : surfaces'[s].kind # "none" => surfaces'[s] = surfaces[s]
    BY <1>2
  <2> QED
    BY <1>3, <2>1, GdParts DEF SfPlaces
<1>5. SfNamed(surfaces', nextGdi)
  BY <1>2, GdParts, SfNamedOn DEF SfLike
<1>6. DcHolds(dcs, surfaces')
  <2> SUFFICES ASSUME NEW d \in DOMAIN dcs PROVE DcHeld(dcs[d], surfaces')
    BY DEF DcHolds
  <2>1. ASSUME NEW t \in 1 .. SurfaceSlots, t = dcs[d].surface PROVE SfLike(surfaces', surfaces, t)
    <3>1. t \notin F
      BY <2>1
    <3> QED
      BY <3>1 DEF SfLike
  <2> QED
    BY <2>1, GdParts, DcHeldOn
<1>7. DcCounts(dcs, surfaces')
  BY <1>2, GdParts DEF DcCounts
<1>8. GdSteady
  BY <1>2 DEF GdSteady
<1> QED
  BY <1>4, <1>5, <1>6, <1>7, <1>8, GdParts DEF GdInv

LEMMA GdDestroyTarget == ASSUME GdInv, NEW owner, DestroyTarget(owner) PROVE GdInv' /\ GdSteady
<1>1. PICK F : F = Targets(owner)
  OBVIOUS
<1>2. F = {s \in 1 .. SurfaceSlots : surfaces[s].kind = "target" /\ surfaces[s].target = owner}
  BY <1>1, GdParts, GdSlots
<1>3. /\ surfaces' = [s \in 1 .. SurfaceSlots |-> IF s \in F THEN NoSurface ELSE surfaces[s]]
      /\ dcs' = dcs /\ palettes' = palettes /\ nextGdi' = nextGdi
  BY <1>1, GdParts DEF DestroyTarget
<1>4. ASSUME NEW s \in F, NEW d \in DOMAIN dcs PROVE dcs[d].surface # s \/ dcs[d].surface = 0
  <2>1. dcs[d] \in DcRecord /\ DcHeld(dcs[d], surfaces)
    BY GdParts
  <2>2. CASE dcs[d].kind = "window"
    <3>1. dcs[d].owner # owner
      BY <2>2 DEF DestroyTarget, WindowDcs
    <3> QED
      BY <1>2, <2>1, <2>2, <3>1 DEF DcHeld
  <2>3. CASE dcs[d].kind = "memory"
    BY <1>2, <2>1, <2>3 DEF DcHeld
  <2> QED
    BY <2>1, <2>2, <2>3, DcFields
<1>5. \A s \in F : s \in 1 .. SurfaceSlots /\ \A d \in DOMAIN dcs : dcs[d].surface # s \/ dcs[d].surface = 0
  BY <1>2, <1>4
<1> QED
  BY <1>3, <1>5, GdFreed

LEMMA GdDeleteBitmap == ASSUME GdInv, NEW b, DeleteBitmap(b) PROVE GdInv' /\ GdSteady
<1>1. Bitmap(b) = {s \in 1 .. SurfaceSlots : surfaces[s].kind = "bitmap" /\ surfaces[s].handle = b}
  BY GdParts, GdSlots
<1>2. PICK u \in Bitmap(b) : surfaces[u].selected = 0 /\ surfaces' = [surfaces EXCEPT ![u] = NoSurface]
  BY DEF DeleteBitmap
<1>3. u \in 1 .. SurfaceSlots /\ surfaces[u].kind = "bitmap"
  BY <1>1
<1>4. PICK F : F = {u}
  OBVIOUS
<1>5. /\ surfaces' = [s \in 1 .. SurfaceSlots |-> IF s \in F THEN NoSurface ELSE surfaces[s]]
      /\ dcs' = dcs /\ palettes' = palettes /\ nextGdi' = nextGdi
  BY <1>2, <1>3, <1>4, GdParts DEF DeleteBitmap, SfTable
<1>6. Holders(dcs, u) = {}
  <2>1. Cardinality(Holders(dcs, u)) = 0 /\ IsFiniteSet(Holders(dcs, u))
    BY <1>2, <1>3, GdParts, DcFinite DEF DcCounts
  <2> QED
    BY <2>1, FS_EmptySet
<1>7. ASSUME NEW d \in DOMAIN dcs PROVE dcs[d].surface # u \/ dcs[d].surface = 0
  <2>1. dcs[d] \in DcRecord /\ DcHeld(dcs[d], surfaces)
    BY GdParts
  <2>2. CASE dcs[d].kind = "window"
    BY <1>3, <2>1, <2>2 DEF DcHeld
  <2>3. CASE dcs[d].kind = "memory"
    BY <1>6, <2>3 DEF Holders
  <2> QED
    BY <2>1, <2>2, <2>3, DcFields
<1>8. \A s \in F : s \in 1 .. SurfaceSlots /\ \A d \in DOMAIN dcs : dcs[d].surface # s \/ dcs[d].surface = 0
  BY <1>3, <1>4, <1>7
<1> QED
  BY <1>5, <1>8, GdFreed

LEMMA GdSelectBitmap == ASSUME GdInv, NEW x, NEW b, SelectBitmap(x, b) PROVE GdInv' /\ GdSteady
<1>1. /\ x \in DOMAIN dcs /\ dcs[x].kind = "memory" /\ dcs[x].bitmap # b /\ nextGdi' = nextGdi /\ palettes' = palettes
      /\ dcs[x] \in DcRecord /\ DcHeld(dcs[x], surfaces)
  BY GdParts DEF SelectBitmap
<1>2. PICK a : a = dcs[x].bitmap
  OBVIOUS
<1>3. PICK u : u = dcs[x].surface
  OBVIOUS
<1>4. Bitmap(b) = {t \in 1 .. SurfaceSlots : surfaces[t].kind = "bitmap" /\ surfaces[t].handle = b}
  BY GdParts, GdSlots
<1>5. PICK s \in Bitmap(b) :
         /\ surfaces[s].selected = 0
         /\ surfaces' = [t \in 1 .. SurfaceSlots |->
                           IF t = s THEN [surfaces[t] EXCEPT !.selected = @ + 1]
                           ELSE IF t \in Bitmap(a) THEN [surfaces[t] EXCEPT !.selected = @ - 1]
                           ELSE surfaces[t]]
         /\ dcs' = [dcs EXCEPT ![x].bitmap = b, ![x].surface = s]
  BY <1>2, GdParts, ZenonT(40) DEF SelectBitmap
<1>6. s \in 1 .. SurfaceSlots /\ surfaces[s].kind = "bitmap" /\ surfaces[s].handle = b /\ b \in Nat
  BY <1>4, GdParts, SfFields
<1>7. \A t \in 1 .. SurfaceSlots : t \in Bitmap(a) <=> (t = u /\ surfaces[t].kind = "bitmap")
  BY <1>1, <1>2, <1>3, GdOwnBitmap
<1>8. s # u
  <2>1. Stock \notin Nat
    BY GdConstants
  <2>2. a = Stock => u = 0
    BY <1>1, <1>2, <1>3 DEF DcHeld
  <2>3. a # Stock => surfaces[u].handle = a
    BY <1>1, <1>2, <1>3 DEF DcHeld
  <2> QED
    BY <1>1, <1>2, <1>6, <2>1, <2>2, <2>3
<1>9. PICK v : v = [dcs[x] EXCEPT !.bitmap = b, !.surface = s]
  OBVIOUS
<1>10. /\ v \in DcRecord /\ v.kind = "memory" /\ v.bitmap = b /\ v.surface = s
       /\ v.palette = dcs[x].palette /\ v.owner = dcs[x].owner
  <2>1. PICK w \in DcRecord : w = dcs[x]
    BY <1>1
  <2>2. v = [w EXCEPT !.bitmap = b, !.surface = s]
    BY <1>9, <2>1
  <2>3. v \in DcRecord
    <3>1. s \in 0 .. SurfaceSlots /\ b \in Nat \cup {Stock}
      BY <1>6
    <3> QED
      BY <2>2, <3>1 DEF DcRecord
  <2>4. v.kind = w.kind /\ v.palette = w.palette /\ v.owner = w.owner
    BY <2>2 DEF DcRecord
  <2>5. v.bitmap = b /\ v.surface = s
    BY <2>2 DEF DcRecord
  <2> QED
    BY <1>1, <2>1, <2>3, <2>4, <2>5
<1>11. DOMAIN dcs' = DOMAIN dcs /\ dcs'[x] = v /\ \A d \in DOMAIN dcs : d # x => dcs'[d] = dcs[d]
  BY <1>1, <1>5, <1>9
<1>12. DcTable(dcs', nextGdi)
  BY <1>10, <1>11, GdParts DEF DcTable
<1>13. Cardinality(Holders(dcs, s)) = 0 /\ Cardinality(Holders(dcs', s)) = 1
  <2>1. Cardinality(Holders(dcs, s)) = 0 /\ IsFiniteSet(Holders(dcs, s))
    BY <1>5, <1>6, GdParts, DcFinite DEF DcCounts
  <2>2. x \notin Holders(dcs, s) /\ Holders(dcs', s) = Holders(dcs, s) \cup {x}
    BY <1>1, <1>3, <1>8, <1>10, <1>11 DEF Holders
  <2> QED
    BY <2>1, <2>2, CountMore
<1>14. ASSUME NEW t \in 1 .. SurfaceSlots, t # s, t \in Bitmap(a)
       PROVE  surfaces[t].selected - 1 = Cardinality(Holders(dcs', t)) /\ surfaces[t].selected - 1 \in Nat
  <2>1. t = u /\ surfaces[t].kind = "bitmap" /\ surfaces[t].selected = Cardinality(Holders(dcs, t))
    BY <1>7, <1>14, GdParts DEF DcCounts
  <2>2. x \in Holders(dcs, t) /\ Holders(dcs', t) = Holders(dcs, t) \ {x}
    BY <1>1, <1>3, <1>10, <1>11, <1>14, <2>1 DEF Holders
  <2>3. IsFiniteSet(Holders(dcs, t))
    BY GdParts, DcFinite
  <2> QED
    BY <2>1, <2>2, <2>3, CountLess
<1>15. ASSUME NEW t \in 1 .. SurfaceSlots, t # s, t \notin Bitmap(a), surfaces[t].kind = "bitmap"
       PROVE  surfaces[t].selected = Cardinality(Holders(dcs', t))
  <2>1. t # u
    BY <1>7, <1>15
  <2>2. Holders(dcs', t) = Holders(dcs, t)
    BY <1>3, <1>10, <1>11, <1>15, <2>1 DEF Holders
  <2> QED
    BY <1>15, <2>2, GdParts DEF DcCounts
<1>16. ASSUME NEW t \in 1 .. SurfaceSlots
       PROVE  /\ surfaces'[t] \in SfRecord /\ SfLike(surfaces', surfaces, t)
              /\ surfaces'[t].offset = surfaces[t].offset /\ surfaces'[t].size = surfaces[t].size
              /\ surfaces'[t].selected = IF t = s THEN 1
                                         ELSE IF t \in Bitmap(a) THEN surfaces[t].selected - 1 ELSE surfaces[t].selected
  <2>1. PICK w \in SfRecord : w = surfaces[t]
    BY GdParts, SfFields
  <2>2. CASE t = s
    <3>1. surfaces'[t] = [w EXCEPT !.selected = w.selected + 1] /\ w.selected = 0
      BY <1>5, <2>1, <2>2
    <3>2. surfaces'[t] = [w EXCEPT !.selected = 1]
      BY <3>1
    <3> QED
      BY <2>1, <2>2, <3>2, SfSelected DEF SfLike
  <2>3. CASE t # s /\ t \in Bitmap(a)
    <3>1. surfaces'[t] = [w EXCEPT !.selected = w.selected - 1] /\ w.selected - 1 \in Nat
      BY <1>5, <1>14, <2>1, <2>3
    <3> QED
      BY <2>1, <2>3, <3>1, SfSelected DEF SfLike
  <2>4. CASE t # s /\ t \notin Bitmap(a)
    <3>1. surfaces'[t] = w
      BY <1>5, <2>1, <2>4
    <3> QED
      BY <2>1, <2>4, <3>1 DEF SfLike
  <2> QED
    BY <2>2, <2>3, <2>4
<1>17. surfaces' \in SfTable
  BY <1>5, <1>16 DEF SfTable
<1>18. SfPlaces(surfaces')
  BY <1>16, <1>17, GdParts DEF SfPlaces, SfLike
<1>19. SfNamed(surfaces', nextGdi)
  BY <1>16, GdParts, SfNamedOn
<1>20. DcHolds(dcs', surfaces')
  <2> SUFFICES ASSUME NEW d \in DOMAIN dcs' PROVE DcHeld(dcs'[d], surfaces')
    BY DEF DcHolds
  <2>1. CASE d = x
    <3>1. surfaces'[s].kind = "bitmap" /\ surfaces'[s].handle = b
      BY <1>6, <1>16 DEF SfLike
    <3>2. b # Stock
      BY <1>6, GdConstants
    <3>3. DcHeld(v, surfaces')
      BY <1>6, <1>10, <3>1, <3>2 DEF DcHeld
    <3> QED
      BY <1>11, <2>1, <3>3
  <2>2. CASE d # x
    BY <1>11, <1>16, <2>2, GdParts, DcHeldOn
  <2> QED
    BY <2>1, <2>2
<1>21. DcCounts(dcs', surfaces')
  <2> SUFFICES ASSUME NEW t \in 1 .. SurfaceSlots, surfaces'[t].kind = "bitmap"
               PROVE  surfaces'[t].selected = Cardinality(Holders(dcs', t))
    BY DEF DcCounts
  <2>1. surfaces[t].kind = "bitmap"
    BY <1>16 DEF SfLike
  <2> QED
    BY <1>13, <1>14, <1>15, <1>16, <2>1
<1>22. DcPalettes(dcs', palettes, nextGdi)
  <2>1. \A p : Painters(dcs', p) = Painters(dcs, p)
    BY <1>10, <1>11 DEF Painters
  <2>2. \A d \in DOMAIN dcs' : dcs'[d].palette # 0 => dcs'[d].palette \in DOMAIN palettes
    BY <1>10, <1>11, GdParts DEF DcPalettes
  <2> QED
    BY <2>1, <2>2, GdParts DEF DcPalettes
<1>23. GdSteady
  BY <1>1, <1>10, <1>11, <1>16 DEF GdSteady, SfLike
<1> QED
  BY <1>1, <1>12, <1>18, <1>19, <1>20, <1>21, <1>22, <1>23, GdParts DEF GdInv

\* Palettes.
LEMMA GdCreatePalette == ASSUME GdInv, CreatePalette PROVE GdInv' /\ GdSteady
<1>1. PICK n \in Nat \ {0} : /\ n = nextGdi /\ nextGdi' = n + 1 /\ palettes' = With(palettes, n, 0)
                             /\ surfaces' = surfaces /\ dcs' = dcs
  BY DEF GdInv, CreatePalette
<1>2. DcPalettes(dcs, palettes, n + 1)
  BY <1>1, GdParts, DcPalettesNext
<1>3. n \notin DOMAIN palettes
  BY <1>1, GdParts DEF DcPalettes
<1>4. DOMAIN palettes' = DOMAIN palettes \cup {n} /\ palettes'[n] = 0 /\ \A p \in DOMAIN palettes : palettes'[p] = palettes[p]
  BY <1>1, <1>3 DEF With
<1>5. Cardinality(Painters(dcs, n)) = 0
  <2>1. \A d \in DOMAIN dcs : dcs[d].palette # n
    BY <1>1, <1>3, GdParts DEF DcPalettes
  <2>2. Painters(dcs, n) = {}
    BY <2>1 DEF Painters
  <2> QED
    BY <2>2, FS_EmptySet
<1>6. DcPalettes(dcs, palettes', n + 1)
  <2>1. \A p \in DOMAIN palettes' : p \in Nat \ {0} /\ p < n + 1 /\ palettes'[p] = Cardinality(Painters(dcs, p))
    <3> SUFFICES ASSUME NEW p \in DOMAIN palettes'
                 PROVE  p \in Nat \ {0} /\ p < n + 1 /\ palettes'[p] = Cardinality(Painters(dcs, p))
      OBVIOUS
    <3>1. CASE p = n
      BY <1>4, <1>5, <3>1
    <3>2. CASE p \in DOMAIN palettes
      BY <1>2, <1>4, <3>2 DEF DcPalettes
    <3> QED
      BY <1>4, <3>1, <3>2
  <2>2. \A d \in DOMAIN dcs : dcs[d].palette # 0 => dcs[d].palette \in DOMAIN palettes'
    BY <1>2, <1>4 DEF DcPalettes
  <2> QED
    BY <2>1, <2>2 DEF DcPalettes
<1>7. DcTable(dcs, n + 1)
  <2>1. \A d \in DOMAIN dcs : d \in Nat \ {0} /\ d < n + 1
    <3> SUFFICES ASSUME NEW d \in DOMAIN dcs PROVE d \in Nat \ {0} /\ d < n + 1
      OBVIOUS
    <3>1. d \in Nat \ {0} /\ d < n
      BY <1>1, GdParts DEF DcTable
    <3> QED
      BY <3>1
  <2> QED
    BY <2>1, GdParts DEF DcTable
<1>8. SfNamed(surfaces, n + 1)
  BY <1>1, GdParts, SfNamedNext
<1>9. GdSteady
  BY <1>1 DEF GdSteady
<1> QED
  BY <1>1, <1>6, <1>7, <1>8, <1>9, GdParts DEF GdInv

LEMMA GdDeletePalette == ASSUME GdInv, NEW p, DeletePalette(p) PROVE GdInv' /\ GdSteady
<1>1. /\ p \in DOMAIN palettes /\ palettes[p] = 0 /\ palettes' = Without(palettes, p)
      /\ surfaces' = surfaces /\ dcs' = dcs /\ nextGdi' = nextGdi
  BY DEF DeletePalette
<1>2. DOMAIN palettes' = DOMAIN palettes \ {p} /\ \A q \in DOMAIN palettes' : palettes'[q] = palettes[q]
  BY <1>1 DEF Without, Restrict
<1>3. Painters(dcs, p) = {}
  <2>1. Cardinality(Painters(dcs, p)) = 0 /\ IsFiniteSet(Painters(dcs, p))
    BY <1>1, GdParts, DcFinite DEF DcPalettes
  <2> QED
    BY <2>1, FS_EmptySet
<1>4. \A d \in DOMAIN dcs : dcs[d].palette # p
  BY <1>3 DEF Painters
<1>5. DcPalettes(dcs, palettes', nextGdi)
  BY <1>2, <1>4, GdParts DEF DcPalettes
<1> QED
  BY <1>1, <1>5, GdParts DEF GdInv, GdSteady

LEMMA GdSelectPalette == ASSUME GdInv, NEW x, NEW p, SelectPalette(x, p) PROVE GdInv' /\ GdSteady
<1>1. /\ x \in DOMAIN dcs /\ p \in DOMAIN palettes \cup {0} /\ dcs[x].palette # p
      /\ surfaces' = surfaces /\ nextGdi' = nextGdi /\ dcs' = [dcs EXCEPT ![x].palette = p]
      /\ dcs[x] \in DcRecord /\ DcHeld(dcs[x], surfaces)
  BY GdParts DEF SelectPalette
<1>2. p \in Nat
  BY <1>1, GdParts DEF DcPalettes
<1>3. PICK w \in DcRecord : w = dcs[x]
  BY <1>1
<1>4. PICK v : v = [w EXCEPT !.palette = p]
  OBVIOUS
<1>5. v \in DcRecord /\ v.palette = p /\ v.kind = w.kind
  BY <1>2, <1>4 DEF DcRecord
<1>6. v.owner = w.owner /\ v.bitmap = w.bitmap /\ v.surface = w.surface
  BY <1>4 DEF DcRecord
<1>7. DOMAIN dcs' = DOMAIN dcs /\ dcs'[x] = v /\ \A d \in DOMAIN dcs : d # x => dcs'[d] = dcs[d]
  BY <1>1, <1>3, <1>4
<1>8. \A d \in DOMAIN dcs : /\ dcs'[d].kind = dcs[d].kind /\ dcs'[d].owner = dcs[d].owner
                            /\ dcs'[d].bitmap = dcs[d].bitmap /\ dcs'[d].surface = dcs[d].surface
  BY <1>3, <1>5, <1>6, <1>7
<1>9. DcTable(dcs', nextGdi)
  BY <1>5, <1>7, GdParts DEF DcTable
<1>10. DcHolds(dcs', surfaces)
  <2> SUFFICES ASSUME NEW d \in DOMAIN dcs' PROVE DcHeld(dcs'[d], surfaces)
    BY DEF DcHolds
  <2>1. DcHeld(dcs[d], surfaces)
    BY <1>7, GdParts
  <2> QED
    BY <1>7, <1>8, <2>1 DEF DcHeld
<1>11. DcCounts(dcs', surfaces)
  <2>1. \A s : Holders(dcs', s) = Holders(dcs, s)
    BY <1>7, <1>8 DEF Holders
  <2> QED
    BY <2>1, GdParts DEF DcCounts
<1>12. PICK o : o = dcs[x].palette /\ o # p
  BY <1>1
<1>13. DOMAIN palettes' = DOMAIN palettes /\ \A q \in DOMAIN palettes :
         palettes'[q] = IF q = p THEN palettes[q] + 1 ELSE IF q = o THEN palettes[q] - 1 ELSE palettes[q]
  BY <1>12 DEF SelectPalette
<1>14. ASSUME NEW q \in DOMAIN palettes PROVE palettes'[q] = Cardinality(Painters(dcs', q))
  <2>1. palettes[q] = Cardinality(Painters(dcs, q)) /\ IsFiniteSet(Painters(dcs, q))
    BY GdParts, DcFinite DEF DcPalettes
  <2>2. CASE q = p
    <3>1. x \notin Painters(dcs, q) /\ Painters(dcs', q) = Painters(dcs, q) \cup {x}
      BY <1>1, <1>5, <1>7, <1>12, <2>2 DEF Painters
    <3> QED
      BY <1>13, <2>1, <2>2, <3>1, CountMore
  <2>3. CASE q # p /\ q = o
    <3>1. x \in Painters(dcs, q) /\ Painters(dcs', q) = Painters(dcs, q) \ {x}
      BY <1>1, <1>5, <1>7, <1>12, <2>3 DEF Painters
    <3> QED
      BY <1>13, <2>1, <2>3, <3>1, CountLess
  <2>4. CASE q # p /\ q # o
    <3>1. Painters(dcs', q) = Painters(dcs, q)
      BY <1>1, <1>5, <1>7, <1>12, <2>4 DEF Painters
    <3> QED
      BY <1>13, <2>1, <2>4, <3>1
  <2> QED
    BY <2>2, <2>3, <2>4
<1>15. DcPalettes(dcs', palettes', nextGdi)
  <2>1. \A d \in DOMAIN dcs' : dcs'[d].palette # 0 => dcs'[d].palette \in DOMAIN palettes'
    BY <1>1, <1>5, <1>7, <1>13, GdParts DEF DcPalettes
  <2> QED
    BY <1>13, <1>14, <2>1, GdParts DEF DcPalettes
<1>16. GdSteady
  BY <1>1, <1>7, <1>8 DEF GdSteady
<1> QED
  BY <1>1, <1>9, <1>10, <1>11, <1>15, <1>16, GdParts DEF GdInv

\* A window that changes its size, and its target with it: one that grows moves.
LEMMA GdResizeTarget ==
  ASSUME GdInv, NEW owner, NEW size \in Sizes, ResizeTarget(owner, size)
  PROVE  /\ GdInv' /\ nextGdi' = nextGdi /\ dcs' = dcs
         /\ \A t \in 1 .. SurfaceSlots : /\ SfLike(surfaces', surfaces, t)
                                         /\ surfaces[t].kind = "target" =>
                                              surfaces'[t].size = IF surfaces[t].target = owner THEN size ELSE surfaces[t].size
<1>1. Targets(owner) = {t \in 1 .. SurfaceSlots : surfaces[t].kind = "target" /\ surfaces[t].target = owner}
  BY GdParts, GdSlots
<1>2. /\ dcs' = dcs /\ palettes' = palettes /\ nextGdi' = nextGdi
      /\ \A s \in Targets(owner) : size > surfaces[s].size => Gaps(size, {s}) # {}
      /\ surfaces' = [s \in 1 .. SurfaceSlots |->
                       IF s \notin Targets(owner) THEN surfaces[s]
                       ELSE [surfaces[s] EXCEPT !.size = size,
                                                !.offset = IF size > surfaces[s].size THEN Gap(size, {s}) ELSE @]]
  BY GdParts DEF ResizeTarget
<1>3. size \in Sizes \cup BitmapSizes /\ size \in Nat
  BY GdConstants
<1>4. ASSUME NEW s \in Targets(owner)
      PROVE  /\ s \in 1 .. SurfaceSlots /\ surfaces'[s] \in SfRecord /\ SfLike(surfaces', surfaces, s)
             /\ surfaces'[s].size = size /\ surfaces'[s].selected = surfaces[s].selected /\ SfFits(surfaces, s, surfaces'[s])
  <2>1. s \in 1 .. SurfaceSlots /\ surfaces[s].kind = "target"
    BY <1>1
  <2>2. PICK w \in SfRecord : w = surfaces[s]
    BY <2>1, GdParts, SfFields
  <2>3. PICK o : o = IF size > w.size THEN Gap(size, {s}) ELSE w.offset
    OBVIOUS
  <2>4. w.size \in Nat /\ w.offset \in Nat /\ PixelCapacity \in Nat /\ w.offset + w.size <= PixelCapacity
    BY <2>1, <2>2, GdParts, GdConstants DEF SfRecord, SfPlaces
  <2>5. /\ o \in Nat /\ o + size <= PixelCapacity
        /\ \A t \in 1 .. SurfaceSlots : t # s /\ surfaces[t].kind # "none" => ~Overlap(o, size, surfaces[t].offset, surfaces[t].size)
    <3>1. CASE size > w.size
      <4>1. Gaps(size, {s}) # {} /\ o = Gap(size, {s})
        BY <1>2, <2>2, <2>3, <3>1
      <4> QED
        BY <1>3, <4>1, GdParts, SfGap
    <3>2. CASE ~(size > w.size)
      <4>1. o = w.offset /\ size <= w.size
        BY <1>3, <2>3, <2>4, <3>2
      <4>2. o + size <= PixelCapacity
        BY <1>3, <2>4, <4>1
      <4>3. ASSUME NEW t \in 1 .. SurfaceSlots, t # s, surfaces[t].kind # "none"
            PROVE  ~Overlap(o, size, surfaces[t].offset, surfaces[t].size)
        <5>1. ~Overlap(w.offset, w.size, surfaces[t].offset, surfaces[t].size)
          BY <2>1, <2>2, <4>3, GdParts DEF SfPlaces
        <5>2. PICK a \in Nat, b \in Nat : a = surfaces[t].offset /\ b = surfaces[t].size
          BY GdParts, SfFields
        <5>3. ~(w.offset < a + b /\ a < w.offset + w.size)
          BY <5>1, <5>2 DEF Overlap
        <5>4. ~(o < a + b /\ a < o + size)
          BY <1>3, <2>4, <4>1, <5>2, <5>3
        <5> QED
          BY <5>2, <5>4 DEF Overlap
      <4> QED
        BY <2>4, <4>1, <4>2, <4>3
    <3> QED
      BY <3>1, <3>2
  <2>6. surfaces'[s] = [w EXCEPT !.size = size, !.offset = o]
    BY <1>2, <2>1, <2>2, <2>3
  <2>7. surfaces'[s] \in SfRecord /\ surfaces'[s].kind = w.kind /\ surfaces'[s].handle = w.handle
    BY <1>3, <2>5, <2>6 DEF SfRecord
  <2>8. surfaces'[s].target = w.target /\ surfaces'[s].selected = w.selected
    BY <2>6 DEF SfRecord
  <2>9. surfaces'[s].size = size /\ surfaces'[s].offset = o
    BY <2>6 DEF SfRecord
  <2>10. SfFits(surfaces, s, surfaces'[s])
    BY <1>3, <2>5, <2>9 DEF SfFits
  <2> QED
    BY <2>1, <2>2, <2>7, <2>8, <2>9, <2>10 DEF SfLike
<1>5. \A t \in 1 .. SurfaceSlots : t \notin Targets(owner) => surfaces'[t] = surfaces[t]
  BY <1>2
<1>6. \A t \in 1 .. SurfaceSlots : SfLike(surfaces', surfaces, t) /\ surfaces'[t].selected = surfaces[t].selected
  BY <1>4, <1>5 DEF SfLike
<1>7. surfaces' \in SfTable
  <2>1. \A t \in 1 .. SurfaceSlots : surfaces'[t] \in SfRecord
    BY <1>4, <1>5, GdParts, SfFields
  <2> QED
    BY <1>2, <2>1 DEF SfTable
<1>8. SfPlaces(surfaces')
  <2>1. CASE Targets(owner) = {}
    <3>1. \A t \in 1 .. SurfaceSlots : surfaces'[t] = surfaces[t]
      BY <1>5, <2>1
    <3> QED
      BY <1>7, <3>1, GdParts DEF SfPlaces
  <2>2. CASE Targets(owner) # {}
    <3>1. PICK s \in Targets(owner) : TRUE
      BY <2>2
    <3>2. s \in 1 .. SurfaceSlots /\ \A t \in Targets(owner) : t = s
      BY <1>1, GdParts DEF SfNamed
    <3>3. SfElse(surfaces', surfaces, s)
      BY <1>5, <3>2 DEF SfElse
    <3> QED
      BY <1>4, <1>7, <3>1, <3>2, <3>3, GdParts, SfMoved
  <2> QED
    BY <2>1, <2>2
<1>9. SfNamed(surfaces', nextGdi)
  BY <1>6, GdParts, SfNamedOn
<1>10. DcHolds(dcs, surfaces')
  BY <1>6, GdParts, DcHeldOn DEF DcHolds
<1>11. DcCounts(dcs, surfaces')
  BY <1>6, GdParts DEF DcCounts, SfLike
<1>12. GdInv'
  BY <1>2, <1>8, <1>9, <1>10, <1>11, GdParts DEF GdInv
<1>13. \A t \in 1 .. SurfaceSlots : surfaces[t].kind = "target" =>
         surfaces'[t].size = IF surfaces[t].target = owner THEN size ELSE surfaces[t].size
  BY <1>1, <1>4, <1>5
<1> QED
  BY <1>2, <1>6, <1>12, <1>13

\* pw_gdi_validate finds nothing.
LEMMA GdSound == ASSUME GdInv PROVE GdiValid
<1>1. InUse = {s \in 1 .. SurfaceSlots : surfaces[s].kind # "none"}
  BY GdParts, GdSlots
<1>2. /\ \A s \in InUse : surfaces[s].offset + surfaces[s].size <= PixelCapacity
      /\ \A s, t \in InUse : s # t => ~Overlap(surfaces[s].offset, surfaces[s].size, surfaces[t].offset, surfaces[t].size)
  BY <1>1, GdParts DEF SfPlaces
<1>3. ASSUME NEW s \in InUse, surfaces[s].kind = "bitmap"
      PROVE  surfaces[s].selected = Cardinality({d \in DOMAIN dcs : dcs[d].kind = "memory" /\ dcs[d].surface = s
                                                                    /\ dcs[d].bitmap = surfaces[s].handle})
  <2>1. \A d \in DOMAIN dcs : dcs[d].kind = "memory" /\ dcs[d].surface = s => dcs[d].bitmap = surfaces[s].handle
    BY <1>1, <1>3, GdParts DEF DcHeld
  <2>2. {d \in DOMAIN dcs : dcs[d].kind = "memory" /\ dcs[d].surface = s /\ dcs[d].bitmap = surfaces[s].handle}
          = Holders(dcs, s)
    BY <2>1 DEF Holders
  <2> QED
    BY <1>1, <1>3, <2>2, GdParts DEF DcCounts
<1>4. ASSUME NEW d \in DOMAIN dcs
      PROVE  CASE dcs[d].kind = "window" -> dcs[d].surface \in Targets(dcs[d].owner)
               [] dcs[d].bitmap = Stock -> dcs[d].surface = 0
               [] OTHER -> dcs[d].surface \in Bitmap(dcs[d].bitmap)
  <2>1. DcHeld(dcs[d], surfaces) /\ dcs[d].kind \in {"window", "memory"}
    BY GdParts, DcFields
  <2>2. PICK b, o : b = dcs[d].bitmap /\ o = dcs[d].owner
    OBVIOUS
  <2>3. /\ Targets(o) = {t \in 1 .. SurfaceSlots : surfaces[t].kind = "target" /\ surfaces[t].target = o}
        /\ Bitmap(b) = {t \in 1 .. SurfaceSlots : surfaces[t].kind = "bitmap" /\ surfaces[t].handle = b}
    BY GdParts, GdSlots
  <2>4. CASE dcs[d].kind = "window"
    <3>1. dcs[d].surface \in Targets(o) /\ b = 0
      BY <2>1, <2>2, <2>3, <2>4 DEF DcHeld
    <3>2. b # Stock
      BY <3>1, GdConstants
    <3> QED
      BY <2>2, <2>4, <3>1, <3>2
  <2>5. CASE dcs[d].kind # "window" /\ b = Stock
    <3>1. dcs[d].surface = 0
      BY <2>1, <2>2, <2>5 DEF DcHeld
    <3> QED
      BY <2>2, <2>5, <3>1
  <2>6. CASE dcs[d].kind # "window" /\ b # Stock
    <3>1. dcs[d].surface \in Bitmap(b)
      BY <2>1, <2>2, <2>3, <2>6 DEF DcHeld
    <3> QED
      BY <2>2, <2>6, <3>1
  <2> QED
    BY <2>4, <2>5, <2>6
<1>5. /\ \A d \in DOMAIN dcs : dcs[d].palette \in DOMAIN palettes \cup {0}
      /\ \A p \in DOMAIN palettes : palettes[p] = Cardinality({d \in DOMAIN dcs : dcs[d].palette = p})
  BY GdParts DEF DcPalettes, Painters
<1> QED
  BY <1>2, <1>3, <1>4, <1>5 DEF GdiValid

LEMMA GdStart == ASSUME GdiInit PROVE GdInv
<1>1. /\ DOMAIN dcs = {} /\ DOMAIN palettes = {} /\ nextGdi = 1
      /\ surfaces = [s \in 1 .. SurfaceSlots |-> NoSurface]
  BY DEF GdiInit
<1>2. NoSurface \in SfRecord /\ NoSurface.kind = "none"
  BY DEF NoSurface, SfRecord
<1>3. SfPlaces(surfaces) /\ SfNamed(surfaces, nextGdi)
  BY <1>1, <1>2 DEF SfPlaces, SfNamed, SfTable
<1>4. DcTable(dcs, nextGdi)
  <2>1. IsFiniteSet(DOMAIN dcs) /\ Cardinality(DOMAIN dcs) = 0
    BY <1>1, FS_EmptySet
  <2>2. Cardinality(DOMAIN dcs) <= DcSlots
    BY <2>1, GdConstants
  <2> QED
    BY <1>1, <2>1, <2>2 DEF DcTable
<1>5. DcHolds(dcs, surfaces) /\ DcCounts(dcs, surfaces) /\ DcPalettes(dcs, palettes, nextGdi)
  BY <1>1, <1>2 DEF DcHolds, DcCounts, DcPalettes
<1> QED
  BY <1>1, <1>3, <1>4, <1>5 DEF GdInv

-----------------------------------------------------------------------------
(* The two together.                                                       *)

\* A surface is kept for a window that is there, and has its size.
DkTargets(W, S) ==
    \A t \in 1 .. SurfaceSlots : S[t].kind = "target" =>
      \/ S[t].target = DesktopWindow
      \/ \E w \in 1 .. WindowSlots : /\ S[t].target # 0 /\ W[w].handle = S[t].target
                                     /\ ~W[w].creating /\ W[w].size = S[t].size

\* A context that a window remembers was given out, and is its own if it is there still.
DkDcs(W, D, n) ==
    \A w \in 1 .. WindowSlots : W[w].dc < n /\ (W[w].dc \in DOMAIN D => D[W[w].dc].owner = W[w].handle)

\* The inductive invariant of the desktop.
DkInv == WnInv /\ GdInv /\ DkTargets(windows, surfaces) /\ DkDcs(windows, dcs, nextGdi) /\ nextGdi <= scene.handles + 1

LEMMA DkParts ==
  ASSUME DkInv
  PROVE  /\ WnInv /\ GdInv /\ DkTargets(windows, surfaces) /\ DkDcs(windows, dcs, nextGdi) /\ nextGdi <= scene.handles + 1
         /\ windows \in WnTable /\ DOMAIN windows = 1 .. WindowSlots /\ nextGdi \in Nat \ {0} /\ 0 \notin DOMAIN dcs
         /\ \A d \in DOMAIN dcs : d < nextGdi /\ dcs[d].owner \in Nat
         /\ scene \in Scenes /\ scene.handles \in Nat
<1>1. WnInv /\ GdInv /\ DkTargets(windows, surfaces) /\ DkDcs(windows, dcs, nextGdi) /\ nextGdi <= scene.handles + 1
  BY DEF DkInv
<1>2. windows \in WnTable /\ DOMAIN windows = 1 .. WindowSlots /\ scene \in Scenes
  BY <1>1 DEF WnInv, WnSlots, WnTable, WnTypes
<1>3. nextGdi \in Nat \ {0} /\ 0 \notin DOMAIN dcs /\ \A d \in DOMAIN dcs : d < nextGdi /\ dcs[d].owner \in Nat
  BY <1>1, GdParts, DcFields DEF DcTable
<1> QED
  BY <1>1, <1>2, <1>3, WnConstants

\* The windows there are stay, with their size; a context is remembered or
\* forgotten, never another.
DkKept(V, W) ==
    \A w \in 1 .. WindowSlots :
      /\ W[w].handle # 0 /\ ~W[w].creating => V[w].handle = W[w].handle /\ ~V[w].creating /\ V[w].size = W[w].size
      /\ V[w].dc = 0 \/ (V[w].dc = W[w].dc /\ V[w].handle = W[w].handle)

LEMMA DkKeeps ==
  ASSUME NEW W, NEW V, DkKept(V, W), NEW S, NEW D, 0 \notin DOMAIN D, NEW n \in Nat \ {0}, DkTargets(W, S), DkDcs(W, D, n)
  PROVE  DkTargets(V, S) /\ DkDcs(V, D, n)
<1>1. DkTargets(V, S)
  <2> SUFFICES ASSUME NEW t \in 1 .. SurfaceSlots, S[t].kind = "target", S[t].target # DesktopWindow
               PROVE  \E w \in 1 .. WindowSlots : /\ S[t].target # 0 /\ V[w].handle = S[t].target
                                                  /\ ~V[w].creating /\ V[w].size = S[t].size
    BY DEF DkTargets
  <2>1. PICK w \in 1 .. WindowSlots : /\ S[t].target # 0 /\ W[w].handle = S[t].target
                                      /\ ~W[w].creating /\ W[w].size = S[t].size
    BY DEF DkTargets
  <2> QED
    BY <2>1 DEF DkKept
<1>2. DkDcs(V, D, n)
  <2> SUFFICES ASSUME NEW w \in 1 .. WindowSlots
               PROVE  V[w].dc < n /\ (V[w].dc \in DOMAIN D => D[V[w].dc].owner = V[w].handle)
    BY DEF DkDcs
  <2>1. CASE V[w].dc = 0
    BY <2>1
  <2>2. CASE V[w].dc = W[w].dc /\ V[w].handle = W[w].handle
    BY <2>2 DEF DkDcs
  <2> QED
    BY <2>1, <2>2 DEF DkKept
<1> QED
  BY <1>1, <1>2

\* A call of pw_gdi.c that makes no surface for a window.
LEMMA DkDraws ==
  ASSUME DkInv, GdInv', GdSteady, windows' = windows
  PROVE  DkTargets(windows', surfaces') /\ DkDcs(windows', dcs', nextGdi')
<1>1. DkTargets(windows', surfaces')
  BY DkParts DEF DkTargets, GdSteady
<1>2. ASSUME NEW w \in 1 .. WindowSlots
      PROVE  windows[w].dc < nextGdi' /\ (windows[w].dc \in DOMAIN dcs' => dcs'[windows[w].dc].owner = windows[w].handle)
  <2>1. PICK d \in Nat : d = windows[w].dc
    BY DkParts, WnFields
  <2>2. d < nextGdi /\ (d \in DOMAIN dcs => dcs[d].owner = windows[w].handle)
    BY <2>1, DkParts DEF DkDcs
  <2>3. nextGdi \in Nat /\ nextGdi' \in {nextGdi, nextGdi + 1}
    BY DkParts DEF GdSteady
  <2>4. d < nextGdi' /\ d # nextGdi
    BY <2>2, <2>3
  <2> QED
    BY <2>1, <2>2, <2>4 DEF GdSteady
<1>3. DkDcs(windows', dcs', nextGdi')
  BY <1>2 DEF DkDcs
<1> QED
  BY <1>1, <1>3

\* A window is edited, but for its size and its context.
LEMMA DkEdited ==
  ASSUME NEW W, NEW V, NEW s, W \in WnTable, NEW v, V = [W EXCEPT ![s] = v], v.handle = W[s].handle, v.size = W[s].size,
         v.creating = W[s].creating \/ ~v.creating, v.dc = W[s].dc
  PROVE  DkKept(V, W)
<1>1. \A w \in 1 .. WindowSlots : V[w] = IF w = s THEN v ELSE W[w]
  BY DEF WnTable
<1> QED
  BY <1>1 DEF DkKept

LEMMA DkCreateWindow == ASSUME WnInv, NEW c, NEW size, CreateWindow(c, size) PROVE DkKept(windows', windows)
<1>1. windows \in WnTable /\ DOMAIN windows = 1 .. WindowSlots
  BY DEF WnInv, WnSlots, WnTable
<1>2. PICK s \in 1 .. WindowSlots : windows[s].handle = 0 /\ windows' = Began(s, c, size)
  BY <1>1 DEF CreateWindow, Used
<1>3. PICK v : v = [NoWindow EXCEPT !.handle = nextObject, !.class = c, !.creating = TRUE, !.size = size,
                                    !.menu = IF c \in MenuClasses THEN nextObject + 1 ELSE 0]
  OBVIOUS
<1>4. v.dc = 0
  BY <1>3 DEF NoWindow
<1>5. windows' = [windows EXCEPT ![s] = v]
  BY <1>2, <1>3 DEF Began
<1>6. \A w \in 1 .. WindowSlots : windows'[w] = IF w = s THEN v ELSE windows[w]
  BY <1>1, <1>5
<1> QED
  BY <1>2, <1>4, <1>6 DEF DkKept

LEMMA DkCreateReturn == ASSUME WnInv, NEW ok, CreateReturn(ok) PROVE DkKept(windows', windows)
<1>1. windows \in WnTable /\ DOMAIN windows = 1 .. WindowSlots /\ creates \in Seq(WnCreation) /\ creates # <<>>
  BY DEF WnInv, WnSlots, WnTable, WnTypes, CreateReturn
<1>2. PICK k \in Nat : k = Len(creates) /\ k \in 1 .. k
  BY <1>1, WnCreations, EmptySeq
<1>3. PICK e : e = Last(creates) /\ e = creates[k]
  BY <1>2 DEF Last
<1>4. PICK s \in 1 .. WindowSlots : s = e.slot /\ windows[s].creating
  BY <1>1, <1>2, <1>3, WnCreations DEF WnInv, WnCreating
<1>5. CASE windows' = windows
  BY <1>5 DEF DkKept
<1>6. CASE windows' = [windows EXCEPT ![s].creating = FALSE]
  <2>1. PICK u \in WnRecord : u = windows[s]
    BY <1>1, <1>4, WnFields
  <2>2. PICK v : v = [u EXCEPT !.creating = FALSE]
    OBVIOUS
  <2>3. v.handle = u.handle /\ v.size = u.size
    BY <2>2 DEF WnRecord
  <2>4. v.dc = u.dc /\ ~v.creating
    BY <2>2 DEF WnRecord
  <2>5. windows' = [windows EXCEPT ![s] = v]
    BY <1>6, <2>1, <2>2
  <2> QED
    BY <1>1, <2>1, <2>3, <2>4, <2>5, DkEdited
<1>7. CASE windows' = [windows EXCEPT ![s] = NoWindow]
  <2>1. \A w \in 1 .. WindowSlots : windows'[w] = IF w = s THEN NoWindow ELSE windows[w]
    BY <1>1, <1>7
  <2> QED
    BY <1>4, <2>1, WnEmpty DEF DkKept
<1> QED
  BY <1>3, <1>4, <1>5, <1>6, <1>7 DEF CreateReturn

LEMMA DkShowWindow == ASSUME WnInv, NEW h, NEW on, ShowWindow(h, on) PROVE DkKept(windows', windows)
<1>1. PICK s \in 1 .. WindowSlots : s = Slot(h) /\ windows[s] \in WnRecord
  BY WnHandles DEF ShowWindow
<1>2. PICK w \in WnRecord : w = windows[s]
  BY <1>1
<1>3. PICK v : v = [w EXCEPT !.visible = on, !.dirty = (on \/ w.dirty)]
  OBVIOUS
<1>4. v.handle = w.handle /\ v.size = w.size
  BY <1>3 DEF WnRecord
<1>5. v.creating = w.creating /\ v.dc = w.dc
  BY <1>3 DEF WnRecord
<1>6. windows \in WnTable
  BY WnQueue
<1>7. windows' = [windows EXCEPT ![s] = v]
  <2>1. windows' = [windows EXCEPT ![s].visible = on, ![s].dirty = (on \/ @)]
    BY <1>1 DEF ShowWindow
  <2> QED
    BY <2>1, <1>2, <1>3, <1>6 DEF WnTable, WnRecord
<1> QED
  BY <1>2, <1>4, <1>5, <1>6, <1>7, DkEdited

\* A window is drawn anew, or has been.
LEMMA DkDirty ==
  ASSUME WnInv, NEW s \in 1 .. WindowSlots, NEW b, windows' = [windows EXCEPT ![s].dirty = b]
  PROVE  DkKept(windows', windows)
<1>1. windows \in WnTable
  BY WnQueue
<1>2. PICK w \in WnRecord : w = windows[s]
  BY <1>1, WnFields
<1>3. PICK v : v = [w EXCEPT !.dirty = b]
  OBVIOUS
<1>4. v.handle = w.handle /\ v.size = w.size
  BY <1>3 DEF WnRecord
<1>5. v.creating = w.creating /\ v.dc = w.dc
  BY <1>3 DEF WnRecord
<1>6. windows' = [windows EXCEPT ![s] = v]
  BY <1>2, <1>3
<1> QED
  BY <1>1, <1>2, <1>4, <1>5, <1>6, DkEdited

\* No call of pw_user32.c alone touches what a surface is kept for.
LEMMA DkUser == ASSUME WnInv, UserNext PROVE DkKept(windows', windows) /\ scene' = scene
<1>1. ASSUME NEW c, RegisterClass(c) \/ UnregisterClass(c) PROVE windows' = windows /\ scene' = scene
  BY <1>1 DEF RegisterClass, UnregisterClass
<1>2. ASSUME NEW c, NEW n, CreateWindow(c, n) PROVE DkKept(windows', windows) /\ scene' = scene
  BY <1>2, DkCreateWindow DEF CreateWindow
<1>3. ASSUME NEW c, LoadCursor(c) PROVE windows' = windows /\ scene' = scene
  BY <1>3 DEF LoadCursor
<1>4. ASSUME NEW m, NEW i, SetMenuItem(m, i) PROVE windows' = windows /\ scene' = scene
  BY <1>4 DEF SetMenuItem
<1>5. ASSUME NEW ok, CreateReturn(ok) PROVE DkKept(windows', windows) /\ scene' = scene
  BY <1>5, DkCreateReturn DEF CreateReturn
<1>6. ASSUME NEW h, NEW b, ShowWindow(h, b) PROVE DkKept(windows', windows) /\ scene' = scene
  BY <1>6, DkShowWindow DEF ShowWindow
<1>7. ASSUME NEW h, NEW bs, PadPoll(h, bs) PROVE windows' = windows /\ scene' = scene
  BY <1>7 DEF PadPoll
<1>8. ASSUME NEW h, DrawMenuBar(h) PROVE DkKept(windows', windows) /\ scene' = scene
  <2>1. Slot(h) \in 1 .. WindowSlots /\ windows' = [windows EXCEPT ![Slot(h)].dirty = TRUE] /\ scene' = scene
    BY <1>8, WnHandles DEF DrawMenuBar
  <2> QED
    BY <2>1, DkDirty
<1>9. ASSUME NEW h, SetFocus(h) \/ PostMessage(h) \/ WaitMessage(h) PROVE windows' = windows /\ scene' = scene
  BY <1>9 DEF SetFocus, PostMessage, WaitMessage
<1>10. ASSUME NEW h, DispatchMessage(h) \/ UpdateWindow(h) PROVE windows' = windows /\ scene' = scene
  BY <1>10 DEF DispatchMessage, UpdateWindow, tables
<1>11. ASSUME NEW h, TakeMessage(h) PROVE windows' = windows /\ scene' = scene
  BY <1>11 DEF TakeMessage
<1>12. ASSUME PostQuit \/ DispatchReturn \/ InitReturn PROVE windows' = windows /\ scene' = scene
  BY <1>12 DEF PostQuit, DispatchReturn, InitReturn, tables
<1>13. ASSUME UpdateReturn PROVE DkKept(windows', windows) /\ scene' = scene
  <2>1. Slot(updating) \in 1 .. WindowSlots /\ windows' = [windows EXCEPT ![Slot(updating)].dirty = FALSE] /\ scene' = scene
    BY <1>13, WnHandles DEF UpdateReturn
  <2> QED
    BY <2>1, DkDirty
<1>14. ASSUME NEW n, InitTerm(n) PROVE windows' = windows /\ scene' = scene
  BY <1>14 DEF InitTerm, tables
<1>15. windows' = windows => DkKept(windows', windows)
  BY DEF DkKept
<1> QED
  BY <1>1, <1>2, <1>3, <1>4, <1>5, <1>6, <1>7, <1>8, <1>9, <1>10, <1>11, <1>12, <1>13, <1>14, <1>15 DEF UserNext

\* What DkInv needs of a step whose parts are known.
LEMMA DkWhole ==
  ASSUME DkInv, WnInv', GdInv', DkTargets(windows', surfaces'), DkDcs(windows', dcs', nextGdi'), scene' = scene,
         nextGdi' = nextGdi \/ nextGdi' <= scene.handles + 1
  PROVE  DkInv'
BY DEF DkInv

LEMMA DkUserNext == ASSUME DkInv, UserNext, UNCHANGED gdiVars PROVE DkInv'
<1>1. WnInv' /\ DkKept(windows', windows) /\ scene' = scene
  BY DkParts, WnNext, DkUser
<1>2. surfaces' = surfaces /\ dcs' = dcs /\ nextGdi' = nextGdi /\ palettes' = palettes
  BY DEF gdiVars
<1>3. GdInv'
  BY <1>2, DkParts DEF GdInv
<1>4. DkTargets(windows', surfaces) /\ DkDcs(windows', dcs, nextGdi)
  BY <1>1, DkParts, DkKeeps
<1> QED
  BY <1>1, <1>2, <1>3, <1>4, DkWhole

\* The window goes, and the surface with it.
LEMMA DkDestroyWindow == ASSUME DkInv, NEW h, DestroyWindow(h) PROVE DkInv'
<1>1. DestroyUser(h) /\ DestroyTarget(h) /\ WnInv /\ GdInv
  BY DkParts DEF DestroyWindow
<1>2. WnInv' /\ GdInv' /\ GdSteady
  BY <1>1, WnDestroyUser, GdDestroyTarget
<1>3. PICK s \in 1 .. WindowSlots : s = Slot(h) /\ windows[s].handle = h
  BY <1>1, WnHandles DEF DestroyUser
<1>4. windows' = [windows EXCEPT ![s] = NoWindow] /\ scene' = scene
  BY <1>1, <1>3 DEF DestroyUser, Destroyed
<1>5. \A w \in 1 .. WindowSlots : windows'[w] = IF w = s THEN NoWindow ELSE windows[w]
  BY <1>4, DkParts
<1>6. \A t \in 1 .. SurfaceSlots : surfaces'[t].kind = "target" => surfaces'[t].target # h
  <2>1. Targets(h) = {t \in 1 .. SurfaceSlots : surfaces[t].kind = "target" /\ surfaces[t].target = h}
    BY <1>1, GdParts, GdSlots
  <2>2. surfaces' = [t \in 1 .. SurfaceSlots |-> IF t \in Targets(h) THEN NoSurface ELSE surfaces[t]]
    BY <1>1, GdParts DEF DestroyTarget
  <2>3. NoSurface.kind # "target"
    BY DEF NoSurface
  <2> QED
    BY <2>1, <2>2, <2>3
<1>7. DkTargets(windows', surfaces')
  <2> SUFFICES ASSUME NEW t \in 1 .. SurfaceSlots, surfaces'[t].kind = "target", surfaces'[t].target # DesktopWindow
               PROVE  \E w \in 1 .. WindowSlots : /\ surfaces'[t].target # 0 /\ windows'[w].handle = surfaces'[t].target
                                                  /\ ~windows'[w].creating /\ windows'[w].size = surfaces'[t].size
    BY DEF DkTargets
  <2>1. surfaces[t].kind = "target" /\ surfaces'[t].target = surfaces[t].target /\ surfaces'[t].size = surfaces[t].size
    BY <1>2 DEF GdSteady
  <2>2. PICK w \in 1 .. WindowSlots : /\ surfaces[t].target # 0 /\ windows[w].handle = surfaces[t].target
                                      /\ ~windows[w].creating /\ windows[w].size = surfaces[t].size
    BY <2>1, DkParts DEF DkTargets
  <2>3. w # s
    BY <1>3, <1>6, <2>1, <2>2
  <2> QED
    BY <1>5, <2>1, <2>2, <2>3
<1>8. dcs' = dcs /\ nextGdi' = nextGdi
  BY <1>1 DEF DestroyTarget
<1>9. DkDcs(windows', dcs', nextGdi')
  <2>1. \A w \in 1 .. WindowSlots : windows'[w].dc = 0 \/ windows'[w] = windows[w]
    BY <1>5, WnEmpty
  <2> QED
    BY <1>8, <2>1, DkParts DEF DkDcs
<1> QED
  BY <1>2, <1>4, <1>7, <1>8, <1>9, DkWhole

LEMMA DkDestroyDesktop == ASSUME DkInv, DestroyDesktop PROVE DkInv'
<1>1. DestroyTarget(DesktopWindow) /\ UNCHANGED userVars /\ WnInv /\ GdInv
  BY DkParts DEF DestroyDesktop
<1>2. WnInv' /\ GdInv' /\ GdSteady
  BY <1>1, WnNext, GdDestroyTarget
<1>3. windows' = windows /\ scene' = scene /\ nextGdi' = nextGdi
  BY <1>1 DEF userVars, DestroyTarget
<1>4. DkTargets(windows', surfaces') /\ DkDcs(windows', dcs', nextGdi')
  BY <1>2, <1>3, DkDraws
<1> QED
  BY <1>2, <1>3, <1>4, DkWhole

\* The surface and the window change their size together.
LEMMA DkMoveWindow == ASSUME DkInv, NEW h, NEW size \in Sizes, MoveWindow(h, size) PROVE DkInv'
<1>1. ResizeTarget(h, size) /\ MoveUser(h, size) /\ WnInv /\ GdInv
  BY DkParts DEF MoveWindow
<1>2. WnInv'
  BY <1>1, WnMoveUser
<1>3. /\ GdInv' /\ nextGdi' = nextGdi /\ dcs' = dcs
      /\ \A t \in 1 .. SurfaceSlots : /\ SfLike(surfaces', surfaces, t)
                                      /\ surfaces[t].kind = "target" =>
                                           surfaces'[t].size = IF surfaces[t].target = h THEN size ELSE surfaces[t].size
  BY <1>1, GdResizeTarget
<1>4. PICK s \in 1 .. WindowSlots : s = Slot(h) /\ windows[s].handle = h /\ windows[s] \in WnRecord
  BY <1>1, WnHandles DEF MoveUser
<1>5. windows' = [windows EXCEPT ![s].size = size] /\ scene' = scene
  BY <1>1, <1>4 DEF MoveUser
<1>6. PICK u \in WnRecord : u = windows[s]
  BY <1>4
<1>7. PICK v : v = [u EXCEPT !.size = size]
  OBVIOUS
<1>8. v.handle = u.handle /\ v.size = size
  BY <1>7 DEF WnRecord
<1>9. v.creating = u.creating /\ v.dc = u.dc
  BY <1>7 DEF WnRecord
<1>10. \A w \in 1 .. WindowSlots : windows'[w] = IF w = s THEN v ELSE windows[w]
  BY <1>5, <1>6, <1>7, DkParts
<1>11. DkTargets(windows', surfaces')
  <2> SUFFICES ASSUME NEW t \in 1 .. SurfaceSlots, surfaces'[t].kind = "target", surfaces'[t].target # DesktopWindow
               PROVE  \E w \in 1 .. WindowSlots : /\ surfaces'[t].target # 0 /\ windows'[w].handle = surfaces'[t].target
                                                  /\ ~windows'[w].creating /\ windows'[w].size = surfaces'[t].size
    BY DEF DkTargets
  <2>1. /\ surfaces[t].kind = "target" /\ surfaces'[t].target = surfaces[t].target
        /\ surfaces'[t].size = IF surfaces[t].target = h THEN size ELSE surfaces[t].size
    BY <1>3 DEF SfLike
  <2>2. PICK w \in 1 .. WindowSlots : /\ surfaces[t].target # 0 /\ windows[w].handle = surfaces[t].target
                                      /\ ~windows[w].creating /\ windows[w].size = surfaces[t].size
    BY <2>1, DkParts DEF DkTargets
  <2>3. w = s <=> surfaces[t].target = h
    <3>1. \A i, j \in 1 .. WindowSlots : windows[i].handle # 0 /\ windows[i].handle = windows[j].handle => i = j
      BY <1>1 DEF WnInv, WnDistinct
    <3> QED
      BY <1>4, <2>2, <3>1
  <2> QED
    BY <1>6, <1>8, <1>9, <1>10, <2>1, <2>2, <2>3
<1>12. DkDcs(windows', dcs', nextGdi')
  <2>1. \A w \in 1 .. WindowSlots : windows'[w].dc = windows[w].dc /\ windows'[w].handle = windows[w].handle
    BY <1>6, <1>8, <1>9, <1>10
  <2> QED
    BY <1>3, <2>1, DkParts DEF DkDcs
<1> QED
  BY <1>2, <1>3, <1>5, <1>11, <1>12, DkWhole

\* What GetDC leaves: its own surface may be new, and its context is.
LEMMA DkGets ==
  ASSUME DkInv, NEW owner \in Nat, NEW size \in Sizes \cup BitmapSizes, GetDc(owner, size),
         owner = DesktopWindow \/ \E w \in 1 .. WindowSlots : /\ owner # 0 /\ windows[w].handle = owner
                                                             /\ ~windows[w].creating /\ windows[w].size = size
  PROVE  /\ GdInv' /\ DkTargets(windows, surfaces') /\ DkDcs(windows, dcs', nextGdi')
         /\ nextGdi' = nextGdi + 1 /\ dcs'[nextGdi].owner = owner
<1>1. /\ GdInv' /\ nextGdi' = nextGdi + 1 /\ dcs' = With(dcs, nextGdi, dcs'[nextGdi]) /\ dcs'[nextGdi].owner = owner
      /\ \A t \in 1 .. SurfaceSlots : \/ surfaces'[t] = surfaces[t]
                                      \/ surfaces'[t].kind = "target" /\ surfaces'[t].target = owner
                                         /\ surfaces'[t].size = size
  BY DkParts, GdGetDc
<1>2. DkTargets(windows, surfaces')
  BY <1>1, DkParts DEF DkTargets
<1>3. \A d \in DOMAIN dcs' : d = nextGdi \/ (d \in DOMAIN dcs /\ dcs'[d] = dcs[d])
  BY <1>1 DEF With
<1>4. ASSUME NEW w \in 1 .. WindowSlots
      PROVE  windows[w].dc < nextGdi' /\ (windows[w].dc \in DOMAIN dcs' => dcs'[windows[w].dc].owner = windows[w].handle)
  <2>1. PICK d \in Nat : d = windows[w].dc
    BY DkParts, WnFields
  <2>2. d < nextGdi /\ (d \in DOMAIN dcs => dcs[d].owner = windows[w].handle)
    BY <2>1, DkParts DEF DkDcs
  <2>3. d < nextGdi' /\ d # nextGdi
    BY <1>1, <2>2, DkParts
  <2> QED
    BY <1>3, <2>1, <2>2, <2>3
<1>5. DkDcs(windows, dcs', nextGdi')
  BY <1>4 DEF DkDcs
<1> QED
  BY <1>1, <1>2, <1>5

LEMMA DkBeginPaint == ASSUME DkInv, NEW h, BeginPaint(h), nextGdi <= scene.handles PROVE DkInv'
<1>1. GetDc(h, Window(h).size) /\ BeginUser(h, nextGdi) /\ WnInv /\ IsWindow(h)
  BY DkParts DEF BeginPaint
<1>2. WnInv'
  BY <1>1, DkParts, WnPainting
<1>3. PICK s \in 1 .. WindowSlots : /\ s = Slot(h) /\ windows[s].handle = h /\ windows[s] \in WnRecord /\ h # 0 /\ h \in Nat
                                    /\ ~windows[s].creating /\ Window(h) = windows[s] /\ windows[s].size \in Sizes
  BY <1>1, WnHandles
<1>4. /\ GdInv' /\ DkTargets(windows, surfaces') /\ DkDcs(windows, dcs', nextGdi')
      /\ nextGdi' = nextGdi + 1 /\ dcs'[nextGdi].owner = h
  BY <1>1, <1>3, DkGets
<1>5. windows' = [windows EXCEPT ![s].dc = nextGdi] /\ scene' = scene
  BY <1>1, <1>3 DEF BeginUser
<1>6. PICK u \in WnRecord : u = windows[s]
  BY <1>3
<1>7. PICK v : v = [u EXCEPT !.dc = nextGdi]
  OBVIOUS
<1>8. v.handle = u.handle /\ v.size = u.size
  BY <1>7 DEF WnRecord
<1>9. v.creating = u.creating /\ v.dc = nextGdi
  BY <1>7 DEF WnRecord
<1>10. \A w \in 1 .. WindowSlots : windows'[w] = IF w = s THEN v ELSE windows[w]
  BY <1>5, <1>6, <1>7, DkParts
<1>11. DkTargets(windows', surfaces')
  <2>1. \A w \in 1 .. WindowSlots : /\ windows'[w].handle = windows[w].handle /\ windows'[w].size = windows[w].size
                                    /\ windows'[w].creating = windows[w].creating
    BY <1>6, <1>8, <1>9, <1>10
  <2> QED
    BY <1>4, <2>1 DEF DkTargets
<1>12. DkDcs(windows', dcs', nextGdi')
  <2>1. v.dc < nextGdi' /\ v.handle = h
    BY <1>3, <1>4, <1>6, <1>8, <1>9, DkParts
  <2>2. dcs'[v.dc].owner = v.handle
    BY <1>4, <1>9, <2>1
  <2> QED
    BY <1>4, <1>10, <2>1, <2>2 DEF DkDcs
<1>13. nextGdi' <= scene.handles + 1
  BY <1>4, DkParts
<1> QED
  BY <1>2, <1>4, <1>5, <1>11, <1>12, <1>13, DkWhole

LEMMA DkEndPaint == ASSUME DkInv, NEW h, EndPaint(h) PROVE DkInv'
<1>1. ReleaseDc(h, Window(h).dc) /\ EndUser(h, Window(h).dc) /\ WnInv /\ GdInv /\ IsWindow(h)
  BY DkParts DEF EndPaint
<1>2. PICK s \in 1 .. WindowSlots : s = Slot(h) /\ windows[s] \in WnRecord /\ Window(h) = windows[s]
  BY <1>1, WnHandles
<1>3. Window(h).dc \in Nat
  BY <1>2 DEF WnRecord
<1>4. WnInv' /\ GdInv' /\ GdSteady
  BY <1>1, <1>3, WnPainting, GdReleaseDc
<1>5. windows' = [windows EXCEPT ![s].dc = 0] /\ scene' = scene /\ nextGdi' = nextGdi /\ surfaces' = surfaces
  BY <1>1, <1>2 DEF EndUser, ReleaseDc
<1>6. PICK u \in WnRecord : u = windows[s]
  BY <1>2
<1>7. PICK v : v = [u EXCEPT !.dc = 0]
  OBVIOUS
<1>8. v.handle = u.handle /\ v.size = u.size
  BY <1>7 DEF WnRecord
<1>9. v.creating = u.creating /\ v.dc = 0
  BY <1>7 DEF WnRecord
<1>10. \A w \in 1 .. WindowSlots : windows'[w] = IF w = s THEN v ELSE windows[w]
  BY <1>5, <1>6, <1>7, DkParts
<1>11. DkKept(windows', windows)
  BY <1>6, <1>8, <1>9, <1>10 DEF DkKept
<1>12. DkTargets(windows', surfaces) /\ DkDcs(windows', dcs, nextGdi)
  BY <1>11, DkParts, DkKeeps
<1>13. \A d \in DOMAIN dcs' : d \in DOMAIN dcs /\ dcs'[d] = dcs[d]
  <2>1. dcs' = Without(dcs, Window(h).dc) /\ palettes' = Deselected(dcs[Window(h).dc].palette) /\ Window(h).dc \in DOMAIN dcs
    BY <1>1 DEF ReleaseDc, WindowDcs
  <2> QED
    BY <1>1, <2>1, DcGone
<1>14. DkDcs(windows', dcs', nextGdi')
  BY <1>5, <1>12, <1>13 DEF DkDcs
<1> QED
  BY <1>4, <1>5, <1>12, <1>14, DkWhole

\* The calls of gdi32.dll.
LEMMA DkGdi ==
  ASSUME DkInv, GdiCall \/ PaletteCall, nextGdi' <= scene.handles + 1, UNCHANGED userVars
  PROVE  DkInv'
<1>1. WnInv' /\ windows' = windows /\ scene' = scene /\ GdInv
  BY DkParts, WnNext DEF userVars
<1>2. ASSUME NEW h \in Handles \cup {DesktopWindow}, NEW n \in Sizes \cup BitmapSizes, Rect(h, n), GetDc(h, n) PROVE DkInv'
  <2>1. /\ h \in Nat
        /\ h = DesktopWindow \/ \E w \in 1 .. WindowSlots : /\ h # 0 /\ windows[w].handle = h
                                                           /\ ~windows[w].creating /\ windows[w].size = n
    <3>1. CASE h = DesktopWindow
      BY <3>1 DEF DesktopWindow
    <3>2. CASE h # DesktopWindow
      <4>1. IsWindow(h) /\ n = Window(h).size
        BY <1>2, <3>2 DEF Rect
      <4> QED
        BY <4>1, WnHandles, DkParts
    <3> QED
      BY <3>1, <3>2
  <2>2. GdInv' /\ DkTargets(windows, surfaces') /\ DkDcs(windows, dcs', nextGdi')
    BY <1>2, <2>1, DkGets
  <2> QED
    BY <1>1, <2>2, DkWhole
<1>3. ASSUME GdInv' /\ GdSteady PROVE DkInv'
  <2>1. DkTargets(windows', surfaces') /\ DkDcs(windows', dcs', nextGdi')
    BY <1>1, <1>3, DkDraws
  <2> QED
    BY <1>1, <1>3, <2>1, DkWhole
<1>4. CASE GdiCall
  <2>1. ASSUME NEW d \in DOMAIN dcs,
               \/ ReleaseDc(dcs[d].owner, d)
               \/ CreateCompatibleDc(d) \/ DeleteDc(d)
               \/ \E b \in 1..(nextGdi - 1) : SelectBitmap(d, b)
        PROVE  DkInv'
    BY <1>1, <1>3, <2>1, GdReleaseDc, GdCreateDc, GdDeleteDc, GdSelectBitmap
  <2>2. ASSUME (\E n \in BitmapSizes : CreateBitmap(n)) \/ \E b \in 1..(nextGdi - 1) : DeleteBitmap(b)
        PROVE  DkInv'
    BY <1>1, <1>3, <2>2, GdCreateBitmap, GdDeleteBitmap
  <2> QED
    BY <1>2, <1>4, <2>1, <2>2 DEF GdiCall
<1>5. CASE PaletteCall
  BY <1>1, <1>3, <1>5, GdCreatePalette, GdDeletePalette, GdSelectPalette DEF PaletteCall
<1> QED
  BY <1>4, <1>5

LEMMA DkEnds == ASSUME DkInv, DesktopEnds PROVE DkInv'
<1>1. /\ ended' = TRUE /\ scene' = scene /\ UNCHANGED <<tables, records, issued>> /\ UNCHANGED gdiVars
  BY DEF DesktopEnds, gdiVars
<1>2. WnInv'
  BY <1>1, DkParts DEF tables, records, WnInv, WnTypes
<1>3. GdInv'
  BY <1>1, DkParts DEF gdiVars, GdInv
<1>4. windows' = windows /\ dcs' = dcs /\ surfaces' = surfaces /\ nextGdi' = nextGdi
  BY <1>1 DEF tables, gdiVars
<1> QED
  BY <1>1, <1>2, <1>3, <1>4, DkParts, DkWhole

\* Every step of the desktop.
LEMMA DkNext == ASSUME DkInv, [DesktopNext]_desktopVars PROVE DkInv'
<1>1. CASE UNCHANGED desktopVars
  <2>1. UNCHANGED userVars /\ UNCHANGED gdiVars
    BY <1>1 DEF desktopVars
  <2>2. WnInv'
    BY <2>1, DkParts, WnNext
  <2>3. GdInv' /\ windows' = windows /\ scene' = scene /\ dcs' = dcs /\ surfaces' = surfaces /\ nextGdi' = nextGdi
    BY <2>1, DkParts DEF GdInv, userVars, gdiVars
  <2> QED
    BY <2>2, <2>3, DkParts, DkWhole
<1>2. CASE DesktopNext
  BY <1>2, DkUserNext, DkDestroyWindow, DkMoveWindow, DkBeginPaint, DkEndPaint, DkDestroyDesktop, DkGdi, DkEnds DEF DesktopNext
<1> QED
  BY <1>1, <1>2

LEMMA DkStart == ASSUME DesktopInit PROVE DkInv
<1>1. WnInv /\ GdInv
  BY WnStart, GdStart DEF DesktopInit
<1>2. /\ \A t \in 1 .. SurfaceSlots : surfaces[t].kind # "target"
      /\ \A w \in 1 .. WindowSlots : windows[w].dc = 0
      /\ DOMAIN dcs = {} /\ nextGdi = 1 /\ scene \in Scenes
  <2>1. \A t \in 1 .. SurfaceSlots : surfaces[t].kind # "target"
    BY DEF DesktopInit, GdiInit, NoSurface
  <2>2. \A w \in 1 .. WindowSlots : windows[w].dc = 0
    BY WnEmpty DEF DesktopInit, UserInit
  <2>3. DOMAIN dcs = {} /\ nextGdi = 1
    BY DEF DesktopInit, GdiInit
  <2>4. scene \in Scenes
    BY DEF DesktopInit, UserInit
  <2> QED
    BY <2>1, <2>2, <2>3, <2>4
<1>3. DkTargets(windows, surfaces) /\ DkDcs(windows, dcs, nextGdi)
  BY <1>2 DEF DkTargets, DkDcs
<1>4. nextGdi <= scene.handles + 1
  BY <1>2, WnConstants
<1> QED
  BY <1>1, <1>3, <1>4 DEF DkInv

LEMMA DkSound == ASSUME DkInv PROVE SurfacesSound /\ DesktopTypeOK
<1>1. GdiValid /\ WindowsSound /\ UserTypeOK
  BY DkParts, GdSound, WnSound
<1>2. InUse = {s \in 1 .. SurfaceSlots : surfaces[s].kind # "none"}
  BY DkParts, GdParts, GdSlots
<1>3. ASSUME NEW s \in InUse, surfaces[s].kind = "target"
      PROVE  \/ surfaces[s].target = DesktopWindow
             \/ IsWindow(surfaces[s].target) /\ Window(surfaces[s].target).size = surfaces[s].size
  <2>1. s \in 1 .. SurfaceSlots
    BY <1>2
  <2>2. CASE surfaces[s].target # DesktopWindow
    <3>1. PICK h : h = surfaces[s].target
      OBVIOUS
    <3>2. PICK w \in 1 .. WindowSlots : /\ h # 0 /\ windows[w].handle = h
                                        /\ ~windows[w].creating /\ windows[w].size = surfaces[s].size
      BY <1>3, <2>1, <2>2, <3>1, DkParts DEF DkTargets
    <3>3. IsWindow(h)
      BY <3>2, DkParts DEF IsWindow
    <3>4. Slot(h) = w /\ Window(h) = windows[w]
      <4>1. Slot(h) \in 1 .. WindowSlots /\ windows[Slot(h)].handle = h /\ Window(h) = windows[Slot(h)]
        BY <3>3, DkParts, WnHandles
      <4>2. \A i, j \in 1 .. WindowSlots : windows[i].handle # 0 /\ windows[i].handle = windows[j].handle => i = j
        BY DkParts DEF WnInv, WnDistinct
      <4> QED
        BY <3>2, <4>1, <4>2
    <3> QED
      BY <3>1, <3>2, <3>3, <3>4
  <2> QED
    BY <2>2
<1>4. ASSUME NEW h \in Handles, Window(h).dc \in DOMAIN dcs PROVE dcs[Window(h).dc].owner = h
  <2>1. IsWindow(h)
    BY DEF Handles
  <2>2. Slot(h) \in 1 .. WindowSlots /\ windows[Slot(h)].handle = h /\ Window(h) = windows[Slot(h)]
    BY <2>1, DkParts, WnHandles
  <2> QED
    BY <1>4, <2>2, DkParts DEF DkDcs
<1>5. SurfacesSound
  BY <1>1, <1>3, <1>4 DEF SurfacesSound
<1>6. DesktopTypeOK
  <2>1. Cardinality(DOMAIN dcs) <= DcSlots
    BY DkParts, GdParts DEF DcTable
  <2>2. nextGdi \in 1 .. (scene.handles + 1)
    BY DkParts
  <2>3. \A s \in InUse : surfaces[s].size \in Sizes \cup BitmapSizes
    BY <1>2, DkParts, GdParts DEF SfPlaces
  <2> QED
    BY <1>1, <2>1, <2>2, <2>3 DEF DesktopTypeOK
<1> QED
  BY <1>5, <1>6

LEMMA DkAlways == DesktopSpec => []DkInv
BY DkStart, DkNext, PTL DEF DesktopSpec

\* The state of the desktop has its type, for any scene.
THEOREM DesktopTyping == DesktopSpec => []DesktopTypeOK
<1>1. DkInv => DesktopTypeOK
  BY DkSound
<1> QED
  BY <1>1, DkAlways, PTL

\* Handles and what refers to windows (pw_user32.c) stay sound for any number of
\* windows, classes, messages and nested callbacks.
THEOREM WindowsAlwaysSound == DesktopSpec => []WindowsSound
<1>1. DkInv => WindowsSound
  BY WnSound DEF DkInv
<1> QED
  BY <1>1, DkAlways, PTL

\* pw_gdi_validate finds nothing, and every surface and context follows its
\* window (pw_win32.c, pw_gdi.c), for any sizes, capacities and calls.
THEOREM SurfacesAlwaysSound == DesktopSpec => []SurfacesSound
<1>1. DkInv => SurfacesSound
  BY DkSound
<1> QED
  BY <1>1, DkAlways, PTL
=============================================================================
