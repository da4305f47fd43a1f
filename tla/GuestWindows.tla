---------------------------- MODULE GuestWindows ----------------------------
(***************************************************************************)
(* src/pw_user32.c, the guest's windows, classes, menus and message queue, *)
(* and the part of src/pw_win32.c that calls back into the guest: a call   *)
(* such as CreateWindowExA suspends itself in a record of the host, the    *)
(* guest's window procedure runs and may make any call again, and its      *)
(* return address, a token, brings the host back to the record.            *)
(*                                                                         *)
(* A call that changes nothing (a lookup, an error the guest is told of)   *)
(* is not an action.  A call the adapter answers with a status other than  *)
(* PW_OK ends the title: the runtime aborts (Fatal).                       *)
(***************************************************************************)
EXTENDS Integers, Sequences, FiniteSets, SequencesExt

CONSTANTS
    Classes, MenuClasses,   \* the class names, and those with a menu
    Cursors,                \* the resources the guest loads
    Sizes,                  \* the areas of windows and bitmaps
    MenuItems,              \* the menu item identifiers
    WindowSlots, QueueSlots, ItemSlots,       \* capacities of the tables
    CreateDepth, InitDepth,                   \* PW_WIN32_CREATE_DEPTH, _INIT_DEPTH
    Scenes                  \* bounds of a behaviour: the groups of calls the
                            \* guest makes, the classes it uses, and how many
                            \* objects it makes

ASSUME WindowsAssumption ==
    /\ MenuClasses \subseteq Classes
    /\ WindowSlots \in Nat \ {0} /\ QueueSlots \in Nat \ {0} /\ ItemSlots \in Nat
    /\ CreateDepth \in Nat /\ InitDepth \in Nat
    /\ Sizes \subseteq Nat \ {0}
    /\ \A s \in Scenes : s.objects \in Nat /\ s.classes \subseteq Classes

VARIABLES
    scene,         \* the scene of this behaviour
    ended,         \* the runtime aborted, or the guest left
    classes,       \* the registered classes
    windows,       \* PwUser32.windows
    nextObject,    \* PwUser32.next_object
    cursors,       \* handles of the loaded cursors
    items,         \* PwUser32.menu_items: <<menu, item>> pairs
    queue,         \* PwUser32.queue
    quit,          \* PwUser32.quit_pending
    focus,         \* PwUser32.focus_window
    pressed,          \* PwPad.previous_buttons
    inits,         \* PwWin32.init: entries left, per nested _initterm
    creates,       \* PwWin32.create
    updating,      \* PwWin32.update: the window, 0 if inactive
    dispatching,   \* PwWin32.message_dispatch, likewise
    stack,         \* the guest's stack: the token each callback returns to
    issued,        \* every handle a call has returned to the guest
    passed         \* every handle a window procedure was passed while its window
                   \* was under construction

userVars == <<scene, ended, classes, windows, nextObject, cursors, items, queue, quit, focus, pressed,
              inits, creates, updating, dispatching, stack, issued, passed>>
tables == <<classes, windows, nextObject, cursors, items, queue, quit, focus, pressed>>
records == <<inits, creates, updating, dispatching, stack>>

Kinds == {"post", "key", "activate", "focus"}
Buttons == {"left", "create"}      \* a button with a key, and Create, which quits

NoWindow == [handle |-> 0, class |-> "", creating |-> FALSE, visible |-> FALSE,
             dirty |-> FALSE, dc |-> 0, menu |-> 0, size |-> 0]

UserInit ==
    /\ scene \in Scenes
    /\ ended = FALSE
    /\ classes = {} /\ cursors = {} /\ items = {} /\ pressed = {} /\ issued = {} /\ passed = {}
    /\ windows = [s \in 1..WindowSlots |-> NoWindow]
    /\ nextObject = 1
    /\ queue = <<>> /\ quit = FALSE /\ focus = 0
    /\ inits = <<>> /\ creates = <<>> /\ updating = 0 /\ dispatching = 0
    /\ stack = <<>>

Calls(group) == ~ended /\ group \in scene.calls

Used(s) == windows[s].handle # 0
\* A window under construction is not found by its handle.
IsWindow(h) == \E s \in DOMAIN windows : windows[s].handle = h /\ h # 0 /\ ~windows[s].creating
Slot(h) == CHOOSE s \in DOMAIN windows : windows[s].handle = h
Window(h) == windows[Slot(h)]
Handles == {windows[s].handle : s \in {t \in DOMAIN windows : IsWindow(windows[t].handle)}}
Menus == {windows[s].menu : s \in DOMAIN windows} \ {0}

-----------------------------------------------------------------------------
(* Classes, cursors and menus.                                             *)

RegisterClass(c) ==
    /\ Calls("class")
    /\ c \in scene.classes \ classes
    /\ classes' = classes \cup {c}
    /\ UNCHANGED <<scene, ended, windows, nextObject, cursors, items, queue, quit, focus, pressed, records, issued, passed>>

UnregisterClass(c) ==
    /\ Calls("unregister")
    /\ c \in classes
    /\ \A s \in DOMAIN windows : windows[s].class # c
    /\ classes' = classes \ {c}
    /\ UNCHANGED <<scene, ended, windows, nextObject, cursors, items, queue, quit, focus, pressed, records, issued, passed>>

\* LoadCursorA and LoadIconA: a resource gets its handle the first time.
LoadCursor(c) ==
    /\ Calls("cursor")
    /\ \A r \in cursors : r.name # c
    /\ nextObject <= scene.objects
    /\ cursors' = cursors \cup {[name |-> c, handle |-> nextObject]}
    /\ nextObject' = nextObject + 1
    /\ issued' = issued \cup {nextObject}
    /\ UNCHANGED <<scene, ended, classes, windows, items, queue, quit, focus, pressed, records, passed>>

\* CheckMenuItem, EnableMenuItem and DeleteMenu keep a record of an item, on
\* any menu of a window.  The guest names only menus GetMenu gave it.
SetMenuItem(m, i) ==
    /\ Calls("menu")
    /\ m \in Menus \cap issued
    /\ <<m, i>> \notin items /\ Cardinality(items) < ItemSlots
    /\ items' = items \cup {<<m, i>>}
    /\ UNCHANGED <<scene, ended, classes, windows, nextObject, cursors, queue, quit, focus, pressed, records, issued, passed>>

-----------------------------------------------------------------------------
(* Creating a window: the record is made, and WM_NCCREATE, then WM_CREATE, *)
(* are sent with its handle to the class's procedure, which may refuse.    *)

Began(s, c, size) ==
    [windows EXCEPT ![s] = [NoWindow EXCEPT !.handle = nextObject, !.class = c, !.creating = TRUE, !.size = size,
                                            !.menu = IF c \in MenuClasses THEN nextObject + 1 ELSE 0]]

CreateWindow(c, size) ==
    /\ Calls("window")
    /\ c \in classes
    /\ Len(creates) < CreateDepth
    /\ \E s \in DOMAIN windows :
         /\ ~Used(s) /\ \A t \in 1..(s - 1) : Used(t)
         /\ windows' = Began(s, c, size)
         /\ nextObject' = nextObject + (IF c \in MenuClasses THEN 2 ELSE 1)
         /\ nextObject' <= scene.objects + 1
         /\ creates' = Append(creates, [slot |-> s, handle |-> nextObject, phase |-> 1])
         /\ stack' = Append(stack, <<"create", Len(creates) + 1>>)
    /\ passed' = passed \cup {nextObject}
    /\ UNCHANGED <<scene, ended, classes, cursors, items, queue, quit, focus, pressed,
                   inits, updating, dispatching, issued>>

\* pw_user32_finish_window: a refused window's handles are given back if no
\* later object has one.
Unnumbered(n, w) ==
    LET afterMenu == IF w.menu # 0 /\ w.menu + 1 = n THEN n - 1 ELSE n
    IN  IF w.handle + 1 = afterMenu THEN afterMenu - 1 ELSE afterMenu

\* The procedure returns to the token of the innermost creation.
Returns(token) == ~ended /\ stack # <<>> /\ Last(stack) = token

CreateReturn(accepted) ==
    /\ creates # <<>>
    /\ Returns(<<"create", Len(creates)>>)
    /\ LET create == Last(creates)
           w == windows[create.slot]
       IN  \/ /\ accepted /\ create.phase = 1      \* WM_CREATE follows
              /\ creates' = [creates EXCEPT ![Len(creates)].phase = 2]
              /\ UNCHANGED <<windows, nextObject, stack, issued, passed>>
           \/ /\ accepted /\ create.phase = 2
              /\ windows' = [windows EXCEPT ![create.slot].creating = FALSE]
              /\ issued' = (issued \cup {w.handle, w.menu}) \ {0}
              /\ creates' = Front(creates) /\ stack' = Front(stack)
              /\ UNCHANGED nextObject
           \/ /\ ~accepted
              /\ windows' = [windows EXCEPT ![create.slot] = NoWindow]
              /\ nextObject' = Unnumbered(nextObject, w)
              /\ creates' = Front(creates) /\ stack' = Front(stack)
              /\ UNCHANGED issued
    /\ UNCHANGED <<scene, ended, classes, cursors, items, queue, quit, focus, pressed,
                   inits, updating, dispatching, passed>>

-----------------------------------------------------------------------------
(* Windows in use.                                                         *)

ShowWindow(h, visible) ==
    /\ Calls("show")
    /\ IsWindow(h) /\ (Window(h).visible # visible \/ (visible /\ ~Window(h).dirty))
    /\ LET activates == visible /\ ~Window(h).visible
       IN  /\ activates => Len(queue) < QueueSlots
           /\ queue' = IF activates THEN Append(queue, [window |-> h, kind |-> "activate"]) ELSE queue
    /\ windows' = [windows EXCEPT ![Slot(h)].visible = visible, ![Slot(h)].dirty = (visible \/ @)]
    /\ UNCHANGED <<scene, ended, classes, nextObject, cursors, items, quit, focus, pressed, records, issued, passed>>

DrawMenuBar(h) ==
    /\ Calls("menu")
    /\ IsWindow(h) /\ ~Window(h).dirty
    /\ windows' = [windows EXCEPT ![Slot(h)].dirty = TRUE]
    /\ UNCHANGED <<scene, ended, classes, nextObject, cursors, items, queue, quit, focus, pressed, records, issued, passed>>

SetFocus(h) ==
    /\ Calls("message")
    /\ IsWindow(h) /\ focus # h
    /\ focus' = h
    /\ UNCHANGED <<scene, ended, classes, windows, nextObject, cursors, items, queue, quit, pressed, records, issued, passed>>

\* Mutant: the queue keeps the messages of the window.
MDestroyed(h) ==
    /\ windows' = [windows EXCEPT ![Slot(h)] = NoWindow]
    /\ items' = {x \in items : x[1] # Window(h).menu}
    /\ focus' = IF focus = h THEN 0 ELSE focus
    /\ UNCHANGED queue

\* The messages for other windows, in their order.
Others(h) ==
    LET Kept[i \in 0..Len(queue)] ==
          IF i = 0 THEN <<>>
          ELSE IF queue[i].window = h THEN Kept[i - 1] ELSE Append(Kept[i - 1], queue[i])
    IN  Kept[Len(queue)]

\* pw_user32_destroy_window: whatever names the window goes with it.
Destroyed(h) ==
    /\ windows' = [windows EXCEPT ![Slot(h)] = NoWindow]
    /\ items' = {x \in items : x[1] # Window(h).menu}
    /\ focus' = IF focus = h THEN 0 ELSE focus
    /\ queue' = Others(h)

DestroyUser(h) ==
    /\ Calls("window")
    /\ IsWindow(h) /\ Window(h).dc = 0
    /\ Destroyed(h)
    /\ UNCHANGED <<scene, ended, classes, nextObject, cursors, quit, pressed, records, issued, passed>>

MoveUser(h, size) ==
    /\ Calls("window")
    /\ IsWindow(h) /\ Window(h).size # size
    /\ windows' = [windows EXCEPT ![Slot(h)].size = size]
    /\ UNCHANGED <<scene, ended, classes, nextObject, cursors, items, queue, quit, focus, pressed, records, issued, passed>>

-----------------------------------------------------------------------------
(* Messages.                                                               *)

\* PostMessageA.  A full queue is an error the guest is told of.
PostMessage(h) ==
    /\ Calls("message")
    /\ IsWindow(h) /\ Len(queue) < QueueSlots
    /\ queue' = Append(queue, [window |-> h, kind |-> "post"])
    /\ UNCHANGED <<scene, ended, classes, windows, nextObject, cursors, items, quit, focus, pressed, records, issued, passed>>

PostQuit ==
    /\ Calls("message")
    /\ ~quit /\ quit' = TRUE
    /\ UNCHANGED <<scene, ended, classes, windows, nextObject, cursors, items, queue, focus, pressed, records, issued, passed>>

\* PeekMessageA with PM_REMOVE, or GetMessageA, for a window or (0) for all:
\* WM_QUIT first, whatever the filter says.
TakeMessage(filter) ==
    /\ Calls("message")
    /\ filter = 0 \/ IsWindow(filter)
    /\ \/ quit /\ quit' = FALSE /\ UNCHANGED queue
       \/ /\ ~quit
          /\ LET i == SelectInSeq(queue, LAMBDA m : filter \in {0, m.window})
             IN  i # 0 /\ queue' = RemoveAt(queue, i)
          /\ UNCHANGED quit
    /\ UNCHANGED <<scene, ended, classes, windows, nextObject, cursors, items, focus, pressed, records, issued, passed>>

\* GetMessageA finds nothing for its window: the host makes a message up, the
\* first time WM_SETFOCUS, and starts the game with a command it posts.
WaitMessage(h) ==
    /\ Calls("wait")
    /\ IsWindow(h) /\ ~quit /\ \A i \in DOMAIN queue : queue[i].window # h
    /\ Len(queue) < QueueSlots
    /\ queue' = Append(queue, [window |-> h, kind |-> "focus"])
    /\ UNCHANGED <<scene, ended, classes, windows, nextObject, cursors, items, quit, focus, pressed, records, issued, passed>>

\* The loop reads the pad for a visible window: every button that
\* changed is posted as a key, or, if they do not all fit, nothing is.
Keyed(buttons) == Cardinality(((pressed \ buttons) \cup (buttons \ pressed)) \ {"create"})
PadPoll(h, buttons) ==
    /\ Calls("pad")
    /\ IsWindow(h) /\ (h = focus \/ Window(h).visible)
    /\ buttons # pressed /\ Len(queue) + Keyed(buttons) <= QueueSlots
    /\ queue' = queue \o [i \in 1..Keyed(buttons) |-> [window |-> h, kind |-> "key"]]
    /\ pressed' = buttons
    /\ quit' = (quit \/ "create" \in buttons \ pressed)
    /\ UNCHANGED <<scene, ended, classes, windows, nextObject, cursors, items, focus, records, issued, passed>>

\* DispatchMessageA: the guest passes any window it knows of.
DispatchMessage(h) ==
    /\ Calls("dispatch")
    /\ dispatching = 0 /\ IsWindow(h)
    /\ dispatching' = h
    /\ stack' = Append(stack, <<"dispatch", 0>>)
    /\ UNCHANGED <<scene, ended, tables, inits, creates, updating, issued, passed>>

DispatchReturn ==
    /\ dispatching # 0
    /\ Returns(<<"dispatch", 0>>)
    /\ dispatching' = 0
    /\ stack' = Front(stack)
    /\ UNCHANGED <<scene, ended, tables, inits, creates, updating, issued, passed>>

\* UpdateWindow sends WM_PAINT to a window that needs it.
UpdateWindow(h) ==
    /\ Calls("paint")
    /\ updating = 0 /\ IsWindow(h) /\ Window(h).dirty
    /\ updating' = h
    /\ stack' = Append(stack, <<"update", 0>>)
    /\ UNCHANGED <<scene, ended, tables, inits, creates, dispatching, issued, passed>>

UpdateReturn ==
    /\ updating # 0 /\ IsWindow(updating)
    /\ Returns(<<"update", 0>>)
    /\ windows' = [windows EXCEPT ![Slot(updating)].dirty = FALSE]
    /\ updating' = 0
    /\ stack' = Front(stack)
    /\ UNCHANGED <<scene, ended, classes, nextObject, cursors, items, queue, quit, focus, pressed,
                   inits, creates, dispatching, issued, passed>>

BeginUser(h, dc) ==
    /\ Calls("paint")
    /\ IsWindow(h) /\ Window(h).dc = 0
    /\ windows' = [windows EXCEPT ![Slot(h)].dc = dc]
    /\ UNCHANGED <<scene, ended, classes, nextObject, cursors, items, queue, quit, focus, pressed, records, issued, passed>>

EndUser(h, dc) ==
    /\ Calls("paint")
    /\ IsWindow(h) /\ dc # 0 /\ Window(h).dc = dc
    /\ windows' = [windows EXCEPT ![Slot(h)].dc = 0]
    /\ UNCHANGED <<scene, ended, classes, nextObject, cursors, items, queue, quit, focus, pressed, records, issued, passed>>

-----------------------------------------------------------------------------
(* _initterm calls the functions of a table one after the other.           *)

Entered(table) ==
    /\ inits' = Append(inits, table - 1)
    /\ stack' = Append(stack, <<"init", Len(inits) + 1>>)

InitTerm(table) ==
    /\ Calls("init")
    /\ Len(inits) < InitDepth /\ table > 0
    /\ Entered(table)
    /\ UNCHANGED <<scene, ended, tables, creates, updating, dispatching, issued, passed>>

InitReturn ==
    /\ inits # <<>>
    /\ Returns(<<"init", Len(inits)>>)
    /\ IF Last(inits) > 0
       THEN inits' = [inits EXCEPT ![Len(inits)] = @ - 1] /\ UNCHANGED stack
       ELSE inits' = Front(inits) /\ stack' = Front(stack)
    /\ UNCHANGED <<scene, ended, tables, creates, updating, dispatching, issued, passed>>

-----------------------------------------------------------------------------
(* The calls the adapter answers with an error status, which aborts.       *)
FatalUser ==
    \/ Calls("window") /\ Len(creates) = CreateDepth /\ classes # {}
    \/ Calls("show") /\ Len(queue) = QueueSlots /\ \E h \in Handles : ~Window(h).visible
    \/ Calls("dispatch") /\ (dispatching # 0 \/ \E h \in issued \cup passed : ~IsWindow(h))
    \/ Calls("paint") /\ updating # 0
    \/ updating # 0 /\ ~IsWindow(updating) /\ Returns(<<"update", 0>>)
    \/ Calls("paint") /\ \E h \in Handles : Window(h).dc # 0
    \/ Calls("wait")          \* GetMessageA for all windows and none queued
    \/ Calls("init") /\ Len(inits) = InitDepth
    \/ Calls("pad") /\ Len(queue) = QueueSlots /\ Handles # {}

\* The runtime aborts, or the guest returns or calls exit.
Ends == ~ended /\ (FatalUser \/ stack = <<>>)

UserNext ==
    \/ \E c \in Classes : RegisterClass(c) \/ UnregisterClass(c) \/ \E n \in Sizes : CreateWindow(c, n)
    \/ \E c \in Cursors : LoadCursor(c)
    \/ \E m \in Menus, i \in MenuItems : SetMenuItem(m, i)
    \/ \E ok \in BOOLEAN : CreateReturn(ok)
    \/ \E h \in Handles :
         \/ \E b \in BOOLEAN : ShowWindow(h, b)
         \/ \E bs \in SUBSET Buttons : PadPoll(h, bs)
         \/ DrawMenuBar(h) \/ SetFocus(h) \/ PostMessage(h) \/ WaitMessage(h)
         \/ DispatchMessage(h) \/ UpdateWindow(h)
    \/ \E h \in Handles \cup {0} : TakeMessage(h)
    \/ PostQuit \/ DispatchReturn \/ UpdateReturn \/ InitReturn
    \/ \E n \in 1..2 : InitTerm(n)

-----------------------------------------------------------------------------
UserTypeOK ==
    /\ ended \in BOOLEAN /\ classes \subseteq Classes
    /\ nextObject \in 1..(scene.objects + 1)
    /\ Len(queue) <= QueueSlots /\ Cardinality(items) <= ItemSlots
    /\ Len(creates) <= CreateDepth /\ Len(inits) <= InitDepth
    /\ \A s \in DOMAIN windows :
         windows[s] # NoWindow => windows[s].class \in Classes /\ windows[s].size \in Sizes

\* The handles of the objects that exist.
Live == {windows[s].handle : s \in {t \in DOMAIN windows : Used(t)}} \cup Menus \cup {r.handle : r \in cursors}

\* A handle a call returned names what it named then or nothing: it is never
\* issued again, although creations that fail, nested as deep as they come,
\* give their handles back (pw_user32_finish_window).  One that only the
\* procedure of a creation was passed may be issued again once the creation is
\* refused; until a call returns it, no call finds a window by it.
HandlesUnique ==
    /\ \A h \in Live \cup issued : h < nextObject
    /\ Cardinality(Live) = Cardinality({s \in DOMAIN windows : Used(s)})
                           + Cardinality({s \in DOMAIN windows : windows[s].menu # 0}) + Cardinality(cursors)
    /\ \A s \in DOMAIN windows : windows[s].creating => {windows[s].handle, windows[s].menu} \cap issued = {}
    /\ \A h \in passed \ issued : ~IsWindow(h)

\* Nothing refers to a window that is gone or not there yet, in whatever
\* callback it was destroyed: not the queue, the focus, the menu items, nor a
\* creation under way; and a window in use keeps its class.
NoDangling ==
    /\ \A i \in DOMAIN queue : IsWindow(queue[i].window)
    /\ focus # 0 => IsWindow(focus)
    /\ \A x \in items : x[1] \in Menus
    /\ \A s \in DOMAIN windows : Used(s) => windows[s].class \in classes
    /\ {s \in DOMAIN windows : windows[s].creating} = {creates[i].slot : i \in DOMAIN creates}
    /\ \A i \in DOMAIN creates : windows[creates[i].slot].handle = creates[i].handle

\* Handles and the references to them stay sound, however creations,
\* destructions and callbacks nest.
WindowsSound == HandlesUnique /\ NoDangling
=============================================================================
