--------------------------- MODULE Ps5LogClient ---------------------------
(***************************************************************************)
(* The single-header client, client/ps5log.h: its global state g, the two  *)
(* descriptors it can redirect, and one action per call of its API.  The   *)
(* client is single-threaded by contract, so a call is one action.         *)
(***************************************************************************)
EXTENDS Ps5LogWire

CONSTANTS
    MaxInits,        \* calls of ps5log_init in a behaviour
    CaptureSets,     \* the streams the program asks to capture
    CaptureHazard    \* dup2 of stderr may fail after stdout's, and capture(0)
                     \* is called while a capture is active

VARIABLES
    g,               \* the client's globals
    std,             \* what fd 1 and fd 2 refer to: Tty or a socket
    prints,          \* prints so far
    inits            \* calls of ps5log_init so far

clientVars == <<g, std, prints, inits>>

Streams == {"out", "err"}
Tty == 0

ASSUME ClientAssumption ==
    /\ MaxInits \in Nat /\ CaptureHazard \in BOOLEAN
    /\ CaptureSets \subseteq (SUBSET Streams) \ {{}}

\* fd is 0 when the channel is down.  saved: the streams whose original
\* descriptor is kept.  used: sockets opened so far, which names the next.
ClientState == [fd : 0..MaxConns, seq : 0..MaxSeq, flags : SUBSET Streams,
                active : BOOLEAN, saved : SUBSET Streams,
                inited : BOOLEAN, used : 0..MaxConns]

ClientInit ==
    /\ g = [fd |-> 0, seq |-> 0, flags |-> {}, active |-> FALSE, saved |-> {},
            inited |-> FALSE, used |-> 0]
    /\ std = [s \in Streams |-> Tty]
    /\ prints = 0
    /\ inits = 0

-----------------------------------------------------------------------------
(* The channel and the capture, as functions of a world: globals, standard *)
(* descriptors, wires and links.  Calls compose them in the code's order.  *)

World == [g |-> g, std |-> std, wire |-> wire, link |-> link, faults |-> faults]

Becomes(w) ==
    /\ g' = w.g
    /\ std' = w.std
    /\ wire' = w.wire
    /\ link' = w.link
    /\ faults' = w.faults
    /\ UNCHANGED <<limit, power>>

\* ps5log_release_stdio does nothing unless a capture is recorded as active.
Released(w) ==
    IF ~w.g.active THEN w
    ELSE [w EXCEPT !.std = [s \in Streams |-> IF s \in w.g.saved THEN Tty ELSE w.std[s]],
                   !.g.saved = {}, !.g.active = FALSE]

\* The kernel ends the stream when the last descriptor of the socket closes.
Shut(w, c) ==
    IF w.link[c] = "up" /\ \A s \in Streams : w.std[s] # c
    THEN [w EXCEPT !.link[c] = "fin"] ELSE w

\* Mutant: the channel goes and the redirection stays.
MDisabled(w) == IF w.g.fd = 0 THEN w ELSE Shut([w EXCEPT !.g.fd = 0], w.g.fd)

\* ps5log__disable_channel
Disabled(w) ==
    LET r == Released(w)
    IN  IF r.g.fd = 0 THEN r
        ELSE Shut([r EXCEPT !.g.fd = 0], r.g.fd)

\* A message to the channel: its result and the world after it.
Sends(w, t, end) ==
    {[ok |-> r.ok, w |-> [w EXCEPT !.wire[w.g.fd] = @ \o r.sent, !.faults = r.faults]] :
       r \in SendAll(w.link[w.g.fd], t, end, w.faults)}

\* Mutant: the channel survives a failed send.
MDelivered(w, t, end) == {r.w : r \in Sends(w, t, end)}

\* A message that has to go out: after an error the channel is disabled.
Delivered(w, t, end) ==
    {IF r.ok THEN r.w ELSE Disabled(r.w) : r \in Sends(w, t, end)}

\* ps5log_close: BYE is sent to whatever end, then the stream is shut down
\* even if a redirected descriptor still holds the socket.
Closed(w) ==
    LET r == Released(w)
        c == r.g.fd
    IN  IF c = 0 THEN {r}
        ELSE {[x.w EXCEPT !.g.fd = 0, !.link[c] = IF @ = "up" THEN "fin" ELSE @] :
                x \in Sends(r, Body("bye", r.g.seq), <<NL>>)}

\* ps5log__open_channel fails with nothing left open, or gives a new socket;
\* then HELLO carries the number of the next record.
Opened(w) ==
    LET c == w.g.used + 1
        hello == Body("hello", w.g.seq + 1)
    IN  {Disabled(w)} \cup
        (IF c > limit.conns THEN {}
         ELSE Delivered([w EXCEPT !.g.fd = c, !.g.used = c, !.link[c] = "up"], hello, <<NL>>))

\* ps5log__apply_capture: stdout, then stderr.  Only a complete capture is
\* recorded as active, and an empty one as inactive.
Applied(w, flags) ==
    IF w.g.fd = 0 \/ mode = "udp" THEN {[ok |-> TRUE, w |-> w]}
    ELSE {[ok |-> TRUE,
           w |-> [w EXCEPT !.std = [s \in Streams |-> IF s \in flags THEN w.g.fd ELSE w.std[s]],
                           !.g.saved = @ \cup flags, !.g.active = (flags # {})]]}
         \cup (IF CaptureHazard /\ flags = Streams
               THEN {[ok |-> FALSE, w |-> [w EXCEPT !.std["out"] = w.g.fd, !.g.saved = @ \cup flags]]}
               ELSE {})

-----------------------------------------------------------------------------
(* The API.                                                                *)

\* ps5log_init, through ps5log_init_default: dev.conf says off, names no
\* server, or is invalid ("off"); otherwise a connection is tried.  A session
\* that is still up is closed first, and numbers start again.
InitCall ==
    /\ power
    /\ inits < MaxInits
    /\ inits' = inits + 1
    /\ \E w \in IF g.fd = 0 THEN {World} ELSE Closed(World) :
         LET fresh == [w EXCEPT !.g.seq = 0, !.g.inited = TRUE]
         IN  \E v \in IF mode = "off" THEN {Disabled(fresh)} ELSE Opened(fresh) : Becomes(v)
    /\ UNCHANGED prints

\* ps5log_line and the calls that end in it.  The number is spent whether or
\* not the record goes anywhere.
LineCall ==
    /\ power
    /\ g.seq < limit.seq
    /\ LET w == [World EXCEPT !.g.seq = @ + 1]
       IN  \E v \in IF g.fd = 0 THEN {w} ELSE Delivered(w, Body("rec", w.g.seq), <<NL>>) : Becomes(v)
    /\ UNCHANGED <<prints, inits>>

\* ps5log_raw, with or without the end of a line.
RawCall ==
    /\ power
    /\ g.fd # 0
    /\ prints < limit.prints
    /\ prints' = prints + 1
    /\ inits' = inits
    /\ \E end \in {<<>>, <<NL>>} : \E v \in Delivered(World, Body("raw", 0), end) : Becomes(v)

\* The program prints to a captured stream.  stdout is line-buffered; stderr
\* is not buffered, so a fragment of a line is in the stream at once.
CapturedPrint ==
    /\ power
    /\ prints < limit.prints
    /\ prints' = prints + 1
    /\ inits' = inits
    /\ \E s \in Streams, end \in {<<>>, <<NL>>} :
         /\ std[s] # Tty
         /\ s = "out" => end = <<NL>>
         /\ wire' = IF link[std[s]] = "up"
                    THEN [wire EXCEPT ![std[s]] = @ \o <<Body("raw", 0)>> \o end] ELSE wire
    /\ UNCHANGED <<limit, link, power, faults, g, std>>

\* ps5log_capture_stdio; a failure releases, which only works if recorded.
CaptureCall ==
    /\ power
    /\ g.inited
    /\ \E flags \in CaptureSets \cup (IF CaptureHazard THEN {{}} ELSE {}) :
         \E v \in Applied([World EXCEPT !.g.flags = flags], flags) :
           Becomes(IF v.ok THEN v.w ELSE Released(v.w))
    /\ UNCHANGED <<prints, inits>>

ReleaseCall ==
    /\ power
    /\ g.active
    /\ Becomes(Released(World))
    /\ UNCHANGED <<prints, inits>>

\* ps5log_reconnect: a new socket, HELLO with resume=1, and the capture that
\* was asked for last.
ReconnectCall ==
    /\ power
    /\ g.inited /\ g.fd = 0 /\ mode # "off"
    /\ \E w \in Opened(World) :
         \E v \in IF g.flags = {} THEN {[w |-> w, ok |-> TRUE]} ELSE Applied(w, g.flags) : Becomes(v.w)
    /\ UNCHANGED <<prints, inits>>

CloseCall ==
    /\ power
    /\ g.fd # 0
    /\ \E v \in Closed(World) : Becomes(v)
    /\ UNCHANGED <<prints, inits>>

ClientNext ==
    \/ InitCall
    \/ LineCall
    \/ RawCall
    \/ CapturedPrint
    \/ CaptureCall
    \/ ReleaseCall
    \/ ReconnectCall
    \/ CloseCall
=============================================================================
