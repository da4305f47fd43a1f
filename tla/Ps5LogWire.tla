---------------------------- MODULE Ps5LogWire ----------------------------
(***************************************************************************)
(* What lies between a console program and ps5logd: one stream or datagram *)
(* socket per connection, and what a network does to either.  Text is      *)
(* abstracted to tokens: the body of a message, and the newline after it.  *)
(* A body keeps what the properties tell apart: its kind, the record       *)
(* number it carries, and whether it is all there.                         *)
(***************************************************************************)
EXTENDS Integers, Sequences, FiniteSets, SequencesExt

\* Each member bounds one kind of behaviour: what dev.conf says, the sockets
\* the client opens, the records it numbers, its raw messages and captured
\* prints, and the faults: failed sends, resets, repeated datagrams, freezes.
CONSTANTS
    Limits,
    Radix        \* of the numbers in the log, 10: what breaks off loses digits

ASSUME WireAssumption ==
    /\ Radix \in Nat \ {0, 1}
    /\ IsFiniteSet(Limits)
    /\ Limits \subseteq [mode : {"off", "tcp", "udp"}, conns : Nat \ {0}, seq : Nat, prints : Nat, faults : Nat]

VARIABLES
    limit,       \* the limits of this behaviour
    wire,        \* wire[c]: what is sent and not yet read
    link,        \* link[c]: the socket, see Links
    power,       \* the console runs
    faults       \* failed sends, resets, repeated datagrams and freezes so far

wireVars == <<limit, wire, link, power, faults>>

MaxConns == Max({l.conns : l \in Limits})
MaxSeq == Max({l.seq : l \in Limits})
Conns == 1..MaxConns

mode == limit.mode

Faulty == faults < limit.faults /\ faults' = faults + 1

\* never opened, open, closed by the client, reset by the network, vanished
Links == {"new", "up", "fin", "rst", "gone"}

NL == [k |-> "nl", n |-> 0, whole |-> TRUE]
Body(k, n) == [k |-> k, n |-> n, whole |-> TRUE]

Tokens == [k : {"nl", "hello", "rec", "bye", "raw"}, n : 0..(MaxSeq + 1), whole : BOOLEAN]

\* What a decimal number reads as when it may have lost digits at its end: n,
\* n \div Radix and so on to 0, the smallest set closed under the loss of one.
Shortened(n) ==
    {m \in 0..n : \A s \in SUBSET (0..n) : (n \in s /\ \A x \in s : x \div Radix \in s) => m \in s}

\* What a body may be that breaks off.  With its three tabs a record still
\* reads as one, and "HELLO x" and "BYE" as what they are, a BYE with what is
\* left of its number (parse_hello, parse_bye, parse_record; no use is made of
\* the number of a HELLO that broke off).  A shorter piece is text that no
\* parser knows.
Cuts(t) ==
    LET left == CASE t.k = "rec" -> {t.n}
                  [] t.k = "bye" -> Shortened(t.n)
                  [] t.k = "hello" -> {0}
                  [] OTHER -> {}
    IN  {[k |-> "raw", n |-> 0, whole |-> FALSE]} \cup {[t EXCEPT !.n = m, !.whole = FALSE] : m \in left}

(***************************************************************************)
(* One message through ps5log__send_all, to a socket in state l after f    *)
(* faults, followed by end (a newline, or nothing): all of it, or an error *)
(* after some of it.  A datagram goes whole or not at all.  A socket the   *)
(* other side has left may still swallow a message before it reports an    *)
(* error.                                                                  *)
(***************************************************************************)
SendAll(l, t, end, f) ==
    IF l # "up" THEN {[ok |-> b, sent |-> <<>>, faults |-> f] : b \in BOOLEAN}
    ELSE {[ok |-> TRUE, sent |-> IF mode = "udp" THEN <<t>> ELSE <<t>> \o end, faults |-> f]}
         \cup {[ok |-> FALSE, sent |-> s, faults |-> f + 1] :
                 s \in IF f = limit.faults THEN {}
                       ELSE {<<>>} \cup IF mode = "udp" THEN {}
                                        ELSE {<<x>> : x \in Cuts(t)} \cup IF end = <<>> THEN {} ELSE {<<t>>}}

-----------------------------------------------------------------------------
WireInit ==
    /\ limit \in Limits
    /\ wire = [c \in Conns |-> <<>>]
    /\ link = [c \in Conns |-> "new"]
    /\ power = TRUE
    /\ faults = 0

\* A stream cut short: some of what is in flight still arrives, perhaps with
\* a broken last body.
Prefixed(s) ==
    {SubSeq(s, 1, i) : i \in 0..Len(s)}
    \cup UNION {{Append(SubSeq(s, 1, i - 1), x) : x \in Cuts(s[i])} : i \in {j \in DOMAIN s : s[j] # NL}}

\* The peer answers with a reset, which the server reads as an error.
NetReset(c) ==
    /\ mode = "tcp"
    /\ link[c] \in {"up", "fin"}
    /\ Faulty
    /\ \E s \in Prefixed(wire[c]) : wire' = [wire EXCEPT ![c] = s]
    /\ link' = [link EXCEPT ![c] = "rst"]
    /\ UNCHANGED <<limit, power>>

\* The console freezes or loses power: no stream of it ends any more, and
\* what its kernel had not transmitted never arrives.  (A lost datagram is one
\* the server never reads.)
PowerLoss ==
    /\ power
    /\ Faulty
    /\ power' = FALSE
    /\ link' = [c \in Conns |-> IF link[c] \in {"up", "fin"} THEN "gone" ELSE link[c]]
    /\ wire' \in {w \in [Conns -> UNION {Prefixed(wire[c]) : c \in Conns}] :
                   \A c \in Conns : IF mode = "tcp" /\ link[c] \in {"up", "fin"}
                                    THEN w[c] \in Prefixed(wire[c]) ELSE w[c] = wire[c]}
    /\ UNCHANGED limit
=============================================================================
