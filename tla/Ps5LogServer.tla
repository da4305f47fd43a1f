--------------------------- MODULE Ps5LogServer ---------------------------
(***************************************************************************)
(* server/ps5logd.py: sessions that assemble lines, runs that observe      *)
(* them, and the store of logs and manifests.  One thread runs a selector  *)
(* loop, so a callback is one action.  A recv of several lines is several  *)
(* reads with nothing between them.                                        *)
(***************************************************************************)
EXTENDS Ps5LogWire

CONSTANTS
    MaxRuns,    \* runs in a behaviour
    Keep        \* RunStore.keep

\* A stream connection has one run at most, and no bound may stop its reading.
ASSUME ServerAssumption == MaxRuns \in Nat /\ MaxRuns >= MaxConns /\ Keep \in Nat

VARIABLES
    serving,    \* the loop has not been stopped
    sess,       \* sess[c]: "none", "open" or "closed"
    buf,        \* Session.buffer, the line without its newline so far
    cur,        \* Session.run as an index into runs, 0 for None
    runs,       \* every Run opened, in order
    disk,       \* the logs on disk, oldest modification first
    manifests,  \* runs whose manifest is on disk
    latest      \* the run the latest_ link names, 0 for none

serverVars == <<serving, sess, buf, cur, runs, disk, manifests, latest>>

\* log: the lines as written.  first, last, gaps, bye: what the manifest says.
\* bye is -1 before BYE.  ended: finalized.  lost: pruned while it was open.
NewRun(c) == [conn |-> c, log |-> <<>>, hello |-> FALSE, first |-> 0, last |-> 0,
              gaps |-> {}, bye |-> -1, ended |-> FALSE, lost |-> FALSE]

ServerInit ==
    /\ serving = TRUE
    /\ sess = [c \in Conns |-> "none"]
    /\ buf = [c \in Conns |-> <<>>]
    /\ cur = [c \in Conns |-> 0]
    /\ runs = <<>>
    /\ disk = <<>>
    /\ manifests = {}
    /\ latest = 0

-----------------------------------------------------------------------------
(* Lines.                                                                  *)

\* parse_hello, parse_bye and parse_record look at the start of a line; a
\* message after a fragment is part of a line no parser knows.
Kind(line) == IF Len(line) = 1 THEN line[1].k ELSE "raw"

\* Mutants: a repeated number is no gap; only the first gap is kept.
MObservedAhead(r, n) ==
    [r EXCEPT !.first = IF r.first = 0 THEN n ELSE @,
              !.gaps = IF r.first # 0 /\ n > r.last + 1
                       THEN @ \cup {[expected |-> r.last + 1, got |-> n]} ELSE @,
              !.last = n]
MObservedOnce(r, n) ==
    [r EXCEPT !.first = IF r.first = 0 THEN n ELSE @,
              !.gaps = IF @ = {} /\ r.first # 0 /\ n # r.last + 1
                       THEN {[expected |-> r.last + 1, got |-> n]} ELSE @,
              !.last = n]

\* Run.observe: a gap wherever a number is not the one after the last.
Observed(r, n) ==
    [r EXCEPT !.first = IF r.first = 0 THEN n ELSE @,
              !.gaps = IF r.first # 0 /\ n # r.last + 1
                       THEN @ \cup {[expected |-> r.last + 1, got |-> n]} ELSE @,
              !.last = n]

\* Session._handle_line for a run that exists; HELLO counts on its first line.
Handled(r, line) ==
    LET w == [r EXCEPT !.log = Append(@, line)]
    IN  CASE Kind(line) = "hello" /\ r.log = <<>> -> [w EXCEPT !.hello = TRUE]
          [] Kind(line) = "bye" -> [w EXCEPT !.bye = line[1].n]
          [] Kind(line) = "rec" -> Observed(w, line[1].n)
          [] OTHER -> w

-----------------------------------------------------------------------------
(* The store, as functions of a world.                                     *)

Server == [sess |-> sess, buf |-> buf, cur |-> cur, runs |-> runs, disk |-> disk,
           manifests |-> manifests, latest |-> latest]

Serves(w) ==
    \E v \in {w} :
        /\ sess' = v.sess
        /\ buf' = v.buf
        /\ cur' = v.cur
        /\ runs' = v.runs
        /\ disk' = v.disk
        /\ manifests' = v.manifests
        /\ latest' = v.latest

\* RunStore.open_run, at the first line of a session.
Ensured(v, c) ==
    IF v.cur[c] # 0 THEN v
    ELSE [v EXCEPT !.runs = Append(@, NewRun(c)), !.cur[c] = Len(v.runs) + 1,
                   !.disk = Append(@, Len(v.runs) + 1)]

\* A line to the run of c: written, which makes its log the newest unless it
\* was unlinked, and then understood.
Lined(v, c, line) ==
    LET e == Ensured(v, c)
        r == e.cur[c]
    IN  [e EXCEPT !.runs[r] = Handled(@, line), !.buf[c] = <<>>,
                  !.disk = IF r \in ToSet(@) THEN Append(RemoveFirst(@, r), r) ELSE @]

\* Mutant: only logs are deleted.
MPruned(v) ==
    LET excess == IF Len(v.disk) > Keep THEN Len(v.disk) - Keep ELSE 0
        victims == ToSet(SubSeq(v.disk, 1, excess))
    IN  [v EXCEPT !.disk = SubSeq(@, excess + 1, Len(@)),
                  !.runs = [r \in DOMAIN v.runs |->
                              IF r \in victims /\ ~v.runs[r].ended
                              THEN [v.runs[r] EXCEPT !.lost = TRUE] ELSE v.runs[r]]]

\* RunStore.prune: logs and manifests beyond the newest Keep are deleted,
\* those of runs still open included.
Pruned(v) ==
    LET excess == IF Len(v.disk) > Keep THEN Len(v.disk) - Keep ELSE 0
        victims == ToSet(SubSeq(v.disk, 1, excess))
    IN  [v EXCEPT !.disk = SubSeq(@, excess + 1, Len(@)), !.manifests = @ \ victims,
                  !.runs = [r \in DOMAIN v.runs |->
                              IF r \in victims /\ ~v.runs[r].ended
                              THEN [v.runs[r] EXCEPT !.lost = TRUE] ELSE v.runs[r]]]

\* Run.finalize: manifest, link, prune.
Finalized(v, r) ==
    Pruned([v EXCEPT !.runs[r].ended = TRUE, !.manifests = @ \cup {r}, !.latest = r])

\* Mutant: a closed session keeps its run.
MEnded(v, c) ==
    LET t == IF v.buf[c] = <<>> THEN v ELSE Lined(v, c, v.buf[c])
        closed == [t EXCEPT !.sess[c] = "closed"]
    IN  IF t.cur[c] = 0 THEN closed ELSE Finalized(closed, t.cur[c])

\* Session.close: what is left in the buffer is a line too.
Ended(v, c) ==
    LET t == IF v.buf[c] = <<>> THEN v ELSE Lined(v, c, v.buf[c])
        closed == [t EXCEPT !.sess[c] = "closed", !.cur[c] = 0]
    IN  IF t.cur[c] = 0 THEN closed ELSE Finalized(closed, t.cur[c])

-----------------------------------------------------------------------------
Accept(c) ==
    /\ serving /\ mode = "tcp"
    /\ sess[c] = "none" /\ link[c] # "new"
    /\ sess' = [sess EXCEPT ![c] = "open"]
    /\ UNCHANGED <<serving, buf, cur, runs, disk, manifests, latest, wireVars>>

\* _read_tcp with data, up to the end of a line if it has arrived: Session.feed
\* joins what a shorter read would have left in the buffer.
ReadTcp(c) ==
    /\ serving /\ mode = "tcp"
    /\ sess[c] = "open" /\ wire[c] # <<>>
    /\ LET upTo == SelectInSeq(wire[c], LAMBDA t : t = NL)
       IN  IF upTo = 0
           THEN /\ Serves([Server EXCEPT !.buf[c] = @ \o wire[c]])
                /\ wire' = [wire EXCEPT ![c] = <<>>]
           ELSE /\ Serves(Lined(Server, c, buf[c] \o SubSeq(wire[c], 1, upTo - 1)))
                /\ wire' = [wire EXCEPT ![c] = SubSeq(@, upTo + 1, Len(@))]
    /\ UNCHANGED <<serving, limit, link, power, faults>>

\* Mutant: an error on the socket is taken for "nothing to read yet".
MReadEnd(c) ==
    /\ serving /\ mode = "tcp"
    /\ sess[c] = "open" /\ wire[c] = <<>> /\ link[c] = "fin"
    /\ Serves(Ended(Server, c))
    /\ UNCHANGED <<serving, wireVars>>

\* _read_tcp with no data or an error.
ReadEnd(c) ==
    /\ serving /\ mode = "tcp"
    /\ sess[c] = "open" /\ wire[c] = <<>> /\ link[c] \in {"fin", "rst"}
    /\ Serves(Ended(Server, c))
    /\ UNCHANGED <<serving, wireVars>>

\* _read_udp: datagrams arrive in any order, perhaps twice.  One is a line of
\* its own, and BYE ends the session; a later datagram starts another.
ReadUdp(c) ==
    /\ serving /\ mode = "udp"
    /\ cur[c] = 0 => Len(runs) < MaxRuns
    /\ \E i \in DOMAIN wire[c] :
         /\ \/ /\ wire' = [wire EXCEPT ![c] = RemoveAt(@, i)]
               /\ faults' = faults
            \/ /\ Faulty
               /\ wire' = wire
         /\ LET v == Lined([Server EXCEPT !.sess[c] = "open"], c, <<wire[c][i]>>)
            IN  Serves(IF v.runs[v.cur[c]].bye = -1 THEN v ELSE Ended(v, c))
    /\ UNCHANGED <<serving, limit, link, power>>

\* _expire_udp: silence for longer than the idle time.
ExpireUdp(c) ==
    /\ serving /\ mode = "udp"
    /\ sess[c] = "open"
    /\ Serves(Ended(Server, c))
    /\ UNCHANGED <<serving, wireVars>>

\* A signal ends the loop: close_all closes every session and the sockets.
ShutDown ==
    /\ serving
    /\ serving' = FALSE
    /\ LET close[c \in 0..MaxConns] ==
             IF c = 0 THEN Server
             ELSE IF sess[c] = "open" THEN Ended(close[c - 1], c) ELSE close[c - 1]
       IN  Serves(close[MaxConns])
    /\ link' = [c \in Conns |-> IF mode = "tcp" /\ link[c] \in {"up", "fin"} THEN "rst" ELSE link[c]]
    /\ UNCHANGED <<limit, wire, power, faults>>

ServerNext ==
    \/ \E c \in Conns : Accept(c) \/ ReadTcp(c) \/ ReadEnd(c) \/ ReadUdp(c) \/ ExpireUdp(c)
    \/ ShutDown
=============================================================================
