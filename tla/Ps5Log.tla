------------------------------ MODULE Ps5Log ------------------------------
(***************************************************************************)
(* Client, network and server of the log together, and what the evidence   *)
(* a run leaves behind is worth.                                           *)
(***************************************************************************)
EXTENDS Ps5LogClient, Ps5LogServer

vars == <<wireVars, clientVars, serverVars>>

Init == WireInit /\ ClientInit /\ ServerInit

Net ==
    /\ \E c \in Conns : NetReset(c)
    /\ UNCHANGED <<clientVars, serverVars>>

Freeze == PowerLoss /\ UNCHANGED <<clientVars, serverVars>>

Client == ClientNext /\ UNCHANGED serverVars

ServerStep == ServerNext /\ UNCHANGED clientVars

Next == Net \/ Freeze \/ Client \/ ServerStep

\* The server's loop runs: select reports what is ready, and time passes for
\* a silent UDP session.  Nothing is assumed of the client or the network.
Serve == \E c \in Conns : Accept(c) \/ ReadTcp(c) \/ ReadEnd(c) \/ ExpireUdp(c)

Fairness == WF_serverVars(Serve)

Spec == Init /\ [][Next]_vars /\ Fairness

-----------------------------------------------------------------------------
RunRecord == [conn : Conns, log : Seq(Seq(Tokens)), hello : BOOLEAN,
              first : 0..MaxSeq, last : 0..MaxSeq,
              gaps : SUBSET [expected : 1..(MaxSeq + 1), got : 1..MaxSeq],
              bye : -1..MaxSeq, ended : BOOLEAN, lost : BOOLEAN]

\* Types; a session has a run only while it is open, and an unread line is
\* kept for streams only.
LogTypeOK ==
    /\ limit \in Limits /\ link \in [Conns -> Links] /\ power \in BOOLEAN /\ faults \in 0..limit.faults
    /\ wire \in [Conns -> Seq(Tokens)]
    /\ g \in ClientState /\ std \in [Streams -> {Tty} \cup Conns] /\ prints \in 0..limit.prints
    /\ serving \in BOOLEAN /\ sess \in [Conns -> {"none", "open", "closed"}]
    /\ buf \in [Conns -> Seq(Tokens)] /\ cur \in [Conns -> 0..Len(runs)]
    /\ runs \in Seq(RunRecord) /\ Len(runs) <= MaxRuns
    /\ disk \in Seq(DOMAIN runs) /\ manifests \subseteq DOMAIN runs /\ latest \in 0..Len(runs)
    /\ \A c \in Conns : cur[c] # 0 => sess[c] = "open" /\ ~runs[cur[c]].ended

\* The bodies in a run's log, in order, whatever line they are in.
Bodies(r) == FlattenSeq(r.log)

\* How many of the first i bodies are records.
Recs(s, i) == Cardinality({j \in 1..i : s[j].k = "rec"})

\* The records are numbered one after the other, from the number after b.
Consecutive(s, b) == \A i \in DOMAIN s : s[i].k = "rec" => s[i].n = b + Recs(s, i)

\* The records of a run that stand on a line of their own.
Records(r) == {line[1].n : line \in {x \in ToSet(r.log) : Kind(x) = "rec"}}

\* The BYE of a run names n as the last record, or is broken off and what is
\* left of its number is all it names, which a reader of the log can see.
Names(r, n) ==
    \/ r.bye = n
    \/ r.bye \in Shortened(n) /\ \E t \in ToSet(Bodies(r)) : t.k = "bye" /\ ~t.whole

(***************************************************************************)
(* What a reader of a manifest may conclude: if it starts at record 1, has *)
(* no gap, and ends with the number BYE names, the log holds every record  *)
(* of the process once, whole and in order - whatever the network lost,    *)
(* reordered or repeated.  (Run.observe, manifest; PROTOCOL.md asks only   *)
(* for no gaps and a BYE, which is not enough: over UDP the records lost   *)
(* before the first or after the last leave no gap.)                       *)
(***************************************************************************)
CompleteIsComplete ==
    \A i \in DOMAIN runs :
        LET r == runs[i]
        IN  (r.ended /\ r.gaps = {} /\ r.bye > 0 /\ r.first = 1 /\ r.last = r.bye) =>
               /\ Consecutive(Bodies(r), 0) /\ Names(r, Recs(Bodies(r), Len(Bodies(r))))
               /\ \A t \in ToSet(Bodies(r)) : t.k = "rec" => t.whole

\* A record that is missing between two that arrived lies in a listed gap,
\* in whatever order the others came (Run.observe).
GapsCoverLoss ==
    \A i \in DOMAIN runs :
        LET r == runs[i]
        IN  \A m \in 1..MaxSeq :
               (m \notin Records(r) /\ r.first < m /\ r.first # 0 /\ \E n \in Records(r) : m < n) =>
                   \E gap \in r.gaps : gap.expected <= m /\ m < gap.got

(***************************************************************************)
(* Over TCP a run holds consecutive numbers from the one HELLO announced,  *)
(* although a record may be buried in a line a fragment began; and after a *)
(* BYE nothing is missing at the end: the records go on to the number the  *)
(* client gave it, of which a BYE that broke off may have lost digits.  So *)
(* a record the client numbered and the run lacks was never on this        *)
(* connection (ps5log_line, send_all, disable_channel, Session.feed).      *)
(***************************************************************************)
StreamContiguous ==
    \A i \in DOMAIN runs :
        LET r == runs[i]
            before == r.log[1][1].n - 1
        IN  (mode = "tcp" /\ r.hello /\ r.log[1][1].whole) =>
               /\ Consecutive(Bodies(r), before)
               /\ r.bye > 0 => Names(r, before + Recs(Bodies(r), Len(Bodies(r))))

\* No redirected descriptor outlives its channel: while the channel is down
\* the program prints where it did before, and never to a closed socket
\* (ps5log_release_stdio, disable_channel; the header's comment on capture).
StdioRestored == \A s \in Streams : std[s] \in {Tty, g.fd}

\* Logs and manifests are deleted in pairs: what is left of an ended run is
\* both or nothing, except for a run whose log was pruned while it was open
\* (RunStore.prune, Run.finalize).
ManifestsMatchLogs ==
    \A r \in DOMAIN runs :
        runs[r].ended /\ ~runs[r].lost => (r \in manifests <=> r \in ToSet(disk))

\* Every run gets its manifest once the client has left the socket, unless
\* the console froze: then only a datagram run is finished, by its silence
\* (_read_tcp, _expire_udp, close_all).
RunsFinalized ==
    \A i \in 1..MaxRuns :
        (i \in DOMAIN runs /\ (mode = "udp" \/ (g.fd # runs[i].conn /\ power)))
            ~> (i \in DOMAIN runs /\ (runs[i].ended \/ link[runs[i].conn] = "gone"))
=============================================================================
