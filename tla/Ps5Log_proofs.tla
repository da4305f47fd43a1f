--------------------------- MODULE Ps5Log_proofs ---------------------------
(***************************************************************************)
(* That a redirected descriptor never outlives its channel, whatever sends *)
(* fail and in whatever order the program calls the client; that the       *)
(* client and the server keep their types; and that what the server says   *)
(* of a run is true of it: the gaps cover every record lost in between,    *)
(* logs and manifests stay in pairs, a stream has no hole, and a log       *)
(* called complete is complete.  For any limits.                           *)
(***************************************************************************)
EXTENDS Ps5Log, TLAPS, FiniteSetTheorems, SequenceTheorems, WellFoundedInduction

\* What the proof needs to know of the types.
Globals == [fd : Nat, seq : Nat, flags : SUBSET Streams, active : BOOLEAN,
            saved : SUBSET Streams, inited : BOOLEAN, used : Nat]

\* Of globals x and descriptors d: what is redirected goes to the channel,
\* can be put back, and will be, because the capture is recorded as active.
Redirected(x, d) ==
    /\ x \in Globals /\ d \in [Streams -> Nat]
    /\ \A s \in Streams : d[s] # Tty => d[s] = x.fd /\ s \in x.saved /\ x.active

\* The same of a world; the other fields do not matter.
Sane(w) ==
    /\ {"g", "std", "wire", "link", "faults"} \subseteq DOMAIN w
    /\ Redirected(w.g, w.std)

\* Every stream is where it was before any capture.
Restored(w) == Sane(w) /\ \A s \in Streams : w.std[s] = Tty

\* Releasing puts every redirected stream back.
LEMMA ReleaseRestores ==
  ASSUME NEW w, Sane(w)
  PROVE  Restored(Released(w)) /\ Released(w).g.fd = w.g.fd
<1>1. CASE ~w.g.active
  BY <1>1 DEF Released, Restored, Sane, Redirected
<1>2. CASE w.g.active
  <2> DEFINE r == Released(w)
  <2>1. r.g = [w.g EXCEPT !.saved = {}, !.active = FALSE]
    BY <1>2 DEF Released, Sane, Redirected, Globals
  <2>2. r.std = [s \in Streams |-> IF s \in w.g.saved THEN Tty ELSE w.std[s]]
    BY <1>2 DEF Released, Sane, Redirected, Globals
  <2>3. DOMAIN r = DOMAIN w
    BY <1>2 DEF Released, Sane, Redirected, Globals
  <2> HIDE DEF r
  <2>4. r.g \in Globals /\ r.g.fd = w.g.fd
    BY <2>1 DEF Sane, Redirected, Globals
  <2>5. r.std \in [Streams -> Nat] /\ \A s \in Streams : r.std[s] = Tty
    BY <2>2 DEF Sane, Redirected, Tty
  <2>6. Restored(r)
    BY <2>3, <2>4, <2>5 DEF Restored, Sane, Redirected
  <2> QED
    BY <2>4, <2>6 DEF r
<1> QED
  BY <1>1, <1>2

\* What is written to a wire or happens to a link leaves the rest alone.
LEMMA ShutKeeps ==
  ASSUME NEW w, Sane(w), NEW c
  PROVE  /\ Sane(Shut(w, c)) /\ Shut(w, c).g = w.g
         /\ Restored(w) => Restored(Shut(w, c))
<1>1. Shut(w, c).g = w.g /\ Shut(w, c).std = w.std /\ DOMAIN Shut(w, c) = DOMAIN w
  BY DEF Shut, Sane
<1> QED
  BY <1>1 DEF Sane, Restored

LEMMA SendsKeep ==
  ASSUME NEW w, Sane(w), NEW t, NEW end, NEW x \in Sends(w, t, end)
  PROVE  Sane(x.w) /\ x.w.g = w.g /\ (Restored(w) => Restored(x.w))
<1>1. PICK r \in SendAll(w.link[w.g.fd], t, end, w.faults) :
        x = [ok |-> r.ok, w |-> [w EXCEPT !.wire[w.g.fd] = @ \o r.sent, !.faults = r.faults]]
  BY DEF Sends
<1>2. x.w.g = w.g /\ x.w.std = w.std /\ DOMAIN x.w = DOMAIN w
  BY <1>1 DEF Sane
<1> QED
  BY <1>2 DEF Sane, Restored

\* A channel that goes down takes the redirection with it.
LEMMA DisableRestores ==
  ASSUME NEW w, Sane(w)
  PROVE  Restored(Disabled(w))
<1> DEFINE r == Released(w)
           v == [r EXCEPT !.g.fd = 0]
<1>1. Restored(r) /\ Sane(r)
  BY ReleaseRestores DEF Restored
<1> HIDE DEF r
<1>2. v.g = [r.g EXCEPT !.fd = 0] /\ v.std = r.std /\ DOMAIN v = DOMAIN r
  BY <1>1 DEF Sane
<1> HIDE DEF v
<1>3. v.g \in Globals
  BY <1>1, <1>2 DEF Sane, Redirected, Globals
<1>4. Restored(v) /\ Sane(v)
  BY <1>1, <1>2, <1>3 DEF Restored, Sane, Redirected
<1>5. Restored(Shut(v, r.g.fd))
  BY <1>4, ShutKeeps
<1> QED
  BY <1>1, <1>5 DEF Disabled, r, v

LEMMA DeliverKeeps ==
  ASSUME NEW w, Sane(w), NEW t, NEW end, NEW v \in Delivered(w, t, end)
  PROVE  Sane(v)
<1>1. PICK x \in Sends(w, t, end) : v = IF x.ok THEN x.w ELSE Disabled(x.w)
  BY DEF Delivered
<1>2. Sane(x.w)
  BY SendsKeep
<1> QED
  BY <1>1, <1>2, DisableRestores DEF Restored

\* ps5log_close releases before it gives up the socket.
LEMMA CloseRestores ==
  ASSUME NEW w, Sane(w), NEW v \in Closed(w)
  PROVE  Restored(v)
<1> DEFINE r == Released(w)
           c == r.g.fd
<1>1. Restored(r) /\ Sane(r)
  BY ReleaseRestores DEF Restored
<1>2. CASE c = 0
  BY <1>1, <1>2 DEF Closed
<1>3. CASE c # 0
  <2>1. PICK x \in Sends(r, Body("bye", r.g.seq), <<NL>>) :
          v = [x.w EXCEPT !.g.fd = 0, !.link[c] = IF @ = "up" THEN "fin" ELSE @]
    BY <1>3 DEF Closed
  <2> HIDE DEF r, c
  <2>2. Restored(x.w) /\ Sane(x.w)
    BY <1>1, SendsKeep
  <2>3. v.g = [x.w.g EXCEPT !.fd = 0] /\ v.std = x.w.std /\ DOMAIN v = DOMAIN x.w
    BY <2>1, <2>2 DEF Sane
  <2>4. v.g \in Globals
    BY <2>2, <2>3 DEF Sane, Redirected, Globals
  <2> QED
    BY <2>2, <2>3, <2>4 DEF Restored, Sane, Redirected
<1> QED
  BY <1>2, <1>3

\* A new socket is opened while nothing is redirected.
LEMMA OpenKeeps ==
  ASSUME NEW w, Restored(w), NEW v \in Opened(w)
  PROVE  Sane(v)
<1> DEFINE c == w.g.used + 1
           up == [w EXCEPT !.g.fd = c, !.g.used = c, !.link[c] = "up"]
<1>1. Sane(w)
  BY DEF Restored
<1>2. CASE v = Disabled(w)
  BY <1>1, <1>2, DisableRestores DEF Restored
<1>3. CASE v \in Delivered(up, Body("hello", w.g.seq + 1), <<NL>>)
  <2>1. up.g = [w.g EXCEPT !.fd = c, !.used = c] /\ up.std = w.std /\ DOMAIN up = DOMAIN w
    BY <1>1 DEF Sane, Redirected, Globals
  <2>2. c \in Nat
    BY <1>1 DEF Sane, Redirected, Globals
  <2> HIDE DEF up, c
  <2>3. up.g \in Globals
    BY <1>1, <2>1, <2>2 DEF Sane, Redirected, Globals
  <2>4. Sane(up)
    BY <2>1, <2>3 DEF Restored, Sane, Redirected
  <2> QED
    BY <1>3, <2>4, DeliverKeeps
<1> QED
  BY <1>2, <1>3 DEF Opened

\* A capture that cannot fail half-way is recorded with what it redirects.
LEMMA ApplyKeeps ==
  ASSUME CaptureHazard = FALSE, NEW w, Sane(w),
         NEW flags \in (SUBSET Streams) \ {{}}, NEW v \in Applied(w, flags)
  PROVE  Sane(v.w) /\ v.ok
<1>1. CASE v = [ok |-> TRUE, w |-> w]
  BY <1>1
<1>2. CASE v = [ok |-> TRUE,
                w |-> [w EXCEPT !.std = [s \in Streams |-> IF s \in flags THEN w.g.fd ELSE w.std[s]],
                                !.g.saved = @ \cup flags, !.g.active = (flags # {})]]
  <2> DEFINE x == v.w
  <2>1. x.std = [s \in Streams |-> IF s \in flags THEN w.g.fd ELSE w.std[s]] /\ DOMAIN x = DOMAIN w
    BY <1>2 DEF Sane
  <2>2. x.g = [w.g EXCEPT !.saved = @ \cup flags, !.active = (flags # {})]
    BY <1>2 DEF Sane, Redirected, Globals
  <2> HIDE DEF x
  <2>3. x.g \in Globals /\ x.g.fd = w.g.fd /\ x.g.saved = w.g.saved \cup flags /\ x.g.active = TRUE
    BY <2>2 DEF Sane, Redirected, Globals
  <2>4. x.std \in [Streams -> Nat]
    BY <2>1 DEF Sane, Redirected, Globals
  <2>5. \A s \in Streams : x.std[s] # Tty => x.std[s] = x.g.fd /\ s \in x.g.saved
    BY <2>1, <2>3 DEF Sane, Redirected
  <2>6. Sane(x)
    BY <2>1, <2>3, <2>4, <2>5 DEF Sane, Redirected
  <2> QED
    BY <1>2, <2>6 DEF x
<1> QED
  BY <1>1, <1>2 DEF Applied

\* A call starts from a sane world if the state is, and ends in one.
LEMMA WorldSane ==
  ASSUME Redirected(g, std)
  PROVE  Sane(World) /\ World.g = g /\ World.std = std
BY DEF World, Sane

LEMMA BecomesSane ==
  ASSUME NEW w, Sane(w), Becomes(w)
  PROVE  Redirected(g, std)'
BY DEF Becomes, Sane, Redirected, Globals

\* A change of the globals that leaves the channel and the capture alone.
LEMMA GlobalsKeep ==
  ASSUME NEW w, Sane(w), NEW v, v.std = w.std, DOMAIN v = DOMAIN w, v.g \in Globals,
         v.g.fd = w.g.fd, v.g.saved = w.g.saved, v.g.active = w.g.active
  PROVE  Sane(v) /\ (Restored(w) => Restored(v))
BY DEF Sane, Restored, Redirected

-----------------------------------------------------------------------------
\* The calls of the API.

LEMMA InitKeeps ==
  ASSUME Redirected(g, std), InitCall
  PROVE  Redirected(g, std)'
<1>1. Sane(World) /\ World.g = g /\ World.std = std
  BY WorldSane
<1>2. PICK w \in IF g.fd = 0 THEN {World} ELSE Closed(World) :
        \E v \in IF mode = "off" THEN {Disabled([w EXCEPT !.g.seq = 0, !.g.inited = TRUE])}
               ELSE Opened([w EXCEPT !.g.seq = 0, !.g.inited = TRUE]) : Becomes(v)
  BY DEF InitCall
<1>3. Restored(w) /\ Sane(w)
  <2>1. CASE g.fd = 0
    BY <1>1, <1>2, <2>1 DEF Restored, Sane, Redirected, Tty
  <2>2. CASE g.fd # 0
    BY <1>1, <1>2, <2>2, CloseRestores DEF Restored
  <2> QED
    BY <2>1, <2>2
<1> DEFINE fresh == [w EXCEPT !.g.seq = 0, !.g.inited = TRUE]
<1>4. fresh.g = [w.g EXCEPT !.seq = 0, !.inited = TRUE] /\ fresh.std = w.std /\ DOMAIN fresh = DOMAIN w
  BY <1>3 DEF Sane, Redirected, Globals
<1>5. PICK v \in IF mode = "off" THEN {Disabled(fresh)} ELSE Opened(fresh) : Becomes(v)
  BY <1>2
<1> HIDE DEF fresh
<1>6. /\ fresh.g \in Globals /\ fresh.g.fd = w.g.fd
      /\ fresh.g.saved = w.g.saved /\ fresh.g.active = w.g.active
  <2>1. w.g \in Globals
    BY <1>3 DEF Sane, Redirected
  <2> DEFINE x == [w.g EXCEPT !.seq = 0]
  <2>2. x \in Globals /\ x.fd = w.g.fd /\ x.saved = w.g.saved /\ x.active = w.g.active
    BY <2>1 DEF Globals
  <2>3. fresh.g = [x EXCEPT !.inited = TRUE]
    BY <1>4
  <2> HIDE DEF x
  <2> QED
    BY <2>2, <2>3 DEF Globals
<1>7. Restored(fresh) /\ Sane(fresh)
  BY <1>3, <1>4, <1>6, GlobalsKeep
<1>8. Sane(v)
  BY <1>5, <1>7, DisableRestores, OpenKeeps DEF Restored
<1> QED
  BY <1>5, <1>8, BecomesSane

LEMMA LineKeeps ==
  ASSUME Redirected(g, std), LineCall
  PROVE  Redirected(g, std)'
<1> DEFINE w == [World EXCEPT !.g.seq = @ + 1]
<1>1. Sane(World) /\ World.g = g /\ World.std = std
  BY WorldSane
<1>2. w.g = [g EXCEPT !.seq = @ + 1] /\ w.std = std /\ DOMAIN w = DOMAIN World
  BY <1>1 DEF World, Sane, Redirected, Globals
<1>3. PICK v \in IF g.fd = 0 THEN {w} ELSE Delivered(w, Body("rec", w.g.seq), <<NL>>) : Becomes(v)
  BY DEF LineCall
<1> HIDE DEF w
<1>4. w.g \in Globals /\ w.g.fd = g.fd /\ w.g.saved = g.saved /\ w.g.active = g.active
  BY <1>2 DEF Redirected, Globals
<1>5. Sane(w)
  BY <1>1, <1>2, <1>4, GlobalsKeep
<1>6. CASE g.fd = 0
  BY <1>3, <1>5, <1>6, BecomesSane
<1>7. CASE g.fd # 0
  <2>1. v \in Delivered(w, Body("rec", w.g.seq), <<NL>>)
    BY <1>3, <1>7
  <2>2. Sane(v)
    BY <1>5, <2>1, DeliverKeeps
  <2> QED
    BY <1>3, <2>2, BecomesSane
<1> QED
  BY <1>6, <1>7

LEMMA CaptureKeeps ==
  ASSUME CaptureHazard = FALSE, Redirected(g, std), CaptureCall
  PROVE  Redirected(g, std)'
<1>1. Sane(World) /\ World.g = g /\ World.std = std
  BY WorldSane
<1>2. PICK flags \in CaptureSets :
        \E v \in Applied([World EXCEPT !.g.flags = flags], flags) :
          Becomes(IF v.ok THEN v.w ELSE Released(v.w))
  BY DEF CaptureCall
<1> DEFINE w == [World EXCEPT !.g.flags = flags]
<1>3. PICK v \in Applied(w, flags) : Becomes(IF v.ok THEN v.w ELSE Released(v.w))
  BY <1>2
<1>4. w.g = [g EXCEPT !.flags = flags] /\ w.std = std /\ DOMAIN w = DOMAIN World
  BY <1>1 DEF World, Sane, Redirected, Globals
<1> HIDE DEF w
<1>5. flags \in (SUBSET Streams) \ {{}}
  BY <1>2, ClientAssumption
<1>6. w.g \in Globals /\ w.g.fd = g.fd /\ w.g.saved = g.saved /\ w.g.active = g.active
  BY <1>4, <1>5 DEF Redirected, Globals
<1>7. Sane(w)
  BY <1>1, <1>4, <1>6, GlobalsKeep
<1>8. Sane(v.w) /\ v.ok
  BY <1>3, <1>5, <1>7, ApplyKeeps
<1> QED
  BY <1>3, <1>8, BecomesSane

\* A lost channel has left nothing redirected, so what is captured again goes
\* to the new one.
LEMMA ReconnectKeeps ==
  ASSUME CaptureHazard = FALSE, Redirected(g, std), ReconnectCall
  PROVE  Redirected(g, std)'
<1>1. Sane(World) /\ World.g = g /\ World.std = std
  BY WorldSane
<1>2. Restored(World)
  BY <1>1 DEF ReconnectCall, Restored, Sane, Redirected, Tty
<1>3. PICK w \in Opened(World) :
        \E v \in IF g.flags = {} THEN {[w |-> w, ok |-> TRUE]} ELSE Applied(w, g.flags) : Becomes(v.w)
  BY DEF ReconnectCall
<1>4. Sane(w)
  BY <1>2, <1>3, OpenKeeps
<1>5. PICK v \in IF g.flags = {} THEN {[w |-> w, ok |-> TRUE]} ELSE Applied(w, g.flags) : Becomes(v.w)
  BY <1>3
<1>6. Sane(v.w)
  <2>1. CASE g.flags = {}
    BY <1>4, <1>5, <2>1
  <2>2. CASE g.flags # {}
    <3>1. g.flags \in (SUBSET Streams) \ {{}}
      BY <2>2 DEF Redirected, Globals
    <3> QED
      BY <1>4, <1>5, <2>2, <3>1, ApplyKeeps
  <2> QED
    BY <2>1, <2>2
<1> QED
  BY <1>5, <1>6, BecomesSane

\* Every step: the network and the server do not touch the client's state.
LEMMA StepKeeps ==
  ASSUME CaptureHazard = FALSE, Redirected(g, std), [Next]_vars
  PROVE  Redirected(g, std)'
<1>1. Sane(World) /\ World.g = g /\ World.std = std
  BY WorldSane
<1>2. CASE RawCall
  BY <1>1, <1>2, DeliverKeeps, BecomesSane DEF RawCall
<1>3. CASE CapturedPrint
  BY <1>3 DEF CapturedPrint
<1>4. CASE ReleaseCall
  <2>1. Sane(Released(World))
    BY <1>1, ReleaseRestores DEF Restored
  <2> QED
    BY <1>4, <2>1, BecomesSane DEF ReleaseCall
<1>5. CASE CloseCall
  BY <1>1, <1>5, CloseRestores, BecomesSane DEF CloseCall, Restored
<1>6. CASE UNCHANGED clientVars
  BY <1>6 DEF clientVars
<1>7. ClientNext \/ UNCHANGED clientVars
  BY DEF Next, vars, Net, Freeze, Client, ServerStep
<1> QED
  BY <1>2, <1>3, <1>4, <1>5, <1>6, <1>7, InitKeeps, LineKeeps, CaptureKeeps, ReconnectKeeps
     DEF ClientNext

\* While the channel is down the program prints where it did before: a
\* redirected stream always has a live channel, if capturing cannot fail
\* half-way (ps5log_release_stdio, ps5log__disable_channel, ps5log_close).
THEOREM StdioAlwaysRestored ==
  ASSUME CaptureHazard = FALSE
  PROVE  Spec => []StdioRestored
<1>1. Init => Redirected(g, std)
  BY DEF Init, ClientInit, Redirected, Globals, Tty
<1>2. Redirected(g, std) /\ [Next]_vars => Redirected(g, std)'
  BY StepKeeps
<1>3. Redirected(g, std) => StdioRestored
  BY DEF Redirected, StdioRestored, Tty
<1> QED
  BY <1>1, <1>2, <1>3, PTL DEF Spec

\* A finite set of naturals has a greatest element: what lies above an element
\* is a finite set, and some such set is least.
LEMMA MaxIs ==
  ASSUME NEW S \in SUBSET Nat, IsFiniteSet(S), S # {}
  PROVE  Max(S) \in S /\ \A n \in S : n <= Max(S)
<1> DEFINE Above == {{m \in S : m > n} : n \in S}
<1>1. Above \subseteq FiniteSubsetsOf(S)
  <2> SUFFICES ASSUME NEW n \in S PROVE {m \in S : m > n} \in FiniteSubsetsOf(S)
    OBVIOUS
  <2>1. IsFiniteSet({m \in S : m > n})
    BY FS_Subset
  <2> QED
    BY <2>1 DEF FiniteSubsetsOf
<1>2. PICK X \in Above : \A Y \in Above : ~(<<Y, X>> \in StrictSubsetOrdering(S))
  <2>1. IsWellFoundedOn(StrictSubsetOrdering(S), FiniteSubsetsOf(S))
    BY FS_StrictSubsetOrderingWellFounded
  <2>2. Above # {}
    OBVIOUS
  <2> QED
    BY <1>1, <2>1, <2>2, WFMin
<1>3. PICK n \in S : X = {m \in S : m > n}
  OBVIOUS
<1>4. ASSUME NEW m \in S, m > n PROVE FALSE
  <2> DEFINE Y == {l \in S : l > m}
  <2>0. S \subseteq Nat /\ \A l \in S : l > m => l > n
    BY <1>4
  <2>1. Y \in Above /\ Y \subseteq X /\ m \in X /\ m \notin Y
    <3>1. Y \in Above
      OBVIOUS
    <3>2. Y \subseteq X /\ m \in X
      BY <1>3, <1>4, <2>0
    <3>3. m \notin Y
      BY <2>0
    <3> QED
      BY <3>1, <3>2, <3>3
  <2>2. <<Y, X>> \in StrictSubsetOrdering(S)
    BY <2>1, <1>3 DEF StrictSubsetOrdering
  <2> QED
    BY <2>1, <2>2, <1>2
<1>5. \E x \in S : \A y \in S : x >= y
  BY <1>3, <1>4
<1>6. Max(S) \in S /\ \A y \in S : Max(S) >= y
  BY <1>5 DEF Max
<1> QED
  BY <1>6

\* The bounds of a behaviour are within those the constants give.
LEMMA Bounds ==
  ASSUME limit \in Limits
  PROVE  /\ MaxConns \in Nat \ {0} /\ MaxSeq \in Nat
         /\ limit.conns \in 1 .. MaxConns /\ limit.seq \in 0 .. MaxSeq
         /\ limit.prints \in Nat /\ limit.faults \in Nat
<1> DEFINE C == {l.conns : l \in Limits}
           N == {l.seq : l \in Limits}
<1>1. /\ limit.conns \in Nat \ {0} /\ limit.seq \in Nat /\ limit.prints \in Nat /\ limit.faults \in Nat
      /\ C \in SUBSET (Nat \ {0}) /\ N \in SUBSET Nat
  BY WireAssumption
<1>2. C # {} /\ N # {} /\ limit.conns \in C /\ limit.seq \in N
  OBVIOUS
<1>3. IsFiniteSet(C)
  <2> DEFINE f == [l \in Limits |-> l.conns]
  <2>1. f \in Surjection(Limits, C)
    BY DEF Surjection
  <2> QED
    BY <2>1, FS_Surjection, WireAssumption
<1>4. IsFiniteSet(N)
  <2> DEFINE f == [l \in Limits |-> l.seq]
  <2>1. f \in Surjection(Limits, N)
    BY DEF Surjection
  <2> QED
    BY <2>1, FS_Surjection, WireAssumption
<1>5. Max(C) \in C /\ \A n \in C : n <= Max(C)
  BY <1>1, <1>2, <1>3, MaxIs
<1>6. Max(N) \in N /\ \A n \in N : n <= Max(N)
  BY <1>1, <1>2, <1>4, MaxIs
<1>7. MaxConns = Max(C) /\ MaxSeq = Max(N)
  BY DEF MaxConns, MaxSeq
<1> HIDE DEF C, N
<1>8. MaxConns \in C /\ limit.conns <= MaxConns
  BY <1>2, <1>5, <1>7
<1>9. MaxSeq \in N /\ limit.seq <= MaxSeq
  BY <1>2, <1>6, <1>7
<1> QED
  BY <1>1, <1>8, <1>9

-----------------------------------------------------------------------------
\* A record carries its number even when it is cut, and so does a BYE unless
\* it is.
Toks == {t \in Tokens : /\ t.k = "rec" => t.n \in 1 .. MaxSeq
                        /\ t.k = "bye" => t.n \in 0 .. MaxSeq}

\* The worlds the client's functions make.
Worlds == [g : ClientState, std : [Streams -> 0 .. MaxConns], wire : [Conns -> Seq(Toks)],
           link : [Conns -> Links], faults : 0 .. limit.faults]

\* A world of the right types.
Typed(w) == w \in Worlds /\ w.g \in ClientState

\* A number that loses a digit does not grow.
LEMMA DigitLess ==
  ASSUME NEW x \in Nat
  PROVE  x \div Radix \in 0 .. x
<1> DEFINE q == x \div Radix
<1>1. Radix \in Nat /\ Radix >= 2
  BY WireAssumption
<1>2. q \in Int /\ Radix * q <= x /\ x < Radix * (q + 1)
  BY <1>1
<1>3. q >= 0
  BY <1>1, <1>2
<1>4. ASSUME NEW a \in Int, a >= 0, NEW b \in Int, b >= 2 PROVE a <= b * a
  <2>1. b * a = (b - 1) * a + a /\ (b - 1) * a >= 0
    BY <1>4
  <2> QED
    BY <2>1, <1>4
<1>5. q <= Radix * q
  <2> HIDE DEF q
  <2> QED
    BY <1>1, <1>2, <1>3, <1>4
<1>6. q <= x
  <2> HIDE DEF q
  <2> QED
    BY <1>1, <1>2, <1>5
<1> QED
  BY <1>2, <1>3, <1>6

\* The digits left of a number are a smaller number, of which fewer may be left.
LEMMA ShortenedLess ==
  ASSUME NEW n \in Int
  PROVE  /\ Shortened(n) \subseteq 0 .. n
         /\ n \in Nat => n \in Shortened(n)
         /\ \A m \in Shortened(n) : Shortened(m) \subseteq Shortened(n)
<1>1. Shortened(n) \subseteq 0 .. n /\ (n \in Nat => n \in Shortened(n))
  BY DEF Shortened
<1>2. ASSUME NEW m \in Shortened(n), NEW l \in Shortened(m) PROVE l \in Shortened(n)
  <2>1. m \in 0 .. n /\ l \in 0 .. m
    BY <1>1 DEF Shortened
  <2>2. ASSUME NEW S \in SUBSET (0 .. n), n \in S, \A x \in S : x \div Radix \in S
        PROVE  l \in S
    <3> DEFINE R == S \cap (0 .. m)
    <3>1. m \in S
      BY <2>2 DEF Shortened
    <3>2. R \in SUBSET (0 .. m) /\ m \in R
      BY <2>1, <3>1
    <3>3. ASSUME NEW x \in R PROVE x \div Radix \in R
      <4>1. x \in 0 .. m /\ x \div Radix \in S
        BY <2>2
      <4>2. x \div Radix \in 0 .. m
        BY <2>1, <4>1, DigitLess
      <4> QED
        BY <4>1, <4>2
    <3> QED
      BY <3>2, <3>3 DEF Shortened
  <2>3. l \in 0 .. n
    BY <2>1
  <2> QED
    BY <2>2, <2>3 DEF Shortened
<1> QED
  BY <1>1, <1>2

\* What a body that breaks off leaves: text, or the same kind of body.
LEMMA CutsAre ==
  ASSUME NEW t \in Toks, NEW x \in Cuts(t)
  PROVE  \/ x.k = "raw" /\ x = [k |-> "raw", n |-> 0, whole |-> FALSE]
         \/ /\ x = [t EXCEPT !.n = x.n, !.whole = FALSE] /\ x.n \in 0 .. t.n
            /\ x.k = t.k /\ ~x.whole /\ t.k \in {"rec", "bye", "hello"}
            /\ t.k = "rec" => x.n = t.n
            /\ t.k = "bye" => x.n \in Shortened(t.n)
<1> DEFINE left == CASE t.k = "rec" -> {t.n}
                     [] t.k = "bye" -> Shortened(t.n)
                     [] t.k = "hello" -> {0}
                     [] OTHER -> {}
<1>1. t.n \in Nat /\ t = [k |-> t.k, n |-> t.n, whole |-> t.whole]
  BY Bounds DEF Toks, Tokens
<1>2. \/ x = [k |-> "raw", n |-> 0, whole |-> FALSE]
      \/ \E m \in left : x = [t EXCEPT !.n = m, !.whole = FALSE]
  BY DEF Cuts
<1>3. CASE x = [k |-> "raw", n |-> 0, whole |-> FALSE]
  BY <1>3
<1>4. CASE \E m \in left : x = [t EXCEPT !.n = m, !.whole = FALSE]
  <2>1. PICK m \in left : x = [t EXCEPT !.n = m, !.whole = FALSE]
    BY <1>4
  <2>2. x = [k |-> t.k, n |-> m, whole |-> FALSE]
    BY <1>1, <2>1
  <2>3. x.k = t.k /\ x.n = m /\ ~x.whole
    BY <2>2
  <2>4. /\ t.k \in {"rec", "bye", "hello"}
        /\ t.k = "rec" => m = t.n
        /\ t.k = "bye" => m \in Shortened(t.n)
        /\ t.k = "hello" => m = 0
    OBVIOUS
  <2>5. m \in 0 .. t.n
    BY <1>1, <2>4, ShortenedLess
  <2> QED
    BY <2>1, <2>3, <2>4, <2>5
<1> QED
  BY <1>2, <1>3, <1>4

\* The messages the client makes, and what a send that breaks off leaves.
LEMMA BodyTok ==
  ASSUME limit \in Limits
  PROVE  /\ NL \in Toks /\ Body("raw", 0) \in Toks
         /\ \A n \in 0 .. MaxSeq : Body("bye", n) \in Toks /\ Body("hello", n + 1) \in Toks
         /\ \A n \in 1 .. MaxSeq : Body("rec", n) \in Toks
         /\ \A t \in Toks : Cuts(t) \subseteq Toks
<1>1. MaxSeq \in Nat
  BY Bounds
<1>2. ASSUME NEW t \in Toks, NEW x \in Cuts(t) PROVE x \in Toks
  <2>1. CASE x.k = "raw" /\ x = [k |-> "raw", n |-> 0, whole |-> FALSE]
    BY <1>1, <2>1 DEF Toks, Tokens
  <2>2. CASE /\ x = [t EXCEPT !.n = x.n, !.whole = FALSE] /\ x.n \in 0 .. t.n
             /\ x.k = t.k /\ (t.k = "rec" => x.n = t.n)
    <3>1. t.n \in 0 .. (MaxSeq + 1) /\ (t.k = "bye" => t.n \in 0 .. MaxSeq) /\ (t.k = "rec" => t.n \in 1 .. MaxSeq)
      BY DEF Toks, Tokens
    <3>2. x.n \in 0 .. (MaxSeq + 1) /\ (t.k = "bye" => x.n \in 0 .. MaxSeq)
      BY <1>1, <2>2, <3>1
    <3>3. x \in Tokens
      BY <2>2, <3>2 DEF Toks, Tokens
    <3> QED
      BY <2>2, <3>1, <3>2, <3>3 DEF Toks
  <2> QED
    BY <1>2, <2>1, <2>2, CutsAre
<1> QED
  BY <1>1, <1>2 DEF NL, Body, Toks, Tokens

\* Releasing the capture keeps the types, the channel and the next number.
LEMMA ReleaseTyped ==
  ASSUME limit \in Limits, NEW w, Typed(w)
  PROVE  Typed(Released(w)) /\ Released(w).g.fd = w.g.fd /\ Released(w).g.seq = w.g.seq
<1>1. CASE ~w.g.active
  BY <1>1 DEF Released
<1>2. CASE w.g.active
  <2> DEFINE r == Released(w)
             d == [s \in Streams |-> IF s \in w.g.saved THEN Tty ELSE w.std[s]]
             h == [w.g EXCEPT !.saved = {}, !.active = FALSE]
  <2>1. r = [w EXCEPT !.std = d, !.g = h]
    BY <1>2 DEF Released, Typed, Worlds, ClientState
  <2>2. 0 \in 0 .. MaxConns
    BY Bounds
  <2>3. d \in [Streams -> 0 .. MaxConns]
    BY <2>2 DEF Typed, Worlds, Tty
  <2>4. h \in ClientState /\ h.fd = w.g.fd /\ h.seq = w.g.seq
    BY DEF Typed, ClientState
  <2> HIDE DEF d, h, r
  <2>5. Typed(r) /\ r.g = h
    BY <2>1, <2>3, <2>4 DEF Typed, Worlds
  <2> QED
    BY <2>4, <2>5 DEF r
<1> QED
  BY <1>1, <1>2

\* So does the end of a stream whose last descriptor is closed.
LEMMA ShutTyped ==
  ASSUME NEW w, Typed(w), NEW c \in Conns
  PROVE  Typed(Shut(w, c)) /\ Shut(w, c).g = w.g
<1> DEFINE l == [w.link EXCEPT ![c] = "fin"]
<1>1. l \in [Conns -> Links]
  BY DEF Typed, Worlds, Links
<1>2. Shut(w, c) = w \/ Shut(w, c) = [w EXCEPT !.link = l]
  BY DEF Shut, Typed, Worlds
<1> HIDE DEF l
<1> QED
  BY <1>1, <1>2 DEF Typed, Worlds

\* Disabling the channel keeps the types.
LEMMA DisableTyped ==
  ASSUME NEW w, Typed(w), limit \in Limits
  PROVE  Typed(Disabled(w))
<1> DEFINE r == Released(w)
           h == [r.g EXCEPT !.fd = 0]
           v == [r EXCEPT !.g = h]
<1>1. Typed(r)
  BY ReleaseTyped
<1>2. MaxConns \in Nat
  BY Bounds
<1>3. Disabled(w) = IF r.g.fd = 0 THEN r ELSE Shut(v, r.g.fd)
  BY <1>1 DEF Disabled, Typed, Worlds, ClientState
<1> HIDE DEF r
<1>4. h \in ClientState
  BY <1>1, <1>2 DEF Typed, ClientState
<1> HIDE DEF h
<1>5. Typed(v)
  BY <1>1, <1>4 DEF Typed, Worlds
<1>6. r.g.fd # 0 => r.g.fd \in Conns
  BY <1>1, <1>2 DEF Typed, ClientState, Conns
<1> HIDE DEF v
<1> QED
  BY <1>1, <1>3, <1>5, <1>6, ShutTyped

\* What reaches the socket, and that a fault is counted only below the limit.
LEMMA SendTyped ==
  ASSUME limit \in Limits, NEW l, NEW t \in Toks, NEW end \in {<<>>, <<NL>>},
         NEW f \in 0 .. limit.faults, NEW r \in SendAll(l, t, end, f)
  PROVE  r.sent \in Seq(Toks) /\ r.faults \in 0 .. limit.faults
<1>1. NL \in Toks /\ Cuts(t) \subseteq Toks
  BY BodyTok
<1>2. limit.faults \in Nat
  BY Bounds
<1>3. \A x \in Toks : <<x>> \in Seq(Toks)
  OBVIOUS
<1>4. <<t>> \o end \in Seq(Toks)
  <2>1. <<t>> \in Seq(Toks) /\ <<NL>> \in Seq(Toks) /\ <<>> \in Seq(Toks)
    BY <1>1
  <2> QED
    BY <2>1, ConcatProperties
<1>5. <<>> \in Seq(Toks)
  OBVIOUS
<1>6. r.sent \in {<<>>, <<t>>, <<t>> \o end} \/ \E x \in Cuts(t) : r.sent = <<x>>
  BY DEF SendAll
<1>7. r.faults = f \/ (r.faults = f + 1 /\ f # limit.faults)
  BY DEF SendAll
<1>8. r.sent \in Seq(Toks)
  BY <1>1, <1>3, <1>4, <1>5, <1>6
<1>9. r.faults \in 0 .. limit.faults
  BY <1>2, <1>7
<1> QED
  BY <1>8, <1>9

\* Whatever a send leaves on the wire is tokens, and it leaves the globals alone.
LEMMA SendsTyped ==
  ASSUME limit \in Limits, NEW w, Typed(w), w.g.fd # 0,
         NEW t \in Toks, NEW end \in {<<>>, <<NL>>}, NEW x \in Sends(w, t, end)
  PROVE  Typed(x.w) /\ x.w.g = w.g
<1>1. PICK r \in SendAll(w.link[w.g.fd], t, end, w.faults) :
        x = [ok |-> r.ok, w |-> [w EXCEPT !.wire[w.g.fd] = @ \o r.sent, !.faults = r.faults]]
  BY DEF Sends
<1>2. w.g.fd \in Conns /\ w.faults \in 0 .. limit.faults
  BY Bounds DEF Typed, Worlds, ClientState, Conns
<1>3. r.sent \in Seq(Toks) /\ r.faults \in 0 .. limit.faults
  BY <1>2, SendTyped
<1> DEFINE y == [w.wire EXCEPT ![w.g.fd] = @ \o r.sent]
<1>4. w.wire[w.g.fd] \o r.sent \in Seq(Toks)
  BY <1>2, <1>3 DEF Typed, Worlds
<1>5. y \in [Conns -> Seq(Toks)]
  BY <1>2, <1>4 DEF Typed, Worlds
<1>6. x.w = [w EXCEPT !.wire = y, !.faults = r.faults]
  BY <1>1 DEF Typed, Worlds
<1> HIDE DEF y
<1> QED
  BY <1>3, <1>5, <1>6 DEF Typed, Worlds

\* A message that has to go out, and the channel an error takes down.
LEMMA DeliverTyped ==
  ASSUME limit \in Limits, NEW w, Typed(w), w.g.fd # 0,
         NEW t \in Toks, NEW end \in {<<>>, <<NL>>}, NEW v \in Delivered(w, t, end)
  PROVE  Typed(v)
<1>1. PICK x \in Sends(w, t, end) : v = IF x.ok THEN x.w ELSE Disabled(x.w)
  BY DEF Delivered
<1>2. Typed(x.w)
  BY SendsTyped
<1>3. Typed(Disabled(x.w))
  BY <1>2, DisableTyped
<1> QED
  BY <1>1, <1>2, <1>3

\* Closing: released, BYE sent, the socket given up.
LEMMA CloseTyped ==
  ASSUME limit \in Limits, NEW w, Typed(w), NEW v \in Closed(w)
  PROVE  Typed(v)
<1> DEFINE r == Released(w)
           c == r.g.fd
<1>1. Typed(r)
  BY ReleaseTyped
<1>2. CASE c = 0
  BY <1>1, <1>2 DEF Closed
<1>3. CASE c # 0
  <2>1. PICK x \in Sends(r, Body("bye", r.g.seq), <<NL>>) :
          v = [x.w EXCEPT !.g.fd = 0, !.link[c] = IF @ = "up" THEN "fin" ELSE @]
    BY <1>3 DEF Closed
  <2> HIDE DEF r
  <2>2. Body("bye", r.g.seq) \in Toks
    BY <1>1, BodyTok DEF Typed, ClientState
  <2>3. Typed(x.w)
    BY <1>1, <1>3, <2>2, SendsTyped
  <2>4. c \in Conns /\ 0 \in 0 .. MaxConns
    BY <1>1, <1>3, Bounds DEF Typed, ClientState, Conns
  <2> HIDE DEF c
  <2> DEFINE l == [x.w.link EXCEPT ![c] = IF @ = "up" THEN "fin" ELSE @]
             h == [x.w.g EXCEPT !.fd = 0]
  <2>5. l \in [Conns -> Links]
    BY <2>3, <2>4 DEF Typed, Worlds, Links
  <2>6. h \in ClientState
    BY <2>3, <2>4 DEF Typed, ClientState
  <2>7. v = [x.w EXCEPT !.g = h, !.link = l]
    BY <2>1, <2>3 DEF Typed, Worlds
  <2> HIDE DEF l, h
  <2> QED
    BY <2>3, <2>5, <2>6, <2>7 DEF Typed, Worlds
<1> QED
  BY <1>2, <1>3

\* Opening: the next socket is within the limit, and HELLO goes to it.
LEMMA OpenTyped ==
  ASSUME limit \in Limits, NEW w, Typed(w), NEW v \in Opened(w)
  PROVE  Typed(v)
<1> DEFINE c == w.g.used + 1
           up == [w EXCEPT !.g.fd = c, !.g.used = c, !.link[c] = "up"]
<1>1. CASE v = Disabled(w)
  BY <1>1, DisableTyped
<1>2. CASE c <= limit.conns /\ v \in Delivered(up, Body("hello", w.g.seq + 1), <<NL>>)
  <2>1. c \in Conns /\ c \in 1 .. MaxConns
    BY <1>2, Bounds DEF Typed, ClientState, Conns
  <2>2. Body("hello", w.g.seq + 1) \in Toks
    BY BodyTok DEF Typed, ClientState
  <2> DEFINE l == [w.link EXCEPT ![c] = "up"]
             h == [w.g EXCEPT !.fd = c, !.used = c]
  <2>3. up = [w EXCEPT !.g = h, !.link = l]
    BY DEF Typed, Worlds, ClientState
  <2>4. l \in [Conns -> Links]
    BY <2>1 DEF Typed, Worlds, Links
  <2> HIDE DEF c
  <2>5. h.fd = c /\ c # 0
    BY <2>1, Bounds DEF Typed, ClientState
  <2>8. h \in ClientState
    <3>1. c \in 0 .. MaxConns
      BY <2>1, Bounds
    <3> QED
      BY <3>1 DEF Typed, ClientState
  <2> HIDE DEF l, h, up
  <2>6. Typed(up) /\ up.g.fd # 0
    BY <2>3, <2>4, <2>5, <2>8 DEF Typed, Worlds
  <2>7. v \in Delivered(up, Body("hello", w.g.seq + 1), <<NL>>)
    BY <1>2
  <2> QED
    BY <2>2, <2>6, <2>7, DeliverTyped
<1>3. c \in Nat /\ limit.conns \in Nat
  BY Bounds DEF Typed, ClientState
<1>4. v = Disabled(w) \/ (~(c > limit.conns) /\ v \in Delivered(up, Body("hello", w.g.seq + 1), <<NL>>))
  BY DEF Opened
<1>5. ~(c > limit.conns) => c <= limit.conns
  BY <1>3
<1> QED
  BY <1>1, <1>2, <1>4, <1>5

\* Applying a capture, complete or half-way.
LEMMA ApplyTyped ==
  ASSUME NEW w, Typed(w), NEW flags \in SUBSET Streams, NEW v \in Applied(w, flags)
  PROVE  Typed(v.w)
<1> DEFINE D(f) == [s \in Streams |-> IF s \in f THEN w.g.fd ELSE w.std[s]]
           H(a) == [w.g EXCEPT !.saved = @ \cup flags, !.active = a]
<1>0. w.g.fd \in 0 .. MaxConns
  BY DEF Typed, ClientState
<1>1. \A f : D(f) \in [Streams -> 0 .. MaxConns]
  BY <1>0 DEF Typed, Worlds
<1>2. \A a \in BOOLEAN : H(a) \in ClientState
  BY DEF Typed, ClientState
<1>3. CASE v = [ok |-> TRUE, w |-> w]
  BY <1>3
<1>4. CASE v = [ok |-> TRUE,
                w |-> [w EXCEPT !.std = [s \in Streams |-> IF s \in flags THEN w.g.fd ELSE w.std[s]],
                                !.g.saved = @ \cup flags, !.g.active = (flags # {})]]
  <2>1. v.w = [w EXCEPT !.std = D(flags), !.g = H(flags # {})]
    BY <1>4 DEF Typed, Worlds, ClientState
  <2>2. PICK a \in BOOLEAN : a = (flags # {})
    OBVIOUS
  <2>3. H(flags # {}) \in ClientState
    BY <1>2, <2>2
  <2>4. PICK d, h : d = D(flags) /\ h = H(flags # {})
    OBVIOUS
  <2>5. d \in [Streams -> 0 .. MaxConns] /\ h \in ClientState /\ v.w = [w EXCEPT !.std = d, !.g = h]
    BY <1>1, <2>1, <2>3, <2>4
  <2> HIDE DEF D, H
  <2> QED
    BY <2>5 DEF Typed, Worlds
<1>5. CASE v = [ok |-> FALSE, w |-> [w EXCEPT !.std["out"] = w.g.fd, !.g.saved = @ \cup flags]]
  <2> DEFINE d == [w.std EXCEPT !["out"] = w.g.fd]
             h == [w.g EXCEPT !.saved = @ \cup flags]
  <2>1. v.w = [w EXCEPT !.std = d, !.g = h]
    BY <1>5 DEF Typed, Worlds
  <2>2. d \in [Streams -> 0 .. MaxConns]
    BY <1>0 DEF Typed, Worlds, Streams
  <2>3. h \in ClientState
    BY DEF Typed, ClientState
  <2> HIDE DEF d, h
  <2> QED
    BY <2>1, <2>2, <2>3 DEF Typed, Worlds
<1> QED
  BY <1>3, <1>4, <1>5 DEF Applied

-----------------------------------------------------------------------------
\* The client and the wire: types, and the bounds the limits set.
ClientInv ==
    /\ limit \in Limits /\ power \in BOOLEAN /\ prints \in 0 .. limit.prints
    /\ g \in ClientState /\ std \in [Streams -> 0 .. MaxConns]
    /\ wire \in [Conns -> Seq(Toks)] /\ link \in [Conns -> Links]
    /\ faults \in 0 .. limit.faults

\* The state is a typed world.
LEMMA WorldTyped ==
  ASSUME ClientInv
  PROVE  Typed(World) /\ World.g = g
BY DEF ClientInv, World, Typed, Worlds

\* What a call leaves behind, apart from the prints.
LEMMA BecomesTyped ==
  ASSUME ClientInv, NEW w, Typed(w), Becomes(w), prints' \in 0 .. limit.prints
  PROVE  ClientInv'
<1>1. limit' = limit /\ power' = power
  BY DEF Becomes
<1>2. g' \in ClientState /\ std' \in [Streams -> 0 .. MaxConns]
  BY DEF Becomes, Typed, Worlds
<1>3. wire' \in [Conns -> Seq(Toks)] /\ link' \in [Conns -> Links] /\ faults' \in 0 .. limit.faults
  BY DEF Becomes, Typed, Worlds
<1> QED
  BY <1>1, <1>2, <1>3 DEF ClientInv

\* A change of the globals' numbers.
LEMMA GlobalsTyped ==
  ASSUME NEW w, Typed(w), NEW h \in ClientState
  PROVE  Typed([w EXCEPT !.g = h]) /\ [w EXCEPT !.g = h].g = h
BY DEF Typed, Worlds

\* The calls of the client, one by one: ps5log_init,
LEMMA InitTyped ==
  ASSUME ClientInv, InitCall
  PROVE  ClientInv'
<1>1. PICK w \in IF g.fd = 0 THEN {World} ELSE Closed(World) :
        \E v \in IF mode = "off" THEN {Disabled([w EXCEPT !.g.seq = 0, !.g.inited = TRUE])}
               ELSE Opened([w EXCEPT !.g.seq = 0, !.g.inited = TRUE]) : Becomes(v)
  BY DEF InitCall
<1>2. limit \in Limits /\ prints' \in 0 .. limit.prints
  BY DEF ClientInv, InitCall
<1>3. Typed(w)
  BY <1>1, <1>2, WorldTyped, CloseTyped
<1> DEFINE h == [w.g EXCEPT !.seq = 0, !.inited = TRUE]
           fresh == [w EXCEPT !.g = h]
<1>4. [w EXCEPT !.g.seq = 0, !.g.inited = TRUE] = fresh
  BY <1>3 DEF Typed, Worlds, ClientState
<1>5. h \in ClientState
  <2>1. 0 \in 0 .. MaxSeq
    BY <1>2, Bounds
  <2> QED
    BY <1>3, <2>1 DEF Typed, ClientState
<1>6. PICK v \in IF mode = "off" THEN {Disabled(fresh)} ELSE Opened(fresh) : Becomes(v)
  BY <1>1, <1>4
<1> HIDE DEF h
<1>7. Typed(fresh)
  BY <1>3, <1>5, GlobalsTyped
<1> HIDE DEF fresh
<1>8. Typed(v)
  BY <1>2, <1>6, <1>7, DisableTyped, OpenTyped
<1> QED
  BY <1>2, <1>6, <1>8, BecomesTyped

\* ps5log_line,
LEMMA LineTyped ==
  ASSUME ClientInv, LineCall
  PROVE  ClientInv'
<1> DEFINE h == [g EXCEPT !.seq = @ + 1]
           w == [World EXCEPT !.g = h]
<1>1. Typed(World) /\ World.g = g /\ limit \in Limits /\ prints' \in 0 .. limit.prints
  BY WorldTyped DEF ClientInv, LineCall
<1>2. [World EXCEPT !.g.seq = @ + 1] = w
  BY <1>1 DEF World
<1>3. g.seq + 1 \in 1 .. MaxSeq
  BY Bounds DEF ClientInv, LineCall, ClientState
<1>4. h \in ClientState /\ h.seq = g.seq + 1 /\ h.fd = g.fd
  <2>1. g.seq + 1 \in 0 .. MaxSeq
    BY <1>3, <1>1, Bounds
  <2> QED
    BY <2>1 DEF ClientInv, ClientState
<1>5. PICK v \in IF g.fd = 0 THEN {w} ELSE Delivered(w, Body("rec", w.g.seq), <<NL>>) : Becomes(v)
  BY <1>2 DEF LineCall
<1> HIDE DEF h
<1>6. Typed(w) /\ w.g = h
  BY <1>1, <1>4, GlobalsTyped
<1> HIDE DEF w
<1>7. Body("rec", w.g.seq) \in Toks
  BY <1>1, <1>3, <1>4, <1>6, BodyTok
<1>8. Typed(v)
  BY <1>1, <1>4, <1>5, <1>6, <1>7, DeliverTyped
<1> QED
  BY <1>1, <1>5, <1>8, BecomesTyped

\* ps5log_raw,
LEMMA RawTyped ==
  ASSUME ClientInv, RawCall
  PROVE  ClientInv'
<1>1. Typed(World) /\ World.g = g /\ limit \in Limits
  BY WorldTyped DEF ClientInv
<1>2. prints' \in 0 .. limit.prints
  BY <1>1, Bounds DEF ClientInv, RawCall
<1>3. PICK end \in {<<>>, <<NL>>} : \E v \in Delivered(World, Body("raw", 0), end) : Becomes(v)
  BY DEF RawCall
<1>4. PICK v \in Delivered(World, Body("raw", 0), end) : Becomes(v)
  BY <1>3
<1>5. Typed(v)
  BY <1>1, <1>4, BodyTok, DeliverTyped DEF RawCall
<1> QED
  BY <1>2, <1>4, <1>5, BecomesTyped

\* a print to a captured stream,
LEMMA PrintTyped ==
  ASSUME ClientInv, CapturedPrint
  PROVE  ClientInv'
<1>1. limit \in Limits
  BY DEF ClientInv
<1>2. prints' \in 0 .. limit.prints
  BY <1>1, Bounds DEF ClientInv, CapturedPrint
<1>3. PICK s \in Streams, end \in {<<>>, <<NL>>} :
        /\ std[s] # Tty
        /\ wire' = IF link[std[s]] = "up"
                   THEN [wire EXCEPT ![std[s]] = @ \o <<Body("raw", 0)>> \o end] ELSE wire
  BY DEF CapturedPrint
<1>4. std[s] \in Conns
  BY <1>1, <1>3, Bounds DEF ClientInv, Conns, Tty
<1>5. wire[std[s]] \o <<Body("raw", 0)>> \o end \in Seq(Toks)
  <2>1. /\ wire[std[s]] \in Seq(Toks) /\ <<Body("raw", 0)>> \in Seq(Toks)
        /\ <<NL>> \in Seq(Toks) /\ <<>> \in Seq(Toks)
    BY <1>1, <1>4, BodyTok DEF ClientInv
  <2>2. wire[std[s]] \o <<Body("raw", 0)>> \in Seq(Toks)
    BY <2>1, ConcatProperties
  <2> QED
    BY <2>1, <2>2, ConcatProperties
<1>6. wire' \in [Conns -> Seq(Toks)]
  BY <1>3, <1>4, <1>5 DEF ClientInv
<1>7. UNCHANGED <<limit, link, power, faults, g, std>>
  BY DEF CapturedPrint
<1> QED
  BY <1>2, <1>6, <1>7 DEF ClientInv

\* ps5log_capture_stdio,
LEMMA CaptureTyped ==
  ASSUME ClientInv, CaptureCall
  PROVE  ClientInv'
<1>1. Typed(World) /\ World.g = g /\ limit \in Limits /\ prints' \in 0 .. limit.prints
  BY WorldTyped DEF ClientInv, CaptureCall
<1>2. PICK flags \in SUBSET Streams :
        \E v \in Applied([World EXCEPT !.g.flags = flags], flags) :
          Becomes(IF v.ok THEN v.w ELSE Released(v.w))
  BY ClientAssumption DEF CaptureCall
<1> DEFINE h == [g EXCEPT !.flags = flags]
           w == [World EXCEPT !.g = h]
<1>3. [World EXCEPT !.g.flags = flags] = w
  BY DEF World
<1>4. h \in ClientState
  BY DEF ClientInv, ClientState
<1>5. PICK v \in Applied(w, flags) : Becomes(IF v.ok THEN v.w ELSE Released(v.w))
  BY <1>2, <1>3
<1> HIDE DEF h
<1>6. Typed(w)
  BY <1>1, <1>4, GlobalsTyped
<1> HIDE DEF w
<1>7. Typed(v.w)
  BY <1>5, <1>6, ApplyTyped
<1>8. Typed(Released(v.w))
  BY <1>1, <1>7, ReleaseTyped
<1>9. PICK x \in {v.w, Released(v.w)} : Becomes(x)
  BY <1>5
<1> QED
  BY <1>1, <1>7, <1>8, <1>9, BecomesTyped

\* ps5log_reconnect.
LEMMA ReconnectTyped ==
  ASSUME ClientInv, ReconnectCall
  PROVE  ClientInv'
<1>1. Typed(World) /\ World.g = g /\ limit \in Limits /\ prints' \in 0 .. limit.prints
  BY WorldTyped DEF ClientInv, ReconnectCall
<1>2. PICK w \in Opened(World) :
        \E v \in IF g.flags = {} THEN {[w |-> w, ok |-> TRUE]} ELSE Applied(w, g.flags) : Becomes(v.w)
  BY DEF ReconnectCall
<1>3. Typed(w)
  BY <1>1, <1>2, OpenTyped
<1>4. PICK v \in IF g.flags = {} THEN {[w |-> w, ok |-> TRUE]} ELSE Applied(w, g.flags) : Becomes(v.w)
  BY <1>2
<1>5. g.flags \in SUBSET Streams
  BY DEF ClientInv, ClientState
<1>6. Typed(v.w)
  BY <1>3, <1>4, <1>5, ApplyTyped
<1> QED
  BY <1>1, <1>4, <1>6, BecomesTyped

\* A stream cut short holds messages all the same.
LEMMA PrefixedToks ==
  ASSUME limit \in Limits, NEW s \in Seq(Toks), NEW p \in Prefixed(s)
  PROVE  p \in Seq(Toks)
<1>1. \A i \in 0 .. Len(s) : SubSeq(s, 1, i) \in Seq(Toks)
  <2> SUFFICES ASSUME NEW i \in 0 .. Len(s) PROVE SubSeq(s, 1, i) \in Seq(Toks)
    OBVIOUS
  <2>1. i \in Int /\ \A j \in 1 .. i : s[j] \in Toks
    BY LenProperties
  <2> QED
    BY <2>1, SubSeqProperties
<1>2. CASE \E i \in 0 .. Len(s) : p = SubSeq(s, 1, i)
  BY <1>1, <1>2
<1>3. CASE \E i \in DOMAIN s : \E x \in Cuts(s[i]) : p = Append(SubSeq(s, 1, i - 1), x)
  <2>1. PICK i \in 1 .. Len(s) : \E x \in Cuts(s[i]) : p = Append(SubSeq(s, 1, i - 1), x)
    BY <1>3, LenProperties
  <2>5. PICK x \in Cuts(s[i]) : p = Append(SubSeq(s, 1, i - 1), x)
    BY <2>1
  <2>2. i - 1 \in 0 .. Len(s)
    BY LenProperties
  <2>3. s[i] \in Toks /\ x \in Toks
    BY BodyTok, ElementOfSeq
  <2>4. SubSeq(s, 1, i - 1) \in Seq(Toks)
    BY <1>1, <2>2
  <2> QED
    BY <2>3, <2>4, <2>5, AppendProperties
<1> QED
  BY <1>2, <1>3 DEF Prefixed

\* A reset keeps some of what is in flight.
LEMMA NetTyped ==
  ASSUME ClientInv, Net
  PROVE  ClientInv'
<1>1. PICK c \in Conns : NetReset(c)
  BY DEF Net
<1>2. limit \in Limits /\ UNCHANGED <<limit, power, g, std, prints>>
  BY <1>1 DEF ClientInv, Net, NetReset, clientVars
<1>3. PICK s \in Prefixed(wire[c]) : wire' = [wire EXCEPT ![c] = s]
  BY <1>1 DEF NetReset
<1>4. s \in Seq(Toks)
  BY <1>2, <1>3, PrefixedToks DEF ClientInv
<1>5. wire' \in [Conns -> Seq(Toks)]
  BY <1>3, <1>4 DEF ClientInv
<1>6. link' \in [Conns -> Links]
  BY <1>1 DEF ClientInv, NetReset, Links
<1>7. faults' \in 0 .. limit.faults
  BY <1>1, <1>2, Bounds DEF ClientInv, NetReset, Faulty
<1> QED
  BY <1>2, <1>5, <1>6, <1>7 DEF ClientInv

\* So does a freeze, on every stream.
LEMMA FreezeTyped ==
  ASSUME ClientInv, Freeze
  PROVE  ClientInv'
<1>1. limit \in Limits /\ UNCHANGED <<limit, g, std, prints>> /\ power' \in BOOLEAN
  BY DEF ClientInv, Freeze, PowerLoss, clientVars
<1>2. link' \in [Conns -> Links]
  BY DEF ClientInv, Freeze, PowerLoss, Links
<1>3. wire' \in [Conns -> Seq(Toks)]
  <2>1. /\ wire' \in [Conns -> UNION {Prefixed(wire[c]) : c \in Conns}]
        /\ \A c \in Conns : IF mode = "tcp" /\ link[c] \in {"up", "fin"}
                            THEN wire'[c] \in Prefixed(wire[c]) ELSE wire'[c] = wire[c]
    BY DEF Freeze, PowerLoss
  <2>2. \A c \in Conns : wire[c] \in Seq(Toks)
    BY DEF ClientInv
  <2>3. \A c \in Conns : wire'[c] \in Seq(Toks)
    BY <1>1, <2>1, <2>2, PrefixedToks
  <2> QED
    BY <2>1, <2>3
<1>4. faults' \in 0 .. limit.faults
  BY <1>1, Bounds DEF ClientInv, Freeze, PowerLoss, Faulty
<1> QED
  BY <1>1, <1>2, <1>3, <1>4 DEF ClientInv

-----------------------------------------------------------------------------
\* Runs, stores: what the proofs need to know of the server's types.
RunRecs == [conn : Conns, log : Seq(Seq(Toks)), hello : BOOLEAN,
            first : 0 .. MaxSeq, last : 0 .. MaxSeq,
            gaps : SUBSET [expected : 1 .. (MaxSeq + 1), got : 1 .. MaxSeq],
            bye : -1 .. MaxSeq, ended : BOOLEAN, lost : BOOLEAN]

\* The server's variables as one record.
Stores == [sess : [Conns -> {"none", "open", "closed"}], buf : [Conns -> Seq(Toks)],
           cur : [Conns -> Nat], runs : Seq(RunRecs), disk : Seq(Nat),
           manifests : SUBSET Nat, latest : Nat]

\* The runs, of a run's records: one that is missing between two others lies
\* in a listed gap, and the last one observed is one of them.
Covers(r) ==
    /\ r.first = 0 => Records(r) \subseteq {0}
    /\ r.first # 0 =>
         /\ r.last \in Records(r)
         /\ \A m \in Nat, n \in Records(r) : m \notin Records(r) /\ r.first < m /\ m < n =>
               \E gap \in r.gaps : gap.expected <= m /\ m < gap.got

\* One more line, one more record at most.
LEMMA RecordsGrow ==
  ASSUME NEW x, NEW h, x.log \in Seq(Seq(Toks)), NEW line \in Seq(Toks), h.log = Append(x.log, line)
  PROVE  /\ Records(h) = Records(x) \cup (IF Kind(line) = "rec" THEN {line[1].n} ELSE {})
         /\ h.log \in Seq(Seq(Toks)) /\ Len(h.log) = Len(x.log) + 1
<1> DEFINE s == x.log
           t == h.log
<1>1. /\ t \in Seq(Seq(Toks)) /\ Len(t) = Len(s) + 1 /\ t[Len(s) + 1] = line
      /\ \A i \in 1 .. Len(s) : t[i] = s[i]
  BY AppendProperties
<1>2. Len(s) \in Nat /\ DOMAIN s = 1 .. Len(s) /\ DOMAIN t = 1 .. Len(t)
  BY <1>1, LenProperties
<1> HIDE DEF s, t
<1>3. ToSet(t) = ToSet(s) \cup {line}
  <2>1. ASSUME NEW i \in DOMAIN t PROVE t[i] \in ToSet(s) \cup {line}
    <3>1. i = Len(s) + 1 \/ i \in DOMAIN s
      BY <1>1, <1>2
    <3> QED
      BY <1>1, <1>2, <3>1 DEF ToSet
  <2>2. ASSUME NEW i \in DOMAIN s PROVE s[i] \in ToSet(t)
    BY <1>1, <1>2 DEF ToSet
  <2>3. line \in ToSet(t)
    <3>1. Len(s) + 1 \in DOMAIN t
      BY <1>1, <1>2
    <3> QED
      BY <1>1, <3>1 DEF ToSet
  <2> QED
    BY <2>1, <2>2, <2>3 DEF ToSet
<1>4. Records(h) = {l[1].n : l \in {y \in ToSet(t) : Kind(y) = "rec"}}
  BY DEF Records, t
<1>5. Records(x) = {l[1].n : l \in {y \in ToSet(s) : Kind(y) = "rec"}}
  BY DEF Records, s
<1>6. Records(h) = Records(x) \cup (IF Kind(line) = "rec" THEN {line[1].n} ELSE {})
  BY <1>3, <1>4, <1>5
<1> QED
  BY <1>1, <1>6 DEF s, t

\* Run.observe, of a line that has been written: the gaps still cover what
\* is missing.
LEMMA ObservedCovers ==
  ASSUME limit \in Limits, NEW x \in RunRecs, NEW w \in RunRecs, NEW n \in 1 .. MaxSeq, Covers(x),
         Records(w) = Records(x) \cup {n},
         w.first = x.first, w.last = x.last, w.gaps = x.gaps
  PROVE  /\ Observed(w, n) \in RunRecs /\ Covers(Observed(w, n))
         /\ \A f \in {"conn", "ended", "lost", "log", "bye", "hello"} : Observed(w, n)[f] = w[f]
<1> DEFINE h == Observed(w, n)
           new == IF w.first # 0 /\ n # w.last + 1 THEN w.gaps \cup {[expected |-> w.last + 1, got |-> n]} ELSE w.gaps
<1>0. MaxSeq \in Nat /\ w.first \in 0 .. MaxSeq /\ w.last \in 0 .. MaxSeq
  BY Bounds DEF RunRecs
<1>1. h = [w EXCEPT !.first = IF w.first = 0 THEN n ELSE w.first, !.gaps = new, !.last = n]
  BY DEF Observed, RunRecs
<1>2. new \in SUBSET [expected : 1 .. (MaxSeq + 1), got : 1 .. MaxSeq]
  <2>1. [expected |-> w.last + 1, got |-> n] \in [expected : 1 .. (MaxSeq + 1), got : 1 .. MaxSeq]
    BY <1>0
  <2>2. w.gaps \in SUBSET [expected : 1 .. (MaxSeq + 1), got : 1 .. MaxSeq]
    BY DEF RunRecs
  <2> QED
    BY <2>1, <2>2
<1> HIDE DEF h
<1>3. /\ h.first = (IF w.first = 0 THEN n ELSE w.first) /\ h.gaps = new /\ h.last = n
      /\ h.log = w.log /\ h.conn = w.conn /\ h.ended = w.ended /\ h.lost = w.lost
      /\ h.bye = w.bye /\ h.hello = w.hello
  BY <1>1 DEF RunRecs
<1>4. h \in RunRecs
  <2>1. n \in 0 .. MaxSeq /\ h.first \in 0 .. MaxSeq
    BY <1>0, <1>3
  <2> HIDE DEF new
  <2> QED
    BY <1>1, <1>2, <2>1 DEF RunRecs
<1>5. Records(h) = Records(x) \cup {n}
  BY <1>3 DEF Records
<1>6. Covers(h)
  <2>1. h.first # 0 /\ h.last \in Records(h)
    BY <1>0, <1>3, <1>5
  <2>2. ASSUME NEW m \in Nat, NEW k \in Records(h), m \notin Records(h), h.first < m, m < k
        PROVE  \E gap \in h.gaps : gap.expected <= m /\ m < gap.got
    <3>1. CASE w.first = 0
      BY <1>0, <1>3, <1>5, <2>2, <3>1 DEF Covers
    <3>2. CASE w.first # 0
      <4>1. /\ x.last \in Records(x) /\ x.last = w.last
            /\ \A a \in Nat, b \in Records(x) : a \notin Records(x) /\ x.first < a /\ a < b =>
                 \E gap \in x.gaps : gap.expected <= a /\ a < gap.got
        BY <3>2 DEF Covers
      <4>2. m \notin Records(x) /\ x.first < m /\ m # n /\ w.last \in Nat /\ n \in Nat
        BY <1>0, <1>3, <1>5, <2>2, <3>2
      <4>3. CASE \E b \in Records(x) : m < b
        <5>1. \E gap \in x.gaps : gap.expected <= m /\ m < gap.got
          BY <4>1, <4>2, <4>3
        <5>2. x.gaps \subseteq new
          OBVIOUS
        <5> QED
          BY <1>3, <5>1, <5>2
      <4>4. CASE ~ \E b \in Records(x) : m < b
        <5>1. k = n /\ m < n
          BY <1>5, <2>2, <4>4
        <5>2. w.last < m
          BY <4>1, <4>2, <4>4
        <5>3. [expected |-> w.last + 1, got |-> n] \in new
          BY <3>2, <4>2, <5>1, <5>2
        <5>4. w.last + 1 <= m
          BY <4>2, <5>2
        <5> HIDE DEF new
        <5>5. PICK gap : gap = [expected |-> w.last + 1, got |-> n]
          OBVIOUS
        <5>6. gap.expected <= m /\ m < gap.got /\ gap \in h.gaps
          BY <1>3, <5>1, <5>3, <5>4, <5>5
        <5> QED
          BY <5>6
      <4> QED
        BY <4>3, <4>4
    <3> QED
      BY <3>1, <3>2
  <2> QED
    BY <2>1, <2>2 DEF Covers
<1> QED
  BY <1>3, <1>4, <1>6 DEF h

\* Session._handle_line keeps what it does not read.
LEMMA HandledSound ==
  ASSUME limit \in Limits, NEW x \in RunRecs, NEW line \in Seq(Toks), Covers(x)
  PROVE  /\ Handled(x, line) \in RunRecs /\ Covers(Handled(x, line))
         /\ Handled(x, line).conn = x.conn /\ Handled(x, line).ended = x.ended
         /\ Handled(x, line).lost = x.lost
<1> DEFINE h == Handled(x, line)
           log == Append(x.log, line)
           w == [x EXCEPT !.log = log]
<1>1. x.log \in Seq(Seq(Toks))
  BY DEF RunRecs
<1>2. log \in Seq(Seq(Toks))
  BY <1>1, AppendProperties
<1>3. w = [x EXCEPT !.log = Append(@, line)]
  BY DEF RunRecs
<1>4. w \in RunRecs /\ w.log = log /\ \A f \in {"conn", "hello", "first", "last", "gaps", "bye", "ended", "lost"} : w[f] = x[f]
  <2> HIDE DEF log
  <2> QED
    BY <1>2 DEF RunRecs
<1>5. Records(w) = Records(x) \cup (IF Kind(line) = "rec" THEN {line[1].n} ELSE {})
  BY <1>1, <1>4, RecordsGrow
<1>6. Kind(line) \in {"bye", "rec"} => line[1] \in Toks /\ line[1].k = Kind(line)
  BY ElementOfSeq DEF Kind
<1>7. h = CASE Kind(line) = "hello" /\ x.log = <<>> -> [w EXCEPT !.hello = TRUE]
            [] Kind(line) = "bye" -> [w EXCEPT !.bye = line[1].n]
            [] Kind(line) = "rec" -> Observed(w, line[1].n)
            [] OTHER -> w
  BY <1>3 DEF Handled
<1> HIDE DEF w
<1>8. Kind(line) # "rec" => Covers(w)
  BY <1>4, <1>5 DEF Covers
<1>9. CASE Kind(line) = "rec"
  <2>1. line[1].n \in 1 .. MaxSeq
    BY <1>6, <1>9 DEF Toks
  <2>2. Records(w) = Records(x) \cup {line[1].n}
    BY <1>5, <1>9
  <2>3. h = Observed(w, line[1].n)
    BY <1>7, <1>9
  <2>4. w.first = x.first /\ w.last = x.last /\ w.gaps = x.gaps
    BY <1>4
  <2> HIDE DEF h
  <2>5. h \in RunRecs /\ Covers(h) /\ h.conn = w.conn /\ h.ended = w.ended /\ h.lost = w.lost
    BY <1>4, <2>1, <2>2, <2>3, <2>4, ObservedCovers
  <2> QED
    BY <1>4, <2>5 DEF h
<1>10. CASE Kind(line) = "bye"
  <2>1. line[1].n \in -1 .. MaxSeq
    BY <1>6, <1>10, Bounds DEF Toks
  <2>2. h = [w EXCEPT !.bye = line[1].n]
    BY <1>7, <1>10
  <2> HIDE DEF h
  <2>3. h \in RunRecs /\ \A f \in {"conn", "log", "first", "last", "gaps", "ended", "lost"} : h[f] = w[f]
    BY <1>4, <2>1, <2>2 DEF RunRecs
  <2>4. Covers(h)
    BY <1>8, <1>10, <2>3 DEF Covers, Records
  <2> QED
    BY <1>4, <2>3, <2>4 DEF h
<1>11. CASE Kind(line) \notin {"rec", "bye"}
  <2>1. h = [w EXCEPT !.hello = TRUE] \/ h = w
    BY <1>7, <1>11
  <2> HIDE DEF h
  <2>3. h \in RunRecs /\ \A f \in {"conn", "log", "first", "last", "gaps", "ended", "lost"} : h[f] = w[f]
    BY <1>4, <2>1 DEF RunRecs
  <2>4. Covers(h)
    BY <1>8, <1>11, <2>3 DEF Covers, Records
  <2> QED
    BY <1>4, <2>3, <2>4 DEF h
<1> QED
  BY <1>9, <1>10, <1>11

-----------------------------------------------------------------------------
\* An open session's run is its own and not finalized.
Sessions(v) ==
    \A c \in Conns : v.cur[c] # 0 =>
        /\ v.cur[c] \in DOMAIN v.runs /\ v.sess[c] = "open"
        /\ v.runs[v.cur[c]].conn = c /\ ~v.runs[v.cur[c]].ended

\* The log of run r is on the disk d.
On(d, r) == \E k \in DOMAIN d : d[k] = r

\* Logs of d of runs that exist, each once.
Logs(d, runs_) ==
    /\ \A k \in DOMAIN d : d[k] \in DOMAIN runs_
    /\ \A k, l \in DOMAIN d : d[k] = d[l] => k = l

\* Logs and manifests go in pairs, and an open run has its log, unless it was
\* pruned while it was open.
Paired(v) ==
    /\ Logs(v.disk, v.runs)
    /\ \A r \in v.manifests : r \in DOMAIN v.runs /\ v.runs[r].ended
    /\ \A r \in DOMAIN v.runs : ~v.runs[r].lost =>
         /\ v.runs[r].ended => (r \in v.manifests <=> On(v.disk, r))
         /\ ~v.runs[r].ended => On(v.disk, r)
    /\ v.latest \in 0 .. Len(v.runs)

\* A stream connection has one run, its session's until that is closed; a
\* datagram is a line of its own.
Bounded(v) ==
    /\ mode = "udp" => Len(v.runs) <= MaxRuns /\ \A c \in Conns : v.buf[c] = <<>>
    /\ mode # "udp" =>
         /\ \A i \in DOMAIN v.runs : v.cur[v.runs[i].conn] = i \/ v.sess[v.runs[i].conn] = "closed"
         /\ \A i, j \in DOMAIN v.runs : v.runs[i].conn = v.runs[j].conn => i = j

\* The server's invariant: types, sessions and their runs, pairs, the bound on
\* runs, and the gaps of every run.
Sound(v) ==
    /\ v \in Stores
    /\ Sessions(v) /\ Paired(v) /\ Bounded(v)
    /\ \A i \in DOMAIN v.runs : Covers(v.runs[i])

\* A log that is written again becomes the newest and stays one of the logs.
LEMMA TouchKeeps ==
  ASSUME NEW d \in Seq(Nat), NEW r \in ToSet(d), NEW runs_, Logs(d, runs_)
  PROVE  /\ Append(RemoveFirst(d, r), r) \in Seq(Nat) /\ Logs(Append(RemoveFirst(d, r), r), runs_)
         /\ \A x : On(Append(RemoveFirst(d, r), r), x) <=> On(d, x)
<1>1. PICK n \in Nat : n = Len(d) /\ DOMAIN d = 1 .. n /\ \A i \in 1 .. n : d[i] \in Nat
  BY LenProperties, ElementOfSeq
<1>2. PICK k \in 1 .. n : d[k] = r
  BY <1>1 DEF ToSet
<1>3. SelectInSeq(d, LAMBDA v : v = r) = k
  <2>1. {i \in 1 .. n : d[i] = r} = {k}
    BY <1>1, <1>2 DEF Logs
  <2>2. Min({k}) = k
    BY <1>1 DEF Min
  <2> QED
    BY <1>1, <2>1, <2>2 DEF SelectInSeq
<1> DEFINE a == SubSeq(d, 1, k - 1)
           b == SubSeq(d, k + 1, n)
           t == Append(a \o b, r)
<1>4. Append(RemoveFirst(d, r), r) = t
  BY <1>1, <1>2, <1>3 DEF RemoveFirst, RemoveAt
<1>5. a \in Seq(Nat) /\ Len(a) = k - 1 /\ \A i \in 1 .. k - 1 : a[i] = d[i]
  <2>1. \A i \in 1 .. k - 1 : d[i] \in Nat
    BY <1>1
  <2>2. k - 1 \in Int /\ k - 1 >= 0
    BY <1>1
  <2>3. /\ a \in Seq(Nat) /\ Len(a) = IF 1 <= k - 1 THEN (k - 1) - 1 + 1 ELSE 0
        /\ \A i \in 1 .. (k - 1) - 1 + 1 : a[i] = d[1 + i - 1]
    BY <2>1, <2>2, SubSeqProperties
  <2> HIDE DEF a
  <2> QED
    BY <1>1, <2>2, <2>3
<1>6. b \in Seq(Nat) /\ Len(b) = n - k /\ \A i \in 1 .. n - k : b[i] = d[k + i]
  <2>1. \A i \in k + 1 .. n : d[i] \in Nat
    BY <1>1
  <2>2. k + 1 \in Int /\ n \in Int /\ n - k >= 0
    BY <1>1
  <2>3. /\ b \in Seq(Nat) /\ Len(b) = IF k + 1 <= n THEN n - (k + 1) + 1 ELSE 0
        /\ \A i \in 1 .. n - (k + 1) + 1 : b[i] = d[(k + 1) + i - 1]
    BY <2>1, <2>2, SubSeqProperties
  <2> HIDE DEF b
  <2>4. Len(b) = n - k
    BY <1>1, <2>2, <2>3
  <2>5. ASSUME NEW i \in 1 .. n - k PROVE b[i] = d[k + i]
    <3>1. i \in 1 .. n - (k + 1) + 1 /\ (k + 1) + i - 1 = k + i
      BY <1>1
    <3>2. b[i] = d[(k + 1) + i - 1]
      BY <2>3, <3>1
    <3> QED
      BY <3>1, <3>2
  <2> QED
    BY <2>3, <2>4, <2>5
<1> DEFINE j == a \o b
<1> HIDE DEF a, b
<1>7. /\ j \in Seq(Nat) /\ Len(j) = Len(a) + Len(b)
      /\ \A i \in 1 .. Len(a) + Len(b) : j[i] = IF i <= Len(a) THEN a[i] ELSE b[i - Len(a)]
  BY <1>5, <1>6, ConcatProperties
<1> HIDE DEF j
<1>8. Len(j) = n - 1 /\ \A i \in 1 .. n - 1 : j[i] = IF i < k THEN d[i] ELSE d[i + 1]
  <2>1. Len(j) = n - 1
    BY <1>1, <1>5, <1>6, <1>7
  <2>2. ASSUME NEW i \in 1 .. n - 1, i < k PROVE j[i] = d[i]
    <3>1. i \in 1 .. k - 1 /\ i <= Len(a) /\ i \in 1 .. Len(a) + Len(b)
      BY <1>1, <1>5, <1>6, <2>2
    <3>2. j[i] = a[i] /\ a[i] = d[i]
      BY <1>5, <1>7, <3>1
    <3> QED
      BY <3>2
  <2>3. ASSUME NEW i \in 1 .. n - 1, ~(i < k) PROVE j[i] = d[i + 1]
    <3>1. i - Len(a) \in 1 .. n - k /\ k + (i - Len(a)) = i + 1 /\ ~(i <= Len(a)) /\ i \in 1 .. Len(a) + Len(b)
      BY <1>1, <1>5, <1>6, <2>3
    <3>2. j[i] = b[i - Len(a)] /\ b[i - Len(a)] = d[k + (i - Len(a))]
      BY <1>6, <1>7, <3>1
    <3> QED
      BY <3>1, <3>2
  <2> QED
    BY <1>1, <2>1, <2>2, <2>3
<1>9. r \in Nat
  BY <1>1, <1>2
<1>10. /\ t \in Seq(Nat) /\ Len(t) = Len(j) + 1
       /\ \A i \in 1 .. Len(j) : t[i] = j[i]
       /\ t[Len(j) + 1] = r
  BY <1>7, <1>9, AppendProperties DEF j
<1> HIDE DEF t
<1>11. Len(t) = n /\ DOMAIN t = DOMAIN d
  BY <1>1, <1>8, <1>10, LenProperties
\* Where the log at each place of t was in d.
<1>12. PICK from : from = [i \in 1 .. n |-> IF i = n THEN k ELSE IF i < k THEN i ELSE i + 1]
  OBVIOUS
<1>13. /\ from[n] = k
       /\ \A i \in 1 .. n : i # n /\ i < k => from[i] = i
       /\ \A i \in 1 .. n : i # n /\ ~(i < k) => from[i] = i + 1
  <2>1. n \in 1 .. n
    BY <1>1
  <2> QED
    BY <1>12, <2>1
<1>14. ASSUME NEW i \in 1 .. n PROVE from[i] \in 1 .. n /\ t[i] = d[from[i]]
  <2>1. CASE i = n
    BY <1>1, <1>2, <1>8, <1>10, <1>13, <2>1
  <2>2. CASE i # n
    <3>1. i \in 1 .. n - 1
      BY <1>1, <2>2
    <3>2. t[i] = IF i < k THEN d[i] ELSE d[i + 1]
      BY <1>8, <1>10, <3>1
    <3>3. i + 1 \in 1 .. n
      BY <1>1, <3>1
    <3> QED
      BY <1>13, <2>2, <3>2, <3>3
  <2> QED
    BY <2>1, <2>2
<1>15. ASSUME NEW i \in 1 .. n, NEW l \in 1 .. n, from[i] = from[l] PROVE i = l
  <2>1. i \in Nat /\ l \in Nat /\ i <= n /\ l <= n /\ k \in Nat /\ n \in Nat
    BY <1>1
  <2>2. from[i] = IF i = n THEN k ELSE IF i < k THEN i ELSE i + 1
    BY <1>13
  <2>3. from[l] = IF l = n THEN k ELSE IF l < k THEN l ELSE l + 1
    BY <1>13
  <2>4. from[i] \in Nat
    BY <1>14
  <2>5. PICK x \in Nat : x = from[i] /\ x = from[l]
    BY <1>15, <2>4
  <2>6. x = IF i = n THEN k ELSE IF i < k THEN i ELSE i + 1
    BY <2>2, <2>5
  <2>7. x = IF l = n THEN k ELSE IF l < k THEN l ELSE l + 1
    BY <2>3, <2>5
  <2> QED
    BY <2>1, <2>6, <2>7
<1>16. \A l \in 1 .. n : \E i \in 1 .. n : from[i] = l
  <2> SUFFICES ASSUME NEW l \in 1 .. n PROVE \E i \in 1 .. n : from[i] = l
    OBVIOUS
  <2>1. CASE l = k
    <3>1. from[n] = l /\ n \in 1 .. n
      BY <1>1, <1>13, <2>1
    <3> QED
      BY <3>1
  <2>2. CASE l < k
    <3>1. l # n
      BY <1>1, <2>2
    <3>2. from[l] = l
      BY <1>13, <2>2, <3>1
    <3> QED
      BY <3>2
  <2>3. CASE l > k
    <3>1. l - 1 \in 1 .. n /\ l - 1 # n /\ ~(l - 1 < k) /\ (l - 1) + 1 = l
      BY <1>1, <2>3
    <3>2. from[l - 1] = l
      BY <1>13, <3>1
    <3> QED
      BY <3>1, <3>2
  <2>4. l = k \/ l < k \/ l > k
    BY <1>1
  <2> QED
    BY <2>1, <2>2, <2>3, <2>4
<1>17. Logs(t, runs_)
  <2>1. DOMAIN t = 1 .. n
    BY <1>1, <1>11
  <2>2. /\ \A i \in 1 .. n : d[i] \in DOMAIN runs_
        /\ \A i, l \in 1 .. n : d[i] = d[l] => i = l
    BY <1>1 DEF Logs
  <2>3. \A i \in 1 .. n : t[i] \in DOMAIN runs_
    BY <1>14, <2>2
  <2>4. ASSUME NEW i \in 1 .. n, NEW l \in 1 .. n, t[i] = t[l] PROVE i = l
    <3>1. from[i] = from[l]
      BY <1>14, <2>2, <2>4
    <3> QED
      BY <1>15, <3>1
  <2> QED
    BY <2>1, <2>3, <2>4 DEF Logs
<1>18. ASSUME NEW x PROVE On(t, x) <=> On(d, x)
  <2>1. DOMAIN t = 1 .. n /\ DOMAIN d = 1 .. n
    BY <1>1, <1>11
  <2>2. ASSUME NEW i \in 1 .. n, t[i] = x PROVE On(d, x)
    BY <1>14, <2>1, <2>2 DEF On
  <2>3. ASSUME NEW l \in 1 .. n, d[l] = x PROVE On(t, x)
    <3>1. PICK i \in 1 .. n : from[i] = l
      BY <1>16
    <3> QED
      BY <1>14, <2>1, <2>3, <3>1 DEF On
  <2> QED
    BY <2>1, <2>2, <2>3 DEF On
<1> QED
  BY <1>4, <1>10, <1>17, <1>18

\* In e the session of c has a run, a new one if it had none in v.
Opens(v, e, c) ==
    /\ DOMAIN v.runs \subseteq DOMAIN e.runs
    /\ \A i \in DOMAIN v.runs : e.runs[i] = v.runs[i]
    /\ \A i \in DOMAIN e.runs \ DOMAIN v.runs : e.runs[i] = NewRun(c) /\ e.cur[c] = i /\ v.cur[c] = 0

\* RunStore.open_run
LEMMA EnsureSound ==
  ASSUME limit \in Limits, NEW v, Sound(v), NEW c \in Conns, v.sess[c] = "open",
         mode = "udp" /\ v.cur[c] = 0 => Len(v.runs) < MaxRuns
  PROVE  /\ Sound(Ensured(v, c)) /\ Ensured(v, c).cur[c] # 0
         /\ Ensured(v, c).sess = v.sess /\ Ensured(v, c).buf = v.buf /\ Opens(v, Ensured(v, c), c)
<1> DEFINE e == Ensured(v, c)
           n == Len(v.runs) + 1
           new == NewRun(c)
<1>1. CASE v.cur[c] # 0
  BY <1>1 DEF Ensured, Opens
<1>2. CASE v.cur[c] = 0
  <2> DEFINE R == Append(v.runs, new)
             D == Append(v.disk, n)
             U == [v.cur EXCEPT ![c] = n]
  <2>1. e = [v EXCEPT !.runs = R, !.cur = U, !.disk = D]
    BY <1>2 DEF Ensured, Sound, Stores
  <2>2. /\ v.runs \in Seq(RunRecs) /\ v.disk \in Seq(Nat) /\ v.cur \in [Conns -> Nat]
        /\ v.sess \in [Conns -> {"none", "open", "closed"}] /\ v.manifests \in SUBSET Nat
    BY DEF Sound, Stores
  <2>3. new \in RunRecs /\ new.conn = c /\ ~new.ended /\ ~new.lost /\ Covers(new)
    <3>1. MaxSeq \in Nat
      BY Bounds
    <3>2. new = [conn |-> c, log |-> <<>>, hello |-> FALSE, first |-> 0, last |-> 0,
                 gaps |-> {}, bye |-> -1, ended |-> FALSE, lost |-> FALSE]
      BY DEF NewRun
    <3>3. new \in RunRecs
      <4>1. 0 \in 0 .. MaxSeq /\ -1 \in -1 .. MaxSeq /\ <<>> \in Seq(Seq(Toks))
        BY <3>1
      <4> QED
        BY <3>2, <4>1 DEF RunRecs
    <3>4. Records(new) = {}
      <4>1. new.log = <<>>
        BY <3>2
      <4>2. ToSet(new.log) = {}
        BY <4>1 DEF ToSet
      <4> QED
        BY <4>2 DEF Records
    <3>5. new.conn = c /\ ~new.ended /\ ~new.lost /\ new.first = 0
      BY <3>2
    <3> HIDE DEF new
    <3>6. Covers(new)
      BY <3>4, <3>5 DEF Covers
    <3> QED
      BY <3>3, <3>5, <3>6
  <2> HIDE DEF new
  <2>4. Len(v.runs) \in Nat /\ DOMAIN v.runs = 1 .. Len(v.runs) /\ Len(v.disk) \in Nat
        /\ DOMAIN v.disk = 1 .. Len(v.disk)
    BY <2>2, LenProperties
  <2>5. /\ R \in Seq(RunRecs) /\ Len(R) = n /\ R[n] = new
        /\ \A i \in 1 .. Len(v.runs) : R[i] = v.runs[i]
    BY <2>2, <2>3, AppendProperties
  <2>6. n \in Nat /\ n # 0
    BY <2>4
  <2>7. /\ D \in Seq(Nat) /\ Len(D) = Len(v.disk) + 1 /\ D[Len(v.disk) + 1] = n
        /\ \A i \in 1 .. Len(v.disk) : D[i] = v.disk[i]
    BY <2>2, <2>6, AppendProperties
  <2> HIDE DEF R, D
  <2>8. DOMAIN R = 1 .. n /\ DOMAIN D = 1 .. Len(v.disk) + 1
    BY <2>5, <2>7, LenProperties
  <2>9. U \in [Conns -> Nat] /\ U[c] = n /\ \A b \in Conns : b # c => U[b] = v.cur[b]
    BY <2>2, <2>6
  <2> HIDE DEF U, e
  <2>10. /\ e.runs = R /\ e.cur = U /\ e.disk = D /\ e.sess = v.sess /\ e.buf = v.buf
         /\ e.manifests = v.manifests /\ e.latest = v.latest /\ e \in Stores
    BY <2>1, <2>5, <2>7, <2>9 DEF Sound, Stores
  <2>11. Sessions(e)
    <3> SUFFICES ASSUME NEW b \in Conns, U[b] # 0
                 PROVE  U[b] \in DOMAIN R /\ v.sess[b] = "open" /\ R[U[b]].conn = b /\ ~R[U[b]].ended
      BY <2>10 DEF Sessions
    <3>1. CASE b = c
      BY <2>3, <2>4, <2>5, <2>8, <2>9, <3>1
    <3>2. CASE b # c
      <4>1. U[b] \in DOMAIN v.runs /\ v.sess[b] = "open" /\ v.runs[U[b]].conn = b /\ ~v.runs[U[b]].ended
        BY <2>9, <3>2 DEF Sound, Sessions
      <4> QED
        BY <2>4, <2>5, <2>8, <4>1
    <3> QED
      BY <3>1, <3>2
  <2>12. Paired(e)
    <3>1. Logs(D, R)
      <4>1. /\ \A k \in 1 .. Len(v.disk) : v.disk[k] \in 1 .. Len(v.runs)
            /\ \A k, l \in 1 .. Len(v.disk) : v.disk[k] = v.disk[l] => k = l
        BY <2>4 DEF Sound, Paired, Logs
      <4>2. \A k \in 1 .. Len(v.disk) + 1 : k \in 1 .. Len(v.disk) \/ k = Len(v.disk) + 1
        BY <2>4
      <4>7. \A x \in 1 .. Len(v.runs) : x \in 1 .. n /\ x # n
        BY <2>4
      <4>3. \A k \in 1 .. Len(v.disk) : D[k] \in 1 .. n /\ D[k] # n
        BY <2>7, <4>1, <4>7
      <4>4. n \in 1 .. n
        BY <2>6
      <4>5. \A k \in 1 .. Len(v.disk) + 1 : D[k] \in 1 .. n
        BY <2>7, <4>2, <4>3, <4>4
      <4>6. \A k, l \in 1 .. Len(v.disk) + 1 : D[k] = D[l] => k = l
        BY <2>7, <4>1, <4>2, <4>3
      <4> QED
        BY <2>8, <4>5, <4>6 DEF Logs
    <3>2. \A x : On(D, x) <=> (On(v.disk, x) \/ x = n)
      <4>1. \A k \in 1 .. Len(v.disk) + 1 : k \in 1 .. Len(v.disk) \/ k = Len(v.disk) + 1
        BY <2>4
      <4>2. \A k \in 1 .. Len(v.disk) : k \in 1 .. Len(v.disk) + 1
        BY <2>4
      <4>3. Len(v.disk) + 1 \in 1 .. Len(v.disk) + 1
        BY <2>4
      <4> QED
        BY <2>4, <2>7, <2>8, <4>1, <4>2, <4>3 DEF On
    <3>3. \A r \in v.manifests : r \in DOMAIN R /\ R[r].ended
      BY <2>4, <2>5, <2>8 DEF Sound, Paired
    <3>4. ASSUME NEW r \in DOMAIN R, ~R[r].lost
          PROVE  (R[r].ended => (r \in v.manifests <=> On(D, r))) /\ (~R[r].ended => On(D, r))
      <4>1. CASE r = n
        BY <2>3, <2>5, <3>2, <4>1
      <4>2. CASE r # n
        <5>1. r \in DOMAIN v.runs /\ R[r] = v.runs[r]
          BY <2>4, <2>5, <2>8, <4>2
        <5> QED
          BY <3>2, <3>4, <4>2, <5>1 DEF Sound, Paired
      <4> QED
        BY <4>1, <4>2
    <3>5. v.latest \in 0 .. Len(R)
      BY <2>4, <2>5 DEF Sound, Paired
    <3> QED
      BY <2>10, <3>1, <3>3, <3>4, <3>5 DEF Paired
  <2>13. Bounded(e)
    <3>1. CASE mode = "udp"
      <4>1. Len(R) <= MaxRuns
        BY <1>2, <2>4, <2>5, <3>1, ServerAssumption
      <4> QED
        BY <2>10, <3>1, <4>1 DEF Bounded, Sound
    <3>2. CASE mode # "udp"
      <4>1. \A i \in DOMAIN v.runs : v.cur[v.runs[i].conn] = i \/ v.sess[v.runs[i].conn] = "closed"
        BY <3>2 DEF Sound, Bounded
      <4>2. \A i, j \in DOMAIN v.runs : v.runs[i].conn = v.runs[j].conn => i = j
        BY <3>2 DEF Sound, Bounded
      <4>3. \A i \in DOMAIN v.runs : v.runs[i].conn # c
        BY <1>2, <2>4, <4>1
      <4>4. \A i \in DOMAIN v.runs : v.runs[i].conn \in Conns
        <5>1. \A i \in DOMAIN v.runs : v.runs[i] \in RunRecs
          BY <2>2, <2>4, ElementOfSeq
        <5> QED
          BY <5>1 DEF RunRecs
      <4>5. \A i \in DOMAIN R : i = n \/ i \in DOMAIN v.runs
        BY <2>4, <2>8
      <4>6. \A i \in DOMAIN v.runs : R[i] = v.runs[i]
        BY <2>4, <2>5
      <4>7. \A i \in DOMAIN R : U[R[i].conn] = i \/ v.sess[R[i].conn] = "closed"
        <5> SUFFICES ASSUME NEW i \in DOMAIN R PROVE U[R[i].conn] = i \/ v.sess[R[i].conn] = "closed"
          OBVIOUS
        <5>1. CASE i = n
          BY <2>3, <2>5, <2>9, <5>1
        <5>2. CASE i # n
          <6>1. i \in DOMAIN v.runs /\ R[i] = v.runs[i]
            BY <4>5, <4>6, <5>2
          <6>2. U[v.runs[i].conn] = v.cur[v.runs[i].conn]
            BY <2>9, <4>3, <4>4, <6>1
          <6> QED
            BY <4>1, <6>1, <6>2
        <5> QED
          BY <5>1, <5>2
      <4>8. \A i, j \in DOMAIN R : R[i].conn = R[j].conn => i = j
        BY <2>3, <2>5, <4>2, <4>3, <4>5, <4>6
      <4> QED
        BY <2>10, <3>2, <4>7, <4>8 DEF Bounded
    <3> QED
      BY <3>1, <3>2
  <2>14. \A i \in DOMAIN R : Covers(R[i])
    <3>1. \A i \in DOMAIN R : i = n \/ (i \in DOMAIN v.runs /\ R[i] = v.runs[i])
      BY <2>4, <2>5, <2>8
    <3>2. \A i \in DOMAIN v.runs : Covers(v.runs[i])
      BY DEF Sound
    <3> QED
      BY <2>3, <2>5, <3>1, <3>2
  <2>15. Opens(v, e, c)
    <3>1. \A i \in DOMAIN R \ DOMAIN v.runs : i = n
      BY <2>4, <2>8
    <3>2. \A i \in DOMAIN v.runs : i \in DOMAIN R /\ R[i] = v.runs[i]
      BY <2>4, <2>5, <2>8
    <3> QED
      BY <1>2, <2>5, <2>9, <2>10, <3>1, <3>2 DEF Opens, new
  <2> QED
    BY <2>6, <2>9, <2>10, <2>11, <2>12, <2>13, <2>14, <2>15 DEF Sound, e
<1> QED
  BY <1>1, <1>2

\* In w the line has been added to the run of c's session, a new one if it had
\* none in v, and no other.
Adds(v, w, c, line) ==
    /\ \A b \in Conns : b # c => w.buf[b] = v.buf[b]
    /\ DOMAIN v.runs \subseteq DOMAIN w.runs
    /\ \E r \in DOMAIN w.runs :
         /\ \A i \in DOMAIN w.runs \ {r} : i \in DOMAIN v.runs /\ w.runs[i] = v.runs[i]
         /\ r \in DOMAIN v.runs => v.runs[r].conn = c /\ w.runs[r] = Handled(v.runs[r], line)
         /\ r \notin DOMAIN v.runs => v.cur[c] = 0 /\ w.runs[r] = Handled(NewRun(c), line)

\* Session._handle_line: the line goes to the session's run.
LEMMA LineSound ==
  ASSUME limit \in Limits, NEW v, Sound(v), NEW c \in Conns, v.sess[c] = "open",
         NEW line \in Seq(Toks), mode = "udp" /\ v.cur[c] = 0 => Len(v.runs) < MaxRuns
  PROVE  /\ Sound(Lined(v, c, line)) /\ Lined(v, c, line).cur[c] # 0
         /\ Lined(v, c, line).sess = v.sess /\ Lined(v, c, line).buf[c] = <<>>
         /\ Adds(v, Lined(v, c, line), c, line)
<1> DEFINE e == Ensured(v, c)
           r == e.cur[c]
           h == Handled(e.runs[r], line)
           R == [e.runs EXCEPT ![r] = h]
           B == [e.buf EXCEPT ![c] = <<>>]
           D == IF r \in ToSet(e.disk) THEN Append(RemoveFirst(e.disk, r), r) ELSE e.disk
           w == Lined(v, c, line)
<1>1. Sound(e) /\ r # 0 /\ e.sess = v.sess /\ e.buf = v.buf /\ Opens(v, e, c)
  BY EnsureSound
<1>2. w = [e EXCEPT !.runs[r] = Handled(@, line), !.buf[c] = <<>>,
                    !.disk = IF r \in ToSet(@) THEN Append(RemoveFirst(@, r), r) ELSE @]
  BY DEF Lined
<1> HIDE DEF e, w
<1>3. /\ e \in Stores /\ e.runs \in Seq(RunRecs) /\ e.disk \in Seq(Nat) /\ e.buf \in [Conns -> Seq(Toks)]
      /\ e.cur \in [Conns -> Nat]
  BY <1>1 DEF Sound, Stores
<1>4. w = [e EXCEPT !.runs = R, !.buf = B, !.disk = D]
  BY <1>2, <1>3 DEF Stores
<1>5. /\ r \in DOMAIN e.runs /\ e.sess[c] = "open" /\ e.runs[r].conn = c /\ ~e.runs[r].ended
      /\ DOMAIN e.runs = 1 .. Len(e.runs) /\ Len(e.runs) \in Nat
  BY <1>1, <1>3, LenProperties DEF Sound, Sessions
<1>6. e.runs[r] \in RunRecs /\ Covers(e.runs[r])
  BY <1>1, <1>3, <1>5, ElementOfSeq DEF Sound
<1>7. /\ h \in RunRecs /\ Covers(h) /\ h.conn = e.runs[r].conn /\ h.ended = e.runs[r].ended
      /\ h.lost = e.runs[r].lost
  BY <1>6, HandledSound
<1> HIDE DEF r, h
<1>8. R \in Seq(RunRecs) /\ Len(R) = Len(e.runs) /\ \A i \in 1 .. Len(e.runs) : R[i] = IF i = r THEN h ELSE e.runs[i]
  BY <1>3, <1>5, <1>7, ExceptSeq
<1>9. DOMAIN R = DOMAIN e.runs
  OBVIOUS
<1> HIDE DEF R
<1>10. \A i \in DOMAIN R : R[i].conn = e.runs[i].conn /\ R[i].ended = e.runs[i].ended /\ R[i].lost = e.runs[i].lost
  BY <1>5, <1>7, <1>8, <1>9
<1>11. /\ D \in Seq(Nat) /\ Logs(D, e.runs) /\ \A x : On(D, x) <=> On(e.disk, x)
  <2>1. Logs(e.disk, e.runs)
    BY <1>1 DEF Sound, Paired
  <2>2. CASE r \in ToSet(e.disk)
    BY <1>3, <2>1, <2>2, TouchKeeps
  <2>3. CASE r \notin ToSet(e.disk)
    BY <1>3, <2>1, <2>3
  <2> QED
    BY <2>2, <2>3
<1>12. /\ B \in [Conns -> Seq(Toks)] /\ B[c] = <<>> /\ \A b \in Conns : e.buf[b] = <<>> => B[b] = <<>>
       /\ \A b \in Conns : b # c => B[b] = e.buf[b]
  <2>1. <<>> \in Seq(Toks)
    OBVIOUS
  <2> QED
    BY <1>3, <2>1
<1> HIDE DEF B, D
<1>13. /\ w \in Stores /\ w.runs = R /\ w.buf = B /\ w.disk = D /\ w.cur = e.cur /\ w.sess = e.sess
       /\ w.manifests = e.manifests /\ w.latest = e.latest
  BY <1>3, <1>4, <1>8, <1>11, <1>12 DEF Stores
<1>14. Sessions(w)
  <2> SUFFICES ASSUME NEW b \in Conns, e.cur[b] # 0
               PROVE  e.cur[b] \in DOMAIN R /\ e.sess[b] = "open" /\ R[e.cur[b]].conn = b /\ ~R[e.cur[b]].ended
    BY <1>13 DEF Sessions
  <2> QED
    BY <1>1, <1>9, <1>10 DEF Sound, Sessions
<1>15. Paired(w)
  <2>1. Logs(D, R)
    BY <1>9, <1>11 DEF Logs
  <2>2. \A i \in e.manifests : i \in DOMAIN R /\ R[i].ended
    BY <1>1, <1>9, <1>10 DEF Sound, Paired
  <2>3. \A i \in DOMAIN R : ~R[i].lost =>
          (R[i].ended => (i \in e.manifests <=> On(D, i))) /\ (~R[i].ended => On(D, i))
    BY <1>1, <1>9, <1>10, <1>11 DEF Sound, Paired
  <2>4. e.latest \in 0 .. Len(R)
    BY <1>1, <1>8 DEF Sound, Paired
  <2> QED
    BY <1>13, <2>1, <2>2, <2>3, <2>4 DEF Paired
<1>16. Bounded(w)
  <2>1. mode = "udp" => Len(R) <= MaxRuns /\ \A b \in Conns : B[b] = <<>>
    BY <1>1, <1>8, <1>12 DEF Sound, Bounded
  <2>2. mode # "udp" =>
         /\ \A i \in DOMAIN R : e.cur[R[i].conn] = i \/ e.sess[R[i].conn] = "closed"
         /\ \A i, j \in DOMAIN R : R[i].conn = R[j].conn => i = j
    BY <1>1, <1>9, <1>10 DEF Sound, Bounded
  <2> QED
    BY <1>13, <2>1, <2>2 DEF Bounded
<1>17. \A i \in DOMAIN R : Covers(R[i])
  <2>1. \A i \in DOMAIN e.runs : Covers(e.runs[i])
    BY <1>1 DEF Sound
  <2>2. \A i \in DOMAIN R : R[i] = h \/ R[i] = e.runs[i]
    BY <1>5, <1>8, <1>9
  <2> QED
    BY <1>7, <1>9, <2>1, <2>2
<1>18. w.cur[c] # 0
  BY <1>1, <1>13 DEF r
<1>19. Adds(v, w, c, line)
  <2>1. \A i \in DOMAIN R \ {r} : i \in DOMAIN v.runs /\ R[i] = v.runs[i]
    <3> SUFFICES ASSUME NEW i \in DOMAIN R, i # r PROVE i \in DOMAIN v.runs /\ R[i] = v.runs[i]
      OBVIOUS
    <3>1. i \in DOMAIN e.runs /\ R[i] = e.runs[i]
      BY <1>5, <1>8, <1>9
    <3>2. i \in DOMAIN v.runs
      BY <1>1, <3>1 DEF Opens, r
    <3> QED
      BY <1>1, <3>1, <3>2 DEF Opens
  <2>2. R[r] = Handled(e.runs[r], line)
    BY <1>5, <1>8 DEF h
  <2>3. r \in DOMAIN v.runs => v.runs[r].conn = c /\ R[r] = Handled(v.runs[r], line)
    BY <1>1, <1>5, <2>2 DEF Opens
  <2>4. r \notin DOMAIN v.runs => v.cur[c] = 0 /\ R[r] = Handled(NewRun(c), line)
    BY <1>1, <1>5, <2>2 DEF Opens
  <2>5. DOMAIN v.runs \subseteq DOMAIN R /\ r \in DOMAIN R
    BY <1>1, <1>5, <1>9 DEF Opens
  <2> QED
    BY <1>1, <1>12, <1>13, <2>1, <2>3, <2>4, <2>5 DEF Adds
<1> QED
  BY <1>1, <1>12, <1>13, <1>14, <1>15, <1>16, <1>17, <1>18, <1>19 DEF Sound, w

\* RunStore.prune: what is left of the logs is in order, and a log is left
\* exactly if it was there and is no victim.
LEMMA SuffixLogs ==
  ASSUME NEW d \in Seq(Nat), NEW runs_, Logs(d, runs_), NEW x \in Nat, x <= Len(d)
  PROVE  /\ SubSeq(d, x + 1, Len(d)) \in Seq(Nat) /\ Logs(SubSeq(d, x + 1, Len(d)), runs_)
         /\ \A r : On(SubSeq(d, x + 1, Len(d)), r) <=> (On(d, r) /\ r \notin ToSet(SubSeq(d, 1, x)))
<1> DEFINE s == SubSeq(d, x + 1, Len(d))
           a == SubSeq(d, 1, x)
<1>1. PICK n \in Nat : n = Len(d) /\ DOMAIN d = 1 .. n /\ \A i \in 1 .. n : d[i] \in Nat
  BY LenProperties, ElementOfSeq
<1>2. PICK m \in Nat : m = n - x
  <2>1. x <= n
    BY <1>1
  <2>2. n - x \in Nat
    BY <2>1
  <2> QED
    BY <2>2
<1>3. s \in Seq(Nat) /\ Len(s) = m /\ \A i \in 1 .. m : s[i] = d[x + i]
  <2>1. \A i \in x + 1 .. n : d[i] \in Nat
    BY <1>1
  <2>2. /\ s \in Seq(Nat) /\ Len(s) = IF x + 1 <= n THEN n - (x + 1) + 1 ELSE 0
        /\ \A i \in 1 .. n - (x + 1) + 1 : s[i] = d[(x + 1) + i - 1]
    BY <1>1, <2>1, SubSeqProperties
  <2> HIDE DEF s
  <2>3. Len(s) = m
    BY <1>1, <1>2, <2>2
  <2>4. ASSUME NEW i \in 1 .. m PROVE s[i] = d[x + i]
    <3>1. i \in 1 .. n - (x + 1) + 1 /\ (x + 1) + i - 1 = x + i
      BY <1>1, <1>2
    <3>2. s[i] = d[(x + 1) + i - 1]
      BY <2>2, <3>1
    <3> QED
      BY <3>1, <3>2
  <2> QED
    BY <2>2, <2>3, <2>4
<1>4. a \in Seq(Nat) /\ Len(a) = x /\ \A i \in 1 .. x : a[i] = d[i]
  <2>1. \A i \in 1 .. x : d[i] \in Nat
    BY <1>1
  <2>2. /\ a \in Seq(Nat) /\ Len(a) = IF 1 <= x THEN x - 1 + 1 ELSE 0
        /\ \A i \in 1 .. x - 1 + 1 : a[i] = d[1 + i - 1]
    BY <1>1, <2>1, SubSeqProperties
  <2> HIDE DEF a
  <2> QED
    BY <2>2
<1> HIDE DEF s, a
<1>5. DOMAIN s = 1 .. m /\ DOMAIN a = 1 .. x
  BY <1>3, <1>4, LenProperties
<1>6. \A i \in 1 .. m : x + i \in 1 .. n
  BY <1>1, <1>2
<1>7. /\ \A i \in 1 .. n : d[i] \in DOMAIN runs_
      /\ \A i, l \in 1 .. n : d[i] = d[l] => i = l
  BY <1>1 DEF Logs
<1>8. Logs(s, runs_)
  <2>1. \A i \in 1 .. m : s[i] \in DOMAIN runs_
    BY <1>3, <1>6, <1>7
  <2>2. ASSUME NEW i \in 1 .. m, NEW l \in 1 .. m, s[i] = s[l] PROVE i = l
    <3>1. x + i = x + l
      BY <1>3, <1>6, <1>7, <2>2
    <3> QED
      BY <3>1
  <2> QED
    BY <1>5, <2>1, <2>2 DEF Logs
<1>9. ASSUME NEW r PROVE On(s, r) <=> (On(d, r) /\ r \notin ToSet(a))
  <2>1. ASSUME NEW i \in 1 .. m, s[i] = r PROVE On(d, r) /\ r \notin ToSet(a)
    <3>1. d[x + i] = r /\ x + i \in 1 .. n
      BY <1>3, <1>6, <2>1
    <3>2. ASSUME NEW l \in 1 .. x, a[l] = r PROVE FALSE
      <4>1. l \in 1 .. n /\ l # x + i
        BY <1>1
      <4>2. d[l] = r
        BY <1>4, <3>2
      <4> QED
        BY <1>7, <3>1, <4>1, <4>2
    <3> QED
      BY <1>1, <1>5, <3>1, <3>2 DEF On, ToSet
  <2>2. ASSUME NEW l \in 1 .. n, d[l] = r, r \notin ToSet(a) PROVE On(s, r)
    <3>1. ~(l <= x)
      <4>1. ASSUME l <= x PROVE FALSE
        <5>1. l \in 1 .. x
          BY <4>1
        <5>2. a[l] = r
          BY <1>4, <2>2, <5>1
        <5> QED
          BY <1>5, <2>2, <5>1, <5>2 DEF ToSet
      <4> QED
        BY <4>1
    <3>2. l - x \in 1 .. m /\ x + (l - x) = l
      BY <1>1, <1>2, <3>1
    <3>3. s[l - x] = r
      BY <1>3, <2>2, <3>2
    <3> QED
      BY <1>5, <3>2, <3>3 DEF On
  <2> QED
    BY <1>1, <1>5, <2>1, <2>2 DEF On
<1> QED
  BY <1>3, <1>8, <1>9 DEF s, a

\* Two runs with the same log, of which the server says the same.
Alike(x, y) ==
    /\ x.conn = y.conn /\ x.log = y.log /\ x.hello = y.hello /\ x.bye = y.bye
    /\ x.first = y.first /\ x.last = y.last /\ x.gaps = y.gaps

\* So is every run of w and of v.
SameRuns(v, w) == DOMAIN w.runs = DOMAIN v.runs /\ \A i \in DOMAIN v.runs : Alike(w.runs[i], v.runs[i])

\* Run.finalize of a run no session has any more.
LEMMA FinalizeSound ==
  ASSUME limit \in Limits, NEW v, Sound(v), NEW r \in DOMAIN v.runs, ~v.runs[r].ended,
         \A c \in Conns : v.cur[c] # r
  PROVE  /\ Sound(Finalized(v, r)) /\ Finalized(v, r).sess = v.sess
         /\ Finalized(v, r).cur = v.cur /\ Finalized(v, r).buf = v.buf
         /\ SameRuns(v, Finalized(v, r))
<1> DEFINE R == [v.runs EXCEPT ![r].ended = TRUE]
           M == v.manifests \cup {r}
           u == [v EXCEPT !.runs = R, !.manifests = M, !.latest = r]
           x == IF Len(v.disk) > Keep THEN Len(v.disk) - Keep ELSE 0
           K == ToSet(SubSeq(v.disk, 1, x))
           D == SubSeq(v.disk, x + 1, Len(v.disk))
           Q == [i \in DOMAIN R |-> IF i \in K /\ ~R[i].ended THEN [R[i] EXCEPT !.lost = TRUE] ELSE R[i]]
           w == Finalized(v, r)
<1>1. /\ v \in Stores /\ v.runs \in Seq(RunRecs) /\ v.disk \in Seq(Nat) /\ v.manifests \in SUBSET Nat
      /\ v.cur \in [Conns -> Nat]
  BY DEF Sound, Stores
<1>2. [v EXCEPT !.runs[r].ended = TRUE, !.manifests = @ \cup {r}, !.latest = r] = u
  BY <1>1 DEF Stores
<1>3. u.runs = R /\ u.disk = v.disk /\ u.manifests = M /\ u.cur = v.cur /\ u.sess = v.sess /\ u.buf = v.buf
      /\ u.latest = r
  BY <1>1 DEF Stores
<1>4. w = [u EXCEPT !.disk = D, !.manifests = M \ K, !.runs = Q]
  <2>1. w = Pruned(u)
    BY <1>2 DEF Finalized
  <2>2. DOMAIN u = DOMAIN v /\ DOMAIN v = {"sess", "buf", "cur", "runs", "disk", "manifests", "latest"}
    BY <1>1 DEF Stores
  <2> HIDE DEF u
  <2>3. Pruned(u) = [u EXCEPT !.disk = SubSeq(u.disk, x + 1, Len(u.disk)), !.manifests = u.manifests \ K, !.runs = Q]
    BY <1>3, <2>2 DEF Pruned
  <2> QED
    BY <1>3, <2>1, <2>3
<1>5. Len(v.runs) \in Nat /\ DOMAIN v.runs = 1 .. Len(v.runs) /\ \A i \in DOMAIN v.runs : v.runs[i] \in RunRecs
  BY <1>1, LenProperties, ElementOfSeq
<1>6. \A i \in DOMAIN v.runs : R[i] = IF i = r THEN [v.runs[r] EXCEPT !.ended = TRUE] ELSE v.runs[i]
  BY <1>1
<1>7. DOMAIN R = DOMAIN v.runs
  OBVIOUS
<1> HIDE DEF R
<1>8. \A i \in DOMAIN v.runs :
        /\ R[i] \in RunRecs /\ R[i].conn = v.runs[i].conn /\ R[i].lost = v.runs[i].lost
        /\ R[i].ended = (i = r \/ v.runs[i].ended)
        /\ R[i].log = v.runs[i].log /\ R[i].first = v.runs[i].first /\ R[i].last = v.runs[i].last
        /\ R[i].gaps = v.runs[i].gaps /\ R[i].hello = v.runs[i].hello /\ R[i].bye = v.runs[i].bye
  <2> SUFFICES ASSUME NEW i \in DOMAIN v.runs
               PROVE  /\ R[i] \in RunRecs /\ R[i].conn = v.runs[i].conn /\ R[i].lost = v.runs[i].lost
                      /\ R[i].ended = (i = r \/ v.runs[i].ended)
                      /\ R[i].log = v.runs[i].log /\ R[i].first = v.runs[i].first /\ R[i].last = v.runs[i].last
                      /\ R[i].gaps = v.runs[i].gaps /\ R[i].hello = v.runs[i].hello /\ R[i].bye = v.runs[i].bye
    OBVIOUS
  <2>1. v.runs[i] \in RunRecs /\ v.runs[i].ended \in BOOLEAN
    BY <1>5 DEF RunRecs
  <2>2. CASE i = r
    <3>1. R[i] = [v.runs[i] EXCEPT !.ended = TRUE]
      BY <1>6, <2>2
    <3> QED
      BY <2>1, <2>2, <3>1 DEF RunRecs
  <2>3. CASE i # r
    BY <1>6, <2>1, <2>3
  <2> QED
    BY <2>2, <2>3
<1>9. x \in Nat /\ x <= Len(v.disk) /\ Len(v.disk) \in Nat
  BY <1>1, LenProperties, ServerAssumption
<1>10. /\ D \in Seq(Nat) /\ Logs(D, v.runs) /\ \A i : On(D, i) <=> (On(v.disk, i) /\ i \notin K)
  <2>1. Logs(v.disk, v.runs)
    BY DEF Sound, Paired
  <2> QED
    BY <1>1, <1>9, <2>1, SuffixLogs
<1> HIDE DEF x, K, D
<1>11. DOMAIN Q = DOMAIN v.runs /\ \A i \in DOMAIN v.runs :
         Q[i] = IF i \in K /\ ~R[i].ended THEN [R[i] EXCEPT !.lost = TRUE] ELSE R[i]
  BY <1>7
<1> HIDE DEF Q
<1>12. \A i \in DOMAIN v.runs :
        /\ Q[i] \in RunRecs /\ Q[i].conn = v.runs[i].conn
        /\ Q[i].ended = (i = r \/ v.runs[i].ended)
        /\ ~Q[i].lost => ~v.runs[i].lost /\ (i \in K => Q[i].ended)
        /\ Q[i].log = v.runs[i].log /\ Q[i].first = v.runs[i].first /\ Q[i].last = v.runs[i].last
        /\ Q[i].gaps = v.runs[i].gaps /\ Q[i].hello = v.runs[i].hello /\ Q[i].bye = v.runs[i].bye
  <2> SUFFICES ASSUME NEW i \in DOMAIN v.runs
               PROVE  /\ Q[i] \in RunRecs /\ Q[i].conn = v.runs[i].conn
                      /\ Q[i].ended = (i = r \/ v.runs[i].ended)
                      /\ ~Q[i].lost => ~v.runs[i].lost /\ (i \in K => Q[i].ended)
                      /\ Q[i].log = v.runs[i].log /\ Q[i].first = v.runs[i].first /\ Q[i].last = v.runs[i].last
                      /\ Q[i].gaps = v.runs[i].gaps /\ Q[i].hello = v.runs[i].hello /\ Q[i].bye = v.runs[i].bye
    OBVIOUS
  <2>1. R[i] \in RunRecs
    BY <1>8
  <2>2. CASE i \in K /\ ~R[i].ended
    <3>1. Q[i] = [R[i] EXCEPT !.lost = TRUE]
      BY <1>11, <2>2
    <3>2. Q[i] \in RunRecs /\ Q[i].lost /\ \A f \in {"conn", "log", "first", "last", "gaps", "ended", "hello", "bye"} : Q[i][f] = R[i][f]
      BY <2>1, <3>1 DEF RunRecs
    <3> QED
      BY <1>8, <3>2
  <2>3. CASE ~(i \in K /\ ~R[i].ended)
    <3>1. Q[i] = R[i]
      BY <1>11, <2>3
    <3> QED
      BY <1>8, <2>3, <3>1
  <2> QED
    BY <2>2, <2>3
<1>13. Q \in Seq(RunRecs) /\ Len(Q) = Len(v.runs)
  <2>1. Q \in [1 .. Len(v.runs) -> RunRecs]
    <3>1. DOMAIN Q = 1 .. Len(v.runs) /\ \A i \in 1 .. Len(v.runs) : Q[i] \in RunRecs
      BY <1>5, <1>11, <1>12
    <3>2. Q = [i \in DOMAIN Q |-> Q[i]]
      BY <1>11 DEF Q
    <3> QED
      BY <3>1, <3>2
  <2>2. Q \in Seq(RunRecs)
    BY <1>5, <2>1, SeqDef
  <2> QED
    BY <1>5, <1>11, <2>2, LenProperties
<1>14. r \in Nat
  BY <1>5
<1>15. /\ w \in Stores /\ w.runs = Q /\ w.disk = D /\ w.manifests = M \ K /\ w.latest = r
       /\ w.sess = v.sess /\ w.cur = v.cur /\ w.buf = v.buf
  <2>1. M \ K \in SUBSET Nat
    BY <1>1, <1>14
  <2>2. u \in Stores
    <3>1. R \in Seq(RunRecs)
      <4>1. R \in [1 .. Len(v.runs) -> RunRecs]
        <5>1. R = [i \in DOMAIN v.runs |-> R[i]]
          BY <1>1 DEF R
        <5> QED
          BY <1>5, <1>8, <5>1
      <4> QED
        BY <1>5, <4>1, SeqDef
    <3> QED
      BY <1>1, <1>14, <3>1 DEF Stores
  <2> HIDE DEF u, M, w
  <2> QED
    BY <1>3, <1>4, <1>10, <1>13, <2>1, <2>2 DEF Stores
<1>16. Sessions(w)
  <2> SUFFICES ASSUME NEW b \in Conns, v.cur[b] # 0
               PROVE  v.cur[b] \in DOMAIN Q /\ v.sess[b] = "open" /\ Q[v.cur[b]].conn = b /\ ~Q[v.cur[b]].ended
    BY <1>15 DEF Sessions
  <2>1. /\ v.cur[b] \in DOMAIN v.runs /\ v.sess[b] = "open" /\ v.runs[v.cur[b]].conn = b
        /\ ~v.runs[v.cur[b]].ended /\ v.cur[b] # r
    BY DEF Sound, Sessions
  <2> QED
    BY <1>11, <1>12, <2>1
<1>17. Paired(w)
  <2>1. Logs(D, Q)
    BY <1>10, <1>11 DEF Logs
  <2>2. \A i \in M \ K : i \in DOMAIN Q /\ Q[i].ended
    BY <1>11, <1>12 DEF Sound, Paired
  <2>3. ASSUME NEW i \in DOMAIN Q, ~Q[i].lost
        PROVE  (Q[i].ended => (i \in M \ K <=> On(D, i))) /\ (~Q[i].ended => On(D, i))
    <3>1. i \in DOMAIN v.runs /\ ~v.runs[i].lost
      BY <1>11, <1>12, <2>3
    <3>2. /\ v.runs[i].ended => (i \in v.manifests <=> On(v.disk, i))
          /\ ~v.runs[i].ended => On(v.disk, i)
      BY <3>1 DEF Sound, Paired
    <3>3. Q[i].ended = (i = r \/ v.runs[i].ended)
      BY <1>12, <3>1
    <3>4. i \in K => Q[i].ended
      BY <1>12, <2>3, <3>1
    <3>5. On(D, i) <=> (On(v.disk, i) /\ i \notin K)
      BY <1>10
    <3> QED
      BY <3>2, <3>3, <3>4, <3>5
  <2>4. r \in 0 .. Len(Q)
    BY <1>5, <1>13
  <2> QED
    BY <1>15, <2>1, <2>2, <2>3, <2>4 DEF Paired
<1>18. Bounded(w)
  <2>1. mode = "udp" => Len(Q) <= MaxRuns /\ \A b \in Conns : v.buf[b] = <<>>
    BY <1>13 DEF Sound, Bounded
  <2>2. mode # "udp" =>
         /\ \A i \in DOMAIN Q : v.cur[Q[i].conn] = i \/ v.sess[Q[i].conn] = "closed"
         /\ \A i, j \in DOMAIN Q : Q[i].conn = Q[j].conn => i = j
    BY <1>11, <1>12 DEF Sound, Bounded
  <2> QED
    BY <1>15, <2>1, <2>2 DEF Bounded
<1>19. \A i \in DOMAIN Q : Covers(Q[i])
  <2> SUFFICES ASSUME NEW i \in DOMAIN v.runs PROVE Covers(Q[i])
    BY <1>11
  <2>1. Covers(v.runs[i])
    BY DEF Sound
  <2>2. Q[i].log = v.runs[i].log /\ Q[i].first = v.runs[i].first /\ Q[i].last = v.runs[i].last
        /\ Q[i].gaps = v.runs[i].gaps
    BY <1>12
  <2> QED
    BY <2>1, <2>2 DEF Covers, Records
<1>20. SameRuns(v, w)
  BY <1>11, <1>12, <1>15 DEF SameRuns, Alike
<1> QED
  BY <1>15, <1>16, <1>17, <1>18, <1>19, <1>20 DEF Sound

\* In w the rest of a line, if there was one in v, has become a line of its run.
Flushes(v, w, c) ==
    \E t : /\ \/ t = v /\ v.buf[c] = <<>>
             \/ /\ v.buf[c] # <<>>
                /\ Adds(v, t, c, v.buf[c])
                /\ t.buf[c] = <<>>
          /\ Sound(t) /\ SameRuns(t, w) /\ w.buf = t.buf

\* Session.close: the rest of a line, then the run.
LEMMA EndSound ==
  ASSUME limit \in Limits, NEW v, Sound(v), NEW c \in Conns, v.sess[c] = "open"
  PROVE  /\ Sound(Ended(v, c)) /\ Ended(v, c).sess[c] = "closed"
         /\ \A b \in Conns : b # c => Ended(v, c).sess[b] = v.sess[b]
         /\ Flushes(v, Ended(v, c), c)
<1> DEFINE t == IF v.buf[c] = <<>> THEN v ELSE Lined(v, c, v.buf[c])
           r == t.cur[c]
           S == [t.sess EXCEPT ![c] = "closed"]
           U == [t.cur EXCEPT ![c] = 0]
           w == [t EXCEPT !.sess = S, !.cur = U]
<1>1. /\ Sound(t) /\ t.sess = v.sess
      /\ \/ t = v /\ v.buf[c] = <<>>
         \/ /\ v.buf[c] # <<>>
            /\ Adds(v, t, c, v.buf[c])
            /\ t.buf[c] = <<>>
  <2>1. v.buf[c] \in Seq(Toks) /\ (mode = "udp" => v.buf[c] = <<>>)
    BY DEF Sound, Stores, Bounded
  <2> QED
    BY <2>1, LineSound
<1>2. Ended(v, c) = IF t.cur[c] = 0 THEN [t EXCEPT !.sess[c] = "closed", !.cur[c] = 0]
                    ELSE Finalized([t EXCEPT !.sess[c] = "closed", !.cur[c] = 0], t.cur[c])
  BY DEF Ended
<1> HIDE DEF t
<1>3. /\ t \in Stores /\ t.sess \in [Conns -> {"none", "open", "closed"}] /\ t.cur \in [Conns -> Nat]
      /\ t.runs \in Seq(RunRecs)
  BY <1>1 DEF Sound, Stores
<1>4. [t EXCEPT !.sess[c] = "closed", !.cur[c] = 0] = w
  BY <1>3 DEF Stores
<1>5. /\ S \in [Conns -> {"none", "open", "closed"}] /\ S[c] = "closed"
      /\ \A b \in Conns : b # c => S[b] = v.sess[b]
  BY <1>1, <1>3
<1>6. U \in [Conns -> Nat] /\ U[c] = 0 /\ \A b \in Conns : b # c => U[b] = t.cur[b]
  BY <1>3
<1> HIDE DEF S, U
<1>7. /\ w \in Stores /\ w.sess = S /\ w.cur = U /\ w.buf = t.buf /\ w.runs = t.runs /\ w.disk = t.disk
      /\ w.manifests = t.manifests /\ w.latest = t.latest
  BY <1>3, <1>5, <1>6 DEF Stores
<1> HIDE DEF w
<1>8. Sessions(w)
  <2> SUFFICES ASSUME NEW b \in Conns, U[b] # 0
               PROVE  U[b] \in DOMAIN t.runs /\ S[b] = "open" /\ t.runs[U[b]].conn = b /\ ~t.runs[U[b]].ended
    BY <1>7 DEF Sessions
  <2>1. b # c /\ U[b] = t.cur[b] /\ S[b] = t.sess[b]
    BY <1>1, <1>5, <1>6
  <2> QED
    BY <1>1, <2>1 DEF Sound, Sessions
<1>9. Paired(w)
  BY <1>1, <1>7 DEF Sound, Paired
<1>10. Bounded(w)
  <2>1. mode = "udp" => Len(t.runs) <= MaxRuns /\ \A b \in Conns : t.buf[b] = <<>>
    BY <1>1 DEF Sound, Bounded
  <2>2. \A i \in DOMAIN t.runs : t.runs[i].conn \in Conns
    <3>1. \A i \in DOMAIN t.runs : t.runs[i] \in RunRecs
      BY <1>3, LenProperties, ElementOfSeq
    <3> QED
      BY <3>1 DEF RunRecs
  <2>3. mode # "udp" =>
         /\ \A i \in DOMAIN t.runs : U[t.runs[i].conn] = i \/ S[t.runs[i].conn] = "closed"
         /\ \A i, j \in DOMAIN t.runs : t.runs[i].conn = t.runs[j].conn => i = j
    BY <1>1, <1>5, <1>6, <2>2 DEF Sound, Bounded
  <2> QED
    BY <1>7, <2>1, <2>3 DEF Bounded
<1>11. Sound(w)
  BY <1>1, <1>7, <1>8, <1>9, <1>10 DEF Sound
<1>12. CASE r = 0
  <2>1. Ended(v, c) = w
    BY <1>2, <1>4, <1>12
  <2>2. SameRuns(t, w) /\ w.buf = t.buf
    BY <1>7 DEF SameRuns, Alike
  <2>3. Flushes(v, w, c)
    BY <1>1, <2>2 DEF Flushes
  <2> QED
    BY <1>5, <1>7, <1>11, <2>1, <2>3
<1>13. CASE r # 0
  <2>1. r \in DOMAIN w.runs /\ ~w.runs[r].ended
    BY <1>1, <1>7, <1>13 DEF Sound, Sessions
  <2>2. \A b \in Conns : w.cur[b] # r
    <3> SUFFICES ASSUME NEW b \in Conns PROVE U[b] # r
      BY <1>7
    <3>1. CASE b = c
      BY <1>6, <1>13, <3>1
    <3>2. CASE b # c
      <4>1. t.runs[r].conn = c /\ (t.cur[b] # 0 => t.runs[t.cur[b]].conn = b)
        BY <1>1, <1>13 DEF Sound, Sessions
      <4> QED
        BY <1>6, <1>13, <3>2, <4>1
    <3> QED
      BY <3>1, <3>2
  <2>3. /\ Sound(Finalized(w, r)) /\ Finalized(w, r).sess = S
        /\ SameRuns(w, Finalized(w, r)) /\ Finalized(w, r).buf = w.buf
    BY <1>7, <1>11, <2>1, <2>2, FinalizeSound
  <2>4. Ended(v, c) = Finalized(w, r)
    BY <1>2, <1>4, <1>13
  <2>5. SameRuns(t, Finalized(w, r)) /\ Finalized(w, r).buf = t.buf
    BY <1>7, <2>3 DEF SameRuns
  <2>6. Flushes(v, Finalized(w, r), c)
    BY <1>1, <2>5 DEF Flushes
  <2> QED
    BY <1>5, <2>3, <2>4, <2>6
<1> QED
  BY <1>12, <1>13

\* A least element of a nonempty set of naturals.
LEMMA Least ==
  ASSUME NEW T \in SUBSET Nat, T # {}
  PROVE  \E n \in T : \A m \in T : n <= m
<1> DEFINE Below == {0 .. n : n \in T}
<1>1. Below \subseteq FiniteSubsetsOf(Nat)
  <2> SUFFICES ASSUME NEW n \in T PROVE 0 .. n \in FiniteSubsetsOf(Nat)
    OBVIOUS
  <2>1. IsFiniteSet(0 .. n)
    BY FS_Interval
  <2> QED
    BY <2>1 DEF FiniteSubsetsOf
<1>2. PICK X \in Below : \A Y \in Below : ~(<<Y, X>> \in StrictSubsetOrdering(Nat))
  <2>1. IsWellFoundedOn(StrictSubsetOrdering(Nat), FiniteSubsetsOf(Nat))
    BY FS_StrictSubsetOrderingWellFounded
  <2>2. Below # {}
    OBVIOUS
  <2> QED
    BY <1>1, <2>1, <2>2, WFMin
<1>3. PICK n \in T : X = 0 .. n
  OBVIOUS
<1>4. ASSUME NEW m \in T, m < n PROVE FALSE
  <2>1. 0 .. m \in Below /\ 0 .. m \subseteq 0 .. n /\ 0 .. m # 0 .. n
    BY <1>4
  <2>2. <<0 .. m, 0 .. n>> \in StrictSubsetOrdering(Nat)
    BY <2>1 DEF StrictSubsetOrdering
  <2> QED
    BY <2>1, <2>2, <1>2, <1>3
<1> QED
  BY <1>4

\* close_all, up to connection k of the open ones o, from the store v.
Closing(v, o, k, f) ==
    f = [c \in 0 .. k |-> IF c = 0 THEN v ELSE IF o[c] = "open" THEN Ended(f[c - 1], c) ELSE f[c - 1]]

\* It can be done, and the store is sound at every point of it.
LEMMA ClosingSound ==
  ASSUME limit \in Limits, NEW v, Sound(v), NEW o, o = v.sess, NEW N \in Nat, Conns = 1 .. N
  PROVE  \A k \in 0 .. N : \E f : Closing(v, o, k, f)
<1> DEFINE T == {k \in 0 .. N : ~ \E f : Closing(v, o, k, f)}
<1> SUFFICES ASSUME T # {} PROVE FALSE
  OBVIOUS
<1>1. PICK k \in T : \A m \in T : k <= m
  <2>1. T \in SUBSET Nat
    OBVIOUS
  <2> QED
    BY <2>1, Least
<1>2. k \in 0 .. N /\ ~ \E f : Closing(v, o, k, f)
  BY <1>1
<1>3. CASE k = 0
  <2>1. PICK f : f = [c \in 0 .. 0 |-> v]
    OBVIOUS
  <2>2. f = [c \in 0 .. 0 |-> IF c = 0 THEN v ELSE IF o[c] = "open" THEN Ended(f[c - 1], c) ELSE f[c - 1]]
    BY <2>1
  <2> QED
    BY <1>2, <1>3, <2>2 DEF Closing
<1>4. CASE k # 0
  <2>1. k - 1 \in 0 .. N /\ k - 1 \notin T
    BY <1>1, <1>2, <1>4
  <2>2. PICK f : Closing(v, o, k - 1, f)
    BY <2>1
  <2>3. PICK h : h = [c \in 0 .. k |-> IF c = k THEN (IF o[k] = "open" THEN Ended(f[k - 1], k) ELSE f[k - 1]) ELSE f[c]]
    OBVIOUS
  <2>4. \A c \in 0 .. k - 1 : h[c] = f[c]
    BY <1>2, <2>3
  <2>5. h = [c \in 0 .. k |-> IF c = 0 THEN v ELSE IF o[c] = "open" THEN Ended(h[c - 1], c) ELSE h[c - 1]]
    <3> SUFFICES ASSUME NEW c \in 0 .. k
                 PROVE  h[c] = IF c = 0 THEN v ELSE IF o[c] = "open" THEN Ended(h[c - 1], c) ELSE h[c - 1]
      BY <2>3
    <3>1. f = [d \in 0 .. k - 1 |-> IF d = 0 THEN v ELSE IF o[d] = "open" THEN Ended(f[d - 1], d) ELSE f[d - 1]]
      BY <2>2 DEF Closing
    <3>2. CASE c = k
      <4>1. h[c] = IF o[k] = "open" THEN Ended(f[k - 1], k) ELSE f[k - 1]
        BY <2>3, <3>2
      <4>2. k - 1 \in 0 .. k - 1
        BY <1>2, <1>4
      <4>3. h[k - 1] = f[k - 1]
        BY <2>4, <4>2
      <4> QED
        BY <1>4, <3>2, <4>1, <4>3
    <3>3. CASE c # k
      <4>1. c \in 0 .. k - 1
        BY <1>2, <3>3
      <4>2. f[c] = IF c = 0 THEN v ELSE IF o[c] = "open" THEN Ended(f[c - 1], c) ELSE f[c - 1]
        BY <3>1, <4>1
      <4>3. CASE c = 0
        BY <2>4, <4>1, <4>2, <4>3
      <4>4. CASE c # 0
        <5>1. c - 1 \in 0 .. k - 1
          BY <1>2, <4>1, <4>4
        <5> QED
          BY <2>4, <4>1, <4>2, <4>4, <5>1
      <4> QED
        BY <4>3, <4>4
    <3> QED
      BY <3>2, <3>3
  <2> QED
    BY <1>2, <2>5 DEF Closing
<1> QED
  BY <1>3, <1>4

\* close_all keeps the invariant, by the least session it would break it at.
LEMMA ClosedSound ==
  ASSUME limit \in Limits, NEW v, Sound(v), NEW N \in Nat, Conns = 1 .. N,
         NEW f, Closing(v, v.sess, N, f)
  PROVE  Sound(f[N])
<1> DEFINE o == v.sess
           P(k) == Sound(f[k]) /\ \A b \in Conns : b > k => f[k].sess[b] = o[b]
           T == {k \in 0 .. N : ~P(k)}
<1>1. /\ f[0] = v
      /\ \A k \in 1 .. N : f[k] = IF o[k] = "open" THEN Ended(f[k - 1], k) ELSE f[k - 1]
  <2>1. f = [c \in 0 .. N |-> IF c = 0 THEN v ELSE IF o[c] = "open" THEN Ended(f[c - 1], c) ELSE f[c - 1]]
    BY DEF Closing
  <2> QED
    BY <2>1
<1>2. T = {}
  <2> SUFFICES ASSUME T # {} PROVE FALSE
    OBVIOUS
  <2>1. PICK k \in T : \A m \in T : k <= m
    <3>1. T \in SUBSET Nat
      OBVIOUS
    <3> QED
      BY <3>1, Least
  <2>2. k \in 0 .. N /\ ~P(k)
    BY <2>1
  <2>3. k # 0
    BY <1>1, <2>2
  <2>4. k - 1 \in 0 .. N /\ ~(k <= k - 1) /\ k \in 1 .. N
    BY <2>2, <2>3
  <2>5. Sound(f[k - 1]) /\ \A b \in Conns : b > k - 1 => f[k - 1].sess[b] = o[b]
    BY <2>1, <2>4
  <2>6. CASE o[k] = "open"
    <3>1. f[k - 1].sess[k] = "open" /\ k \in Conns /\ f[k] = Ended(f[k - 1], k)
      BY <1>1, <2>4, <2>5, <2>6
    <3>2. Sound(f[k]) /\ \A b \in Conns : b # k => f[k].sess[b] = f[k - 1].sess[b]
      BY <2>5, <3>1, EndSound
    <3>3. \A b \in Conns : b > k => b # k /\ b > k - 1
      BY <2>4
    <3> QED
      BY <2>2, <2>5, <3>2, <3>3
  <2>7. CASE o[k] # "open"
    <3>1. f[k] = f[k - 1]
      BY <1>1, <2>4, <2>7
    <3>2. \A b \in Conns : b > k => b > k - 1
      BY <2>4
    <3> QED
      BY <2>2, <2>5, <3>1, <3>2
  <2> QED
    BY <2>6, <2>7
<1>3. P(N)
  BY <1>2
<1> QED
  BY <1>3

-----------------------------------------------------------------------------
\* The invariant: the types of the client and the wire, and a sound store.
LogInv == ClientInv /\ serving \in BOOLEAN /\ Sound(Server)

\* A callback that ends in a world leaves that world's store.
LEMMA ServesSound ==
  ASSUME limit' = limit, NEW w, Sound(w), Serves(w)
  PROVE  Sound(Server)'
<1>1. PICK v \in {w} :
        /\ sess' = v.sess /\ buf' = v.buf /\ cur' = v.cur /\ runs' = v.runs /\ disk' = v.disk
        /\ manifests' = v.manifests /\ latest' = v.latest
  BY DEF Serves
<1>2. w \in Stores /\ v = w
  BY <1>1 DEF Sound
<1>3. w = [sess |-> w.sess, buf |-> w.buf, cur |-> w.cur, runs |-> w.runs, disk |-> w.disk,
           manifests |-> w.manifests, latest |-> w.latest]
  BY <1>2 DEF Stores
<1>4. Server' = w
  BY <1>1, <1>2, <1>3 DEF Server
<1>5. mode' = mode
  BY DEF mode
<1>6. Bounded(w)' <=> Bounded(w)
  BY <1>5 DEF Bounded
<1> QED
  BY <1>4, <1>5 DEF Sound, Bounded, Sessions, Paired, Covers, Records, Logs, On

\* The callbacks of the server's loop, one by one: a connection accepted,
LEMMA AcceptSound ==
  ASSUME LogInv, NEW c \in Conns, Accept(c)
  PROVE  Sound(Server)'
<1> DEFINE v == Server
           S == [sess EXCEPT ![c] = "open"]
           w == [v EXCEPT !.sess = S]
<1>1. /\ Sound(v) /\ v.sess = sess /\ v.cur = cur /\ v.runs = runs /\ v.buf = buf
      /\ v.disk = disk /\ v.manifests = manifests /\ v.latest = latest
  BY DEF LogInv, Server
<1>2. /\ sess[c] = "none" /\ sess' = S /\ limit' = limit /\ mode # "udp"
      /\ UNCHANGED <<buf, cur, runs, disk, manifests, latest>>
  BY DEF Accept, wireVars
<1> HIDE DEF v
<1>3. v \in Stores /\ sess \in [Conns -> {"none", "open", "closed"}] /\ runs \in Seq(RunRecs)
  BY <1>1 DEF Sound, Stores
<1>4. S \in [Conns -> {"none", "open", "closed"}] /\ S[c] = "open" /\ \A b \in Conns : b # c => S[b] = sess[b]
  BY <1>3
<1> HIDE DEF S
<1>5. /\ w \in Stores /\ w.sess = S /\ w.cur = cur /\ w.runs = runs /\ w.buf = buf
      /\ w.disk = disk /\ w.manifests = manifests /\ w.latest = latest
  BY <1>1, <1>3, <1>4 DEF Stores
<1> HIDE DEF w
<1>6. Sessions(w)
  BY <1>1, <1>4, <1>5 DEF Sound, Sessions
<1>7. Paired(w)
  BY <1>1, <1>5 DEF Sound, Paired
<1>8. Bounded(w)
  <2>1. \A i \in DOMAIN runs : cur[runs[i].conn] = i \/ sess[runs[i].conn] = "closed"
    BY <1>1, <1>2 DEF Sound, Bounded
  <2>2. \A i \in DOMAIN runs : runs[i].conn \in Conns /\ i # 0
    <3>1. \A i \in DOMAIN runs : runs[i] \in RunRecs /\ i # 0
      BY <1>3, LenProperties, ElementOfSeq
    <3> QED
      BY <3>1 DEF RunRecs
  <2>3. ASSUME NEW i \in DOMAIN runs PROVE cur[runs[i].conn] = i \/ S[runs[i].conn] = "closed"
    <3>1. CASE runs[i].conn = c
      BY <1>2, <2>1, <3>1
    <3>2. CASE runs[i].conn # c
      BY <1>4, <2>1, <2>2, <3>2
    <3> QED
      BY <3>1, <3>2
  <2>4. \A i, j \in DOMAIN runs : runs[i].conn = runs[j].conn => i = j
    BY <1>1, <1>2 DEF Sound, Bounded
  <2> QED
    BY <1>2, <1>5, <2>3, <2>4 DEF Bounded
<1>9. Sound(w)
  BY <1>1, <1>5, <1>6, <1>7, <1>8 DEF Sound
<1>10. Serves(w)
  BY <1>2, <1>5 DEF Serves
<1> QED
  BY <1>2, <1>9, <1>10, ServesSound

\* What a read takes and what it leaves are both parts of the stream.
LEMMA SplitToks ==
  ASSUME NEW s \in Seq(Toks), NEW u, u = SelectInSeq(s, LAMBDA t : t = NL), u # 0
  PROVE  /\ SubSeq(s, 1, u - 1) \in Seq(Toks) /\ SubSeq(s, u + 1, Len(s)) \in Seq(Toks)
         /\ u \in 1 .. Len(s) /\ s[u] = NL
<1>1. PICK n \in Nat : n = Len(s) /\ \A i \in 1 .. n : s[i] \in Toks
  BY LenProperties, ElementOfSeq
<1> DEFINE I == {i \in 1 .. Len(s) : s[i] = NL}
<1>2. I \in SUBSET Nat /\ I \subseteq 1 .. n
  BY <1>1
<1>3. u = IF I # {} THEN Min(I) ELSE 0
  BY DEF SelectInSeq
<1>4. I # {}
  BY <1>3
<1>5. \E x \in I : \A y \in I : x <= y
  BY <1>2, <1>4, Least
<1> HIDE DEF I
<1>6. \E x \in I : \A y \in I : x =< y
  BY <1>5
<1>7. u \in I
  BY <1>3, <1>4, <1>6 DEF Min
<1>8. u \in 1 .. n
  BY <1>2, <1>7
<1>9. PICK k \in 1 .. n : k = u
  BY <1>8
<1>10. SubSeq(s, 1, k - 1) \in Seq(Toks)
  <2>1. k - 1 \in Int /\ 1 \in Int /\ \A i \in 1 .. k - 1 : i \in 1 .. n
    OBVIOUS
  <2>2. \A i \in 1 .. k - 1 : s[i] \in Toks
    BY <1>1, <2>1
  <2> QED
    BY <2>1, <2>2, SubSeqProperties
<1>11. SubSeq(s, k + 1, n) \in Seq(Toks)
  <2>1. k + 1 \in Int /\ n \in Int /\ \A i \in k + 1 .. n : i \in 1 .. n
    OBVIOUS
  <2>2. \A i \in k + 1 .. n : s[i] \in Toks
    BY <1>1, <2>1
  <2> QED
    BY <2>1, <2>2, SubSeqProperties
<1>12. s[u] = NL
  BY <1>7 DEF I
<1> QED
  BY <1>1, <1>8, <1>9, <1>10, <1>11, <1>12

\* Only the wire of the client's state changes when the server reads.
LEMMA WireTyped ==
  ASSUME ClientInv, wire' \in [Conns -> Seq(Toks)], link' \in [Conns -> Links],
         faults' \in 0 .. limit.faults, UNCHANGED <<limit, power, g, std, prints>>
  PROVE  ClientInv'
BY DEF ClientInv

\* a line or a fragment read from a stream,
LEMMA ReadTcpSound ==
  ASSUME LogInv, NEW c \in Conns, ReadTcp(c), UNCHANGED clientVars
  PROVE  ClientInv' /\ Sound(Server)'
<1> DEFINE u == SelectInSeq(wire[c], LAMBDA t : t = NL)
<1>1. ClientInv /\ limit \in Limits /\ Sound(Server) /\ wire[c] \in Seq(Toks)
      /\ wire \in [Conns -> Seq(Toks)] /\ link \in [Conns -> Links] /\ faults \in 0 .. limit.faults
  BY DEF LogInv, ClientInv
<1>2. /\ Server.sess = sess /\ Server.buf = buf /\ buf \in [Conns -> Seq(Toks)]
      /\ Server \in Stores
  BY <1>1 DEF Server, Sound, Stores
<1>3. /\ mode = "tcp" /\ sess[c] = "open"
      /\ UNCHANGED <<limit, link, faults, power, g, std, prints>>
  BY DEF ReadTcp, clientVars
<1>4. CASE u = 0
  <2>1. wire' = [wire EXCEPT ![c] = <<>>] /\ Serves([Server EXCEPT !.buf[c] = @ \o wire[c]])
    BY <1>4 DEF ReadTcp
  <2> DEFINE B == [buf EXCEPT ![c] = buf[c] \o wire[c]]
             w == [Server EXCEPT !.buf = B]
  <2>2. buf[c] \o wire[c] \in Seq(Toks)
    BY <1>1, <1>2, ConcatProperties
  <2>3. B \in [Conns -> Seq(Toks)]
    BY <1>2, <2>2
  <2>4. [Server EXCEPT !.buf[c] = @ \o wire[c]] = w
    BY <1>2 DEF Server
  <2>5. PICK v : v = Server
    OBVIOUS
  <2> HIDE DEF B
  <2>6. /\ w \in Stores /\ w.buf = B /\ w.sess = v.sess /\ w.cur = v.cur /\ w.runs = v.runs
        /\ w.disk = v.disk /\ w.manifests = v.manifests /\ w.latest = v.latest
    BY <1>2, <2>3, <2>5 DEF Stores
  <2> HIDE DEF w
  <2>7. Sound(w)
    BY <1>1, <1>3, <2>5, <2>6 DEF Sound, Sessions, Paired, Bounded
  <2>8. Sound(Server)'
    BY <1>3, <2>1, <2>4, <2>7, ServesSound
  <2>9. wire' \in [Conns -> Seq(Toks)]
    <3>1. <<>> \in Seq(Toks)
      OBVIOUS
    <3> QED
      BY <1>1, <2>1, <3>1
  <2> QED
    BY <1>1, <1>3, <2>8, <2>9, WireTyped
<1>5. CASE u # 0
  <2>1. /\ wire' = [wire EXCEPT ![c] = SubSeq(@, u + 1, Len(@))]
        /\ Serves(Lined(Server, c, buf[c] \o SubSeq(wire[c], 1, u - 1)))
    BY <1>5 DEF ReadTcp
  <2>2. SubSeq(wire[c], 1, u - 1) \in Seq(Toks) /\ SubSeq(wire[c], u + 1, Len(wire[c])) \in Seq(Toks)
    BY <1>1, <1>5, SplitToks
  <2> HIDE DEF u
  <2>3. buf[c] \o SubSeq(wire[c], 1, u - 1) \in Seq(Toks)
    BY <1>2, <2>2, ConcatProperties
  <2>4. Sound(Lined(Server, c, buf[c] \o SubSeq(wire[c], 1, u - 1)))
    BY <1>1, <1>2, <1>3, <2>3, LineSound
  <2>5. Sound(Server)'
    BY <1>3, <2>1, <2>4, ServesSound
  <2>6. wire' \in [Conns -> Seq(Toks)]
    BY <1>1, <2>1, <2>2
  <2> QED
    BY <1>1, <1>3, <2>5, <2>6, WireTyped
<1> QED
  BY <1>4, <1>5

\* A session that ends, by the end of its stream or by its silence.
LEMMA EndsSound ==
  ASSUME LogInv, NEW c \in Conns, sess[c] = "open", Serves(Ended(Server, c)),
         UNCHANGED <<wireVars, clientVars>>
  PROVE  ClientInv' /\ Sound(Server)'
<1>1. ClientInv /\ limit \in Limits /\ Sound(Server) /\ Server.sess = sess /\ limit' = limit
  BY DEF LogInv, ClientInv, Server, wireVars
<1>2. Sound(Ended(Server, c))
  BY <1>1, EndSound
<1>3. Sound(Server)'
  BY <1>1, <1>2, ServesSound
<1>4. ClientInv'
  BY <1>1 DEF ClientInv, wireVars, clientVars
<1> QED
  BY <1>3, <1>4

\* A datagram opens its session if it has to.
LEMMA TalksSound ==
  ASSUME LogInv, NEW c \in Conns, mode = "udp", cur[c] = 0 => Len(runs) < MaxRuns
  PROVE  LET w == [Server EXCEPT !.sess[c] = "open"]
         IN  /\ Sound(w) /\ w.sess[c] = "open" /\ w.runs = runs /\ w.cur = cur /\ w.buf = buf
             /\ \A b \in Conns : b # c => w.sess[b] = sess[b]
<1> DEFINE S == [sess EXCEPT ![c] = "open"]
           w == [Server EXCEPT !.sess = S]
<1>1. Sound(Server)
  BY DEF LogInv
<1>2. /\ Server \in Stores /\ sess \in [Conns -> {"none", "open", "closed"}]
      /\ Server.sess = sess /\ Server.cur = cur /\ Server.runs = runs /\ Server.buf = buf
  BY <1>1 DEF Server, Sound, Stores
<1>3. [Server EXCEPT !.sess[c] = "open"] = w
  BY <1>2 DEF Server
<1>4. S \in [Conns -> {"none", "open", "closed"}] /\ S[c] = "open" /\ \A b \in Conns : b # c => S[b] = sess[b]
  BY <1>2
<1>5. PICK v : v = Server
  OBVIOUS
<1> HIDE DEF S
<1>6. /\ w \in Stores /\ w.sess = S /\ w.buf = v.buf /\ w.cur = v.cur /\ w.runs = v.runs
      /\ w.disk = v.disk /\ w.manifests = v.manifests /\ w.latest = v.latest
  BY <1>2, <1>4, <1>5 DEF Stores
<1> HIDE DEF w
<1>7. Sessions(w)
  BY <1>1, <1>2, <1>4, <1>5, <1>6 DEF Sound, Sessions
<1>8. Paired(w)
  BY <1>1, <1>5, <1>6 DEF Sound, Paired
<1>9. Bounded(w)
  BY <1>1, <1>5, <1>6 DEF Sound, Bounded
<1>10. Sound(w)
  BY <1>1, <1>5, <1>6, <1>7, <1>8, <1>9 DEF Sound
<1> QED
  BY <1>2, <1>3, <1>4, <1>5, <1>6, <1>10

\* A sequence with one element taken out.
LEMMA RemoveAtTyped ==
  ASSUME NEW S, NEW s \in Seq(S), NEW i \in DOMAIN s
  PROVE  RemoveAt(s, i) \in Seq(S)
<1>1. PICK n \in Nat : n = Len(s)
  BY LenProperties
<1>2. i \in 1 .. n /\ i - 1 \in Int /\ i + 1 \in Int /\ \A k \in 1 .. n : s[k] \in S
  BY <1>1, LenProperties, ElementOfSeq
<1>3. \A k \in 1 .. i - 1 : s[k] \in S
  BY <1>2
<1>4. \A k \in i + 1 .. n : s[k] \in S
  BY <1>2
<1>5. SubSeq(s, 1, i - 1) \in Seq(S)
  BY <1>2, <1>3, SubSeqProperties
<1>6. SubSeq(s, i + 1, n) \in Seq(S)
  BY <1>2, <1>4, SubSeqProperties
<1> QED
  BY <1>1, <1>5, <1>6, ConcatProperties DEF RemoveAt

\* a datagram read, perhaps the last of its session,
LEMMA ReadUdpSound ==
  ASSUME LogInv, NEW c \in Conns, ReadUdp(c), UNCHANGED clientVars
  PROVE  ClientInv' /\ Sound(Server)'
<1>1. /\ ClientInv /\ limit \in Limits /\ Sound(Server) /\ wire \in [Conns -> Seq(Toks)]
      /\ link \in [Conns -> Links] /\ faults \in 0 .. limit.faults
  BY DEF LogInv, ClientInv
<1> DEFINE w == [Server EXCEPT !.sess[c] = "open"]
<1>2. PICK i \in DOMAIN wire[c] :
        /\ \/ /\ wire' = [wire EXCEPT ![c] = RemoveAt(@, i)]
              /\ faults' = faults
           \/ /\ Faulty
              /\ wire' = wire
        /\ LET l == Lined(w, c, <<wire[c][i]>>)
           IN  Serves(IF l.runs[l.cur[c]].bye = -1 THEN l ELSE Ended(l, c))
  BY DEF ReadUdp
<1>3. /\ mode = "udp" /\ (cur[c] = 0 => Len(runs) < MaxRuns)
      /\ UNCHANGED <<limit, link, power, g, std, prints>>
  BY DEF ReadUdp, clientVars
<1>4. wire[c] \in Seq(Toks) /\ wire[c][i] \in Toks
  BY <1>1, LenProperties, ElementOfSeq
<1> DEFINE l == Lined(w, c, <<wire[c][i]>>)
<1>5. Sound(w) /\ w.sess[c] = "open" /\ w.runs = runs /\ w.cur = cur
  BY <1>3, TalksSound
<1>6. Serves(IF l.runs[l.cur[c]].bye = -1 THEN l ELSE Ended(l, c))
  BY <1>2
<1> HIDE DEF w
<1>7. <<wire[c][i]>> \in Seq(Toks)
  BY <1>4
<1>8. w.cur[c] = 0 => Len(w.runs) < MaxRuns
  BY <1>3, <1>5
<1>9. Sound(l) /\ l.sess = w.sess
  BY <1>1, <1>5, <1>7, <1>8, LineSound
<1> HIDE DEF l
<1>10. Sound(Ended(l, c))
  BY <1>1, <1>5, <1>9, EndSound
<1>11. Sound(Server)'
  BY <1>3, <1>6, <1>9, <1>10, ServesSound
<1>12. RemoveAt(wire[c], i) \in Seq(Toks)
  BY <1>4, RemoveAtTyped
<1>13. wire' \in [Conns -> Seq(Toks)] /\ faults' \in 0 .. limit.faults
  <2>1. [wire EXCEPT ![c] = RemoveAt(@, i)] \in [Conns -> Seq(Toks)]
    BY <1>1, <1>12
  <2>2. faults < limit.faults => faults + 1 \in 0 .. limit.faults
    BY <1>1, Bounds
  <2>3. wire' = [wire EXCEPT ![c] = RemoveAt(@, i)] \/ wire' = wire
    BY <1>2
  <2>4. faults' = faults \/ (faults < limit.faults /\ faults' = faults + 1)
    BY <1>2 DEF Faulty
  <2> QED
    BY <1>1, <2>1, <2>2, <2>3, <2>4
<1> QED
  BY <1>1, <1>3, <1>11, <1>13, WireTyped

\* and the end of the loop.
LEMMA ShutDownSound ==
  ASSUME LogInv, ShutDown, UNCHANGED clientVars
  PROVE  ClientInv' /\ Sound(Server)'
<1>1. ClientInv /\ limit \in Limits /\ Sound(Server) /\ Server.sess = sess
  BY DEF LogInv, ClientInv, Server
<1>2. PICK N : N = MaxConns
  OBVIOUS
<1>3. N \in Nat /\ Conns = 1 .. N
  BY <1>1, <1>2, Bounds DEF Conns
<1>4. PICK v : v = Server
  OBVIOUS
<1> DEFINE f == CHOOSE h : h = [c \in 0 .. N |-> IF c = 0 THEN v
                               ELSE IF sess[c] = "open" THEN Ended(h[c - 1], c) ELSE h[c - 1]]
<1>5. Serves(f[N])
  BY <1>2, <1>4 DEF ShutDown
<1>6. N \in 0 .. N
  BY <1>3
<1>7. \E h : Closing(v, sess, N, h)
  BY <1>1, <1>3, <1>4, <1>6, ClosingSound
<1>8. \E h : h = [c \in 0 .. N |-> IF c = 0 THEN v
                               ELSE IF sess[c] = "open" THEN Ended(h[c - 1], c) ELSE h[c - 1]]
  BY <1>7 DEF Closing
<1>9. Closing(v, sess, N, f)
  BY <1>8 DEF Closing
<1> HIDE DEF f
<1>10. Sound(f[N])
  BY <1>1, <1>3, <1>4, <1>9, ClosedSound
<1>11. limit' = limit /\ UNCHANGED <<wire, power, faults, g, std, prints>>
  BY DEF ShutDown, clientVars
<1>12. Sound(Server)'
  BY <1>5, <1>10, <1>11, ServesSound
<1>13. link' \in [Conns -> Links]
  BY <1>1 DEF ShutDown, ClientInv, Links
<1> QED
  BY <1>1, <1>11, <1>12, <1>13 DEF ClientInv

\* Every step.
LEMMA LogStep ==
  ASSUME LogInv, [Next]_vars
  PROVE  LogInv'
<1>1. ClientInv /\ Sound(Server) /\ serving \in BOOLEAN
  BY DEF LogInv
<1>2. ASSUME UNCHANGED serverVars, limit' = limit PROVE Sound(Server)' /\ serving' \in BOOLEAN
  <2>1. Serves(Server)
    BY <1>2 DEF Serves, Server, serverVars
  <2> QED
    BY <1>1, <1>2, <2>1, ServesSound DEF serverVars
<1>3. CASE Net
  BY <1>2, <1>3, NetTyped, <1>1 DEF LogInv, Net, NetReset
<1>4. CASE Freeze
  BY <1>2, <1>4, FreezeTyped, <1>1 DEF LogInv, Freeze, PowerLoss
<1>5. CASE Client
  <2>1. limit' = limit
    BY <1>5 DEF Client, ClientNext, InitCall, LineCall, RawCall, CapturedPrint, CaptureCall,
                ReleaseCall, ReconnectCall, CloseCall, Becomes
  <2>2. ClientInv'
    <3>1. CASE ReleaseCall
      <4>1. Typed(Released(World)) /\ prints' \in 0 .. limit.prints
        BY <1>1, <3>1, WorldTyped, ReleaseTyped DEF ClientInv, ReleaseCall
      <4> QED
        BY <1>1, <3>1, <4>1, BecomesTyped DEF ReleaseCall
    <3>2. CASE CloseCall
      <4>1. PICK v \in Closed(World) : Becomes(v)
        BY <3>2 DEF CloseCall
      <4>2. Typed(v) /\ prints' \in 0 .. limit.prints
        BY <1>1, <3>2, <4>1, WorldTyped, CloseTyped DEF ClientInv, CloseCall
      <4> QED
        BY <1>1, <4>1, <4>2, BecomesTyped
    <3> QED
      BY <1>1, <1>5, <3>1, <3>2, InitTyped, LineTyped, RawTyped, PrintTyped, CaptureTyped, ReconnectTyped
         DEF Client, ClientNext
  <2> QED
    BY <1>2, <1>5, <2>1, <2>2 DEF LogInv, Client
<1>6. CASE ServerStep
  <2>1. UNCHANGED clientVars
    BY <1>6 DEF ServerStep
  <2>2. serving' \in BOOLEAN
    BY <1>1, <1>6 DEF ServerStep, ServerNext, Accept, ReadTcp, ReadEnd, ReadUdp, ExpireUdp, ShutDown
  <2>3. ASSUME NEW c \in Conns, Accept(c) PROVE ClientInv' /\ Sound(Server)'
    <3>1. ClientInv'
      BY <1>1, <2>1, <2>3 DEF ClientInv, Accept, wireVars, clientVars
    <3> QED
      BY <2>3, <3>1, AcceptSound
  <2>4. ASSUME NEW c \in Conns, ReadEnd(c) PROVE ClientInv' /\ Sound(Server)'
    BY <2>1, <2>4, EndsSound DEF ReadEnd, wireVars, clientVars
  <2>5. ASSUME NEW c \in Conns, ExpireUdp(c) PROVE ClientInv' /\ Sound(Server)'
    BY <2>1, <2>5, EndsSound DEF ExpireUdp, wireVars, clientVars
  <2>6. ClientInv' /\ Sound(Server)'
    BY <1>6, <2>1, <2>3, <2>4, <2>5, ReadTcpSound, ReadUdpSound, ShutDownSound DEF ServerStep, ServerNext
  <2> QED
    BY <2>2, <2>6 DEF LogInv
<1>7. CASE UNCHANGED vars
  BY <1>1, <1>2, <1>7 DEF LogInv, ClientInv, vars, wireVars, clientVars
<1> QED
  BY <1>3, <1>4, <1>5, <1>6, <1>7 DEF Next

\* Before the first step nothing has been sent, opened or written.
LEMMA LogStart ==
  ASSUME Init
  PROVE  LogInv
<1>1. /\ limit \in Limits /\ MaxConns \in Nat \ {0} /\ MaxSeq \in Nat
      /\ limit.prints \in Nat /\ limit.faults \in Nat
  BY Bounds DEF Init, WireInit
<1>2. 0 \in 0 .. MaxConns /\ 0 \in 0 .. MaxSeq /\ <<>> \in Seq(Toks)
  BY <1>1
<1>3. ClientInv
  <2>1. g \in ClientState
    BY <1>2 DEF Init, ClientInit, ClientState
  <2>2. /\ wire \in [Conns -> Seq(Toks)] /\ link \in [Conns -> Links] /\ std \in [Streams -> 0 .. MaxConns]
        /\ power \in BOOLEAN
    BY <1>2 DEF Init, WireInit, ClientInit, Links, Tty
  <2>3. prints \in 0 .. limit.prints /\ faults \in 0 .. limit.faults
    BY <1>1 DEF Init, WireInit, ClientInit
  <2> QED
    BY <1>1, <2>1, <2>2, <2>3 DEF ClientInv
<1>4. Sound(Server)
  <2>1. PICK v : v = Server
    OBVIOUS
  <2>2. /\ v.sess = [c \in Conns |-> "none"] /\ v.buf = [c \in Conns |-> <<>>] /\ v.cur = [c \in Conns |-> 0]
        /\ v.runs = <<>> /\ v.disk = <<>> /\ v.manifests = {} /\ v.latest = 0
    BY <2>1 DEF Server, Init, ServerInit
  <2>3. v \in Stores
    <3>1. <<>> \in Seq(RunRecs) /\ <<>> \in Seq(Nat)
      OBVIOUS
    <3>2. v = [sess |-> v.sess, buf |-> v.buf, cur |-> v.cur, runs |-> v.runs, disk |-> v.disk,
               manifests |-> v.manifests, latest |-> v.latest]
      BY <2>1 DEF Server
    <3>3. /\ [c \in Conns |-> "none"] \in [Conns -> {"none", "open", "closed"}]
          /\ [c \in Conns |-> <<>>] \in [Conns -> Seq(Toks)] /\ [c \in Conns |-> 0] \in [Conns -> Nat]
      BY <1>2
    <3>4. /\ v.sess \in [Conns -> {"none", "open", "closed"}] /\ v.buf \in [Conns -> Seq(Toks)]
          /\ v.cur \in [Conns -> Nat] /\ v.runs \in Seq(RunRecs) /\ v.disk \in Seq(Nat)
          /\ v.manifests \in SUBSET Nat /\ v.latest \in Nat
      BY <2>2, <3>1, <3>3
    <3> QED
      BY <3>2, <3>4 DEF Stores
  <2>4. DOMAIN v.runs = {} /\ DOMAIN v.disk = {} /\ Len(v.runs) = 0
    BY <2>2
  <2>5. Paired(v)
    BY <2>2, <2>4 DEF Paired, Logs
  <2>6. Bounded(v)
    BY <2>2, <2>4, ServerAssumption DEF Bounded
  <2>7. Sessions(v)
    BY <2>2 DEF Sessions
  <2> QED
    BY <2>1, <2>3, <2>4, <2>5, <2>6, <2>7 DEF Sound
<1> QED
  BY <1>3, <1>4 DEF LogInv, Init, ServerInit

\* A stream connection has one run at most, so the bound on runs holds for
\* streams without any guard.
LEMMA RunsBounded ==
  ASSUME LogInv
  PROVE  Len(runs) <= MaxRuns
<1>1. /\ Bounded(Server) /\ Server.runs = runs /\ runs \in Seq(RunRecs) /\ limit \in Limits
  BY DEF LogInv, Sound, Stores, Server, ClientInv
<1>2. CASE mode = "udp"
  BY <1>1, <1>2 DEF Bounded
<1>3. CASE mode # "udp"
  <2>1. PICK n \in Nat : n = Len(runs) /\ DOMAIN runs = 1 .. n /\ \A i \in 1 .. n : runs[i] \in RunRecs
    BY <1>1, LenProperties, ElementOfSeq
  <2>2. PICK N \in Nat : N = MaxConns
    BY <1>1, Bounds
  <2> DEFINE f == [i \in 1 .. n |-> runs[i].conn]
  <2>3. f \in Injection(1 .. n, 1 .. N)
    <3>1. \A i \in 1 .. n : runs[i].conn \in 1 .. N
      BY <2>1, <2>2 DEF RunRecs, Conns
    <3>2. \A i, j \in 1 .. n : runs[i].conn = runs[j].conn => i = j
      BY <1>1, <1>3, <2>1 DEF Bounded
    <3> QED
      BY <3>1, <3>2 DEF Injection, IsInjective
  <2>4. IsFiniteSet(1 .. N) /\ Cardinality(1 .. N) = N /\ Cardinality(1 .. n) = n
    <3>1. 1 \in Int /\ N \in Int /\ n \in Int
      OBVIOUS
    <3>2. /\ IsFiniteSet(1 .. N) /\ Cardinality(1 .. N) = IF 1 > N THEN 0 ELSE N - 1 + 1
          /\ Cardinality(1 .. n) = IF 1 > n THEN 0 ELSE n - 1 + 1
      BY <3>1, FS_Interval
    <3> QED
      BY <3>2
  <2>5. Cardinality(1 .. n) <= Cardinality(1 .. N)
    BY <2>3, <2>4, FS_Injection
  <2> QED
    BY <2>1, <2>2, <2>4, <2>5, ServerAssumption
<1> QED
  BY <1>2, <1>3

\* The invariant contains the type invariant the runs check.
LEMMA LogTyped ==
  ASSUME LogInv
  PROVE  LogTypeOK
<1>1. /\ limit \in Limits /\ power \in BOOLEAN /\ prints \in 0 .. limit.prints
      /\ g \in ClientState /\ std \in [Streams -> 0 .. MaxConns]
      /\ wire \in [Conns -> Seq(Toks)] /\ link \in [Conns -> Links]
      /\ faults \in 0 .. limit.faults /\ serving \in BOOLEAN
  BY DEF LogInv, ClientInv
<1>2. MaxConns \in Nat \ {0}
  BY <1>1, Bounds
<1>3. std \in [Streams -> {Tty} \cup Conns]
  <2>1. 0 .. MaxConns = {Tty} \cup Conns
    BY <1>2 DEF Tty, Conns
  <2> QED
    BY <1>1, <2>1
<1>4. Seq(Toks) \subseteq Seq(Tokens)
  BY SeqMonotonic DEF Toks
<1>5. wire \in [Conns -> Seq(Tokens)]
  BY <1>1, <1>4
<1>6. /\ sess \in [Conns -> {"none", "open", "closed"}] /\ buf \in [Conns -> Seq(Toks)]
      /\ cur \in [Conns -> Nat] /\ runs \in Seq(RunRecs) /\ disk \in Seq(Nat)
  BY DEF LogInv, Sound, Stores, Server
<1>7. buf \in [Conns -> Seq(Tokens)]
  BY <1>4, <1>6
<1>8. runs \in Seq(RunRecord) /\ Len(runs) \in Nat /\ DOMAIN runs = 1 .. Len(runs)
  <2>1. RunRecs \subseteq RunRecord
    <3>1. Seq(Seq(Toks)) \subseteq Seq(Seq(Tokens))
      BY <1>4, SeqMonotonic
    <3> QED
      BY <3>1 DEF RunRecs, RunRecord
  <2> QED
    BY <1>6, <2>1, SeqMonotonic, LenProperties
<1>9. \A c \in Conns : cur[c] # 0 => cur[c] \in DOMAIN runs /\ sess[c] = "open" /\ ~runs[cur[c]].ended
  BY DEF LogInv, Sound, Sessions, Server
<1>10. cur \in [Conns -> 0 .. Len(runs)]
  BY <1>6, <1>8, <1>9
<1>11. disk \in Seq(DOMAIN runs)
  <2>1. \A k \in DOMAIN disk : disk[k] \in DOMAIN runs
    BY DEF LogInv, Sound, Paired, Logs, Server
  <2>2. Len(disk) \in Nat /\ DOMAIN disk = 1 .. Len(disk) /\ disk \in [1 .. Len(disk) -> Nat]
    BY <1>6, LenProperties
  <2>3. disk \in [1 .. Len(disk) -> DOMAIN runs]
    BY <2>1, <2>2
  <2> QED
    BY <2>2, <2>3, SeqDef
<1>12. manifests \subseteq DOMAIN runs /\ latest \in 0 .. Len(runs)
  BY DEF LogInv, Sound, Paired, Server
<1>13. Len(runs) <= MaxRuns
  BY RunsBounded
<1> QED
  BY <1>1, <1>3, <1>5, <1>6, <1>7, <1>8, <1>9, <1>10, <1>11, <1>12, <1>13 DEF LogTypeOK

\* Types; a session has a run only while it is open and it is not finalized,
\* and one stream makes one run (Session, Ps5LogServer._read_tcp).
THEOREM LogTyping == Spec => []LogTypeOK
<1>1. Init => LogInv
  BY LogStart
<1>2. LogInv /\ [Next]_vars => LogInv'
  BY LogStep
<1>3. LogInv => LogTypeOK
  BY LogTyped
<1> QED
  BY <1>1, <1>2, <1>3, PTL DEF Spec

\* Whatever order records arrive in, and however often, one that is missing
\* between two others lies in a gap the manifest lists (Run.observe).
THEOREM GapsAlwaysCoverLoss == Spec => []GapsCoverLoss
<1>1. Init => LogInv
  BY LogStart
<1>2. LogInv /\ [Next]_vars => LogInv'
  BY LogStep
<1>3. LogInv => GapsCoverLoss
  <2> SUFFICES ASSUME LogInv, NEW i \in DOMAIN runs, NEW m \in 1 .. MaxSeq,
                      m \notin Records(runs[i]), runs[i].first < m, runs[i].first # 0,
                      NEW n \in Records(runs[i]), m < n
               PROVE  \E gap \in runs[i].gaps : gap.expected <= m /\ m < gap.got
    BY DEF GapsCoverLoss
  <2>1. Covers(runs[i])
    BY DEF LogInv, Sound, Server
  <2>2. m \in Nat
    OBVIOUS
  <2> QED
    BY <2>1, <2>2 DEF Covers
<1> QED
  BY <1>1, <1>2, <1>3, PTL DEF Spec

\* What is left on disk of a finished run is its log and its manifest, or
\* neither, unless its log was pruned while it was open (RunStore.prune,
\* Run.finalize).
THEOREM ManifestsAlwaysMatch == Spec => []ManifestsMatchLogs
<1>1. Init => LogInv
  BY LogStart
<1>2. LogInv /\ [Next]_vars => LogInv'
  BY LogStep
<1>3. LogInv => ManifestsMatchLogs
  <2> SUFFICES ASSUME LogInv, NEW r \in DOMAIN runs, runs[r].ended, ~runs[r].lost
               PROVE  r \in manifests <=> r \in ToSet(disk)
    BY DEF ManifestsMatchLogs
  <2>1. r \in manifests <=> On(disk, r)
    BY DEF LogInv, Sound, Paired, Server
  <2>2. On(disk, r) <=> r \in ToSet(disk)
    BY DEF On, ToSet
  <2> QED
    BY <2>1, <2>2
<1> QED
  BY <1>1, <1>2, <1>3, PTL DEF Spec

-----------------------------------------------------------------------------
(* That a log the server calls complete is complete, and that a stream     *)
(* loses nothing in the middle, whatever the sends, the network, the power *)
(* and the order of the calls do.  The invariant follows each connection   *)
(* from the client to the disk: what the server has written of it, what it *)
(* has read and not written, and what is in flight, taken together, are    *)
(* numbered one by one, and where they end is where the client counts on.  *)

-----------------------------------------------------------------------------
(* What FlattenSeq does to a log that grows.                               *)

\* f is the recursive function in the definition of FlattenSeq, up to k.
Flattening(s, k, f) == f = [i \in 1 .. k |-> IF i = 1 THEN s[i] ELSE f[i - 1] \o s[i]]

\* There is one, by the least k at which there is none.
LEMMA FlatExists ==
  ASSUME NEW s, NEW N \in Nat
  PROVE  \A k \in 0 .. N : \E f : Flattening(s, k, f)
<1> DEFINE T == {k \in 0 .. N : ~ \E f : Flattening(s, k, f)}
<1> SUFFICES ASSUME T # {} PROVE FALSE
  OBVIOUS
<1>1. PICK k \in T : \A m \in T : k <= m
  <2>1. T \in SUBSET Nat
    OBVIOUS
  <2> QED
    BY <2>1, Least
<1>2. k \in 0 .. N /\ ~ \E f : Flattening(s, k, f)
  BY <1>1
<1>3. CASE k = 0
  <2>1. PICK f : f = [i \in 1 .. 0 |-> s]
    OBVIOUS
  <2>2. f = [i \in 1 .. 0 |-> IF i = 1 THEN s[i] ELSE f[i - 1] \o s[i]]
    BY <2>1
  <2> QED
    BY <1>2, <1>3, <2>2 DEF Flattening
<1>4. CASE k # 0
  <2>1. k - 1 \in 0 .. N /\ k - 1 \notin T
    BY <1>1, <1>2, <1>4
  <2>2. PICK f : Flattening(s, k - 1, f)
    BY <2>1
  <2>3. PICK h : h = [i \in 1 .. k |-> IF i = k THEN (IF k = 1 THEN s[k] ELSE f[k - 1] \o s[k]) ELSE f[i]]
    OBVIOUS
  <2>4. \A i \in 1 .. k - 1 : h[i] = f[i]
    BY <1>2, <2>3
  <2>5. h = [i \in 1 .. k |-> IF i = 1 THEN s[i] ELSE h[i - 1] \o s[i]]
    <3> SUFFICES ASSUME NEW i \in 1 .. k PROVE h[i] = IF i = 1 THEN s[i] ELSE h[i - 1] \o s[i]
      BY <2>3
    <3>1. f = [j \in 1 .. k - 1 |-> IF j = 1 THEN s[j] ELSE f[j - 1] \o s[j]]
      BY <2>2 DEF Flattening
    <3>2. i # 1 => i - 1 \in 1 .. k - 1
      BY <1>2
    <3>3. i # 1 => h[i - 1] = f[i - 1]
      BY <2>4, <3>2
    <3>4. CASE i = k
      BY <2>3, <3>3, <3>4
    <3>5. CASE i # k
      <4>1. i \in 1 .. k - 1
        BY <1>2, <3>5
      <4>2. h[i] = f[i] /\ f[i] = IF i = 1 THEN s[i] ELSE f[i - 1] \o s[i]
        BY <2>4, <3>1, <4>1
      <4> QED
        BY <3>3, <4>2
    <3> QED
      BY <3>4, <3>5
  <2> QED
    BY <1>2, <2>5 DEF Flattening
<1> QED
  BY <1>3, <1>4

\* Two of them agree where both are defined, and hold what s holds.
LEMMA FlatAgree ==
  ASSUME NEW S, NEW s, NEW t, NEW n \in Nat, NEW m \in Nat, n <= m, NEW f, NEW h,
         Flattening(s, n, f), Flattening(t, m, h), \A i \in 1 .. n : s[i] = t[i] /\ s[i] \in Seq(S)
  PROVE  \A i \in 1 .. n : f[i] = h[i] /\ f[i] \in Seq(S)
<1> DEFINE T == {i \in 1 .. n : ~(f[i] = h[i] /\ f[i] \in Seq(S))}
<1> SUFFICES ASSUME T # {} PROVE FALSE
  OBVIOUS
<1>1. PICK i \in T : \A j \in T : i <= j
  <2>1. T \in SUBSET Nat
    OBVIOUS
  <2> QED
    BY <2>1, Least
<1>2. i \in 1 .. n /\ i \in 1 .. m /\ ~(f[i] = h[i] /\ f[i] \in Seq(S))
  BY <1>1
<1>3. f[i] = (IF i = 1 THEN s[i] ELSE f[i - 1] \o s[i])
  BY <1>2 DEF Flattening
<1>4. h[i] = (IF i = 1 THEN t[i] ELSE h[i - 1] \o t[i])
  BY <1>2 DEF Flattening
<1>5. s[i] = t[i] /\ s[i] \in Seq(S)
  BY <1>2
<1>6. CASE i = 1
  BY <1>2, <1>3, <1>4, <1>5, <1>6
<1>7. CASE i # 1
  <2>1. i - 1 \in 1 .. n /\ ~(i <= i - 1)
    BY <1>2, <1>7
  <2>2. f[i - 1] = h[i - 1] /\ f[i - 1] \in Seq(S)
    BY <1>1, <2>1
  <2>3. f[i - 1] \o s[i] \in Seq(S)
    BY <1>5, <2>2, ConcatProperties
  <2> QED
    BY <1>2, <1>3, <1>4, <1>5, <1>7, <2>2, <2>3
<1> QED
  BY <1>6, <1>7

\* FlattenSeq is its last value.
LEMMA FlatIs ==
  ASSUME NEW s, NEW n \in Nat, n = Len(s), n # 0
  PROVE  \E f : Flattening(s, n, f) /\ FlattenSeq(s) = f[n]
<1> DEFINE f == CHOOSE x : x = [i \in 1 .. n |-> IF i = 1 THEN s[i] ELSE x[i - 1] \o s[i]]
<1>1. FlattenSeq(s) = f[n]
  BY DEF FlattenSeq
<1>2. n \in 0 .. n
  OBVIOUS
<1>3. \E x : Flattening(s, n, x)
  BY <1>2, FlatExists
<1>4. \E x : x = [i \in 1 .. n |-> IF i = 1 THEN s[i] ELSE x[i - 1] \o s[i]]
  BY <1>3 DEF Flattening
<1>5. Flattening(s, n, f)
  BY <1>4 DEF Flattening
<1> QED
  BY <1>1, <1>5

\* Nothing has no bodies,
LEMMA FlatEmpty == FlattenSeq(<<>>) = <<>>
BY DEF FlattenSeq

\* and one more line adds its own.
LEMMA FlatAppend ==
  ASSUME NEW S, NEW s \in Seq(Seq(S)), NEW e \in Seq(S)
  PROVE  /\ FlattenSeq(s) \in Seq(S)
         /\ FlattenSeq(Append(s, e)) = FlattenSeq(s) \o e
<1>1. PICK n \in Nat : n = Len(s) /\ \A i \in 1 .. n : s[i] \in Seq(S)
  BY LenProperties, ElementOfSeq
<1>2. PICK t : t = Append(s, e)
  OBVIOUS
<1>3. Len(t) = n + 1 /\ t[n + 1] = e /\ \A i \in 1 .. n : t[i] = s[i]
  BY <1>1, <1>2, AppendProperties
<1>4. PICK h : Flattening(t, n + 1, h) /\ FlattenSeq(t) = h[n + 1]
  <2>1. n + 1 \in Nat /\ n + 1 # 0
    OBVIOUS
  <2> QED
    BY <1>3, <2>1, FlatIs
<1>5. h[n + 1] = IF n + 1 = 1 THEN e ELSE h[n] \o e
  <2>1. n + 1 \in 1 .. n + 1 /\ (n + 1) - 1 = n
    OBVIOUS
  <2>2. h[n + 1] = IF n + 1 = 1 THEN t[n + 1] ELSE h[(n + 1) - 1] \o t[n + 1]
    BY <1>4, <2>1 DEF Flattening
  <2> QED
    BY <1>3, <2>1, <2>2
<1>6. CASE n = 0
  <2>1. s = <<>>
    BY <1>1, <1>6, EmptySeq
  <2>2. FlattenSeq(s) = <<>> /\ <<>> \in Seq(S) /\ <<>> \o e = e
    BY <2>1, FlatEmpty, ConcatEmptySeq
  <2>3. FlattenSeq(t) = e
    BY <1>4, <1>5, <1>6
  <2> QED
    BY <1>2, <2>2, <2>3
<1>7. CASE n # 0
  <2>1. PICK f : Flattening(s, n, f) /\ FlattenSeq(s) = f[n]
    BY <1>1, <1>7, FlatIs
  <2>2. \A i \in 1 .. n : f[i] = h[i] /\ f[i] \in Seq(S)
    <3>1. n <= n + 1 /\ n + 1 \in Nat /\ \A i \in 1 .. n : s[i] = t[i] /\ s[i] \in Seq(S)
      BY <1>1, <1>3
    <3> QED
      BY <1>4, <2>1, <3>1, FlatAgree
  <2>3. n \in 1 .. n /\ n + 1 # 1
    BY <1>7
  <2>4. f[n] = h[n] /\ f[n] \in Seq(S)
    BY <2>2, <2>3
  <2>5. FlattenSeq(t) = f[n] \o e
    BY <1>4, <1>5, <2>3, <2>4
  <2> QED
    BY <1>2, <2>1, <2>4, <2>5
<1> QED
  BY <1>6, <1>7

-----------------------------------------------------------------------------
(* Counting records.                                                       *)

\* The number of records of a prefix: none, then one more at every record.
LEMMA RecsStep ==
  ASSUME NEW s, NEW i \in Nat
  PROVE  /\ Recs(s, i) \in Nat /\ Recs(s, 0) = 0
         /\ s[i + 1].k = "rec" => Recs(s, i + 1) = Recs(s, i) + 1
         /\ s[i + 1].k # "rec" => Recs(s, i + 1) = Recs(s, i)
<1> DEFINE R(k) == {j \in 1 .. k : s[j].k = "rec"}
<1>1. IsFiniteSet(R(i)) /\ Cardinality(R(i)) \in Nat
  <2>1. IsFiniteSet(1 .. i)
    BY FS_Interval
  <2> QED
    BY <2>1, FS_Subset, FS_CardinalityType
<1>2. Recs(s, 0) = 0
  <2>1. R(0) = {}
    OBVIOUS
  <2> QED
    BY <2>1, FS_EmptySet DEF Recs
<1>3. s[i + 1].k = "rec" => R(i + 1) = R(i) \cup {i + 1}
  OBVIOUS
<1>4. s[i + 1].k # "rec" => R(i + 1) = R(i)
  OBVIOUS
<1>5. i + 1 \notin R(i)
  OBVIOUS
<1>6. s[i + 1].k = "rec" => Cardinality(R(i + 1)) = Cardinality(R(i)) + 1
  BY <1>1, <1>3, <1>5, FS_AddElement
<1> QED
  BY <1>1, <1>2, <1>4, <1>6 DEF Recs

\* The count of a part that two sequences share is the same.
LEMMA RecsAgree ==
  ASSUME NEW s, NEW t, NEW i \in Nat, \A j \in 1 .. i : s[j] = t[j]
  PROVE  Recs(s, i) = Recs(t, i)
<1>1. {j \in 1 .. i : s[j].k = "rec"} = {j \in 1 .. i : t[j].k = "rec"}
  OBVIOUS
<1> QED
  BY <1>1 DEF Recs

-----------------------------------------------------------------------------
(* What a stream may hold: a HELLO that names the next record, records in  *)
(* order, and nothing numbered after a BYE or a record that breaks off.    *)

\* A reader has come to record n; done says that nothing numbered may follow.
Place(n, d) == [n |-> n, done |-> d]
Places == [n : Int, done : BOOLEAN]

\* The body t may stand at place s, and leads to u.
Follows(s, t, u) ==
    /\ t.k = "rec" => ~s.done /\ t.n = s.n + 1 /\ u = Place(t.n, ~t.whole)
    /\ t.k = "bye" => /\ ~s.done /\ u = Place(s.n, TRUE)
                      /\ IF t.whole THEN t.n = s.n ELSE t.n \in Shortened(s.n)
    /\ t.k = "hello" /\ t.whole => t.n = s.n + 1
    /\ t.k \notin {"rec", "bye"} => u = s

\* T can be read from place s, and leaves the reader at place u.
Reads(T, s, u) ==
    \E p : /\ p[0] = s /\ p[Len(T)] = u
           /\ \A i \in 0 .. Len(T) : p[i] \in Places
           /\ \A i \in 1 .. Len(T) : Follows(p[i - 1], T[i], p[i])

\* Reading nothing,
LEMMA ReadsNothing ==
  ASSUME NEW s \in Places
  PROVE  Reads(<<>>, s, s) /\ \A u : Reads(<<>>, s, u) => u = s
<1>1. Reads(<<>>, s, s)
  <2>1. PICK p : p = [i \in 0 .. 0 |-> s]
    OBVIOUS
  <2>2. p[0] = s /\ \A i \in 0 .. 0 : p[i] \in Places
    BY <2>1
  <2>3. Len(<<>>) = 0
    OBVIOUS
  <2> QED
    BY <2>2, <2>3 DEF Reads
<1>2. Len(<<>>) = 0
  OBVIOUS
<1> QED
  BY <1>1, <1>2 DEF Reads

\* reading from a place to a place,
LEMMA ReadsPlaces ==
  ASSUME NEW S, NEW T \in Seq(S), NEW s, NEW u, Reads(T, s, u)
  PROVE  s \in Places /\ u \in Places
<1>1. Len(T) \in Nat
  BY LenProperties
<1>2. 0 \in 0 .. Len(T) /\ Len(T) \in 0 .. Len(T)
  BY <1>1
<1> QED
  BY <1>2 DEF Reads

\* one body,
LEMMA ReadsOne ==
  ASSUME NEW t, NEW s \in Places, NEW u \in Places, Follows(s, t, u)
  PROVE  Reads(<<t>>, s, u)
<1>1. PICK p : p = [i \in 0 .. 1 |-> IF i = 0 THEN s ELSE u]
  OBVIOUS
<1>2. p[0] = s /\ p[1] = u /\ \A i \in 0 .. 1 : p[i] \in Places
  BY <1>1
<1>3. PICK T : T = <<t>>
  OBVIOUS
<1>4. Len(T) = 1 /\ T[1] = t
  BY <1>3
<1>5. \A i \in 1 .. 1 : Follows(p[i - 1], T[i], p[i])
  BY <1>2, <1>4
<1> QED
  BY <1>2, <1>3, <1>4, <1>5 DEF Reads

\* and one sequence after another.
LEMMA ReadsConcat ==
  ASSUME NEW X, NEW S \in Seq(X), NEW T \in Seq(X), NEW s, NEW u, NEW v,
         Reads(S, s, u), Reads(T, u, v)
  PROVE  Reads(S \o T, s, v)
<1>1. PICK m \in Nat : m = Len(S)
  BY LenProperties
<1>2. PICK n \in Nat : n = Len(T)
  BY LenProperties
<1>3. PICK p : /\ p[0] = s /\ p[m] = u
               /\ \A i \in 0 .. m : p[i] \in Places
               /\ \A i \in 1 .. m : Follows(p[i - 1], S[i], p[i])
  BY <1>1 DEF Reads
<1>4. PICK q : /\ q[0] = u /\ q[n] = v
               /\ \A i \in 0 .. n : q[i] \in Places
               /\ \A i \in 1 .. n : Follows(q[i - 1], T[i], q[i])
  BY <1>2 DEF Reads
<1>5. PICK r : r = S \o T
  OBVIOUS
<1>6. Len(r) = m + n /\ \A i \in 1 .. m + n : r[i] = IF i <= m THEN S[i] ELSE T[i - m]
  BY <1>1, <1>2, <1>5, ConcatProperties
<1>7. PICK h : h = [i \in 0 .. m + n |-> IF i <= m THEN p[i] ELSE q[i - m]]
  OBVIOUS
<1>8. \A i \in 0 .. m : h[i] = p[i]
  BY <1>7
<1>9. \A i \in 0 .. n : h[m + i] = q[i]
  <2> SUFFICES ASSUME NEW i \in 0 .. n PROVE h[m + i] = q[i]
    OBVIOUS
  <2>1. CASE i = 0
    <3>1. m \in 0 .. m /\ m + i = m
      BY <2>1
    <3> QED
      BY <1>3, <1>4, <1>8, <2>1, <3>1
  <2>2. CASE i # 0
    <3>1. m + i \in 0 .. m + n /\ ~(m + i <= m) /\ (m + i) - m = i
      BY <2>2
    <3> QED
      BY <1>7, <3>1
  <2> QED
    BY <2>1, <2>2
<1>10. h[0] = s /\ h[m + n] = v
  <2>1. 0 \in 0 .. m /\ n \in 0 .. n
    OBVIOUS
  <2> QED
    BY <1>3, <1>4, <1>8, <1>9, <2>1
<1>11. \A i \in 0 .. m + n : h[i] \in Places
  <2> SUFFICES ASSUME NEW i \in 0 .. m + n PROVE h[i] \in Places
    OBVIOUS
  <2>1. CASE i <= m
    <3>1. i \in 0 .. m
      BY <2>1
    <3> QED
      BY <1>3, <1>8, <3>1
  <2>2. CASE ~(i <= m)
    <3>1. i - m \in 0 .. n
      BY <2>2
    <3> QED
      BY <1>4, <1>7, <2>2, <3>1
  <2> QED
    BY <2>1, <2>2
<1>12. \A i \in 1 .. m + n : Follows(h[i - 1], r[i], h[i])
  <2> SUFFICES ASSUME NEW i \in 1 .. m + n PROVE Follows(h[i - 1], r[i], h[i])
    OBVIOUS
  <2>1. CASE i <= m
    <3>1. i \in 1 .. m /\ i \in 0 .. m /\ i - 1 \in 0 .. m
      BY <2>1
    <3>2. h[i] = p[i] /\ h[i - 1] = p[i - 1] /\ r[i] = S[i]
      BY <1>6, <1>8, <2>1, <3>1
    <3> QED
      BY <1>3, <3>1, <3>2
  <2>2. CASE ~(i <= m)
    <3>1. PICK j \in 1 .. n : j = i - m
      BY <2>2
    <3>2. j \in 0 .. n /\ j - 1 \in 0 .. n /\ m + j = i /\ m + (j - 1) = i - 1
      BY <3>1
    <3>3. h[i] = q[j] /\ h[i - 1] = q[j - 1]
      BY <1>9, <3>2
    <3>4. r[i] = T[j]
      BY <1>6, <2>2, <3>1
    <3> QED
      BY <1>4, <3>1, <3>3, <3>4
  <2> QED
    BY <2>1, <2>2
<1>13. Len(r) = m + n
  BY <1>6
<1> QED
  BY <1>5, <1>10, <1>11, <1>12, <1>13 DEF Reads

\* A stream can be read in two parts.
LEMMA ReadsSplit ==
  ASSUME NEW X, NEW T \in Seq(X), NEW s, NEW v, Reads(T, s, v), NEW k \in 0 .. Len(T)
  PROVE  \E u \in Places : Reads(SubSeq(T, 1, k), s, u) /\ Reads(SubSeq(T, k + 1, Len(T)), u, v)
<1>1. PICK n \in Nat : n = Len(T) /\ \A i \in 1 .. n : T[i] \in X
  BY LenProperties, ElementOfSeq
<1>2. PICK p : /\ p[0] = s /\ p[n] = v
               /\ \A i \in 0 .. n : p[i] \in Places
               /\ \A i \in 1 .. n : Follows(p[i - 1], T[i], p[i])
  BY <1>1 DEF Reads
<1>3. k \in 0 .. n /\ p[k] \in Places
  BY <1>1, <1>2
<1>4. Reads(SubSeq(T, 1, k), s, p[k])
  <2>1. PICK A : A = SubSeq(T, 1, k)
    OBVIOUS
  <2>2. /\ Len(A) = IF 1 <= k THEN k - 1 + 1 ELSE 0
        /\ \A i \in 1 .. k - 1 + 1 : A[i] = T[1 + i - 1]
    <3>1. k \in Int /\ 1 \in Int /\ \A i \in 1 .. k : T[i] \in X
      BY <1>1, <1>3
    <3> QED
      BY <2>1, <3>1, SubSeqProperties
  <2>3. Len(A) = k
    BY <1>3, <2>2
  <2>4. \A i \in 1 .. k : A[i] = T[i] /\ i \in 1 .. n
    BY <1>3, <2>2
  <2>5. \A i \in 0 .. k : p[i] \in Places
    BY <1>2, <1>3
  <2>6. \A i \in 1 .. k : Follows(p[i - 1], A[i], p[i])
    BY <1>2, <2>4
  <2> QED
    BY <1>2, <2>1, <2>3, <2>5, <2>6 DEF Reads
<1>5. Reads(SubSeq(T, k + 1, Len(T)), p[k], v)
  <2>1. PICK B : B = SubSeq(T, k + 1, n)
    OBVIOUS
  <2>2. /\ Len(B) = IF k + 1 <= n THEN n - (k + 1) + 1 ELSE 0
        /\ \A i \in 1 .. n - (k + 1) + 1 : B[i] = T[(k + 1) + i - 1]
    <3>1. k + 1 \in Int /\ n \in Int /\ \A i \in k + 1 .. n : T[i] \in X
      BY <1>1, <1>3
    <3> QED
      BY <2>1, <3>1, SubSeqProperties
  <2>3. PICK m \in Nat : m = n - k
    BY <1>3
  <2>4. Len(B) = m
    BY <1>3, <2>2, <2>3
  <2>5. ASSUME NEW i \in 1 .. m PROVE B[i] = T[k + i] /\ k + i \in 1 .. n /\ (k + i) - 1 = k + (i - 1)
    <3>1. i \in 1 .. n - (k + 1) + 1 /\ (k + 1) + i - 1 = k + i
      BY <1>3, <2>3
    <3>2. B[i] = T[(k + 1) + i - 1]
      BY <2>2, <3>1
    <3> QED
      BY <1>3, <2>3, <3>1, <3>2
  <2>6. PICK q : q = [i \in 0 .. m |-> p[k + i]]
    OBVIOUS
  <2>7. q[0] = p[k] /\ q[m] = v
    <3>1. 0 \in 0 .. m /\ m \in 0 .. m /\ k + 0 = k /\ k + m = n
      BY <1>3, <2>3
    <3> QED
      BY <1>2, <2>6, <3>1
  <2>8. \A i \in 0 .. m : q[i] \in Places
    <3>1. \A i \in 0 .. m : k + i \in 0 .. n
      BY <1>3, <2>3
    <3> QED
      BY <1>2, <2>6, <3>1
  <2>9. \A i \in 1 .. m : Follows(q[i - 1], B[i], q[i])
    <3> SUFFICES ASSUME NEW i \in 1 .. m PROVE Follows(q[i - 1], B[i], q[i])
      OBVIOUS
    <3>1. i \in 0 .. m /\ i - 1 \in 0 .. m
      OBVIOUS
    <3>2. q[i] = p[k + i] /\ q[i - 1] = p[k + (i - 1)]
      BY <2>6, <3>1
    <3>3. Follows(p[(k + i) - 1], T[k + i], p[k + i])
      BY <1>2, <2>5
    <3> QED
      BY <2>5, <3>2, <3>3
  <2> QED
    BY <1>1, <2>1, <2>4, <2>7, <2>8, <2>9 DEF Reads
<1> QED
  BY <1>3, <1>4, <1>5

-----------------------------------------------------------------------------
\* A body that breaks off can stand where it stood whole.
LEMMA CutFollows ==
  ASSUME NEW t \in Toks, NEW x \in Cuts(t), NEW s \in Places, NEW u, Follows(s, t, u)
  PROVE  \E v \in Places : Follows(s, x, v)
<1>1. t.k \in {"nl", "hello", "rec", "bye", "raw"} /\ t.n \in Int /\ t.whole \in BOOLEAN /\ s.n \in Int
  BY DEF Toks, Tokens, Places
<1>2. CASE x.k = "raw"
  <2>1. Follows(s, x, s)
    BY <1>2 DEF Follows
  <2> QED
    BY <2>1
<1>3. CASE x.k # "raw"
  <2>1. /\ x.k = t.k /\ ~x.whole /\ t.k \in {"rec", "bye", "hello"}
        /\ t.k = "rec" => x.n = t.n
        /\ t.k = "bye" => x.n \in Shortened(t.n)
    BY <1>3, CutsAre
  <2>2. CASE t.k = "rec"
    <3>1. Place(t.n, TRUE) \in Places
      BY <1>1 DEF Place, Places
    <3>4. (~x.whole) = TRUE
      BY <2>1
    <3>2. Follows(s, x, Place(t.n, TRUE))
      BY <2>1, <2>2, <3>4 DEF Follows
    <3> QED
      BY <3>1, <3>2
  <2>3. CASE t.k = "bye"
    <3>1. Place(s.n, TRUE) \in Places
      BY <1>1 DEF Place, Places
    <3>2. ~s.done /\ (t.n = s.n \/ t.n \in Shortened(s.n))
      BY <2>3 DEF Follows
    <3>3. x.n \in Shortened(s.n)
      BY <1>1, <2>1, <2>3, <3>2, ShortenedLess
    <3>4. Follows(s, x, Place(s.n, TRUE))
      BY <2>1, <2>3, <3>2, <3>3 DEF Follows
    <3> QED
      BY <3>1, <3>4
  <2>4. CASE t.k = "hello"
    <3>1. Follows(s, x, s)
      BY <2>1, <2>4 DEF Follows
    <3> QED
      BY <3>1
  <2> QED
    BY <2>1, <2>2, <2>3, <2>4
<1> QED
  BY <1>2, <1>3

\* What is left of a stream that was cut short can be read from the same place.
LEMMA ReadsPrefixed ==
  ASSUME limit \in Limits, NEW T \in Seq(Toks), NEW s, NEW v, Reads(T, s, v), NEW P \in Prefixed(T)
  PROVE  \E u \in Places : Reads(P, s, u)
<1>1. PICK n \in Nat : n = Len(T) /\ DOMAIN T = 1 .. n /\ \A i \in 1 .. n : T[i] \in Toks
  BY LenProperties, ElementOfSeq
<1>2. CASE \E i \in 0 .. n : P = SubSeq(T, 1, i)
  <2>1. PICK i \in 0 .. n : P = SubSeq(T, 1, i)
    BY <1>2
  <2> QED
    BY <1>1, <2>1, ReadsSplit
<1>3. CASE \E i \in {j \in 1 .. n : T[j] # NL} : \E x \in Cuts(T[i]) : P = Append(SubSeq(T, 1, i - 1), x)
  <2>16. PICK i \in 1 .. n : \E x \in Cuts(T[i]) : P = Append(SubSeq(T, 1, i - 1), x)
    BY <1>3
  <2>12. PICK t \in Cuts(T[i]) : P = Append(SubSeq(T, 1, i - 1), t)
    BY <2>16
  <2>1. P = Append(SubSeq(T, 1, i - 1), t)
    BY <2>12
  <2>2. PICK k \in 0 .. n : k = i - 1 /\ k + 1 = i /\ ~(n < i)
    OBVIOUS
  <2>3. PICK u \in Places : Reads(SubSeq(T, 1, k), s, u) /\ Reads(SubSeq(T, k + 1, n), u, v)
    BY <1>1, ReadsSplit
  <2>4. PICK B : B = SubSeq(T, i, n)
    OBVIOUS
  <2>5. PICK m \in Nat \ {0} : m = n - i + 1
    BY <2>2
  <2>6. Len(B) = m /\ B[1] = T[i]
    <3>1. \A j \in i .. n : T[j] \in Toks
      BY <1>1
    <3>2. /\ Len(SubSeq(T, i, n)) = IF i <= n THEN n - i + 1 ELSE 0
          /\ \A j \in 1 .. n - i + 1 : SubSeq(T, i, n)[j] = T[i + j - 1]
      BY <3>1, SubSeqProperties
    <3>3. 1 \in 1 .. n - i + 1 /\ i + 1 - 1 = i
      BY <2>5
    <3> QED
      BY <2>4, <2>5, <3>2, <3>3
  <2>7. PICK p : /\ p[0] = u /\ p[m] = v
                 /\ \A j \in 0 .. m : p[j] \in Places
                 /\ \A j \in 1 .. m : Follows(p[j - 1], B[j], p[j])
    BY <2>2, <2>3, <2>4, <2>6 DEF Reads
  <2>8. Follows(u, T[i], p[1])
    <3>1. 1 \in 1 .. m /\ 1 - 1 = 0
      BY <2>5
    <3> QED
      BY <2>6, <2>7, <3>1
  <2>9. PICK w \in Places : Follows(u, t, w)
    BY <1>1, <2>8, CutFollows
  <2>10. Reads(<<t>>, u, w)
    BY <2>9, ReadsOne
  <2>11. PICK A \in Seq(Toks) : A = SubSeq(T, 1, k)
    <3>1. k \in Int /\ 1 \in Int /\ \A j \in 1 .. k : T[j] \in Toks
      BY <1>1
    <3>2. SubSeq(T, 1, k) \in Seq(Toks)
      BY <3>1, SubSeqProperties
    <3> QED
      BY <3>2
  <2>13. P = A \o <<t>> /\ t \in Toks
    <3>1. t \in Toks
      BY <1>1, BodyTok
    <3>2. Append(A, t) = A \o <<t>>
      BY <3>1
    <3> QED
      BY <2>1, <2>2, <2>11, <3>1, <3>2
  <2>14. <<t>> \in Seq(Toks)
    BY <2>13
  <2>15. Reads(A \o <<t>>, s, w)
    BY <2>3, <2>10, <2>11, <2>14, ReadsConcat
  <2> QED
    BY <2>9, <2>13, <2>15
<1> QED
  BY <1>1, <1>2, <1>3 DEF Prefixed

\* Nothing changes after a BYE or a broken record.
LEMMA DoneStays ==
  ASSUME NEW n \in Nat, NEW T, NEW p, \A i \in 0 .. n : p[i] \in Places,
         \A i \in 1 .. n : Follows(p[i - 1], T[i], p[i]),
         NEW j \in 0 .. n, p[j].done
  PROVE  \A i \in j .. n : p[i] = p[j]
<1> DEFINE S == {i \in j .. n : p[i] # p[j]}
<1> SUFFICES ASSUME S # {} PROVE FALSE
  OBVIOUS
<1>1. PICK i \in S : \A m \in S : i <= m
  <2>1. S \in SUBSET Nat
    OBVIOUS
  <2> QED
    BY <2>1, Least
<1>2. i \in j .. n /\ p[i] # p[j] /\ i # j
  BY <1>1
<1>3. i - 1 \in j .. n /\ i \in 1 .. n /\ ~(i <= i - 1)
  BY <1>2
<1>4. p[i - 1] = p[j]
  BY <1>1, <1>3
<1>5. Follows(p[i - 1], T[i], p[i])
  BY <1>3
<1> QED
  BY <1>2, <1>4, <1>5 DEF Follows

\* What is numbered in a stream that can be read from place s to place v.
LEMMA ReadsCount ==
  ASSUME NEW T \in Seq(Toks), NEW s, NEW v, Reads(T, s, v)
  PROVE  /\ Consecutive(T, s.n) /\ v.n = s.n + Recs(T, Len(T))
         /\ T # <<>> /\ T[1].k = "hello" /\ T[1].whole => T[1].n = s.n + 1
         /\ \A j \in DOMAIN T : T[j].k = "bye" =>
               /\ IF T[j].whole THEN T[j].n = v.n ELSE T[j].n \in Shortened(v.n)
               /\ \A i \in DOMAIN T : T[i].k = "rec" => T[i].whole
<1>1. PICK n \in Nat : n = Len(T) /\ DOMAIN T = 1 .. n /\ \A i \in 1 .. n : T[i] \in Toks
  BY LenProperties, ElementOfSeq
<1>2. PICK p : /\ p[0] = s /\ p[n] = v
               /\ \A i \in 0 .. n : p[i] \in Places
               /\ \A i \in 1 .. n : Follows(p[i - 1], T[i], p[i])
  BY <1>1 DEF Reads
<1>3. \A i \in 0 .. n : p[i].n \in Int /\ p[i].done \in BOOLEAN
  BY <1>2 DEF Places
<1>4. ASSUME NEW i \in 0 .. n PROVE p[i].n = s.n + Recs(T, i)
  <2> DEFINE S == {k \in 0 .. n : p[k].n # s.n + Recs(T, k)}
  <2> SUFFICES ASSUME S # {} PROVE FALSE
    OBVIOUS
  <2>1. PICK k \in S : \A m \in S : k <= m
    <3>1. S \in SUBSET Nat
      OBVIOUS
    <3> QED
      BY <3>1, Least
  <2>2. k \in 0 .. n /\ p[k].n # s.n + Recs(T, k)
    BY <2>1
  <2>3. 0 \in 0 .. n /\ s.n \in Int
    BY <1>2, <1>3
  <2>4. k # 0
    <3>1. 0 \in Nat
      OBVIOUS
    <3>2. Recs(T, 0) = 0
      BY <3>1, RecsStep
    <3>3. p[0].n = s.n + 0
      BY <1>2, <2>3
    <3> QED
      BY <2>2, <3>2, <3>3
  <2>5. PICK h \in Nat : h = k - 1 /\ h + 1 = k /\ h \in 0 .. n /\ k \in 1 .. n
    BY <2>2, <2>4
  <2>6. p[h].n = s.n + Recs(T, h)
    <3>1. ~(k <= h)
      BY <2>5
    <3> QED
      BY <2>1, <2>5, <3>1
  <2>7. Follows(p[h], T[k], p[k])
    BY <1>2, <2>5
  <2>8. /\ Recs(T, h) \in Nat
        /\ T[k].k = "rec" => Recs(T, k) = Recs(T, h) + 1
        /\ T[k].k # "rec" => Recs(T, k) = Recs(T, h)
    BY <2>5, RecsStep
  <2>9. CASE T[k].k = "rec"
    <3>1. p[k].n = p[h].n + 1
      BY <2>7, <2>9 DEF Follows, Place
    <3>2. PICK a \in Int, r \in Nat : a = s.n /\ r = Recs(T, h)
      BY <2>3, <2>8
    <3>3. p[k].n = (a + r) + 1 /\ Recs(T, k) = r + 1
      BY <2>6, <2>8, <2>9, <3>1, <3>2
    <3>4. (a + r) + 1 = a + (r + 1)
      OBVIOUS
    <3> QED
      BY <2>2, <3>2, <3>3, <3>4
  <2>10. CASE T[k].k # "rec"
    <3>1. p[k].n = p[h].n
      BY <2>7, <2>10 DEF Follows, Place
    <3> QED
      BY <2>2, <2>6, <2>8, <2>10, <3>1
  <2> QED
    BY <2>9, <2>10
<1>5. Consecutive(T, s.n)
  <2> SUFFICES ASSUME NEW i \in 1 .. n, T[i].k = "rec" PROVE T[i].n = s.n + Recs(T, i)
    BY <1>1 DEF Consecutive
  <2>1. i \in 0 .. n
    OBVIOUS
  <2>3. Follows(p[i - 1], T[i], p[i])
    BY <1>2
  <2>2. p[i].n = T[i].n
    BY <2>3 DEF Follows, Place
  <2> QED
    BY <1>4, <2>1, <2>2
<1>6. v.n = s.n + Recs(T, n)
  <2>1. n \in 0 .. n
    OBVIOUS
  <2> QED
    BY <1>2, <1>4, <2>1
<1>7. T # <<>> /\ T[1].k = "hello" /\ T[1].whole => T[1].n = s.n + 1
  <2> SUFFICES ASSUME T # <<>>, T[1].k = "hello", T[1].whole PROVE T[1].n = s.n + 1
    OBVIOUS
  <2>1. 1 \in 1 .. n /\ 1 - 1 = 0
    BY <1>1, EmptySeq
  <2>2. Follows(p[0], T[1], p[1])
    BY <1>2, <2>1
  <2> QED
    BY <1>2, <2>2 DEF Follows
<1>8. ASSUME NEW j \in 1 .. n, T[j].k = "bye"
      PROVE  /\ IF T[j].whole THEN T[j].n = v.n ELSE T[j].n \in Shortened(v.n)
             /\ \A i \in 1 .. n : T[i].k = "rec" => T[i].whole
  <2>1. Follows(p[j - 1], T[j], p[j])
    BY <1>2
  <2>2. /\ ~p[j - 1].done /\ p[j] = Place(p[j - 1].n, TRUE)
        /\ IF T[j].whole THEN T[j].n = p[j - 1].n ELSE T[j].n \in Shortened(p[j - 1].n)
    BY <1>8, <2>1 DEF Follows
  <2>3. p[j].done /\ p[j].n = p[j - 1].n
    BY <2>2 DEF Place
  <2>4. j \in 0 .. n /\ n \in j .. n /\ j - 1 \in 0 .. n
    OBVIOUS
  <2>5. \A i \in j .. n : p[i] = p[j]
    BY <1>2, <2>3, <2>4, DoneStays
  <2>6. IF T[j].whole THEN T[j].n = v.n ELSE T[j].n \in Shortened(v.n)
    BY <1>2, <2>2, <2>3, <2>4, <2>5
  <2>7. ASSUME NEW i \in 1 .. n, T[i].k = "rec", ~T[i].whole PROVE FALSE
    <3>1. Follows(p[i - 1], T[i], p[i])
      BY <1>2
    <3>6. ~p[i - 1].done /\ p[i] = Place(T[i].n, ~T[i].whole)
      BY <2>7, <3>1 DEF Follows
    <3>7. (~T[i].whole) = TRUE
      BY <2>7
    <3>8. p[i] = Place(T[i].n, TRUE)
      BY <3>6, <3>7
    <3>2. ~p[i - 1].done /\ p[i].done
      BY <3>6, <3>8 DEF Place
    <3>3. i \in 0 .. n /\ i - 1 \in 0 .. n /\ i # j
      BY <1>8, <2>7
    <3>4. CASE i < j
      <4>1. j - 1 \in i .. n
        BY <3>4
      <4>2. p[j - 1] = p[i]
        <5>1. \A m \in i .. n : p[m] = p[i]
          BY <1>2, <3>2, <3>3, DoneStays
        <5> QED
          BY <4>1, <5>1
      <4> QED
        BY <2>2, <3>2, <4>2
    <3>5. CASE j < i
      <4>1. i - 1 \in j .. n
        BY <3>5
      <4> QED
        BY <2>3, <2>5, <3>2, <4>1
    <3> QED
      BY <3>3, <3>4, <3>5
  <2> QED
    BY <1>1, <2>6, <2>7 DEF Toks, Tokens
<1> QED
  BY <1>1, <1>5, <1>6, <1>7, <1>8

-----------------------------------------------------------------------------
(* What a run's manifest says stands in its log.                           *)

\* The first record, the BYE and the HELLO of a run are in its log.
Marked(r) ==
    /\ r.first # 0 => \E j \in DOMAIN Bodies(r) : Bodies(r)[j].k = "rec" /\ Bodies(r)[j].n = r.first
    /\ r.bye > 0 => \E j \in DOMAIN Bodies(r) : Bodies(r)[j].k = "bye" /\ Bodies(r)[j].n = r.bye
    /\ r.hello => /\ r.log # <<>> /\ Bodies(r) # <<>> /\ Bodies(r)[1].k = "hello"
                  /\ r.log[1][1] = Bodies(r)[1]

\* One more line: the log, its bodies, and the fields it may change.
LEMMA HandledIs ==
  ASSUME NEW x \in RunRecs, NEW line \in Seq(Toks)
  PROVE  LET h == Handled(x, line) IN
         /\ h.log = Append(x.log, line) /\ h.conn = x.conn
         /\ Bodies(x) \in Seq(Toks) /\ Bodies(h) = Bodies(x) \o line
         /\ h.first = x.first \/ (Kind(line) = "rec" /\ h.first = line[1].n)
         /\ h.bye = x.bye \/ (Kind(line) = "bye" /\ h.bye = line[1].n)
         /\ h.hello => x.hello \/ (x.log = <<>> /\ Kind(line) = "hello")
<1> DEFINE h == Handled(x, line)
           log == Append(x.log, line)
           w == [x EXCEPT !.log = log]
<1>1. x.log \in Seq(Seq(Toks))
  BY DEF RunRecs
<1>2. w = [x EXCEPT !.log = Append(@, line)]
  BY DEF RunRecs
<1>3. w.log = log /\ \A f \in {"conn", "hello", "first", "last", "gaps", "bye"} : w[f] = x[f]
  <2> HIDE DEF log
  <2> QED
    BY DEF RunRecs
<1>4. h = CASE Kind(line) = "hello" /\ x.log = <<>> -> [w EXCEPT !.hello = TRUE]
            [] Kind(line) = "bye" -> [w EXCEPT !.bye = line[1].n]
            [] Kind(line) = "rec" -> Observed(w, line[1].n)
            [] OTHER -> w
  BY <1>2 DEF Handled
<1>5. DOMAIN w = {"conn", "log", "hello", "first", "last", "gaps", "bye", "ended", "lost"}
  BY DEF RunRecs
<1> HIDE DEF h, w, log
<1>6. /\ h.log = log /\ h.conn = x.conn
      /\ h.first = x.first \/ (Kind(line) = "rec" /\ h.first = line[1].n)
      /\ h.bye = x.bye \/ (Kind(line) = "bye" /\ h.bye = line[1].n)
      /\ h.hello => x.hello \/ (x.log = <<>> /\ Kind(line) = "hello")
  <2>1. CASE Kind(line) = "hello" /\ x.log = <<>>
    <3>1. h = [w EXCEPT !.hello = TRUE]
      BY <1>4, <2>1
    <3> QED
      BY <1>3, <1>5, <2>1, <3>1
  <2>2. CASE Kind(line) = "bye"
    <3>1. h = [w EXCEPT !.bye = line[1].n]
      BY <1>4, <2>2
    <3> QED
      BY <1>3, <1>5, <2>2, <3>1
  <2>3. CASE Kind(line) = "rec"
    <3>1. h = Observed(w, line[1].n)
      BY <1>4, <2>3
    <3>2. h.log = w.log /\ h.conn = w.conn /\ h.bye = w.bye /\ h.hello = w.hello
          /\ (h.first = w.first \/ h.first = line[1].n)
      BY <1>5, <3>1 DEF Observed
    <3> QED
      BY <1>3, <2>3, <3>2
  <2>4. CASE Kind(line) \notin {"bye", "rec"} /\ ~(Kind(line) = "hello" /\ x.log = <<>>)
    <3>1. h = w
      BY <1>4, <2>4
    <3> QED
      BY <1>3, <3>1
  <2> QED
    BY <2>1, <2>2, <2>3, <2>4
<1>7. Bodies(x) \in Seq(Toks) /\ Bodies(h) = Bodies(x) \o line
  <2>1. FlattenSeq(x.log) \in Seq(Toks) /\ FlattenSeq(log) = FlattenSeq(x.log) \o line
    BY <1>1, FlatAppend DEF log
  <2> QED
    BY <1>6, <2>1 DEF Bodies
<1> QED
  BY <1>6, <1>7 DEF h, log

\* A line a parser knows is one body.
LEMMA KindIs ==
  ASSUME NEW line \in Seq(Toks), Kind(line) # "raw"
  PROVE  Len(line) = 1 /\ line[1].k = Kind(line) /\ line[1] \in Toks
BY ElementOfSeq DEF Kind

\* True of a new run, and kept by every line.
LEMMA NewMarked ==
  ASSUME NEW c
  PROVE  Marked(NewRun(c)) /\ Bodies(NewRun(c)) = <<>>
<1>1. NewRun(c).first = 0 /\ NewRun(c).bye = -1 /\ ~NewRun(c).hello /\ NewRun(c).log = <<>>
  BY DEF NewRun
<1> QED
  BY <1>1, FlatEmpty DEF Marked, Bodies

\* Another line.
LEMMA HandledMarked ==
  ASSUME NEW x \in RunRecs, NEW line \in Seq(Toks), Marked(x)
  PROVE  Marked(Handled(x, line))
<1> DEFINE h == Handled(x, line)
<1>2. PICK B \in Seq(Toks) : B = Bodies(x)
  BY HandledIs
<1>3. /\ h.log = Append(x.log, line) /\ Bodies(h) = B \o line
      /\ h.first = x.first \/ (Kind(line) = "rec" /\ h.first = line[1].n)
      /\ h.bye = x.bye \/ (Kind(line) = "bye" /\ h.bye = line[1].n)
      /\ h.hello => x.hello \/ (x.log = <<>> /\ Kind(line) = "hello")
  <2>1. /\ h.log = Append(x.log, line) /\ Bodies(h) = Bodies(x) \o line
        /\ h.first = x.first \/ (Kind(line) = "rec" /\ h.first = line[1].n)
        /\ h.bye = x.bye \/ (Kind(line) = "bye" /\ h.bye = line[1].n)
        /\ h.hello => x.hello \/ (x.log = <<>> /\ Kind(line) = "hello")
    BY HandledIs
  <2> QED
    BY <1>2, <2>1
<1> HIDE DEF h
<1>4. PICK T : T = B \o line
  OBVIOUS
<1>5. PICK m \in Nat : m = Len(B) /\ DOMAIN B = 1 .. m
  BY LenProperties
<1>6. PICK n \in Nat : n = Len(line)
  BY LenProperties
<1>7. T \in Seq(Toks) /\ Len(T) = m + n /\ \A i \in 1 .. m + n : T[i] = IF i <= m THEN B[i] ELSE line[i - m]
  BY <1>4, <1>5, <1>6, ConcatProperties
<1>8. DOMAIN T = 1 .. m + n
  BY <1>7, LenProperties
<1>9. \A i \in 1 .. m : i \in 1 .. m + n /\ T[i] = B[i]
  <2>1. \A i \in 1 .. m : i \in 1 .. m + n /\ i <= m
    OBVIOUS
  <2> QED
    BY <1>7, <2>1
<1>10. n = 1 => m + 1 \in 1 .. m + n /\ T[m + 1] = line[1]
  BY <1>7
<1>11. h.first # 0 => \E j \in DOMAIN T : T[j].k = "rec" /\ T[j].n = h.first
  <2>1. CASE h.first = x.first
    BY <1>2, <1>5, <1>8, <1>9, <2>1 DEF Marked
  <2>2. CASE Kind(line) = "rec" /\ h.first = line[1].n
    <3>1. n = 1 /\ line[1].k = "rec"
      BY <1>6, <2>2, KindIs
    <3> QED
      BY <1>8, <1>10, <2>2, <3>1
  <2> QED
    BY <1>3, <2>1, <2>2
<1>12. h.bye > 0 => \E j \in DOMAIN T : T[j].k = "bye" /\ T[j].n = h.bye
  <2>1. CASE h.bye = x.bye
    BY <1>2, <1>5, <1>8, <1>9, <2>1 DEF Marked
  <2>2. CASE Kind(line) = "bye" /\ h.bye = line[1].n
    <3>1. n = 1 /\ line[1].k = "bye"
      BY <1>6, <2>2, KindIs
    <3> QED
      BY <1>8, <1>10, <2>2, <3>1
  <2> QED
    BY <1>3, <2>1, <2>2
<1>13. h.hello => h.log # <<>> /\ T # <<>> /\ T[1].k = "hello" /\ h.log[1][1] = T[1]
  <2>1. x.log \in Seq(Seq(Toks))
    BY DEF RunRecs
  <2>2. PICK l \in Nat : l = Len(x.log)
    BY <2>1, LenProperties
  <2>3. PICK G \in Seq(Seq(Toks)) : G = Append(x.log, line)
    BY <2>1, AppendProperties
  <2>4. Len(G) = l + 1 /\ G[l + 1] = line /\ \A i \in 1 .. l : G[i] = x.log[i]
    BY <2>1, <2>2, <2>3, AppendProperties
  <2>5. G # <<>>
    BY <2>2, <2>4, EmptySeq
  <2>6. CASE x.hello
    <3>1. x.log # <<>> /\ B # <<>> /\ B[1].k = "hello" /\ x.log[1][1] = B[1]
      BY <1>2, <2>6 DEF Marked
    <3>2. l # 0 /\ m # 0
      BY <1>5, <2>1, <2>2, <3>1, EmptySeq
    <3>3. 1 \in 1 .. l /\ 1 \in 1 .. m /\ m + n # 0
      BY <3>2
    <3>4. G[1] = x.log[1] /\ T[1] = B[1] /\ T # <<>>
      BY <1>7, <1>9, <2>4, <3>3, EmptySeq
    <3> QED
      BY <1>3, <2>3, <2>5, <3>1, <3>4
  <2>7. CASE x.log = <<>> /\ Kind(line) = "hello"
    <3>1. n = 1 /\ line[1].k = "hello"
      BY <1>6, <2>7, KindIs
    <3>2. l = 0 /\ m = 0
      BY <1>2, <1>5, <2>2, <2>7, FlatEmpty, EmptySeq DEF Bodies
    <3>3. T[1] = line[1] /\ T # <<>> /\ G[1] = line
      <4>1. m + 1 = 1 /\ l + 1 = 1 /\ m + n # 0
        BY <3>1, <3>2
      <4>2. T # <<>>
        BY <1>7, <4>1, EmptySeq
      <4> QED
        BY <1>10, <2>4, <3>1, <4>1, <4>2
    <3> QED
      BY <1>3, <2>3, <2>5, <3>1, <3>3
  <2> QED
    BY <1>3, <2>6, <2>7
<1>14. Bodies(h) = T
  BY <1>3, <1>4
<1>15. Marked(h)
  BY <1>11, <1>12, <1>13, <1>14 DEF Marked
<1> QED
  BY <1>15 DEF h

\* A datagram is a line; while no gap is seen the numbers go up by one.
UdpRun(r) ==
    /\ \A i \in DOMAIN Bodies(r) : Bodies(r)[i].whole
    /\ r.first = 0 => \A i \in DOMAIN Bodies(r) : Bodies(r)[i].k # "rec"
    /\ r.first # 0 /\ r.gaps = {} =>
         /\ Consecutive(Bodies(r), r.first - 1)
         /\ r.first - 1 + Recs(Bodies(r), Len(Bodies(r))) = r.last

\* What a line does to the numbers the server keeps.
LEMMA HandledNumbers ==
  ASSUME NEW x \in RunRecs, NEW line \in Seq(Toks)
  PROVE  LET h == Handled(x, line)
             n == line[1].n
         IN  /\ Kind(line) # "rec" => h.first = x.first /\ h.last = x.last /\ h.gaps = x.gaps
             /\ Kind(line) = "rec" =>
                  /\ h.first = IF x.first = 0 THEN n ELSE x.first
                  /\ h.last = n
                  /\ x.first = 0 \/ n = x.last + 1 => h.gaps = x.gaps
                  /\ ~(x.first = 0 \/ n = x.last + 1) => h.gaps # {}
<1> DEFINE h == Handled(x, line)
           w == [x EXCEPT !.log = Append(x.log, line)]
<1>1. w = [x EXCEPT !.log = Append(@, line)]
  BY DEF RunRecs
<1>2. \A f \in {"conn", "hello", "first", "last", "gaps", "bye"} : w[f] = x[f]
  BY DEF RunRecs
<1>3. h = CASE Kind(line) = "hello" /\ x.log = <<>> -> [w EXCEPT !.hello = TRUE]
            [] Kind(line) = "bye" -> [w EXCEPT !.bye = line[1].n]
            [] Kind(line) = "rec" -> Observed(w, line[1].n)
            [] OTHER -> w
  BY <1>1 DEF Handled
<1>4. DOMAIN w = {"conn", "log", "hello", "first", "last", "gaps", "bye", "ended", "lost"}
  BY DEF RunRecs
<1> HIDE DEF h, w
<1>5. CASE Kind(line) = "rec"
  <2>1. PICK n : n = line[1].n
    OBVIOUS
  <2>2. h = Observed(w, n)
    BY <1>3, <1>5, <2>1
  <2>3. /\ h.first = IF w.first = 0 THEN n ELSE w.first
        /\ h.last = n
        /\ h.gaps = IF w.first # 0 /\ n # w.last + 1 THEN w.gaps \cup {[expected |-> w.last + 1, got |-> n]}
                    ELSE w.gaps
    BY <1>4, <2>2 DEF Observed
  <2>4. w.first = x.first /\ w.last = x.last /\ w.gaps = x.gaps
    BY <1>2
  <2>5. ~(x.first = 0 \/ n = x.last + 1) => h.gaps # {}
    BY <2>3, <2>4
  <2> QED
    BY <1>5, <2>1, <2>3, <2>4, <2>5 DEF h
<1>6. CASE Kind(line) # "rec"
  <2>1. h = [w EXCEPT !.hello = TRUE] \/ h = [w EXCEPT !.bye = line[1].n] \/ h = w
    BY <1>3, <1>6
  <2>2. h.first = w.first /\ h.last = w.last /\ h.gaps = w.gaps
    BY <1>4, <2>1
  <2> QED
    BY <1>2, <1>6, <2>2 DEF h
<1> QED
  BY <1>5, <1>6

\* True of a new run.
LEMMA NewUdp ==
  ASSUME NEW c
  PROVE  UdpRun(NewRun(c))
<1>1. Bodies(NewRun(c)) = <<>> /\ NewRun(c).first = 0
  BY NewMarked DEF NewRun
<1>2. DOMAIN <<>> = {}
  OBVIOUS
<1> QED
  BY <1>1, <1>2 DEF UdpRun

\* Another datagram.
LEMMA HandledUdp ==
  ASSUME limit \in Limits, NEW x \in RunRecs, NEW t \in Toks, t.whole, UdpRun(x)
  PROVE  UdpRun(Handled(x, <<t>>))
<1> DEFINE h == Handled(x, <<t>>)
<1>1. PICK line \in Seq(Toks) : line = <<t>> /\ Len(line) = 1 /\ line[1] = t /\ Kind(line) = t.k
  <2>1. <<t>> \in Seq(Toks) /\ Len(<<t>>) = 1 /\ <<t>>[1] = t
    OBVIOUS
  <2>2. Kind(<<t>>) = t.k
    BY <2>1 DEF Kind
  <2> QED
    BY <2>1, <2>2
<1>2. PICK B \in Seq(Toks) : B = Bodies(x)
  BY <1>1, HandledIs
<1>3. Bodies(h) = B \o line
  <2>1. Bodies(Handled(x, line)) = Bodies(x) \o line
    BY HandledIs
  <2>2. Handled(x, line) = h
    BY <1>1
  <2> QED
    BY <1>2, <2>1, <2>2
<1>4. /\ t.k # "rec" => h.first = x.first /\ h.last = x.last /\ h.gaps = x.gaps
      /\ t.k = "rec" =>
           /\ h.first = IF x.first = 0 THEN t.n ELSE x.first
           /\ h.last = t.n
           /\ x.first = 0 \/ t.n = x.last + 1 => h.gaps = x.gaps
           /\ ~(x.first = 0 \/ t.n = x.last + 1) => h.gaps # {}
  <2> DEFINE k == Handled(x, line)
  <2>1. /\ Kind(line) # "rec" => k.first = x.first /\ k.last = x.last /\ k.gaps = x.gaps
        /\ Kind(line) = "rec" =>
             /\ k.first = IF x.first = 0 THEN line[1].n ELSE x.first
             /\ k.last = line[1].n
             /\ x.first = 0 \/ line[1].n = x.last + 1 => k.gaps = x.gaps
             /\ ~(x.first = 0 \/ line[1].n = x.last + 1) => k.gaps # {}
    BY HandledNumbers
  <2>2. k = h
    BY <1>1
  <2> HIDE DEF k, h
  <2> QED
    BY <1>1, <2>1, <2>2
<1> HIDE DEF h
<1>5. PICK m \in Nat : m = Len(B) /\ DOMAIN B = 1 .. m
  BY LenProperties
<1>6. PICK T \in Seq(Toks) : T = B \o line
  BY ConcatProperties
<1>7. Len(T) = m + 1 /\ \A i \in 1 .. m + 1 : T[i] = IF i <= m THEN B[i] ELSE line[i - m]
  BY <1>1, <1>5, <1>6, ConcatProperties
<1>8. /\ T[m + 1] = t /\ \A i \in 1 .. m : T[i] = B[i]
      /\ DOMAIN T = 1 .. m + 1 /\ \A i \in 1 .. m + 1 : i \in 1 .. m \/ i = m + 1
  <2>1. T[m + 1] = line[m + 1 - m] /\ m + 1 - m = 1
    BY <1>7
  <2>2. \A i \in 1 .. m : i \in 1 .. m + 1 /\ i <= m
    OBVIOUS
  <2>3. DOMAIN T = 1 .. m + 1
    BY <1>7, LenProperties
  <2> QED
    BY <1>1, <1>7, <2>1, <2>2, <2>3
<1>9. \A i \in 1 .. m : Recs(T, i) = Recs(B, i)
  <2> SUFFICES ASSUME NEW i \in 1 .. m PROVE Recs(T, i) = Recs(B, i)
    OBVIOUS
  <2>1. i \in Nat /\ \A j \in 1 .. i : T[j] = B[j]
    BY <1>8
  <2> QED
    BY <2>1, RecsAgree
<1>10. PICK r \in Nat : r = Recs(B, m) /\ Recs(T, m) = r
  <2>1. Recs(T, m) = Recs(B, m)
    BY <1>8, RecsAgree
  <2> QED
    BY <2>1, RecsStep
<1>11. Recs(T, m + 1) = IF t.k = "rec" THEN r + 1 ELSE r
  BY <1>8, <1>10, RecsStep
<1>12. \A i \in 1 .. m + 1 : T[i].whole
  BY <1>2, <1>5, <1>8 DEF UdpRun
<1>13. ASSUME NEW b, Consecutive(B, b), t.k = "rec" => t.n = b + Recs(T, m + 1)
       PROVE  Consecutive(T, b)
  <2> SUFFICES ASSUME NEW i \in 1 .. m + 1, T[i].k = "rec" PROVE T[i].n = b + Recs(T, i)
    BY <1>8 DEF Consecutive
  <2>1. CASE i = m + 1
    BY <1>8, <1>13, <2>1
  <2>2. CASE i # m + 1
    <3>1. i \in 1 .. m /\ T[i] = B[i] /\ Recs(T, i) = Recs(B, i)
      BY <1>8, <1>9, <2>2
    <3> QED
      BY <1>5, <1>13, <3>1 DEF Consecutive
  <2> QED
    BY <2>1, <2>2
<1>14. x.first \in Nat /\ x.last \in Nat
  BY Bounds DEF RunRecs
<1>15. CASE t.k # "rec"
  <2>1. h.first = x.first /\ h.last = x.last /\ h.gaps = x.gaps
    BY <1>4, <1>15
  <2>2. h.first = 0 => \A i \in 1 .. m + 1 : T[i].k # "rec"
    BY <1>2, <1>5, <1>8, <1>15, <2>1 DEF UdpRun
  <2>3. ASSUME h.first # 0, h.gaps = {}
        PROVE  Consecutive(T, h.first - 1) /\ h.first - 1 + Recs(T, m + 1) = h.last
    <3>1. Consecutive(B, x.first - 1) /\ x.first - 1 + r = x.last
      BY <1>2, <1>5, <1>10, <2>1, <2>3 DEF UdpRun
    <3> QED
      BY <1>11, <1>13, <1>15, <2>1, <3>1
  <2> QED
    BY <1>3, <1>6, <1>7, <1>8, <1>12, <2>2, <2>3 DEF UdpRun, h
<1>16. CASE t.k = "rec" /\ x.first = 0
  <2>1. t.n \in Nat \ {0}
    BY <1>16 DEF Toks
  <2>2. h.first = t.n /\ h.last = t.n
    BY <1>4, <1>16
  <2>3. \A i \in 1 .. m : B[i].k # "rec"
    BY <1>2, <1>5, <1>16 DEF UdpRun
  <2>4. r = 0
    <3>1. {j \in 1 .. m : B[j].k = "rec"} = {}
      BY <2>3
    <3> QED
      BY <1>10, <3>1, FS_EmptySet DEF Recs
  <2>5. Consecutive(B, t.n - 1)
    BY <1>5, <2>3 DEF Consecutive
  <2>6. Recs(T, m + 1) = 1
    BY <1>11, <1>16, <2>4
  <2>7. t.n = t.n - 1 + Recs(T, m + 1)
    BY <2>1, <2>6
  <2>8. Consecutive(T, t.n - 1)
    BY <1>13, <2>5, <2>7
  <2> QED
    BY <1>3, <1>6, <1>7, <1>8, <1>12, <2>1, <2>2, <2>7, <2>8 DEF UdpRun, h
<1>17. CASE t.k = "rec" /\ x.first # 0
  <2>1. t.n \in Nat
    BY <1>17 DEF Toks
  <2>2. h.first = x.first /\ h.last = t.n
    BY <1>4, <1>17
  <2>3. ASSUME h.gaps = {}
        PROVE  Consecutive(T, x.first - 1) /\ x.first - 1 + Recs(T, m + 1) = t.n
    <3>1. t.n = x.last + 1 /\ x.gaps = {}
      BY <1>4, <1>17, <2>3
    <3>2. Consecutive(B, x.first - 1) /\ x.first - 1 + r = x.last
      BY <1>2, <1>5, <1>10, <1>17, <3>1 DEF UdpRun
    <3>3. x.first - 1 + Recs(T, m + 1) = t.n
      <4>1. Recs(T, m + 1) = r + 1
        BY <1>11, <1>17
      <4>2. x.first - 1 + (r + 1) = (x.first - 1 + r) + 1
        BY <1>14
      <4> QED
        BY <3>1, <3>2, <4>1, <4>2
    <3> QED
      BY <1>13, <3>2, <3>3
  <2> QED
    BY <1>3, <1>6, <1>7, <1>8, <1>12, <1>17, <2>2, <2>3 DEF UdpRun, h
<1> QED
  BY <1>15, <1>16, <1>17

\* What is known of every run, whatever its connection.
Fine(v) == \A i \in DOMAIN v.runs : Marked(v.runs[i]) /\ (mode = "udp" => UdpRun(v.runs[i]))

\* A new run is a record of the right type.
LEMMA NewRunTyped ==
  ASSUME limit \in Limits, NEW c \in Conns
  PROVE  NewRun(c) \in RunRecs
BY Bounds DEF NewRun, RunRecs

\* A line, which over UDP is a whole datagram, leaves fine runs fine.
LEMMA AddsFine ==
  ASSUME limit \in Limits, NEW v, Sound(v), Fine(v), NEW c \in Conns, NEW line \in Seq(Toks),
         mode = "udp" => \E t \in Toks : t.whole /\ line = <<t>>,
         NEW w, Adds(v, w, c, line)
  PROVE  Fine(w)
<1>1. PICK r \in DOMAIN w.runs :
         /\ \A i \in DOMAIN w.runs \ {r} : i \in DOMAIN v.runs /\ w.runs[i] = v.runs[i]
         /\ r \in DOMAIN v.runs => v.runs[r].conn = c /\ w.runs[r] = Handled(v.runs[r], line)
         /\ r \notin DOMAIN v.runs => v.cur[c] = 0 /\ w.runs[r] = Handled(NewRun(c), line)
  BY DEF Adds
<1>2. \A i \in DOMAIN v.runs : v.runs[i] \in RunRecs
  BY ElementOfSeq, LenProperties DEF Sound, Stores
<1>3. ASSUME NEW x \in RunRecs, Marked(x), mode = "udp" => UdpRun(x)
      PROVE  Marked(Handled(x, line)) /\ (mode = "udp" => UdpRun(Handled(x, line)))
  <2>1. Marked(Handled(x, line))
    BY <1>3, HandledMarked
  <2>2. ASSUME mode = "udp" PROVE UdpRun(Handled(x, line))
    <3>1. PICK t \in Toks : t.whole /\ line = <<t>>
      BY <2>2
    <3> QED
      BY <1>3, <2>2, <3>1, HandledUdp
  <2> QED
    BY <2>1, <2>2
<1>4. Marked(w.runs[r]) /\ (mode = "udp" => UdpRun(w.runs[r]))
  <2>1. CASE r \in DOMAIN v.runs
    BY <1>1, <1>2, <1>3, <2>1 DEF Fine
  <2>2. CASE r \notin DOMAIN v.runs
    BY <1>1, <1>3, <2>2, NewRunTyped, NewMarked, NewUdp
  <2> QED
    BY <2>1, <2>2
<1>5. \A i \in DOMAIN w.runs \ {r} : Marked(w.runs[i]) /\ (mode = "udp" => UdpRun(w.runs[i]))
  BY <1>1 DEF Fine
<1> QED
  BY <1>4, <1>5 DEF Fine

\* Finalizing changes nothing of it.
LEMMA SameFine ==
  ASSUME NEW v, NEW w, Fine(v), SameRuns(v, w)
  PROVE  Fine(w)
<1> SUFFICES ASSUME NEW i \in DOMAIN w.runs
             PROVE  Marked(w.runs[i]) /\ (mode = "udp" => UdpRun(w.runs[i]))
  BY DEF Fine
<1>1. i \in DOMAIN v.runs /\ Alike(w.runs[i], v.runs[i])
  BY DEF SameRuns
<1>2. Marked(v.runs[i]) /\ (mode = "udp" => UdpRun(v.runs[i]))
  BY <1>1 DEF Fine
<1>3. Bodies(w.runs[i]) = Bodies(v.runs[i])
  BY <1>1 DEF Alike, Bodies
<1>4. Marked(w.runs[i])
  BY <1>1, <1>2, <1>3 DEF Alike, Marked
<1>5. mode = "udp" => UdpRun(w.runs[i])
  BY <1>1, <1>2, <1>3 DEF Alike, UdpRun
<1> QED
  BY <1>4, <1>5

\* Nor does the end of a session.
LEMMA FlushesFine ==
  ASSUME limit \in Limits, NEW v, Sound(v), Fine(v), NEW c \in Conns, NEW w, Flushes(v, w, c)
  PROVE  Fine(w)
<1>1. PICK t : /\ \/ t = v /\ v.buf[c] = <<>>
                  \/ /\ v.buf[c] # <<>>
                     /\ Adds(v, t, c, v.buf[c])
                     /\ t.buf[c] = <<>>
               /\ SameRuns(t, w)
  BY DEF Flushes
<1>2. v.buf[c] \in Seq(Toks) /\ (mode = "udp" => v.buf[c] = <<>>)
  BY DEF Sound, Stores, Bounded
<1>3. Fine(t)
  BY <1>1, <1>2, AddsFine
<1> QED
  BY <1>1, <1>3, SameFine

\* The run of a connection, of which a stream has one at most.
RunsOf(v, c) == {i \in DOMAIN v.runs : v.runs[i].conn = c}
Got(v, c) == IF RunsOf(v, c) = {} THEN <<>> ELSE Bodies(v.runs[CHOOSE i \in RunsOf(v, c) : TRUE])

\* What the server has of a connection: written, or read and not written yet.
Past(v, c) == Got(v, c) \o v.buf[c]

\* The run of a stream is the only one of its connection.
LEMMA GotIs ==
  ASSUME NEW v, Sound(v), mode # "udp", NEW i \in DOMAIN v.runs
  PROVE  Got(v, v.runs[i].conn) = Bodies(v.runs[i]) /\ v.runs[i].conn \in Conns
<1>1. \A j \in DOMAIN v.runs : v.runs[i].conn = v.runs[j].conn => i = j
  BY DEF Sound, Bounded
<1>2. RunsOf(v, v.runs[i].conn) = {i}
  BY <1>1 DEF RunsOf
<1>3. (CHOOSE j \in {i} : TRUE) = i
  OBVIOUS
<1>4. v.runs[i] \in RunRecs
  BY ElementOfSeq, LenProperties DEF Sound, Stores
<1> QED
  BY <1>2, <1>3, <1>4 DEF Got, RunRecs

\* Types of the bodies of a run,
LEMMA BodiesTyped ==
  ASSUME NEW r \in RunRecs
  PROVE  Bodies(r) \in Seq(Toks)
BY FlatAppend DEF Bodies, RunRecs

\* of what is written of a connection,
LEMMA GotTyped ==
  ASSUME NEW v, Sound(v), NEW c
  PROVE  Got(v, c) \in Seq(Toks)
<1>1. CASE RunsOf(v, c) = {}
  BY <1>1 DEF Got
<1>2. CASE RunsOf(v, c) # {}
  <2>1. PICK i \in RunsOf(v, c) : i = CHOOSE j \in RunsOf(v, c) : TRUE
    BY <1>2
  <2>2. v.runs[i] \in RunRecs
    <3>1. i \in DOMAIN v.runs
      BY <2>1 DEF RunsOf
    <3> QED
      BY <3>1, ElementOfSeq, LenProperties DEF Sound, Stores
  <2> QED
    BY <1>2, <2>1, <2>2, BodiesTyped DEF Got
<1> QED
  BY <1>1, <1>2

\* and of all the server has of it.
LEMMA PastTyped ==
  ASSUME NEW v, Sound(v), NEW c \in Conns
  PROVE  Past(v, c) \in Seq(Toks) /\ v.buf[c] \in Seq(Toks)
<1>1. v.buf[c] \in Seq(Toks)
  BY DEF Sound, Stores
<1> QED
  BY <1>1, GotTyped, ConcatProperties DEF Past

\* A line goes to the end of its connection, and to no other.
LEMMA AddsPast ==
  ASSUME NEW v, Sound(v), mode # "udp", NEW c \in Conns, v.sess[c] = "open", NEW line \in Seq(Toks),
         limit \in Limits, NEW w, Sound(w), Adds(v, w, c, line)
  PROVE  /\ Got(w, c) = Got(v, c) \o line
         /\ \A b \in Conns : b # c => Got(w, b) = Got(v, b) /\ w.buf[b] = v.buf[b]
<1>1. PICK r \in DOMAIN w.runs :
         /\ \A i \in DOMAIN w.runs \ {r} : i \in DOMAIN v.runs /\ w.runs[i] = v.runs[i]
         /\ r \in DOMAIN v.runs => v.runs[r].conn = c /\ w.runs[r] = Handled(v.runs[r], line)
         /\ r \notin DOMAIN v.runs => v.cur[c] = 0 /\ w.runs[r] = Handled(NewRun(c), line)
  BY DEF Adds
<1>2. /\ \A b \in Conns : b # c => w.buf[b] = v.buf[b]
      /\ DOMAIN v.runs \subseteq DOMAIN w.runs
  BY DEF Adds
<1>3. \A i \in DOMAIN v.runs : v.runs[i] \in RunRecs
  BY ElementOfSeq, LenProperties DEF Sound, Stores
<1>4. PICK x \in RunRecs :
         /\ w.runs[r] = Handled(x, line) /\ x.conn = c /\ Got(v, c) = Bodies(x)
  <2>1. CASE r \in DOMAIN v.runs
    BY <1>1, <1>3, <2>1, GotIs
  <2>2. CASE r \notin DOMAIN v.runs
    <3>1. NewRun(c) \in RunRecs /\ NewRun(c).conn = c /\ Bodies(NewRun(c)) = <<>>
      BY NewRunTyped, NewMarked DEF NewRun
    <3>2. RunsOf(v, c) = {}
      <4> SUFFICES ASSUME NEW i \in DOMAIN v.runs, v.runs[i].conn = c PROVE FALSE
        BY DEF RunsOf
      <4>1. v.cur[c] = i
        BY DEF Sound, Bounded
      <4>2. i # 0
        <5>1. v.runs \in Seq(RunRecs)
          BY DEF Sound, Stores
        <5>2. i \in 1 .. Len(v.runs) /\ Len(v.runs) \in Nat
          BY <5>1, LenProperties
        <5> QED
          BY <5>2
      <4> QED
        BY <1>1, <2>2, <4>1, <4>2
    <3>3. Got(v, c) = <<>>
      BY <3>2 DEF Got
    <3> QED
      BY <1>1, <2>2, <3>1, <3>3
  <2> QED
    BY <2>1, <2>2
<1>5. w.runs[r].conn = c /\ Bodies(w.runs[r]) = Bodies(x) \o line
  <2> DEFINE h == Handled(x, line)
  <2>1. h.conn = x.conn /\ Bodies(h) = Bodies(x) \o line
    BY HandledIs
  <2> QED
    BY <1>4, <2>1
<1>6. Got(w, c) = Got(v, c) \o line
  BY <1>4, <1>5, GotIs
<1>7. ASSUME NEW b \in Conns, b # c PROVE Got(w, b) = Got(v, b)
  <2>1. RunsOf(w, b) = RunsOf(v, b) /\ \A i \in RunsOf(v, b) : w.runs[i] = v.runs[i]
    <3>1. ASSUME NEW i \in RunsOf(w, b) PROVE i \in RunsOf(v, b)
      BY <1>1, <1>5, <1>7, <3>1 DEF RunsOf
    <3>2. ASSUME NEW i \in RunsOf(v, b) PROVE i \in RunsOf(w, b) /\ w.runs[i] = v.runs[i]
      BY <1>1, <1>2, <1>5, <1>7, <3>2 DEF RunsOf
    <3> QED
      BY <3>1, <3>2
  <2>2. CASE RunsOf(v, b) = {}
    BY <2>1, <2>2 DEF Got
  <2>3. CASE RunsOf(v, b) # {}
    <3>1. PICK i \in RunsOf(v, b) : i = CHOOSE j \in RunsOf(v, b) : TRUE
      BY <2>3
    <3> QED
      BY <2>1, <2>3, <3>1 DEF Got
  <2> QED
    BY <2>2, <2>3
<1> QED
  BY <1>2, <1>6, <1>7

\* Finalizing changes nothing of what is written.
LEMMA SameGot ==
  ASSUME NEW v, NEW w, SameRuns(v, w), NEW c
  PROVE  Got(w, c) = Got(v, c)
<1>1. RunsOf(w, c) = RunsOf(v, c)
  BY DEF RunsOf, SameRuns, Alike
<1>2. CASE RunsOf(v, c) = {}
  BY <1>1, <1>2 DEF Got
<1>3. CASE RunsOf(v, c) # {}
  <2>1. PICK i \in RunsOf(v, c) : i = CHOOSE j \in RunsOf(v, c) : TRUE
    BY <1>3
  <2>2. Bodies(w.runs[i]) = Bodies(v.runs[i])
    BY <2>1 DEF RunsOf, SameRuns, Alike, Bodies
  <2> QED
    BY <1>1, <1>3, <2>1, <2>2 DEF Got
<1> QED
  BY <1>2, <1>3

\* The end of a session loses nothing that has been read.
LEMMA EndedPast ==
  ASSUME limit \in Limits, NEW v, Sound(v), mode # "udp", NEW c \in Conns, v.sess[c] = "open",
         NEW d \in Conns
  PROVE  Past(Ended(v, c), d) = Past(v, d)
<1> DEFINE w == Ended(v, c)
<1>1. Flushes(v, w, c)
  BY EndSound
<1> HIDE DEF w
<1>2. PICK t : /\ \/ t = v /\ v.buf[c] = <<>>
                  \/ /\ v.buf[c] # <<>>
                     /\ Adds(v, t, c, v.buf[c])
                     /\ t.buf[c] = <<>>
               /\ Sound(t) /\ SameRuns(t, w) /\ w.buf = t.buf
  BY <1>1 DEF Flushes
<1>3. Got(w, d) = Got(t, d) /\ w.buf[d] = t.buf[d]
  BY <1>2, SameGot
<1>4. CASE t = v
  BY <1>3, <1>4 DEF Past, w
<1>5. CASE Adds(v, t, c, v.buf[c]) /\ t.buf[c] = <<>>
  <2>1. v.buf[c] \in Seq(Toks) /\ Got(v, c) \in Seq(Toks)
    BY GotTyped, PastTyped
  <2>2. /\ Got(t, c) = Got(v, c) \o v.buf[c]
        /\ \A b \in Conns : b # c => Got(t, b) = Got(v, b) /\ t.buf[b] = v.buf[b]
    BY <1>2, <1>5, <2>1, AddsPast
  <2>3. CASE d = c
    <3>1. Past(w, c) = Got(t, c) \o <<>>
      BY <1>3, <1>5, <2>3 DEF Past
    <3>2. Past(v, c) = Got(t, c) /\ Past(v, c) \in Seq(Toks)
      BY <2>2, PastTyped DEF Past
    <3>3. Past(v, c) \o <<>> = Past(v, c)
      BY <3>2, ConcatEmptySeq
    <3> QED
      BY <2>3, <3>1, <3>2, <3>3 DEF w
  <2>4. CASE d # c
    BY <1>3, <2>2, <2>4 DEF Past, w
  <2> QED
    BY <2>3, <2>4
<1> QED
  BY <1>2, <1>4, <1>5

\* The stream of a connection: what the server has of it and what is in flight
\* are numbered from some b, and an open channel is at a place in E.
Flow(w, v, c, E) ==
    \E b \in Nat, e \in Places :
        /\ Reads(Past(v, c) \o w.wire[c], Place(b, FALSE), e)
        /\ w.g.fd = c /\ w.link[c] = "up" => e \in E

\* A socket that was never opened left no trace.
Unused(w, v, c) ==
    c > w.g.used => w.wire[c] = <<>> /\ w.link[c] = "new" /\ v.sess[c] = "none" /\ Past(v, c) = <<>>

\* A datagram arrives whole or not at all.
Whole(w) == \A c \in Conns : \A i \in DOMAIN w.wire[c] : w.wire[c][i].whole

\* What is known of the client w and the store v, by the transport.
Right(w, v, E) ==
    /\ mode = "udp" => Whole(w)
    /\ mode # "udp" => /\ w.g.fd <= w.g.used
                       /\ \A c \in Conns : Flow(w, v, c, E) /\ Unused(w, v, c)

\* Nothing of a stream changes but that its end may close.
Weaker(w, x) ==
    /\ x.wire = w.wire /\ x.g.used = w.g.used /\ x.g.fd \in {0, w.g.fd}
    /\ \A c \in Conns : x.link[c] = w.link[c] \/ (w.link[c] = "up" /\ x.link[c] = "fin")

\* Then what was known still is, at more places if need be.
LEMMA WeakerRight ==
  ASSUME NEW w, Typed(w), NEW x, NEW v, NEW E, NEW F, Right(w, v, E), Weaker(w, x),
         x.g.fd = 0 \/ E \subseteq F
  PROVE  Right(x, v, F)
<1>1. mode = "udp" => Whole(x)
  BY DEF Right, Weaker, Whole
<1>2. ASSUME mode # "udp" PROVE x.g.fd <= x.g.used
  <2>1. w.g.fd <= w.g.used /\ w.g.used \in Nat
    BY <1>2 DEF Right, Typed, ClientState
  <2> QED
    BY <2>1 DEF Weaker
<1>3. ASSUME mode # "udp", NEW c \in Conns PROVE Flow(x, v, c, F) /\ Unused(x, v, c)
  <2>1. Flow(w, v, c, E) /\ Unused(w, v, c)
    BY <1>3 DEF Right
  <2>2. c # 0
    BY <1>3 DEF Conns
  <2>3. x.link[c] = w.link[c] \/ (w.link[c] = "up" /\ x.link[c] = "fin")
    BY DEF Weaker
  <2>4. Flow(x, v, c, F)
    <3>1. PICK b \in Nat, e \in Places :
            /\ Reads(Past(v, c) \o w.wire[c], Place(b, FALSE), e)
            /\ w.g.fd = c /\ w.link[c] = "up" => e \in E
      BY <2>1 DEF Flow
    <3>2. x.g.fd = c /\ x.link[c] = "up" => e \in F
      BY <2>2, <2>3, <3>1 DEF Weaker
    <3>3. x.wire[c] = w.wire[c]
      BY DEF Weaker
    <3> QED
      BY <3>1, <3>2, <3>3 DEF Flow
  <2>5. Unused(x, v, c)
    BY <2>1, <2>3 DEF Unused, Weaker
  <2> QED
    BY <2>4, <2>5
<1> QED
  BY <1>1, <1>2, <1>3 DEF Right

\* Such changes one after the other,
LEMMA WeakerWeaker ==
  ASSUME NEW w, NEW x, NEW y, Weaker(w, x), Weaker(x, y)
  PROVE  Weaker(w, y)
<1>1. y.wire = w.wire /\ y.g.used = w.g.used /\ y.g.fd \in {0, w.g.fd}
  BY DEF Weaker
<1>2. ASSUME NEW c \in Conns PROVE y.link[c] = w.link[c] \/ (w.link[c] = "up" /\ y.link[c] = "fin")
  <2>1. x.link[c] = w.link[c] \/ (w.link[c] = "up" /\ x.link[c] = "fin")
    BY DEF Weaker
  <2>2. y.link[c] = x.link[c] \/ (x.link[c] = "up" /\ y.link[c] = "fin")
    BY DEF Weaker
  <2> QED
    BY <2>1, <2>2
<1> QED
  BY <1>1, <1>2 DEF Weaker

\* a release,
LEMMA ReleasedWeaker ==
  ASSUME NEW w, Typed(w)
  PROVE  Weaker(w, Released(w)) /\ Released(w).link = w.link
<1>1. CASE ~w.g.active
  BY <1>1 DEF Released, Weaker
<1>2. CASE w.g.active
  <2> DEFINE r == Released(w)
             d == [s \in Streams |-> IF s \in w.g.saved THEN Tty ELSE w.std[s]]
             h == [w.g EXCEPT !.saved = {}, !.active = FALSE]
  <2>1. r = [w EXCEPT !.std = d, !.g = h]
    BY <1>2 DEF Released, Typed, Worlds, ClientState
  <2>2. h.fd = w.g.fd /\ h.used = w.g.used
    BY DEF Typed, ClientState
  <2> HIDE DEF d, h, r
  <2>3. r.g = h /\ r.wire = w.wire /\ r.link = w.link
    BY <2>1 DEF Typed, Worlds
  <2>4. Weaker(w, r)
    BY <2>2, <2>3 DEF Weaker
  <2> QED
    BY <2>3, <2>4 DEF r
<1> QED
  BY <1>1, <1>2

\* the end of a stream,
LEMMA ShutWeaker ==
  ASSUME NEW w, Typed(w), NEW c \in Conns
  PROVE  Weaker(w, Shut(w, c))
<1> DEFINE l == [w.link EXCEPT ![c] = "fin"]
           x == [w EXCEPT !.link = l]
<1>1. Shut(w, c) = w \/ (Shut(w, c) = x /\ w.link[c] = "up")
  BY DEF Shut, Typed, Worlds
<1>2. CASE Shut(w, c) = w
  BY <1>2 DEF Weaker
<1>3. CASE Shut(w, c) = x /\ w.link[c] = "up"
  <2>1. \A b \in Conns : l[b] = w.link[b] \/ (w.link[b] = "up" /\ l[b] = "fin")
    BY <1>3 DEF Typed, Worlds
  <2> HIDE DEF l
  <2>2. x.g = w.g /\ x.wire = w.wire /\ x.link = l
    BY DEF Typed, Worlds
  <2> HIDE DEF x
  <2>3. Weaker(w, x)
    BY <2>1, <2>2 DEF Weaker
  <2> QED
    BY <1>3, <2>3
<1> QED
  BY <1>1, <1>2, <1>3

\* A channel that is disabled.
LEMMA DisabledWeaker ==
  ASSUME limit \in Limits, NEW w, Typed(w)
  PROVE  Weaker(w, Disabled(w)) /\ Disabled(w).g.fd = 0 /\ Disabled(w).g.seq = w.g.seq
<1> DEFINE r == Released(w)
           h == [r.g EXCEPT !.fd = 0]
           v == [r EXCEPT !.g = h]
<1>1. Typed(r) /\ Weaker(w, r) /\ r.g.seq = w.g.seq
  BY ReleaseTyped, ReleasedWeaker
<1>2. MaxConns \in Nat
  BY Bounds
<1>3. Disabled(w) = IF r.g.fd = 0 THEN r ELSE Shut(v, r.g.fd)
  BY <1>1 DEF Disabled, Typed, Worlds, ClientState
<1> HIDE DEF r
<1>4. h \in ClientState /\ h.fd = 0 /\ h.used = r.g.used /\ h.seq = r.g.seq
  BY <1>1, <1>2 DEF Typed, ClientState
<1> HIDE DEF h
<1>5. Typed(v) /\ v.g = h /\ v.wire = r.wire /\ v.link = r.link
  BY <1>1, <1>4 DEF Typed, Worlds
<1>6. r.g.fd # 0 => r.g.fd \in Conns
  BY <1>1, <1>2 DEF Typed, ClientState, Conns
<1> HIDE DEF v
<1>7. Weaker(r, v)
  BY <1>4, <1>5 DEF Weaker
<1>8. CASE r.g.fd = 0
  BY <1>1, <1>3, <1>8
<1>9. CASE r.g.fd # 0
  <2>1. Weaker(v, Shut(v, r.g.fd)) /\ Shut(v, r.g.fd).g = v.g
    BY <1>5, <1>6, <1>9, ShutWeaker, ShutTyped
  <2>2. Weaker(w, Shut(v, r.g.fd))
    BY <1>1, <1>7, <2>1, WeakerWeaker
  <2> QED
    BY <1>1, <1>3, <1>4, <1>5, <1>9, <2>1, <2>2
<1> QED
  BY <1>8, <1>9

\* and a capture, applied or half applied, are of this kind.
LEMMA AppliedWeaker ==
  ASSUME NEW w, Typed(w), NEW flags, NEW v \in Applied(w, flags)
  PROVE  Weaker(w, v.w) /\ v.w.g.seq = w.g.seq
<1> DEFINE H(a) == [w.g EXCEPT !.saved = @ \cup flags, !.active = a]
<1>1. CASE v = [ok |-> TRUE, w |-> w]
  BY <1>1 DEF Weaker
<1>2. CASE v = [ok |-> TRUE,
                w |-> [w EXCEPT !.std = [s \in Streams |-> IF s \in flags THEN w.g.fd ELSE w.std[s]],
                                !.g.saved = @ \cup flags, !.g.active = (flags # {})]]
  <2> DEFINE d == [s \in Streams |-> IF s \in flags THEN w.g.fd ELSE w.std[s]]
             h == H(flags # {})
  <2>1. v.w = [w EXCEPT !.std = d, !.g = h]
    BY <1>2 DEF Typed, Worlds, ClientState
  <2>2. h.fd = w.g.fd /\ h.used = w.g.used /\ h.seq = w.g.seq
    BY DEF Typed, ClientState
  <2> HIDE DEF d, h
  <2>3. v.w.g = h /\ v.w.wire = w.wire /\ v.w.link = w.link
    BY <2>1 DEF Typed, Worlds
  <2> QED
    BY <2>2, <2>3 DEF Weaker
<1>3. CASE v = [ok |-> FALSE, w |-> [w EXCEPT !.std["out"] = w.g.fd, !.g.saved = @ \cup flags]]
  <2> DEFINE d == [w.std EXCEPT !["out"] = w.g.fd]
             h == [w.g EXCEPT !.saved = @ \cup flags]
  <2>1. v.w = [w EXCEPT !.std = d, !.g = h]
    BY <1>3 DEF Typed, Worlds
  <2>2. h.fd = w.g.fd /\ h.used = w.g.used /\ h.seq = w.g.seq
    BY DEF Typed, ClientState
  <2> HIDE DEF d, h
  <2>3. v.w.g = h /\ v.w.wire = w.wire /\ v.w.link = w.link
    BY <2>1 DEF Typed, Worlds
  <2> QED
    BY <2>2, <2>3 DEF Weaker
<1> QED
  BY <1>1, <1>2, <1>3 DEF Applied

\* What is read of two sequences is read of one after the other.
LEMMA ReadsApart ==
  ASSUME NEW X, NEW S \in Seq(X), NEW T \in Seq(X), NEW s, NEW v, Reads(S \o T, s, v)
  PROVE  \E u \in Places : Reads(S, s, u) /\ Reads(T, u, v)
<1>1. PICK n \in Nat, m \in Nat : n = Len(S) /\ m = Len(T)
  BY LenProperties
<1>2. PICK C \in Seq(X) : C = S \o T
  BY ConcatProperties
<1>3. /\ Len(C) = n + m /\ \A i \in 1 .. n + m : C[i] = IF i <= n THEN S[i] ELSE T[i - n]
      /\ \A i \in 1 .. n + m : C[i] \in X
  BY <1>1, <1>2, ConcatProperties, ElementOfSeq
<1>4. SubSeq(C, 1, n) = S
  <2>1. \A i \in 1 .. n : C[i] \in X /\ C[i] = S[i] /\ i \in 1 .. n + m
    BY <1>3
  <2>2. /\ SubSeq(C, 1, n) \in Seq(X)
        /\ Len(SubSeq(C, 1, n)) = IF 1 <= n THEN n - 1 + 1 ELSE 0
        /\ \A i \in 1 .. n - 1 + 1 : SubSeq(C, 1, n)[i] = C[1 + i - 1]
    BY <2>1, SubSeqProperties
  <2>3. n - 1 + 1 = n /\ \A i \in 1 .. n : 1 + i - 1 = i
    OBVIOUS
  <2>4. Len(SubSeq(C, 1, n)) = n
    BY <2>2, <2>3
  <2>5. \A i \in 1 .. n : SubSeq(C, 1, n)[i] = S[i]
    BY <2>1, <2>2, <2>3
  <2> QED
    BY <1>1, <2>2, <2>4, <2>5, SeqEqual
<1>5. SubSeq(C, n + 1, n + m) = T
  <2>1. \A i \in n + 1 .. n + m : C[i] \in X
    BY <1>3
  <2>2. /\ SubSeq(C, n + 1, n + m) \in Seq(X)
        /\ Len(SubSeq(C, n + 1, n + m)) = IF n + 1 <= n + m THEN n + m - (n + 1) + 1 ELSE 0
        /\ \A i \in 1 .. n + m - (n + 1) + 1 : SubSeq(C, n + 1, n + m)[i] = C[n + 1 + i - 1]
    BY <2>1, SubSeqProperties
  <2>3. n + m - (n + 1) + 1 = m /\ \A i \in 1 .. m : n + 1 + i - 1 = n + i
    OBVIOUS
  <2>4. Len(SubSeq(C, n + 1, n + m)) = m
    BY <2>2, <2>3
  <2>5. \A i \in 1 .. m : C[n + i] = T[i]
    <3> SUFFICES ASSUME NEW i \in 1 .. m PROVE C[n + i] = T[i]
      OBVIOUS
    <3>1. n + i \in 1 .. n + m /\ ~(n + i <= n) /\ n + i - n = i
      OBVIOUS
    <3> QED
      BY <1>3, <3>1
  <2>6. \A i \in 1 .. m : SubSeq(C, n + 1, n + m)[i] = T[i]
    BY <2>2, <2>3, <2>5
  <2> QED
    BY <1>1, <2>2, <2>4, <2>6, SeqEqual
<1>6. n \in 0 .. Len(C)
  BY <1>3
<1>7. Reads(C, s, v)
  BY <1>2
<1>8. \E u \in Places : Reads(SubSeq(C, 1, n), s, u) /\ Reads(SubSeq(C, n + 1, Len(C)), u, v)
  BY <1>6, <1>7, ReadsSplit
<1> QED
  BY <1>3, <1>4, <1>5, <1>8

\* The places of a count.
LEMMA PlaceIn ==
  ASSUME NEW n \in Nat
  PROVE  Place(n, FALSE) \in Places /\ Place(n, TRUE) \in Places
BY DEF Place, Places

\* A newline means nothing.
LEMMA NlReads ==
  ASSUME NEW s \in Places
  PROVE  Reads(<<NL>>, s, s)
BY ReadsOne DEF Follows, NL

\* What a message ends with.
LEMMA EndTyped ==
  ASSUME limit \in Limits, NEW end \in {<<>>, <<NL>>}
  PROVE  end \in Seq(Toks)
<1>1. NL \in Toks
  BY BodyTok
<1>2. <<NL>> \in Seq(Toks)
  BY <1>1
<1>3. <<>> \in Seq(Toks)
  OBVIOUS
<1> QED
  BY <1>2, <1>3

\* One message, and the newline after it.
LEMMA SendReads ==
  ASSUME limit \in Limits, NEW t \in Toks, NEW s \in Places, NEW u \in Places, Follows(s, t, u),
         NEW end \in {<<>>, <<NL>>}
  PROVE  /\ Reads(<<t>> \o end, s, u) /\ Reads(<<t>>, s, u)
         /\ \A q \in Cuts(t) : \E z \in Places : Reads(<<q>>, s, z)
<1>1. Reads(<<t>>, s, u)
  BY ReadsOne
<1>3. ASSUME NEW q \in Cuts(t) PROVE \E z \in Places : Reads(<<q>>, s, z)
  <2>1. PICK z \in Places : Follows(s, q, z)
    BY CutFollows
  <2> QED
    BY <2>1, ReadsOne
<1>4. Reads(end, u, u)
  BY ReadsNothing, NlReads
<1>5. <<t>> \in Seq(Toks) /\ end \in Seq(Toks)
  <2>1. <<t>> \in Seq(Toks)
    OBVIOUS
  <2> QED
    BY <2>1, EndTyped
<1> QED
  BY <1>1, <1>3, <1>4, <1>5, ReadsConcat

\* What a message makes of the channel.
LEMMA SendsRight ==
  ASSUME limit \in Limits, NEW w, Typed(w), w.g.fd # 0, NEW v, Sound(v),
         NEW t \in Toks, t.whole, NEW end \in {<<>>, <<NL>>},
         NEW s \in Places, NEW u \in Places, Follows(s, t, u), Right(w, v, {s}),
         NEW x \in Sends(w, t, end)
  PROVE  Right(x.w, v, IF x.ok THEN {u} ELSE Places) /\ x.w.g = w.g /\ Typed(x.w)
<1>1. PICK r \in SendAll(w.link[w.g.fd], t, end, w.faults) :
        x = [ok |-> r.ok, w |-> [w EXCEPT !.wire[w.g.fd] = @ \o r.sent, !.faults = r.faults]]
  BY DEF Sends
<1>2. w.g.fd \in Conns /\ w.faults \in 0 .. limit.faults
  BY Bounds DEF Typed, Worlds, ClientState, Conns
<1>3. r.sent \in Seq(Toks)
  BY <1>2, SendTyped
<1>4. PICK c \in Conns : c = w.g.fd
  BY <1>2
<1> DEFINE y == [w.wire EXCEPT ![c] = w.wire[c] \o r.sent]
<1>5. x.w = [w EXCEPT !.wire = y, !.faults = r.faults] /\ x.ok = r.ok
  BY <1>1, <1>4 DEF Typed, Worlds
<1>6. w.wire[c] \in Seq(Toks) /\ w.wire \in [Conns -> Seq(Toks)]
  BY DEF Typed, Worlds
<1>7. y[c] = w.wire[c] \o r.sent /\ \A b \in Conns : b # c => y[b] = w.wire[b]
  BY <1>6
<1> HIDE DEF y
<1>8. Typed(x.w) /\ x.w.g = w.g
  BY SendsTyped
<1>9. x.w.wire = y /\ x.w.link = w.link
  BY <1>5 DEF Typed, Worlds
<1>10. /\ w.link[c] # "up" => r.sent = <<>>
       /\ r.sent \in {<<>>, <<t>>, <<t>> \o end} \/ \E q \in Cuts(t) : r.sent = <<q>>
       /\ mode = "udp" => r.sent \in {<<>>, <<t>>}
       /\ r.ok /\ w.link[c] = "up" /\ mode # "udp" => r.sent = <<t>> \o end
  <2>1. CASE w.link[c] # "up"
    BY <1>1, <1>4, <2>1 DEF SendAll
  <2>2. CASE w.link[c] = "up"
    <3>1. \/ r.ok = TRUE /\ r.sent = IF mode = "udp" THEN <<t>> ELSE <<t>> \o end
          \/ /\ r.ok = FALSE /\ (mode = "udp" => r.sent = <<>>)
             /\ r.sent \in {<<>>, <<t>>} \/ \E z \in Cuts(t) : r.sent = <<z>>
      <4> DEFINE S == IF w.faults = limit.faults THEN {}
                      ELSE {<<>>} \cup (IF mode = "udp" THEN {}
                                       ELSE {<<z>> : z \in Cuts(t)} \cup (IF end = <<>> THEN {} ELSE {<<t>>}))
      <4>1. \/ r \in {[ok |-> TRUE, sent |-> IF mode = "udp" THEN <<t>> ELSE <<t>> \o end, faults |-> w.faults]}
            \/ r \in {[ok |-> FALSE, sent |-> q, faults |-> w.faults + 1] : q \in S}
        BY <1>1, <1>4, <2>2 DEF SendAll
      <4>2. \A q \in S : (mode = "udp" => q = <<>>) /\ (q \in {<<>>, <<t>>} \/ \E z \in Cuts(t) : q = <<z>>)
        OBVIOUS
      <4> HIDE DEF S
      <4>3. CASE \E q \in S : r = [ok |-> FALSE, sent |-> q, faults |-> w.faults + 1]
        <5>1. PICK q \in S : r = [ok |-> FALSE, sent |-> q, faults |-> w.faults + 1]
          BY <4>3
        <5>2. r.ok = FALSE /\ r.sent = q
          BY <5>1
        <5> QED
          BY <4>2, <5>2
      <4>4. CASE r \in {[ok |-> TRUE, sent |-> IF mode = "udp" THEN <<t>> ELSE <<t>> \o end, faults |-> w.faults]}
        <5>1. PICK q : q = IF mode = "udp" THEN <<t>> ELSE <<t>> \o end
          OBVIOUS
        <5>2. r.ok = TRUE /\ r.sent = q
          BY <4>4, <5>1
        <5> QED
          BY <5>1, <5>2
      <4> QED
        BY <4>1, <4>3, <4>4
    <3> QED
      BY <2>2, <3>1
  <2> QED
    BY <2>1, <2>2
<1> DEFINE E == IF x.ok THEN {u} ELSE Places
<1>11. mode = "udp" => Whole(x.w)
  <2> SUFFICES ASSUME mode = "udp", NEW b \in Conns, NEW i \in DOMAIN y[b] PROVE y[b][i].whole
    BY <1>9 DEF Whole
  <2>1. CASE b # c
    BY <1>7, <2>1 DEF Right, Whole
  <2>2. CASE b = c
    <3>1. PICK W \in Seq(Toks) : W = w.wire[c] /\ \A j \in DOMAIN W : W[j].whole
      BY <1>6 DEF Right, Whole
    <3>2. CASE r.sent = <<>>
      BY <1>6, <1>7, <2>2, <3>1, <3>2, ConcatEmptySeq
    <3>3. CASE r.sent = <<t>>
      <4>1. PICK k \in Nat : k = Len(W) /\ DOMAIN W = 1 .. k
        BY LenProperties
      <4>2. PICK R \in Seq(Toks) : R = <<t>> /\ Len(R) = 1 /\ R[1] = t
        <5>1. <<t>> \in Seq(Toks) /\ Len(<<t>>) = 1 /\ <<t>>[1] = t
          OBVIOUS
        <5> QED
          BY <5>1
      <4>3. y[b] = W \o R
        BY <1>7, <2>2, <3>1, <3>3, <4>2
      <4>4. /\ W \o R \in Seq(Toks) /\ Len(W \o R) = k + 1
            /\ \A j \in 1 .. k + 1 : (W \o R)[j] = IF j <= k THEN W[j] ELSE R[j - k]
        BY <4>1, <4>2, ConcatProperties
      <4>5. PICK j \in 1 .. k + 1 : j = i
        BY <4>3, <4>4, LenProperties
      <4>6. CASE j <= k
        BY <3>1, <4>1, <4>3, <4>4, <4>5, <4>6
      <4>7. CASE j > k
        <5>1. j - k = 1 /\ ~(j <= k)
          BY <4>7
        <5> QED
          BY <4>2, <4>3, <4>4, <4>5, <5>1
      <4> QED
        BY <4>6, <4>7
    <3> QED
      BY <1>10, <3>2, <3>3
  <2> QED
    BY <2>1, <2>2
<1>12. ASSUME mode # "udp", NEW b \in Conns PROVE Flow(x.w, v, b, E) /\ Unused(x.w, v, b)
  <2>1. Flow(w, v, b, {s}) /\ Unused(w, v, b)
    BY <1>12 DEF Right
  <2>2. PICK n \in Nat, e \in Places :
          /\ Reads(Past(v, b) \o w.wire[b], Place(n, FALSE), e)
          /\ w.g.fd = b /\ w.link[b] = "up" => e \in {s}
    BY <2>1 DEF Flow
  <2>3. CASE b # c
    <3>1. x.w.wire[b] = w.wire[b]
      BY <1>7, <1>9, <2>3
    <3>2. x.w.g.fd # b
      BY <1>4, <1>8, <2>3
    <3>3. Flow(x.w, v, b, E)
      BY <2>2, <3>1, <3>2 DEF Flow
    <3>4. Unused(x.w, v, b)
      BY <1>8, <1>9, <2>1, <3>1 DEF Unused
    <3> QED
      BY <3>3, <3>4
  <2>4. CASE b = c
    <3>1. c <= w.g.used
      BY <1>4, <1>12 DEF Right
    <3>2. Unused(x.w, v, b)
      <4>1. w.g.used \in Nat /\ c \in Nat
        BY DEF Typed, ClientState, Conns
      <4> QED
        BY <1>8, <2>4, <3>1, <4>1 DEF Unused
    <3>3. Past(v, c) \in Seq(Toks)
      BY PastTyped
    <3>4. PICK P \in Seq(Toks) : P = Past(v, c) \o w.wire[c]
      BY <1>6, <3>3, ConcatProperties
    <3>5. Past(v, c) \o x.w.wire[c] = P \o r.sent
      <4>1. x.w.wire[c] = w.wire[c] \o r.sent
        BY <1>7, <1>9
      <4>2. PICK A \in Seq(Toks), B \in Seq(Toks), C \in Seq(Toks) :
              A = Past(v, c) /\ B = w.wire[c] /\ C = r.sent
        BY <1>3, <1>6, <3>3
      <4>3. (A \o B) \o C = A \o (B \o C)
        BY ConcatAssociative
      <4> QED
        BY <3>4, <4>1, <4>2, <4>3
    <3>6. CASE r.sent = <<>>
      <4>1. Past(v, c) \o x.w.wire[c] = P
        BY <3>4, <3>5, <3>6, ConcatEmptySeq
      <4>2. w.link[c] = "up" => ~x.ok
        <5>1. <<t>> \o end # <<>>
          <6>1. <<t>> \in Seq(Toks)
            OBVIOUS
          <6>3. end \in Seq(Toks)
            BY EndTyped
          <6>2. <<t>> # <<>>
            OBVIOUS
          <6> QED
            BY <6>1, <6>2, <6>3, ConcatEqualIffEmpty
        <5> QED
          BY <1>5, <1>10, <1>12, <3>6, <5>1
      <4>3. w.link[c] = "up" => e \in E
        BY <4>2
      <4> QED
        BY <1>9, <2>2, <2>4, <3>2, <3>4, <4>1, <4>3 DEF Flow
    <3>7. CASE r.sent # <<>>
      <4>1. w.link[c] = "up" /\ e = s
        BY <1>4, <1>10, <2>2, <2>4, <3>7
      <4>2. PICK z \in Places : Reads(r.sent, s, z) /\ (x.ok => z = u)
        <5>1. CASE r.ok
          <6>1. r.sent = <<t>> \o end
            BY <1>10, <1>12, <4>1, <5>1
          <6> QED
            BY <6>1, SendReads
        <5>2. CASE ~r.ok
          <6>1. r.sent \in {<<t>>, <<t>> \o end} \/ \E q \in Cuts(t) : r.sent = <<q>>
            BY <1>10, <3>7
          <6>2. \E z \in Places : Reads(r.sent, s, z)
            BY <6>1, SendReads
          <6> QED
            BY <1>5, <5>2, <6>2
        <5> QED
          BY <5>1, <5>2
      <4>3. Reads(P \o r.sent, Place(n, FALSE), z)
        BY <1>3, <2>2, <2>4, <3>4, <4>1, <4>2, ReadsConcat
      <4>4. z \in E
        BY <4>2
      <4> HIDE DEF E
      <4> QED
        BY <2>4, <3>2, <3>5, <4>2, <4>3, <4>4 DEF Flow
    <3> QED
      BY <3>6, <3>7
  <2> QED
    BY <2>3, <2>4
<1>13. mode # "udp" => x.w.g.fd <= x.w.g.used
  BY <1>8 DEF Right
<1> QED
  BY <1>8, <1>11, <1>12, <1>13 DEF Right

\* A message that went out, or a channel that is down.
LEMMA DeliveredRight ==
  ASSUME limit \in Limits, NEW w, Typed(w), w.g.fd # 0, NEW v, Sound(v),
         NEW t \in Toks, t.whole, NEW end \in {<<>>, <<NL>>},
         NEW s \in Places, NEW u \in Places, Follows(s, t, u), Right(w, v, {s}),
         NEW y \in Delivered(w, t, end)
  PROVE  Right(y, v, {u}) /\ y.g.seq = w.g.seq /\ Typed(y)
<1>1. PICK x \in Sends(w, t, end) : y = IF x.ok THEN x.w ELSE Disabled(x.w)
  BY DEF Delivered
<1>2. Right(x.w, v, IF x.ok THEN {u} ELSE Places) /\ x.w.g = w.g /\ Typed(x.w)
  BY SendsRight
<1>3. CASE x.ok
  BY <1>1, <1>2, <1>3
<1>4. CASE ~x.ok
  <2>1. /\ y = Disabled(x.w) /\ Weaker(x.w, y) /\ y.g.fd = 0 /\ y.g.seq = w.g.seq /\ Typed(y)
    BY <1>1, <1>2, <1>4, DisabledWeaker, DisableTyped
  <2> QED
    BY <1>2, <2>1, WeakerRight
<1> QED
  BY <1>3, <1>4

\* A session that is closed.
LEMMA ClosedRight ==
  ASSUME limit \in Limits, NEW w, Typed(w), NEW v, Sound(v), Right(w, v, {Place(w.g.seq, FALSE)}),
         NEW y \in Closed(w), NEW F
  PROVE  Right(y, v, F) /\ y.g.fd = 0 /\ y.g.seq = w.g.seq /\ Typed(y)
<1> DEFINE r == Released(w)
<1>1. Typed(r) /\ Weaker(w, r) /\ r.g.seq = w.g.seq
  BY ReleaseTyped, ReleasedWeaker
<1>2. Right(r, v, {Place(w.g.seq, FALSE)})
  BY <1>1, WeakerRight
<1>3. Typed(y)
  BY CloseTyped
<1>4. CASE r.g.fd = 0
  <2>1. y = r
    BY <1>4 DEF Closed
  <2> HIDE DEF r
  <2>2. Weaker(r, r)
    BY DEF Weaker
  <2>3. Right(r, v, F)
    BY <1>1, <1>2, <1>4, <2>2, WeakerRight
  <2> QED
    BY <1>1, <1>3, <1>4, <2>1, <2>3
<1>5. CASE r.g.fd # 0
  <2>1. PICK c : c = r.g.fd
    OBVIOUS
  <2>2. PICK x \in Sends(r, Body("bye", r.g.seq), <<NL>>) :
          y = [x.w EXCEPT !.g.fd = 0, !.link[c] = IF @ = "up" THEN "fin" ELSE @]
    BY <1>5, <2>1 DEF Closed
  <2> HIDE DEF r
  <2>3. c \in Conns /\ r.g.seq \in 0 .. MaxSeq
    BY <1>1, <1>5, <2>1, Bounds DEF Typed, ClientState, Conns
  <2>4. PICK n \in Nat : n = r.g.seq /\ n = w.g.seq
    BY <1>1, <2>3
  <2>5. PICK t \in Toks : t = Body("bye", n) /\ t.whole
    <3>1. Body("bye", n) \in Toks
      BY <2>3, <2>4, BodyTok
    <3>2. Body("bye", n).whole = TRUE
      BY DEF Body
    <3> QED
      BY <3>1, <3>2
  <2>6. Place(n, FALSE) \in Places /\ Place(n, TRUE) \in Places
    BY PlaceIn
  <2>7. Follows(Place(n, FALSE), Body("bye", n), Place(n, TRUE))
    BY DEF Follows, Place, Body
  <2>8. /\ Right(x.w, v, IF x.ok THEN {Place(n, TRUE)} ELSE Places)
        /\ x.w.g = r.g /\ Typed(x.w)
    <3>1. Right(r, v, {Place(n, FALSE)})
      BY <1>2, <2>4
    <3>2. x \in Sends(r, t, <<NL>>) /\ Follows(Place(n, FALSE), t, Place(n, TRUE))
      BY <2>2, <2>4, <2>5, <2>7
    <3>3. PICK p \in Places, u \in Places : p = Place(n, FALSE) /\ u = Place(n, TRUE)
      BY <2>6
    <3>4. PICK end \in {<<>>, <<NL>>} : end = <<NL>>
      OBVIOUS
    <3>5. x \in Sends(r, t, end) /\ Follows(p, t, u) /\ Right(r, v, {p})
      BY <3>1, <3>2, <3>3, <3>4
    <3>6. Right(x.w, v, IF x.ok THEN {u} ELSE Places) /\ x.w.g = r.g /\ Typed(x.w)
      BY <1>1, <1>5, <2>5, <3>5, SendsRight
    <3> QED
      BY <3>3, <3>6
  <2> DEFINE l == [x.w.link EXCEPT ![c] = IF @ = "up" THEN "fin" ELSE @]
             h == [x.w.g EXCEPT !.fd = 0]
  <2>9. \A b \in Conns : l[b] = x.w.link[b] \/ (x.w.link[b] = "up" /\ l[b] = "fin")
    BY <2>3, <2>8 DEF Typed, Worlds
  <2>10. h.fd = 0 /\ h.used = x.w.g.used /\ h.seq = x.w.g.seq
    BY <2>8 DEF Typed, ClientState
  <2>11. y = [x.w EXCEPT !.g = h, !.link = l]
    BY <2>2, <2>8 DEF Typed, Worlds
  <2> HIDE DEF l, h
  <2>12. y.g = h /\ y.wire = x.w.wire /\ y.link = l
    BY <2>8, <2>11 DEF Typed, Worlds
  <2>13. Weaker(x.w, y)
    BY <2>9, <2>10, <2>12 DEF Weaker
  <2>14. Right(y, v, F)
    BY <2>8, <2>10, <2>12, <2>13, WeakerRight
  <2> QED
    BY <1>1, <1>3, <2>8, <2>10, <2>12, <2>14
<1> QED
  BY <1>4, <1>5

\* A connection that is opened, or not.
LEMMA OpenedRight ==
  ASSUME limit \in Limits, NEW w, Typed(w), NEW v, Sound(v), NEW E, Right(w, v, E),
         NEW y \in Opened(w)
  PROVE  Right(y, v, {Place(y.g.seq, FALSE)}) /\ Typed(y)
<1> DEFINE c == w.g.used + 1
           up == [w EXCEPT !.g.fd = c, !.g.used = c, !.link[c] = "up"]
<1>1. CASE y = Disabled(w)
  <2>1. Weaker(w, y) /\ y.g.fd = 0 /\ Typed(y)
    BY <1>1, DisabledWeaker, DisableTyped
  <2> QED
    BY <2>1, WeakerRight
<1>2. CASE c <= limit.conns /\ y \in Delivered(up, Body("hello", w.g.seq + 1), <<NL>>)
  <2>1. c \in Conns /\ c \in 1 .. MaxConns
    BY <1>2, Bounds DEF Typed, ClientState, Conns
  <2>2. PICK n \in Nat : n = w.g.seq /\ Body("hello", n + 1) \in Toks
    BY BodyTok DEF Typed, ClientState
  <2> DEFINE l == [w.link EXCEPT ![c] = "up"]
             h == [w.g EXCEPT !.fd = c, !.used = c]
  <2>3. up = [w EXCEPT !.g = h, !.link = l]
    BY DEF Typed, Worlds, ClientState
  <2>4. l \in [Conns -> Links] /\ \A b \in Conns : b # c => l[b] = w.link[b]
    BY <2>1 DEF Typed, Worlds, Links
  <2>5. w.g.used \in Nat /\ \A b \in Conns : b \in Nat /\ (b > c => b > w.g.used) /\ c > w.g.used
    BY DEF Typed, ClientState, Conns
  <2> HIDE DEF c
  <2>6. h.fd = c /\ c # 0 /\ h.used = c /\ h.seq = n
    BY <2>1, <2>2, Bounds DEF Typed, ClientState
  <2>7. h \in ClientState
    <3>1. c \in 0 .. MaxConns
      BY <2>1, Bounds
    <3> QED
      BY <3>1 DEF Typed, ClientState
  <2> HIDE DEF l, h, up
  <2>8. up.g = h /\ up.link = l /\ up.wire = w.wire /\ Typed(up)
    BY <2>3, <2>4, <2>7 DEF Typed, Worlds
  <2>9. Place(n, FALSE) \in Places
    BY PlaceIn
  <2>10. mode = "udp" => Whole(up)
    BY <2>8 DEF Right, Whole
  <2>11. ASSUME mode # "udp", NEW b \in Conns
         PROVE  Flow(up, v, b, {Place(n, FALSE)}) /\ Unused(up, v, b)
    <3>1. Flow(w, v, b, E) /\ Unused(w, v, b)
      BY <2>11 DEF Right
    <3>2. Unused(up, v, b)
      <4> SUFFICES ASSUME b > c
                   PROVE  up.wire[b] = <<>> /\ up.link[b] = "new" /\ v.sess[b] = "none" /\ Past(v, b) = <<>>
        BY <2>6, <2>8 DEF Unused
      <4>1. b > w.g.used /\ b # c
        BY <2>1, <2>5
      <4> QED
        BY <2>4, <2>8, <3>1, <4>1 DEF Unused
    <3>3. CASE b = c
      <4>1. w.wire[b] = <<>> /\ Past(v, b) = <<>>
        BY <2>5, <3>1, <3>3 DEF Unused
      <4>2. Past(v, b) \o up.wire[b] = <<>>
        <5>1. <<>> \in Seq(Toks)
          OBVIOUS
        <5> QED
          BY <2>8, <4>1, <5>1, ConcatEmptySeq
      <4>3. Reads(<<>>, Place(n, FALSE), Place(n, FALSE))
        BY <2>9, ReadsNothing
      <4>4. Flow(up, v, b, {Place(n, FALSE)})
        BY <2>9, <4>2, <4>3 DEF Flow
      <4> QED
        BY <3>2, <4>4
    <3>4. CASE b # c
      <4>1. up.g.fd # b /\ up.wire[b] = w.wire[b]
        BY <2>6, <2>8, <3>4
      <4>2. Flow(up, v, b, {Place(n, FALSE)})
        BY <3>1, <4>1 DEF Flow
      <4> QED
        BY <3>2, <4>2
    <3> QED
      BY <3>3, <3>4
  <2>12. up.g.fd <= up.g.used /\ up.g.fd # 0
    BY <2>1, <2>6, <2>8
  <2>13. Right(up, v, {Place(n, FALSE)})
    BY <2>10, <2>11, <2>12 DEF Right
  <2>14. PICK t \in Toks : t = Body("hello", n + 1)
    BY <2>2
  <2>15. t.whole /\ Follows(Place(n, FALSE), t, Place(n, FALSE))
    BY <2>14 DEF Follows, Place, Body
  <2>16. y \in Delivered(up, t, <<NL>>)
    BY <1>2, <2>2, <2>14
  <2>17. Right(y, v, {Place(n, FALSE)}) /\ y.g.seq = up.g.seq /\ Typed(y)
    BY <2>8, <2>9, <2>12, <2>13, <2>15, <2>16, DeliveredRight
  <2> QED
    BY <2>6, <2>8, <2>17
<1>3. c \in Nat /\ limit.conns \in Nat
  BY Bounds DEF Typed, ClientState
<1>4. y = Disabled(w) \/ (~(c > limit.conns) /\ y \in Delivered(up, Body("hello", w.g.seq + 1), <<NL>>))
  BY DEF Opened
<1>5. ~(c > limit.conns) => c <= limit.conns
  BY <1>3
<1> QED
  BY <1>1, <1>2, <1>4, <1>5

-----------------------------------------------------------------------------
\* Every stream holds what the client numbered, in order, and the last place
\* of an open channel is the client's own count.
StreamInv == Fine(Server) /\ Right(World, Server, {Place(g.seq, FALSE)})

\* A call of the client that ends in a world the invariant allows.
LEMMA BecomesRight ==
  ASSUME ClientInv, NEW w, Typed(w), Becomes(w), UNCHANGED serverVars,
         StreamInv, Right(w, Server, {Place(w.g.seq, FALSE)})
  PROVE  StreamInv'
<1>1. limit' = limit /\ Server' = Server
  BY DEF Becomes, Server, serverVars
<1>2. w = [g |-> w.g, std |-> w.std, wire |-> w.wire, link |-> w.link, faults |-> w.faults]
  BY DEF Typed, Worlds
<1>3. World' = w /\ g' = w.g
  BY <1>2 DEF Becomes, World
<1>4. mode' = mode
  BY <1>1 DEF mode
<1>5. Fine(Server)'
  BY <1>1, <1>4 DEF StreamInv, Fine
<1>6. Right(World, Server, {Place(g.seq, FALSE)})'
  BY <1>1, <1>3, <1>4 DEF Right, Flow, Unused
<1> QED
  BY <1>5, <1>6 DEF StreamInv

\* What the invariant says of the world the client finds.
LEMMA WorldIs ==
  ASSUME LogInv, StreamInv
  PROVE  /\ Typed(World) /\ World.g = g /\ World.wire = wire /\ World.link = link
         /\ limit \in Limits /\ ClientInv /\ Sound(Server)
         /\ Right(World, Server, {Place(g.seq, FALSE)})
BY WorldTyped DEF LogInv, ClientInv, StreamInv, World

\* The calls of the client: ps5log_init restarts the count and opens a stream,
LEMMA InitRight ==
  ASSUME LogInv, StreamInv, InitCall, UNCHANGED serverVars
  PROVE  StreamInv'
<1>1. PICK w \in IF g.fd = 0 THEN {World} ELSE Closed(World) :
        \E v \in IF mode = "off" THEN {Disabled([w EXCEPT !.g.seq = 0, !.g.inited = TRUE])}
               ELSE Opened([w EXCEPT !.g.seq = 0, !.g.inited = TRUE]) : Becomes(v)
  BY DEF InitCall
<1>2. Right(w, Server, {}) /\ w.g.fd = 0 /\ Typed(w)
  <2>1. CASE g.fd = 0
    <3>1. w = World
      BY <1>1, <2>1
    <3>2. Weaker(World, World)
      BY DEF Weaker
    <3> QED
      BY <2>1, <3>1, <3>2, WorldIs, WeakerRight
  <2>2. CASE g.fd # 0
    <3>1. w \in Closed(World)
      BY <1>1, <2>2
    <3> QED
      BY <3>1, WorldIs, ClosedRight
  <2> QED
    BY <2>1, <2>2
<1>3. limit \in Limits /\ ClientInv /\ Sound(Server)
  BY WorldIs
<1> DEFINE h == [w.g EXCEPT !.seq = 0, !.inited = TRUE]
           fresh == [w EXCEPT !.g = h]
<1>4. [w EXCEPT !.g.seq = 0, !.g.inited = TRUE] = fresh
  BY <1>2 DEF Typed, Worlds, ClientState
<1>5. h \in ClientState /\ h.fd = w.g.fd /\ h.used = w.g.used
  <2>1. 0 \in 0 .. MaxSeq
    BY <1>3, Bounds
  <2> QED
    BY <1>2, <2>1 DEF Typed, ClientState
<1>6. PICK v \in IF mode = "off" THEN {Disabled(fresh)} ELSE Opened(fresh) : Becomes(v)
  BY <1>1, <1>4
<1> HIDE DEF h
<1>7. Typed(fresh) /\ fresh.g = h /\ fresh.wire = w.wire /\ fresh.link = w.link
  BY <1>2, <1>5 DEF Typed, Worlds
<1> HIDE DEF fresh
<1>8. Weaker(w, fresh)
  BY <1>5, <1>7 DEF Weaker
<1>9. Right(fresh, Server, {})
  BY <1>2, <1>8, WeakerRight
<1>10. Right(v, Server, {Place(v.g.seq, FALSE)}) /\ Typed(v)
  <2>1. CASE v = Disabled(fresh)
    <3>1. Weaker(fresh, v) /\ v.g.fd = 0 /\ Typed(v)
      BY <1>3, <1>7, <2>1, DisabledWeaker, DisableTyped
    <3> QED
      BY <1>7, <1>9, <3>1, WeakerRight
  <2>2. CASE v \in Opened(fresh)
    BY <1>3, <1>7, <1>9, <2>2, OpenedRight
  <2> QED
    BY <1>6, <2>1, <2>2
<1> QED
  BY <1>3, <1>6, <1>10, BecomesRight

\* ps5log_line counts, whether or not the record goes out,
LEMMA LineRight ==
  ASSUME LogInv, StreamInv, LineCall, UNCHANGED serverVars
  PROVE  StreamInv'
<1> DEFINE h == [g EXCEPT !.seq = @ + 1]
           w == [World EXCEPT !.g = h]
<1>1. Typed(World) /\ World.g = g /\ limit \in Limits /\ ClientInv /\ Sound(Server)
      /\ Right(World, Server, {Place(g.seq, FALSE)})
  BY WorldIs
<1>2. [World EXCEPT !.g.seq = @ + 1] = w
  BY <1>1 DEF World
<1>3. PICK n \in Nat : n = g.seq /\ n + 1 \in 1 .. MaxSeq
  BY <1>1, Bounds DEF ClientInv, LineCall, ClientState
<1>4. h \in ClientState /\ h.seq = n + 1 /\ h.fd = g.fd /\ h.used = g.used
  <2>1. g.seq + 1 \in 0 .. MaxSeq
    BY <1>3, <1>1, Bounds
  <2> QED
    BY <1>1, <1>3, <2>1 DEF ClientInv, ClientState
<1>5. PICK v \in IF g.fd = 0 THEN {w} ELSE Delivered(w, Body("rec", w.g.seq), <<NL>>) : Becomes(v)
  BY <1>2 DEF LineCall
<1> HIDE DEF h
<1>6. Typed(w) /\ w.g = h /\ w.wire = World.wire /\ w.link = World.link
  BY <1>1, <1>4 DEF Typed, Worlds
<1> HIDE DEF w
<1>7. Weaker(World, w)
  BY <1>1, <1>4, <1>6 DEF Weaker
<1>8. CASE g.fd = 0
  <2>1. Right(w, Server, {Place(w.g.seq, FALSE)})
    BY <1>1, <1>4, <1>6, <1>7, <1>8, WeakerRight
  <2>2. Becomes(w)
    BY <1>5, <1>8
  <2> QED
    BY <1>1, <1>6, <2>1, <2>2, BecomesRight
<1>9. CASE g.fd # 0
  <2>1. PICK t \in Toks : t = Body("rec", n + 1)
    BY <1>1, <1>3, BodyTok
  <2>2. t.whole /\ t.k = "rec" /\ t.n = n + 1
    <3>1. t.whole = TRUE
      BY <2>1 DEF Body
    <3> QED
      BY <2>1, <3>1 DEF Body
  <2>3. PICK s \in Places, u \in Places : s = Place(n, FALSE) /\ u = Place(n + 1, FALSE)
    <3>1. n + 1 \in Nat
      OBVIOUS
    <3> QED
      BY <3>1, PlaceIn
  <2>4. Follows(s, t, u)
    <3>1. ~s.done /\ s.n = n
      BY <2>3 DEF Place
    <3>2. (~t.whole) = FALSE
      BY <2>2
    <3> QED
      BY <2>2, <2>3, <3>1, <3>2 DEF Follows
  <2>5. Right(w, Server, {s})
    BY <1>1, <1>3, <1>7, <2>3, WeakerRight
  <2>6. PICK end \in {<<>>, <<NL>>} : end = <<NL>>
    OBVIOUS
  <2>7. v \in Delivered(w, t, end)
    BY <1>4, <1>5, <1>6, <1>9, <2>1, <2>6
  <2>8. Right(v, Server, {u}) /\ v.g.seq = w.g.seq /\ Typed(v)
    BY <1>1, <1>4, <1>6, <1>9, <2>2, <2>4, <2>5, <2>7, DeliveredRight
  <2>9. Right(v, Server, {Place(v.g.seq, FALSE)})
    BY <1>4, <1>6, <2>3, <2>8
  <2>10. Becomes(v)
    BY <1>5
  <2> QED
    BY <1>1, <2>8, <2>9, <2>10, BecomesRight
<1> QED
  BY <1>8, <1>9

\* A raw message has no number.
LEMMA RawFollows ==
  ASSUME limit \in Limits, NEW s \in Places
  PROVE  \E t \in Toks : t = Body("raw", 0) /\ t.whole /\ Follows(s, t, s)
<1>1. PICK t \in Toks : t = Body("raw", 0)
  BY BodyTok
<1>2. t.whole = TRUE /\ t.k = "raw"
  BY <1>1 DEF Body
<1>3. Follows(s, t, s)
  BY <1>2 DEF Follows
<1> QED
  BY <1>1, <1>2, <1>3

\* ps5log_raw does not count,
LEMMA RawRight ==
  ASSUME LogInv, StreamInv, RawCall, UNCHANGED serverVars
  PROVE  StreamInv'
<1>1. Typed(World) /\ World.g = g /\ limit \in Limits /\ ClientInv /\ Sound(Server)
      /\ Right(World, Server, {Place(g.seq, FALSE)})
  BY WorldIs
<1>2. PICK end \in {<<>>, <<NL>>} : \E v \in Delivered(World, Body("raw", 0), end) : Becomes(v)
  BY DEF RawCall
<1>3. PICK v \in Delivered(World, Body("raw", 0), end) : Becomes(v)
  BY <1>2
<1>4. PICK s \in Places : s = Place(g.seq, FALSE)
  <2>1. g.seq \in Nat
    BY <1>1, Bounds DEF ClientInv, ClientState
  <2> QED
    BY <2>1, PlaceIn
<1>5. PICK t \in Toks : t = Body("raw", 0) /\ t.whole /\ Follows(s, t, s)
  BY <1>1, RawFollows
<1>6. g.fd # 0
  BY DEF RawCall
<1>7. Right(World, Server, {s}) /\ v \in Delivered(World, t, end)
  BY <1>1, <1>3, <1>4, <1>5
<1>8. Right(v, Server, {s}) /\ v.g.seq = g.seq /\ Typed(v)
  <2>1. World.g.fd # 0 /\ World.g.seq = g.seq
    BY <1>1, <1>6
  <2>2. PICK V : V = Server /\ Sound(V) /\ Right(World, V, {s})
    BY <1>1, <1>7
  <2>3. Right(v, V, {s}) /\ v.g.seq = World.g.seq /\ Typed(v)
    BY <1>1, <1>5, <1>7, <2>1, <2>2, DeliveredRight
  <2> QED
    BY <2>1, <2>2, <2>3
<1> QED
  BY <1>1, <1>3, <1>4, <1>8, BecomesRight

\* nor does a capture,
LEMMA CaptureRight ==
  ASSUME LogInv, StreamInv, CaptureCall, UNCHANGED serverVars
  PROVE  StreamInv'
<1>1. Typed(World) /\ World.g = g /\ limit \in Limits /\ ClientInv /\ Sound(Server)
      /\ Right(World, Server, {Place(g.seq, FALSE)})
  BY WorldIs
<1>2. PICK flags \in SUBSET Streams :
        \E v \in Applied([World EXCEPT !.g.flags = flags], flags) :
          Becomes(IF v.ok THEN v.w ELSE Released(v.w))
  BY ClientAssumption DEF CaptureCall
<1> DEFINE h == [g EXCEPT !.flags = flags]
           w == [World EXCEPT !.g = h]
<1>3. [World EXCEPT !.g.flags = flags] = w
  BY DEF World
<1>4. h \in ClientState /\ h.fd = g.fd /\ h.used = g.used /\ h.seq = g.seq
  BY <1>1 DEF ClientInv, ClientState
<1>5. PICK v \in Applied(w, flags) : Becomes(IF v.ok THEN v.w ELSE Released(v.w))
  BY <1>2, <1>3
<1> HIDE DEF h
<1>6. Typed(w) /\ w.g = h /\ w.wire = World.wire /\ w.link = World.link
  BY <1>1, <1>4 DEF Typed, Worlds
<1> HIDE DEF w
<1>7. Weaker(World, w)
  BY <1>1, <1>4, <1>6 DEF Weaker
<1>8. Typed(v.w) /\ Weaker(w, v.w) /\ v.w.g.seq = w.g.seq
  BY <1>5, <1>6, ApplyTyped, AppliedWeaker
<1>9. Typed(Released(v.w)) /\ Weaker(v.w, Released(v.w)) /\ Released(v.w).g.seq = v.w.g.seq
  BY <1>1, <1>8, ReleaseTyped, ReleasedWeaker
<1>10. PICK x \in {v.w, Released(v.w)} : Becomes(x)
  BY <1>5
<1>11. Weaker(World, v.w)
  BY <1>7, <1>8, WeakerWeaker
<1>12. Weaker(World, x)
  BY <1>9, <1>11, WeakerWeaker
<1>13. Typed(x) /\ x.g.seq = g.seq
  BY <1>4, <1>6, <1>8, <1>9
<1>14. Right(x, Server, {Place(x.g.seq, FALSE)})
  BY <1>1, <1>12, <1>13, WeakerRight
<1> QED
  BY <1>1, <1>10, <1>13, <1>14, BecomesRight

\* nor a release;
LEMMA ReleaseRight ==
  ASSUME LogInv, StreamInv, ReleaseCall, UNCHANGED serverVars
  PROVE  StreamInv'
<1>1. Typed(World) /\ World.g = g /\ limit \in Limits /\ ClientInv /\ Sound(Server)
      /\ Right(World, Server, {Place(g.seq, FALSE)})
  BY WorldIs
<1>2. PICK x : x = Released(World) /\ Becomes(x)
  BY DEF ReleaseCall
<1>3. Typed(x) /\ Weaker(World, x) /\ x.g.seq = g.seq
  BY <1>1, <1>2, ReleaseTyped, ReleasedWeaker
<1>4. Right(x, Server, {Place(x.g.seq, FALSE)})
  BY <1>1, <1>3, WeakerRight
<1> QED
  BY <1>1, <1>2, <1>3, <1>4, BecomesRight

\* ps5log_reconnect goes on counting on a new stream,
LEMMA ReconnectRight ==
  ASSUME LogInv, StreamInv, ReconnectCall, UNCHANGED serverVars
  PROVE  StreamInv'
<1>1. Typed(World) /\ World.g = g /\ limit \in Limits /\ ClientInv /\ Sound(Server)
      /\ Right(World, Server, {Place(g.seq, FALSE)})
  BY WorldIs
<1>2. PICK w \in Opened(World) :
        \E v \in IF g.flags = {} THEN {[w |-> w, ok |-> TRUE]} ELSE Applied(w, g.flags) : Becomes(v.w)
  BY DEF ReconnectCall
<1>3. Typed(w) /\ Right(w, Server, {Place(w.g.seq, FALSE)})
  BY <1>1, <1>2, OpenedRight
<1>4. PICK v \in IF g.flags = {} THEN {[w |-> w, ok |-> TRUE]} ELSE Applied(w, g.flags) : Becomes(v.w)
  BY <1>2
<1>5. g.flags \in SUBSET Streams
  BY <1>1 DEF ClientInv, ClientState
<1>6. Typed(v.w) /\ Weaker(w, v.w) /\ v.w.g.seq = w.g.seq
  <2>1. CASE v = [w |-> w, ok |-> TRUE]
    BY <1>3, <2>1 DEF Weaker
  <2>2. CASE v \in Applied(w, g.flags)
    BY <1>3, <1>5, <2>2, ApplyTyped, AppliedWeaker
  <2> QED
    BY <1>4, <2>1, <2>2
<1>7. Right(v.w, Server, {Place(v.w.g.seq, FALSE)})
  BY <1>3, <1>6, WeakerRight
<1> QED
  BY <1>1, <1>4, <1>6, <1>7, BecomesRight

\* and ps5log_close ends the stream with the count.
LEMMA CloseRight ==
  ASSUME LogInv, StreamInv, CloseCall, UNCHANGED serverVars
  PROVE  StreamInv'
<1>1. Typed(World) /\ World.g = g /\ limit \in Limits /\ ClientInv /\ Sound(Server)
      /\ Right(World, Server, {Place(g.seq, FALSE)})
  BY WorldIs
<1>2. PICK v \in Closed(World) : Becomes(v)
  BY DEF CloseCall
<1>3. Right(v, Server, {Place(v.g.seq, FALSE)}) /\ Typed(v)
  BY <1>1, <1>2, ClosedRight
<1> QED
  BY <1>1, <1>2, <1>3, BecomesRight

\* What may happen to the wires while neither side's state changes: a stream
\* that was in order is one still, and only an open one keeps its end.
LEMMA WiresRight ==
  ASSUME LogInv, StreamInv, UNCHANGED serverVars, limit' = limit, g' = g,
         wire' \in [Conns -> Seq(Toks)],
         mode = "udp" => \A c \in Conns : \A i \in DOMAIN wire'[c] : wire'[c][i].whole,
         mode # "udp" => \A c \in Conns :
            /\ link[c] = "new" => link'[c] = "new" /\ wire'[c] = wire[c]
            /\ link'[c] = "up" => link[c] = "up"
            /\ \A s, e \in Places : Reads(wire[c], s, e) =>
                  \E z \in Places : Reads(wire'[c], s, z) /\ (link'[c] = "up" => z = e)
  PROVE  StreamInv'
<1>1. Server' = Server /\ mode' = mode
  BY DEF Server, serverVars, mode
<1>2. World'.g = g /\ World'.wire = wire' /\ World'.link = link'
  BY DEF World
<1>3. PICK s0 : s0 = Place(g.seq, FALSE)
  OBVIOUS
<1>4. Fine(Server)'
  BY <1>1 DEF StreamInv, Fine
<1>5. /\ World.g = g /\ World.wire = wire /\ World.link = link /\ Sound(Server)
      /\ wire \in [Conns -> Seq(Toks)] /\ Right(World, Server, {s0})
  BY <1>3, WorldIs DEF ClientInv
<1>6. PICK W, V : W = World' /\ V = Server
  OBVIOUS
<1>7. mode = "udp" => Whole(W)
  BY <1>2, <1>6 DEF Whole
<1>8. ASSUME mode # "udp", NEW c \in Conns PROVE Flow(W, V, c, {s0}) /\ Unused(W, V, c)
  <2>1. Flow(World, Server, c, {s0}) /\ Unused(World, Server, c)
    BY <1>5, <1>8 DEF Right
  <2>2. PICK b \in Nat, e \in Places :
          /\ Reads(Past(V, c) \o wire[c], Place(b, FALSE), e)
          /\ g.fd = c /\ link[c] = "up" => e = s0
    BY <1>5, <1>6, <2>1 DEF Flow
  <2>3. PICK P \in Seq(Toks) : P = Past(V, c)
    BY <1>5, <1>6, PastTyped
  <2>4. PICK m \in Places : Reads(P, Place(b, FALSE), m) /\ Reads(wire[c], m, e)
    BY <1>5, <2>2, <2>3, ReadsApart
  <2>5. PICK z \in Places : Reads(wire'[c], m, z) /\ (link'[c] = "up" => z = e)
    BY <1>8, <2>4
  <2>6. Reads(P \o wire'[c], Place(b, FALSE), z)
    <3>1. wire'[c] \in Seq(Toks)
      OBVIOUS
    <3> QED
      BY <2>4, <2>5, <3>1, ReadsConcat
  <2>7. g.fd = c /\ link'[c] = "up" => z = s0
    BY <1>8, <2>2, <2>5
  <2>8. Flow(W, V, c, {s0})
    BY <1>2, <1>6, <2>3, <2>6, <2>7 DEF Flow
  <2>9. Unused(W, V, c)
    BY <1>2, <1>5, <1>6, <1>8, <2>1 DEF Unused
  <2> QED
    BY <2>8, <2>9
<1>9. mode # "udp" => W.g.fd <= W.g.used
  BY <1>2, <1>5, <1>6 DEF Right
<1>10. Right(W, V, {s0})
  BY <1>7, <1>8, <1>9 DEF Right
<1>11. Right(World, Server, {Place(g.seq, FALSE)})'
  BY <1>1, <1>3, <1>6, <1>10 DEF Right
<1> QED
  BY <1>4, <1>11 DEF StreamInv

\* Nothing happens to a wire.
LEMMA WireSame ==
  ASSUME NEW T, NEW s \in Places, NEW e \in Places, Reads(T, s, e)
  PROVE  \E z \in Places : Reads(T, s, z) /\ z = e
OBVIOUS

\* A reset leaves a prefix of what was in flight, and no end to write to.
LEMMA NetRight ==
  ASSUME LogInv, StreamInv, Net
  PROVE  StreamInv'
<1>1. PICK c \in Conns : NetReset(c)
  BY DEF Net
<1>2. limit' = limit /\ g' = g /\ UNCHANGED serverVars /\ mode = "tcp" /\ link[c] \in {"up", "fin"}
  BY <1>1 DEF Net, NetReset, clientVars
<1>3. PICK S \in Prefixed(wire[c]) : wire' = [wire EXCEPT ![c] = S]
  BY <1>1 DEF NetReset
<1>4. link' = [link EXCEPT ![c] = "rst"]
  BY <1>1 DEF NetReset
<1>5. limit \in Limits /\ wire \in [Conns -> Seq(Toks)] /\ link \in [Conns -> Links]
  BY DEF LogInv, ClientInv
<1>6. S \in Seq(Toks)
  BY <1>3, <1>5, PrefixedToks
<1>7. wire' \in [Conns -> Seq(Toks)]
  BY <1>3, <1>5, <1>6
<1>8. ASSUME NEW b \in Conns
      PROVE  /\ link[b] = "new" => link'[b] = "new" /\ wire'[b] = wire[b]
             /\ link'[b] = "up" => link[b] = "up"
             /\ \A s, e \in Places : Reads(wire[b], s, e) =>
                   \E z \in Places : Reads(wire'[b], s, z) /\ (link'[b] = "up" => z = e)
  <2>1. CASE b # c
    <3>1. link'[b] = link[b] /\ wire'[b] = wire[b]
      BY <1>3, <1>4, <1>5, <2>1
    <3> QED
      BY <3>1
  <2>2. CASE b = c
    <3>1. link'[b] = "rst" /\ wire'[b] = S
      BY <1>3, <1>4, <1>5, <2>2
    <3>2. ASSUME NEW s \in Places, NEW e \in Places, Reads(wire[b], s, e)
          PROVE  \E z \in Places : Reads(S, s, z)
      BY <1>3, <1>5, <2>2, <3>2, ReadsPrefixed
    <3> QED
      BY <1>2, <2>2, <3>1, <3>2
  <2> QED
    BY <2>1, <2>2
<1> QED
  BY <1>2, <1>7, <1>8, WiresRight

\* A power loss does so on every stream.
LEMMA FreezeRight ==
  ASSUME LogInv, StreamInv, Freeze
  PROVE  StreamInv'
<1>1. limit' = limit /\ g' = g /\ UNCHANGED serverVars
  BY DEF Freeze, PowerLoss, clientVars
<1>2. link' = [c \in Conns |-> IF link[c] \in {"up", "fin"} THEN "gone" ELSE link[c]]
  BY DEF Freeze, PowerLoss
<1>3. \A c \in Conns : IF mode = "tcp" /\ link[c] \in {"up", "fin"}
                       THEN wire'[c] \in Prefixed(wire[c]) ELSE wire'[c] = wire[c]
  BY DEF Freeze, PowerLoss
<1>4. limit \in Limits /\ wire \in [Conns -> Seq(Toks)] /\ link \in [Conns -> Links]
  BY DEF LogInv, ClientInv
<1>5. wire' \in [Conns -> Seq(Toks)]
  <2>1. ClientInv'
    BY FreezeTyped DEF LogInv
  <2> QED
    BY <2>1 DEF ClientInv
<1>6. mode = "udp" => \A c \in Conns : \A i \in DOMAIN wire'[c] : wire'[c][i].whole
  <2>1. mode = "udp" => Whole(World) /\ World.wire = wire
    BY WorldIs DEF Right
  <2> QED
    BY <1>3, <2>1 DEF Whole
<1>7. ASSUME NEW b \in Conns
      PROVE  /\ link[b] = "new" => link'[b] = "new" /\ wire'[b] = wire[b]
             /\ link'[b] = "up" => link[b] = "up"
             /\ \A s, e \in Places : Reads(wire[b], s, e) =>
                   \E z \in Places : Reads(wire'[b], s, z) /\ (link'[b] = "up" => z = e)
  <2>1. CASE wire'[b] = wire[b]
    <3>1. link[b] = "new" => link'[b] = "new"
      BY <1>2
    <3>2. link'[b] = "up" => link[b] = "up"
      BY <1>2
    <3> QED
      BY <2>1, <3>1, <3>2
  <2>2. CASE link[b] \in {"up", "fin"} /\ wire'[b] \in Prefixed(wire[b])
    <3>1. link'[b] = "gone"
      BY <1>2, <2>2
    <3>2. PICK S \in Prefixed(wire[b]) : S = wire'[b]
      BY <2>2
    <3>3. ASSUME NEW s \in Places, NEW e \in Places, Reads(wire[b], s, e)
          PROVE  \E z \in Places : Reads(S, s, z)
      BY <1>4, <3>3, ReadsPrefixed
    <3> QED
      BY <2>2, <3>1, <3>2, <3>3
  <2> QED
    BY <1>3, <2>1, <2>2
<1> QED
  BY <1>1, <1>5, <1>6, <1>7, WiresRight

\* A captured print has no number, whatever stream it goes to.
LEMMA PrintRight ==
  ASSUME LogInv, StreamInv, CapturedPrint, UNCHANGED serverVars
  PROVE  StreamInv'
<1>1. limit \in Limits /\ wire \in [Conns -> Seq(Toks)] /\ ClientInv
  BY DEF LogInv, ClientInv
<1>2. limit' = limit /\ g' = g /\ link' = link
  BY DEF CapturedPrint
<1>3. PICK q \in Streams, end \in {<<>>, <<NL>>} :
        /\ std[q] # Tty
        /\ wire' = IF link[std[q]] = "up"
                   THEN [wire EXCEPT ![std[q]] = @ \o <<Body("raw", 0)>> \o end] ELSE wire
  BY DEF CapturedPrint
<1>4. PICK c \in Conns : c = std[q]
  BY <1>1, <1>3, Bounds DEF ClientInv, Conns, Tty
<1>5. wire' \in [Conns -> Seq(Toks)]
  <2>1. ClientInv'
    BY <1>1, PrintTyped
  <2> QED
    BY <2>1 DEF ClientInv
<1>6. PICK T \in Seq(Toks) : T = <<Body("raw", 0)>> \o end /\ \A i \in DOMAIN T : T[i].whole
  <2>1. Body("raw", 0) \in Toks /\ NL \in Toks /\ Body("raw", 0).whole = TRUE /\ NL.whole = TRUE
    <3>1. Body("raw", 0).whole = TRUE /\ NL.whole = TRUE
      BY DEF Body, NL
    <3> QED
      BY <1>1, <3>1, BodyTok
  <2>2. PICK t \in Toks, u \in Toks : t = Body("raw", 0) /\ u = NL /\ t.whole /\ u.whole
    BY <2>1
  <2>3. CASE end = <<>>
    <3>1. <<t>> \in Seq(Toks) /\ <<t>> \o <<>> = <<t>>
      BY ConcatEmptySeq
    <3>2. DOMAIN <<t>> = {1} /\ <<t>>[1] = t
      OBVIOUS
    <3> QED
      BY <2>2, <2>3, <3>1, <3>2
  <2>4. CASE end = <<NL>>
    <3>1. /\ <<t>> \in Seq(Toks) /\ Len(<<t>>) = 1 /\ <<t>>[1] = t
          /\ <<u>> \in Seq(Toks) /\ Len(<<u>>) = 1 /\ <<u>>[1] = u
      OBVIOUS
    <3>2. PICK R \in Seq(Toks), F \in Seq(Toks) :
            R = <<t>> /\ F = <<u>> /\ Len(R) = 1 /\ Len(F) = 1 /\ R[1] = t /\ F[1] = u
      BY <3>1
    <3>3. /\ R \o F \in Seq(Toks) /\ Len(R \o F) = 1 + 1
          /\ \A i \in 1 .. 1 + 1 : (R \o F)[i] = IF i <= 1 THEN R[i] ELSE F[i - 1]
      BY <3>2, ConcatProperties
    <3>4. \A i \in 1 .. 1 + 1 : (R \o F)[i] = t \/ (R \o F)[i] = u
      BY <3>2, <3>3
    <3>5. DOMAIN (R \o F) = 1 .. 1 + 1
      BY <3>3, LenProperties
    <3>6. PICK C \in Seq(Toks) : C = R \o F /\ \A i \in DOMAIN C : C[i] = t \/ C[i] = u
      BY <3>3, <3>4, <3>5
    <3>7. \A i \in DOMAIN C : C[i].whole
      BY <2>2, <3>6
    <3>8. C = <<Body("raw", 0)>> \o end
      BY <2>2, <2>4, <3>2, <3>6
    <3> QED
      BY <3>7, <3>8
  <2> QED
    BY <2>3, <2>4
<1>7. \A s \in Places : Reads(T, s, s)
  <2> SUFFICES ASSUME NEW s \in Places PROVE Reads(T, s, s)
    OBVIOUS
  <2>1. PICK t \in Toks : t = Body("raw", 0) /\ t.whole /\ Follows(s, t, s)
    BY <1>1, RawFollows
  <2> QED
    BY <1>1, <1>6, <2>1, SendReads
<1>8. wire'[c] = wire[c] \/ (link[c] = "up" /\ wire'[c] = wire[c] \o T)
  <2>1. CASE link[c] = "up"
    <3>1. wire'[c] = (wire[c] \o <<Body("raw", 0)>>) \o end
      BY <1>1, <1>3, <1>4, <2>1
    <3>2. PICK R \in Seq(Toks), F \in Seq(Toks) : R = <<Body("raw", 0)>> /\ F = end
      <4>1. <<Body("raw", 0)>> \in Seq(Toks)
        <5>1. Body("raw", 0) \in Toks
          BY <1>1, BodyTok
        <5> QED
          BY <5>1
      <4> QED
        BY <1>1, <4>1, EndTyped
    <3>3. (wire[c] \o R) \o F = wire[c] \o (R \o F)
      BY <1>1, ConcatAssociative
    <3> QED
      BY <1>6, <2>1, <3>1, <3>2, <3>3
  <2>2. CASE link[c] # "up"
    BY <1>3, <1>4, <2>2
  <2> QED
    BY <2>1, <2>2
<1>9. \A b \in Conns : b # c => wire'[b] = wire[b]
  BY <1>1, <1>3, <1>4
<1>10. mode = "udp" => \A b \in Conns : \A i \in DOMAIN wire'[b] : wire'[b][i].whole
  <2> SUFFICES ASSUME mode = "udp", NEW b \in Conns, NEW i \in DOMAIN wire'[b] PROVE wire'[b][i].whole
    OBVIOUS
  <2>1. \A d \in Conns : \A j \in DOMAIN wire[d] : wire[d][j].whole
    BY WorldIs DEF Right, Whole
  <2>2. CASE wire'[b] = wire[b]
    BY <2>1, <2>2
  <2>3. CASE wire'[b] = wire[b] \o T
    <3>1. PICK W \in Seq(Toks), k \in Nat, m \in Nat :
            /\ W = wire[b] /\ k = Len(W) /\ m = Len(T) /\ DOMAIN W = 1 .. k /\ DOMAIN T = 1 .. m
      BY <1>1, LenProperties
    <3>2. /\ W \o T \in Seq(Toks) /\ Len(W \o T) = k + m
          /\ \A j \in 1 .. k + m : (W \o T)[j] = IF j <= k THEN W[j] ELSE T[j - k]
      BY <3>1, ConcatProperties
    <3>3. PICK j \in 1 .. k + m : j = i
      BY <2>3, <3>1, <3>2, LenProperties
    <3>4. CASE j <= k
      BY <2>1, <2>3, <3>1, <3>2, <3>3, <3>4
    <3>5. CASE j > k
      <4>1. j - k \in 1 .. m /\ ~(j <= k)
        BY <3>5
      <4> QED
        <5>1. (W \o T)[j] = T[j - k]
          BY <3>2, <3>3, <4>1
        <5>2. wire'[b][i] = (W \o T)[j]
          BY <2>3, <3>1, <3>3
        <5>3. T[j - k].whole
          BY <1>6, <3>1, <4>1
        <5> QED
          BY <5>1, <5>2, <5>3
    <3> QED
      BY <3>4, <3>5
  <2> QED
    BY <1>8, <1>9, <2>2, <2>3
<1>11. ASSUME NEW b \in Conns
      PROVE  /\ link[b] = "new" => link'[b] = "new" /\ wire'[b] = wire[b]
             /\ link'[b] = "up" => link[b] = "up"
             /\ \A s, e \in Places : Reads(wire[b], s, e) =>
                   \E z \in Places : Reads(wire'[b], s, z) /\ (link'[b] = "up" => z = e)
  <2>1. CASE wire'[b] = wire[b]
    BY <1>2, <2>1
  <2>2. CASE link[b] = "up" /\ wire'[b] = wire[b] \o T
    <3>1. ASSUME NEW s \in Places, NEW e \in Places, Reads(wire[b], s, e)
          PROVE  Reads(wire'[b], s, e)
      <4>1. Reads(T, e, e)
        BY <1>7
      <4>2. PICK W \in Seq(Toks) : W = wire[b]
        BY <1>1
      <4>3. Reads(W \o T, s, e)
        BY <3>1, <4>1, <4>2, ReadsConcat
      <4> QED
        BY <2>2, <4>2, <4>3
    <3> QED
      BY <1>2, <2>2, <3>1
  <2> QED
    BY <1>8, <1>9, <2>1, <2>2
<1> QED
  BY <1>2, <1>5, <1>10, <1>11, WiresRight

\* What a callback may make of the store and the wires.
LEMMA ServesRight ==
  ASSUME LogInv, StreamInv, limit' = limit, g' = g, NEW w, w \in Stores, Serves(w), Fine(w),
         mode = "udp" => \A c \in Conns : \A i \in DOMAIN wire'[c] : wire'[c][i].whole,
         mode # "udp" => \A c \in Conns :
            /\ link'[c] = "up" => link[c] = "up"
            /\ link[c] = "new" => link'[c] = "new"
            /\ link[c] = "new" /\ sess[c] = "none" =>
                  w.sess[c] = "none" /\ Past(w, c) = Past(Server, c) /\ wire'[c] = wire[c]
            /\ \A s, e \in Places :
                  Reads(Past(Server, c) \o wire[c], s, e) => Reads(Past(w, c) \o wire'[c], s, e)
  PROVE  StreamInv'
<1>1. w = [sess |-> w.sess, buf |-> w.buf, cur |-> w.cur, runs |-> w.runs, disk |-> w.disk,
           manifests |-> w.manifests, latest |-> w.latest]
  BY DEF Stores
<1>2. Server' = w /\ mode' = mode
  BY <1>1 DEF Serves, Server, mode
<1>3. Fine(Server)'
  BY <1>2 DEF Fine
<1>4. World'.g = g /\ World'.wire = wire' /\ World'.link = link'
  BY DEF World
<1>5. PICK s0 : s0 = Place(g.seq, FALSE)
  OBVIOUS
<1>6. /\ World.g = g /\ World.wire = wire /\ World.link = link /\ Server.sess = sess
      /\ Right(World, Server, {s0})
  BY <1>5, WorldIs DEF Server
<1>7. PICK W : W = World'
  OBVIOUS
<1>8. mode = "udp" => Whole(W)
  BY <1>4, <1>7 DEF Whole
<1>9. ASSUME mode # "udp", NEW c \in Conns PROVE Flow(W, w, c, {s0}) /\ Unused(W, w, c)
  <2>1. Flow(World, Server, c, {s0}) /\ Unused(World, Server, c)
    BY <1>6, <1>9 DEF Right
  <2>2. PICK b \in Nat, e \in Places :
          /\ Reads(Past(Server, c) \o wire[c], Place(b, FALSE), e)
          /\ g.fd = c /\ link[c] = "up" => e = s0
    BY <1>6, <2>1 DEF Flow
  <2>3. Reads(Past(w, c) \o wire'[c], Place(b, FALSE), e)
    BY <1>9, <2>2, PlaceIn
  <2>4. Flow(W, w, c, {s0})
    BY <1>4, <1>7, <1>9, <2>2, <2>3 DEF Flow
  <2>5. Unused(W, w, c)
    BY <1>4, <1>6, <1>7, <1>9, <2>1 DEF Unused
  <2> QED
    BY <2>4, <2>5
<1>10. mode # "udp" => W.g.fd <= W.g.used
  BY <1>4, <1>6, <1>7 DEF Right
<1>11. Right(W, w, {s0})
  BY <1>8, <1>9, <1>10 DEF Right
<1>12. Right(World, Server, {Place(g.seq, FALSE)})'
  BY <1>2, <1>5, <1>7, <1>11 DEF Right
<1> QED
  BY <1>3, <1>12 DEF StreamInv

\* The server has the same if its runs and its buffers are the same.
LEMMA PastSame ==
  ASSUME NEW v, NEW w, w.runs = v.runs, w.buf = v.buf, NEW c
  PROVE  Past(w, c) = Past(v, c) /\ Fine(w) = Fine(v)
BY DEF Past, Got, RunsOf, Fine

\* A connection accepted,
LEMMA AcceptRight ==
  ASSUME LogInv, StreamInv, NEW c \in Conns, Accept(c), UNCHANGED clientVars
  PROVE  StreamInv'
<1> DEFINE S == [sess EXCEPT ![c] = "open"]
           w == [Server EXCEPT !.sess = S]
<1>1. /\ link[c] # "new" /\ sess' = S /\ mode # "udp"
      /\ UNCHANGED <<limit, wire, link, g, buf, cur, runs, disk, manifests, latest>>
  BY DEF Accept, wireVars, clientVars
<1>2. Server \in Stores /\ sess \in [Conns -> {"none", "open", "closed"}]
  BY DEF LogInv, Sound, Stores, Server
<1>3. S \in [Conns -> {"none", "open", "closed"}] /\ \A b \in Conns : b # c => S[b] = sess[b]
  BY <1>2
<1> HIDE DEF S
<1>4. /\ w \in Stores /\ w.sess = S /\ w.cur = cur /\ w.runs = runs /\ w.buf = buf
      /\ w.disk = disk /\ w.manifests = manifests /\ w.latest = latest
  BY <1>2, <1>3 DEF Stores, Server
<1>5. Server.runs = runs /\ Server.buf = buf
  BY DEF Server
<1> HIDE DEF w
<1>6. Serves(w)
  BY <1>1, <1>4 DEF Serves
<1>7. Fine(w) /\ \A b \in Conns : Past(w, b) = Past(Server, b)
  BY <1>4, <1>5, PastSame DEF StreamInv, Fine
<1>8. ASSUME NEW b \in Conns
      PROVE  /\ link'[b] = "up" => link[b] = "up"
             /\ link[b] = "new" => link'[b] = "new"
             /\ link[b] = "new" /\ sess[b] = "none" =>
                   w.sess[b] = "none" /\ Past(w, b) = Past(Server, b) /\ wire'[b] = wire[b]
             /\ \A s, e \in Places :
                   Reads(Past(Server, b) \o wire[b], s, e) => Reads(Past(w, b) \o wire'[b], s, e)
  BY <1>1, <1>3, <1>4, <1>7
<1> QED
  BY <1>1, <1>4, <1>6, <1>7, <1>8, ServesRight

\* What the server reads, and the newline it drops, are in the order of the stream.
LEMMA ReadsLine ==
  ASSUME limit \in Limits, NEW P \in Seq(Toks), NEW T \in Seq(Toks), NEW u \in 1 .. Len(T), T[u] = NL,
         NEW s \in Places, NEW e \in Places, Reads(P \o T, s, e)
  PROVE  Reads((P \o SubSeq(T, 1, u - 1)) \o SubSeq(T, u + 1, Len(T)), s, e)
<1>1. PICK n \in Nat : n = Len(T) /\ u \in 1 .. n
  BY LenProperties
<1>2. PICK m \in Places : Reads(P, s, m) /\ Reads(T, m, e)
  BY ReadsApart
<1>3. u \in 0 .. Len(T)
  BY <1>1
<1>4. PICK y \in Places : Reads(SubSeq(T, 1, u), m, y) /\ Reads(SubSeq(T, u + 1, Len(T)), y, e)
  BY <1>2, <1>3, ReadsSplit
<1>5. SubSeq(T, 1, u) = SubSeq(T, 1, u - 1) \o <<NL>>
  <2>1. 1 \in 1 .. Len(T) /\ u \in 1 .. Len(T)
    BY <1>1
  <2> QED
    BY <2>1, SubSeqRecursiveSecond
<1>6. \A i \in 1 .. n : T[i] \in Toks
  BY <1>1, ElementOfSeq
<1>7. PICK A \in Seq(Toks) : A = SubSeq(T, 1, u - 1)
  <2>1. u - 1 \in Int /\ 1 \in Int /\ \A i \in 1 .. u - 1 : i \in 1 .. n
    BY <1>1
  <2>2. \A i \in 1 .. u - 1 : T[i] \in Toks
    BY <1>6, <2>1
  <2>3. SubSeq(T, 1, u - 1) \in Seq(Toks)
    BY <2>1, <2>2, SubSeqProperties
  <2> QED
    BY <2>3
<1>8. PICK B \in Seq(Toks) : B = SubSeq(T, u + 1, Len(T))
  <2>1. u + 1 \in Int /\ n \in Int /\ \A i \in u + 1 .. n : i \in 1 .. n
    BY <1>1
  <2> QED
    BY <1>1, <1>6, <2>1, SubSeqProperties
<1>9. <<NL>> \in Seq(Toks)
  BY EndTyped
<1>10. PICK x \in Places : Reads(A, m, x) /\ Reads(<<NL>>, x, y)
  BY <1>4, <1>5, <1>7, <1>9, ReadsApart
<1>11. x = y
  <2>1. PICK p : p[0] = x /\ p[Len(<<NL>>)] = y /\ \A i \in 1 .. Len(<<NL>>) : Follows(p[i - 1], <<NL>>[i], p[i])
    BY <1>10 DEF Reads
  <2>2. Len(<<NL>>) = 1 /\ <<NL>>[1] = NL /\ 1 - 1 = 0
    OBVIOUS
  <2>3. Follows(x, NL, y)
    BY <2>1, <2>2
  <2>4. NL.k = "nl"
    BY DEF NL
  <2> QED
    BY <2>3, <2>4 DEF Follows
<1>12. Reads(P \o A, s, y) /\ P \o A \in Seq(Toks)
  BY <1>2, <1>10, <1>11, ReadsConcat, ConcatProperties
<1>13. Reads((P \o A) \o B, s, e)
  BY <1>4, <1>8, <1>12, ReadsConcat
<1> QED
  BY <1>7, <1>8, <1>13

\* a line or a fragment read from a stream,
LEMMA ReadTcpRight ==
  ASSUME LogInv, StreamInv, NEW c \in Conns, ReadTcp(c), UNCHANGED clientVars
  PROVE  StreamInv'
<1> DEFINE u == SelectInSeq(wire[c], LAMBDA t : t = NL)
<1>1. limit \in Limits /\ Sound(Server) /\ wire[c] \in Seq(Toks)
      /\ wire \in [Conns -> Seq(Toks)] /\ Fine(Server)
  BY DEF LogInv, ClientInv, StreamInv
<1>2. /\ Server.sess = sess /\ Server.buf = buf /\ Server.runs = runs
      /\ buf \in [Conns -> Seq(Toks)] /\ Server \in Stores
  BY <1>1 DEF Server, Sound, Stores
<1>3. /\ mode = "tcp" /\ sess[c] = "open"
      /\ UNCHANGED <<limit, link, faults, power, g, std, prints>>
  BY DEF ReadTcp, clientVars
<1>4. PICK G \in Seq(Toks), B \in Seq(Toks), T \in Seq(Toks) :
        G = Got(Server, c) /\ B = buf[c] /\ T = wire[c] /\ Past(Server, c) = G \o B
  BY <1>1, <1>2, GotTyped DEF Past
<1>5. ASSUME NEW w, w \in Stores, Serves(w), Fine(w), w.sess = sess,
             \A b \in Conns : b # c => Past(w, b) = Past(Server, b) /\ wire'[b] = wire[b],
             \A s, e \in Places : Reads((G \o B) \o T, s, e) => Reads(Past(w, c) \o wire'[c], s, e)
      PROVE  StreamInv'
  <2>1. ASSUME NEW b \in Conns
        PROVE  /\ link'[b] = "up" => link[b] = "up"
               /\ link[b] = "new" => link'[b] = "new"
               /\ link[b] = "new" /\ sess[b] = "none" =>
                     w.sess[b] = "none" /\ Past(w, b) = Past(Server, b) /\ wire'[b] = wire[b]
               /\ \A s, e \in Places :
                     Reads(Past(Server, b) \o wire[b], s, e) => Reads(Past(w, b) \o wire'[b], s, e)
    <3>1. CASE b = c
      BY <1>3, <1>4, <1>5, <3>1
    <3>2. CASE b # c
      BY <1>3, <1>5, <3>2
    <3> QED
      BY <3>1, <3>2
  <2> QED
    BY <1>3, <1>5, <2>1, ServesRight
<1>6. CASE u = 0
  <2>1. wire' = [wire EXCEPT ![c] = <<>>] /\ Serves([Server EXCEPT !.buf[c] = @ \o wire[c]])
    BY <1>6 DEF ReadTcp
  <2> DEFINE F == [buf EXCEPT ![c] = buf[c] \o wire[c]]
             w == [Server EXCEPT !.buf = F]
  <2>2. buf[c] \o wire[c] \in Seq(Toks)
    BY <1>1, <1>2, ConcatProperties
  <2>3. F \in [Conns -> Seq(Toks)] /\ F[c] = B \o T /\ \A b \in Conns : b # c => F[b] = buf[b]
    BY <1>2, <1>4, <2>2
  <2>4. [Server EXCEPT !.buf[c] = @ \o wire[c]] = w
    BY <1>2 DEF Server
  <2> HIDE DEF F
  <2>5. w \in Stores /\ w.buf = F /\ w.sess = sess /\ w.runs = runs
    BY <1>2, <2>3 DEF Stores
  <2> HIDE DEF w
  <2>6. Fine(w) /\ \A b : Got(w, b) = Got(Server, b)
    BY <1>1, <1>2, <2>5 DEF Fine, Got, RunsOf
  <2>7. \A b \in Conns : b # c => Past(w, b) = Past(Server, b) /\ wire'[b] = wire[b]
    BY <1>1, <1>2, <2>1, <2>3, <2>5, <2>6 DEF Past
  <2>8. Past(w, c) \o wire'[c] = (G \o B) \o T
    <3>1. Past(w, c) = G \o (B \o T) /\ wire'[c] = <<>>
      BY <1>1, <1>4, <2>1, <2>3, <2>5, <2>6 DEF Past
    <3>2. (G \o B) \o T = G \o (B \o T)
      BY ConcatAssociative
    <3>3. B \o T \in Seq(Toks) /\ G \o (B \o T) \in Seq(Toks)
      BY ConcatProperties
    <3>4. (G \o (B \o T)) \o <<>> = G \o (B \o T)
      BY <3>3, ConcatEmptySeq
    <3> QED
      BY <3>1, <3>2, <3>4
  <2> QED
    BY <1>5, <2>1, <2>4, <2>5, <2>6, <2>7, <2>8
<1>7. CASE u # 0
  <2> DEFINE pre == SubSeq(wire[c], 1, u - 1)
             w == Lined(Server, c, buf[c] \o pre)
  <2>1. /\ wire' = [wire EXCEPT ![c] = SubSeq(@, u + 1, Len(@))]
        /\ Serves(w)
    BY <1>7 DEF ReadTcp
  <2>2. /\ pre \in Seq(Toks) /\ SubSeq(T, u + 1, Len(T)) \in Seq(Toks)
        /\ u \in 1 .. Len(T) /\ T[u] = NL /\ pre = SubSeq(T, 1, u - 1)
    BY <1>1, <1>4, <1>7, SplitToks
  <2> HIDE DEF u, pre
  <2>3. B \o pre \in Seq(Toks)
    BY <2>2, ConcatProperties
  <2>4. /\ Sound(w) /\ w.sess = sess /\ w.buf[c] = <<>> /\ Adds(Server, w, c, B \o pre)
    BY <1>1, <1>2, <1>3, <1>4, <2>3, LineSound
  <2> HIDE DEF w
  <2>5. Fine(w)
    BY <1>1, <1>3, <2>3, <2>4, AddsFine
  <2>6. /\ Got(w, c) = G \o (B \o pre)
        /\ \A b \in Conns : b # c => Got(w, b) = Got(Server, b) /\ w.buf[b] = Server.buf[b]
    <3>1. PICK line \in Seq(Toks) : line = B \o pre
      BY <2>3
    <3>2. mode # "udp" /\ Server.sess[c] = "open" /\ Adds(Server, w, c, line)
      BY <1>2, <1>3, <2>4, <3>1
    <3>3. /\ Got(w, c) = Got(Server, c) \o line
          /\ \A b \in Conns : b # c => Got(w, b) = Got(Server, b) /\ w.buf[b] = Server.buf[b]
      BY <1>1, <2>4, <3>2, AddsPast
    <3> QED
      BY <1>4, <3>1, <3>3
  <2>7. \A b \in Conns : b # c => Past(w, b) = Past(Server, b) /\ wire'[b] = wire[b]
    BY <1>1, <2>1, <2>6 DEF Past
  <2>8. Past(w, c) = (G \o B) \o pre
    <3>1. (G \o B) \o pre = G \o (B \o pre)
      <4>1. PICK A \in Seq(Toks) : A = pre
        BY <2>2
      <4>2. (G \o B) \o A = G \o (B \o A)
        BY ConcatAssociative
      <4> QED
        BY <4>1, <4>2
    <3>2. G \o (B \o pre) \in Seq(Toks)
      BY <2>3, ConcatProperties
    <3>3. (G \o (B \o pre)) \o <<>> = G \o (B \o pre)
      BY <3>2, ConcatEmptySeq
    <3> QED
      BY <2>4, <2>6, <3>1, <3>3 DEF Past
  <2>9. wire'[c] = SubSeq(T, u + 1, Len(T))
    BY <1>1, <1>4, <2>1
  <2>10. ASSUME NEW s \in Places, NEW e \in Places, Reads((G \o B) \o T, s, e)
         PROVE  Reads(Past(w, c) \o wire'[c], s, e)
    <3>1. G \o B \in Seq(Toks)
      BY ConcatProperties
    <3>2. Reads(((G \o B) \o SubSeq(T, 1, u - 1)) \o SubSeq(T, u + 1, Len(T)), s, e)
      BY <1>1, <2>2, <2>10, <3>1, ReadsLine
    <3> QED
      BY <2>2, <2>8, <2>9, <3>2
  <2>11. w \in Stores
    BY <2>4 DEF Sound
  <2> QED
    BY <1>5, <2>1, <2>4, <2>5, <2>7, <2>10, <2>11
<1> QED
  BY <1>6, <1>7

\* The end of a session, for what is known of the runs and of the streams.
LEMMA EndedRight ==
  ASSUME limit \in Limits, NEW v, Sound(v), Fine(v), NEW c \in Conns, v.sess[c] = "open"
  PROVE  /\ Sound(Ended(v, c)) /\ Fine(Ended(v, c))
         /\ \A b \in Conns : b # c => Ended(v, c).sess[b] = v.sess[b]
         /\ \A b \in Conns : mode # "udp" => Past(Ended(v, c), b) = Past(v, b)
<1>1. /\ Sound(Ended(v, c)) /\ Flushes(v, Ended(v, c), c)
      /\ \A b \in Conns : b # c => Ended(v, c).sess[b] = v.sess[b]
  BY EndSound
<1>2. Fine(Ended(v, c))
  BY <1>1, FlushesFine
<1>3. ASSUME NEW b \in Conns, mode # "udp" PROVE Past(Ended(v, c), b) = Past(v, b)
  BY <1>3, EndedPast
<1> QED
  BY <1>1, <1>2, <1>3

\* a session that ends,
LEMMA EndsRight ==
  ASSUME LogInv, StreamInv, NEW c \in Conns, sess[c] = "open", Serves(Ended(Server, c)),
         UNCHANGED <<wireVars, clientVars>>
  PROVE  StreamInv'
<1> DEFINE w == Ended(Server, c)
<1>1. /\ limit \in Limits /\ Sound(Server) /\ Fine(Server) /\ Server.sess = sess
      /\ UNCHANGED <<limit, wire, link, g>>
  BY DEF LogInv, ClientInv, StreamInv, Server, wireVars, clientVars
<1>2. /\ Sound(w) /\ Fine(w)
      /\ \A b \in Conns : b # c => w.sess[b] = sess[b]
      /\ \A b \in Conns : mode # "udp" => Past(w, b) = Past(Server, b)
  BY <1>1, EndedRight
<1>3. Serves(w)
  OBVIOUS
<1> HIDE DEF w
<1>4. mode = "udp" => \A b \in Conns : \A i \in DOMAIN wire'[b] : wire'[b][i].whole
  BY <1>1, WorldIs DEF Right, Whole
<1>5. ASSUME mode # "udp", NEW b \in Conns
      PROVE  /\ link'[b] = "up" => link[b] = "up"
             /\ link[b] = "new" => link'[b] = "new"
             /\ link[b] = "new" /\ sess[b] = "none" =>
                   w.sess[b] = "none" /\ Past(w, b) = Past(Server, b) /\ wire'[b] = wire[b]
             /\ \A s, e \in Places :
                   Reads(Past(Server, b) \o wire[b], s, e) => Reads(Past(w, b) \o wire'[b], s, e)
  <2>1. Past(w, b) = Past(Server, b)
    BY <1>2, <1>5
  <2>2. sess[b] = "none" => w.sess[b] = "none"
    BY <1>2
  <2> QED
    BY <1>1, <2>1, <2>2
<1>6. w \in Stores
  BY <1>2 DEF Sound
<1> QED
  BY <1>1, <1>2, <1>3, <1>4, <1>5, <1>6, ServesRight

\* a datagram, in whatever order it arrives,
LEMMA ReadUdpRight ==
  ASSUME LogInv, StreamInv, NEW c \in Conns, ReadUdp(c), UNCHANGED clientVars
  PROVE  StreamInv'
<1>1. limit \in Limits /\ wire \in [Conns -> Seq(Toks)] /\ Fine(Server)
  BY DEF LogInv, ClientInv, StreamInv
<1> DEFINE w == [Server EXCEPT !.sess[c] = "open"]
<1>2. PICK i \in DOMAIN wire[c] :
        /\ \/ /\ wire' = [wire EXCEPT ![c] = RemoveAt(@, i)]
              /\ faults' = faults
           \/ /\ Faulty
              /\ wire' = wire
        /\ LET l == Lined(w, c, <<wire[c][i]>>)
           IN  Serves(IF l.runs[l.cur[c]].bye = -1 THEN l ELSE Ended(l, c))
  BY DEF ReadUdp
<1>3. /\ mode = "udp" /\ (cur[c] = 0 => Len(runs) < MaxRuns)
      /\ UNCHANGED <<limit, link, power, g, std, prints>>
  BY DEF ReadUdp, clientVars
<1>4. \A b \in Conns : \A k \in DOMAIN wire[b] : wire[b][k].whole
  BY <1>3, WorldIs DEF Right, Whole
<1>5. PICK t \in Toks : t = wire[c][i] /\ t.whole
  <2>1. wire[c] \in Seq(Toks)
    BY <1>1
  <2>2. wire[c][i] \in Toks
    BY <2>1, LenProperties, ElementOfSeq
  <2> QED
    BY <1>4, <2>2
<1> DEFINE l == Lined(w, c, <<t>>)
<1>6. Sound(w) /\ w.sess[c] = "open" /\ w.runs = runs /\ w.cur = cur
  BY <1>3, TalksSound
<1>7. Serves(IF l.runs[l.cur[c]].bye = -1 THEN l ELSE Ended(l, c))
  BY <1>2, <1>5
<1> HIDE DEF w
<1>8. Fine(w)
  BY <1>1, <1>6 DEF Fine, Server
<1>9. <<t>> \in Seq(Toks)
  OBVIOUS
<1>10. w.cur[c] = 0 => Len(w.runs) < MaxRuns
  BY <1>3, <1>6
<1>11. Sound(l) /\ l.sess = w.sess /\ Adds(w, l, c, <<t>>)
  BY <1>1, <1>6, <1>9, <1>10, LineSound
<1> HIDE DEF l
<1>12. Fine(l)
  <2>1. PICK line \in Seq(Toks) : line = <<t>>
    BY <1>9
  <2>2. \E x \in Toks : x.whole /\ line = <<x>>
    BY <1>5, <2>1
  <2> QED
    BY <1>1, <1>6, <1>8, <1>11, <2>1, <2>2, AddsFine
<1>13. Sound(Ended(l, c)) /\ Fine(Ended(l, c))
  BY <1>1, <1>6, <1>11, <1>12, EndedRight
<1>14. PICK z \in {l, Ended(l, c)} : Serves(z)
  BY <1>7
<1>15. \A b \in Conns : \A k \in DOMAIN wire'[b] : wire'[b][k].whole
  <2> SUFFICES ASSUME wire' # wire, NEW b \in Conns, NEW k \in DOMAIN wire'[b] PROVE wire'[b][k].whole
    BY <1>4
  <2>1. wire' = [wire EXCEPT ![c] = RemoveAt(@, i)]
    BY <1>2
  <2>2. CASE b # c
    BY <1>1, <1>4, <2>1, <2>2
  <2>3. CASE b = c
    <3> DEFINE X == {x \in Toks : x.whole}
    <3>1. PICK W \in Seq(Toks) : W = wire[c]
      BY <1>1
    <3>2. W \in Seq(X)
      <4>1. PICK n \in Nat : n = Len(W) /\ DOMAIN W = 1 .. n /\ W = [j \in 1 .. n |-> W[j]]
        BY LenProperties
      <4>2. \A j \in 1 .. n : W[j] \in X
        BY <1>4, <3>1, <4>1, ElementOfSeq
      <4> HIDE DEF X
      <4>3. [j \in 1 .. n |-> W[j]] \in Seq(X)
        BY <4>2, IsASeq
      <4> QED
        BY <4>1, <4>3
    <3> HIDE DEF X
    <3>3. RemoveAt(W, i) \in Seq(X)
      BY <3>1, <3>2, RemoveAtTyped
    <3>4. wire'[b] = RemoveAt(W, i)
      BY <1>1, <2>1, <2>3, <3>1
    <3>5. wire'[b][k] \in X
      BY <3>3, <3>4, LenProperties, ElementOfSeq
    <3> QED
      BY <3>5 DEF X
  <2> QED
    BY <2>2, <2>3
<1>16. Sound(z) /\ Fine(z) /\ z \in Stores
  BY <1>11, <1>12, <1>13, <1>14 DEF Sound
<1> QED
  BY <1>3, <1>14, <1>15, <1>16, ServesRight

\* close_all, by the least session it would break it at.
LEMMA ClosedAll ==
  ASSUME limit \in Limits, NEW v, Sound(v), Fine(v), NEW N \in Nat, Conns = 1 .. N,
         NEW f, Closing(v, v.sess, N, f)
  PROVE  /\ Sound(f[N]) /\ Fine(f[N])
         /\ \A b \in Conns : v.sess[b] = "none" => f[N].sess[b] = "none"
         /\ mode # "udp" => \A b \in Conns : Past(f[N], b) = Past(v, b)
<1> DEFINE o == v.sess
           P(k) == /\ Sound(f[k]) /\ Fine(f[k])
                   /\ \A b \in Conns : b > k \/ o[b] = "none" => f[k].sess[b] = o[b]
                   /\ mode # "udp" => \A b \in Conns : Past(f[k], b) = Past(v, b)
           T == {k \in 0 .. N : ~P(k)}
<1>1. /\ f[0] = v
      /\ \A k \in 1 .. N : f[k] = IF o[k] = "open" THEN Ended(f[k - 1], k) ELSE f[k - 1]
  <2>1. f = [c \in 0 .. N |-> IF c = 0 THEN v ELSE IF o[c] = "open" THEN Ended(f[c - 1], c) ELSE f[c - 1]]
    BY DEF Closing
  <2> QED
    BY <2>1
<1>2. T = {}
  <2> SUFFICES ASSUME T # {} PROVE FALSE
    OBVIOUS
  <2>1. PICK k \in T : \A m \in T : k <= m
    <3>1. T \in SUBSET Nat
      OBVIOUS
    <3> QED
      BY <3>1, Least
  <2>2. k \in 0 .. N /\ ~P(k)
    BY <2>1
  <2>3. k # 0
    BY <1>1, <2>2
  <2>4. k - 1 \in 0 .. N /\ ~(k <= k - 1) /\ k \in 1 .. N /\ k \in Conns
    BY <2>2, <2>3
  <2>5. P(k - 1)
    BY <2>1, <2>4
  <2>6. PICK x : x = f[k - 1]
    OBVIOUS
  <2>7. /\ Sound(x) /\ Fine(x)
        /\ \A b \in Conns : b > k - 1 \/ o[b] = "none" => x.sess[b] = o[b]
        /\ mode # "udp" => \A b \in Conns : Past(x, b) = Past(v, b)
    BY <2>5, <2>6
  <2>8. \A b \in Conns : b > k => b # k /\ b > k - 1
    BY <2>4
  <2>9. CASE o[k] = "open"
    <3>1. x.sess[k] = "open" /\ f[k] = Ended(x, k)
      BY <1>1, <2>4, <2>6, <2>7, <2>9
    <3>2. /\ Sound(f[k]) /\ Fine(f[k])
          /\ \A b \in Conns : b # k => f[k].sess[b] = x.sess[b]
          /\ \A b \in Conns : mode # "udp" => Past(f[k], b) = Past(x, b)
      BY <2>4, <2>7, <3>1, EndedRight
    <3>3. \A b \in Conns : b > k \/ o[b] = "none" => f[k].sess[b] = o[b]
      BY <2>7, <2>8, <2>9, <3>2
    <3>4. mode # "udp" => \A b \in Conns : Past(f[k], b) = Past(v, b)
      BY <2>7, <3>2
    <3> QED
      BY <2>2, <3>2, <3>3, <3>4
  <2>10. CASE o[k] # "open"
    <3>1. f[k] = x
      BY <1>1, <2>4, <2>6, <2>10
    <3> QED
      BY <2>2, <2>7, <2>8, <3>1
  <2> QED
    BY <2>9, <2>10
<1>3. P(N)
  BY <1>2
<1> QED
  BY <1>3

\* and the end of the loop.
LEMMA ShutDownRight ==
  ASSUME LogInv, StreamInv, ShutDown, UNCHANGED clientVars
  PROVE  StreamInv'
<1>1. limit \in Limits /\ Sound(Server) /\ Fine(Server) /\ Server.sess = sess
  BY DEF LogInv, ClientInv, Server, StreamInv
<1>2. PICK N : N = MaxConns
  OBVIOUS
<1>3. N \in Nat /\ Conns = 1 .. N
  BY <1>1, <1>2, Bounds DEF Conns
<1>4. PICK v : v = Server
  OBVIOUS
<1> DEFINE f == CHOOSE h : h = [c \in 0 .. N |-> IF c = 0 THEN v
                               ELSE IF sess[c] = "open" THEN Ended(h[c - 1], c) ELSE h[c - 1]]
<1>5. Serves(f[N])
  BY <1>2, <1>4 DEF ShutDown
<1>6. N \in 0 .. N
  BY <1>3
<1>7. \E h : Closing(v, sess, N, h)
  BY <1>1, <1>3, <1>4, <1>6, ClosingSound
<1>8. \E h : h = [c \in 0 .. N |-> IF c = 0 THEN v
                               ELSE IF sess[c] = "open" THEN Ended(h[c - 1], c) ELSE h[c - 1]]
  BY <1>7 DEF Closing
<1>9. Closing(v, sess, N, f)
  BY <1>8 DEF Closing
<1> HIDE DEF f
<1>10. PICK w : w = f[N]
  OBVIOUS
<1>11. /\ Sound(w) /\ Fine(w)
       /\ \A b \in Conns : sess[b] = "none" => w.sess[b] = "none"
       /\ mode # "udp" => \A b \in Conns : Past(w, b) = Past(Server, b)
  BY <1>1, <1>3, <1>4, <1>9, <1>10, ClosedAll
<1>12. limit' = limit /\ UNCHANGED <<wire, g>>
  BY DEF ShutDown, clientVars
<1>13. link' = [c \in Conns |-> IF mode = "tcp" /\ link[c] \in {"up", "fin"} THEN "rst" ELSE link[c]]
  BY DEF ShutDown
<1>14. mode = "udp" => \A b \in Conns : \A i \in DOMAIN wire'[b] : wire'[b][i].whole
  BY <1>12, WorldIs DEF Right, Whole
<1>15. ASSUME mode # "udp", NEW b \in Conns
       PROVE  /\ link'[b] = "up" => link[b] = "up"
              /\ link[b] = "new" => link'[b] = "new"
              /\ link[b] = "new" /\ sess[b] = "none" =>
                    w.sess[b] = "none" /\ Past(w, b) = Past(Server, b) /\ wire'[b] = wire[b]
              /\ \A s, e \in Places :
                    Reads(Past(Server, b) \o wire[b], s, e) => Reads(Past(w, b) \o wire'[b], s, e)
  <2>1. Past(w, b) = Past(Server, b)
    BY <1>11, <1>15
  <2>2. (link'[b] = "up" => link[b] = "up") /\ (link[b] = "new" => link'[b] = "new")
    BY <1>13
  <2> QED
    BY <1>11, <1>12, <2>1, <2>2
<1>16. w \in Stores
  BY <1>11 DEF Sound
<1> QED
  BY <1>5, <1>10, <1>11, <1>12, <1>14, <1>15, <1>16, ServesRight

\* Every step.
LEMMA StreamStep ==
  ASSUME LogInv, StreamInv, [Next]_vars
  PROVE  StreamInv'
<1>1. CASE Net
  BY <1>1, NetRight
<1>2. CASE Freeze
  BY <1>2, FreezeRight
<1>3. CASE Client
  BY <1>3, InitRight, LineRight, RawRight, PrintRight, CaptureRight, ReleaseRight, ReconnectRight, CloseRight
     DEF Client, ClientNext
<1>4. CASE ServerStep
  <2>1. UNCHANGED clientVars
    BY <1>4 DEF ServerStep
  <2>2. CASE ShutDown
    BY <2>1, <2>2, ShutDownRight
  <2>3. ASSUME NEW c \in Conns, Accept(c) \/ ReadTcp(c) \/ ReadEnd(c) \/ ReadUdp(c) \/ ExpireUdp(c)
        PROVE  StreamInv'
    <3>1. CASE ReadEnd(c) \/ ExpireUdp(c)
      <4>1. sess[c] = "open" /\ Serves(Ended(Server, c)) /\ UNCHANGED <<wireVars, clientVars>>
        BY <2>1, <3>1 DEF ReadEnd, ExpireUdp
      <4> QED
        BY <4>1, EndsRight
    <3> QED
      BY <2>1, <2>3, <3>1, AcceptRight, ReadTcpRight, ReadUdpRight
  <2> QED
    BY <1>4, <2>2, <2>3 DEF ServerStep, ServerNext
<1>5. CASE UNCHANGED vars
  <2>1. Server' = Server /\ World' = World /\ g' = g /\ mode' = mode
    BY <1>5 DEF vars, serverVars, wireVars, clientVars, Server, World, mode
  <2>2. Fine(Server)'
    BY <2>1 DEF StreamInv, Fine
  <2>3. Right(World, Server, {Place(g.seq, FALSE)})'
    BY <2>1 DEF StreamInv, Right, Flow, Unused
  <2> QED
    BY <2>2, <2>3 DEF StreamInv
<1> QED
  BY <1>1, <1>2, <1>3, <1>4, <1>5 DEF Next

\* Before the first step every stream is empty.
LEMMA StreamStart ==
  ASSUME Init
  PROVE  StreamInv
<1>1. /\ runs = <<>> /\ g.fd = 0 /\ g.used = 0 /\ g.seq = 0
      /\ \A c \in Conns : wire[c] = <<>> /\ link[c] = "new" /\ sess[c] = "none" /\ buf[c] = <<>>
  BY DEF Init, WireInit, ClientInit, ServerInit
<1>2. Server.runs = <<>> /\ Server.sess = sess /\ Server.buf = buf /\ World.g = g /\ World.wire = wire /\ World.link = link
  BY <1>1 DEF Server, World
<1>3. DOMAIN <<>> = {}
  OBVIOUS
<1>4. Fine(Server)
  BY <1>2, <1>3 DEF Fine
<1>5. <<>> \in Seq(Toks) /\ <<>> \o <<>> = <<>>
  <2>1. <<>> \in Seq(Toks)
    OBVIOUS
  <2> QED
    BY <2>1, ConcatEmptySeq
<1>6. \A c \in Conns : Past(Server, c) = <<>>
  <2>1. \A c : RunsOf(Server, c) = {}
    BY <1>2, <1>3 DEF RunsOf
  <2> QED
    BY <1>1, <1>2, <1>5, <2>1 DEF Past, Got
<1>7. Whole(World)
  BY <1>1, <1>2, <1>3 DEF Whole
<1>8. ASSUME NEW c \in Conns
      PROVE  Flow(World, Server, c, {Place(g.seq, FALSE)}) /\ Unused(World, Server, c)
  <2>1. Place(0, FALSE) \in Places
    BY PlaceIn
  <2>2. Reads(<<>>, Place(0, FALSE), Place(0, FALSE))
    BY <2>1, ReadsNothing
  <2>3. Past(Server, c) \o World.wire[c] = <<>>
    BY <1>1, <1>2, <1>5, <1>6
  <2>4. World.link[c] # "up"
    BY <1>1, <1>2
  <2>5. Flow(World, Server, c, {Place(g.seq, FALSE)})
    BY <2>1, <2>2, <2>3, <2>4 DEF Flow
  <2>6. Unused(World, Server, c)
    BY <1>1, <1>2, <1>6 DEF Unused
  <2> QED
    BY <2>5, <2>6
<1>9. World.g.fd <= World.g.used
  BY <1>1, <1>2
<1>10. Right(World, Server, {Place(g.seq, FALSE)})
  BY <1>7, <1>8, <1>9 DEF Right
<1> QED
  BY <1>4, <1>10 DEF StreamInv

\* A run of a stream is a piece of it, from its first byte.
LEMMA RunReads ==
  ASSUME LogInv, StreamInv, mode # "udp", NEW i \in DOMAIN runs
  PROVE  \E b \in Nat, m \in Places : Reads(Bodies(runs[i]), Place(b, FALSE), m)
<1>1. /\ limit \in Limits /\ Sound(Server) /\ Server.runs = runs /\ World.wire = wire
      /\ wire \in [Conns -> Seq(Toks)]
  BY DEF LogInv, ClientInv, Server, World
<1>2. PICK c \in Conns : c = runs[i].conn /\ Got(Server, c) = Bodies(runs[i])
  <2>1. i \in DOMAIN Server.runs /\ runs[i] = Server.runs[i]
    BY <1>1
  <2>2. Got(Server, Server.runs[i].conn) = Bodies(Server.runs[i]) /\ Server.runs[i].conn \in Conns
    BY <1>1, <2>1, GotIs
  <2> QED
    BY <2>1, <2>2
<1>3. Flow(World, Server, c, {Place(g.seq, FALSE)})
  BY DEF StreamInv, Right
<1>4. PICK b \in Nat, e \in Places : Reads(Past(Server, c) \o wire[c], Place(b, FALSE), e)
  BY <1>1, <1>3 DEF Flow
<1>5. PICK G \in Seq(Toks), B \in Seq(Toks), T \in Seq(Toks) :
        G = Got(Server, c) /\ B = Server.buf[c] /\ T = wire[c]
  BY <1>1, GotTyped, PastTyped
<1>6. Past(Server, c) = G \o B /\ G \o B \in Seq(Toks)
  BY <1>5, ConcatProperties DEF Past
<1>7. \E u \in Places : Reads(G \o B, Place(b, FALSE), u)
  BY <1>4, <1>5, <1>6, ReadsApart
<1>8. \E m \in Places : Reads(G, Place(b, FALSE), m)
  BY <1>7, ReadsApart
<1> QED
  BY <1>2, <1>5, <1>8

\* The BYE of a run whose bodies can be read names the last of them.
LEMMA ByeNames ==
  ASSUME NEW r, Marked(r), r.bye > 0, NEW n,
         \A j \in DOMAIN Bodies(r) : Bodies(r)[j].k = "bye" =>
            IF Bodies(r)[j].whole THEN Bodies(r)[j].n = n ELSE Bodies(r)[j].n \in Shortened(n)
  PROVE  Names(r, n)
<1>1. PICK j \in DOMAIN Bodies(r) : Bodies(r)[j].k = "bye" /\ Bodies(r)[j].n = r.bye
  BY DEF Marked
<1>2. Bodies(r)[j] \in ToSet(Bodies(r))
  BY DEF ToSet
<1> QED
  BY <1>1, <1>2 DEF Names

\* A run of a stream begins at what its HELLO says, and ends at what its BYE says.
LEMMA StreamSound ==
  ASSUME LogInv, StreamInv
  PROVE  StreamContiguous
<1> SUFFICES ASSUME NEW i \in DOMAIN runs, mode = "tcp", runs[i].hello, runs[i].log[1][1].whole
             PROVE  /\ Consecutive(Bodies(runs[i]), runs[i].log[1][1].n - 1)
                    /\ runs[i].bye > 0 =>
                         Names(runs[i], runs[i].log[1][1].n - 1 + Recs(Bodies(runs[i]), Len(Bodies(runs[i]))))
  BY DEF StreamContiguous
<1>1. PICK r : r = runs[i]
  OBVIOUS
<1>2. r \in RunRecs /\ Marked(r)
  BY <1>1, LenProperties, ElementOfSeq DEF LogInv, StreamInv, Fine, Sound, Stores, Server
<1>3. PICK B \in Seq(Toks) : B = Bodies(r)
  BY <1>2, BodiesTyped
<1>4. PICK b \in Nat, m \in Places : Reads(B, Place(b, FALSE), m)
  BY <1>1, <1>3, RunReads
<1>5. /\ Consecutive(B, b) /\ m.n = b + Recs(B, Len(B))
      /\ B # <<>> /\ B[1].k = "hello" /\ B[1].whole => B[1].n = b + 1
      /\ \A j \in DOMAIN B : B[j].k = "bye" => IF B[j].whole THEN B[j].n = m.n ELSE B[j].n \in Shortened(m.n)
  <2>0. Place(b, FALSE).n = b
    BY DEF Place
  <2>1. PICK s : s = Place(b, FALSE) /\ s.n = b
    BY <2>0
  <2>2. Reads(B, s, m)
    BY <1>4, <2>1
  <2>3. /\ Consecutive(B, s.n) /\ m.n = s.n + Recs(B, Len(B))
        /\ B # <<>> /\ B[1].k = "hello" /\ B[1].whole => B[1].n = s.n + 1
        /\ \A j \in DOMAIN B : B[j].k = "bye" => IF B[j].whole THEN B[j].n = m.n ELSE B[j].n \in Shortened(m.n)
    BY <2>2, ReadsCount
  <2> QED
    BY <2>1, <2>3
<1>6. r.log[1][1].n = b + 1
  BY <1>1, <1>2, <1>3, <1>5 DEF Marked
<1>7. r.log[1][1].n - 1 = b
  BY <1>6
<1>8. ASSUME r.bye > 0 PROVE Names(r, b + Recs(B, Len(B)))
  BY <1>2, <1>3, <1>5, <1>8, ByeNames
<1> QED
  BY <1>1, <1>3, <1>5, <1>7, <1>8

\* With every number between one and the BYE seen, and no gap, all of it is there.
LEMMA CompleteSound ==
  ASSUME LogInv, StreamInv
  PROVE  CompleteIsComplete
<1> SUFFICES ASSUME NEW i \in DOMAIN runs, runs[i].gaps = {}, runs[i].bye > 0,
                    runs[i].first = 1, runs[i].last = runs[i].bye
             PROVE  /\ Consecutive(Bodies(runs[i]), 0)
                    /\ Names(runs[i], Recs(Bodies(runs[i]), Len(Bodies(runs[i]))))
                    /\ \A t \in ToSet(Bodies(runs[i])) : t.k = "rec" => t.whole
  BY DEF CompleteIsComplete
<1>1. PICK r : r = runs[i]
  OBVIOUS
<1>2. r \in RunRecs /\ Marked(r) /\ (mode = "udp" => UdpRun(r))
  BY <1>1, LenProperties, ElementOfSeq DEF LogInv, StreamInv, Fine, Sound, Stores, Server
<1>3. PICK B \in Seq(Toks), n \in Nat : B = Bodies(r) /\ n = Len(B) /\ DOMAIN B = 1 .. n
  BY <1>2, BodiesTyped, LenProperties
<1>4. PICK q \in Nat : q = Recs(B, n)
  BY RecsStep
<1>5. Consecutive(B, 0) /\ Names(r, q) /\ \A j \in 1 .. n : B[j].k = "rec" => B[j].whole
  <2>1. CASE mode = "udp"
    <3>1. Consecutive(B, r.first - 1) /\ r.first - 1 + q = r.last /\ \A j \in 1 .. n : B[j].whole
      BY <1>1, <1>2, <1>3, <1>4, <2>1 DEF UdpRun
    <3>2. Consecutive(B, 0) /\ q = r.bye
      BY <1>1, <1>4, <3>1
    <3> QED
      BY <3>1, <3>2 DEF Names
  <2>2. CASE mode # "udp"
    <3>1. PICK b \in Nat, m \in Places : Reads(B, Place(b, FALSE), m)
      BY <1>1, <1>3, <2>2, RunReads
    <3>2. /\ Consecutive(B, b) /\ m.n = b + q
          /\ \A j \in 1 .. n : B[j].k = "bye" =>
               /\ IF B[j].whole THEN B[j].n = m.n ELSE B[j].n \in Shortened(m.n)
               /\ \A k \in 1 .. n : B[k].k = "rec" => B[k].whole
      <4>0. Place(b, FALSE).n = b
        BY DEF Place
      <4>1. PICK s : s = Place(b, FALSE) /\ s.n = b
        BY <4>0
      <4>2. Reads(B, s, m)
        BY <3>1, <4>1
      <4>3. /\ Consecutive(B, s.n) /\ m.n = s.n + Recs(B, Len(B))
            /\ \A j \in DOMAIN B : B[j].k = "bye" =>
                 /\ IF B[j].whole THEN B[j].n = m.n ELSE B[j].n \in Shortened(m.n)
                 /\ \A k \in DOMAIN B : B[k].k = "rec" => B[k].whole
        BY <4>2, ReadsCount
      <4> QED
        BY <1>3, <1>4, <4>1, <4>3
    <3>3. PICK j \in 1 .. n : B[j].k = "rec" /\ B[j].n = 1
      BY <1>1, <1>2, <1>3 DEF Marked
    <3>4. PICK x \in Nat : x = Recs(B, j - 1) /\ Recs(B, j) = x + 1
      <4>1. j - 1 \in Nat /\ j - 1 + 1 = j
        OBVIOUS
      <4> QED
        BY <3>3, <4>1, RecsStep
    <3>5. B[j].n = b + Recs(B, j)
      BY <1>3, <3>2, <3>3 DEF Consecutive
    <3>6. b = 0
      BY <3>3, <3>4, <3>5
    <3>7. PICK k \in 1 .. n : B[k].k = "bye" /\ B[k].n = r.bye
      BY <1>1, <1>2, <1>3 DEF Marked
    <3>8. \A l \in 1 .. n : B[l].k = "rec" => B[l].whole
      BY <3>2, <3>7
    <3>9. Names(r, m.n)
      BY <1>1, <1>2, <1>3, <3>2, ByeNames
    <3>10. m.n = q /\ Consecutive(B, 0)
      BY <3>2, <3>6
    <3> QED
      BY <3>8, <3>9, <3>10
  <2> QED
    BY <2>1, <2>2
<1>6. \A t \in ToSet(B) : t.k = "rec" => t.whole
  BY <1>3, <1>5 DEF ToSet
<1> QED
  BY <1>1, <1>3, <1>4, <1>5, <1>6

\* Whatever the network does to a stream, what a run of it holds is consecutive.
THEOREM StreamAlwaysContiguous == Spec => []StreamContiguous
<1>1. Init => LogInv /\ StreamInv
  BY LogStart, StreamStart
<1>2. LogInv /\ StreamInv /\ [Next]_vars => (LogInv /\ StreamInv)'
  BY LogStep, StreamStep
<1>3. LogInv /\ StreamInv => StreamContiguous
  BY StreamSound
<1> QED
  BY <1>1, <1>2, <1>3, PTL DEF Spec

\* A manifest that looks complete is.
THEOREM CompleteAlwaysComplete == Spec => []CompleteIsComplete
<1>1. Init => LogInv /\ StreamInv
  BY LogStart, StreamStart
<1>2. LogInv /\ StreamInv /\ [Next]_vars => (LogInv /\ StreamInv)'
  BY LogStep, StreamStep
<1>3. LogInv /\ StreamInv => CompleteIsComplete
  BY CompleteSound
<1> QED
  BY <1>1, <1>2, <1>3, PTL DEF Spec
=============================================================================
