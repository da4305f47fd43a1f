---------------------------- MODULE HeapService ----------------------------
(***************************************************************************)
(* What the guest heap promises a guest: allocations that do not overlap,  *)
(* keep what was written to them until they are freed, and survive a       *)
(* realloc up to the smaller of both sizes.  A failed call changes         *)
(* nothing (src/pw_guest_heap.h).                                          *)
(***************************************************************************)
EXTENDS Integers, Sequences, FiniteSets

CONSTANT Bytes         \* the size of the heap

VARIABLE allocs          \* allocs[a]: the contents of the allocation at a

\* Even an empty allocation occupies its address.
Span(a, n) == a..(a + (IF n = 0 THEN 1 ELSE n) - 1)

Disjoint(f) ==
    \A a, b \in DOMAIN f :
        /\ Span(a, Len(f[a])) \subseteq 0..(Bytes - 1)
        /\ a # b => Span(a, Len(f[a])) \cap Span(b, Len(f[b])) = {}

ServiceInit == allocs = <<>>

Keeps(old, new) ==
    \A a \in DOMAIN old \cap DOMAIN new : new[a] = old[a]

\* A new allocation; calloc's contents are zero, alloc's anything.
Gain ==
    /\ \E a \in DOMAIN allocs' : DOMAIN allocs' = DOMAIN allocs \cup {a} /\ a \notin DOMAIN allocs
    /\ Keeps(allocs, allocs')

Drop ==
    /\ \E a \in DOMAIN allocs : DOMAIN allocs' = DOMAIN allocs \ {a}
    /\ Keeps(allocs, allocs')

Write(a) ==
    /\ DOMAIN allocs' = DOMAIN allocs
    /\ Len(allocs'[a]) = Len(allocs[a])
    /\ \A b \in DOMAIN allocs \ {a} : allocs'[b] = allocs[b]

\* realloc of a, to b.
Move(a, b) ==
    /\ b \notin DOMAIN allocs \ {a}
    /\ DOMAIN allocs' = (DOMAIN allocs \ {a}) \cup {b}
    /\ \A c \in DOMAIN allocs \ {a} : allocs'[c] = allocs[c]
    /\ LET kept == IF Len(allocs[a]) < Len(allocs'[b]) THEN Len(allocs[a]) ELSE Len(allocs'[b])
       IN  \A i \in 1..kept : allocs'[b][i] = allocs[a][i]

ServiceNext ==
    /\ Disjoint(allocs')
    /\ \/ Gain
       \/ Drop
       \/ \E a \in DOMAIN allocs : Write(a) \/ \E b \in DOMAIN allocs' : Move(a, b)

ServiceSpec == ServiceInit /\ [][ServiceNext]_allocs
=============================================================================
