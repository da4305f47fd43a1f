---------------------------- MODULE AudioService ----------------------------
(***************************************************************************)
(* What the WinMM adapter of projects/prospero-win is promised by its host  *)
(* audio service (PwWin32Services in src/pw_win32.h): "Submit copies PCM    *)
(* before returning.  A nonzero token is returned exactly once by           *)
(* audio_poll after the host has consumed the final sample."                *)
(* A service that has failed accepts and returns nothing until it is opened *)
(* again, and a reset or teardown forgets the tokens it holds.              *)
(***************************************************************************)
CONSTANT Tokens

VARIABLES state,    \* "closed", "open" or "failed"
          pending,  \* tokens accepted whose final sample is not consumed
          ready     \* tokens consumed and not yet returned

serviceVars == <<state, pending, ready>>

Init == state = "closed" /\ pending = {} /\ ready = {}

Open == /\ state # "open" /\ state' = "open"
        /\ UNCHANGED <<pending, ready>>

Accept(t) == /\ state = "open" /\ t \notin pending \cup ready
             /\ pending' = pending \cup {t}
             /\ UNCHANGED <<state, ready>>

Consume(t) == /\ t \in pending
              /\ pending' = pending \ {t} /\ ready' = ready \cup {t}
              /\ UNCHANGED state

Return(t) == /\ state # "failed" /\ t \in ready
             /\ ready' = ready \ {t}
             /\ UNCHANGED <<state, pending>>

Fail == /\ state' = "failed"
        /\ \/ UNCHANGED pending
           \/ \E t \in pending : pending' = pending \ {t}
        /\ UNCHANGED ready

Forget == /\ pending' \subseteq pending /\ ready' = {}
          /\ UNCHANGED state

Close == /\ state = "open" /\ pending = {} /\ state' = "closed"
         /\ UNCHANGED <<pending, ready>>

Next == \/ Open \/ Fail \/ Forget \/ Close
        \/ \E t \in Tokens : Accept(t) \/ Consume(t) \/ Return(t)

Spec == Init /\ [][Next]_serviceVars
=============================================================================
