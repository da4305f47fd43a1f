------------------------------ MODULE MCWaveOut ------------------------------
(* WaveOut with two headers, a queue of three blocks and one message slot. *)
EXTENDS WaveOut

CONSTANTS h1, h2
MCTokens == {h1, h2}
=============================================================================
