---------------------------- MODULE MCX86Flags ----------------------------
(* Every block of up to MaxBlock instructions, linked in any order. *)
EXTENDS X86Flags
=============================================================================
