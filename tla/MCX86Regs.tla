----------------------------- MODULE MCX86Regs -----------------------------
(* Four guest registers compete for the three host registers. *)
EXTENDS X86Regs
=============================================================================
