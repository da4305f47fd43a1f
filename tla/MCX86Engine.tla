---------------------------- MODULE MCX86Engine ----------------------------
(***************************************************************************)
(* A guest with a loop entered at its head and in its middle (1 and 2), a   *)
(* conditional branch (5), and blocks that leave dynamically (6 and 8);     *)
(* five blocks for three cache slots and two pages of arena, so that        *)
(* probing collides, pages are shared, and both the table and the arena     *)
(* can be exhausted.                                                        *)
(***************************************************************************)
EXTENDS X86Engine

B(insns, bytes, exits, contract, faults) ==
  [insns |-> insns, bytes |-> bytes, exits |-> exits,
   contract |-> contract, faults |-> faults]

MCPCs == {1, 2, 5, 6, 8}
MCBlocks == [pc \in MCPCs |->
               CASE pc = 1 -> B(3, 3, <<2>>, "eax", {1})
                 [] pc = 2 -> B(2, 2, <<2>>, "eax", {0})
                 [] pc = 5 -> B(1, 2, <<1, 6>>, "ecx", {})
                 [] pc = 6 -> B(2, 2, <<>>, "eax", {0})
                 [] pc = 8 -> B(1, 1, <<5>>, "ecx", {})]
MCFirstSlot == [pc \in MCPCs |-> CASE pc \in {1, 2, 6} -> 0 [] OTHER -> 2]
=============================================================================
