-------------------------- MODULE MCCoreExecution --------------------------
(* A program of 9 cycles, in chunks that end inside a shard, exactly at a  *)
(* shard's boundary, and past several of them.  Address 8 is touched and   *)
(* may be a register too.                                                  *)
EXTENDS CoreExecution

MCChunkEnds == <<1, 4, 9>>
MCTouchedBy == <<{8, 16}, {16}, {40}>>
MCMemoryPlans == [hints : SUBSET {16, 24}, image : {{24}, {32}, {24, 32}},
                  registers : SUBSET {0, 5, 8}]
MCPagePlans == [touched : SUBSET {1, 2, 3}, image : {{}, {2, 4}}]
=============================================================================
