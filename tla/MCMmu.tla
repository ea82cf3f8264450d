------------------------------- MODULE MCMmu -------------------------------
(* Small instances of Mmu for TLC: tables of four entries, one page of      *)
(* kernel.                                                                  *)
EXTENDS Mmu
MCKernelMap == [p \in {2} |-> {"R", "X"}]
MCPerms == {{"R"}, {"R", "W"}}
=============================================================================
