------------------------------ MODULE MCRamFs ------------------------------
(* Constants of the runs of the RAM file system. *)
EXTENDS RamFs, TLC

MCTexts == {<<1>>, <<2, 2>>}
MCSymmetry == Permutations(Names)
============================================================================
