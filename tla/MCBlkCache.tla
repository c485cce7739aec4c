----------------------------- MODULE MCBlkCache -----------------------------
(* Small instances of BlkCache for TLC. *)
EXTENDS BlkCache

============================================================================
