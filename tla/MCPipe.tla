------------------------------- MODULE MCPipe -------------------------------
(* Small instances of Pipe for TLC. *)
EXTENDS Pipe

\* A third process is looked at where all programs are careful.
ThirdIfCareful == live \subseteq {0, 1} \/ habits = {}
============================================================================
