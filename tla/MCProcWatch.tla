---------------------------- MODULE MCProcWatch -----------------------------
(* ProcWatch for TLC: three processes and a short netlink socket.  The       *)
(* processes are interchangeable.                                            *)
EXTENDS ProcWatch, TLC

Symmetry == Permutations(Pids)
=============================================================================
