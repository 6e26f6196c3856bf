------------------------------- MODULE MCPaths -------------------------------
(* Small instances of Paths: the root and one directory below it. *)
EXTENDS Paths, TLC

MCCwds == {<<"/">>, <<"/", "d", "/">>}
=============================================================================
