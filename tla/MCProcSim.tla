----------------------------- MODULE MCProcSim -----------------------------
(* Small instances of ProcSim: one or two programs of one cell. *)
EXTENDS ProcSim, TLC

CONSTANTS p, q, st0, st139

MCFileLen    == [x \in Progs |-> 1]

\* The programs differ in nothing but their names.
MCSymmetry   == Permutations({p, q})

MCStatusWord == 0 :> st0 @@ 139 :> st139
=============================================================================
