------------------------------ MODULE MCFileSys ------------------------------
(* Small instances of FileSys: a directory d and a file f in it. *)
EXTENDS FileSys, TLC

CONSTANTS d, f, a, b

MCParent == d :> Root @@ f :> d

MCSeeks == {-1, 1}

\* Two characters make a byte.
MCAssembled(s) == [k \in 1 .. Len(s) \div 2 |-> s[2 * k]]
=============================================================================
