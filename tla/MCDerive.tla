------------------------------ MODULE MCDerive ------------------------------
(***************************************************************************)
(* A small instance of Derive: all lengths of four bits, all secrets of    *)
(* three base-3 digits.                                                    *)
(***************************************************************************)
EXTENDS Derive

MCTmpls == {<< >>, <<Nil>>} \cup {<<n>> : n \in 0 .. Width - 1}
             \cup {<<n, Nil>> : n \in {0, 2}} \cup {<<4, 1>>}

=============================================================================
