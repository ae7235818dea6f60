------------------------------ MODULE MCUpload ------------------------------
(***************************************************************************)
(* Instances of Upload for TLC: two folders, two names of which one is a   *)
(* prefix of the other, as many copies as there are orders of interest.    *)
(***************************************************************************)
EXTENDS Upload, TLC

CONSTANTS c1, c2, c3, movie, movie2, fd1, fd2, dir1, dir2

Symmetry == Permutations(Copies)

Stems == movie :> {movie, movie2} @@ movie2 :> {movie2}

MCMatched == [n \in Names |-> Stems[n] \cap Names]
=============================================================================
