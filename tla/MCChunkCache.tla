---------------------------- MODULE MCChunkCache ----------------------------
(***************************************************************************)
(* Instances of ChunkCache for TLC.  Chunks have four bytes.  "movie" has  *)
(* three chunks, the last one not full; "movie2" has a name that the glob  *)
(* "movie*" matches and fits in one chunk; "note" is a text file whose     *)
(* content comes inline.                                                   *)
(***************************************************************************)
EXTENDS ChunkCacheReads, TLC

CONSTANTS movie, movie2, note, t1, t2, t3, t4

Symmetry == Permutations(Threads)

Sizes == movie :> 10 @@ movie2 :> 3 @@ note :> 2

MCSizeOf == [f \in Files |-> Sizes[f]]

(* A file whose size is a multiple of the size of a chunk. *)
MCSizeOfExact == [f \in Files |-> 4]

(* A movie in two files; the regular expression that looks for the next *)
(* part finds movie2 from movie.                                         *)
MCNextPart == [f \in Files |-> IF f = movie /\ movie2 \in Files /\ PlexSplit
                                THEN movie2 ELSE NoFile]

MCNameOf == [f \in Files |-> f]

Stems == movie :> {movie, movie2} @@ movie2 :> {movie2} @@ note :> {note}

MCMatched == [n \in Names |-> (Stems[n] \cap Names) \X (0..MaxPart)]
=============================================================================
