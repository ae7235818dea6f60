--------------------------- MODULE ChunkCacheReads ---------------------------
(***************************************************************************)
(* The chunked read path implements ReadService: how the read in progress, *)
(* with its two pieces of data, looks from outside.                        *)
(***************************************************************************)
EXTENDS ChunkCache

(* The two pieces as one, when the second goes on where the first ends. *)
Joined(r) ==
  IF r.second.n = 0 THEN r.first
  ELSE IF r.second.file = r.first.file /\ r.second.from = r.first.from + r.first.n
       THEN [r.first EXCEPT !.n = @ + r.second.n]
       ELSE NoPiece

(* What the caller sees of the read. *)
Seen(r) ==
  [state |-> CASE r.pc = "idle" -> "none"
               [] r.pc = "dead" -> "dead"
               [] r.pc = "reply" -> "answered"
               [] OTHER -> "asked",
   file |-> r.file, off |-> r.off, len |-> r.len,
   answer |-> CASE r.status = "ok" /\ ~r.torn -> "bytes"
                [] r.status = "ok" /\ r.torn -> "torn"
                [] OTHER -> r.status,
   bytes |-> IF r.status = "ok" /\ ~r.torn THEN Joined(r) ELSE NoPiece]

Promise == INSTANCE ReadService WITH request <- Seen(rd)

(* Every read the chunks serve is one that ReadService promises: neither    *)
(* clean-ups, nor downloads that fail or are done twice, nor a restart can  *)
(* be seen in the bytes of an answer that met only complete chunks.         *)
ReadsAsPromised == Promise!Spec
=============================================================================
