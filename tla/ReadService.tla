----------------------------- MODULE ReadService -----------------------------
(***************************************************************************)
(* What the drive promises to a program that reads a file, whatever chunks *)
(* and threads are behind it: a read is answered with exactly the bytes of *)
(* the range it asks for that the file has, or with an error.  Two things  *)
(* spoil the promise, and a caller has to know them: an answer that was    *)
(* put together while one of its chunks was being written may be anything, *)
(* and an exception in the handler ends the main loop.                     *)
(***************************************************************************)
EXTENDS Integers

CONSTANTS Files, NoFile, SizeOf, Lengths, Page

VARIABLE request  \* the read that is asked for, and its answer

(* n bytes of a file from an offset of the file on. *)
Nothing == [file |-> NoFile, from |-> 0, n |-> 0]

None == [state |-> "none", file |-> NoFile, off |-> 0, len |-> 0,
         answer |-> "none", bytes |-> Nothing]

(* The bytes of the range that the file has. *)
Exact(r) ==
  [file |-> r.file, from |-> r.off,
   n |-> IF r.off + r.len <= SizeOf[r.file] THEN r.len ELSE SizeOf[r.file] - r.off]

Init == request = None

(* A read of whole pages that begin inside the file. *)
Ask ==
  /\ request.state = "none"
  /\ \E f \in Files, len \in Lengths : \E off \in 0..(SizeOf[f] - 1) :
       /\ off % Page = 0
       /\ off + len < SizeOf[f] + Page
       /\ request' = [state |-> "asked", file |-> f, off |-> off, len |-> len,
                      answer |-> "none", bytes |-> Nothing]

Answer(kind, bytes) ==
  /\ request.state = "asked"
  /\ request' = [state |-> "answered", file |-> request.file, off |-> request.off,
                 len |-> request.len, answer |-> kind, bytes |-> bytes]

Serve == Answer("bytes", Exact(request))

ServeTorn == Answer("torn", Nothing)

Refuse == Answer("ENOENT", Nothing)

(* The caller has the answer. *)
Finish == request.state = "answered" /\ request' = None

(* An exception leaves the handler. *)
Die == request.state = "asked" /\ request' = [request EXCEPT !.state = "dead"]

(* The process is killed and started again. *)
Restart == request # None /\ request' = None

Next == Ask \/ Serve \/ ServeTorn \/ Refuse \/ Finish \/ Die \/ Restart

Spec == Init /\ [][Next]_request
=============================================================================
