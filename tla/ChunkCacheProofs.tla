-------------------------- MODULE ChunkCacheProofs --------------------------
(***************************************************************************)
(* Theorems about ChunkCache, for every value of its constants.            *)
(***************************************************************************)
EXTENDS ChunkCache, TLAPS

(* Integer division by the size of a chunk. *)
LEMMA DivChunk ==
  ASSUME NEW a \in Nat
  PROVE  /\ a \div CacheSize \in Nat
         /\ (a \div CacheSize) * CacheSize <= a
         /\ a < (a \div CacheSize) * CacheSize + CacheSize
  BY SizesAssumption

(* Multiples of the size of a chunk are ordered as their factors. *)
LEMMA ChunkOrder ==
  ASSUME NEW p \in Nat, NEW q \in Nat
  PROVE  /\ p * CacheSize \in Nat
         /\ (p + 1) * CacheSize = p * CacheSize + CacheSize
         /\ p < q => p * CacheSize + CacheSize <= q * CacheSize
  BY SizesAssumption

(* A range that begins inside a file begins in a part with a next part. *)
LEMMA PartInParts ==
  ASSUME NEW f \in Files, NEW off \in Nat, off < SizeOf[f]
  PROVE  off \div CacheSize \in Parts /\ off \div CacheSize + 1 \in Parts
<1> DEFINE p == off \div CacheSize
<1>1. p \in Nat /\ p * CacheSize <= off
  BY DivChunk
<1>2. SizeOf[f] \in Nat /\ SizeOf[f] <= MaxPart * CacheSize /\ MaxPart \in Nat
  BY FilesAssumption, SizesAssumption
<1>3. p < MaxPart
  <2>1. SUFFICES ASSUME MaxPart <= p PROVE FALSE
    BY <1>1, <1>2
  <2>2. MaxPart * CacheSize <= p * CacheSize
    BY <1>1, <1>2, <2>1, ChunkOrder, SizesAssumption
  <2> QED BY <1>1, <1>2, <2>2, SizesAssumption
<1> QED BY <1>1, <1>2, <1>3 DEF Parts

(* So does the last part that check_and_split_file asks for. *)
LEMMA LastPartInParts ==
  ASSUME NEW f \in Files
  PROVE  SizeOf[f] \div CacheSize \in Parts
<1> DEFINE p == SizeOf[f] \div CacheSize
<1>1. SizeOf[f] \in Nat /\ SizeOf[f] <= MaxPart * CacheSize /\ MaxPart \in Nat
  BY FilesAssumption, SizesAssumption
<1>2. p \in Nat /\ p * CacheSize <= SizeOf[f]
  BY <1>1, DivChunk
<1>3. p <= MaxPart
  <2>1. SUFFICES ASSUME MaxPart < p PROVE FALSE
    BY <1>1, <1>2
  <2>2. MaxPart * CacheSize + CacheSize <= p * CacheSize
    BY <1>1, <1>2, <2>1, ChunkOrder
  <2> QED BY <1>1, <1>2, <2>2, SizesAssumption
<1> QED BY <1>1, <1>2, <1>3 DEF Parts

(* The two branches of `read` seek to the same place: the distance of the *)
(* offset from the beginning of its chunk.  A range that crosses ends in   *)
(* the next chunk.                                                         *)
LEMMA FirstAtIs ==
  ASSUME NEW r, r.off \in Nat, r.len \in Lengths
  PROVE  /\ FirstAt(r) = r.off - Part(r) * CacheSize
         /\ FirstAt(r) \in Nat
         /\ FirstAt(r) < CacheSize
         /\ Part(r) \in Nat
         /\ Crossing(r) <=> Part(r) * CacheSize + CacheSize <= r.off + r.len
<1> DEFINE C == CacheSize
           o == r.off
           l == r.len
           p == Part(r)
           q == Result(r)
<1>0. o \in Nat /\ l \in Nat /\ l <= C /\ C \in Nat /\ C > 0 /\ o + l \in Nat
  <2>1. l \in 1..CacheSize /\ CacheSize \in Nat \ {0}
    BY SizesAssumption
  <2> QED BY <2>1
<1>1. p \in Nat /\ p * C <= o /\ o < p * C + C
  BY <1>0, DivChunk DEF Part
<1>2. q \in Nat /\ q * C <= o + l /\ o + l < q * C + C
  BY <1>0, DivChunk DEF Result
<1>3. p * C \in Nat /\ q * C \in Nat /\ (p + 1) * C = p * C + C
  BY <1>1, <1>2, ChunkOrder
<1> HIDE DEF C, o, l, p, q
<1>4. q = p \/ q = p + 1
  <2>1. ~(q < p)
    <3>1. q < p => q * C + C <= p * C
      BY <1>1, <1>2, ChunkOrder DEF C
    <3> QED BY <1>0, <1>1, <1>2, <1>3, <3>1
  <2>2. ~(p + 1 < q)
    <3>1. p + 1 < q => (p + 1) * C + C <= q * C
      BY <1>1, <1>2, ChunkOrder DEF C
    <3> QED BY <1>0, <1>1, <1>2, <1>3, <3>1
  <2> QED BY <1>1, <1>2, <2>1, <2>2
<1>5. CASE q = p
  <2>1. ~(o < q * C) /\ ~(p * C + C <= o + l)
    BY <1>0, <1>1, <1>2, <1>3, <1>5
  <2>2. ~Crossing(r) /\ FirstAt(r) = o - p * C
    BY <2>1, <1>5 DEF Crossing, FirstAt, C, o, q
  <2> QED BY <1>0, <1>1, <1>3, <2>1, <2>2 DEF C, o, l, p
<1>6. CASE q = p + 1
  <2>1. o < q * C /\ p * C + C <= o + l
    BY <1>0, <1>1, <1>2, <1>3, <1>6
  <2>2. Crossing(r) /\ FirstAt(r) = C - (q * C - o)
    BY <2>1 DEF Crossing, FirstAt, C, o, q
  <2>3. FirstAt(r) = o - p * C
    BY <2>2, <1>0, <1>3, <1>6
  <2> QED BY <1>0, <1>1, <1>3, <2>1, <2>2, <2>3 DEF C, o, l, p
<1> QED BY <1>4, <1>5, <1>6

(* What os.read returns: typed, no more than was asked for, no more than *)
(* the chunk has.                                                         *)
LEMMA ReadFromType ==
  ASSUME NEW k \in Chunks, disk[k] \in Content,
         NEW at \in Nat, NEW want \in Nat, at < CacheSize,
         NEW piece \in ReadFrom(k, at, want)
  PROVE  /\ piece \in Piece
         /\ piece.file = disk[k].file
         /\ piece.from = k[2] * CacheSize + at
         /\ piece.n <= want
         /\ piece.n <= CacheSize - at
<1> DEFINE length == ChunkLength(disk[k].file, k[2])
           there  == IF length <= at THEN 0 ELSE Least(want, length - at)
<1>1. k[2] \in Nat /\ k[2] * CacheSize \in Nat /\ CacheSize \in Nat
  <2>1. k[2] \in Nat
    BY SizesAssumption DEF Chunks, Parts
  <2> QED BY <2>1, ChunkOrder, SizesAssumption
<1>2. length \in Nat /\ length <= CacheSize
  <2>1. disk[k].file \in Files => SizeOf[disk[k].file] \in Nat
    BY FilesAssumption
  <2> QED BY <1>1, <2>1 DEF ChunkLength, Least
<1> HIDE DEF length
<1>3. there \in Nat /\ there <= want /\ there <= CacheSize - at
  BY <1>1, <1>2 DEF Least
<1>4. PICK m \in (IF disk[k].state = "whole" THEN {there} ELSE 0..there) :
        piece = [file |-> disk[k].file, from |-> k[2] * CacheSize + at, n |-> m]
  BY DEF ReadFrom, length
<1> HIDE DEF there
<1>5. m \in Nat /\ m <= there
  BY <1>3, <1>4
<1>6. disk[k].file \in Files \cup {NoFile}
  BY DEF Content
<1> QED BY <1>1, <1>3, <1>4, <1>5, <1>6 DEF Piece

-----------------------------------------------------------------------------
(* TypeOK is not inductive: the first piece must leave room for the second, *)
(* and what is read and downloaded must be files.                           *)
TypeInv == TypeOK /\ ReadShape

(* The types, at first. *)
LEMMA InitTypeInv == Init => TypeInv
<1> SUFFICES ASSUME Init PROVE TypeInv
  OBVIOUS
<1>1. 0 \in Parts /\ Fuse \in Workers /\ 0 \in 0..CacheSize /\ 0 \in 0..Retries
  BY SizesAssumption DEF Parts, Workers
<1>2. NoRead \in Request
  BY <1>1 DEF NoRead, Request, NoPiece, Piece
<1>3. disk \in [Chunks -> Content] /\ job \in [Workers -> Job]
  BY <1>1 DEF Init, Absent, Content, NoJob, Job
<1>4. TypeOK
  BY <1>2, <1>3 DEF Init, TypeOK
<1>5. ReadShape
  BY <1>1 DEF Init, ReadShape, NoJob, NoRead, NoPiece
<1> QED BY <1>4, <1>5 DEF TypeInv

(* What is known of a read in progress. *)
LEMMA ReadInProgress ==
  ASSUME TypeInv, rd.pc # "idle"
  PROVE  /\ rd.file \in Files
         /\ rd.off \in Nat
         /\ rd.len \in Lengths
         /\ rd.len \in Nat
         /\ Part(rd) \in Parts
         /\ Part(rd) + 1 \in Parts
         /\ FirstChunk(rd) \in Chunks
         /\ NextChunk(rd) \in Chunks
<1>1. rd.file \in Files /\ rd.off \in Nat /\ rd.off < SizeOf[rd.file] /\ rd.len \in Lengths
      /\ rd.len \in Nat
  BY SizesAssumption DEF TypeInv, TypeOK, ReadShape, Request
<1>2. Part(rd) \in Parts /\ Part(rd) + 1 \in Parts
  BY <1>1, PartInParts DEF Part
<1> QED
  BY <1>1, <1>2, FilesAssumption DEF FirstChunk, NextChunk, Chunk, Chunks

(* What is known of a download in progress. *)
LEMMA DownloadInProgress ==
  ASSUME TypeInv, NEW w \in Workers, job[w].pc # "idle"
  PROVE  /\ job[w].file \in Files
         /\ job[w].part \in Parts
         /\ JobChunk(w) \in Chunks
<1>1. job[w].file \in Files /\ job[w].part \in Parts
  BY DEF TypeInv, TypeOK, ReadShape, Job
<1> QED
  BY <1>1, FilesAssumption DEF JobChunk, Chunk, Chunks

(* A new download is typed. *)
LEMMA DownloadType ==
  ASSUME NEW f \in Files, NEW p \in Parts
  PROVE  Download(f, p) \in Job
  BY DEF Download, Job

(* Removing chunk files keeps the types and what the workers do. *)
LEMMA RemoveType ==
  ASSUME TypeInv, NEW ks, Remove(ks)
  PROVE  /\ disk' \in [Chunks -> Content]
         /\ job' \in [Workers -> Job]
         /\ \A w \in Workers : job'[w].pc = job[w].pc /\ job'[w].file = job[w].file
<1>1. disk' \in [Chunks -> Content]
  BY DEF Remove, TypeInv, TypeOK, Absent, Content
<1>2. ASSUME NEW w \in Workers
      PROVE  /\ job'[w] \in Job
             /\ job'[w].pc = job[w].pc
             /\ job'[w].file = job[w].file
  <2>1. job[w] \in Job
    BY DEF TypeInv, TypeOK
  <2>2. job'[w] = job[w] \/ job'[w] = [job[w] EXCEPT !.linked = FALSE]
    BY DEF Remove
  <2> QED BY <2>1, <2>2 DEF Job
<1>3. job' = [w \in Workers |-> job'[w]]
  BY DEF Remove
<1> QED BY <1>1, <1>2, <1>3

(* The ends of a download. *)
LEMMA FinishType ==
  ASSUME TypeInv, NEW w \in Workers, job[w].pc # "idle",
         Finish(w) \/ FinishENOENT(w) \/ FinishRaise(w)
  PROVE  job' \in [Workers -> Job] /\ rd' \in Request /\ ReadShape'
<1>1. NoJob \in Job
  BY SizesAssumption DEF NoJob, Job, Parts
<1>2. job' = [job EXCEPT ![w] = NoJob]
  BY DEF Finish, FinishENOENT, FinishRaise
<1>3. job' \in [Workers -> Job]
  BY <1>1, <1>2 DEF TypeInv, TypeOK
<1>4. \A v \in Workers : job'[v].pc # "idle" => v # w /\ job'[v] = job[v]
  BY <1>2 DEF NoJob, TypeInv, TypeOK
<1>5. rd \in Request /\ Fuse \in Workers
  BY DEF TypeInv, TypeOK, Workers
<1>6. w = Fuse => rd.pc = "sync"
  BY DEF TypeInv, ReadShape
<1>7. CASE w # Fuse
  <2>1. rd' = rd
    BY <1>7 DEF Finish, FinishENOENT, FinishRaise
  <2> QED BY <2>1, <1>3, <1>4, <1>5 DEF TypeInv, ReadShape
<1>8. CASE w = Fuse
  <2>1. \/ rd' = [rd EXCEPT !.pc = "ahead"]
        \/ rd' = [rd EXCEPT !.pc = "reply", !.status = "ENOENT"]
        \/ rd' = [rd EXCEPT !.pc = "dead"]
    BY <1>8 DEF Finish, FinishENOENT, FinishRaise
  <2>2. rd' \in Request
    BY <2>1, <1>5 DEF Request
  <2>3. ReadShape'
    BY <2>1, <1>4, <1>5, <1>6, <1>8 DEF TypeInv, ReadShape, Request
  <2> QED BY <2>2, <2>3, <1>3
<1> QED BY <1>7, <1>8

(* A download that goes on: its file stays, so does the read. *)
LEMMA GotoType ==
  ASSUME TypeInv, NEW w \in Workers, job[w].pc # "idle", NEW pc \in {"get", "leave", "remove"},
         Goto(w, pc), UNCHANGED rd
  PROVE  job' \in [Workers -> Job] /\ ReadShape'
<1>1. job \in [Workers -> Job] /\ job' = [job EXCEPT ![w].pc = pc]
  BY DEF TypeInv, TypeOK, Goto
<1>2. job' \in [Workers -> Job]
  BY <1>1 DEF Job
<1>3. \A v \in Workers : job'[v].file = job[v].file /\ (job'[v].pc # "idle" => job[v].pc # "idle")
  BY <1>1 DEF Job
<1>4. Fuse \in Workers
  BY DEF Workers
<1> QED BY <1>2, <1>3, <1>4 DEF TypeInv, ReadShape

(* So does a download that truncates its chunk file. *)
LEMMA TruncateType ==
  ASSUME TypeInv, NEW w \in Workers, job[w].pc # "idle", Truncate(w), UNCHANGED rd
  PROVE  /\ disk' \in [Chunks -> Content]
         /\ job' \in [Workers -> Job]
         /\ ReadShape'
<1>1. /\ job \in [Workers -> Job]
      /\ job' = [job EXCEPT ![w].pc = "write", ![w].linked = TRUE]
  BY DEF TypeInv, TypeOK, Truncate
<1>2. job' \in [Workers -> Job]
  BY <1>1 DEF Job
<1>3. \A v \in Workers : job'[v].file = job[v].file /\ (job'[v].pc # "idle" => job[v].pc # "idle")
  BY <1>1 DEF Job
<1>4. Fuse \in Workers
  BY DEF Workers
<1>5. job[w].file \in Files
  BY DownloadInProgress
<1>6. disk' \in [Chunks -> Content]
  BY <1>5 DEF TypeInv, TypeOK, Truncate, Content
<1> QED BY <1>2, <1>3, <1>4, <1>6 DEF TypeInv, ReadShape

(* Steps of the FUSE thread that start no download and remove no chunk file *)
(* only have to leave the read well formed.                                 *)
LEMMA QuietType ==
  ASSUME TypeInv, rd' \in Request, UNCHANGED <<disk, caching, job>>,
         job[Fuse].pc = "idle",
         rd'.pc # "idle" => /\ rd'.file \in Files
                            /\ rd'.off < SizeOf[rd'.file]
                            /\ rd'.len \in Lengths,
         rd'.pc \in {"clear", "wait"} => rd'.first.n <= rd'.len,
         rd'.pc # "reply" => rd'.second = NoPiece /\ rd'.status = "none"
  PROVE  TypeInv'
<1>1. TypeOK'
  BY DEF TypeInv, TypeOK
<1>2. Fuse \in Workers
  BY DEF Workers
<1>3. ReadShape'
  BY <1>2 DEF TypeInv, ReadShape
<1> QED BY <1>1, <1>3 DEF TypeInv

(* What the two branches of `read` take from the first chunk. *)
LEMMA FirstPieceType ==
  ASSUME TypeInv, rd.pc = "open",
         NEW piece \in ReadFrom(FirstChunk(rd), FirstAt(rd), FirstWant(rd))
  PROVE  piece \in Piece /\ piece.n <= rd.len
<1>1. /\ FirstAt(rd) \in Nat
      /\ FirstAt(rd) < CacheSize
      /\ FirstAt(rd) = rd.off - Part(rd) * CacheSize
      /\ Part(rd) \in Nat
      /\ Crossing(rd) <=> Part(rd) * CacheSize + CacheSize <= rd.off + rd.len
  BY ReadInProgress, FirstAtIs
<1>2. rd.len \in 1..CacheSize /\ CacheSize \in Nat
  BY ReadInProgress, SizesAssumption
<1>3. FirstWant(rd) \in Nat
  BY <1>2 DEF FirstWant
<1>4. FirstChunk(rd) \in Chunks /\ disk[FirstChunk(rd)] \in Content
  BY ReadInProgress DEF TypeInv, TypeOK
<1>5. /\ piece \in Piece
      /\ piece.n <= FirstWant(rd)
      /\ piece.n <= CacheSize - FirstAt(rd)
  BY <1>1, <1>3, <1>4, ReadFromType
<1>6. piece.n \in Nat
  BY <1>5 DEF Piece
<1>7. CASE Crossing(rd)
  <2>1. Part(rd) * CacheSize \in Nat /\ rd.off \in Nat
    BY <1>1, ChunkOrder, ReadInProgress
  <2>2. CacheSize - FirstAt(rd) <= rd.len
    BY <2>1, <1>1, <1>2, <1>7
  <2> QED BY <2>2, <1>1, <1>2, <1>5, <1>6
<1>8. CASE ~Crossing(rd)
  BY <1>8, <1>5 DEF FirstWant
<1> QED BY <1>7, <1>8

(* One step preserves TypeInv. *)
LEMMA NextTypeInv == TypeInv /\ [Next]_vars => TypeInv'
<1> SUFFICES ASSUME TypeInv, [Next]_vars PROVE TypeInv'
  OBVIOUS
<1>0. Fuse \in Workers /\ rd \in Request /\ job \in [Workers -> Job]
  BY DEF Workers, TypeInv, TypeOK
<1>a. rd.pc # "sync" => job[Fuse].pc = "idle"
  BY DEF TypeInv, ReadShape
<1>1. CASE Read
  <2>1. job[Fuse].pc = "idle"
    BY <1>1, <1>a DEF Read
  <2>2. PICK f \in Files, len \in Lengths : \E off \in 0..(SizeOf[f] - 1) :
          rd' = [NoRead EXCEPT !.pc = "first", !.file = f, !.off = off, !.len = len]
    BY <1>1 DEF Read
  <2>3. PICK off \in 0..(SizeOf[f] - 1) :
          rd' = [NoRead EXCEPT !.pc = "first", !.file = f, !.off = off, !.len = len]
    BY <2>2
  <2>4. SizeOf[f] \in Nat /\ off \in Nat /\ off < SizeOf[f] /\ len \in 0..CacheSize /\ 0 \in 0..Retries
    BY <2>3, FilesAssumption, SizesAssumption
  <2>5. rd' \in Request
    BY <2>3, <2>4 DEF NoRead, Request, NoPiece, Piece
  <2>6. /\ rd'.pc = "first" /\ rd'.file = f /\ rd'.off = off /\ rd'.len = len
        /\ rd'.second = NoPiece /\ rd'.status = "none"
    BY <2>3 DEF NoRead
  <2> QED BY <1>1, <2>1, <2>4, <2>5, <2>6, QuietType DEF Read
<1>2. CASE LookForFirst
  <2>1. CASE Present(FirstChunk(rd))
    BY <1>0, <1>a, <1>2, <2>1, QuietType DEF LookForFirst, Request, TypeInv, ReadShape
  <2>2. CASE ~Present(FirstChunk(rd))
    <3>1. /\ rd.pc = "first" /\ rd' = [rd EXCEPT !.pc = "sync"]
          /\ job' = [job EXCEPT ![Fuse] = Download(rd.file, Part(rd))]
          /\ UNCHANGED <<disk, caching>>
      BY <1>2, <2>2 DEF LookForFirst
    <3>2. Download(rd.file, Part(rd)) \in Job
      BY <3>1, ReadInProgress, DownloadType
    <3>3. TypeOK'
      BY <1>0, <3>1, <3>2 DEF TypeInv, TypeOK, Request
    <3>4. \A w \in Workers : job'[w].pc # "idle" => job'[w].file \in Files
      BY <1>0, <3>1, ReadInProgress DEF TypeInv, ReadShape, Download
    <3>5. ReadShape'
      BY <1>0, <3>1, <3>4 DEF TypeInv, ReadShape, Request
    <3> QED BY <3>3, <3>5 DEF TypeInv
  <2> QED BY <2>1, <2>2
<1>3. CASE PrefetchNext
  <2>1. PICK t \in Idle : job' = [job EXCEPT ![t] = Download(rd.file, Part(rd) + 1)]
    BY <1>3 DEF PrefetchNext
  <2>2. rd.pc = "ahead" /\ rd' = [rd EXCEPT !.pc = "split"] /\ UNCHANGED disk
        /\ caching' = caching \cup {NextChunk(rd)}
    BY <1>3 DEF PrefetchNext
  <2>3. Download(rd.file, Part(rd) + 1) \in Job /\ NextChunk(rd) \in Chunks /\ rd.file \in Files
    BY <2>2, ReadInProgress, DownloadType
  <2>4. t \in Workers /\ t # Fuse
    BY ThreadsAssumption DEF Idle, Workers
  <2>5. TypeOK'
    BY <1>0, <2>1, <2>2, <2>3 DEF TypeInv, TypeOK, Request
  <2>6. \A w \in Workers : job'[w].pc # "idle" => job'[w].file \in Files
    BY <1>0, <2>1, <2>3, <2>4 DEF TypeInv, ReadShape, Download
  <2>7. job'[Fuse] = job[Fuse]
    BY <1>0, <2>1, <2>4
  <2>8. ReadShape'
    BY <1>0, <1>a, <2>2, <2>6, <2>7 DEF TypeInv, ReadShape, Request
  <2> QED BY <2>5, <2>8 DEF TypeInv
<1>4. CASE NoPrefetch
  BY <1>0, <1>a, <1>4, QuietType DEF NoPrefetch, Request, TypeInv, ReadShape
<1>5. CASE SplitPrefetch
  <2> DEFINE g == NextPart[rd.file]
  <2>1. PICK s \in Idle, t \in Idle, u \in Idle :
          job' = [job EXCEPT ![s] = Download(g, 0), ![t] = Download(g, 1),
                             ![u] = Download(g, SizeOf[g] \div CacheSize)]
    BY <1>5 DEF SplitPrefetch
  <2>2. /\ rd.pc = "split" /\ rd' = [rd EXCEPT !.pc = "open"] /\ UNCHANGED disk
        /\ caching' = caching \cup {Chunk(rd.file, 0)}
        /\ NextPart[rd.file] # NoFile
    BY <1>5 DEF SplitPrefetch, SplitWanted
  <2>3. rd.file \in Files /\ g \in Files
    BY <2>2, ReadInProgress, FilesAssumption
  <2>4. 0 \in Parts /\ 1 \in Parts /\ SizeOf[g] \div CacheSize \in Parts
    BY <2>3, SizesAssumption, LastPartInParts DEF Parts
  <2>5. Chunk(rd.file, 0) \in Chunks
    BY <2>3, <2>4, FilesAssumption DEF Chunk, Chunks
  <2>6. /\ Download(g, 0) \in Job
        /\ Download(g, 1) \in Job
        /\ Download(g, SizeOf[g] \div CacheSize) \in Job
    BY <2>3, <2>4, DownloadType
  <2>7. s \in Workers /\ t \in Workers /\ u \in Workers /\ s # Fuse /\ t # Fuse /\ u # Fuse
    BY ThreadsAssumption DEF Idle, Workers
  <2>8. job' \in [Workers -> Job]
    BY <1>0, <2>1, <2>6
  <2>9. TypeOK'
    BY <1>0, <2>2, <2>5, <2>8 DEF TypeInv, TypeOK, Request
  <2>10. \A w \in Workers : \/ job'[w] = job[w] /\ w \notin {s, t, u}
                            \/ \E p \in Parts : job'[w] = Download(g, p)
    BY <1>0, <2>1, <2>4, <2>7
  <2>11. \A w \in Workers : job'[w].pc # "idle" => job'[w].file \in Files
    <3>1. \A p \in Parts : Download(g, p).file = g
      BY DEF Download
    <3> HIDE DEF g
    <3> QED BY <2>3, <2>10, <3>1 DEF TypeInv, ReadShape
  <2>12. job'[Fuse] = job[Fuse]
    BY <1>0, <2>1, <2>7
  <2>13. ReadShape'
    BY <1>0, <1>a, <2>2, <2>11, <2>12 DEF TypeInv, ReadShape, Request
  <2> QED BY <2>9, <2>13 DEF TypeInv
<1>6. CASE NoSplit
  BY <1>0, <1>a, <1>6, QuietType DEF NoSplit, Request, TypeInv, ReadShape
<1>7. CASE OpenFirst
  <2>1. CASE ~Present(FirstChunk(rd))
    BY <1>0, <1>a, <1>7, <2>1, QuietType DEF OpenFirst, Request, TypeInv, ReadShape
  <2>2. CASE Present(FirstChunk(rd))
    <3>1. PICK piece \in ReadFrom(FirstChunk(rd), FirstAt(rd), FirstWant(rd)) :
            rd' = [rd EXCEPT
                     !.pc = IF Crossing(rd) THEN "clear" ELSE "reply",
                     !.status = IF Crossing(rd) THEN "none" ELSE "ok",
                     !.first = piece,
                     !.torn = disk[FirstChunk(rd)].state = "partial"]
      BY <1>7, <2>2 DEF OpenFirst
    <3>2. piece \in Piece /\ piece.n <= rd.len
      BY <1>7, <3>1, FirstPieceType DEF OpenFirst
    <3>3. rd' \in Request
      BY <1>0, <3>1, <3>2 DEF Request
    <3>4. /\ rd'.file = rd.file /\ rd'.off = rd.off /\ rd'.len = rd.len /\ rd'.first = piece
          /\ rd'.second = rd.second
          /\ rd'.pc # "reply" => rd'.status = "none"
      BY <1>0, <3>1 DEF Request
    <3> QED
      BY <1>a, <1>7, <3>2, <3>3, <3>4, QuietType DEF OpenFirst, TypeInv, ReadShape
  <2> QED BY <2>1, <2>2
<1>8. CASE ClearBehind
  <2>1. /\ rd.pc = "clear" /\ rd' = [rd EXCEPT !.pc = "wait"] /\ UNCHANGED caching
        /\ Remove(Matched[NameOf[rd.file]] \ {NextChunk(rd)})
    BY <1>8 DEF ClearBehind
  <2>2. /\ disk' \in [Chunks -> Content] /\ job' \in [Workers -> Job]
        /\ \A w \in Workers : job'[w].pc = job[w].pc /\ job'[w].file = job[w].file
    BY <2>1, RemoveType
  <2>3. TypeOK'
    BY <1>0, <2>1, <2>2 DEF TypeInv, TypeOK, Request
  <2>4. ReadShape'
    BY <1>0, <1>a, <2>1, <2>2 DEF TypeInv, ReadShape, Request
  <2> QED BY <2>3, <2>4 DEF TypeInv
<1>9. CASE WaitNext
  <2>1. rd'.tries \in 0..Retries
    BY <1>0, <1>9, SizesAssumption DEF WaitNext, MustWait, Request
  <2> QED
    BY <1>0, <1>a, <1>9, <2>1, QuietType DEF WaitNext, Request, TypeInv, ReadShape
<1>10. CASE OpenSecond
  <2>1. CASE ~Present(NextChunk(rd))
    BY <1>0, <1>a, <1>10, <2>1, QuietType DEF OpenSecond, Request, TypeInv, ReadShape
  <2>2. CASE Present(NextChunk(rd))
    <3>1. PICK piece \in ReadFrom(NextChunk(rd), 0, SecondWant(rd)) :
            rd' = [rd EXCEPT
                     !.pc = "reply", !.status = "ok", !.second = piece,
                     !.torn = @ \/ disk[NextChunk(rd)].state = "partial"]
      BY <1>10, <2>2 DEF OpenSecond
    <3>2. SecondWant(rd) \in Nat /\ 0 \in Nat /\ 0 < CacheSize
      <4>1. rd.first \in Piece /\ rd.first.n <= rd.len /\ rd.len \in Nat
        BY <1>0, <1>10, ReadInProgress DEF OpenSecond, TypeInv, ReadShape, Request
      <4>2. rd.first.n \in Nat
        BY <4>1 DEF Piece
      <4> QED BY <4>1, <4>2, SizesAssumption DEF SecondWant
    <3>3. NextChunk(rd) \in Chunks /\ disk[NextChunk(rd)] \in Content
      BY <1>10, ReadInProgress DEF OpenSecond, TypeInv, TypeOK
    <3>4. piece \in Piece
      BY <3>1, <3>2, <3>3, ReadFromType
    <3>5. rd' \in Request
      BY <1>0, <3>1, <3>4 DEF Request
    <3> QED
      BY <1>0, <1>a, <1>10, <3>1, <3>5, QuietType DEF OpenSecond, TypeInv, ReadShape, Request
  <2> QED BY <2>1, <2>2
<1>11. CASE Reply
  <2>1. NoRead \in Request
    BY SizesAssumption DEF NoRead, Request, NoPiece, Piece
  <2> QED
    BY <1>a, <1>11, <2>1, QuietType DEF Reply, NoRead
<1>12. ASSUME NEW f \in Files, Release(f) PROVE TypeInv'
  <2>1. /\ disk' \in [Chunks -> Content] /\ job' \in [Workers -> Job]
        /\ \A w \in Workers : job'[w].pc = job[w].pc /\ job'[w].file = job[w].file
    BY <1>12, RemoveType DEF Release
  <2> QED
    BY <1>0, <1>12, <2>1 DEF Release, TypeInv, TypeOK, ReadShape
<1>13. ASSUME NEW w \in Workers, WorkerStep(w) PROVE TypeInv'
  <2>1. CASE GetUrl(w)
    <3>1. CASE Truncate(w)
      BY <1>0, <2>1, <3>1, TruncateType DEF GetUrl, TypeInv, TypeOK
    <3>2. CASE Goto(w, IF Present(JobChunk(w)) THEN "leave" ELSE "get") /\ UNCHANGED disk
      BY <1>0, <2>1, <3>2, GotoType DEF GetUrl, TypeInv, TypeOK
    <3> QED BY <2>1, <3>1, <3>2 DEF GetUrl
  <2>2. CASE Fetch(w)
    <3>1. CASE Truncate(w)
      BY <1>0, <2>2, <3>1, TruncateType DEF Fetch, TypeInv, TypeOK
    <3>2. CASE Goto(w, "leave") /\ UNCHANGED disk
      BY <1>0, <2>2, <3>2, GotoType DEF Fetch, TypeInv, TypeOK
    <3> QED BY <2>2, <3>1, <3>2 DEF Fetch
  <2>3. CASE DownloadFails(w)
    <3>1. job[w].pc # "idle" /\ (FinishENOENT(w) \/ FinishRaise(w)) /\ UNCHANGED <<disk, caching>>
      BY <2>3 DEF DownloadFails
    <3>2. job' \in [Workers -> Job] /\ rd' \in Request /\ ReadShape'
      BY <3>1, FinishType
    <3> QED BY <3>1, <3>2 DEF TypeInv, TypeOK
  <2>4. CASE Write(w)
    <3>1. job[w].pc # "idle" /\ Goto(w, "leave") /\ UNCHANGED <<caching, rd>>
      BY <2>4 DEF Write
    <3>2. job' \in [Workers -> Job] /\ ReadShape'
      BY <3>1, GotoType
    <3>3. disk' \in [Chunks -> Content]
      BY <2>4 DEF Write, TypeInv, TypeOK, Content
    <3> QED BY <1>0, <3>1, <3>2, <3>3 DEF TypeInv, TypeOK
  <2>5. CASE Leave(w)
    <3>1. CASE JobChunk(w) \in caching
      BY <1>0, <2>5, <3>1, GotoType DEF Leave, TypeInv, TypeOK
    <3>2. CASE JobChunk(w) \notin caching
      BY <2>5, <3>2, FinishType DEF Leave, TypeInv, TypeOK
    <3> QED BY <3>1, <3>2
  <2>6. CASE RemoveEntry(w)
    <3>1. job[w].pc # "idle" /\ (Finish(w) \/ FinishRaise(w)) /\ caching' \subseteq caching
          /\ UNCHANGED disk
      BY <2>6 DEF RemoveEntry
    <3>2. job' \in [Workers -> Job] /\ rd' \in Request /\ ReadShape'
      BY <3>1, FinishType
    <3> QED BY <3>1, <3>2 DEF TypeInv, TypeOK
  <2> QED
    BY <1>13, <2>1, <2>2, <2>3, <2>4, <2>5, <2>6 DEF WorkerStep
<1>14. CASE Crash
  <2>1. NoJob \in Job /\ NoRead \in Request
    BY SizesAssumption DEF NoJob, Job, Parts, NoRead, Request, NoPiece, Piece
  <2>2. TypeOK'
    BY <1>14, <2>1 DEF Crash, TypeInv, TypeOK
  <2>3. ReadShape'
    BY <1>0, <1>14 DEF Crash, ReadShape, NoJob, NoRead
  <2> QED BY <2>2, <2>3 DEF TypeInv
<1>15. CASE UNCHANGED vars
  BY <1>15 DEF vars, TypeInv, TypeOK, ReadShape
<1> QED
  BY <1>1, <1>2, <1>3, <1>4, <1>5, <1>6, <1>7, <1>8, <1>9, <1>10, <1>11, <1>12, <1>13,
     <1>14, <1>15 DEF Next, ReadStep

(* Every variable keeps its type, reads are about ranges of existing files *)
(* and the first piece of a read of two chunks never exceeds its length.   *)
THEOREM TypeCorrect == Spec => [](TypeOK /\ ReadShape)
<1>1. Init => TypeInv
  BY InitTypeInv
<1>2. TypeInv /\ [Next]_vars => TypeInv'
  BY NextTypeInv
<1>3. TypeInv => TypeOK /\ ReadShape
  BY DEF TypeInv
<1> QED BY <1>1, <1>2, <1>3, PTL DEF Spec

-----------------------------------------------------------------------------
(* Workers that are not at a write do not change who writes. *)
LEMMA WritersKept ==
  ASSUME \A v \in Workers : \/ job'[v] = job[v]
                            \/ job[v].pc # "write" /\ job'[v].pc # "write"
  PROVE  \A k : Writers(k)' = Writers(k)
<1> SUFFICES ASSUME NEW k, NEW v \in Workers
             PROVE  /\ v \in Writers(k)' <=> v \in Writers(k)
                    /\ Writers(k)' \subseteq Workers /\ Writers(k) \subseteq Workers
  BY DEF Writers
<1>1. CASE job'[v] = job[v]
  BY <1>1 DEF Writers, JobChunk
<1>2. CASE job[v].pc # "write" /\ job'[v].pc # "write"
  BY <1>2 DEF Writers
<1> QED BY <1>1, <1>2

(* The ways in which a step touches the directory and its writers. *)
LEMMA DiskStep ==
  ASSUME TypeInv, [Next]_vars
  PROVE  \/ UNCHANGED disk /\ \A k : Writers(k)' = Writers(k)
         \/ Crash
         \/ \E ks : Remove(ks)
         \/ \E w \in Workers : job[w].pc \in {"url", "get"} /\ Truncate(w)
         \/ \E w \in Workers : Write(w)
<1>0. job \in [Workers -> Job] /\ Fuse \in Workers
  BY DEF TypeInv, TypeOK, Workers
<1>1. CASE UNCHANGED vars \/ Read \/ NoPrefetch \/ NoSplit \/ OpenFirst \/ WaitNext \/ OpenSecond \/ Reply
  <2>1. UNCHANGED <<disk, job>>
    BY <1>1 DEF vars, Read, NoPrefetch, NoSplit, OpenFirst, WaitNext, OpenSecond, Reply
  <2> QED BY <2>1, WritersKept
<1>2. CASE LookForFirst
  <2>1. job[Fuse].pc = "idle" /\ UNCHANGED disk
    BY <1>2 DEF LookForFirst, TypeInv, ReadShape
  <2>2. job' = job \/ job' = [job EXCEPT ![Fuse] = Download(rd.file, Part(rd))]
    BY <1>2 DEF LookForFirst
  <2> QED BY <1>0, <2>1, <2>2, WritersKept DEF Download
<1>3. CASE PrefetchNext
  <2>1. PICK t \in Idle : job' = [job EXCEPT ![t] = Download(rd.file, Part(rd) + 1)]
    BY <1>3 DEF PrefetchNext
  <2> QED BY <1>0, <1>3, <2>1, WritersKept DEF PrefetchNext, Idle, Download
<1>4. CASE SplitPrefetch
  <2> DEFINE g == NextPart[rd.file]
             D(p) == Download(g, p)
  <2>1. PICK s \in Idle, t \in Idle, u \in Idle :
          job' = [job EXCEPT ![s] = D(0), ![t] = D(1), ![u] = D(SizeOf[g] \div CacheSize)]
    BY <1>4 DEF SplitPrefetch
  <2>2. \A p : D(p).pc = "url"
    BY DEF Download
  <2> HIDE DEF D
  <2>3. \A v \in Workers : job'[v] = job[v] \/ (job[v].pc = "idle" /\ job'[v].pc = "url")
    BY <1>0, <2>1, <2>2 DEF Idle
  <2>4. \A k : Writers(k)' = Writers(k)
    BY <2>3, WritersKept
  <2> QED BY <1>4, <2>4 DEF SplitPrefetch
<1>5. CASE ClearBehind \/ \E f \in Files : Release(f)
  BY <1>5 DEF ClearBehind, Release
<1>6. ASSUME NEW w \in Workers, WorkerStep(w), ~Write(w),
             ~(job[w].pc \in {"url", "get"} /\ Truncate(w))
      PROVE  UNCHANGED disk /\ \A k : Writers(k)' = Writers(k)
  <2>1. UNCHANGED disk /\ job[w].pc # "write"
    BY <1>6 DEF WorkerStep, GetUrl, Fetch, DownloadFails, Leave, RemoveEntry
  <2>2. \/ job' = [job EXCEPT ![w] = NoJob]
        \/ \E pc \in {"get", "leave", "remove"} : job' = [job EXCEPT ![w].pc = pc]
    BY <1>6 DEF WorkerStep, GetUrl, Fetch, DownloadFails, Leave, RemoveEntry,
                Finish, FinishENOENT, FinishRaise, Goto
  <2>3. job'[w].pc # "write" /\ \A v \in Workers : v # w => job'[v] = job[v]
    BY <1>0, <2>2 DEF NoJob, Job
  <2> QED BY <2>1, <2>3, WritersKept
<1> QED
  BY <1>1, <1>2, <1>3, <1>4, <1>5, <1>6 DEF Next, ReadStep

(* Who writes after each of these steps. *)
LEMMA WritersAfter ==
  ASSUME TypeInv
  PROVE  /\ Crash => \A k : Writers(k)' = {}
         /\ \A ks : Remove(ks) =>
              \A k : Writers(k)' = IF k \in ks THEN {} ELSE Writers(k)
         /\ \A w \in Workers : job[w].pc \in {"url", "get"} /\ Truncate(w) =>
              \A k : Writers(k)' = IF k = JobChunk(w) THEN Writers(k) \cup {w} ELSE Writers(k)
         /\ \A w \in Workers : Write(w) => \A k : Writers(k)' = Writers(k) \ {w}
<1>0. job \in [Workers -> Job]
  BY DEF TypeInv, TypeOK
<1>1. ASSUME Crash, NEW k PROVE Writers(k)' = {}
  BY <1>1 DEF Crash, Writers, NoJob
<1>2. ASSUME NEW ks, Remove(ks), NEW k
      PROVE  Writers(k)' = IF k \in ks THEN {} ELSE Writers(k)
  <2>1. ASSUME NEW v \in Workers
        PROVE  /\ job'[v].pc = job[v].pc /\ JobChunk(v)' = JobChunk(v)
               /\ job[v].pc = "write" =>
                    (job'[v].linked <=> job[v].linked /\ JobChunk(v) \notin ks)
    <3>1. job[v] \in Job
      BY <1>0
    <3>2. (\E j \in ks : v \in Writers(j))
            <=> job[v].pc = "write" /\ job[v].linked /\ JobChunk(v) \in ks
      BY DEF Writers
    <3>3. job'[v] = IF \E j \in ks : v \in Writers(j) THEN [job[v] EXCEPT !.linked = FALSE]
                    ELSE job[v]
      BY <1>2 DEF Remove
    <3>4. CASE \E j \in ks : v \in Writers(j)
      BY <3>1, <3>2, <3>3, <3>4 DEF Job, JobChunk
    <3>5. CASE ~\E j \in ks : v \in Writers(j)
      BY <3>1, <3>2, <3>3, <3>5 DEF Job, JobChunk
    <3> QED BY <3>4, <3>5
  <2> QED BY <2>1 DEF Writers
<1>3. ASSUME NEW w \in Workers, job[w].pc \in {"url", "get"}, Truncate(w), NEW k
      PROVE  Writers(k)' = IF k = JobChunk(w) THEN Writers(k) \cup {w} ELSE Writers(k)
  <2>1. job' = [job EXCEPT ![w].pc = "write", ![w].linked = TRUE]
    BY <1>3 DEF Truncate
  <2>2. job'[w].pc = "write" /\ job'[w].linked /\ JobChunk(w)' = JobChunk(w)
    BY <1>0, <2>1 DEF Job, JobChunk
  <2>3. \A v \in Workers : v # w => job'[v] = job[v] /\ JobChunk(v)' = JobChunk(v)
    BY <1>0, <2>1 DEF JobChunk
  <2> QED BY <1>3, <2>2, <2>3 DEF Writers
<1>4. ASSUME NEW w \in Workers, Write(w), NEW k
      PROVE  Writers(k)' = Writers(k) \ {w}
  <2>1. job' = [job EXCEPT ![w].pc = "leave"]
    BY <1>4 DEF Write, Goto
  <2>2. job'[w].pc = "leave"
    BY <1>0, <2>1 DEF Job
  <2>3. \A v \in Workers : v # w => job'[v] = job[v] /\ JobChunk(v)' = JobChunk(v)
    BY <1>0, <2>1 DEF JobChunk
  <2> QED BY <2>2, <2>3 DEF Writers
<1> QED BY <1>1, <1>2, <1>3, <1>4

(* A chunk file that is being written is there and not complete. *)
LEMMA NextWritersPartial == TypeInv /\ WritersPartial /\ [Next]_vars => WritersPartial'
<1> SUFFICES ASSUME TypeInv, WritersPartial, [Next]_vars, NEW k \in Chunks, Writers(k)' # {}
             PROVE  disk'[k].state = "partial"
  BY DEF WritersPartial
<1>0. disk \in [Chunks -> Content]
  BY DEF TypeInv, TypeOK
<1>1. CASE UNCHANGED disk /\ \A j : Writers(j)' = Writers(j)
  BY <1>1 DEF WritersPartial
<1>2. CASE Crash
  BY <1>2, WritersAfter
<1>3. ASSUME NEW ks, Remove(ks) PROVE disk'[k].state = "partial"
  <2>1. k \notin ks /\ Writers(k) # {}
    BY <1>3, WritersAfter
  <2>2. disk'[k] = disk[k]
    BY <1>3, <2>1 DEF Remove
  <2> QED BY <2>1, <2>2 DEF WritersPartial
<1>4. ASSUME NEW w \in Workers, job[w].pc \in {"url", "get"}, Truncate(w)
      PROVE  disk'[k].state = "partial"
  <2>1. CASE k = JobChunk(w)
    BY <1>0, <1>4, <2>1 DEF Truncate
  <2>2. CASE k # JobChunk(w)
    <3>1. Writers(k) # {} /\ disk'[k] = disk[k]
      BY <1>0, <1>4, <2>2, WritersAfter DEF Truncate
    <3> QED BY <3>1 DEF WritersPartial
  <2> QED BY <2>1, <2>2
<1>5. ASSUME NEW w \in Workers, Write(w) PROVE disk'[k].state = "partial"
  <2>1. Writers(k)' = Writers(k) \ {w}
    BY <1>5, WritersAfter
  <2>2. Writers(k) # {} /\ Writers(k) # {w}
    BY <2>1
  <2>3. disk'[k] = disk[k]
    BY <1>0, <1>5, <2>2 DEF Write
  <2> QED BY <2>2, <2>3 DEF WritersPartial
<1> QED BY <1>1, <1>2, <1>3, <1>4, <1>5, DiskStep

(* Without crashes a chunk file that is not complete is being written. *)
LEMMA NextTornHasWriter ==
  ~MayCrash /\ TypeInv /\ TornHasWriter /\ [Next]_vars => TornHasWriter'
<1> SUFFICES ASSUME ~MayCrash, TypeInv, TornHasWriter, [Next]_vars,
                    NEW k \in Chunks, disk'[k].state = "partial"
             PROVE  Writers(k)' # {}
  BY DEF TornHasWriter
<1>0. disk \in [Chunks -> Content] /\ job \in [Workers -> Job]
  BY DEF TypeInv, TypeOK
<1>1. CASE UNCHANGED disk /\ \A j : Writers(j)' = Writers(j)
  BY <1>1 DEF TornHasWriter
<1>2. CASE Crash
  BY <1>2 DEF Crash
<1>3. ASSUME NEW ks, Remove(ks) PROVE Writers(k)' # {}
  <2>1. k \notin ks
    BY <1>3 DEF Remove, Absent
  <2>2. disk'[k] = disk[k] /\ Writers(k)' = Writers(k)
    BY <1>3, <2>1, WritersAfter DEF Remove
  <2> QED BY <2>2 DEF TornHasWriter
<1>4. ASSUME NEW w \in Workers, job[w].pc \in {"url", "get"}, Truncate(w)
      PROVE  Writers(k)' # {}
  <2>1. CASE k = JobChunk(w)
    BY <1>4, <2>1, WritersAfter
  <2>2. CASE k # JobChunk(w)
    <3>1. Writers(k)' = Writers(k) /\ disk'[k] = disk[k]
      BY <1>0, <1>4, <2>2, WritersAfter DEF Truncate
    <3> QED BY <3>1 DEF TornHasWriter
  <2> QED BY <2>1, <2>2
<1>5. ASSUME NEW w \in Workers, Write(w) PROVE Writers(k)' # {}
  <2>1. Writers(k)' = Writers(k) \ {w}
    BY <1>5, WritersAfter
  <2>2. job[w].pc = "write" /\ (w \in Writers(k) <=> job[w].linked /\ JobChunk(w) = k)
    BY <1>5 DEF Write, Writers
  <2>3. CASE job[w].linked /\ Writers(JobChunk(w)) = {w}
    <3>1. JobChunk(w) \in Chunks
      BY <2>2, DownloadInProgress
    <3>2. disk' = [disk EXCEPT ![JobChunk(w)].state = "whole"]
      BY <1>5, <2>3 DEF Write
    <3>3. k # JobChunk(w)
      BY <1>0, <3>1, <3>2 DEF Content
    <3>4. disk'[k] = disk[k]
      BY <1>0, <3>2, <3>3
    <3> QED BY <2>1, <2>2, <3>3, <3>4 DEF TornHasWriter
  <2>4. CASE ~(job[w].linked /\ Writers(JobChunk(w)) = {w})
    <3>1. disk'[k] = disk[k] /\ Writers(k) # {}
      BY <1>5, <2>4 DEF Write, TornHasWriter
    <3> QED BY <2>1, <2>2, <2>4, <3>1
  <2> QED BY <2>3, <2>4
<1> QED BY <1>1, <1>2, <1>3, <1>4, <1>5, DiskStep

(* Unless the process is killed, every chunk file that a download has *)
(* truncated has a worker that will write it.                          *)
THEOREM TornChunksAreWritten == ASSUME ~MayCrash PROVE Spec => []TornHasWriter
<1>1. Init => TypeInv /\ TornHasWriter
  <2>1. Init => TornHasWriter
    BY DEF Init, TornHasWriter, Absent
  <2> QED BY <2>1, InitTypeInv
<1>2. (TypeInv /\ TornHasWriter) /\ [Next]_vars => (TypeInv /\ TornHasWriter)'
  BY NextTypeInv, NextTornHasWriter
<1> QED BY <1>1, <1>2, PTL DEF Spec

(* With unique names a chunk file never holds bytes of another file. *)
LEMMA NextDiskNamed ==
  UniqueNames /\ TypeInv /\ WritersPartial /\ DiskNamed /\ [Next]_vars => DiskNamed'
<1> SUFFICES ASSUME UniqueNames, TypeInv, WritersPartial, DiskNamed, [Next]_vars
             PROVE  DiskNamed'
  OBVIOUS
<1>0. disk \in [Chunks -> Content]
  BY DEF TypeInv, TypeOK
<1>1. CASE UNCHANGED disk \/ Crash
  BY <1>1 DEF DiskNamed, Present, Crash
<1>2. ASSUME NEW ks, Remove(ks) PROVE DiskNamed'
  <2>1. \A k \in Chunks : disk'[k] = Absent \/ disk'[k] = disk[k]
    BY <1>2 DEF Remove
  <2> QED BY <2>1 DEF DiskNamed, Present, Absent
<1>3. ASSUME NEW w \in Workers, job[w].pc \in {"url", "get"}, Truncate(w) PROVE DiskNamed'
  <2> DEFINE k == JobChunk(w)
             f == job[w].file
  <2>1. f \in Files /\ k \in Chunks /\ k[1] = NameOf[f]
    BY <1>3, DownloadInProgress DEF JobChunk, Chunk
  <2>2. ASSUME NEW v \in Writers(k) PROVE job[v].file = f
    <3>1. v \in Workers /\ job[v].pc # "idle" /\ JobChunk(v) = k
      BY DEF Writers
    <3>2. job[v].file \in Files /\ NameOf[job[v].file] = k[1]
      BY <3>1, DownloadInProgress DEF JobChunk, Chunk
    <3> QED BY <2>1, <3>2 DEF UniqueNames
  <2>3. disk' = [disk EXCEPT ![k] = [state |-> "partial", file |-> f]]
    BY <1>3, <2>2 DEF Truncate
  <2> HIDE DEF k, f
  <2> QED BY <1>0, <2>1, <2>3 DEF DiskNamed, Present
<1>4. ASSUME NEW w \in Workers, Write(w) PROVE DiskNamed'
  <2>1. JobChunk(w) \in Chunks
    BY <1>4, DownloadInProgress DEF Write
  <2>2. CASE UNCHANGED disk
    BY <2>2 DEF DiskNamed, Present
  <2>3. CASE /\ disk' = [disk EXCEPT ![JobChunk(w)].state = "whole"]
             /\ w \in Writers(JobChunk(w))
    <3>1. PICK k \in Chunks : k = JobChunk(w)
      BY <2>1
    <3>2. Present(k)
      BY <2>3, <3>1 DEF WritersPartial, Present
    <3> QED BY <1>0, <2>3, <3>1, <3>2 DEF DiskNamed, Present, Content
  <2> QED BY <1>4, <2>2, <2>3 DEF Write
<1> QED BY <1>1, <1>2, <1>3, <1>4, DiskStep

-----------------------------------------------------------------------------
(* What os.read returns of a whole chunk: all there is, up to what is asked. *)
LEMMA ReadFromWhole ==
  ASSUME NEW k, disk[k].state = "whole", NEW at, NEW want,
         NEW piece \in ReadFrom(k, at, want)
  PROVE  LET length == ChunkLength(disk[k].file, k[2]) IN
           piece = [file |-> disk[k].file, from |-> k[2] * CacheSize + at,
                    n |-> IF length <= at THEN 0 ELSE Least(want, length - at)]
  BY DEF ReadFrom

(* The file of a present chunk of a file is that file. *)
LEMMA ChunkOfFile ==
  ASSUME UniqueNames, DiskNamed, NEW f \in Files, NEW p \in Parts, Present(Chunk(f, p))
  PROVE  disk[Chunk(f, p)].file = f /\ Chunk(f, p)[2] = p
<1>1. Chunk(f, p) \in Chunks /\ Chunk(f, p)[1] = NameOf[f] /\ Chunk(f, p)[2] = p
  BY FilesAssumption DEF Chunk, Chunks
<1> QED BY <1>1 DEF DiskNamed, UniqueNames

(* The first read of an untorn chunk: what a read of one chunk answers is  *)
(* the answer, what a read of two chunks keeps reaches the chunk's end.    *)
LEMMA FirstReadExact ==
  ASSUME UniqueNames, ShortReads, TypeInv, DiskNamed, rd.pc = "open",
         disk[FirstChunk(rd)].state = "whole",
         NEW piece \in ReadFrom(FirstChunk(rd), FirstAt(rd), FirstWant(rd))
  PROVE  /\ piece.file = rd.file
         /\ piece.from = rd.off
         /\ piece.n = IF Crossing(rd) THEN FirstEnd(rd) - rd.off ELSE End(rd) - rd.off
<1> DEFINE C == CacheSize
           o == rd.off
           l == rd.len
           b == Part(rd) * CacheSize
           z == SizeOf[rd.file]
           length == ChunkLength(rd.file, Part(rd))
<1>1. /\ rd.file \in Files /\ o \in Nat /\ l \in Nat /\ Part(rd) \in Parts
      /\ l \in Lengths /\ o < z
  BY ReadInProgress DEF TypeInv, ReadShape
<1>2. /\ FirstAt(rd) = o - b /\ o - b \in Nat /\ o - b < C
      /\ Crossing(rd) <=> b + C <= o + l
      /\ Part(rd) \in Nat
  BY <1>1, FirstAtIs
<1>3. C \in Nat /\ 2 * l <= C /\ z \in Nat /\ b \in Nat /\ (Part(rd) + 1) * C = b + C
  BY <1>1, <1>2, SizesAssumption, FilesAssumption, ChunkOrder DEF ShortReads
<1>4. disk[FirstChunk(rd)].file = rd.file /\ FirstChunk(rd)[2] = Part(rd)
  BY <1>1, ChunkOfFile DEF FirstChunk, Present
<1>5. /\ piece.file = rd.file
      /\ piece.from = b + FirstAt(rd)
      /\ piece.n = IF length <= FirstAt(rd) THEN 0 ELSE Least(FirstWant(rd), length - FirstAt(rd))
  BY <1>4, ReadFromWhole
<1>6. length = IF z <= b THEN 0 ELSE IF C <= z - b THEN C ELSE z - b
  BY <1>1 DEF ChunkLength, Least
<1>7. FirstWant(rd) = IF b + C <= o + l THEN C - l ELSE l
  BY <1>2 DEF FirstWant
<1>8. FirstEnd(rd) - o = IF b + C <= o + l THEN (IF b + C <= z THEN b + C ELSE z) - o
                         ELSE FirstEnd(rd) - o
  BY <1>1, <1>3 DEF FirstEnd, End, Least
<1>9. End(rd) - o = (IF o + l <= z THEN o + l ELSE z) - o
  BY DEF End, Least
<1> HIDE DEF C, o, l, b, z, length
<1>10. piece.from = o
  BY <1>1, <1>2, <1>3, <1>5
<1>11. CASE b + C <= o + l
  <2>1. piece.n = (IF b + C <= z THEN b + C ELSE z) - o
    BY <1>1, <1>2, <1>3, <1>5, <1>6, <1>7, <1>11 DEF Least
  <2> QED BY <2>1, <1>2, <1>5, <1>8, <1>10, <1>11 DEF o
<1>12. CASE ~(b + C <= o + l)
  <2>1. piece.n = (IF o + l <= z THEN o + l ELSE z) - o
    BY <1>1, <1>2, <1>3, <1>5, <1>6, <1>7, <1>12 DEF Least
  <2> QED BY <2>1, <1>2, <1>5, <1>9, <1>10, <1>12 DEF o
<1> QED BY <1>11, <1>12

(* The second read of an untorn chunk completes the answer. *)
LEMMA SecondReadExact ==
  ASSUME UniqueNames, ShortReads, TypeInv, DiskNamed, FirstPieceExact,
         rd.pc = "wait", ~rd.torn, disk[NextChunk(rd)].state = "whole",
         NEW piece \in ReadFrom(NextChunk(rd), 0, SecondWant(rd))
  PROVE  /\ piece.n > 0 => piece.file = rd.file /\ piece.from = rd.off + rd.first.n
         /\ rd.first.n + piece.n = End(rd) - rd.off
<1> DEFINE C == CacheSize
           o == rd.off
           l == rd.len
           b == Part(rd) * CacheSize
           z == SizeOf[rd.file]
           n == rd.first.n
           length == ChunkLength(rd.file, Part(rd) + 1)
<1>1. /\ rd.file \in Files /\ o \in Nat /\ l \in Nat /\ Part(rd) + 1 \in Parts
      /\ l \in Lengths /\ o < z
  BY ReadInProgress DEF TypeInv, ReadShape
<1>2. /\ o - b \in Nat /\ o - b < C
      /\ Crossing(rd) <=> b + C <= o + l
      /\ Part(rd) \in Nat
  BY <1>1, FirstAtIs
<1>3. C \in Nat /\ C > 0 /\ 2 * l <= C /\ z \in Nat /\ b \in Nat /\ (Part(rd) + 1) * C = b + C
  BY <1>1, <1>2, SizesAssumption, FilesAssumption, ChunkOrder DEF ShortReads
<1>4. disk[NextChunk(rd)].file = rd.file /\ NextChunk(rd)[2] = Part(rd) + 1
  BY <1>1, ChunkOfFile DEF NextChunk, Present
<1>5. /\ piece.file = rd.file
      /\ piece.from = (Part(rd) + 1) * C + 0
      /\ piece.n = IF length <= 0 THEN 0 ELSE Least(l - n, length - 0)
  BY <1>4, ReadFromWhole DEF SecondWant
<1>6. length = IF z <= b + C THEN 0 ELSE IF C <= z - (b + C) THEN C ELSE z - (b + C)
  BY <1>1, <1>3 DEF ChunkLength, Least
<1>7. b + C <= o + l /\ n = FirstEnd(rd) - o
  BY <1>2 DEF FirstPieceExact
<1>8. n = (IF b + C <= z THEN b + C ELSE z) - o
  BY <1>1, <1>2, <1>3, <1>7 DEF FirstEnd, End, Least
<1>9. End(rd) - o = (IF o + l <= z THEN o + l ELSE z) - o
  BY DEF End, Least
<1> HIDE DEF C, o, l, b, z, n, length
<1>10. CASE z <= b + C
  <2>1. piece.n = 0
    BY <1>5, <1>6, <1>10
  <2>2. n = z - o
    BY <1>1, <1>3, <1>8, <1>10
  <2>3. n + 0 = (IF o + l <= z THEN o + l ELSE z) - o
    BY <2>2, <1>1, <1>3, <1>7, <1>10
  <2> QED BY <2>1, <2>3, <1>9 DEF n, o
<1>11. CASE ~(z <= b + C)
  <2>1. n = b + C - o /\ piece.from = o + n
    BY <1>1, <1>2, <1>3, <1>5, <1>8, <1>11
  <2>2. n + piece.n = (IF o + l <= z THEN o + l ELSE z) - o
    BY <1>1, <1>2, <1>3, <1>5, <1>6, <1>7, <2>1, <1>11 DEF Least
  <2> QED BY <2>1, <2>2, <1>5, <1>9 DEF n, o
<1> QED BY <1>10, <1>11

(* One step keeps the two statements about the data of the read. *)
LEMMA NextReadExact ==
  ASSUME UniqueNames, ShortReads, TypeInv, DiskNamed, FirstPieceExact, UntornReadExact,
         [Next]_vars
  PROVE  FirstPieceExact' /\ UntornReadExact'
<1>0. rd \in Request /\ disk \in [Chunks -> Content]
  BY DEF TypeInv, TypeOK
<1>1. CASE UNCHANGED rd
  BY <1>1 DEF FirstPieceExact, UntornReadExact, DataExact, Crossing, Result, FirstEnd, End, Part
<1>2. CASE Read \/ Reply \/ Crash
  <2>1. \/ rd' = NoRead
        \/ \E f, off, len : rd' = [NoRead EXCEPT !.pc = "first", !.file = f, !.off = off, !.len = len]
    BY <1>2 DEF Read, Reply, Crash
  <2>2. rd'.pc \in {"first", "idle"} /\ rd'.status = "none"
    <3>1. CASE rd' = NoRead
      BY <3>1 DEF NoRead
    <3>2. ASSUME NEW f, NEW off, NEW len,
                 rd' = [NoRead EXCEPT !.pc = "first", !.file = f, !.off = off, !.len = len]
          PROVE  rd'.pc = "first" /\ rd'.status = "none"
      BY <3>2 DEF NoRead
    <3> QED BY <2>1, <3>1, <3>2
  <2> QED BY <2>2 DEF FirstPieceExact, UntornReadExact
<1>3. CASE LookForFirst \/ PrefetchNext \/ NoPrefetch \/ SplitPrefetch \/ NoSplit
  <2>1. \E pc \in {"sync", "ahead", "split", "open"} : rd' = [rd EXCEPT !.pc = pc]
    BY <1>3 DEF LookForFirst, PrefetchNext, NoPrefetch, SplitPrefetch, NoSplit
  <2>2. rd.pc # "reply"
    BY <1>3 DEF LookForFirst, PrefetchNext, NoPrefetch, SplitPrefetch, NoSplit
  <2>3. rd'.pc \in {"sync", "ahead", "split", "open"} /\ rd'.status = "none"
    BY <1>0, <2>1, <2>2 DEF Request, TypeInv, ReadShape
  <2> QED BY <2>3 DEF FirstPieceExact, UntornReadExact
<1>4. CASE OpenFirst
  <2>1. CASE ~Present(FirstChunk(rd))
    <3>1. rd'.pc = "reply" /\ rd'.status = "ENOENT"
      BY <1>0, <1>4, <2>1 DEF OpenFirst, Request
    <3> QED BY <3>1 DEF FirstPieceExact, UntornReadExact
  <2>2. CASE Present(FirstChunk(rd))
    <3>1. PICK piece \in ReadFrom(FirstChunk(rd), FirstAt(rd), FirstWant(rd)) :
            rd' = [rd EXCEPT
                     !.pc = IF Crossing(rd) THEN "clear" ELSE "reply",
                     !.status = IF Crossing(rd) THEN "none" ELSE "ok",
                     !.first = piece,
                     !.torn = disk[FirstChunk(rd)].state = "partial"]
      BY <1>4, <2>2 DEF OpenFirst
    <3>2. /\ rd'.pc = IF Crossing(rd) THEN "clear" ELSE "reply"
          /\ rd'.status = IF Crossing(rd) THEN "none" ELSE "ok"
          /\ rd'.first = piece /\ rd'.second = NoPiece
          /\ rd'.torn = (disk[FirstChunk(rd)].state = "partial")
          /\ rd'.file = rd.file /\ rd'.off = rd.off /\ rd'.len = rd.len
      BY <1>0, <1>4, <3>1 DEF Request, OpenFirst, TypeInv, ReadShape
    <3>3. ASSUME ~rd'.torn PROVE disk[FirstChunk(rd)].state = "whole"
      <4>1. disk[FirstChunk(rd)] \in Content
        BY <1>0, <1>4, ReadInProgress DEF OpenFirst
      <4> QED BY <2>2, <3>2, <3>3, <4>1 DEF Present, Content
    <3>4. ASSUME ~rd'.torn
          PROVE  /\ piece.file = rd.file /\ piece.from = rd.off
                 /\ piece.n = IF Crossing(rd) THEN FirstEnd(rd) - rd.off ELSE End(rd) - rd.off
      BY <1>4, <3>1, <3>3, <3>4, FirstReadExact DEF OpenFirst
    <3>5. /\ Crossing(rd)' <=> Crossing(rd)
          /\ FirstEnd(rd)' = FirstEnd(rd) /\ End(rd)' = End(rd)
      BY <3>2 DEF Crossing, Result, FirstEnd, End, Part
    <3>6. FirstPieceExact'
      BY <3>2, <3>4, <3>5 DEF FirstPieceExact
    <3>7. UntornReadExact'
      <4>1. SUFFICES ASSUME ~Crossing(rd), ~rd'.torn PROVE DataExact(rd)'
        BY <3>2 DEF UntornReadExact
      <4>2. piece.n = End(rd) - rd.off /\ piece.n + 0 = piece.n
        <5>1. piece.n = End(rd) - rd.off
          BY <3>4, <4>1
        <5>2. piece.n \in Nat
          BY <1>4, <3>1, FirstPieceType DEF Piece, OpenFirst
        <5> QED BY <5>1, <5>2
      <4> QED BY <3>2, <3>4, <3>5, <4>1, <4>2 DEF DataExact, NoPiece
    <3> QED BY <3>6, <3>7
  <2> QED BY <2>1, <2>2
<1>5. CASE ClearBehind \/ WaitNext
  <2>1. /\ rd.pc \in {"clear", "wait"} /\ rd'.pc = "wait" /\ rd'.status = rd.status
        /\ rd'.torn = rd.torn /\ rd'.first = rd.first
        /\ rd'.file = rd.file /\ rd'.off = rd.off /\ rd'.len = rd.len
    BY <1>0, <1>5 DEF ClearBehind, WaitNext, Request
  <2>2. FirstPieceExact'
    BY <2>1 DEF FirstPieceExact, Crossing, Result, FirstEnd, End, Part
  <2>3. rd'.status = "none"
    BY <2>1 DEF TypeInv, ReadShape
  <2> QED BY <2>2, <2>3 DEF UntornReadExact
<1>6. CASE OpenSecond
  <2>1. CASE ~Present(NextChunk(rd))
    <3>1. rd'.pc = "reply" /\ rd'.status = "ENOENT"
      BY <1>0, <1>6, <2>1 DEF OpenSecond, Request
    <3> QED BY <3>1 DEF FirstPieceExact, UntornReadExact
  <2>2. CASE Present(NextChunk(rd))
    <3>1. PICK piece \in ReadFrom(NextChunk(rd), 0, SecondWant(rd)) :
            rd' = [rd EXCEPT
                     !.pc = "reply", !.status = "ok", !.second = piece,
                     !.torn = @ \/ disk[NextChunk(rd)].state = "partial"]
      BY <1>6, <2>2 DEF OpenSecond
    <3>2. /\ rd'.pc = "reply" /\ rd'.first = rd.first /\ rd'.second = piece
          /\ rd'.torn = (rd.torn \/ disk[NextChunk(rd)].state = "partial")
          /\ rd'.file = rd.file /\ rd'.off = rd.off /\ rd'.len = rd.len
      BY <1>0, <3>1 DEF Request
    <3>3. FirstPieceExact'
      BY <3>2 DEF FirstPieceExact
    <3>4. ASSUME ~rd'.torn PROVE DataExact(rd)'
      <4>1. ~rd.torn /\ disk[NextChunk(rd)].state = "whole"
        <5>1. disk[NextChunk(rd)] \in Content
          BY <1>0, <1>6, ReadInProgress DEF OpenSecond
        <5> QED BY <2>2, <3>2, <3>4, <5>1 DEF Present, Content
      <4>2. /\ piece.n > 0 => piece.file = rd.file /\ piece.from = rd.off + rd.first.n
            /\ rd.first.n + piece.n = End(rd) - rd.off
        BY <1>6, <3>1, <4>1, SecondReadExact DEF OpenSecond
      <4>3. rd.first.file = rd.file /\ rd.first.from = rd.off
        BY <1>6, <4>1 DEF FirstPieceExact, OpenSecond
      <4> QED BY <3>2, <4>2, <4>3 DEF DataExact, End
    <3> QED BY <3>3, <3>4 DEF UntornReadExact
  <2> QED BY <2>1, <2>2
<1>7. ASSUME NEW w \in Workers, WorkerStep(w), ~UNCHANGED rd
      PROVE  FirstPieceExact' /\ UntornReadExact'
  <2>1. job[w].pc # "idle" /\ (Finish(w) \/ FinishENOENT(w) \/ FinishRaise(w)) /\ w = Fuse
    BY <1>7 DEF WorkerStep, GetUrl, Fetch, DownloadFails, Write, Leave, RemoveEntry,
                Finish, FinishENOENT, FinishRaise
  <2>2. rd.pc = "sync" /\ rd.status = "none"
    BY <2>1 DEF TypeInv, ReadShape
  <2>3. rd'.pc \in {"ahead", "reply", "dead"} /\ rd'.status \in {"none", "ENOENT"}
    BY <1>0, <2>1, <2>2 DEF Finish, FinishENOENT, FinishRaise, Request
  <2> QED BY <2>3 DEF FirstPieceExact, UntornReadExact
<1> QED
  BY <1>1, <1>2, <1>3, <1>4, <1>5, <1>6, <1>7 DEF Next, ReadStep, Release, vars

(* Files of different names and reads of at most half a chunk: a read that *)
(* meets no chunk in the middle of being written returns exactly the bytes *)
(* it was asked for, however downloads, prefetches, clean-ups, failures    *)
(* and crashes interleave.                                                 *)
THEOREM ReadsAreExact ==
  ASSUME UniqueNames, ShortReads PROVE Spec => []UntornReadExact
<1> DEFINE Inv == /\ TypeInv /\ WritersPartial /\ DiskNamed
                  /\ FirstPieceExact /\ UntornReadExact
<1>1. Init => Inv
  <2> SUFFICES ASSUME Init PROVE Inv
    OBVIOUS
  <2>1. WritersPartial /\ DiskNamed
    BY DEF Init, WritersPartial, Writers, DiskNamed, Present, NoJob, Absent
  <2>2. FirstPieceExact /\ UntornReadExact
    BY DEF Init, FirstPieceExact, UntornReadExact, NoRead
  <2> QED BY <2>1, <2>2, InitTypeInv
<1>2. Inv /\ [Next]_vars => Inv'
  <2> SUFFICES ASSUME Inv, [Next]_vars PROVE Inv'
    OBVIOUS
  <2>1. TypeInv' /\ WritersPartial' /\ DiskNamed'
    BY NextTypeInv, NextWritersPartial, NextDiskNamed
  <2>2. FirstPieceExact' /\ UntornReadExact'
    BY NextReadExact
  <2> QED BY <2>1, <2>2
<1>3. Inv => UntornReadExact
  OBVIOUS
<1> QED BY <1>1, <1>2, <1>3, PTL DEF Spec

-----------------------------------------------------------------------------
(* A step of one worker leaves the downloads of the others alone. *)
LEMMA OthersWork ==
  ASSUME TypeInv, NEW w \in Workers, NEW j, job' = [job EXCEPT ![w] = j],
         CachingHasWorker, NEW k \in caching \ SplitMarks, k # JobChunk(w) \/ job[w].pc = "idle"
  PROVE  \E v \in Workers : job'[v].pc # "idle" /\ JobChunk(v)' = k
<1>1. PICK v \in Workers : job[v].pc # "idle" /\ JobChunk(v) = k
  BY DEF CachingHasWorker
<1>2. v # w /\ job'[v] = job[v]
  BY <1>1 DEF TypeInv, TypeOK
<1> QED BY <1>1, <1>2 DEF JobChunk

(* A step after which every working worker still works on its chunk. *)
LEMMA SameWork ==
  ASSUME CachingHasWorker, caching' \subseteq caching,
         \A v \in Workers : job[v].pc # "idle" =>
           job'[v].pc # "idle" /\ job'[v].file = job[v].file /\ job'[v].part = job[v].part
  PROVE  CachingHasWorker'
  BY DEF CachingHasWorker, JobChunk, SplitMarks

(* Unless a download raises, one step keeps an entry's worker. *)
LEMMA NextCachingHasWorker ==
  ASSUME Faults \subseteq {"nodata"}, TypeInv, CachingHasWorker, [Next]_vars
  PROVE  CachingHasWorker'
<1>0. job \in [Workers -> Job] /\ Fuse \in Workers
  BY DEF TypeInv, TypeOK, Workers
<1>m. SplitMarks' = SplitMarks
  BY DEF SplitMarks
<1>1. CASE UNCHANGED vars \/ Read \/ NoPrefetch \/ NoSplit \/ OpenFirst \/ WaitNext \/ OpenSecond \/ Reply
  <2>1. UNCHANGED <<caching, job>>
    BY <1>1 DEF vars, Read, NoPrefetch, NoSplit, OpenFirst, WaitNext, OpenSecond, Reply
  <2> QED BY <2>1, SameWork
<1>2. CASE LookForFirst
  <2>1. job[Fuse].pc = "idle" /\ UNCHANGED caching
    BY <1>2 DEF LookForFirst, TypeInv, ReadShape
  <2>2. job' = job \/ job' = [job EXCEPT ![Fuse] = Download(rd.file, Part(rd))]
    BY <1>2 DEF LookForFirst
  <2>3. \A v \in Workers : job[v].pc # "idle" => job'[v] = job[v]
    BY <1>0, <2>1, <2>2
  <2> QED BY <2>1, <2>3, SameWork
<1>3. CASE PrefetchNext
  <2>1. PICK t \in Idle : job' = [job EXCEPT ![t] = Download(rd.file, Part(rd) + 1)]
    BY <1>3 DEF PrefetchNext
  <2>2. t \in Workers /\ job[t].pc = "idle"
    BY DEF Idle, Workers
  <2>3. job'[t].pc # "idle" /\ JobChunk(t)' = NextChunk(rd)
    <3>1. job'[t] = Download(rd.file, Part(rd) + 1)
      BY <1>0, <2>1, <2>2
    <3> QED BY <3>1 DEF Download, JobChunk, NextChunk
  <2>4. ASSUME NEW k \in caching \ SplitMarks
        PROVE  \E v \in Workers : job'[v].pc # "idle" /\ JobChunk(v)' = k
    BY <2>1, <2>2, OthersWork
  <2>5. caching' = caching \cup {NextChunk(rd)}
    BY <1>3 DEF PrefetchNext
  <2> QED BY <1>m, <2>2, <2>3, <2>4, <2>5 DEF CachingHasWorker
<1>4. CASE SplitPrefetch
  <2>1. caching' = caching \cup {Chunk(rd.file, 0)} /\ Chunk(rd.file, 0) \in SplitMarks
    BY <1>4 DEF SplitPrefetch, SplitWanted, SplitMarks, TypeInv, ReadShape
  <2>2. ASSUME NEW v \in Workers, job[v].pc # "idle" PROVE job'[v] = job[v]
    BY <1>0, <1>4, <2>2 DEF SplitPrefetch, Idle
  <2>3. ASSUME NEW k \in caching \ SplitMarks
        PROVE  \E v \in Workers : job'[v].pc # "idle" /\ JobChunk(v)' = k
    BY <2>2, <2>3 DEF CachingHasWorker, JobChunk
  <2> QED BY <1>m, <2>1, <2>3 DEF CachingHasWorker
<1>5. CASE ClearBehind \/ \E f \in Files : Release(f)
  <2>1. PICK ks : Remove(ks)
    BY <1>5 DEF ClearBehind, Release
  <2>2. ASSUME NEW v \in Workers
        PROVE  job'[v].pc = job[v].pc /\ job'[v].file = job[v].file /\ job'[v].part = job[v].part
    <3>1. job[v] \in Job
      BY <1>0
    <3>2. job'[v] = job[v] \/ job'[v] = [job[v] EXCEPT !.linked = FALSE]
      BY <2>1 DEF Remove
    <3> QED BY <3>1, <3>2 DEF Job
  <2>3. UNCHANGED caching
    BY <1>5 DEF ClearBehind, Release
  <2> QED BY <2>2, <2>3, SameWork
<1>6. ASSUME NEW w \in Workers, WorkerStep(w) PROVE CachingHasWorker'
  <2>1. CASE job' = [job EXCEPT ![w] = NoJob]
    <3>1. JobChunk(w) \notin caching' /\ caching' \subseteq caching
      BY <1>0, <1>6, <2>1 DEF WorkerStep, GetUrl, Fetch, DownloadFails, Write, Leave, RemoveEntry,
                       Goto, Truncate, NoJob, Job
    <3>2. ASSUME NEW k \in caching' \ SplitMarks
          PROVE  \E v \in Workers : job'[v].pc # "idle" /\ JobChunk(v)' = k
      <4>1. k \in caching \ SplitMarks /\ k # JobChunk(w)
        BY <3>1, <3>2
      <4> QED BY <2>1, <4>1, OthersWork
    <3> QED BY <1>m, <3>2 DEF CachingHasWorker
  <2>2. CASE job' # [job EXCEPT ![w] = NoJob]
    <3>1. UNCHANGED caching
      BY <1>6, <2>2 DEF WorkerStep, GetUrl, Fetch, DownloadFails, Write, Leave, RemoveEntry,
                        Finish, FinishENOENT, FinishRaise
    <3>2. \/ job' = [job EXCEPT ![w].pc = "write", ![w].linked = TRUE]
          \/ \E pc \in {"get", "leave", "remove"} : job' = [job EXCEPT ![w].pc = pc]
      BY <1>6, <2>2 DEF WorkerStep, GetUrl, Fetch, DownloadFails, Write, Leave, RemoveEntry,
                        Finish, FinishENOENT, FinishRaise, Goto, Truncate
    <3>3. ASSUME NEW v \in Workers, job[v].pc # "idle"
          PROVE  job'[v].pc # "idle" /\ job'[v].file = job[v].file /\ job'[v].part = job[v].part
      BY <1>0, <3>2, <3>3 DEF Job
    <3> QED BY <3>1, <3>3, SameWork
  <2> QED BY <2>1, <2>2
<1>7. CASE Crash
  BY <1>7 DEF Crash, CachingHasWorker
<1> QED
  BY <1>1, <1>2, <1>3, <1>4, <1>5, <1>6, <1>7 DEF Next, ReadStep

(* If downloads raise no exception, every entry of caching_file_list but   *)
(* those of check_and_split_file has a download that will take it off:     *)
(* second downloads of a chunk, clean-ups and crashes do not strand one.   *)
THEOREM NoStrandedEntry ==
  ASSUME Faults \subseteq {"nodata"} PROVE Spec => []CachingHasWorker
<1>1. Init => TypeInv /\ CachingHasWorker
  <2>1. Init => CachingHasWorker
    BY DEF Init, CachingHasWorker
  <2> QED BY <2>1, InitTypeInv
<1>2. (TypeInv /\ CachingHasWorker) /\ [Next]_vars => (TypeInv /\ CachingHasWorker)'
  BY NextTypeInv, NextCachingHasWorker
<1> QED BY <1>1, <1>2, PTL DEF Spec

-----------------------------------------------------------------------------
(* Why a read inside one chunk finds its chunk: once it is there, or the    *)
(* FUSE thread's own download has made it, only the FUSE thread could       *)
(* remove it, and before it opens the chunk it does not.                    *)
ServedInv ==
  /\ job[Fuse].pc # "idle" => job[Fuse].file = rd.file /\ job[Fuse].part = Part(rd)
  /\ Faults = {} /\ job[Fuse].pc \in {"write", "leave", "remove"} => Present(FirstChunk(rd))
  /\ Faults = {} /\ rd.pc \in {"ahead", "split", "open"} => Present(FirstChunk(rd))
  /\ rd.pc \in {"clear", "wait"} => Crossing(rd)
  /\ NearReadServed

(* No download removes a chunk file. *)
LEMMA DownloadsKeepChunks ==
  ASSUME TypeInv, NEW w \in Workers, WorkerStep(w), NEW k \in Chunks, Present(k)
  PROVE  Present(k)'
<1>0. disk \in [Chunks -> Content]
  BY DEF TypeInv, TypeOK
<1>1. \/ disk' = disk
      \/ \E f : disk' = [disk EXCEPT ![JobChunk(w)] = [state |-> "partial", file |-> f]]
      \/ disk' = [disk EXCEPT ![JobChunk(w)].state = "whole"]
  BY DEF WorkerStep, GetUrl, Fetch, DownloadFails, Write, Leave, RemoveEntry, Truncate
<1> QED BY <1>0, <1>1 DEF Present, Content

(* A download of the FUSE thread itself: while it goes on the read waits   *)
(* for it, and when it ends without a fault the chunk is there.            *)
LEMMA OwnDownload ==
  ASSUME TypeInv, ServedInv, WorkerStep(Fuse) PROVE ServedInv'
<1>0. Fuse \in Workers /\ job \in [Workers -> Job] /\ rd \in Request
      /\ disk \in [Chunks -> Content] /\ NoJob.pc = "idle"
  BY DEF TypeInv, TypeOK, Workers, NoJob
<1>1. job[Fuse].pc # "idle" /\ rd.pc = "sync"
  <2>1. job[Fuse].pc # "idle"
    BY DEF WorkerStep, GetUrl, Fetch, DownloadFails, Write, Leave, RemoveEntry
  <2> QED BY <2>1 DEF TypeInv, ReadShape
<1>2. job[Fuse].file = rd.file /\ job[Fuse].part = Part(rd) /\ JobChunk(Fuse) = FirstChunk(rd)
  BY <1>1 DEF ServedInv, JobChunk, FirstChunk
<1>3. FirstChunk(rd) \in Chunks
  BY <1>1, ReadInProgress
<1>4. Present(FirstChunk(rd)) => Present(FirstChunk(rd))'
  <2>1. ASSUME NEW k \in Chunks, Present(k) PROVE Present(k)'
    BY <1>0, <2>1, DownloadsKeepChunks
  <2>2. CASE rd'.file = rd.file /\ rd'.off = rd.off
    BY <1>3, <2>1, <2>2 DEF FirstChunk, Part
  <2>3. rd'.file = rd.file /\ rd'.off = rd.off
    BY <1>0 DEF WorkerStep, GetUrl, Fetch, DownloadFails, Write, Leave, RemoveEntry,
                Finish, FinishENOENT, FinishRaise, Request
  <2> QED BY <2>2, <2>3
<1>5. Part(rd) * CacheSize < SizeOf[rd.file]
  <2>1. rd.off \in Nat /\ rd.off < SizeOf[rd.file] /\ rd.file \in Files
    BY <1>1, ReadInProgress DEF TypeInv, ReadShape
  <2>2. Part(rd) * CacheSize <= rd.off
    BY <2>1, DivChunk DEF Part
  <2>3. Part(rd) \in Nat /\ Part(rd) * CacheSize \in Nat /\ SizeOf[rd.file] \in Nat
    BY <2>1, DivChunk, ChunkOrder, FilesAssumption DEF Part
  <2> QED BY <2>1, <2>2, <2>3
<1>6. ASSUME rd' = rd, NEW pc \in {"get", "write", "leave", "remove"},
             job'[Fuse].pc = pc, job'[Fuse].file = job[Fuse].file, job'[Fuse].part = job[Fuse].part,
             Faults = {} /\ pc # "get" => Present(FirstChunk(rd))'
      PROVE  ServedInv'
  BY <1>1, <1>2, <1>6 DEF ServedInv, NearReadServed, Part, Crossing, Result, TypeInv, ReadShape
<1>7. ASSUME job' = [job EXCEPT ![Fuse] = NoJob],
             \/ rd' = [rd EXCEPT !.pc = "ahead"] /\ (Faults = {} => Present(FirstChunk(rd))')
             \/ rd' = [rd EXCEPT !.pc = "reply", !.status = "ENOENT"] /\ Faults # {}
             \/ rd' = [rd EXCEPT !.pc = "dead"]
      PROVE  ServedInv'
  BY <1>0, <1>1, <1>7 DEF ServedInv, NearReadServed, TypeInv, ReadShape, Request
<1>8. ASSUME Truncate(Fuse), UNCHANGED rd PROVE ServedInv'
  <2>1. job' = [job EXCEPT ![Fuse].pc = "write", ![Fuse].linked = TRUE]
    BY <1>8 DEF Truncate
  <2>2. job'[Fuse].pc = "write" /\ job'[Fuse].file = job[Fuse].file /\ job'[Fuse].part = job[Fuse].part
    BY <1>0, <2>1 DEF Job
  <2>3. Present(FirstChunk(rd))'
    BY <1>0, <1>2, <1>3, <1>8 DEF Truncate, Present, FirstChunk, Part
  <2> QED BY <1>6, <1>8, <2>2, <2>3
<1>9. ASSUME NEW pc \in {"get", "leave", "remove"}, Goto(Fuse, pc), UNCHANGED rd,
             Faults = {} /\ pc # "get" => Present(FirstChunk(rd))
      PROVE  ServedInv'
  <2>1. job'[Fuse].pc = pc /\ job'[Fuse].file = job[Fuse].file /\ job'[Fuse].part = job[Fuse].part
    BY <1>0, <1>9 DEF Goto, Job
  <2> QED BY <1>4, <1>6, <1>9, <2>1
<1>10. CASE GetUrl(Fuse)
  <2>1. CASE Truncate(Fuse)
    BY <1>8, <1>10, <2>1 DEF GetUrl
  <2>2. CASE ~Truncate(Fuse)
    BY <1>2, <1>9, <1>10, <2>2 DEF GetUrl
  <2> QED BY <2>1, <2>2
<1>11. CASE Fetch(Fuse)
  <2>1. CASE Truncate(Fuse)
    BY <1>8, <1>11, <2>1 DEF Fetch
  <2>2. CASE ~Truncate(Fuse)
    <3>1. Faults # {} /\ Goto(Fuse, "leave") /\ UNCHANGED rd
      <4>1. Part(rd) \in Nat /\ Part(rd) * CacheSize \in Int /\ SizeOf[rd.file] \in Int
        BY <1>1, ReadInProgress, ChunkOrder, FilesAssumption DEF Parts
      <4>2. ~(SizeOf[job[Fuse].file] <= job[Fuse].part * CacheSize)
        BY <1>2, <1>5, <4>1
      <4> QED BY <1>11, <2>2, <4>2 DEF Fetch
    <3> QED BY <1>9, <3>1
  <2> QED BY <2>1, <2>2
<1>12. CASE DownloadFails(Fuse)
  BY <1>7, <1>12 DEF DownloadFails, FinishENOENT, FinishRaise
<1>13. CASE Write(Fuse)
  <2>1. Faults = {} => Present(FirstChunk(rd))
    BY <1>13 DEF Write, ServedInv
  <2> QED BY <1>9, <1>13, <2>1 DEF Write
<1>14. CASE Leave(Fuse)
  <2>1. Faults = {} => Present(FirstChunk(rd))
    BY <1>14 DEF Leave, ServedInv
  <2>2. CASE JobChunk(Fuse) \in caching
    BY <1>9, <1>14, <2>1, <2>2 DEF Leave
  <2>3. CASE JobChunk(Fuse) \notin caching
    BY <1>4, <1>7, <1>14, <2>1, <2>3 DEF Leave, Finish
  <2> QED BY <2>2, <2>3
<1>15. CASE RemoveEntry(Fuse)
  <2>1. Faults = {} => Present(FirstChunk(rd))
    BY <1>15 DEF RemoveEntry, ServedInv
  <2> QED BY <1>4, <1>7, <1>15, <2>1 DEF RemoveEntry, Finish, FinishRaise
<1> QED BY <1>10, <1>11, <1>12, <1>13, <1>14, <1>15 DEF WorkerStep

(* One step preserves ServedInv. *)
LEMMA NextServed == TypeInv /\ ServedInv /\ [Next]_vars => ServedInv'
<1> SUFFICES ASSUME TypeInv, ServedInv, [Next]_vars PROVE ServedInv'
  OBVIOUS
<1>0. Fuse \in Workers /\ job \in [Workers -> Job] /\ rd \in Request /\ Fuse \notin Threads
  BY ThreadsAssumption DEF TypeInv, TypeOK, Workers
<1>w. job[Fuse].pc # "idle" => rd.pc = "sync"
  BY DEF TypeInv, ReadShape
<1>1. CASE UNCHANGED vars
  <2>1. disk' = disk /\ job' = job /\ rd' = rd
    BY <1>1 DEF vars
  <2>2. Part(rd)' = Part(rd) /\ (Crossing(rd)' <=> Crossing(rd))
        /\ (Present(FirstChunk(rd))' <=> Present(FirstChunk(rd)))
    BY <2>1 DEF Part, Crossing, Result, Present, FirstChunk
  <2> QED BY <2>1, <2>2 DEF ServedInv, NearReadServed
<1>2. CASE Read \/ Reply
  <2>1. job[Fuse].pc = "idle" /\ job' = job
    <3>1. rd.pc \in {"idle", "reply"} /\ job' = job
      BY <1>2, Zenon DEF Read, Reply
    <3> QED BY <1>w, <3>1
  <2>2. rd'.pc \in {"first", "idle"} /\ rd'.status = "none"
    <3>1. CASE Read
      <4>1. PICK f \in Files, len \in Lengths : \E off \in 0..(SizeOf[f] - 1) :
              rd' = [NoRead EXCEPT !.pc = "first", !.file = f, !.off = off, !.len = len]
        BY <3>1, Zenon DEF Read
      <4>2. PICK off \in 0..(SizeOf[f] - 1) :
              rd' = [NoRead EXCEPT !.pc = "first", !.file = f, !.off = off, !.len = len]
        BY <4>1, Zenon
      <4> QED BY <4>2 DEF NoRead
    <3>2. CASE Reply
      BY <3>2 DEF Reply, NoRead
    <3> QED BY <1>2, <3>1, <3>2
  <2> QED BY <2>1, <2>2 DEF ServedInv, NearReadServed
<1>3. CASE LookForFirst
  <2>1. rd.pc = "first" /\ rd.status = "none" /\ job[Fuse].pc = "idle"
    BY <1>w, <1>3 DEF LookForFirst, TypeInv, ReadShape
  <2>2. CASE Present(FirstChunk(rd))
    <3>1. rd' = [rd EXCEPT !.pc = "ahead"] /\ UNCHANGED <<disk, job>>
      BY <1>3, <2>2 DEF LookForFirst
    <3>2. Present(FirstChunk(rd))'
      BY <1>0, <2>2, <3>1 DEF Present, FirstChunk, Part, Request
    <3> QED BY <1>0, <2>1, <3>1, <3>2 DEF ServedInv, NearReadServed, Request
  <2>3. CASE ~Present(FirstChunk(rd))
    <3>1. rd' = [rd EXCEPT !.pc = "sync"] /\ job'[Fuse] = Download(rd.file, Part(rd))
      BY <1>0, <1>3, <2>3 DEF LookForFirst
    <3>2. Part(rd)' = Part(rd) /\ rd'.file = rd.file /\ rd'.pc = "sync" /\ rd'.status = "none"
      BY <1>0, <2>1, <3>1 DEF Part, Request
    <3> QED BY <3>1, <3>2 DEF ServedInv, NearReadServed, Download
  <2> QED BY <2>2, <2>3
<1>4. CASE PrefetchNext \/ NoPrefetch \/ SplitPrefetch \/ NoSplit
  <2>1. /\ rd.pc \in {"ahead", "split"} /\ rd.status = "none" /\ job[Fuse].pc = "idle"
        /\ \E pc \in {"split", "open"} : rd' = [rd EXCEPT !.pc = pc]
        /\ disk' = disk
    BY <1>w, <1>4 DEF PrefetchNext, NoPrefetch, SplitPrefetch, NoSplit, TypeInv, ReadShape
  <2>2. job'[Fuse] = job[Fuse]
    <3>1. CASE PrefetchNext
      <4>1. PICK t \in Idle : job' = [job EXCEPT ![t] = Download(rd.file, Part(rd) + 1)]
        BY <3>1 DEF PrefetchNext
      <4> QED BY <1>0, <4>1 DEF Idle
    <3>2. CASE SplitPrefetch
      <4> DEFINE g == NextPart[rd.file]
                 D(p) == Download(g, p)
      <4>1. PICK s \in Idle, t \in Idle, u \in Idle :
              job' = [job EXCEPT ![s] = D(0), ![t] = D(1), ![u] = D(SizeOf[g] \div CacheSize)]
        BY <3>2 DEF SplitPrefetch
      <4>2. s # Fuse /\ t # Fuse /\ u # Fuse
        BY <1>0 DEF Idle
      <4> HIDE DEF D
      <4> QED BY <1>0, <4>1, <4>2
    <3> QED BY <1>4, <3>1, <3>2 DEF NoPrefetch, NoSplit
  <2>3. Faults = {} => Present(FirstChunk(rd))
    BY <2>1 DEF ServedInv
  <2>4. Present(FirstChunk(rd)) => Present(FirstChunk(rd))'
    BY <1>0, <2>1 DEF Present, FirstChunk, Part, Request
  <2> QED BY <1>0, <2>1, <2>2, <2>3, <2>4 DEF ServedInv, NearReadServed, Request
<1>5. CASE OpenFirst
  <2>1. rd.pc = "open" /\ job' = job /\ job[Fuse].pc = "idle"
    <3>1. rd.pc = "open"
      BY <1>5, Zenon DEF OpenFirst
    <3>2. job' = job
      BY <1>5, Zenon DEF OpenFirst
    <3> QED BY <1>w, <3>1, <3>2
  <2>2. CASE ~Present(FirstChunk(rd))
    <3>1. Faults # {} /\ rd' = [rd EXCEPT !.pc = "reply", !.status = "ENOENT"]
      BY <1>5, <2>1, <2>2 DEF OpenFirst, ServedInv
    <3> QED BY <1>0, <2>1, <3>1 DEF ServedInv, NearReadServed, Request
  <2>3. CASE Present(FirstChunk(rd))
    <3>1. /\ rd'.pc = IF Crossing(rd) THEN "clear" ELSE "reply"
          /\ rd'.status # "ENOENT" /\ rd'.off = rd.off /\ rd'.len = rd.len
      <4>1. PICK piece \in ReadFrom(FirstChunk(rd), FirstAt(rd), FirstWant(rd)) :
              rd' = [rd EXCEPT
                       !.pc = IF Crossing(rd) THEN "clear" ELSE "reply",
                       !.status = IF Crossing(rd) THEN "none" ELSE "ok",
                       !.first = piece,
                       !.torn = disk[FirstChunk(rd)].state = "partial"]
        BY <1>5, <2>3, Zenon DEF OpenFirst
      <4>2. /\ rd'.pc = IF Crossing(rd) THEN "clear" ELSE "reply"
            /\ rd'.status = IF Crossing(rd) THEN "none" ELSE "ok"
            /\ rd'.off = rd.off /\ rd'.len = rd.len
        BY <1>0, <4>1 DEF Request
      <4> QED BY <4>2
    <3>2. Crossing(rd)' <=> Crossing(rd)
      BY <3>1 DEF Crossing, Result
    <3> QED BY <2>1, <3>1, <3>2 DEF ServedInv, NearReadServed
  <2> QED BY <2>2, <2>3
<1>6. CASE ClearBehind \/ WaitNext \/ OpenSecond
  <2>1. rd.pc \in {"clear", "wait"} /\ job[Fuse].pc = "idle" /\ Crossing(rd)
    <3>1. rd.pc \in {"clear", "wait"}
      BY <1>6, Zenon DEF ClearBehind, WaitNext, OpenSecond
    <3> QED BY <1>w, <3>1 DEF ServedInv
  <2>2. rd'.off = rd.off /\ rd'.len = rd.len /\ rd'.pc \in {"wait", "reply"}
    <3>1. CASE ClearBehind
      BY <1>0, <3>1 DEF ClearBehind, Request
    <3>2. CASE WaitNext
      BY <1>0, <3>2 DEF WaitNext, Request
    <3>3. CASE OpenSecond
      <4>1. CASE Present(NextChunk(rd))
        <5>1. PICK piece \in ReadFrom(NextChunk(rd), 0, SecondWant(rd)) :
                rd' = [rd EXCEPT
                         !.pc = "reply", !.status = "ok", !.second = piece,
                         !.torn = @ \/ disk[NextChunk(rd)].state = "partial"]
          BY <3>3, <4>1, Zenon DEF OpenSecond
        <5> QED BY <1>0, <5>1 DEF Request
      <4>2. CASE ~Present(NextChunk(rd))
        BY <1>0, <3>3, <4>2 DEF OpenSecond, Request
      <4> QED BY <4>1, <4>2
    <3> QED BY <1>6, <3>1, <3>2, <3>3
  <2>3. Crossing(rd)'
    BY <2>1, <2>2 DEF Crossing, Result
  <2>4. job'[Fuse].pc = "idle"
    <3>1. CASE ClearBehind
      BY <1>0, <2>1, <3>1, RemoveType DEF ClearBehind
    <3>2. CASE WaitNext \/ OpenSecond
      <4>1. job' = job
        BY <3>2, Zenon DEF WaitNext, OpenSecond
      <4> QED BY <2>1, <4>1
    <3> QED BY <1>6, <3>1, <3>2
  <2> QED BY <2>2, <2>3, <2>4 DEF ServedInv, NearReadServed
<1>7. CASE \E f \in Files : Release(f)
  <2>1. rd.pc = "idle" /\ rd' = rd /\ rd.status = "none" /\ job[Fuse].pc = "idle"
    BY <1>w, <1>7 DEF Release, TypeInv, ReadShape
  <2>2. job'[Fuse].pc = "idle"
    BY <1>0, <1>7, <2>1, RemoveType DEF Release
  <2> QED BY <2>1, <2>2 DEF ServedInv, NearReadServed
<1>8. ASSUME NEW w \in Workers, WorkerStep(w), w # Fuse PROVE ServedInv'
  <2>1. rd' = rd /\ job'[Fuse] = job[Fuse]
    BY <1>0, <1>8 DEF WorkerStep, GetUrl, Fetch, DownloadFails, Write, Leave, RemoveEntry,
                Finish, FinishENOENT, FinishRaise, Goto, Truncate
  <2>2. FirstChunk(rd)' = FirstChunk(rd) /\ Part(rd)' = Part(rd) /\ (Crossing(rd)' <=> Crossing(rd))
    BY <2>1 DEF FirstChunk, Part, Crossing, Result
  <2>3. rd.pc # "idle" /\ Present(FirstChunk(rd)) => Present(FirstChunk(rd))'
    <3>1. rd.pc # "idle" => FirstChunk(rd) \in Chunks
      BY ReadInProgress
    <3>2. ASSUME NEW k \in Chunks, Present(k) PROVE Present(k)'
      BY <1>8, <3>2, DownloadsKeepChunks
    <3> QED BY <2>1, <3>1, <3>2 DEF FirstChunk, Part
  <2> QED BY <1>w, <2>1, <2>2, <2>3 DEF ServedInv, NearReadServed
<1>9. CASE Crash
  BY <1>0, <1>9 DEF Crash, NoJob, NoRead, ServedInv, NearReadServed
<1> QED
  BY <1>1, <1>2, <1>3, <1>4, <1>5, <1>6, <1>7, <1>8, <1>9, OwnDownload DEF Next, ReadStep

(* With no fault of the server a read inside one chunk is served: no        *)
(* clean-up, other download or restart takes its chunk away between the     *)
(* test for the file in `read` and its open.                                *)
THEOREM NearReadsAreServed == Spec => []NearReadServed
<1>1. Init => TypeInv /\ ServedInv
  <2>1. Init => ServedInv
    BY DEF Init, ServedInv, NearReadServed, NoRead, NoJob, Workers
  <2> QED BY <2>1, InitTypeInv
<1>2. (TypeInv /\ ServedInv) /\ [Next]_vars => (TypeInv /\ ServedInv)'
  BY NextTypeInv, NextServed
<1>3. ServedInv => NearReadServed
  BY DEF ServedInv
<1> QED BY <1>1, <1>2, <1>3, PTL DEF Spec
=============================================================================
