----------------------------- MODULE ChunkCache -----------------------------
(***************************************************************************)
(* The read path of the drive (src/fuse_degoo.py).  A remote file is read  *)
(* through chunks of CacheSize bytes that are downloaded into one local    *)
(* directory.  One thread, the FUSE thread, runs the handlers; `read` may  *)
(* download a chunk itself, or start a prefetch thread that downloads the  *)
(* next one.  Handlers never interleave with each other (they contain no   *)
(* await), but every one of their steps interleaves with the prefetch      *)
(* threads, which share the directory and the list caching_file_list.      *)
(*                                                                         *)
(* Bytes are not modelled one by one: a piece of data is an interval of a  *)
(* file's offsets, which is all that the correctness of a read depends on. *)
(***************************************************************************)
EXTENDS Integers, FiniteSets

CONSTANTS
  Files,      \* remote files (Degoo elements that are not folders)
  NoFile,     \* not a file
  Names,      \* the base names of the files
  NameOf,     \* [Files -> Names]: the temporary names keep only the base name
  SizeOf,     \* [Files -> Nat]: the Size the file tree gives
  CacheSize,  \* bytes of a chunk (--cache-size)
  Page,       \* the kernel asks for whole pages
  Lengths,    \* lengths the kernel asks for
  MaxPart,    \* BOUND: chunks are numbered 0..MaxPart
  Retries,    \* waits of a read for its second chunk (10 in the code)
  Threads,    \* BOUND: prefetch threads alive at the same time
  Fuse,       \* the FUSE thread
  Matched,    \* [Names -> SUBSET Chunks]: what the glob of _clear_files matches
  Inline,     \* text files whose content comes instead of a url
  Media,      \* files whose guessed type is audio or video
  PlexSplit,  \* the option --plex-split-file
  NextPart,   \* [Files -> Files \cup {NoFile}]: _get_next_part_split_file
  Faults,     \* what can go wrong in a download
  MayCrash    \* whether the process may be killed and started again

Parts == 0..MaxPart

(* A temporary file name: stem, part number and extension. *)
Chunks == Names \X Parts

Workers == Threads \cup {Fuse}

ASSUME FilesAssumption ==
  /\ NoFile \notin Files
  /\ NameOf \in [Files -> Names]
  /\ SizeOf \in [Files -> Nat]
  /\ NextPart \in [Files -> Files \cup {NoFile}]
  /\ Inline \subseteq Files
  /\ Media \subseteq Files
  /\ Matched \in [Names -> SUBSET Chunks]
ASSUME SizesAssumption ==
  /\ CacheSize \in Nat \ {0}
  /\ Page \in Nat \ {0}
  /\ Lengths \subseteq 1..CacheSize
  /\ MaxPart \in Nat \ {0}
  /\ \A f \in Files : SizeOf[f] <= MaxPart * CacheSize
  /\ \A f \in Inline : SizeOf[f] < CacheSize
  /\ Retries \in Nat
ASSUME ThreadsAssumption ==
  /\ Fuse \notin Threads
  /\ PlexSplit \in BOOLEAN
  /\ MayCrash \in BOOLEAN
  /\ Faults \subseteq {"nodata", "FUSEError", "raise"}

VARIABLES
  disk,     \* the temporary directory: the state of each chunk file
  caching,  \* caching_file_list (a set: what is appended is not in it)
  job,      \* the _cache_file call of each worker
  rd        \* the read the FUSE thread is answering

vars == <<disk, caching, job, rd>>

(***************************************************************************)
(* Chunk files.  A file that open(..., 'wb') truncated is partial until    *)
(* its writers are done.  NoFile as the file of a chunk that is there      *)
(* stands for the mixture that writers of two files leave.                 *)
(***************************************************************************)
Absent == [state |-> "absent", file |-> NoFile]

Content == [state : {"absent", "partial", "whole"}, file : Files \cup {NoFile}]

Present(k) == disk[k].state # "absent"

(* MUTANT: the temporary name keeps the part only. *)
ChunkByPart(f, p) == <<CHOOSE n \in Names : TRUE, p>>

(* The temporary file of a part of a file: its base name and the part. *)
Chunk(f, p) == <<NameOf[f], p>>

Least(a, b) == IF a <= b THEN a ELSE b

(* The bytes of the range that is requested for part p of a file: the *)
(* last range has no end, the server stops at the end of the file.     *)
ChunkLength(f, p) ==
  IF f \notin Files THEN CacheSize
  ELSE IF SizeOf[f] <= p * CacheSize THEN 0
  ELSE Least(CacheSize, SizeOf[f] - p * CacheSize)

(* A piece of data: n bytes of a file from an offset of the file on. *)
Piece == [file : Files \cup {NoFile}, from : Nat, n : Nat]

NoPiece == [file |-> NoFile, from |-> 0, n |-> 0]

(* What os.read may return of chunk k for `want` bytes from position `at`: *)
(* a partial file holds any prefix of the chunk.                            *)
ReadFrom(k, at, want) ==
  LET length == ChunkLength(disk[k].file, k[2])
      there  == IF length <= at THEN 0 ELSE Least(want, length - at)
  IN { [file |-> disk[k].file, from |-> k[2] * CacheSize + at, n |-> m] :
         m \in IF disk[k].state = "whole" THEN {there} ELSE 0..there }

(***************************************************************************)
(* Workers.  "url": get_url_file is called.  "get": the chunk was not in   *)
(* the directory, the range is requested.  "write": open(..., 'wb') has    *)
(* truncated the chunk file, the bytes are not all written.  "leave": the  *)
(* test on caching_file_list comes next.  "remove": the test was true.     *)
(* `linked` says that the file being written is still in the directory.    *)
(***************************************************************************)
Job == [pc : {"idle", "url", "get", "write", "leave", "remove"},
        file : Files \cup {NoFile}, part : Parts, linked : BOOLEAN]

NoJob == [pc |-> "idle", file |-> NoFile, part |-> 0, linked |-> FALSE]

Download(f, p) == [pc |-> "url", file |-> f, part |-> p, linked |-> FALSE]

Idle == { t \in Threads : job[t].pc = "idle" }

JobChunk(w) == Chunk(job[w].file, job[w].part)

(* Workers that are writing to the file that is in the directory as k. *)
Writers(k) ==
  { w \in Workers : job[w].pc = "write" /\ job[w].linked /\ JobChunk(w) = k }

(***************************************************************************)
(* The read in progress.                                                   *)
(***************************************************************************)
Request == [pc : {"idle", "first", "sync", "ahead", "split", "open", "clear",
                  "wait", "reply", "dead"},
            file : Files \cup {NoFile}, off : Nat, len : 0..CacheSize,
            first : Piece, second : Piece, tries : 0..Retries,
            status : {"none", "ok", "ENOENT"}, torn : BOOLEAN]

NoRead == [pc |-> "idle", file |-> NoFile, off |-> 0, len |-> 0,
           first |-> NoPiece, second |-> NoPiece, tries |-> 0,
           status |-> "none", torn |-> FALSE]

(* first_file_part *)
Part(r) == r.off \div CacheSize

FirstChunk(r) == Chunk(r.file, Part(r))

(* next_temp_filename *)
NextChunk(r) == Chunk(r.file, Part(r) + 1)

(* result, the part in which the requested range ends *)
Result(r) == (r.off + r.len) \div CacheSize

Crossing(r) == r.off < Result(r) * CacheSize

-----------------------------------------------------------------------------
Init ==
  /\ disk = [k \in Chunks |-> Absent]
  /\ caching = {}
  /\ job = [w \in Workers |-> NoJob]
  /\ rd = NoRead

(* The threads a read of f may have to start. *)
ThreadsNeeded(f) ==
  IF /\ PlexSplit /\ f \in Media /\ NextPart[f] # NoFile
     /\ Chunk(f, 0) \notin caching /\ ~Present(Chunk(f, 0))
  THEN 4 ELSE 1

(***************************************************************************)
(* A read arrives.  The kernel asks for whole pages that begin before the  *)
(* end of the file.                                                        *)
(***************************************************************************)
Read ==
  /\ rd.pc = "idle"
  /\ \E f \in Files, len \in Lengths :
       \E off \in 0..(SizeOf[f] - 1) :
         /\ Cardinality(Idle) >= ThreadsNeeded(f)
         /\ off % Page = 0
         /\ off + len < SizeOf[f] + Page
         /\ rd' = [NoRead EXCEPT !.pc = "first", !.file = f, !.off = off, !.len = len]
  /\ UNCHANGED <<disk, caching, job>>

(* MUTANT: a chunk that a thread is downloading is not downloaded again. *)
LookForFirstOnce ==
  /\ rd.pc = "first"
  /\ IF Present(FirstChunk(rd)) \/ FirstChunk(rd) \in caching
     THEN /\ rd' = [rd EXCEPT !.pc = "ahead"]
          /\ UNCHANGED job
     ELSE /\ rd' = [rd EXCEPT !.pc = "sync"]
          /\ job' = [job EXCEPT ![Fuse] = Download(rd.file, Part(rd))]
  /\ UNCHANGED <<disk, caching>>

(* A chunk that is not there is downloaded by the FUSE thread itself, *)
(* whether or not a thread is downloading it already.                  *)
LookForFirst ==
  /\ rd.pc = "first"
  /\ IF Present(FirstChunk(rd))
     THEN /\ rd' = [rd EXCEPT !.pc = "ahead"]
          /\ UNCHANGED job
     ELSE /\ rd' = [rd EXCEPT !.pc = "sync"]
          /\ job' = [job EXCEPT ![Fuse] = Download(rd.file, Part(rd))]
  /\ UNCHANGED <<disk, caching>>

(* A quarter of a chunk has been read, there is a next chunk, and it is *)
(* neither there nor on its way.                                         *)
PrefetchWanted(r) ==
  /\ 25 * CacheSize < 100 * (r.off + r.len)
  /\ r.off + r.len < SizeOf[r.file]
  /\ (Part(r) + 1) * CacheSize < SizeOf[r.file]
  /\ NextChunk(r) \notin caching
  /\ ~Present(NextChunk(r))

PrefetchNext ==
  /\ rd.pc = "ahead"
  /\ PrefetchWanted(rd)
  /\ caching' = caching \cup {NextChunk(rd)}
  /\ \E t \in Idle : job' = [job EXCEPT ![t] = Download(rd.file, Part(rd) + 1)]
  /\ rd' = [rd EXCEPT !.pc = "split"]
  /\ UNCHANGED disk

NoPrefetch ==
  /\ rd.pc = "ahead"
  /\ ~PrefetchWanted(rd)
  /\ rd' = [rd EXCEPT !.pc = "open"]
  /\ UNCHANGED <<disk, caching, job>>

(***************************************************************************)
(* check_and_split_file: with --plex-split-file, the file that continues   *)
(* this one is prefetched too.  The name tested and put in the list is     *)
(* that of part 0 of the file being read.                                  *)
(***************************************************************************)
SplitWanted(r) ==
  /\ PlexSplit
  /\ Chunk(r.file, 0) \notin caching
  /\ ~Present(Chunk(r.file, 0))
  /\ r.file \in Media
  /\ NextPart[r.file] # NoFile

SplitPrefetch ==
  /\ rd.pc = "split"
  /\ SplitWanted(rd)
  /\ caching' = caching \cup {Chunk(rd.file, 0)}
  /\ LET g == NextPart[rd.file] IN
       \E s, t, u \in Idle :
         /\ Cardinality({s, t, u}) = 3
         /\ job' = [job EXCEPT ![s] = Download(g, 0), ![t] = Download(g, 1),
                               ![u] = Download(g, SizeOf[g] \div CacheSize)]
  /\ rd' = [rd EXCEPT !.pc = "open"]
  /\ UNCHANGED disk

NoSplit ==
  /\ rd.pc = "split"
  /\ ~SplitWanted(rd)
  /\ rd' = [rd EXCEPT !.pc = "open"]
  /\ UNCHANGED <<disk, caching, job>>

(* MUTANT: the position is computed from the length, as the amount is. *)
FirstAtByLength(r) ==
  IF Crossing(r) THEN CacheSize - r.len ELSE r.off - Result(r) * CacheSize

(* The position in the first chunk file: both branches of `read`. *)
FirstAt(r) ==
  IF Crossing(r) THEN CacheSize - (Result(r) * CacheSize - r.off)
  ELSE r.off - Result(r) * CacheSize

(* How much is asked of the first chunk file: `cache_size - length` where *)
(* two files are read.                                                     *)
FirstWant(r) == IF Crossing(r) THEN CacheSize - r.len ELSE r.len

OpenFirst ==
  /\ rd.pc = "open"
  /\ IF ~Present(FirstChunk(rd))
     THEN rd' = [rd EXCEPT !.pc = "reply", !.status = "ENOENT"]
     ELSE \E piece \in ReadFrom(FirstChunk(rd), FirstAt(rd), FirstWant(rd)) :
            rd' = [rd EXCEPT
                     !.pc = IF Crossing(rd) THEN "clear" ELSE "reply",
                     !.status = IF Crossing(rd) THEN "none" ELSE "ok",
                     !.first = piece,
                     !.torn = disk[FirstChunk(rd)].state = "partial"]
  /\ UNCHANGED <<disk, caching, job>>

(* os.remove of a set of chunk files; who writes to one goes on writing.   *)
(* One step stands for the loop: a thread looks at one chunk only, and a   *)
(* file made after the glob was evaluated is not removed.                  *)
Remove(ks) ==
  /\ disk' = [k \in Chunks |-> IF k \in ks THEN Absent ELSE disk[k]]
  /\ job' = [w \in Workers |->
               IF \E k \in ks : w \in Writers(k) THEN [job[w] EXCEPT !.linked = FALSE]
               ELSE job[w]]

(* _clear_files(path_file, skip_filename=next_temp_filename) *)
ClearBehind ==
  /\ rd.pc = "clear"
  /\ Remove(Matched[NameOf[rd.file]] \ {NextChunk(rd)})
  /\ rd' = [rd EXCEPT !.pc = "wait"]
  /\ UNCHANGED caching

(* MUTANT: the wait has no limit. *)
WaitForever(r) == NextChunk(r) \in caching

MustWait(r) == NextChunk(r) \in caching /\ r.tries < Retries

(* MUTANT: the turns of the loop are not counted. *)
WaitUncounted ==
  /\ rd.pc = "wait"
  /\ MustWait(rd)
  /\ UNCHANGED vars

WaitNext ==
  /\ rd.pc = "wait"
  /\ MustWait(rd)
  /\ rd' = [rd EXCEPT !.tries = @ + 1]
  /\ UNCHANGED <<disk, caching, job>>

(* MUTANT: what the first piece has is not taken off. *)
SecondWantAll(r) == r.len

(* `length - len(byte)` *)
SecondWant(r) == r.len - r.first.n

OpenSecond ==
  /\ rd.pc = "wait"
  /\ ~MustWait(rd)
  /\ IF ~Present(NextChunk(rd))
     THEN rd' = [rd EXCEPT !.pc = "reply", !.status = "ENOENT"]
     ELSE \E piece \in ReadFrom(NextChunk(rd), 0, SecondWant(rd)) :
            rd' = [rd EXCEPT
                     !.pc = "reply", !.status = "ok", !.second = piece,
                     !.torn = @ \/ disk[NextChunk(rd)].state = "partial"]
  /\ UNCHANGED <<disk, caching, job>>

Reply ==
  /\ rd.pc = "reply"
  /\ rd' = NoRead
  /\ UNCHANGED <<disk, caching, job>>

(***************************************************************************)
(* release: the chunks of the file are removed, even when the file is open *)
(* a second time; nothing is removed when the file is a part of a split    *)
(* one and the option is on.                                               *)
(***************************************************************************)
Release(f) ==
  /\ rd.pc = "idle"
  /\ ~(PlexSplit /\ NextPart[f] # NoFile)
  /\ Remove(Matched[NameOf[f]])
  /\ UNCHANGED <<caching, rd>>

-----------------------------------------------------------------------------
(***************************************************************************)
(* _cache_file, by a prefetch thread or by the FUSE thread.                *)
(***************************************************************************)
(* The call returns: the read goes on, or the thread ends. *)
Finish(w) ==
  /\ job' = [job EXCEPT ![w] = NoJob]
  /\ rd' = IF w = Fuse THEN [rd EXCEPT !.pc = "ahead"] ELSE rd

(* FUSEError leaves the call: the read fails, or the thread dies. *)
FinishENOENT(w) ==
  /\ job' = [job EXCEPT ![w] = NoJob]
  /\ rd' = IF w = Fuse THEN [rd EXCEPT !.pc = "reply", !.status = "ENOENT"] ELSE rd

(* Any other exception ends the main loop if it leaves a handler. *)
FinishRaise(w) ==
  /\ job' = [job EXCEPT ![w] = NoJob]
  /\ rd' = IF w = Fuse THEN [rd EXCEPT !.pc = "dead"] ELSE rd

Goto(w, pc) == job' = [job EXCEPT ![w].pc = pc]

(* open(temp_filename, 'wb') *)
Truncate(w) ==
  LET k == JobChunk(w)
      f == job[w].file
      mixed == \E v \in Writers(k) : job[v].file # f
  IN /\ disk' = [disk EXCEPT ![k] =
                   [state |-> "partial", file |-> IF mixed THEN NoFile ELSE f]]
     /\ job' = [job EXCEPT ![w].pc = "write", ![w].linked = TRUE]

(* get_url_file, then the branch for inline content or os.path.isfile. *)
GetUrl(w) ==
  /\ job[w].pc = "url"
  /\ \/ job[w].file \in Inline /\ Truncate(w)
     \/ /\ job[w].file \notin Inline
        /\ Goto(w, IF Present(JobChunk(w)) THEN "leave" ELSE "get")
        /\ UNCHANGED disk
  /\ UNCHANGED <<caching, rd>>

(* The range is answered, or it begins behind the end of the file (416). *)
Fetch(w) ==
  /\ job[w].pc = "get"
  /\ \/ job[w].part * CacheSize < SizeOf[job[w].file] /\ Truncate(w)
     \/ /\ \/ "nodata" \in Faults
           \/ SizeOf[job[w].file] <= job[w].part * CacheSize
        /\ Goto(w, "leave")
        /\ UNCHANGED disk
  /\ UNCHANGED <<caching, rd>>

(* No url, an answer that is not 206; or an exception nobody catches. *)
DownloadFails(w) ==
  /\ job[w].pc \in {"url", "get"}
  /\ \/ "FUSEError" \in Faults /\ FinishENOENT(w)
     \/ "raise" \in Faults /\ FinishRaise(w)
  /\ UNCHANGED <<disk, caching>>

(* MUTANT: the file is left as open(..., 'wb') made it. *)
WriteHalf(w) ==
  /\ job[w].pc = "write"
  /\ UNCHANGED disk
  /\ Goto(w, "leave")
  /\ UNCHANGED <<caching, rd>>

(* The bytes are written and the file is closed.  While another writer is *)
(* not done the content is not settled.                                    *)
Write(w) ==
  /\ job[w].pc = "write"
  /\ disk' = IF job[w].linked /\ Writers(JobChunk(w)) = {w}
             THEN [disk EXCEPT ![JobChunk(w)].state = "whole"]
             ELSE disk
  /\ Goto(w, "leave")
  /\ UNCHANGED <<caching, rd>>

(* MUTANT: the entry is left in the list. *)
LeaveAlways(w) ==
  /\ job[w].pc = "leave"
  /\ Finish(w)
  /\ UNCHANGED <<disk, caching>>

(* `if temp_filename in caching_file_list` *)
Leave(w) ==
  /\ job[w].pc = "leave"
  /\ IF JobChunk(w) \in caching
     THEN Goto(w, "remove") /\ UNCHANGED rd
     ELSE Finish(w)
  /\ UNCHANGED <<disk, caching>>

(* caching_file_list.remove: ValueError if the entry has gone meanwhile. *)
RemoveEntry(w) ==
  /\ job[w].pc = "remove"
  /\ IF JobChunk(w) \in caching
     THEN caching' = caching \ {JobChunk(w)} /\ Finish(w)
     ELSE FinishRaise(w) /\ UNCHANGED caching
  /\ UNCHANGED disk

WorkerStep(w) ==
  GetUrl(w) \/ Fetch(w) \/ DownloadFails(w) \/ Write(w) \/ Leave(w) \/ RemoveEntry(w)

(* The process is killed and started again; the directory stays. *)
Crash ==
  /\ MayCrash
  /\ caching' = {}
  /\ job' = [w \in Workers |-> NoJob]
  /\ rd' = NoRead
  /\ UNCHANGED disk

(* What the FUSE thread does in a read. *)
ReadStep ==
  \/ LookForFirst \/ PrefetchNext \/ NoPrefetch \/ SplitPrefetch \/ NoSplit
  \/ OpenFirst \/ ClearBehind \/ WaitNext \/ OpenSecond \/ Reply

Next ==
  \/ Read
  \/ ReadStep
  \/ \E f \in Files : Release(f)
  \/ \E w \in Workers : WorkerStep(w)
  \/ Crash

Spec == Init /\ [][Next]_vars

(* The FUSE thread runs, and its own requests are answered.  Nothing is *)
(* assumed of the prefetch threads.                                      *)
FairSpec == Spec /\ WF_vars(ReadStep) /\ WF_vars(WorkerStep(Fuse))
-----------------------------------------------------------------------------
(***************************************************************************)
(* Properties.                                                             *)
(***************************************************************************)
(* Every variable has its type. *)
TypeOK ==
  /\ disk \in [Chunks -> Content]
  /\ caching \subseteq Chunks
  /\ job \in [Workers -> Job]
  /\ rd \in Request

(* What the reads and the downloads in progress are about: existing files, *)
(* ranges that begin inside them, and a first piece that leaves room.       *)
ReadShape ==
  /\ \A w \in Workers : job[w].pc # "idle" => job[w].file \in Files
  /\ job[Fuse].pc # "idle" => rd.pc = "sync"
  /\ rd.pc # "idle" => /\ rd.file \in Files
                       /\ rd.off < SizeOf[rd.file]
                       /\ rd.len \in Lengths
  /\ rd.pc \in {"clear", "wait"} => rd.first.n <= rd.len
  /\ rd.pc # "reply" => rd.second = NoPiece /\ rd.status = "none"

(* No two files have the same base name.  Without it the temporary names of *)
(* their chunks are the same and each is given the bytes of the other.      *)
UniqueNames == \A f, g \in Files : NameOf[f] = NameOf[g] => f = g

(* No read is longer than half a chunk.  Without it `cache_size - length` is *)
(* less than what is left of the first chunk.                                *)
ShortReads == \A len \in Lengths : 2 * len <= CacheSize

(* A chunk file holds bytes of the file whose name it has. *)
DiskNamed ==
  \A k \in Chunks : Present(k) => /\ disk[k].file \in Files
                                  /\ NameOf[disk[k].file] = k[1]

(* A chunk file that has a writer is not complete. *)
WritersPartial == \A k \in Chunks : Writers(k) # {} => disk[k].state = "partial"

(* Where the answer to a read ends: the end of the range or of the file. *)
End(r) == Least(r.off + r.len, SizeOf[r.file])

(* Where the first chunk of a read ends, or its range, or its file. *)
FirstEnd(r) == Least(End(r), (Part(r) + 1) * CacheSize)

(* The first piece of a read of two files reaches the end of its chunk. *)
FirstPieceExact ==
  rd.pc \in {"clear", "wait"} /\ ~rd.torn =>
    /\ Crossing(rd)
    /\ rd.first.file = rd.file
    /\ rd.first.from = rd.off
    /\ rd.first.n = FirstEnd(rd) - rd.off

(* The bytes put together for a read are the bytes of the file it asked *)
(* for, in order, and all of them.                                       *)
DataExact(r) ==
  /\ r.first.file = r.file
  /\ r.first.from = r.off
  /\ r.second.n > 0 => /\ r.second.file = r.file
                        /\ r.second.from = r.off + r.first.n
  /\ r.first.n + r.second.n = End(r) - r.off

(* A read that met no chunk in the middle of being written returns exactly *)
(* the bytes asked for (the arithmetic of the two branches of `read`, with *)
(* chunks that clean-ups and downloads keep replacing under it).           *)
UntornReadExact == rd.status = "ok" /\ ~rd.torn => DataExact(rd)

(* A read returns exactly the bytes asked for except at the end of file, as *)
(* the contract of the handler `read` demands.                              *)
ReadExact == rd.status = "ok" => DataExact(rd)

(* A chunk file that is not whole is being written: unless the process is  *)
(* killed, every truncated chunk in the directory is completed, whatever   *)
(* clean-ups and second downloads of the same chunk happen meanwhile.      *)
TornHasWriter == \A k \in Chunks : disk[k].state = "partial" => Writers(k) # {}

(* The entries check_and_split_file makes, which name a chunk that nobody   *)
(* downloads for them.                                                      *)
SplitMarks == { Chunk(f, 0) : f \in { g \in Files : PlexSplit /\ NextPart[g] # NoFile } }

(* Any other entry of caching_file_list has a live _cache_file call for its *)
(* chunk: no read waits for, and no prefetch is suppressed by, a download   *)
(* that no thread is doing.  (An exception in a download breaks it.)        *)
CachingHasWorker ==
  \A k \in caching \ SplitMarks : \E w \in Workers : job[w].pc # "idle" /\ JobChunk(w) = k

(* With no fault of the server, a read inside one chunk is never answered *)
(* "no such file", whoever removes or replaces chunks meanwhile.           *)
NearReadServed == rd.status = "ENOENT" /\ Faults = {} => Crossing(rd)

(* With no fault of the server, a read of a file that exists is answered *)
(* "no such file" only when it waited in vain for its second chunk.       *)
ReadServed == rd.status = "ENOENT" => rd.tries = Retries

(* A request handler raises nothing but FUSEError: with no fault of the   *)
(* server, no exception of another kind ends the main loop.               *)
OnlyFUSEError == rd.pc # "dead"

(* Every read is answered, or the main loop has ended: a thread that died *)
(* without taking its entry off caching_file_list does not hold it up.     *)
ReadAnswered == rd.pc = "first" ~> rd.pc \in {"idle", "dead"}
=============================================================================
