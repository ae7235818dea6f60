-------------------------- MODULE ReadServiceProofs --------------------------
(***************************************************************************)
(* The chunked read path implements ReadService: TLAPS proofs about        *)
(* ChunkCacheReads, for every value of the constants.                      *)
(***************************************************************************)
EXTENDS ChunkCacheReads, ChunkCacheProofs

(* What the steps of a read keep, as ChunkCacheProofs proves it. *)
ReadInv == TypeInv /\ WritersPartial /\ DiskNamed /\ FirstPieceExact /\ UntornReadExact

(* A read in progress that has no answer yet. *)
Unanswered(r) == r.pc \notin {"idle", "dead", "reply"} /\ r.status = "none"

(* How such a read looks from outside. *)
LEMMA SeenUnanswered ==
  ASSUME NEW r, Unanswered(r)
  PROVE  Seen(r) = [state |-> "asked", file |-> r.file, off |-> r.off, len |-> r.len,
                    answer |-> "none", bytes |-> NoPiece]
BY DEF Seen, Unanswered

(* How an answer looks. *)
LEMMA SeenReply ==
  ASSUME NEW r, r.pc = "reply", r.status \in {"ok", "ENOENT"}, r.torn \in BOOLEAN
  PROVE  Seen(r) = [state |-> "answered", file |-> r.file, off |-> r.off, len |-> r.len,
                    answer |-> IF r.status = "ENOENT" THEN "ENOENT"
                               ELSE IF r.torn THEN "torn" ELSE "bytes",
                    bytes |-> IF r.status = "ok" /\ ~r.torn THEN Joined(r) ELSE NoPiece]
BY DEF Seen

(* An answer whose bytes are exact is the one ReadService serves. *)
LEMMA JoinedExact ==
  ASSUME NEW r \in Request, r.file \in Files, r.len \in Lengths, DataExact(r)
  PROVE  Joined(r) = [file |-> r.file, from |-> r.off,
                      n |-> IF r.off + r.len <= SizeOf[r.file] THEN r.len
                            ELSE SizeOf[r.file] - r.off]
<1>1. r.first \in Piece /\ r.second \in Piece /\ r.off \in Nat /\ r.len \in Nat
      /\ SizeOf[r.file] \in Nat
  BY SizesAssumption, FilesAssumption DEF Request
<1>2. r.first.n + r.second.n = IF r.off + r.len <= SizeOf[r.file] THEN r.len
                               ELSE SizeOf[r.file] - r.off
  BY <1>1 DEF DataExact, End, Least, Piece
<1>3. r.first = [file |-> r.file, from |-> r.off, n |-> r.first.n] /\ r.first.n \in Nat
  BY <1>1 DEF DataExact, Piece
<1>4. CASE r.second.n = 0
  BY <1>2, <1>3, <1>4 DEF Joined
<1>5. CASE r.second.n # 0
  <2>1. r.second.n > 0
    BY <1>1, <1>5 DEF Piece
  <2>2. r.second.file = r.first.file /\ r.second.from = r.first.from + r.first.n
    BY <2>1 DEF DataExact
  <2>3. Joined(r) = [r.first EXCEPT !.n = r.first.n + r.second.n]
    BY <1>5, <2>2 DEF Joined
  <2>4. Joined(r) = [file |-> r.file, from |-> r.off, n |-> r.first.n + r.second.n]
    BY <1>3, <2>3
  <2> QED BY <1>2, <2>4
<1> QED BY <1>4, <1>5

(* No read is in progress. *)
LEMMA SeenIdle == Seen(NoRead) = Promise!None
BY DEF Seen, NoRead, NoPiece, Promise!None, Promise!Nothing

(* A step that keeps the range and leaves the read unanswered is not seen. *)
LEMMA Unseen ==
  ASSUME Unanswered(rd), Unanswered(rd)', rd'.file = rd.file, rd'.off = rd.off, rd'.len = rd.len
  PROVE  Seen(rd)' = Seen(rd)
<1>1. Seen(rd') = Seen(rd)
  BY SeenUnanswered
<1> QED BY <1>1

(* Each answer is one that ReadService gives. *)
LEMMA AnswerSeen ==
  ASSUME ReadInv, Unanswered(rd), rd' \in Request, UntornReadExact', rd.file \in Files,
         rd.len \in Lengths,
         rd'.pc = "reply", rd'.status \in {"ok", "ENOENT"},
         rd'.file = rd.file, rd'.off = rd.off, rd'.len = rd.len
  PROVE  Promise!Next
<1>0. rd'.torn \in BOOLEAN
  BY DEF Request
<1> DEFINE q == [state |-> "asked", file |-> rd.file, off |-> rd.off, len |-> rd.len,
                 answer |-> "none", bytes |-> NoPiece]
<1> DEFINE answered(kind, bytes) ==
             [state |-> "answered", file |-> rd.file, off |-> rd.off, len |-> rd.len,
              answer |-> kind, bytes |-> bytes]
<1>1. Seen(rd) = q
  BY SeenUnanswered
<1>2. Seen(rd') = answered(IF rd'.status = "ENOENT" THEN "ENOENT"
                           ELSE IF rd'.torn THEN "torn" ELSE "bytes",
                           IF rd'.status = "ok" /\ ~rd'.torn THEN Joined(rd') ELSE NoPiece)
  BY <1>0, SeenReply
<1> HIDE DEF answered
<1>3. ASSUME NEW kind, NEW bytes, Seen(rd)' = answered(kind, bytes)
      PROVE  Promise!Answer(kind, bytes)
  BY <1>1, <1>3 DEF Promise!Answer, answered
<1>4. CASE rd'.status = "ENOENT"
  <2>1. Seen(rd)' = answered("ENOENT", Promise!Nothing)
    BY <1>2, <1>4 DEF Promise!Nothing, NoPiece
  <2> QED BY <1>3, <2>1 DEF Promise!Next, Promise!Refuse
<1>5. CASE rd'.status = "ok" /\ rd'.torn
  <2>1. Seen(rd)' = answered("torn", Promise!Nothing)
    BY <1>2, <1>5 DEF Promise!Nothing, NoPiece
  <2> QED BY <1>3, <2>1 DEF Promise!Next, Promise!ServeTorn
<1>6. CASE rd'.status = "ok" /\ ~rd'.torn
  <2>1. DataExact(rd')
    BY <1>6 DEF UntornReadExact
  <2>2. Joined(rd') = Promise!Exact(q)
    BY <2>1, JoinedExact DEF Promise!Exact
  <2>3. Seen(rd)' = answered("bytes", Promise!Exact(q))
    BY <1>2, <1>6, <2>2
  <2> QED BY <1>1, <1>3, <2>3 DEF Promise!Next, Promise!Serve
<1> QED BY <1>0, <1>4, <1>5, <1>6

(* Every step of the read path is a step of ReadService, or is not seen. *)
LEMMA NextPromised ==
  ASSUME ReadInv, TypeInv', UntornReadExact', [Next]_vars
  PROVE  [Promise!Next]_(Seen(rd))
<1>0. rd \in Request /\ rd' \in Request
  BY DEF ReadInv, TypeInv, TypeOK
<1>1. CASE UNCHANGED rd
  <2>1. Seen(rd') = Seen(rd)
    BY <1>1
  <2> QED BY <2>1
<1>2. CASE Read
  <2>1. PICK f \in Files, len \in Lengths : \E off \in 0..(SizeOf[f] - 1) :
          /\ off % Page = 0 /\ off + len < SizeOf[f] + Page
          /\ rd' = [NoRead EXCEPT !.pc = "first", !.file = f, !.off = off, !.len = len]
    BY <1>2 DEF Read
  <2>2. PICK off \in 0..(SizeOf[f] - 1) :
          /\ off % Page = 0 /\ off + len < SizeOf[f] + Page
          /\ rd' = [NoRead EXCEPT !.pc = "first", !.file = f, !.off = off, !.len = len]
    BY <2>1
  <2>3. Unanswered(rd') /\ rd'.file = f /\ rd'.off = off /\ rd'.len = len
    BY <2>2 DEF Unanswered, NoRead
  <2>4. Seen(rd') = [state |-> "asked", file |-> f, off |-> off, len |-> len,
                     answer |-> "none", bytes |-> NoPiece]
    BY <2>3, SeenUnanswered
  <2>5. Seen(rd).state = "none"
    BY <1>2 DEF Read, Seen
  <2> QED BY <2>2, <2>4, <2>5 DEF Promise!Next, Promise!Ask, Promise!Nothing, NoPiece
<1>3. CASE LookForFirst \/ PrefetchNext \/ NoPrefetch \/ SplitPrefetch \/ NoSplit
  <2>1. rd.pc \in {"first", "ahead", "split"}
    BY <1>3 DEF LookForFirst, PrefetchNext, NoPrefetch, SplitPrefetch, NoSplit
  <2>2. \E pc \in {"sync", "ahead", "split", "open"} : rd' = [rd EXCEPT !.pc = pc]
    BY <1>3 DEF LookForFirst, PrefetchNext, NoPrefetch, SplitPrefetch, NoSplit
  <2>3. /\ Unanswered(rd) /\ Unanswered(rd')
        /\ rd'.file = rd.file /\ rd'.off = rd.off /\ rd'.len = rd.len
    BY <1>0, <2>1, <2>2 DEF Unanswered, ReadInv, TypeInv, ReadShape, Request
  <2> QED BY <2>3, Unseen
<1>4. CASE OpenFirst \/ OpenSecond
  <2>1. /\ rd.pc \in {"open", "wait"} /\ Unanswered(rd)
        /\ rd.file \in Files /\ rd.len \in Lengths
    BY <1>4 DEF OpenFirst, OpenSecond, Unanswered, ReadInv, TypeInv, ReadShape
  <2>2. /\ rd'.file = rd.file /\ rd'.off = rd.off /\ rd'.len = rd.len
        /\ \/ rd'.pc = "reply" /\ rd'.status \in {"ok", "ENOENT"}
           \/ rd'.pc = "clear" /\ rd'.status = "none"
    BY <1>0, <1>4 DEF OpenFirst, OpenSecond, Request
  <2>3. CASE rd'.pc = "reply" /\ rd'.status \in {"ok", "ENOENT"}
    BY <1>0, <2>1, <2>2, <2>3, AnswerSeen
  <2>4. CASE rd'.pc = "clear" /\ rd'.status = "none"
    BY <2>1, <2>2, <2>4, Unseen DEF Unanswered
  <2> QED BY <2>2, <2>3, <2>4
<1>5. CASE ClearBehind \/ WaitNext
  <2>1. /\ rd.pc \in {"clear", "wait"} /\ rd'.pc = "wait" /\ rd'.status = rd.status
        /\ rd'.file = rd.file /\ rd'.off = rd.off /\ rd'.len = rd.len
    BY <1>0, <1>5 DEF ClearBehind, WaitNext, Request
  <2>2. rd.status = "none"
    BY <2>1 DEF ReadInv, TypeInv, ReadShape
  <2> QED BY <2>1, <2>2, Unseen DEF Unanswered
<1>6. CASE Reply
  <2>1. Seen(rd').state = "none" /\ Seen(rd') = Promise!None
    BY <1>6, SeenIdle DEF Reply, Promise!None
  <2>2. Seen(rd).state = "answered"
    BY <1>6 DEF Reply, Seen
  <2> QED BY <2>1, <2>2 DEF Promise!Next, Promise!Finish
<1>7. CASE Crash
  <2>1. Seen(rd') = Promise!None
    BY <1>7, SeenIdle DEF Crash
  <2> QED BY <2>1 DEF Promise!Next, Promise!Restart
<1>8. ASSUME NEW w \in Workers, WorkerStep(w), ~UNCHANGED rd
      PROVE  Promise!Next \/ UNCHANGED Seen(rd)
  <2>1. job[w].pc # "idle" /\ (Finish(w) \/ FinishENOENT(w) \/ FinishRaise(w)) /\ w = Fuse
    BY <1>8 DEF WorkerStep, GetUrl, Fetch, DownloadFails, Write, Leave, RemoveEntry,
                Finish, FinishENOENT, FinishRaise
  <2>2. rd.pc = "sync" /\ rd.status = "none" /\ rd.file \in Files /\ rd.len \in Lengths
    BY <2>1 DEF ReadInv, TypeInv, ReadShape
  <2>3. Unanswered(rd)
    BY <2>2 DEF Unanswered
  <2>4. CASE Finish(w)
    <3>1. /\ Unanswered(rd') /\ rd'.file = rd.file /\ rd'.off = rd.off /\ rd'.len = rd.len
      BY <1>0, <2>1, <2>2, <2>4 DEF Finish, Unanswered, Request
    <3> QED BY <2>3, <3>1, Unseen
  <2>5. CASE FinishENOENT(w)
    <3>1. /\ rd'.pc = "reply" /\ rd'.status = "ENOENT"
          /\ rd'.file = rd.file /\ rd'.off = rd.off /\ rd'.len = rd.len
      BY <1>0, <2>1, <2>5 DEF FinishENOENT, Request
    <3> QED BY <1>0, <2>2, <2>3, <3>1, AnswerSeen
  <2>6. CASE FinishRaise(w)
    <3>1. /\ rd'.pc = "dead" /\ rd'.status = "none"
          /\ rd'.file = rd.file /\ rd'.off = rd.off /\ rd'.len = rd.len
      BY <1>0, <2>1, <2>2, <2>6 DEF FinishRaise, Request
    <3>2. Seen(rd') = [state |-> "dead", file |-> rd.file, off |-> rd.off, len |-> rd.len,
                       answer |-> "none", bytes |-> NoPiece]
      BY <3>1 DEF Seen
    <3>3. Seen(rd) = [state |-> "asked", file |-> rd.file, off |-> rd.off, len |-> rd.len,
                      answer |-> "none", bytes |-> NoPiece]
      BY <2>3, SeenUnanswered
    <3> QED BY <3>2, <3>3 DEF Promise!Next, Promise!Die
  <2> QED BY <2>1, <2>4, <2>5, <2>6
<1> QED
  BY <1>1, <1>2, <1>3, <1>4, <1>5, <1>6, <1>7, <1>8 DEF Next, ReadStep, Release, vars

(* The read path implements what ReadService promises, for files of         *)
(* different names and reads of at most half a chunk: every answer without  *)
(* a torn chunk has exactly the bytes of its range, and no step of a        *)
(* download, of a clean-up or of a restart is seen otherwise.               *)
THEOREM ReadsImplementPromise ==
  ASSUME UniqueNames, ShortReads PROVE Spec => ReadsAsPromised
<1>1. Init => ReadInv /\ Promise!Init
  <2> SUFFICES ASSUME Init PROVE ReadInv /\ Promise!Init
    OBVIOUS
  <2>1. WritersPartial /\ DiskNamed
    BY DEF Init, WritersPartial, Writers, DiskNamed, Present, NoJob, Absent
  <2>2. FirstPieceExact /\ UntornReadExact
    BY DEF Init, FirstPieceExact, UntornReadExact, NoRead
  <2>3. Promise!Init
    BY SeenIdle DEF Init, Promise!Init
  <2> QED BY <2>1, <2>2, <2>3, InitTypeInv DEF ReadInv
<1>2. ReadInv /\ [Next]_vars => ReadInv'
  <2> SUFFICES ASSUME ReadInv, [Next]_vars PROVE ReadInv'
    OBVIOUS
  <2>1. TypeInv' /\ WritersPartial' /\ DiskNamed'
    BY NextTypeInv, NextWritersPartial, NextDiskNamed DEF ReadInv
  <2>2. FirstPieceExact' /\ UntornReadExact'
    BY NextReadExact DEF ReadInv
  <2> QED BY <2>1, <2>2 DEF ReadInv
<1>3. ReadInv /\ ReadInv' /\ [Next]_vars => [Promise!Next]_(Seen(rd))
  BY NextPromised DEF ReadInv
<1> QED BY <1>1, <1>2, <1>3, PTL DEF Spec, ReadsAsPromised, Promise!Spec
=============================================================================
