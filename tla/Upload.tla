------------------------------- MODULE Upload -------------------------------
(***************************************************************************)
(* The write path of the drive: create, write and release of new files     *)
(* (src/fuse_degoo.py) and the upload they call (src/degoo/__init__.py).    *)
(* A file that is created gets a local file in the temporary directory,    *)
(* under its base name.  `write` appends to it, and uploads the local file *)
(* when the length of a write differs from that of the first write on the  *)
(* same descriptor: this is how the code guesses the end of a copy.        *)
(* `release` removes the local file.                                       *)
(*                                                                         *)
(* Handlers do not interleave, so each one is an action.  The content of a *)
(* file is the created file it belongs to and a number of bytes, since     *)
(* copies write in order.                                                  *)
(***************************************************************************)
EXTENDS Integers, FiniteSets

CONSTANTS
  Copies,      \* BOUND: the files that are created, one element per `create`
  NoCopy,      \* not a copy
  Dirs,        \* folders of the drive
  Names,       \* base names
  Fds,         \* BOUND: file descriptors; the system gives them out again
  Blocks,      \* lengths of writes
  MaxSize,     \* BOUND: bytes of a file
  Matched,     \* [Names -> SUBSET Names]: what the glob of _clear_files matches
  Faults,      \* what can go wrong in an upload
  Reopens,     \* whether existing files are opened and written to
  Maintains    \* whether the maintenance thread runs (--plex-split-file)

ASSUME UploadAssumption ==
  /\ NoCopy \notin Copies
  /\ Dirs # {} /\ Names # {} /\ Fds # {}
  /\ Blocks \subseteq Nat \ {0}
  /\ MaxSize \in Nat
  /\ Matched \in [Names -> SUBSET Names]
  /\ Faults \subseteq {"DegooError", "late", "raise", "nourl", "noattr"}
  /\ Reopens \in BOOLEAN
  /\ Maintains \in BOOLEAN

VARIABLES
  alive,         \* the main loop runs
  temp,          \* the temporary directory: the copy whose file has a name
  copy,          \* the created files
  bufferLength,  \* _fd_buffer_length; 0 where there is no entry
  remote,        \* the drive: what is stored under a folder and a name
  sent,          \* what the last upload made for a copy has stored
  told           \* the copies with a message in the log or a write that failed

vars == <<alive, temp, copy, bufferLength, remote, sent, told>>

(* Some bytes from the beginning of what was written for a copy. *)
Data == [copy : Copies \cup {NoCopy}, n : 0..MaxSize]

NoData == [copy |-> NoCopy, n |-> 0]

(* `odd` is about the program that writes: its last write had not the     *)
(* length of its first one.  `crowded`: another copy of the same name was *)
(* open at the same time, or its local file was removed under it.         *)
Copy == [state : {"unborn", "open", "closed"}, dir : Dirs, name : Names, fd : Fds,
         written : 0..MaxSize, first : Blocks \cup {0}, odd : BOOLEAN, crowded : BOOLEAN]

Open == { c \in Copies : copy[c].state = "open" }

Unborn == [state |-> "unborn", dir |-> CHOOSE d \in Dirs : TRUE,
           name |-> CHOOSE n \in Names : TRUE, fd |-> CHOOSE fd \in Fds : TRUE,
           written |-> 0, first |-> 0, odd |-> FALSE, crowded |-> FALSE]

Init ==
  /\ alive = TRUE
  /\ temp = [n \in Names |-> NoCopy]
  /\ copy = [c \in Copies |-> Unborn]
  /\ bufferLength = [fd \in Fds |-> 0]
  /\ remote = [p \in Dirs \X Names |-> NoData]
  /\ sent = [c \in Copies |-> NoData]
  /\ told = {}

(* create: a local file of this name is removed first.  The parent has a *)
(* path: the kernel found it through the drive.                           *)
Create(c, d, n) ==
  LET same == { b \in Open : copy[b].name = n } IN
    /\ alive
    /\ copy[c].state = "unborn"
    /\ \E fd \in Fds \ { copy[b].fd : b \in Open } :
         copy' = [b \in Copies |->
                    IF b = c
                    THEN [Unborn EXCEPT !.state = "open", !.dir = d, !.name = n, !.fd = fd,
                                        !.crowded = same # {}]
                    ELSE [copy[b] EXCEPT !.crowded = @ \/ b \in same]]
    /\ temp' = [temp EXCEPT ![n] = c]
    /\ UNCHANGED <<alive, bufferLength, remote, sent, told>>

-----------------------------------------------------------------------------
(***************************************************************************)
(* The upload of a local file for copy c, with what has been written of    *)
(* every file: put, put_file and the calls of the API it makes.            *)
(***************************************************************************)
(* MUTANT: the folder is looked up again. *)
AnyTarget(c) == <<CHOOSE d \in Dirs : TRUE, copy[c].name>>

(* The folder is the one that _degoo_path has kept since `create`. *)
Target(c) == <<copy[c].dir, copy[c].name>>

(* The item is created on the drive: what is stored is the file that has *)
(* the name in the temporary directory now.                               *)
Store(c, written) ==
  LET data == [copy |-> temp[copy[c].name], n |-> written[temp[copy[c].name]]] IN
    /\ remote' = [remote EXCEPT ![Target(c)] = data]
    /\ sent' = [sent EXCEPT ![c] = data]

(* All four steps succeed.  There may be no url (logged), and the new item *)
(* may be missing in the tree of the drive (FUSEError, the write fails).    *)
PutSucceeds(c, written) ==
  /\ temp[copy[c].name] # NoCopy
  /\ Store(c, written)
  /\ \/ UNCHANGED told
     \/ Faults \cap {"nourl", "noattr"} # {} /\ told' = told \cup {c}
  /\ UNCHANGED alive

(* DegooError: the write succeeds all the same.  When getOverlay4 fails the *)
(* item has been created.                                                    *)
PutFails(c, written) ==
  /\ temp[copy[c].name] # NoCopy
  /\ \/ "DegooError" \in Faults /\ UNCHANGED <<remote, sent>>
     \/ "late" \in Faults /\ Store(c, written)
  /\ told' = told \cup {c}
  /\ UNCHANGED alive

(* No local file: `put` returns None, which is not a triple.  Or another *)
(* exception that is not a DegooError, before or after the item is made  *)
(* (a name that is missing in its folder is a KeyError).                  *)
PutRaises(c, written) ==
  /\ \/ temp[copy[c].name] = NoCopy /\ UNCHANGED <<remote, sent>>
     \/ "raise" \in Faults /\ UNCHANGED <<remote, sent>>
     \/ "raise" \in Faults /\ temp[copy[c].name] # NoCopy /\ Store(c, written)
  /\ alive' = FALSE
  /\ UNCHANGED told

Write(c, length) ==
  LET r       == copy[c]
      first   == IF bufferLength[r.fd] = 0 THEN length ELSE bufferLength[r.fd]
      begun   == IF r.first = 0 THEN length ELSE r.first
      written == [b \in Copies |-> IF b = c THEN r.written + length ELSE copy[b].written]
  IN /\ alive
     /\ r.state = "open"
     /\ r.written + length <= MaxSize
     /\ copy' = [copy EXCEPT ![c].written = @ + length, ![c].first = begun,
                             ![c].odd = length # begun]
     /\ bufferLength' = [bufferLength EXCEPT ![r.fd] = first]
     /\ IF length # first
        THEN PutSucceeds(c, written) \/ PutFails(c, written) \/ PutRaises(c, written)
        ELSE UNCHANGED <<alive, remote, sent, told>>
     /\ UNCHANGED temp

(* A handle of `open` is the number of the item: os.lseek on it raises. *)
WriteExisting ==
  /\ alive
  /\ Reopens
  /\ alive' = FALSE
  /\ UNCHANGED <<temp, copy, bufferLength, remote, sent, told>>

(* MUTANT: the length of the first write stays with the descriptor. *)
ForgetNothing(fd) == bufferLength

(* MUTANT: an entry of -1 takes the place of none. *)
ForgetToMinusOne(fd) == [bufferLength EXCEPT ![fd] = -1]

ForgetLength(fd) == [bufferLength EXCEPT ![fd] = 0]

(* MUTANT: the local file stays. *)
KeepTemp(name) == temp

RemoveTemp(name) == [temp EXCEPT ![name] = NoCopy]

(* release of a created file: the local file of its name is removed, which *)
(* raises when there is none.                                               *)
Release(c) ==
  /\ alive
  /\ copy[c].state = "open"
  /\ copy' = [copy EXCEPT ![c].state = "closed"]
  /\ bufferLength' = ForgetLength(copy[c].fd)
  /\ temp' = RemoveTemp(copy[c].name)
  /\ alive' = (temp[copy[c].name] # NoCopy)
  /\ UNCHANGED <<remote, sent, told>>

(* Local files are removed while they are in use; who owns them is marked. *)
Vanish(names) ==
  /\ temp' = [n \in Names |-> IF n \in names THEN NoCopy ELSE temp[n]]
  /\ copy' = [c \in Copies |->
                IF c \in Open /\ copy[c].name \in names
                THEN [copy[c] EXCEPT !.crowded = TRUE] ELSE copy[c]]
  /\ UNCHANGED <<alive, bufferLength, remote, sent, told>>

(* release of a file that was read: _clear_files takes every name that the *)
(* glob of its stem matches.                                                *)
ReleaseRead(n) == alive /\ Vanish(Matched[n])

(* The maintenance thread: a file that nobody has read for two hours. *)
Maintenance(n) == Maintains /\ temp[n] # NoCopy /\ Vanish({n})

Next ==
  \/ \E c \in Copies :
       \/ \E d \in Dirs, n \in Names : Create(c, d, n)
       \/ \E length \in Blocks : Write(c, length)
       \/ Release(c)
  \/ WriteExisting
  \/ \E n \in Names : ReleaseRead(n) \/ Maintenance(n)

Spec == Init /\ [][Next]_vars

-----------------------------------------------------------------------------
(***************************************************************************)
(* Properties.                                                             *)
(***************************************************************************)
(* Every variable has its type. *)
TypeOK ==
  /\ alive \in BOOLEAN
  /\ temp \in [Names -> Copies \cup {NoCopy}]
  /\ copy \in [Copies -> Copy]
  /\ bufferLength \in [Fds -> Blocks \cup {0}]
  /\ remote \in [Dirs \X Names -> Data]
  /\ sent \in [Copies -> Data]
  /\ told \subseteq Copies

(* A copy that ends with a write of another length than its first is on    *)
(* the drive with all its bytes when it is released, unless the log says   *)
(* otherwise, the loop has died, or another file took its local name: the  *)
(* guess of `write` works for cp, on descriptors that were used before.    *)
OddTailSent ==
  \A c \in Copies :
    copy[c].state = "closed" /\ copy[c].odd /\ c \notin told /\ ~copy[c].crowded =>
      sent[c] = [copy |-> c, n |-> copy[c].written]

(* What is stored under a folder and a name was written for this folder and *)
(* name, when no copies of one name were open together.                      *)
RemoteFromOwn ==
  \A d \in Dirs, n \in Names :
    LET c == remote[<<d, n>>].copy IN
      c # NoCopy /\ ~copy[c].crowded =>
        /\ copy[c].dir = d
        /\ copy[c].name = n
        /\ remote[<<d, n>>].n <= copy[c].written

(* A local file belongs to a copy that is open: nothing is left in the      *)
(* temporary directory when everything is closed and the loop still lives.  *)
TempOfOpen == \A n \in Names : temp[n] # NoCopy => temp[n] \in Open

(* A file that was copied to the drive is there when it is released, or the *)
(* log has a message, or a write has failed.                                 *)
SentOrWarned ==
  \A c \in Copies :
    copy[c].state = "closed" /\ copy[c].written > 0 =>
      sent[c] = [copy |-> c, n |-> copy[c].written] \/ c \in told

(* The handlers raise nothing but FUSEError: the loop lives. *)
OnlyFUSEError == alive
=============================================================================
