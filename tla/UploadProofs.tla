---------------------------- MODULE UploadProofs ----------------------------
(***************************************************************************)
(* TLAPS proofs about Upload, for any number of copies, folders, names and *)
(* descriptors, all faults, and every removal of local files.              *)
(***************************************************************************)
EXTENDS Upload, TLAPS

(* A copy that is not born yet is a copy. *)
LEMMA UnbornType ==
  /\ Unborn \in Copy /\ Unborn.state = "unborn"
  /\ Unborn.odd = FALSE /\ Unborn.first = 0 /\ Unborn.written = 0
BY UploadAssumption DEF Unborn, Copy

(* What an upload stores are bytes of the file that has the local name. *)
LEMMA StoreType ==
  ASSUME TypeOK, NEW c \in Copies, NEW written \in [Copies -> 0..MaxSize],
         temp[copy[c].name] # NoCopy, Store(c, written)
  PROVE  LET data == [copy |-> temp[copy[c].name], n |-> written[temp[copy[c].name]]]
         IN /\ data \in Data /\ data.copy \in Copies
            /\ Target(c) = <<copy[c].dir, copy[c].name>> /\ Target(c) \in Dirs \X Names
            /\ remote' = [remote EXCEPT ![Target(c)] = data]
            /\ sent' = [sent EXCEPT ![c] = data]
<1>1. copy[c].name \in Names /\ copy[c].dir \in Dirs
  BY DEF TypeOK, Copy
<1>2. temp[copy[c].name] \in Copies
  BY <1>1 DEF TypeOK
<1> QED BY <1>1, <1>2 DEF Data, Store, Target

(* The outcome of an upload, whichever of its calls fails. *)
LEMMA PutType ==
  ASSUME TypeOK, NEW c \in Copies, NEW written \in [Copies -> 0..MaxSize],
         PutSucceeds(c, written) \/ PutFails(c, written) \/ PutRaises(c, written)
  PROVE  /\ told' \in {told, told \cup {c}}
         /\ alive' \in {alive, FALSE}
         /\ \/ UNCHANGED <<remote, sent>> /\ (c \in told' \/ ~alive')
            \/ temp[copy[c].name] # NoCopy /\ Store(c, written)
BY DEF PutSucceeds, PutFails, PutRaises

(* A handler changes the copy it is called for, and marks others. *)
LEMMA WriteType ==
  ASSUME TypeOK, NEW c \in Copies, NEW length \in Blocks, Write(c, length)
  PROVE  /\ alive /\ copy[c].state = "open" /\ UNCHANGED temp
         /\ copy' \in [Copies -> Copy]
         /\ \A b \in Copies \ {c} : copy'[b] = copy[b]
         /\ copy'[c].state = "open" /\ copy'[c].dir = copy[c].dir /\ copy'[c].name = copy[c].name
         /\ copy'[c].fd = copy[c].fd /\ copy'[c].crowded = copy[c].crowded
         /\ copy'[c].written >= copy[c].written
         /\ copy'[c].first = (IF copy[c].first = 0 THEN length ELSE copy[c].first)
         /\ copy'[c].odd = (length # copy'[c].first)
         /\ bufferLength' = [bufferLength EXCEPT ![copy[c].fd] =
                               IF bufferLength[copy[c].fd] = 0 THEN length ELSE bufferLength[copy[c].fd]]
<1>1. copy[c] \in Copy /\ length \in Nat /\ length > 0 /\ MaxSize \in Nat
  BY UploadAssumption DEF TypeOK
<1>2. copy[c].written \in Nat /\ copy[c].written + length \in 0..MaxSize
  BY <1>1 DEF Write, Copy
<1>3. (IF copy[c].first = 0 THEN length ELSE copy[c].first) \in Blocks \cup {0}
  BY <1>1 DEF Copy
<1> DEFINE begun == IF copy[c].first = 0 THEN length ELSE copy[c].first
<1>4. copy' = [copy EXCEPT ![c].written = @ + length, ![c].first = begun, ![c].odd = length # begun]
  BY DEF Write
<1> HIDE DEF begun
<1>5. copy'[c] = [copy[c] EXCEPT !.written = @ + length, !.first = begun, !.odd = length # begun]
  BY <1>4 DEF TypeOK
<1>6. begun \in Blocks \cup {0}
  BY <1>3 DEF begun
<1>7. copy'[c] \in Copy
  BY <1>1, <1>2, <1>5, <1>6 DEF Copy
<1>8. copy' \in [Copies -> Copy]
  BY <1>4, <1>7 DEF TypeOK
<1>9. \A b \in Copies \ {c} : copy'[b] = copy[b]
  BY <1>4 DEF TypeOK
<1>10. /\ copy'[c].state = copy[c].state /\ copy'[c].dir = copy[c].dir
       /\ copy'[c].name = copy[c].name /\ copy'[c].fd = copy[c].fd
       /\ copy'[c].crowded = copy[c].crowded /\ copy'[c].first = begun
       /\ copy'[c].odd = (length # begun) /\ copy'[c].written >= copy[c].written
  BY <1>1, <1>2, <1>5 DEF Copy
<1>11. /\ alive /\ copy[c].state = "open" /\ UNCHANGED temp
       /\ bufferLength' = [bufferLength EXCEPT ![copy[c].fd] =
                             IF bufferLength[copy[c].fd] = 0 THEN length ELSE bufferLength[copy[c].fd]]
  BY DEF Write
<1> QED BY <1>8, <1>9, <1>10, <1>11 DEF begun

(* A copy another handler may have marked, but not changed. *)
Kept(b) ==
  /\ copy'[b].state = copy[b].state /\ copy'[b].dir = copy[b].dir
  /\ copy'[b].name = copy[b].name /\ copy'[b].fd = copy[b].fd
  /\ copy'[b].written = copy[b].written /\ copy'[b].first = copy[b].first
  /\ copy'[b].odd = copy[b].odd

(* What create does: others of the name are marked. *)
Created(c, d, n) ==
  /\ copy[c].state = "unborn" /\ temp' = [temp EXCEPT ![n] = c]
  /\ UNCHANGED <<alive, bufferLength, remote, sent, told>>
  /\ copy' \in [Copies -> Copy]
  /\ copy'[c].state = "open" /\ copy'[c].dir = d /\ copy'[c].name = n
  /\ copy'[c].first = 0 /\ copy'[c].odd = FALSE
  /\ \A b \in Open : copy[b].fd # copy'[c].fd
  /\ copy'[c].crowded <=> (\E b \in Open : copy[b].name = n)
  /\ \A b \in Copies \ {c} :
       Kept(b) /\ (copy'[b].crowded <=> (copy[b].crowded \/ (b \in Open /\ copy[b].name = n)))

LEMMA CreateType ==
  ASSUME TypeOK, NEW c \in Copies, NEW d \in Dirs, NEW n \in Names, Create(c, d, n)
  PROVE  Created(c, d, n)
<1> DEFINE same == { b \in Open : copy[b].name = n }
<1>1. PICK fd \in Fds \ { copy[b].fd : b \in Open } :
        copy' = [b \in Copies |->
                   IF b = c
                   THEN [Unborn EXCEPT !.state = "open", !.dir = d, !.name = n, !.fd = fd,
                                       !.crowded = same # {}]
                   ELSE [copy[b] EXCEPT !.crowded = @ \/ b \in same]]
  BY DEF Create
<1>2. /\ copy'[c] = [Unborn EXCEPT !.state = "open", !.dir = d, !.name = n, !.fd = fd,
                                   !.crowded = same # {}]
      /\ \A b \in Copies \ {c} : copy'[b] = [copy[b] EXCEPT !.crowded = @ \/ b \in same]
      /\ DOMAIN copy' = Copies
      /\ copy' = [b \in Copies |-> copy'[b]]
  BY <1>1
<1>3. (same # {}) \in BOOLEAN /\ (same # {}) <=> (\E b \in Open : copy[b].name = n)
  OBVIOUS
<1>4. /\ copy'[c] \in Copy
      /\ copy'[c].state = "open" /\ copy'[c].dir = d /\ copy'[c].name = n
      /\ copy'[c].fd = fd /\ copy'[c].first = 0 /\ copy'[c].odd = FALSE
      /\ copy'[c].crowded <=> (same # {})
  <2> HIDE DEF same
  <2> QED BY <1>2, UnbornType DEF Copy
<1>5. ASSUME NEW b \in Copies \ {c}
      PROVE  /\ copy'[b] \in Copy /\ Kept(b)
             /\ copy'[b].crowded <=> (copy[b].crowded \/ b \in same)
  <2>1. copy'[b] = [copy[b] EXCEPT !.crowded = @ \/ b \in same] /\ copy[b] \in Copy
    BY <1>2 DEF TypeOK
  <2> HIDE DEF same
  <2> QED BY <2>1 DEF Copy, Kept
<1>6. copy' \in [Copies -> Copy]
  BY <1>2, <1>4, <1>5
<1>7. \A b \in Open : copy[b].fd # copy'[c].fd
  BY <1>1, <1>4
<1>8. /\ copy[c].state = "unborn" /\ temp' = [temp EXCEPT ![n] = c]
      /\ UNCHANGED <<alive, bufferLength, remote, sent, told>>
  BY DEF Create
<1> QED BY <1>3, <1>4, <1>5, <1>6, <1>7, <1>8 DEF Created

LEMMA ReleaseType ==
  ASSUME TypeOK, NEW c \in Copies, Release(c)
  PROVE  /\ alive /\ copy[c].state = "open" /\ alive' \in BOOLEAN
         /\ UNCHANGED <<remote, sent, told>>
         /\ copy' \in [Copies -> Copy]
         /\ \A b \in Copies \ {c} : copy'[b] = copy[b]
         /\ copy'[c] = [copy[c] EXCEPT !.state = "closed"]
         /\ temp' = [temp EXCEPT ![copy[c].name] = NoCopy]
         /\ bufferLength' = [bufferLength EXCEPT ![copy[c].fd] = 0]
BY DEF TypeOK, Release, Copy, RemoveTemp, ForgetLength

LEMMA VanishType ==
  ASSUME TypeOK, NEW names \in SUBSET Names, Vanish(names)
  PROVE  /\ UNCHANGED <<alive, bufferLength, remote, sent, told>>
         /\ copy' \in [Copies -> Copy] /\ temp' \in [Names -> Copies \cup {NoCopy}]
         /\ \A n \in Names : temp'[n] = IF n \in names THEN NoCopy ELSE temp[n]
         /\ \A b \in Copies :
              /\ Kept(b)
              /\ copy'[b].crowded <=> (copy[b].crowded \/ (b \in Open /\ copy[b].name \in names))
<1>1. /\ temp' = [n \in Names |-> IF n \in names THEN NoCopy ELSE temp[n]]
      /\ copy' = [b \in Copies |->
                    IF b \in Open /\ copy[b].name \in names
                    THEN [copy[b] EXCEPT !.crowded = TRUE] ELSE copy[b]]
      /\ UNCHANGED <<alive, bufferLength, remote, sent, told>>
  BY DEF Vanish
<1>2. temp' \in [Names -> Copies \cup {NoCopy}]
  BY <1>1 DEF TypeOK
<1>3. ASSUME NEW b \in Copies
      PROVE  /\ copy'[b] \in Copy /\ Kept(b)
             /\ copy'[b].crowded <=> (copy[b].crowded \/ (b \in Open /\ copy[b].name \in names))
  <2>1. copy[b] \in Copy
    BY DEF TypeOK
  <2>2. CASE b \in Open /\ copy[b].name \in names
    BY <1>1, <2>1, <2>2 DEF Copy, Kept
  <2>3. CASE ~(b \in Open /\ copy[b].name \in names)
    <3>1. copy'[b] = copy[b]
      BY <1>1, <2>3
    <3> QED BY <2>1, <2>3, <3>1 DEF Copy, Kept
  <2> QED BY <2>2, <2>3
<1> QED BY <1>1, <1>2, <1>3
-----------------------------------------------------------------------------
(* Types. *)
LEMMA InitType == Init => TypeOK
BY UnbornType, UploadAssumption DEF Init, TypeOK, Data, NoData

LEMMA NextType == TypeOK /\ [Next]_vars => TypeOK'
<1> SUFFICES ASSUME TypeOK, [Next]_vars PROVE TypeOK'
  OBVIOUS
<1>1. ASSUME NEW c \in Copies, NEW d \in Dirs, NEW n \in Names, Create(c, d, n) PROVE TypeOK'
  <2>0. Created(c, d, n)
    BY <1>1, CreateType
  <2>1. /\ temp' = [temp EXCEPT ![n] = c] /\ copy' \in [Copies -> Copy]
        /\ UNCHANGED <<alive, bufferLength, remote, sent, told>>
    BY <2>0 DEF Created
  <2> QED BY <2>1 DEF TypeOK
<1>2. ASSUME NEW c \in Copies, NEW length \in Blocks, Write(c, length) PROVE TypeOK'
  <2>1. copy' \in [Copies -> Copy] /\ UNCHANGED temp
    BY <1>2, WriteType
  <2>2. bufferLength' \in [Fds -> Blocks \cup {0}]
    BY <1>2, WriteType DEF TypeOK
  <2>3. alive' \in BOOLEAN /\ told' \subseteq Copies
        /\ remote' \in [Dirs \X Names -> Data] /\ sent' \in [Copies -> Data]
    <3> DEFINE written == [b \in Copies |-> IF b = c THEN copy[c].written + length ELSE copy[b].written]
    <3>1. written \in [Copies -> 0..MaxSize]
      <4>1. length \in Nat /\ MaxSize \in Nat /\ \A b \in Copies : copy[b].written \in 0..MaxSize
        BY UploadAssumption DEF TypeOK, Copy
      <4>2. copy[c].written + length \in 0..MaxSize
        BY <1>2, <4>1 DEF Write
      <4> QED BY <4>1, <4>2
    <3>2. \/ PutSucceeds(c, written) \/ PutFails(c, written) \/ PutRaises(c, written)
          \/ UNCHANGED <<alive, remote, sent, told>>
      BY <1>2 DEF Write
    <3> HIDE DEF written
    <3>3. CASE UNCHANGED <<alive, remote, sent, told>>
      BY <3>3 DEF TypeOK
    <3>4. CASE PutSucceeds(c, written) \/ PutFails(c, written) \/ PutRaises(c, written)
      <4>1. alive' \in BOOLEAN /\ told' \subseteq Copies
        BY <3>1, <3>4, PutType DEF TypeOK
      <4>2. CASE UNCHANGED <<remote, sent>>
        BY <4>1, <4>2 DEF TypeOK
      <4>3. CASE temp[copy[c].name] # NoCopy /\ Store(c, written)
        <5> DEFINE data == [copy |-> temp[copy[c].name], n |-> written[temp[copy[c].name]]]
        <5>1. /\ data \in Data /\ Target(c) \in Dirs \X Names
              /\ remote' = [remote EXCEPT ![Target(c)] = data]
              /\ sent' = [sent EXCEPT ![c] = data]
          BY <3>1, <4>3, StoreType
        <5> HIDE DEF data
        <5> QED BY <4>1, <5>1 DEF TypeOK
      <4> QED BY <3>1, <3>4, <4>2, <4>3, PutType
    <3> QED BY <3>2, <3>3, <3>4
  <2> QED BY <2>1, <2>2, <2>3 DEF TypeOK
<1>3. ASSUME NEW c \in Copies, Release(c) PROVE TypeOK'
  <2>1. copy[c].name \in Names /\ copy[c].fd \in Fds
    BY DEF TypeOK, Copy
  <2> QED BY <1>3, <2>1, ReleaseType DEF TypeOK
<1>4. CASE WriteExisting
  BY <1>4 DEF WriteExisting, TypeOK
<1>5. ASSUME NEW n \in Names, ReleaseRead(n) \/ Maintenance(n) PROVE TypeOK'
  <2>1. \E names \in SUBSET Names : Vanish(names)
    BY <1>5, UploadAssumption DEF ReleaseRead, Maintenance
  <2> QED BY <2>1, VanishType DEF TypeOK
<1>6. CASE UNCHANGED vars
  BY <1>6 DEF vars, TypeOK
<1> QED BY <1>1, <1>2, <1>3, <1>4, <1>5, <1>6 DEF Next

(* Every variable keeps its type: no write makes a file longer than it may *)
(* be, and what is kept for a descriptor is the length of a write.         *)
THEOREM UploadTypeCorrect == Spec => []TypeOK
BY InitType, NextType, PTL DEF Spec
-----------------------------------------------------------------------------
(* Whose the local files are: what the properties rest on.                 *)
(*                                                                         *)
(* A local file belongs to an open copy of its name, and an open copy that *)
(* shares its name with no other has its local file.                       *)
LocalFiles ==
  /\ \A n \in Names : temp[n] # NoCopy => temp[n] \in Open /\ copy[temp[n]].name = n
  /\ \A b, c \in Open : b # c /\ copy[b].name = copy[c].name => copy[b].crowded
  /\ \A c \in Open : ~copy[c].crowded => temp[copy[c].name] = c

LEMMA InitLocal == Init => LocalFiles
BY UnbornType DEF Init, LocalFiles, Open

LEMMA NextLocal == TypeOK /\ LocalFiles /\ [Next]_vars => LocalFiles'
<1> SUFFICES ASSUME TypeOK, LocalFiles, [Next]_vars PROVE LocalFiles'
  OBVIOUS
<1>0. /\ temp \in [Names -> Copies \cup {NoCopy}] /\ NoCopy \notin Copies
      /\ \A c \in Copies : copy[c] \in Copy /\ copy[c].name \in Names
                          /\ copy[c].crowded \in BOOLEAN
  BY UploadAssumption DEF TypeOK, Copy
<1>1. ASSUME NEW c \in Copies, NEW d \in Dirs, NEW n \in Names, Create(c, d, n) PROVE LocalFiles'
  <2>0. Created(c, d, n)
    BY <1>1, CreateType
  <2>1. /\ copy[c].state = "unborn" /\ temp' = [temp EXCEPT ![n] = c]
        /\ copy'[c].state = "open" /\ copy'[c].name = n
        /\ copy'[c].crowded <=> (\E b \in Open : copy[b].name = n)
        /\ \A b \in Copies \ {c} :
             /\ copy'[b].state = copy[b].state /\ copy'[b].name = copy[b].name
             /\ copy'[b].crowded <=> (copy[b].crowded \/ (b \in Open /\ copy[b].name = n))
    BY <2>0 DEF Created, Kept
  <2>2. Open' = Open \cup {c} /\ c \notin Open
    BY <2>1 DEF Open
  <2>3. \A m \in Names : temp'[m] # NoCopy => temp'[m] \in Open' /\ copy'[temp'[m]].name = m
    <3> SUFFICES ASSUME NEW m \in Names, temp'[m] # NoCopy
                 PROVE  temp'[m] \in Open' /\ copy'[temp'[m]].name = m
      OBVIOUS
    <3>1. CASE m = n
      BY <1>0, <2>1, <2>2, <3>1
    <3>2. CASE m # n
      <4>1. temp'[m] = temp[m] /\ temp[m] \in Open /\ copy[temp[m]].name = m
        BY <1>0, <2>1, <3>2 DEF LocalFiles
      <4> QED BY <2>1, <2>2, <4>1 DEF Open
    <3> QED BY <3>1, <3>2
  <2>4. \A a, b \in Open' : a # b /\ copy'[a].name = copy'[b].name => copy'[a].crowded
    BY <1>0, <2>1, <2>2 DEF LocalFiles, Open
  <2>5. \A b \in Open' : ~copy'[b].crowded => temp'[copy'[b].name] = b
    BY <1>0, <2>1, <2>2 DEF LocalFiles, Open
  <2> QED BY <2>3, <2>4, <2>5 DEF LocalFiles
<1>2. ASSUME NEW c \in Copies, NEW length \in Blocks, Write(c, length) PROVE LocalFiles'
  <2>1. /\ UNCHANGED temp
        /\ \A b \in Copies : /\ copy'[b].state = copy[b].state /\ copy'[b].name = copy[b].name
                              /\ copy'[b].crowded = copy[b].crowded
    BY <1>2, WriteType
  <2>2. Open' = Open
    BY <2>1 DEF Open
  <2> QED BY <2>1, <2>2 DEF LocalFiles, Open
<1>3. ASSUME NEW c \in Copies, Release(c) PROVE LocalFiles'
  <2>1. /\ copy[c].state = "open" /\ copy'[c] = [copy[c] EXCEPT !.state = "closed"]
        /\ \A b \in Copies \ {c} : copy'[b] = copy[b]
        /\ temp' = [temp EXCEPT ![copy[c].name] = NoCopy]
    BY <1>3, ReleaseType
  <2>2. /\ copy'[c].state = "closed" /\ copy'[c].name = copy[c].name
        /\ copy'[c].crowded = copy[c].crowded
    BY <1>0, <2>1 DEF Copy
  <2>3. Open' = Open \ {c} /\ c \in Open
    <3>1. copy[c].state = "open" /\ \A b \in Copies \ {c} : copy'[b] = copy[b]
      BY <2>1
    <3> QED BY <2>2, <3>1 DEF Open
  <2>4. \A n \in Names : temp'[n] # NoCopy => temp'[n] \in Open' /\ copy'[temp'[n]].name = n
    <3> SUFFICES ASSUME NEW n \in Names, temp'[n] # NoCopy
                 PROVE  temp'[n] \in Open' /\ copy'[temp'[n]].name = n
      OBVIOUS
    <3>1. n # copy[c].name /\ temp'[n] = temp[n]
      BY <1>0, <2>1
    <3>2. temp[n] \in Open /\ copy[temp[n]].name = n
      BY <3>1 DEF LocalFiles
    <3> QED BY <2>1, <2>3, <3>1, <3>2 DEF Open
  <2>5. \A a, b \in Open' : a # b /\ copy'[a].name = copy'[b].name => copy'[a].crowded
    BY <2>1, <2>3 DEF LocalFiles, Open
  <2>6. \A b \in Open' : ~copy'[b].crowded => temp'[copy'[b].name] = b
    <3> SUFFICES ASSUME NEW b \in Open', ~copy'[b].crowded PROVE temp'[copy'[b].name] = b
      OBVIOUS
    <3>1. b \in Open /\ b # c /\ copy'[b] = copy[b] /\ b \in Copies
      BY <2>1, <2>3 DEF Open
    <3>2. copy[b].name # copy[c].name /\ temp[copy[b].name] = b
      BY <2>3, <3>1 DEF LocalFiles
    <3> QED BY <1>0, <2>1, <3>1, <3>2
  <2> QED BY <2>4, <2>5, <2>6 DEF LocalFiles
<1>4. CASE WriteExisting \/ UNCHANGED vars
  BY <1>4 DEF WriteExisting, LocalFiles, Open, vars
<1>5. ASSUME NEW n \in Names, ReleaseRead(n) \/ Maintenance(n) PROVE LocalFiles'
  <2>1. PICK names \in SUBSET Names : Vanish(names)
    BY <1>5, UploadAssumption DEF ReleaseRead, Maintenance
  <2>2. /\ \A m \in Names : temp'[m] = IF m \in names THEN NoCopy ELSE temp[m]
        /\ \A b \in Copies :
             /\ copy'[b].state = copy[b].state /\ copy'[b].name = copy[b].name
             /\ copy'[b].crowded <=> (copy[b].crowded \/ (b \in Open /\ copy[b].name \in names))
    BY <2>1, VanishType DEF Kept
  <2>3. Open' = Open
    BY <2>2 DEF Open
  <2>4. \A m \in Names : temp'[m] # NoCopy => temp'[m] \in Open' /\ copy'[temp'[m]].name = m
    BY <2>2, <2>3 DEF LocalFiles, Open
  <2>5. \A a, b \in Open' : a # b /\ copy'[a].name = copy'[b].name => copy'[a].crowded
    BY <2>2, <2>3 DEF LocalFiles, Open
  <2>6. \A b \in Open' : ~copy'[b].crowded => temp'[copy'[b].name] = b
    BY <1>0, <2>2, <2>3 DEF LocalFiles, Open
  <2> QED BY <2>4, <2>5, <2>6 DEF LocalFiles
<1> QED BY <1>1, <1>2, <1>3, <1>4, <1>5 DEF Next

(* Nothing is left in the temporary directory when everything is closed,   *)
(* in whatever order copies of one name are made and released.             *)
THEOREM LocalFilesOfOpen == Spec => []TempOfOpen
<1>1. Init => TypeOK /\ LocalFiles
  BY InitType, InitLocal
<1>2. TypeOK /\ LocalFiles /\ [Next]_vars => (TypeOK /\ LocalFiles)'
  BY NextType, NextLocal
<1>3. LocalFiles => TempOfOpen
  BY DEF LocalFiles, TempOfOpen
<1> QED BY <1>1, <1>2, <1>3, PTL DEF Spec
-----------------------------------------------------------------------------
(* What an upload stores.                                                  *)
Stored(c, data) ==
  /\ data = [copy |-> temp[copy[c].name], n |-> copy'[temp[copy[c].name]].written]
  /\ data \in Data /\ data.copy \in Open /\ copy[data.copy].name = copy[c].name
  /\ remote' = [remote EXCEPT ![<<copy[c].dir, copy[c].name>>] = data]
  /\ sent' = [sent EXCEPT ![c] = data]

LEMMA WriteStores ==
  ASSUME TypeOK, LocalFiles, NEW c \in Copies, NEW length \in Blocks, Write(c, length)
  PROVE  /\ told' \in {told, told \cup {c}} /\ alive' \in {alive, FALSE}
         /\ \/ UNCHANGED <<remote, sent>>
               /\ (length = bufferLength'[copy[c].fd] \/ c \in told' \/ ~alive')
            \/ \E data \in Data : Stored(c, data)
<1> DEFINE written == [b \in Copies |-> IF b = c THEN copy[c].written + length ELSE copy[b].written]
           first == IF bufferLength[copy[c].fd] = 0 THEN length ELSE bufferLength[copy[c].fd]
<1>1. /\ copy[c].fd \in Fds /\ copy[c].name \in Names
      /\ \A b \in Copies : copy[b].written \in 0..MaxSize
  BY DEF TypeOK, Copy
<1>2. bufferLength'[copy[c].fd] = first
  BY <1>1, WriteType DEF TypeOK
<1>3. copy'[c].written = copy[c].written + length /\ \A b \in Copies \ {c} : copy'[b] = copy[b]
  <2>1. copy[c] \in Copy
    BY DEF TypeOK
  <2>2. copy'[c] = [copy[c] EXCEPT !.written = copy[c].written + length,
                      !.first = IF copy[c].first = 0 THEN length ELSE copy[c].first,
                      !.odd = length # IF copy[c].first = 0 THEN length ELSE copy[c].first]
    BY DEF Write, TypeOK
  <2>3. copy'[c].written = copy[c].written + length
    BY <2>1, <2>2 DEF Copy
  <2> QED BY <2>3, WriteType
<1>4. written \in [Copies -> 0..MaxSize]
  <2>1. length \in Nat /\ MaxSize \in Nat
    BY UploadAssumption
  <2>2. copy[c].written + length \in 0..MaxSize
    BY <1>1, <2>1 DEF Write
  <2> QED BY <1>1, <2>2
<1>5. \A b \in Copies : written[b] = copy'[b].written
  BY <1>3
<1>6. \/ length # first /\ (PutSucceeds(c, written) \/ PutFails(c, written) \/ PutRaises(c, written))
      \/ length = first /\ UNCHANGED <<alive, remote, sent, told>>
  BY DEF Write
<1> HIDE DEF written, first
<1>7. CASE length = first /\ UNCHANGED <<alive, remote, sent, told>>
  BY <1>2, <1>7
<1>8. CASE PutSucceeds(c, written) \/ PutFails(c, written) \/ PutRaises(c, written)
  <2>1. told' \in {told, told \cup {c}} /\ alive' \in {alive, FALSE}
    BY <1>4, <1>8, PutType
  <2>2. CASE UNCHANGED <<remote, sent>> /\ (c \in told' \/ ~alive')
    BY <2>1, <2>2
  <2>3. CASE temp[copy[c].name] # NoCopy /\ Store(c, written)
    <3> DEFINE data == [copy |-> temp[copy[c].name], n |-> written[temp[copy[c].name]]]
    <3>1. /\ data \in Data /\ data.copy = temp[copy[c].name]
          /\ remote' = [remote EXCEPT ![<<copy[c].dir, copy[c].name>>] = data]
          /\ sent' = [sent EXCEPT ![c] = data]
      BY <1>4, <2>3, StoreType
    <3>2. temp[copy[c].name] \in Open /\ copy[temp[copy[c].name]].name = copy[c].name
      BY <1>1, <2>3 DEF LocalFiles
    <3>3. data = [copy |-> temp[copy[c].name], n |-> copy'[temp[copy[c].name]].written]
      BY <1>5, <3>2 DEF Open
    <3> HIDE DEF data
    <3>4. Stored(c, data)
      BY <3>1, <3>2, <3>3 DEF Stored
    <3> QED BY <2>1, <3>1, <3>4
  <2> QED BY <1>4, <1>8, <2>2, <2>3, PutType
<1> QED BY <1>6, <1>7, <1>8
-----------------------------------------------------------------------------
(* What is on the drive was written by a copy that was created.            *)
RemoteKnown ==
  \A d \in Dirs, n \in Names :
    LET c == remote[<<d, n>>].copy IN
      c # NoCopy =>
        /\ c \in Copies /\ copy[c].state # "unborn"
        /\ ~copy[c].crowded => copy[c].dir = d /\ copy[c].name = n
                               /\ remote[<<d, n>>].n <= copy[c].written

(* A step that leaves what is stored and the copies that were made. *)
LEMMA RemoteStays ==
  ASSUME TypeOK, RemoteKnown, UNCHANGED remote,
         \A b \in Copies : copy[b].state # "unborn" =>
           /\ copy'[b].state # "unborn" /\ copy'[b].dir = copy[b].dir
           /\ copy'[b].name = copy[b].name /\ copy'[b].written >= copy[b].written
           /\ copy'[b].written \in Nat
           /\ copy[b].crowded => copy'[b].crowded
  PROVE  RemoteKnown'
<1> SUFFICES ASSUME NEW d \in Dirs, NEW n \in Names, remote'[<<d, n>>].copy # NoCopy
             PROVE  LET c == remote'[<<d, n>>].copy IN
                      /\ c \in Copies /\ copy'[c].state # "unborn"
                      /\ ~copy'[c].crowded => copy'[c].dir = d /\ copy'[c].name = n
                                              /\ remote'[<<d, n>>].n <= copy'[c].written
  BY DEF RemoteKnown
<1> DEFINE c == remote[<<d, n>>].copy
<1>1. c # NoCopy /\ remote' = remote
  OBVIOUS
<1>2. /\ c \in Copies /\ copy[c].state # "unborn"
      /\ ~copy[c].crowded => copy[c].dir = d /\ copy[c].name = n
                             /\ remote[<<d, n>>].n <= copy[c].written
  BY <1>1 DEF RemoteKnown
<1>3. remote[<<d, n>>].n \in Nat /\ copy[c].written \in Nat /\ copy'[c].written \in Nat
  BY <1>2, UploadAssumption DEF TypeOK, Data, Copy
<1> HIDE DEF c
<1>4. ~copy'[c].crowded => remote[<<d, n>>].n <= copy'[c].written
  BY <1>2, <1>3
<1> QED BY <1>1, <1>2, <1>4 DEF c

LEMMA NextRemote == TypeOK /\ LocalFiles /\ RemoteKnown /\ [Next]_vars => RemoteKnown'
<1> SUFFICES ASSUME TypeOK, LocalFiles, RemoteKnown, [Next]_vars PROVE RemoteKnown'
  OBVIOUS
<1>0. /\ \A b \in Copies : copy[b] \in Copy /\ copy[b].written \in Nat
      /\ TypeOK' /\ \A b \in Copies : copy'[b].written \in Nat
  <2>1. TypeOK'
    BY NextType
  <2> QED BY <2>1, UploadAssumption DEF TypeOK, Copy
<1>1. ASSUME NEW c \in Copies, NEW d \in Dirs, NEW n \in Names, Create(c, d, n) PROVE RemoteKnown'
  <2>1. Created(c, d, n)
    BY <1>1, CreateType
  <2>2. UNCHANGED remote /\ \A b \in Copies : copy[b].state # "unborn" =>
          Kept(b) /\ (copy[b].crowded => copy'[b].crowded)
    BY <2>1 DEF Created
  <2> QED BY <1>0, <2>2, RemoteStays DEF Kept
<1>2. ASSUME NEW c \in Copies, NEW length \in Blocks, Write(c, length) PROVE RemoteKnown'
  <2>1. \A b \in Copies :
          /\ copy'[b].state = copy[b].state /\ copy'[b].dir = copy[b].dir
          /\ copy'[b].name = copy[b].name /\ copy'[b].written >= copy[b].written
          /\ copy'[b].written \in Nat /\ copy'[b].crowded = copy[b].crowded
    BY <1>0, <1>2, WriteType
  <2>2. CASE UNCHANGED <<remote, sent>>
    BY <2>1, <2>2, RemoteStays
  <2>3. ASSUME NEW data \in Data, Stored(c, data) PROVE RemoteKnown'
    <3>1. /\ data = [copy |-> temp[copy[c].name], n |-> copy'[temp[copy[c].name]].written]
          /\ data.copy \in Open /\ copy[data.copy].name = copy[c].name
          /\ remote' = [remote EXCEPT ![<<copy[c].dir, copy[c].name>>] = data]
      BY <2>3 DEF Stored
    <3>2. c \in Open
      BY <1>2, WriteType DEF Open
    <3>3. ~copy[data.copy].crowded => data.copy = c
      BY <3>1, <3>2 DEF LocalFiles
    <3>4. data.n = copy'[data.copy].written /\ data.copy \in Copies /\ copy[data.copy].state = "open"
      BY <3>1 DEF Open
    <3> SUFFICES ASSUME NEW d \in Dirs, NEW n \in Names, remote'[<<d, n>>].copy # NoCopy
                 PROVE  LET b == remote'[<<d, n>>].copy IN
                          /\ b \in Copies /\ copy'[b].state # "unborn"
                          /\ ~copy'[b].crowded => copy'[b].dir = d /\ copy'[b].name = n
                                                  /\ remote'[<<d, n>>].n <= copy'[b].written
      BY DEF RemoteKnown
    <3>5. CASE <<d, n>> = <<copy[c].dir, copy[c].name>>
      <4>1. remote'[<<d, n>>] = data /\ d = copy[c].dir /\ n = copy[c].name
        BY <3>1, <3>5 DEF TypeOK
      <4>2. copy'[data.copy].written \in Nat
        BY <1>0, <3>4
      <4> QED BY <2>1, <3>3, <3>4, <4>1, <4>2
    <3>6. CASE <<d, n>> # <<copy[c].dir, copy[c].name>>
      <4>1. remote'[<<d, n>>] = remote[<<d, n>>]
        BY <3>1, <3>6 DEF TypeOK
      <4> DEFINE b == remote[<<d, n>>].copy
      <4>2. /\ b \in Copies /\ copy[b].state # "unborn"
            /\ ~copy[b].crowded => copy[b].dir = d /\ copy[b].name = n
                                   /\ remote[<<d, n>>].n <= copy[b].written
        BY <4>1 DEF RemoteKnown
      <4>3. remote[<<d, n>>].n \in Nat
        BY UploadAssumption DEF TypeOK, Data
      <4> HIDE DEF b
      <4>4. ~copy'[b].crowded => remote[<<d, n>>].n <= copy'[b].written
        BY <1>0, <2>1, <4>2, <4>3
      <4> QED BY <2>1, <4>1, <4>2, <4>4 DEF b
    <3> QED BY <3>5, <3>6
  <2> QED BY <1>2, <2>2, <2>3, WriteStores
<1>3. ASSUME NEW c \in Copies, Release(c) PROVE RemoteKnown'
  <2>1. /\ UNCHANGED remote /\ copy[c].state = "open"
        /\ \A b \in Copies \ {c} : copy'[b] = copy[b]
        /\ copy'[c] = [copy[c] EXCEPT !.state = "closed"]
    BY <1>3, ReleaseType
  <2>2. /\ copy'[c].state = "closed" /\ copy'[c].dir = copy[c].dir /\ copy'[c].name = copy[c].name
        /\ copy'[c].written = copy[c].written /\ copy'[c].crowded = copy[c].crowded
    BY <1>0, <2>1 DEF Copy
  <2>3. \A b \in Copies : copy[b].state # "unborn" =>
          /\ copy'[b].state # "unborn" /\ copy'[b].dir = copy[b].dir
          /\ copy'[b].name = copy[b].name /\ copy'[b].written >= copy[b].written
          /\ copy'[b].written \in Nat /\ (copy[b].crowded => copy'[b].crowded)
    <3> SUFFICES ASSUME NEW b \in Copies, copy[b].state # "unborn"
                 PROVE  /\ copy'[b].state # "unborn" /\ copy'[b].dir = copy[b].dir
                        /\ copy'[b].name = copy[b].name /\ copy'[b].written >= copy[b].written
                        /\ copy'[b].written \in Nat /\ (copy[b].crowded => copy'[b].crowded)
      OBVIOUS
    <3>1. CASE b = c
      BY <1>0, <2>2, <3>1
    <3>2. CASE b # c
      <4>1. copy'[b] = copy[b]
        BY <2>1, <3>2
      <4> QED BY <1>0, <4>1
    <3> QED BY <3>1, <3>2
  <2> QED BY <2>1, <2>3, RemoteStays
<1>4. CASE WriteExisting \/ UNCHANGED vars
  BY <1>4 DEF WriteExisting, RemoteKnown, vars
<1>5. ASSUME NEW n \in Names, ReleaseRead(n) \/ Maintenance(n) PROVE RemoteKnown'
  <2>1. PICK names \in SUBSET Names : Vanish(names)
    BY <1>5, UploadAssumption DEF ReleaseRead, Maintenance
  <2>2. UNCHANGED remote /\ \A b \in Copies : Kept(b) /\ (copy[b].crowded => copy'[b].crowded)
    BY <2>1, VanishType
  <2> QED BY <1>0, <2>2, RemoteStays DEF Kept
<1> QED BY <1>1, <1>2, <1>3, <1>4, <1>5 DEF Next

(* Nothing is stored under a folder or a name it was not written for,      *)
(* unless two copies of one name were open together.                       *)
THEOREM StoredWhereWritten == Spec => []RemoteFromOwn
<1>1. Init => RemoteKnown
  BY DEF Init, RemoteKnown, NoData
<1>2. RemoteKnown => RemoteFromOwn
  BY DEF RemoteKnown, RemoteFromOwn
<1> QED BY <1>1, <1>2, InitType, InitLocal, NextType, NextLocal, NextRemote, PTL DEF Spec
-----------------------------------------------------------------------------
(* Why the guess of `write` works on descriptors that are used again: what *)
(* is kept for a descriptor is the length of the first write of the open   *)
(* copy that has it, and there is nothing for the others.                  *)
OwnLengths ==
  /\ \A b, c \in Open : b # c => copy[b].fd # copy[c].fd
  /\ \A c \in Open : bufferLength[copy[c].fd] = copy[c].first
  /\ \A fd \in Fds : (\A c \in Open : copy[c].fd # fd) => bufferLength[fd] = 0

(* A copy whose last write was an odd one has been stored as it is.  After *)
(* an exception nothing is released any more.                              *)
OddStored ==
  \A c \in Copies :
    copy[c].odd /\ c \notin told /\ ~copy[c].crowded /\ (alive \/ copy[c].state = "closed") =>
      sent[c] = [copy |-> c, n |-> copy[c].written]

LEMMA NextLengths == TypeOK /\ OwnLengths /\ [Next]_vars => OwnLengths'
<1> SUFFICES ASSUME TypeOK, OwnLengths, [Next]_vars PROVE OwnLengths'
  OBVIOUS
<1>0. /\ bufferLength \in [Fds -> Blocks \cup {0}]
      /\ \A c \in Copies : copy[c] \in Copy /\ copy[c].fd \in Fds
      /\ \A length \in Blocks : length # 0
  BY UploadAssumption DEF TypeOK, Copy
<1>1. ASSUME NEW c \in Copies, NEW d \in Dirs, NEW n \in Names, Create(c, d, n) PROVE OwnLengths'
  <2>1. Created(c, d, n)
    BY <1>1, CreateType
  <2>2. /\ UNCHANGED bufferLength /\ copy[c].state = "unborn" /\ copy'[c].state = "open"
        /\ copy'[c].first = 0 /\ \A b \in Open : copy[b].fd # copy'[c].fd
        /\ \A b \in Copies \ {c} : /\ copy'[b].state = copy[b].state
                                   /\ copy'[b].fd = copy[b].fd /\ copy'[b].first = copy[b].first
    BY <2>1 DEF Created, Kept
  <2>3. copy'[c].fd \in Fds
    BY <2>1 DEF Created, Copy
  <2>4. Open' = Open \cup {c} /\ c \notin Open
    BY <2>2 DEF Open
  <2>5. \A b \in Open : b \in Copies \ {c} /\ copy'[b].fd = copy[b].fd /\ copy'[b].first = copy[b].first
    BY <2>2, <2>4 DEF Open
  <2>6. bufferLength[copy'[c].fd] = 0
    BY <2>2, <2>3 DEF OwnLengths
  <2>7. \A a, b \in Open' : a # b => copy'[a].fd # copy'[b].fd
    BY <2>2, <2>4, <2>5 DEF OwnLengths
  <2>8. \A b \in Open' : bufferLength'[copy'[b].fd] = copy'[b].first
    BY <2>2, <2>4, <2>5, <2>6 DEF OwnLengths
  <2>9. \A fd \in Fds : (\A b \in Open' : copy'[b].fd # fd) => bufferLength'[fd] = 0
    BY <2>2, <2>4, <2>5 DEF OwnLengths
  <2> QED BY <2>7, <2>8, <2>9 DEF OwnLengths
<1>2. ASSUME NEW c \in Copies, NEW length \in Blocks, Write(c, length) PROVE OwnLengths'
  <2>1. /\ \A b \in Copies \ {c} : copy'[b] = copy[b]
        /\ copy[c].state = "open" /\ copy'[c].state = "open" /\ copy'[c].fd = copy[c].fd
        /\ copy'[c].first = (IF copy[c].first = 0 THEN length ELSE copy[c].first)
        /\ bufferLength' = [bufferLength EXCEPT ![copy[c].fd] =
                              IF bufferLength[copy[c].fd] = 0 THEN length ELSE bufferLength[copy[c].fd]]
    BY <1>2, WriteType
  <2>2. Open' = Open /\ c \in Open
    BY <2>1 DEF Open
  <2>3. \A b \in Open : b \in Copies /\ copy'[b].fd = copy[b].fd
    BY <2>1 DEF Open
  <2>4. bufferLength'[copy[c].fd] = copy'[c].first
    BY <1>0, <2>1, <2>2 DEF OwnLengths
  <2>5. \A b \in Open' : bufferLength'[copy'[b].fd] = copy'[b].first
    <3> SUFFICES ASSUME NEW b \in Open' PROVE bufferLength'[copy'[b].fd] = copy'[b].first
      OBVIOUS
    <3>1. CASE b = c
      BY <2>1, <2>4, <3>1
    <3>2. CASE b # c
      <4>1. b \in Open /\ copy'[b] = copy[b] /\ copy[b].fd # copy[c].fd /\ copy[b].fd \in Fds
        BY <1>0, <2>1, <2>2, <2>3, <3>2 DEF OwnLengths
      <4>2. bufferLength'[copy[b].fd] = bufferLength[copy[b].fd]
        BY <1>0, <2>1, <4>1
      <4> QED BY <4>1, <4>2 DEF OwnLengths
    <3> QED BY <3>1, <3>2
  <2>6. \A fd \in Fds : (\A b \in Open' : copy'[b].fd # fd) => bufferLength'[fd] = 0
    <3> SUFFICES ASSUME NEW fd \in Fds, \A b \in Open' : copy'[b].fd # fd PROVE bufferLength'[fd] = 0
      OBVIOUS
    <3>1. fd # copy[c].fd /\ bufferLength[fd] = 0
      BY <2>2, <2>3 DEF OwnLengths
    <3> QED BY <1>0, <2>1, <3>1
  <2>7. \A a, b \in Open' : a # b => copy'[a].fd # copy'[b].fd
    BY <2>2, <2>3 DEF OwnLengths
  <2> QED BY <2>5, <2>6, <2>7 DEF OwnLengths
<1>3. ASSUME NEW c \in Copies, Release(c) PROVE OwnLengths'
  <2>1. /\ \A b \in Copies \ {c} : copy'[b] = copy[b]
        /\ copy[c].state = "open" /\ copy'[c] = [copy[c] EXCEPT !.state = "closed"]
        /\ bufferLength' = [bufferLength EXCEPT ![copy[c].fd] = 0]
    BY <1>3, ReleaseType
  <2>2. copy'[c].state = "closed"
    BY <1>0, <2>1 DEF Copy
  <2>3. Open' = Open \ {c} /\ c \in Open
    <3>1. \A b \in Copies \ {c} : copy'[b].state = copy[b].state
      BY <2>1
    <3>2. copy[c].state = "open"
      BY <2>1
    <3> QED BY <2>2, <3>1, <3>2 DEF Open
  <2>4. \A b \in Open' : b \in Open /\ b \in Copies /\ copy'[b] = copy[b] /\ copy[b].fd # copy[c].fd
    BY <2>1, <2>3 DEF OwnLengths, Open
  <2>5. \A fd \in Fds : bufferLength'[fd] = IF fd = copy[c].fd THEN 0 ELSE bufferLength[fd]
    BY <1>0, <2>1
  <2>6. \A a, b \in Open' : a # b => copy'[a].fd # copy'[b].fd
    BY <2>4 DEF OwnLengths
  <2>7. \A b \in Open' : bufferLength'[copy'[b].fd] = copy'[b].first
    BY <1>0, <2>4, <2>5 DEF OwnLengths
  <2>8. \A fd \in Fds : (\A b \in Open' : copy'[b].fd # fd) => bufferLength'[fd] = 0
    <3> SUFFICES ASSUME NEW fd \in Fds, \A b \in Open' : copy'[b].fd # fd, fd # copy[c].fd
                 PROVE  bufferLength[fd] = 0
      BY <2>5
    <3>1. \A b \in Open : copy[b].fd # fd
      BY <2>3, <2>4
    <3> QED BY <3>1 DEF OwnLengths
  <2> QED BY <2>6, <2>7, <2>8 DEF OwnLengths
<1>4. CASE WriteExisting \/ UNCHANGED vars
  BY <1>4 DEF WriteExisting, OwnLengths, Open, vars
<1>5. ASSUME NEW n \in Names, ReleaseRead(n) \/ Maintenance(n) PROVE OwnLengths'
  <2>1. PICK names \in SUBSET Names : Vanish(names)
    BY <1>5, UploadAssumption DEF ReleaseRead, Maintenance
  <2>2. /\ UNCHANGED bufferLength
        /\ \A b \in Copies : /\ copy'[b].state = copy[b].state /\ copy'[b].fd = copy[b].fd
                             /\ copy'[b].first = copy[b].first
    BY <2>1, VanishType DEF Kept
  <2>3. Open' = Open /\ \A b \in Open : b \in Copies
    BY <2>2 DEF Open
  <2> QED BY <2>2, <2>3 DEF OwnLengths
<1> QED BY <1>1, <1>2, <1>3, <1>4, <1>5 DEF Next

LEMMA NextOdd ==
  TypeOK /\ LocalFiles /\ OwnLengths /\ OddStored /\ [Next]_vars => OddStored'
<1> SUFFICES ASSUME TypeOK, LocalFiles, OwnLengths, OddStored, [Next]_vars,
                    NEW b \in Copies, copy'[b].odd, b \notin told', ~copy'[b].crowded,
                    alive' \/ copy'[b].state = "closed"
             PROVE  sent'[b] = [copy |-> b, n |-> copy'[b].written]
  BY DEF OddStored
<1>0. /\ \A c \in Copies : copy[c] \in Copy /\ copy[c].name \in Names /\ copy[c].fd \in Fds
      /\ sent \in [Copies -> Data] /\ OwnLengths'
  BY NextLengths DEF TypeOK, Copy
<1>1. ASSUME NEW c \in Copies, NEW d \in Dirs, NEW n \in Names, Create(c, d, n)
      PROVE  sent'[b] = [copy |-> b, n |-> copy'[b].written]
  <2>1. Created(c, d, n)
    BY <1>1, CreateType
  <2>2. b # c
    BY <2>1 DEF Created
  <2>3. Kept(b) /\ (copy[b].crowded => copy'[b].crowded) /\ UNCHANGED <<alive, sent, told>>
    BY <2>1, <2>2 DEF Created
  <2> QED BY <2>3 DEF Kept, OddStored
<1>2. ASSUME NEW c \in Copies, NEW length \in Blocks, Write(c, length)
      PROVE  sent'[b] = [copy |-> b, n |-> copy'[b].written]
  <2>1. told' \in {told, told \cup {c}} /\ alive
    BY <1>2, WriteType, WriteStores
  <2>2. CASE b # c
    <3>1. copy'[b] = copy[b] /\ b \notin told
      BY <1>2, <2>1, <2>2, WriteType
    <3>2. sent'[b] = sent[b]
      <4>1. CASE UNCHANGED <<remote, sent>>
        BY <4>1
      <4>2. ASSUME NEW data \in Data, Stored(c, data) PROVE sent'[b] = sent[b]
        BY <1>0, <2>2, <4>2 DEF Stored
      <4> QED BY <1>2, <4>1, <4>2, WriteStores
    <3> QED BY <2>1, <3>1, <3>2 DEF OddStored
  <2>3. CASE b = c
    <3>1. /\ copy'[c].state = "open" /\ copy[c].state = "open" /\ copy'[c].crowded = copy[c].crowded
          /\ copy'[c].odd = (length # copy'[c].first) /\ copy'[c].fd = copy[c].fd
      BY <1>2, WriteType
    <3>2. c \in Open /\ c \in Open' /\ alive' /\ c \notin told'
      BY <2>3, <3>1 DEF Open
    <3>3. length # bufferLength'[copy[c].fd]
      BY <1>0, <2>3, <3>1, <3>2 DEF OwnLengths
    <3>4. PICK data \in Data : Stored(c, data)
      BY <1>2, <3>2, <3>3, WriteStores
    <3>5. temp[copy[c].name] = c
      BY <2>3, <3>1, <3>2 DEF LocalFiles
    <3>6. sent'[c] = data /\ data = [copy |-> c, n |-> copy'[c].written]
      BY <1>0, <3>4, <3>5 DEF Stored
    <3> QED BY <2>3, <3>6
  <2> QED BY <2>2, <2>3
<1>3. ASSUME NEW c \in Copies, Release(c)
      PROVE  sent'[b] = [copy |-> b, n |-> copy'[b].written]
  <2>1. /\ alive /\ UNCHANGED <<sent, told>>
        /\ \A a \in Copies \ {c} : copy'[a] = copy[a]
        /\ copy'[c] = [copy[c] EXCEPT !.state = "closed"]
    BY <1>3, ReleaseType
  <2>2. copy'[b].odd = copy[b].odd /\ copy'[b].crowded = copy[b].crowded
        /\ copy'[b].written = copy[b].written
    <3>1. CASE b = c
      BY <1>0, <2>1, <3>1 DEF Copy
    <3>2. CASE b # c
      BY <2>1, <3>2
    <3> QED BY <3>1, <3>2
  <2> QED BY <2>1, <2>2 DEF OddStored
<1>4. CASE WriteExisting \/ UNCHANGED vars
  BY <1>4 DEF WriteExisting, OddStored, vars
<1>5. ASSUME NEW n \in Names, ReleaseRead(n) \/ Maintenance(n)
      PROVE  sent'[b] = [copy |-> b, n |-> copy'[b].written]
  <2>1. PICK names \in SUBSET Names : Vanish(names)
    BY <1>5, UploadAssumption DEF ReleaseRead, Maintenance
  <2>2. UNCHANGED <<alive, sent, told>> /\ Kept(b) /\ (copy[b].crowded => copy'[b].crowded)
    BY <2>1, VanishType
  <2> QED BY <2>2 DEF Kept, OddStored
<1> QED BY <1>1, <1>2, <1>3, <1>4, <1>5 DEF Next

(* A copy that ends with a write of another length than its first is on    *)
(* the drive as a whole when it is released, unless there was a message:   *)
(* on descriptors that were used before, and with other copies around it.  *)
THEOREM OddTailsAreSent == Spec => []OddTailSent
<1>1. Init => OwnLengths /\ OddStored
  BY UnbornType DEF Init, OwnLengths, OddStored, Open
<1>2. OddStored => OddTailSent
  BY DEF OddStored, OddTailSent
<1> QED BY <1>1, <1>2, InitType, InitLocal, NextType, NextLocal, NextLengths, NextOdd, PTL DEF Spec
=============================================================================
