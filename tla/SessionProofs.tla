---------------------------- MODULE SessionProofs ----------------------------
(***************************************************************************)
(* TLAPS proofs about Session, for any number of tasks and any bounds of   *)
(* the pool: the two counters that the tasks keep by hand are right at     *)
(* every await, and somebody reads.                                        *)
(***************************************************************************)
EXTENDS Session, FiniteSetTheorems, TLAPS

(* The tasks that wait for a request, and those there are, in a map of     *)
(* places; and what a task at a place adds to their numbers.               *)
Reads(f) == { v \in Tasks : f[v] \in {"lock", "read"} }

Lives(f) == { v \in Tasks : f[v] # "none" }

ReadsBy(p) == IF p \in {"lock", "read"} THEN 1 ELSE 0

LivesBy(p) == IF p = "none" THEN 0 ELSE 1

(* A set of tasks is finite, and no larger than Tasks.                     *)
LEMMA CountType ==
  ASSUME NEW S \in SUBSET Tasks
  PROVE  /\ IsFiniteSet(S) /\ Cardinality(S) \in Nat
         /\ Cardinality(S) <= Cardinality(Tasks)
         /\ Cardinality(S) = 0 <=> S = {}
         /\ Cardinality(S) = Cardinality(Tasks) => S = Tasks
<1>1. IsFiniteSet(Tasks)
  BY PoolAssumption
<1>2. IsFiniteSet(S) /\ Cardinality(S) <= Cardinality(Tasks)
      /\ (Cardinality(Tasks) = Cardinality(S) => Tasks = S)
  BY <1>1, FS_Subset
<1> QED BY <1>2, FS_CardinalityType, FS_EmptySet

(* Both numbers are natural numbers.                                       *)
LEMMA CountsType ==
  ASSUME NEW f
  PROVE  /\ IsFiniteSet(Reads(f)) /\ Cardinality(Reads(f)) \in Nat
         /\ IsFiniteSet(Lives(f)) /\ Cardinality(Lives(f)) \in Nat
<1>1. Reads(f) \in SUBSET Tasks /\ Lives(f) \in SUBSET Tasks
  BY DEF Reads, Lives
<1> QED BY <1>1, CountType

(* Task w goes to p.                                                       *)
Moved(f, w, p, g) == g = [f EXCEPT ![w] = p]

(* A task that goes to another place changes each number by one at most.   *)
LEMMA MoveCounts ==
  ASSUME NEW f \in [Tasks -> Places], NEW w \in Tasks, NEW p \in Places,
         NEW g, Moved(f, w, p, g)
  PROVE  /\ g \in [Tasks -> Places] /\ g[w] = p
         /\ \A v \in Tasks : v # w => g[v] = f[v]
         /\ Cardinality(Reads(g)) = Cardinality(Reads(f)) + ReadsBy(p) - ReadsBy(f[w])
         /\ Cardinality(Lives(g)) = Cardinality(Lives(f)) + LivesBy(p) - LivesBy(f[w])
<1>1. g \in [Tasks -> Places] /\ g[w] = p /\ \A v \in Tasks : v # w => g[v] = f[v]
  BY DEF Moved
<1>2. /\ IsFiniteSet(Reads(f)) /\ Cardinality(Reads(f)) \in Nat
      /\ IsFiniteSet(Lives(f)) /\ Cardinality(Lives(f)) \in Nat
  BY CountsType
<1>3. /\ Cardinality(Reads(f) \cup {w}) = Cardinality(Reads(f)) + (IF w \in Reads(f) THEN 0 ELSE 1)
      /\ Cardinality(Reads(f) \ {w}) = Cardinality(Reads(f)) - (IF w \in Reads(f) THEN 1 ELSE 0)
      /\ Cardinality(Lives(f) \cup {w}) = Cardinality(Lives(f)) + (IF w \in Lives(f) THEN 0 ELSE 1)
      /\ Cardinality(Lives(f) \ {w}) = Cardinality(Lives(f)) - (IF w \in Lives(f) THEN 1 ELSE 0)
  <2>1. /\ Cardinality(Reads(f) \cup {w}) =
             IF w \in Reads(f) THEN Cardinality(Reads(f)) ELSE Cardinality(Reads(f)) + 1
        /\ Cardinality(Lives(f) \cup {w}) =
             IF w \in Lives(f) THEN Cardinality(Lives(f)) ELSE Cardinality(Lives(f)) + 1
    BY <1>2, FS_AddElement
  <2>2. /\ Cardinality(Reads(f) \ {w}) =
             IF w \in Reads(f) THEN Cardinality(Reads(f)) - 1 ELSE Cardinality(Reads(f))
        /\ Cardinality(Lives(f) \ {w}) =
             IF w \in Lives(f) THEN Cardinality(Lives(f)) - 1 ELSE Cardinality(Lives(f))
    BY <1>2, FS_RemoveElement
  <2> QED BY <1>2, <2>1, <2>2
<1>4. Cardinality(Reads(g)) = Cardinality(Reads(f)) + ReadsBy(p) - ReadsBy(f[w])
  <2>1. CASE p \in {"lock", "read"}
    <3>1. Reads(g) = Reads(f) \cup {w}
      BY <1>1, <2>1 DEF Reads
    <3>2. w \in Reads(f) <=> f[w] \in {"lock", "read"}
      BY DEF Reads
    <3>3. ReadsBy(p) = 1
      BY <2>1 DEF ReadsBy
    <3>4. ReadsBy(f[w]) = IF w \in Reads(f) THEN 1 ELSE 0
      BY <3>2 DEF ReadsBy
    <3>5. Cardinality(Reads(g)) = Cardinality(Reads(f)) + (IF w \in Reads(f) THEN 0 ELSE 1)
      BY <1>3, <3>1
    <3> QED BY <1>2, <3>3, <3>4, <3>5
  <2>2. CASE p \notin {"lock", "read"}
    <3>1. Reads(g) = Reads(f) \ {w}
      BY <1>1, <2>2 DEF Reads
    <3>2. w \in Reads(f) <=> f[w] \in {"lock", "read"}
      BY DEF Reads
    <3>3. ReadsBy(p) = 0
      BY <2>2 DEF ReadsBy
    <3>4. ReadsBy(f[w]) = IF w \in Reads(f) THEN 1 ELSE 0
      BY <3>2 DEF ReadsBy
    <3>5. Cardinality(Reads(g)) = Cardinality(Reads(f)) - (IF w \in Reads(f) THEN 1 ELSE 0)
      BY <1>3, <3>1
    <3> QED BY <1>2, <3>3, <3>4, <3>5
  <2> QED BY <2>1, <2>2
<1>5. Cardinality(Lives(g)) = Cardinality(Lives(f)) + LivesBy(p) - LivesBy(f[w])
  <2>1. CASE p # "none"
    <3>1. Lives(g) = Lives(f) \cup {w}
      BY <1>1, <2>1 DEF Lives
    <3>2. w \in Lives(f) <=> f[w] # "none"
      BY DEF Lives
    <3>3. LivesBy(p) = 1
      BY <2>1 DEF LivesBy
    <3>4. LivesBy(f[w]) = IF w \in Lives(f) THEN 1 ELSE 0
      BY <3>2 DEF LivesBy
    <3>5. Cardinality(Lives(g)) = Cardinality(Lives(f)) + (IF w \in Lives(f) THEN 0 ELSE 1)
      BY <1>3, <3>1
    <3> QED BY <1>2, <3>3, <3>4, <3>5
  <2>2. CASE p = "none"
    <3>1. Lives(g) = Lives(f) \ {w}
      BY <1>1, <2>2 DEF Lives
    <3>2. w \in Lives(f) <=> f[w] # "none"
      BY DEF Lives
    <3>3. LivesBy(p) = 0
      BY <2>2 DEF LivesBy
    <3>4. LivesBy(f[w]) = IF w \in Lives(f) THEN 1 ELSE 0
      BY <3>2 DEF LivesBy
    <3>5. Cardinality(Lives(g)) = Cardinality(Lives(f)) - (IF w \in Lives(f) THEN 1 ELSE 0)
      BY <1>3, <3>1
    <3> QED BY <1>2, <3>3, <3>4, <3>5
  <2> QED BY <2>1, <2>2
<1> QED BY <1>1, <1>4, <1>5
-----------------------------------------------------------------------------
(* The counters, and who reads: what the tasks keep between their awaits.  *)
Right(f, n, k) ==
  f \in [Tasks -> Places] /\ n = Cardinality(Reads(f)) /\ k = Cardinality(Lives(f))

Awake(f) == \E v \in Tasks : f[v] \in {"new", "lock", "read"}

AllBusy(f, k) == k = MaxTasks /\ Cardinality({ v \in Tasks : f[v] = "handle" }) = MaxTasks

PoolInv ==
  /\ task \in [Tasks -> Places] /\ readLock \subseteq Tasks
  /\ readers \in Nat /\ taskCount \in 0..MaxTasks
  /\ exited \in BOOLEAN /\ closing \in BOOLEAN
  /\ phase \in {"loop", "leaving", "finally", "closed"}
  /\ phase = "loop" => Right(task, readers, taskCount)
  /\ Cardinality(Reads(task)) <= MinTasks + 1
  /\ closing => exited
  /\ phase = "loop" /\ ~exited => Awake(task) \/ AllBusy(task, taskCount)

(* Whoever waits is awake. *)
LEMMA ReaderAwake ==
  ASSUME NEW f, Cardinality(Reads(f)) # 0
  PROVE  Awake(f)
<1>1. Reads(f) # {}
  BY FS_EmptySet
<1> QED BY <1>1 DEF Reads, Awake

(* The head of the loop counts the task that goes through it. *)
LEMMA HeadRight ==
  ASSUME NEW others \in [Tasks -> Places], NEW w \in Tasks, others[w] # "none",
         NEW n, n = Cardinality(Reads(others)) - ReadsBy(others[w]), n \in Nat,
         NEW k, k = Cardinality(Lives(others)), k <= MaxTasks,
         LoopHead(w, others, n, k)
  PROVE  /\ Right(task', readers', taskCount')
         /\ readers' \in Nat /\ taskCount' \in 0..MaxTasks
         /\ readers' <= MinTasks + 1 \/ readers' <= n
         /\ ~exited => Awake(task')
<1>0. MinTasks \in Nat /\ MaxTasks \in Nat
  BY PoolAssumption
<1>c. Cardinality(Reads(others)) \in Nat /\ k \in Nat
  BY CountsType
<1>r. ReadsBy(others[w]) \in {0, 1}
  BY DEF ReadsBy
<1>1. CASE exited \/ TooManyReaders(n)
  <2>1. task' = [others EXCEPT ![w] = "none"] /\ readers' = n /\ taskCount' = k - 1
    BY <1>1 DEF LoopHead
  <2>2. "none" \in Places /\ ReadsBy("none") = 0 /\ LivesBy("none") = 0 /\ LivesBy(others[w]) = 1
    BY DEF Places, ReadsBy, LivesBy
  <2>3. /\ task' \in [Tasks -> Places]
        /\ Cardinality(Reads(task')) = Cardinality(Reads(others)) + ReadsBy("none") - ReadsBy(others[w])
        /\ Cardinality(Lives(task')) = Cardinality(Lives(others)) + LivesBy("none") - LivesBy(others[w])
    <3>1. Moved(others, w, "none", task')
      BY <2>1 DEF Moved
    <3> QED BY <2>2, <3>1, MoveCounts
  <2>4. readers' = Cardinality(Reads(task')) /\ taskCount' = Cardinality(Lives(task'))
    BY <1>c, <1>r, <2>1, <2>2, <2>3
  <2>5. Cardinality(Lives(task')) \in Nat
    BY CountsType
  <2>6. taskCount' \in 0..MaxTasks
    BY <1>0, <1>c, <2>1, <2>4, <2>5
  <2>7. ~exited => Awake(task')
    <3> SUFFICES ASSUME ~exited PROVE Awake(task')
      OBVIOUS
    <3>1. readers' > MinTasks
      BY <1>1, <2>1 DEF TooManyReaders
    <3>2. Cardinality(Reads(task')) # 0
      BY <1>0, <2>1, <2>4, <3>1
    <3> QED BY <3>2, ReaderAwake
  <2> QED BY <2>1, <2>3, <2>4, <2>6, <2>7 DEF Right
<1>2. CASE ~(exited \/ TooManyReaders(n))
  <2>1. task' = [others EXCEPT ![w] = "lock"] /\ readers' = n + 1 /\ taskCount' = k
    BY <1>2 DEF LoopHead
  <2>2. "lock" \in Places /\ ReadsBy("lock") = 1 /\ LivesBy("lock") = 1 /\ LivesBy(others[w]) = 1
    BY DEF Places, ReadsBy, LivesBy
  <2>3. /\ task' \in [Tasks -> Places] /\ task'[w] = "lock"
        /\ Cardinality(Reads(task')) = Cardinality(Reads(others)) + ReadsBy("lock") - ReadsBy(others[w])
        /\ Cardinality(Lives(task')) = Cardinality(Lives(others)) + LivesBy("lock") - LivesBy(others[w])
    <3>1. Moved(others, w, "lock", task')
      BY <2>1 DEF Moved
    <3> QED BY <2>2, <3>1, MoveCounts
  <2>4. readers' = Cardinality(Reads(task')) /\ taskCount' = Cardinality(Lives(task'))
    BY <1>c, <1>r, <2>1, <2>2, <2>3
  <2>5. readers' <= MinTasks + 1
    BY <1>0, <1>2, <2>1 DEF TooManyReaders
  <2>6. readers' \in Nat /\ taskCount' \in 0..MaxTasks
    BY <1>0, <1>c, <2>1
  <2>7. Awake(task')
    BY <2>3 DEF Awake
  <2> QED BY <2>3, <2>4, <2>5, <2>6, <2>7 DEF Right
<1> QED BY <1>1, <1>2

(* The places after a request has been received: the counters that Receive *)
(* computes are those of the map, and without readers there is a new task, *)
(* or the pool is full.                                                    *)
LEMMA StartedRight ==
  ASSUME PoolInv, phase = "loop", NEW w \in Tasks, task[w] = "read",
         NEW n, n = ReadersAfter(readers), NEW others \in Started(n, taskCount)
  PROVE  /\ others \in [Tasks -> Places] /\ others[w] = "read" /\ n \in Nat
         /\ Cardinality(Reads(others)) = n + 1 /\ n <= MinTasks
         /\ CountAfter(n, taskCount) \in Nat /\ CountAfter(n, taskCount) <= MaxTasks
         /\ Cardinality(Lives(others)) = CountAfter(n, taskCount)
         /\ \/ n # 0
            \/ CountAfter(n, taskCount) = MaxTasks
            \/ \E v \in Tasks : v # w /\ others[v] = "new"
<1>0. MinTasks \in Nat /\ MaxTasks \in Nat
  BY PoolAssumption
<1>1. /\ task \in [Tasks -> Places] /\ readers \in Nat /\ taskCount \in Nat /\ taskCount <= MaxTasks
      /\ readers = Cardinality(Reads(task)) /\ taskCount = Cardinality(Lives(task))
      /\ readers <= MinTasks + 1
  BY <1>0 DEF PoolInv, Right
<1>2. readers # 0
  <2>1. w \in Reads(task)
    BY DEF Reads
  <2>2. Reads(task) \in SUBSET Tasks
    BY DEF Reads
  <2> QED BY <1>1, <2>1, <2>2, CountType
<1>3. n \in Nat /\ n = readers - 1 /\ n <= MinTasks
  BY <1>0, <1>1, <1>2 DEF ReadersAfter
<1>4. CASE StartAnother(n, taskCount)
  <2>1. PICK v \in At("none") : others = [task EXCEPT ![v] = "new"]
    BY <1>4 DEF Started
  <2>2. v \in Tasks /\ task[v] = "none" /\ v # w
    BY <2>1 DEF At
  <2>3. Moved(task, v, "new", others)
    BY <2>1 DEF Moved
  <2>4. "new" \in Places /\ ReadsBy("new") = 0 /\ LivesBy("new") = 1
        /\ ReadsBy(task[v]) = 0 /\ LivesBy(task[v]) = 0
    BY <2>2 DEF Places, ReadsBy, LivesBy
  <2>5. /\ others \in [Tasks -> Places] /\ others[v] = "new" /\ others[w] = task[w]
        /\ Cardinality(Reads(others)) = Cardinality(Reads(task)) + ReadsBy("new") - ReadsBy(task[v])
        /\ Cardinality(Lives(others)) = Cardinality(Lives(task)) + LivesBy("new") - LivesBy(task[v])
    BY <1>1, <2>2, <2>3, <2>4, MoveCounts
  <2>6. CountAfter(n, taskCount) = taskCount + 1 /\ taskCount < MaxTasks
    BY <1>4 DEF CountAfter, StartAnother
  <2>7. Cardinality(Reads(others)) = n + 1 /\ Cardinality(Lives(others)) = taskCount + 1
    BY <1>1, <1>3, <2>4, <2>5
  <2>8. CountAfter(n, taskCount) \in Nat /\ CountAfter(n, taskCount) <= MaxTasks
    BY <1>0, <1>1, <2>6
  <2> QED BY <1>3, <2>2, <2>5, <2>6, <2>7, <2>8
<1>5. CASE ~StartAnother(n, taskCount)
  <2>1. others = task
    BY <1>5 DEF Started
  <2>2. CountAfter(n, taskCount) = taskCount
    BY <1>5 DEF CountAfter
  <2>3. n # 0 \/ taskCount = MaxTasks
    BY <1>0, <1>1, <1>5 DEF StartAnother
  <2>4. Cardinality(Reads(task)) = n + 1
    BY <1>1, <1>3
  <2> QED BY <1>1, <1>3, <2>1, <2>2, <2>3, <2>4
<1> QED BY <1>4, <1>5

(* If nobody is awake, all tasks that there are handle requests.           *)
LEMMA BusyOrAwake ==
  ASSUME NEW f \in [Tasks -> Places], Cardinality(Lives(f)) = MaxTasks
  PROVE  Awake(f) \/ AllBusy(f, MaxTasks)
<1>1. Lives(f) = { v \in Tasks : f[v] = "handle" } \/ Awake(f)
  BY DEF Lives, Awake, Places
<1> QED BY <1>1 DEF AllBusy

(* A step of w alone, from a map f with the given counters to place p.     *)
LEMMA MoveRight ==
  ASSUME NEW f \in [Tasks -> Places], NEW w \in Tasks, NEW p \in Places,
         Moved(f, w, p, task'),
         readers' = Cardinality(Reads(f)) + ReadsBy(p) - ReadsBy(f[w]),
         taskCount' = Cardinality(Lives(f)) + LivesBy(p) - LivesBy(f[w])
  PROVE  /\ Right(task', readers', taskCount') /\ task'[w] = p
         /\ readers' \in Nat /\ taskCount' \in Nat
         /\ \A v \in Tasks : v # w => task'[v] = f[v]
<1>1. /\ task' \in [Tasks -> Places] /\ task'[w] = p
      /\ \A v \in Tasks : v # w => task'[v] = f[v]
      /\ Cardinality(Reads(task')) = Cardinality(Reads(f)) + ReadsBy(p) - ReadsBy(f[w])
      /\ Cardinality(Lives(task')) = Cardinality(Lives(f)) + LivesBy(p) - LivesBy(f[w])
  BY MoveCounts
<1>2. readers' = Cardinality(Reads(task')) /\ taskCount' = Cardinality(Lives(task'))
  BY <1>1
<1>3. Cardinality(Reads(task')) \in Nat /\ Cardinality(Lives(task')) \in Nat
  BY CountsType
<1> QED BY <1>1, <1>2, <1>3 DEF Right
-----------------------------------------------------------------------------
(* The session starts with one task, which is awake.                       *)
LEMMA InitPool == Init => PoolInv
<1> SUFFICES ASSUME Init PROVE PoolInv
  OBVIOUS
<1>0. MinTasks \in Nat /\ MaxTasks \in Nat /\ MaxTasks # 0
  BY PoolAssumption
<1>1. PICK w \in Tasks : task = [v \in Tasks |-> IF v = w THEN "new" ELSE "none"]
  BY DEF Init
<1>2. task \in [Tasks -> Places]
  BY <1>1 DEF Places
<1>3. Reads(task) = {} /\ Lives(task) = {w}
  BY <1>1 DEF Reads, Lives
<1>4. Cardinality(Reads(task)) = 0 /\ Cardinality(Lives(task)) = 1
  BY <1>3, FS_EmptySet, FS_Singleton
<1>5. Awake(task)
  BY <1>1 DEF Awake
<1>6. /\ readLock = {} /\ readers = 0 /\ taskCount = 1
      /\ exited = FALSE /\ closing = FALSE /\ phase = "loop"
  BY DEF Init
<1>7. 0 <= MinTasks + 1 /\ 1 \in 0..MaxTasks
  BY <1>0
<1> QED BY <1>2, <1>4, <1>5, <1>6, <1>7 DEF PoolInv, Right

(* What a task finds when it comes to the head of the loop by itself.      *)
LEMMA NextHead ==
  ASSUME PoolInv, NEW w \in Tasks, Begin(w) \/ Finish(w)
  PROVE  PoolInv'
<1>0. MinTasks \in Nat /\ MaxTasks \in Nat
  BY PoolAssumption
<1>1. /\ phase = "loop" /\ task[w] \in {"new", "handle"}
      /\ LoopHead(w, task, readers, taskCount)
      /\ UNCHANGED <<readLock, exited, closing, phase>>
  BY DEF Begin, Finish
<1>2. /\ task \in [Tasks -> Places] /\ readLock \subseteq Tasks /\ readers \in Nat
      /\ taskCount <= MaxTasks /\ readers <= MinTasks + 1
      /\ readers = Cardinality(Reads(task)) /\ taskCount = Cardinality(Lives(task))
  BY <1>0, <1>1 DEF PoolInv, Right
<1>3. task[w] # "none" /\ ReadsBy(task[w]) = 0
  BY <1>1 DEF ReadsBy
<1>4. readers = Cardinality(Reads(task)) - ReadsBy(task[w])
  BY <1>2, <1>3
<1>5. /\ Right(task', readers', taskCount')
      /\ readers' \in Nat /\ taskCount' \in 0..MaxTasks
      /\ readers' <= MinTasks + 1 \/ readers' <= readers
      /\ ~exited => Awake(task')
  BY <1>1, <1>2, <1>3, <1>4, HeadRight
<1>6. readers' <= MinTasks + 1 /\ readers' = Cardinality(Reads(task'))
  BY <1>0, <1>2, <1>5 DEF Right
<1>7. task' \in [Tasks -> Places] /\ Cardinality(Reads(task')) <= MinTasks + 1
  BY <1>5, <1>6 DEF Right
<1> QED BY <1>1, <1>2, <1>5, <1>7 DEF PoolInv

(* A task that gets the lock reads, or leaves an exited session.           *)
LEMMA NextAcquire ==
  ASSUME PoolInv, NEW w \in Tasks, Acquire(w)
  PROVE  PoolInv'
<1>0. MinTasks \in Nat /\ MaxTasks \in Nat
  BY PoolAssumption
<1>1. /\ phase = "loop" /\ task[w] = "lock"
      /\ UNCHANGED <<exited, closing, phase>>
  BY DEF Acquire
<1>2. /\ task \in [Tasks -> Places] /\ readLock \subseteq Tasks
      /\ readers \in Nat /\ taskCount \in Nat
      /\ taskCount <= MaxTasks /\ readers <= MinTasks + 1
      /\ readers = Cardinality(Reads(task)) /\ taskCount = Cardinality(Lives(task))
  BY <1>0, <1>1 DEF PoolInv, Right
<1>3. /\ {"none", "read"} \subseteq Places /\ ReadsBy(task[w]) = 1 /\ LivesBy(task[w]) = 1
      /\ ReadsBy("none") = 0 /\ LivesBy("none") = 0 /\ ReadsBy("read") = 1 /\ LivesBy("read") = 1
  BY <1>1 DEF Places, ReadsBy, LivesBy
<1>4. CASE exited
  <2>1. /\ Moved(task, w, "none", task') /\ readLock' = readLock
        /\ readers' = readers - 1 /\ taskCount' = taskCount - 1
    BY <1>4 DEF Acquire, Moved
  <2>2. /\ readers' = Cardinality(Reads(task)) + ReadsBy("none") - ReadsBy(task[w])
        /\ taskCount' = Cardinality(Lives(task)) + LivesBy("none") - LivesBy(task[w])
    BY <1>2, <1>3, <2>1
  <2>3. Right(task', readers', taskCount') /\ readers' \in Nat /\ taskCount' \in Nat
    BY <1>2, <1>3, <2>1, <2>2, MoveRight
  <2>4. readers' <= MinTasks + 1 /\ taskCount' \in 0..MaxTasks
    BY <1>0, <1>2, <2>1, <2>3
  <2> QED BY <1>1, <1>2, <1>4, <2>1, <2>3, <2>4 DEF PoolInv, Right
<1>5. CASE ~exited
  <2>1. /\ Moved(task, w, "read", task') /\ readLock' = {w}
        /\ readers' = readers /\ taskCount' = taskCount
    BY <1>5 DEF Acquire, Moved
  <2>2. /\ readers' = Cardinality(Reads(task)) + ReadsBy("read") - ReadsBy(task[w])
        /\ taskCount' = Cardinality(Lives(task)) + LivesBy("read") - LivesBy(task[w])
    BY <1>2, <1>3, <2>1
  <2>3. Right(task', readers', taskCount') /\ task'[w] = "read"
    BY <1>2, <1>3, <2>1, <2>2, MoveRight
  <2>4. Awake(task')
    BY <2>3 DEF Awake
  <2>5. taskCount' \in 0..MaxTasks
    BY <1>0, <1>2, <2>1
  <2> QED BY <1>1, <1>2, <1>5, <2>1, <2>3, <2>4, <2>5 DEF PoolInv, Right
<1> QED BY <1>4, <1>5

(* The last reader that goes to its handler leaves another one.            *)
LEMMA NextReceive ==
  ASSUME PoolInv, NEW w \in Tasks, Receive(w)
  PROVE  PoolInv'
<1> DEFINE n == ReadersAfter(readers)
           k == CountAfter(n, taskCount)
<1>0. MinTasks \in Nat /\ MaxTasks \in Nat
  BY PoolAssumption
<1>1. /\ phase = "loop" /\ task[w] = "read" /\ ~closing /\ readLock' = {}
      /\ readers' = n /\ taskCount' = k
      /\ UNCHANGED <<exited, closing, phase>>
  BY DEF Receive, Received
<1>2. PICK others \in Started(n, taskCount) : task' = [others EXCEPT ![w] = "handle"]
  BY DEF Receive
<1> HIDE DEF n, k
<1>3. /\ others \in [Tasks -> Places] /\ others[w] = "read" /\ n \in Nat
      /\ Cardinality(Reads(others)) = n + 1 /\ n <= MinTasks
      /\ k \in Nat /\ k <= MaxTasks /\ Cardinality(Lives(others)) = k
      /\ n # 0 \/ k = MaxTasks \/ \E v \in Tasks : v # w /\ others[v] = "new"
  BY <1>1, StartedRight DEF n, k
<1>4. /\ "handle" \in Places /\ ReadsBy("handle") = 0 /\ LivesBy("handle") = 1
      /\ ReadsBy(others[w]) = 1 /\ LivesBy(others[w]) = 1
  BY <1>3 DEF Places, ReadsBy, LivesBy
<1>5. Moved(others, w, "handle", task')
  BY <1>2 DEF Moved
<1>6. /\ readers' = Cardinality(Reads(others)) + ReadsBy("handle") - ReadsBy(others[w])
      /\ taskCount' = Cardinality(Lives(others)) + LivesBy("handle") - LivesBy(others[w])
  BY <1>1, <1>3, <1>4
<1>7. /\ Right(task', readers', taskCount')
      /\ \A v \in Tasks : v # w => task'[v] = others[v]
  BY <1>3, <1>4, <1>5, <1>6, MoveRight
<1>8. Awake(task') \/ AllBusy(task', taskCount')
  <2>1. CASE n # 0
    BY <1>1, <1>7, <2>1, ReaderAwake DEF Right
  <2>2. CASE k = MaxTasks
    BY <1>1, <1>7, <2>2, BusyOrAwake DEF Right
  <2>3. CASE \E v \in Tasks : v # w /\ others[v] = "new"
    BY <1>7, <2>3 DEF Awake
  <2> QED BY <1>3, <2>1, <2>2, <2>3
<1>9. n <= MinTasks + 1 /\ k \in 0..MaxTasks
  BY <1>0, <1>3
<1> QED BY <1>1, <1>3, <1>7, <1>8, <1>9 DEF PoolInv, Right

(* A read that EINTR ended is followed by the head of the loop.            *)
LEMMA NextInterrupted ==
  ASSUME PoolInv, NEW w \in Tasks, Interrupted(w)
  PROVE  PoolInv'
<1> DEFINE n == ReadersAfter(readers)
           k == CountAfter(n, taskCount)
<1>0. MinTasks \in Nat /\ MaxTasks \in Nat
  BY PoolAssumption
<1>1. /\ phase = "loop" /\ task[w] = "read" /\ ~closing /\ readLock' = {}
      /\ UNCHANGED <<exited, closing, phase>>
  BY DEF Interrupted, Received
<1>2. PICK others \in Started(n, taskCount) : LoopHead(w, others, n, k)
  BY DEF Interrupted
<1> HIDE DEF n, k
<1>3. /\ others \in [Tasks -> Places] /\ others[w] = "read" /\ n \in Nat
      /\ Cardinality(Reads(others)) = n + 1 /\ n <= MinTasks
      /\ k \in Nat /\ k <= MaxTasks /\ Cardinality(Lives(others)) = k
  BY <1>1, StartedRight DEF n, k
<1>4. others[w] # "none" /\ ReadsBy(others[w]) = 1
  BY <1>3 DEF ReadsBy
<1>5. n = Cardinality(Reads(others)) - ReadsBy(others[w])
  BY <1>3, <1>4
<1>6. /\ Right(task', readers', taskCount')
      /\ readers' \in Nat /\ taskCount' \in 0..MaxTasks
      /\ readers' <= MinTasks + 1 \/ readers' <= n
      /\ ~exited => Awake(task')
  BY <1>2, <1>3, <1>4, <1>5, HeadRight
<1>7. readers' <= MinTasks + 1
  BY <1>0, <1>3, <1>6
<1> QED BY <1>1, <1>6, <1>7 DEF PoolInv, Right

(* The end of the session: nobody needs to read any more.                  *)
LEMMA NextEnd ==
  ASSUME PoolInv, NEW w \in Tasks, ReceiveEnd(w)
  PROVE  PoolInv'
<1> DEFINE n == ReadersAfter(readers)
           k == CountAfter(n, taskCount)
<1>0. MinTasks \in Nat /\ MaxTasks \in Nat
  BY PoolAssumption
<1>1. /\ phase = "loop" /\ task[w] = "read" /\ ~closing /\ readLock' = {}
      /\ readers' = n /\ taskCount' = k - 1 /\ exited' = TRUE
      /\ UNCHANGED <<closing, phase>>
  BY DEF ReceiveEnd, Received
<1>2. PICK others \in Started(n, taskCount) : task' = [others EXCEPT ![w] = "none"]
  BY DEF ReceiveEnd
<1> HIDE DEF n, k
<1>3. /\ others \in [Tasks -> Places] /\ others[w] = "read" /\ n \in Nat
      /\ Cardinality(Reads(others)) = n + 1 /\ n <= MinTasks
      /\ k \in Nat /\ k <= MaxTasks /\ Cardinality(Lives(others)) = k
  BY <1>1, StartedRight DEF n, k
<1>4. /\ "none" \in Places /\ ReadsBy("none") = 0 /\ LivesBy("none") = 0
      /\ ReadsBy(others[w]) = 1 /\ LivesBy(others[w]) = 1
  BY <1>3 DEF Places, ReadsBy, LivesBy
<1>5. Moved(others, w, "none", task')
  BY <1>2 DEF Moved
<1>6. /\ readers' = Cardinality(Reads(others)) + ReadsBy("none") - ReadsBy(others[w])
      /\ taskCount' = Cardinality(Lives(others)) + LivesBy("none") - LivesBy(others[w])
  BY <1>1, <1>3, <1>4
<1>7. Right(task', readers', taskCount') /\ taskCount' \in Nat
  BY <1>3, <1>4, <1>5, <1>6, MoveRight
<1>8. n <= MinTasks + 1 /\ taskCount' \in 0..MaxTasks
  BY <1>0, <1>1, <1>3, <1>7
<1>9. closing' \in BOOLEAN
  BY <1>1 DEF PoolInv
<1> QED BY <1>1, <1>3, <1>7, <1>8, <1>9 DEF PoolInv, Right

(* A reader is woken only when the session has exited.                     *)
LEMMA NextWoken ==
  ASSUME PoolInv, NEW w \in Tasks, Woken(w)
  PROVE  PoolInv'
<1>0. MinTasks \in Nat /\ MaxTasks \in Nat
  BY PoolAssumption
<1>1. /\ phase = "loop" /\ task[w] = "read" /\ closing
      /\ Moved(task, w, "none", task') /\ readLock' = {} /\ closing' = FALSE
      /\ readers' = readers - 1 /\ taskCount' = taskCount - 1
      /\ UNCHANGED <<exited, phase>>
  BY DEF Woken, Moved
<1>2. /\ task \in [Tasks -> Places] /\ readers \in Nat /\ taskCount \in Nat /\ exited = TRUE
      /\ taskCount <= MaxTasks /\ readers <= MinTasks + 1
      /\ readers = Cardinality(Reads(task)) /\ taskCount = Cardinality(Lives(task))
  BY <1>0, <1>1 DEF PoolInv, Right
<1>3. /\ "none" \in Places /\ ReadsBy(task[w]) = 1 /\ LivesBy(task[w]) = 1
      /\ ReadsBy("none") = 0 /\ LivesBy("none") = 0
  BY <1>1 DEF Places, ReadsBy, LivesBy
<1>4. /\ readers' = Cardinality(Reads(task)) + ReadsBy("none") - ReadsBy(task[w])
      /\ taskCount' = Cardinality(Lives(task)) + LivesBy("none") - LivesBy(task[w])
  BY <1>1, <1>2, <1>3
<1>5. Right(task', readers', taskCount') /\ readers' \in Nat /\ taskCount' \in Nat
  BY <1>1, <1>2, <1>3, <1>4, MoveRight
<1>6. readers' <= MinTasks + 1 /\ taskCount' \in 0..MaxTasks
  BY <1>0, <1>1, <1>2, <1>5
<1> QED BY <1>1, <1>2, <1>5, <1>6 DEF PoolInv, Right

(* An exception empties the pool, and the loop is left.                    *)
LEMMA NextRaise ==
  ASSUME PoolInv, NEW w \in Tasks, Raise(w)
  PROVE  PoolInv'
<1>0. MinTasks \in Nat
  BY PoolAssumption
<1>1. /\ task' = [v \in Tasks |-> "none"] /\ readLock' = {} /\ readers' = 0
      /\ phase' = "leaving" /\ UNCHANGED <<taskCount, exited, closing>>
  BY DEF Raise
<1>2. task' \in [Tasks -> Places] /\ Reads(task') = {}
  BY <1>1 DEF Places, Reads
<1>3. Cardinality(Reads(task')) <= MinTasks + 1
  BY <1>0, <1>2, FS_EmptySet
<1> QED BY <1>1, <1>2, <1>3 DEF PoolInv

(* The steps of the others leave the pool alone; Terminate sets the flag.  *)
LEMMA NextOthers ==
  ASSUME PoolInv, UNCHANGED pool,
         \/ UNCHANGED <<exited, closing>> /\ phase' \in {phase, "finally", "closed"}
         \/ exited' = TRUE /\ closing' \in BOOLEAN /\ phase' = phase
  PROVE  PoolInv'
<1>1. /\ task' = task /\ readLock' = readLock /\ readers' = readers /\ taskCount' = taskCount
      /\ phase' \in {"loop", "leaving", "finally", "closed"} /\ (phase' = "loop" => phase = "loop")
  BY DEF PoolInv, pool
<1>2. /\ exited' \in BOOLEAN /\ closing' \in BOOLEAN /\ (closing' => exited')
      /\ (~exited' => ~exited)
  <2>1. CASE UNCHANGED <<exited, closing>>
    BY <2>1 DEF PoolInv
  <2>2. CASE exited' = TRUE /\ closing' \in BOOLEAN
    BY <2>2
  <2> QED BY <2>1, <2>2
<1>3. /\ task \in [Tasks -> Places] /\ readLock \subseteq Tasks
      /\ readers \in Nat /\ taskCount \in 0..MaxTasks
      /\ Cardinality(Reads(task)) <= MinTasks + 1
      /\ phase = "loop" => Right(task, readers, taskCount)
      /\ phase = "loop" /\ ~exited => Awake(task) \/ AllBusy(task, taskCount)
  BY DEF PoolInv
<1>4. phase' = "loop" => Right(task', readers', taskCount')
  BY <1>1, <1>3
<1>5. phase' = "loop" /\ ~exited' => Awake(task') \/ AllBusy(task', taskCount')
  BY <1>1, <1>2, <1>3
<1> QED BY <1>1, <1>2, <1>3, <1>4, <1>5 DEF PoolInv

(* Every step keeps the pool: one case for each action of the tasks.       *)
LEMMA NextPool == PoolInv /\ [Next]_vars => PoolInv'
<1> SUFFICES ASSUME PoolInv, [Next]_vars PROVE PoolInv'
  OBVIOUS
<1>1. CASE \E w \in Tasks : Begin(w) \/ Finish(w)
  BY <1>1, NextHead
<1>2. CASE \E w \in Tasks : Acquire(w)
  BY <1>2, NextAcquire
<1>3. CASE \E w \in Tasks : Receive(w)
  BY <1>3, NextReceive
<1>4. CASE \E w \in Tasks : Interrupted(w)
  BY <1>4, NextInterrupted
<1>5. CASE \E w \in Tasks : ReceiveEnd(w)
  BY <1>5, NextEnd
<1>6. CASE \E w \in Tasks : Woken(w)
  BY <1>6, NextWoken
<1>7. CASE \E w \in Tasks : Raise(w)
  BY <1>7, NextRaise
<1>8. CASE Terminate
  <2>1. UNCHANGED pool /\ exited' = TRUE /\ closing' \in BOOLEAN /\ phase' = phase
    BY <1>8 DEF Terminate
  <2> QED BY <2>1, NextOthers
<1>9. CASE Send \/ Unmount \/ InvalidateAsync \/ NotifyTakes \/ NotifyReturns
  <2>1. UNCHANGED pool /\ UNCHANGED <<exited, closing>> /\ phase' = phase
    BY <1>9 DEF Send, Unmount, InvalidateAsync, NotifyTakes, NotifyReturns
  <2> QED BY <2>1, NextOthers
<1>10. CASE LeaveMain \/ Finally
  <2>1. UNCHANGED pool /\ UNCHANGED <<exited, closing>> /\ phase' \in {"finally", "closed"}
    BY <1>10 DEF LeaveMain, Finally
  <2> QED BY <2>1, NextOthers
<1>11. CASE RefresherSleeps \/ RefresherLoads \/ MaintainerCleans \/ MaintainerWakes
  <2>1. UNCHANGED pool /\ UNCHANGED <<exited, closing>> /\ phase' = phase
    BY <1>11 DEF RefresherSleeps, RefresherLoads, MaintainerCleans, MaintainerWakes
  <2> QED BY <2>1, NextOthers
<1>12. CASE UNCHANGED vars
  <2>1. UNCHANGED pool /\ UNCHANGED <<exited, closing>> /\ phase' = phase
    BY <1>12 DEF vars, pool
  <2> QED BY <2>1, NextOthers
<1> QED
  BY <1>1, <1>2, <1>3, <1>4, <1>5, <1>6, <1>7, <1>8, <1>9, <1>10, <1>11, <1>12 DEF Next, Poll
-----------------------------------------------------------------------------
(* What the kernel, the notify thread and the two others keep.             *)
DeviceInv ==
  /\ device \in [waiting : 0..MaxRequests, toSend : 0..MaxRequests,
                 interrupts : 0..MaxInterrupts, unmounted : BOOLEAN]
  /\ device.waiting + device.toSend <= MaxRequests

NotifyInv ==
  notify \in [at : {"none", "waits", "calls", "ended"}, queue : Seq({"entry", "stop"}),
             toCome : 0..MaxEntries]

ThreadsInv ==
  /\ refresher \in [at : {"loop", "sleeps", "ended"}, enabled : BOOLEAN]
  /\ maintainer \in [at : {"loop", "sleeps", "ended"}, enabled : BOOLEAN]

(* What they keep has its type at the start.                               *)
LEMMA InitOthers == Init => DeviceInv /\ NotifyInv /\ ThreadsInv
<1> SUFFICES ASSUME Init PROVE DeviceInv /\ NotifyInv /\ ThreadsInv
  OBVIOUS
<1>0. MaxRequests \in Nat /\ MaxInterrupts \in Nat /\ MaxEntries \in Nat
  BY PoolAssumption
<1>1. DeviceInv
  <2>1. device = [waiting |-> 0, toSend |-> MaxRequests, interrupts |-> MaxInterrupts, unmounted |-> FALSE]
    BY DEF Init
  <2> QED BY <1>0, <2>1 DEF DeviceInv
<1>2. NotifyInv
  <2>1. << >> \in Seq({"entry", "stop"}) /\ MaxEntries \in 0..MaxEntries
    BY <1>0
  <2> QED BY <2>1 DEF Init, NotifyInv
<1>3. ThreadsInv
  <2>1. /\ Thread \in [at : {"loop", "sleeps", "ended"}, enabled : BOOLEAN]
        /\ [Thread EXCEPT !.at = "ended"] \in [at : {"loop", "sleeps", "ended"}, enabled : BOOLEAN]
    BY DEF Thread
  <2>2. /\ refresher = Thread \/ refresher = [Thread EXCEPT !.at = "ended"]
        /\ maintainer = Thread \/ maintainer = [Thread EXCEPT !.at = "ended"]
    BY DEF Init
  <2> QED BY <2>1, <2>2 DEF ThreadsInv
<1> QED BY <1>1, <1>2, <1>3

(* The kernel: a request waits once, of those it was to send.              *)
LEMMA NextDevice == DeviceInv /\ [Next]_vars => DeviceInv'
<1> SUFFICES ASSUME DeviceInv, [Next]_vars PROVE DeviceInv'
  OBVIOUS
<1>0. MaxRequests \in Nat /\ MaxInterrupts \in Nat
  BY PoolAssumption
<1>1. CASE \E w \in Tasks : Receive(w)
  <2>1. device.waiting > 0 /\ device' = [device EXCEPT !.waiting = @ - 1]
    BY <1>1 DEF Receive
  <2>2. /\ device.waiting \in Nat /\ device.toSend \in Nat /\ device.waiting <= MaxRequests
        /\ device.waiting + device.toSend <= MaxRequests
    BY <1>0 DEF DeviceInv
  <2>3. device.waiting - 1 \in 0..MaxRequests /\ device.waiting - 1 + device.toSend <= MaxRequests
    BY <1>0, <2>1, <2>2
  <2>4. device'.waiting = device.waiting - 1 /\ device'.toSend = device.toSend
    BY <2>1 DEF DeviceInv
  <2>5. device' \in [waiting : 0..MaxRequests, toSend : 0..MaxRequests,
                     interrupts : 0..MaxInterrupts, unmounted : BOOLEAN]
    BY <2>1, <2>3 DEF DeviceInv
  <2> QED BY <2>3, <2>4, <2>5 DEF DeviceInv
<1>2. CASE \E w \in Tasks : Interrupted(w)
  <2>1. device.interrupts > 0 /\ device' = [device EXCEPT !.interrupts = @ - 1]
    BY <1>2 DEF Interrupted
  <2> QED BY <1>0, <2>1 DEF DeviceInv
<1>3. CASE Send
  <2>1. device.toSend > 0 /\ device' = [device EXCEPT !.toSend = @ - 1, !.waiting = @ + 1]
    BY <1>3 DEF Send
  <2>2. /\ device.waiting \in Nat /\ device.toSend \in Nat
        /\ device.waiting + device.toSend <= MaxRequests
    BY <1>0 DEF DeviceInv
  <2>3. /\ device.waiting + 1 \in 0..MaxRequests /\ device.toSend - 1 \in 0..MaxRequests
        /\ device.waiting + 1 + (device.toSend - 1) <= MaxRequests
    BY <1>0, <2>1, <2>2
  <2>4. device'.waiting = device.waiting + 1 /\ device'.toSend = device.toSend - 1
    BY <2>1 DEF DeviceInv
  <2>5. device' \in [waiting : 0..MaxRequests, toSend : 0..MaxRequests,
                     interrupts : 0..MaxInterrupts, unmounted : BOOLEAN]
    BY <2>1, <2>3 DEF DeviceInv
  <2> QED BY <2>3, <2>4, <2>5 DEF DeviceInv
<1>4. CASE Unmount
  <2>1. device' = [device EXCEPT !.unmounted = TRUE]
    BY <1>4 DEF Unmount
  <2> QED BY <1>0, <2>1 DEF DeviceInv
<1>5. CASE \E w \in Tasks : Begin(w) \/ Acquire(w) \/ ReceiveEnd(w) \/ Woken(w) \/ Finish(w) \/ Raise(w)
  <2>1. device' = device
    BY <1>5 DEF Begin, Acquire, ReceiveEnd, Woken, Finish, Raise
  <2> QED BY <2>1 DEF DeviceInv
<1>6. CASE Terminate \/ InvalidateAsync \/ NotifyTakes \/ NotifyReturns \/ LeaveMain \/ Finally
  <2>1. device' = device
    BY <1>6 DEF Terminate, InvalidateAsync, NotifyTakes, NotifyReturns, LeaveMain, Finally
  <2> QED BY <2>1 DEF DeviceInv
<1>7. CASE \/ RefresherSleeps \/ RefresherLoads \/ MaintainerCleans \/ MaintainerWakes
           \/ UNCHANGED vars
  <2>1. device' = device
    BY <1>7 DEF RefresherSleeps, RefresherLoads, MaintainerCleans, MaintainerWakes, vars
  <2> QED BY <2>1 DEF DeviceInv
<1> QED BY <1>1, <1>2, <1>3, <1>4, <1>5, <1>6, <1>7 DEF Next, Poll

(* The queue of the notify thread: appended to and taken from.             *)
LEMMA NextNotify == NotifyInv /\ [Next]_vars => NotifyInv'
<1> SUFFICES ASSUME NotifyInv, [Next]_vars PROVE NotifyInv'
  OBVIOUS
<1>0. MaxEntries \in Nat
  BY PoolAssumption
<1>1. notify.queue \in Seq({"entry", "stop"}) /\ notify.toCome \in 0..MaxEntries
  BY DEF NotifyInv
<1>2. CASE InvalidateAsync
  <2>1. Append(notify.queue, "entry") \in Seq({"entry", "stop"}) /\ notify.toCome - 1 \in 0..MaxEntries
    BY <1>0, <1>1, <1>2 DEF InvalidateAsync
  <2> QED BY <1>2, <2>1 DEF InvalidateAsync, NotifyInv
<1>3. CASE NotifyTakes
  <2>1. Tail(notify.queue) \in Seq({"entry", "stop"})
    BY <1>1, <1>3 DEF NotifyTakes
  <2> QED BY <1>3, <2>1 DEF NotifyTakes, NotifyInv
<1>4. CASE NotifyReturns
  BY <1>4 DEF NotifyReturns, NotifyInv
<1>5. CASE LeaveMain
  <2>1. Append(notify.queue, "stop") \in Seq({"entry", "stop"})
    BY <1>1
  <2> QED BY <1>5, <2>1 DEF LeaveMain, Stop, NotifyInv
<1>6. CASE \E w \in Tasks : Begin(w) \/ Acquire(w) \/ Receive(w) \/ Interrupted(w)
  <2>1. notify' = notify
    BY <1>6 DEF Begin, Acquire, Receive, Interrupted, Received, threads
  <2> QED BY <2>1 DEF NotifyInv
<1>7. CASE \E w \in Tasks : ReceiveEnd(w) \/ Woken(w) \/ Finish(w) \/ Raise(w)
  <2>1. notify' = notify
    BY <1>7 DEF ReceiveEnd, Received, Woken, Finish, Raise, threads
  <2> QED BY <2>1 DEF NotifyInv
<1>8. CASE Terminate \/ Send \/ Unmount \/ Finally
  <2>1. notify' = notify
    BY <1>8 DEF Terminate, Send, Unmount, Finally, threads
  <2> QED BY <2>1 DEF NotifyInv
<1>9. CASE \/ RefresherSleeps \/ RefresherLoads \/ MaintainerCleans \/ MaintainerWakes
           \/ UNCHANGED vars
  <2>1. notify' = notify
    BY <1>9 DEF RefresherSleeps, RefresherLoads, MaintainerCleans, MaintainerWakes, vars
  <2> QED BY <2>1 DEF NotifyInv
<1> QED BY <1>2, <1>3, <1>4, <1>5, <1>6, <1>7, <1>8, <1>9 DEF Next, Poll

(* The two other threads: their places and their flags.                    *)
LEMMA NextThreads == ThreadsInv /\ [Next]_vars => ThreadsInv'
<1> SUFFICES ASSUME ThreadsInv, [Next]_vars PROVE ThreadsInv'
  OBVIOUS
<1>1. CASE Finally
  BY <1>1 DEF Finally, ThreadsInv
<1>2. CASE RefresherSleeps \/ RefresherLoads
  BY <1>2 DEF RefresherSleeps, RefresherLoads, ThreadsInv
<1>3. CASE MaintainerCleans \/ MaintainerWakes
  BY <1>3 DEF MaintainerCleans, MaintainerWakes, ThreadsInv
<1>4. CASE \E w \in Tasks : Begin(w) \/ Acquire(w) \/ Receive(w) \/ Interrupted(w)
  <2>1. UNCHANGED <<refresher, maintainer>>
    BY <1>4 DEF Begin, Acquire, Receive, Interrupted, Received, threads
  <2> QED BY <2>1 DEF ThreadsInv
<1>5. CASE \E w \in Tasks : ReceiveEnd(w) \/ Woken(w) \/ Finish(w) \/ Raise(w)
  <2>1. UNCHANGED <<refresher, maintainer>>
    BY <1>5 DEF ReceiveEnd, Received, Woken, Finish, Raise, threads
  <2> QED BY <2>1 DEF ThreadsInv
<1>6. CASE \/ Terminate \/ Send \/ Unmount \/ InvalidateAsync \/ NotifyTakes \/ NotifyReturns
           \/ LeaveMain \/ UNCHANGED vars
  <2>1. UNCHANGED <<refresher, maintainer>>
    BY <1>6 DEF Terminate, Send, Unmount, InvalidateAsync, NotifyTakes, NotifyReturns,
                LeaveMain, threads, vars
  <2> QED BY <2>1 DEF ThreadsInv
<1> QED BY <1>1, <1>2, <1>3, <1>4, <1>5, <1>6 DEF Next, Poll
-----------------------------------------------------------------------------
(* The pool of tasks, in every state of the session.                       *)
LEMMA PoolHolds == Spec => []PoolInv
<1> QED BY InitPool, NextPool, PTL DEF Spec

(* A place that a task is at, in the words of the properties.              *)
LEMMA PlacesOfTasks ==
  Reads(task) = At("lock") \cup At("read") /\ Lives(task) = Tasks \ At("none")
BY DEF Reads, Lives, At

(* Every variable of the session keeps its type: the pool never counts     *)
(* more tasks than max_tasks nor fewer than none, and the kernel's requests *)
(* do not get more than were sent.                                          *)
THEOREM SessionTypeCorrect == Spec => []TypeOK
<1>1. PoolInv /\ DeviceInv /\ NotifyInv /\ ThreadsInv => TypeOK
  BY DEF PoolInv, DeviceInv, NotifyInv, ThreadsInv, TypeOK
<1> QED BY <1>1, InitPool, NextPool, InitOthers, NextDevice, NextNotify, NextThreads, PTL DEF Spec

(* active_readers and task_count of worker_data, which the tasks change by *)
(* hand as they start, wait, receive and end, are the numbers of those that *)
(* wait for a request and of those there are.                               *)
THEOREM CountersAreRight == Spec => []CountersRight
<1>1. PoolInv => CountersRight
  BY PlacesOfTasks DEF PoolInv, Right, CountersRight
<1> QED BY <1>1, PoolHolds, PTL

(* As long as the session goes on some task reads or will read, or all     *)
(* max_tasks tasks handle requests.                                         *)
THEOREM SomebodyAlwaysReads == Spec => []SomebodyReads
<1>1. PoolInv => SomebodyReads
  <2> SUFFICES ASSUME PoolInv, phase = "loop", ~exited
               PROVE  \/ At("new") \cup At("lock") \cup At("read") # {}
                      \/ taskCount = MaxTasks /\ Cardinality(At("handle")) = MaxTasks
    BY DEF SomebodyReads
  <2>1. Awake(task) \/ AllBusy(task, taskCount)
    BY DEF PoolInv
  <2>2. Awake(task) => At("new") \cup At("lock") \cup At("read") # {}
    BY DEF Awake, At
  <2>3. AllBusy(task, taskCount) => taskCount = MaxTasks /\ Cardinality(At("handle")) = MaxTasks
    BY DEF AllBusy, At
  <2> QED BY <2>1, <2>2, <2>3
<1> QED BY <1>1, PoolHolds, PTL

(* Tasks that have nothing to do leave the pool: whatever max_tasks is, no *)
(* more than min_tasks + 1 of them wait for a request.                      *)
THEOREM FewAreIdle == Spec => []FewIdle
<1>1. PoolInv => FewIdle
  BY PlacesOfTasks DEF PoolInv, FewIdle
<1> QED BY <1>1, PoolHolds, PTL
=============================================================================
