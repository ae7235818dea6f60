------------------------- MODULE FloodControlProofs -------------------------
(***************************************************************************)
(* TLAPS proofs about FloodControl as a part of ServiceCalls, for every    *)
(* maximum, period and sleep: how many requests are let through in any     *)
(* period.                                                                 *)
(***************************************************************************)
EXTENDS ServiceCallsProofs, FiniteSetTheorems

(* What is counted at finitely many ages is finite.                        *)
LEMMA RequestsFinite ==
  ASSUME NEW D, NEW f \in [D -> Nat], NEW A \in SUBSET D, IsFiniteSet(A)
  PROVE  IsFiniteSet(Requests(f, A)) /\ Total(f, A) \in Nat
<1> DEFINE at == [a \in A |-> {a} \X (1..f[a])]
           T  == { {a} \X (1..f[a]) : a \in A }
<1>1. at \in Surjection(A, T)
  BY DEF Surjection
<1>2. IsFiniteSet(T)
  BY <1>1, FS_Surjection
<1>3. ASSUME NEW a \in A PROVE IsFiniteSet({a} \X (1..f[a]))
  <2>1. IsFiniteSet({a})
    BY FS_Singleton
  <2>2. f[a] \in Int
    OBVIOUS
  <2>3. IsFiniteSet(1..f[a])
    BY <2>2, FS_Interval
  <2> QED BY <2>1, <2>3, FS_Product
<1>4. IsFiniteSet(UNION T)
  BY <1>2, <1>3, FS_UNION
<1> QED BY <1>4, FS_CardinalityType DEF Requests, Total

(* A request is a pair of an age and a number.                             *)
LEMMA RequestIs ==
  ASSUME NEW D, NEW f \in [D -> Nat], NEW A \in SUBSET D, NEW x
  PROVE  x \in Requests(f, A) <=>
           x = <<x[1], x[2]>> /\ x[1] \in A /\ x[2] \in 1..f[x[1]]
BY DEF Requests

(* At more ages there are no fewer.                                        *)
LEMMA TotalGrows ==
  ASSUME NEW D, NEW f \in [D -> Nat], NEW B \in SUBSET D, IsFiniteSet(B), NEW A \in SUBSET B
  PROVE  Total(f, A) <= Total(f, B)
<1>1. Requests(f, A) \in SUBSET Requests(f, B)
  BY DEF Requests
<1> QED BY <1>1, RequestsFinite, FS_Subset DEF Total

(* Ages among those that D has.                                            *)
Some(A, D) == A \subseteq D /\ IsFiniteSet(A)

(* g counts one request of age a more than f.                              *)
OneMore(f, g, a, D) ==
  /\ f \in [D -> Nat] /\ g \in [D -> Nat]
  /\ g = [f EXCEPT ![a] = @ + 1]

(* One more request at an age is one more at ages with this one among them. *)
LEMMA TotalOneMore ==
  ASSUME NEW D, NEW f, NEW g, NEW A, NEW a, OneMore(f, g, a, D), Some(A, D), a \in A
  PROVE  Total(f, A) \in Nat /\ Total(g, A) = Total(f, A) + 1
<1> DEFINE x == <<a, f[a] + 1>>
<1>0. /\ f \in [D -> Nat] /\ g \in [D -> Nat] /\ A \in SUBSET D /\ IsFiniteSet(A)
      /\ g = [f EXCEPT ![a] = @ + 1]
  BY DEF OneMore, Some
<1>1. f[a] \in Nat
  BY <1>0
<1>2. Requests(g, A) = Requests(f, A) \cup {x}
  <2>1. ASSUME NEW b \in A PROVE {b} \X (1..g[b]) = {b} \X (1..f[b]) \cup (IF b = a THEN {x} ELSE {})
    <3>1. CASE b = a
      <4>1. 1..g[b] = (1..f[b]) \cup {f[a] + 1}
        BY <1>0, <1>1, <3>1
      <4> QED BY <3>1, <4>1
    <3>2. CASE b # a
      <4>1. g[b] = f[b]
        BY <1>0, <3>2
      <4> QED BY <3>2, <4>1
    <3> QED BY <3>1, <3>2
  <2> HIDE DEF x
  <2>2. ASSUME NEW y PROVE y \in Requests(g, A) <=> y \in Requests(f, A) \cup {x}
    BY <2>1 DEF Requests
  <2> QED BY <2>2
<1>3. x \notin Requests(f, A)
  <2>1. ~(f[a] + 1 \in 1..f[a])
    BY <1>1
  <2> QED BY <1>0, <2>1, RequestIs
<1>4. IsFiniteSet(Requests(f, A))
  BY <1>0, RequestsFinite
<1> HIDE DEF x
<1>5. Cardinality(Requests(g, A)) = Cardinality(Requests(f, A)) + 1
  BY <1>2, <1>3, <1>4, FS_AddElement
<1> QED BY <1>0, <1>5, RequestsFinite DEF Total

(* Where nothing is counted there is nothing.                              *)
LEMMA TotalOfNone ==
  ASSUME NEW f, NEW A, \A a \in A : f[a] = 0
  PROVE  Total(f, A) = 0
<1>1. Requests(f, A) = {}
  BY DEF Requests
<1> QED BY <1>1, FS_EmptySet DEF Total

(* Up to the age k, g counts what f counts one age younger.                *)
Shifted(f, g, k, D) ==
  /\ f \in [D -> Nat] /\ g \in [D -> Nat]
  /\ 0..k \subseteq D
  /\ g[0] = 0 /\ \A a \in 1..k : g[a] = f[a - 1]

(* After a tick the first k + 1 ages have what the first k had.            *)
LEMMA TotalShifts ==
  ASSUME NEW D, NEW f, NEW g, NEW k \in Nat, Shifted(f, g, k, D)
  PROVE  Total(g, 0..k) = Total(f, 0..(k - 1))
<1>0. /\ f \in [D -> Nat] /\ g \in [D -> Nat]
      /\ 0..k \subseteq D
      /\ g[0] = 0 /\ \A a \in 1..k : g[a] = f[a - 1]
  BY DEF Shifted
<1> DEFINE S == Requests(f, 0..(k - 1))
           T == Requests(g, 0..k)
           h == [x \in S |-> <<x[1] + 1, x[2]>>]
<1>1. 0..(k - 1) \in SUBSET D /\ 0..k \in SUBSET D /\ IsFiniteSet(0..(k - 1))
  <2>1. 0..(k - 1) \in SUBSET (0..k) /\ k - 1 \in Int
    OBVIOUS
  <2>2. IsFiniteSet(0..(k - 1))
    BY <2>1, FS_Interval
  <2> QED BY <1>0, <2>1, <2>2
<1>2. IsFiniteSet(S)
  BY <1>0, <1>1, RequestsFinite
<1>3. ASSUME NEW x \in S PROVE h[x] \in T
  <2>1. x = <<x[1], x[2]>> /\ x[1] \in 0..(k - 1) /\ x[2] \in 1..f[x[1]]
    BY <1>0, <1>1, RequestIs
  <2>2. x[1] + 1 \in 1..k /\ g[x[1] + 1] = f[x[1]]
    BY <1>0, <2>1
  <2>3. h[x] = <<x[1] + 1, x[2]>> /\ x[1] + 1 \in 0..k
    BY <2>2
  <2> QED BY <1>1, <2>1, <2>2, <2>3 DEF Requests
<1>4. ASSUME NEW y \in T PROVE \E x \in S : h[x] = y
  <2>1. y = <<y[1], y[2]>> /\ y[1] \in 0..k /\ y[2] \in 1..g[y[1]]
    BY <1>0, <1>1, RequestIs
  <2>2. y[1] # 0
    BY <1>0, <2>1
  <2>3. y[1] \in 1..k /\ y[1] - 1 \in 0..(k - 1) /\ g[y[1]] = f[y[1] - 1]
    BY <1>0, <2>1, <2>2
  <2>4. <<y[1] - 1, y[2]>> \in S
    BY <1>0, <1>1, <2>1, <2>3, RequestIs
  <2>5. h[<<y[1] - 1, y[2]>>] = y
    BY <2>1, <2>3, <2>4
  <2> QED BY <2>4, <2>5
<1>5. ASSUME NEW x \in S, NEW y \in S, h[x] = h[y] PROVE x = y
  <2>1. x = <<x[1], x[2]>> /\ y = <<y[1], y[2]>> /\ x[1] \in Int /\ y[1] \in Int
    BY <1>0, <1>1, RequestIs
  <2>2. x[1] + 1 = y[1] + 1 /\ x[2] = y[2]
    BY <1>5
  <2> QED BY <2>1, <2>2
<1>6. h \in Bijection(S, T)
  <2> HIDE DEF S, T
  <2>1. h \in [S -> T]
    BY <1>3
  <2>2. h \in Injection(S, T)
    BY <1>5, <2>1 DEF Injection, IsInjective
  <2>3. h \in Surjection(S, T)
    BY <1>4, <2>1 DEF Surjection
  <2> QED BY <2>2, <2>3 DEF Bijection
<1> QED BY <1>2, <1>6, FS_Bijection DEF Total, ExistsBijection
-----------------------------------------------------------------------------
(* Why the bound holds.  Whatever part of a period one looks back, at most *)
(* one request more was let through than came in: one that slept through   *)
(* the period before.  While it sleeps nothing else is let through.        *)
Looked == \A k \in 0..Period :
  Total(passed, 0..(k - 1)) <= Total(requests_control, 0..(k - 1)) + 1

NonePassed ==
  flood.pc = "asleep" => \A a \in Recent : a < SleepTime - flood.left => passed[a] = 0

FloodInv == SleepTime >= Period => Looked /\ NonePassed /\ Total(passed, Recent) <= MaxRequests + 1

(* The counts, at first. *)
LEMMA InitFlood == FloodInit => FloodInv
<1> SUFFICES ASSUME FloodInit PROVE FloodInv
  OBVIOUS
<1>1. /\ \A a \in Recent : passed[a] = 0
      /\ \A a \in Counted : requests_control[a] = 0
      /\ flood.pc = "read"
  BY DEF FloodInit, Reading
<1>2. ASSUME NEW k \in 0..Period
      PROVE  Total(passed, 0..(k - 1)) = 0 /\ Total(requests_control, 0..(k - 1)) = 0
  <2>1. 0..(k - 1) \subseteq Recent /\ 0..(k - 1) \subseteq Counted
    BY FloodAssumption DEF Recent, Counted
  <2> QED BY <1>1, <2>1, TotalOfNone
<1>3. Total(passed, Recent) = 0
  BY <1>1, TotalOfNone
<1> QED BY <1>1, <1>2, <1>3, FloodAssumption DEF FloodInv, Looked, NonePassed

(* The ages that the totals of this module are about.                      *)
LEMMA Ages ==
  /\ Recent = 0..(Period - 1) /\ Recent \subseteq Counted /\ IsFiniteSet(Counted) /\ IsFiniteSet(Recent)
  /\ 0 \in Recent /\ Period \in Nat /\ MaxRequests \in Nat /\ SleepTime \in Nat
  /\ \A k \in 0..Period :
       /\ 0..(k - 1) \in SUBSET Recent /\ 0..(k - 1) \in SUBSET Counted /\ IsFiniteSet(0..(k - 1))
       /\ k = 0 => 0..(k - 1) = {}
       /\ k # 0 => 0 \in 0..(k - 1)
<1>1. Period \in Nat \ {0} /\ MaxRequests \in Nat /\ SleepTime \in Nat
  BY FloodAssumption
<1>2. IsFiniteSet(Counted) /\ IsFiniteSet(Recent)
  BY <1>1, FS_Interval DEF Counted, Recent
<1>3. Recent \subseteq Counted /\ 0 \in Recent
  BY <1>1 DEF Counted, Recent
<1>4. ASSUME NEW k \in 0..Period
      PROVE  /\ 0..(k - 1) \in SUBSET Recent /\ 0..(k - 1) \in SUBSET Counted
             /\ IsFiniteSet(0..(k - 1))
             /\ k = 0 => 0..(k - 1) = {}
             /\ k # 0 => 0 \in 0..(k - 1)
  <2>1. 0..(k - 1) \in SUBSET Recent
    BY <1>1 DEF Recent
  <2>2. IsFiniteSet(0..(k - 1))
    BY <1>2, <2>1, FS_Subset
  <2> QED BY <1>1, <1>3, <2>1, <2>2
<1> QED BY <1>1, <1>2, <1>3, <1>4 DEF Recent

(* One request more, of those that came in, at the first k ages.           *)
LEMMA OneMoreAt ==
  ASSUME NEW D \in {Recent, Counted}, NEW f, NEW g, OneMore(f, g, 0, D), NEW k \in 0..Period
  PROVE  /\ Total(f, 0..(k - 1)) \in Nat /\ Total(g, 0..(k - 1)) \in Nat
         /\ k = 0 => Total(f, 0..(k - 1)) = 0 /\ Total(g, 0..(k - 1)) = 0
         /\ k # 0 => Total(g, 0..(k - 1)) = Total(f, 0..(k - 1)) + 1
<1> DEFINE A == 0..(k - 1)
<1>1. Some(A, D)
  BY Ages DEF Some
<1> SUFFICES /\ Total(f, A) \in Nat /\ Total(g, A) \in Nat
             /\ k = 0 => Total(f, A) = 0 /\ Total(g, A) = 0
             /\ k # 0 => Total(g, A) = Total(f, A) + 1
  OBVIOUS
<1>2. k = 0 => A = {}
  BY Ages
<1>3. k # 0 => 0 \in A
  BY Ages
<1> HIDE DEF A
<1>5. CASE k = 0
  <2>1. Total(f, A) = 0 /\ Total(g, A) = 0
    BY <1>2, <1>5, TotalOfNone
  <2> QED BY <1>5, <2>1
<1>6. CASE k # 0
  <2>1. Total(f, A) \in Nat /\ Total(g, A) = Total(f, A) + 1
    BY <1>1, <1>3, <1>6, TotalOneMore
  <2> QED BY <1>6, <2>1
<1> QED BY <1>5, <1>6

(* A request that is let through without a sleep came in just now; the     *)
(* list with it held no more than the maximum.                             *)
LEMMA LetThrough ==
  ASSUME FloodTypeOK, FloodInv, NEW next \in {"read", "split"}, CheckRequests(next), flood.pc # "asleep", ~TooMany
  PROVE  FloodInv'
<1> SUFFICES ASSUME SleepTime >= Period
             PROVE  Looked' /\ NonePassed' /\ (Total(passed, Recent) <= MaxRequests + 1)'
  BY DEF FloodInv
<1>0. /\ OneMore(requests_control, requests_control', 0, Counted)
      /\ OneMore(passed, passed', 0, Recent)
  <2>1. /\ requests_control' = [requests_control EXCEPT ![0] = @ + 1]
        /\ passed' = [passed EXCEPT ![0] = @ + 1]
        /\ flood' = [Reading EXCEPT !.pc = next]
    BY DEF CheckRequests, Pass
  <2>2. requests_control \in [Counted -> Nat] /\ passed \in [Recent -> Nat]
    BY DEF FloodTypeOK
  <2>3. requests_control' \in [Counted -> Nat] /\ passed' \in [Recent -> Nat]
    BY <2>1, <2>2, Ages
  <2> QED BY <2>1, <2>2, <2>3 DEF OneMore
<1>00. requests_control \in [Counted -> Nat]
  BY DEF FloodTypeOK
<1>1. Looked'
  <2>0. Recent \in {Recent, Counted} /\ Counted \in {Recent, Counted}
    OBVIOUS
  <2>1. ASSUME NEW k \in 0..Period
        PROVE  Total(passed', 0..(k - 1)) <= Total(requests_control', 0..(k - 1)) + 1
    <3>1. Total(passed, 0..(k - 1)) <= Total(requests_control, 0..(k - 1)) + 1
      BY DEF FloodInv, Looked
    <3>2. /\ Total(passed, 0..(k - 1)) \in Nat /\ Total(passed', 0..(k - 1)) \in Nat
          /\ k = 0 => Total(passed, 0..(k - 1)) = 0 /\ Total(passed', 0..(k - 1)) = 0
          /\ k # 0 => Total(passed', 0..(k - 1)) = Total(passed, 0..(k - 1)) + 1
      BY <1>0, <2>0, OneMoreAt
    <3>3. /\ Total(requests_control, 0..(k - 1)) \in Nat /\ Total(requests_control', 0..(k - 1)) \in Nat
          /\ k # 0 => Total(requests_control', 0..(k - 1)) = Total(requests_control, 0..(k - 1)) + 1
      BY <1>0, <2>0, OneMoreAt
    <3> QED BY <3>1, <3>2, <3>3
  <2> QED BY <2>1 DEF Looked
<1>2. NonePassed'
  <2>1. flood' = [Reading EXCEPT !.pc = next]
    BY DEF CheckRequests, Pass
  <2> QED BY <2>1 DEF NonePassed, Reading
<1>3. Total(passed', Recent) <= MaxRequests + 1
  <2>1. /\ Total(passed', Recent) = Total(passed, Recent) + 1
        /\ Total(passed, Recent) \in Nat
    <3>1. Some(Recent, Recent) /\ 0 \in Recent
      BY Ages DEF Some
    <3> QED BY <1>0, <3>1, TotalOneMore
  <2>2. Total(passed, Recent) <= Total(requests_control, Recent) + 1
    BY Ages DEF FloodInv, Looked
  <2>3. /\ Total(requests_control, Recent) <= Total(requests_control, Counted)
        /\ Total(requests_control, Recent) \in Nat /\ Total(requests_control, Counted) \in Nat
    <3>1. Counted \in SUBSET Counted
      OBVIOUS
    <3>2. Total(requests_control, Recent) <= Total(requests_control, Counted)
      BY <1>00, <3>1, Ages, TotalGrows
    <3>3. Total(requests_control, Recent) \in Nat /\ Total(requests_control, Counted) \in Nat
      BY <1>00, <3>1, Ages, RequestsFinite
    <3> QED BY <3>2, <3>3
  <2>4. Total(requests_control, Counted) + 1 <= MaxRequests
    BY <2>3, Ages DEF TooMany
  <2> QED BY <2>1, <2>2, <2>3, <2>4, Ages
<1> QED BY <1>1, <1>2, <1>3

(* A request that has to wait only adds to the list.                       *)
LEMMA HeldBack ==
  ASSUME FloodTypeOK, FloodInv, NEW next, CheckRequests(next), TooMany
  PROVE  FloodInv'
<1> SUFFICES ASSUME SleepTime >= Period
             PROVE  Looked' /\ NonePassed' /\ (Total(passed, Recent) <= MaxRequests + 1)'
  BY DEF FloodInv
<1>0. /\ requests_control' = [requests_control EXCEPT ![0] = @ + 1]
      /\ passed' = passed
      /\ flood' = [pc |-> "asleep", left |-> SleepTime, next |-> next]
  BY DEF CheckRequests
<1>1. OneMore(requests_control, requests_control', 0, Counted)
  <2>1. requests_control \in [Counted -> Nat]
    BY DEF FloodTypeOK
  <2>2. requests_control' \in [Counted -> Nat]
    BY <1>0, <2>1, Ages
  <2> QED BY <1>0, <2>1, <2>2 DEF OneMore
<1>2. Looked'
  <2>0. Counted \in {Recent, Counted}
    OBVIOUS
  <2>1. ASSUME NEW k \in 0..Period
        PROVE  Total(passed, 0..(k - 1)) <= Total(requests_control', 0..(k - 1)) + 1
    <3>1. Total(passed, 0..(k - 1)) <= Total(requests_control, 0..(k - 1)) + 1
      BY DEF FloodInv, Looked
    <3>2. Total(passed, 0..(k - 1)) \in Nat
      BY Ages, RequestsFinite DEF FloodTypeOK
    <3>3. /\ Total(requests_control, 0..(k - 1)) \in Nat /\ Total(requests_control', 0..(k - 1)) \in Nat
          /\ Total(requests_control, 0..(k - 1)) <= Total(requests_control', 0..(k - 1))
      BY <1>1, <2>0, OneMoreAt
    <3> QED BY <3>1, <3>2, <3>3
  <2> QED BY <1>0, <2>1 DEF Looked
<1>3. NonePassed'
  <2>1. SleepTime - flood'.left = 0
    BY <1>0, Ages
  <2> QED BY <2>1, Ages DEF NonePassed, Recent
<1>4. Total(passed', Recent) <= MaxRequests + 1
  BY <1>0 DEF FloodInv
<1> QED BY <1>2, <1>3, <1>4

(* After the sleep the request is the only one of the period.              *)
LEMMA WakesAlone == FloodTypeOK /\ FloodInv /\ Wake => FloodInv'
<1> SUFFICES ASSUME FloodTypeOK, FloodInv, Wake, SleepTime >= Period
             PROVE  Looked' /\ NonePassed' /\ (Total(passed, Recent) <= MaxRequests + 1)'
  BY DEF FloodInv
<1>0. /\ requests_control' = requests_control
      /\ passed' = [passed EXCEPT ![0] = @ + 1]
      /\ flood' = [Reading EXCEPT !.pc = flood.next]
      /\ flood.pc = "asleep" /\ flood.left = 0 /\ flood.next \in {"read", "split"}
      /\ requests_control \in [Counted -> Nat] /\ passed \in [Recent -> Nat]
  BY DEF Wake, Pass, FloodTypeOK, Control
<1>1. OneMore(passed, passed', 0, Recent)
  <2>1. passed' \in [Recent -> Nat]
    BY <1>0, Ages
  <2> QED BY <1>0, <2>1 DEF OneMore
<1>2. \A a \in Recent : passed[a] = 0
  <2>1. NonePassed
    BY DEF FloodInv
  <2>2. \A a \in Recent : a < SleepTime - flood.left
    BY <1>0, Ages
  <2> QED BY <1>0, <2>1, <2>2 DEF NonePassed
<1>3. Looked'
  <2>0. Recent \in {Recent, Counted}
    OBVIOUS
  <2>1. ASSUME NEW k \in 0..Period
        PROVE  Total(passed', 0..(k - 1)) <= Total(requests_control, 0..(k - 1)) + 1
    <3>1. Total(passed, 0..(k - 1)) = 0
      BY <1>2, Ages, TotalOfNone
    <3>2. Total(passed', 0..(k - 1)) \in {0, 1}
      BY <1>1, <2>0, <3>1, OneMoreAt
    <3>3. Total(requests_control, 0..(k - 1)) \in Nat
      BY <1>0, Ages, RequestsFinite
    <3> QED BY <3>2, <3>3
  <2> QED BY <1>0, <2>1 DEF Looked
<1>4. NonePassed'
  BY <1>0 DEF NonePassed, Reading
<1>5. Total(passed', Recent) <= MaxRequests + 1
  <2>1. Some(Recent, Recent) /\ 0 \in Recent
    BY Ages DEF Some
  <2>2. Total(passed, Recent) = 0
    BY <1>2, TotalOfNone
  <2>3. Total(passed', Recent) = 1
    BY <1>1, <2>1, <2>2, TotalOneMore
  <2> QED BY <2>3, Ages
<1> QED BY <1>3, <1>4, <1>5

(* A tick makes every request one older; the oldest are forgotten.         *)
LEMMA TickKeeps == FloodTypeOK /\ FloodInv /\ FloodTick => FloodInv'
<1> SUFFICES ASSUME FloodTypeOK, FloodInv, FloodTick, SleepTime >= Period
             PROVE  Looked' /\ NonePassed' /\ (Total(passed, Recent) <= MaxRequests + 1)'
  BY DEF FloodInv
<1>0. requests_control \in [Counted -> Nat] /\ passed \in [Recent -> Nat] /\ flood \in Control
  BY DEF FloodTypeOK
<1>1. requests_control' \in [Counted -> Nat] /\ passed' \in [Recent -> Nat]
  BY FloodType DEF FloodTypeOK
<1>2. ASSUME NEW k \in Nat, k < Period
      PROVE  /\ Total(passed', 0..k) = Total(passed, 0..(k - 1))
             /\ Total(requests_control', 0..k) = Total(requests_control, 0..(k - 1))
  <2>1. 0..k \subseteq Recent /\ 0..k \subseteq Counted
    BY <1>2, Ages DEF Counted
  <2>2. passed'[0] = 0 /\ \A a \in 1..k : passed'[a] = passed[a - 1]
    BY <2>1, Ages DEF FloodTick
  <2>3. requests_control'[0] = 0 /\ \A a \in 1..k : requests_control'[a] = requests_control[a - 1]
    BY <2>1, Ages DEF FloodTick
  <2>4. Total(passed', 0..k) = Total(passed, 0..(k - 1))
    <3>1. Shifted(passed, passed', k, Recent)
      BY <1>0, <1>1, <2>1, <2>2 DEF Shifted
    <3> QED BY <3>1, TotalShifts
  <2>5. Total(requests_control', 0..k) = Total(requests_control, 0..(k - 1))
    <3>1. Shifted(requests_control, requests_control', k, Counted)
      BY <1>0, <1>1, <2>1, <2>3 DEF Shifted
    <3> QED BY <3>1, TotalShifts
  <2> QED BY <2>4, <2>5
<1>3. Looked'
  <2>1. ASSUME NEW k \in 0..Period
        PROVE  Total(passed', 0..(k - 1)) <= Total(requests_control', 0..(k - 1)) + 1
    <3>1. CASE k = 0
      <4>1. 0..(k - 1) = {}
        BY <3>1
      <4>2. Total(passed', 0..(k - 1)) = 0 /\ Total(requests_control', 0..(k - 1)) = 0
        BY <4>1, TotalOfNone
      <4> QED BY <4>2
    <3>2. CASE k # 0
      <4>1. k - 1 \in Nat /\ k - 1 < Period /\ k - 1 \in 0..Period
        BY <3>2, Ages
      <4>2. Total(passed, 0..((k - 1) - 1)) <= Total(requests_control, 0..((k - 1) - 1)) + 1
        BY <4>1 DEF FloodInv, Looked
      <4> QED BY <1>2, <4>1, <4>2
    <3> QED BY <3>1, <3>2
  <2> QED BY <2>1, Ages DEF Looked
<1>4. NonePassed'
  <2>1. SUFFICES ASSUME flood'.pc = "asleep", NEW a \in Recent, a < SleepTime - flood'.left
                 PROVE  passed'[a] = 0
    BY DEF NonePassed
  <2>2. /\ flood.pc = "asleep" /\ flood.left \in Nat
        /\ flood'.left = IF flood.left > 0 THEN flood.left - 1 ELSE 0
        /\ flood'.left \in Nat
    BY <1>0, <2>1, Ages DEF FloodTick, Control
  <2>3. a # 0 => a - 1 \in Recent /\ a - 1 < SleepTime - flood.left
    BY <2>1, <2>2, Ages
  <2>4. a # 0 => passed[a - 1] = 0
    BY <2>2, <2>3 DEF FloodInv, NonePassed
  <2> QED BY <2>4 DEF FloodTick
<1>5. Total(passed', Recent) <= MaxRequests + 1
  <2>1. Period - 1 \in Nat /\ Period - 1 < Period
    BY FloodAssumption
  <2>2. Total(passed', Recent) = Total(passed, 0..((Period - 1) - 1))
    BY <1>2, <2>1, Ages
  <2>3. 0..((Period - 1) - 1) \in SUBSET Recent /\ Recent \in SUBSET Recent
    BY <2>1, Ages
  <2>4. Total(passed, 0..((Period - 1) - 1)) <= Total(passed, Recent)
    BY <1>0, <2>3, Ages, TotalGrows
  <2>5. Total(passed, 0..((Period - 1) - 1)) \in Nat /\ Total(passed, Recent) \in Nat
    <3>1. IsFiniteSet(0..((Period - 1) - 1))
      BY <2>3, Ages, FS_Subset
    <3> QED BY <1>0, <2>3, <3>1, Ages, RequestsFinite
  <2>6. Total(passed, Recent) <= MaxRequests + 1
    BY DEF FloodInv
  <2> QED BY <2>2, <2>4, <2>5, <2>6, Ages
<1> QED BY <1>3, <1>4, <1>5

(* The counts, by any step. *)
LEMMA FloodInvKept == FloodTypeOK /\ FloodInv /\ [Next]_vars => FloodInv'
<1> SUFFICES ASSUME FloodTypeOK, FloodInv, [Next]_vars PROVE FloodInv'
  OBVIOUS
<1>1. ASSUME NEW next \in {"read", "split"}, CheckRequests(next), flood.pc # "asleep"
      PROVE  FloodInv'
  BY <1>1, LetThrough, HeldBack
<1>2. CASE FloodStep
  <2>1. CASE CheckFirst \/ CheckNext \/ CheckSplit
    BY <1>1, <2>1 DEF CheckFirst, CheckNext, CheckSplit
  <2>2. CASE NothingSplit
    <3>1. flood'.pc # "asleep" /\ UNCHANGED <<requests_control, passed>>
      BY <2>2 DEF NothingSplit, Reading
    <3> QED BY <3>1 DEF FloodInv, Looked, NonePassed
  <2>3. CASE Wake
    BY <2>3, WakesAlone
  <2> QED BY <1>2, <2>1, <2>2, <2>3 DEF FloodStep
<1>3. CASE FloodTick
  BY <1>3, TickKeeps
<1>4. CASE FloodReset
  <2>1. /\ \A a \in Recent : passed'[a] = 0
        /\ \A a \in Counted : requests_control'[a] = 0
        /\ flood'.pc = "read"
    BY <1>4 DEF FloodReset, Reading
  <2>2. Total(passed', Recent) = 0 /\ \A k \in 0..Period :
          Total(passed', 0..(k - 1)) = 0 /\ Total(requests_control', 0..(k - 1)) = 0
    <3>1. Total(passed', Recent) = 0
      BY <2>1, TotalOfNone
    <3>2. ASSUME NEW k \in 0..Period
          PROVE  Total(passed', 0..(k - 1)) = 0 /\ Total(requests_control', 0..(k - 1)) = 0
      <4>1. 0..(k - 1) \in SUBSET Recent /\ 0..(k - 1) \in SUBSET Counted
        BY Ages
      <4> QED BY <2>1, <4>1, TotalOfNone
    <3> QED BY <3>1, <3>2
  <2> QED BY <2>1, <2>2, Ages DEF FloodInv, Looked, NonePassed
<1>5. CASE UNCHANGED floodVars
  BY <1>5 DEF floodVars, FloodInv, Looked, NonePassed
<1> QED BY <1>2, <1>3, <1>4, <1>5, FloodSteps

(* When a sleep of the control is as long as its period, no period lets    *)
(* through more than one request above the maximum (_check_requests).      *)
THEOREM FloodIsKept == Spec => []FloodKept
<1>1. Init => FloodInv
  BY InitFlood DEF Init
<1>2. TypeOK => FloodTypeOK
  BY DEF TypeOK
<1>3. FloodInv => FloodKept
  BY DEF FloodInv, FloodKept
<1> QED BY <1>1, <1>2, <1>3, FloodInvKept, CallsTypeCorrect, PTL DEF Spec
=============================================================================
