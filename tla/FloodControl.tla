---------------------------- MODULE FloodControl ----------------------------
(***************************************************************************)
(* The control of requests, option --enable-flood-control (_check_requests *)
(* and _control_requests_flood in src/fuse_degoo.py, and their call sites  *)
(* in `read` and `check_and_split_file`).  Only the FUSE thread passes it, *)
(* before it downloads a chunk or starts threads that do.                  *)
(*                                                                         *)
(* Time goes in ticks, and is kept as ages: how many ticks ago something   *)
(* was.  What is older than the period is forgotten, so that no bound on   *)
(* the time is needed.                                                     *)
(***************************************************************************)
EXTENDS Integers, FiniteSets

CONSTANTS
  MaxRequests,  \* _flood_max_requests
  Period,       \* _flood_time_to_check, in ticks
  SleepTime     \* _flood_sleep_time, in ticks

ASSUME FloodAssumption ==
  /\ MaxRequests \in Nat
  /\ Period \in Nat \ {0}
  /\ SleepTime \in Nat

VARIABLES
  requests_control,  \* how many requests of each age are in the list
  passed,            \* how many requests were let through that many ticks ago
  flood              \* where the FUSE thread is

floodVars == <<requests_control, passed, flood>>

(* The ages that `x >= last_minute` keeps in the list, before every use. *)
Counted == 0..Period

(* The ticks of one period, this one included. *)
Recent == 0..(Period - 1)

(* "read": in no check.  "asleep": in time.sleep, for `left` ticks more;    *)
(* `next` is where it goes on.  "split": the thread for the next chunk is   *)
(* started, and check_and_split_file is called.                             *)
Control == [pc : {"read", "asleep", "split"}, left : 0..SleepTime, next : {"read", "split"}]

Reading == [pc |-> "read", left |-> 0, next |-> "read"]

(* The requests that f counts at some ages, told apart by number. *)
Requests(f, ages) == UNION { {a} \X (1..f[a]) : a \in ages }

Total(f, ages) == Cardinality(Requests(f, ages))

FloodInit ==
  /\ requests_control = [a \in Counted |-> 0]
  /\ passed = [a \in Recent |-> 0]
  /\ flood = Reading

(* The request is let through: its downloads begin. *)
Pass(next) ==
  /\ passed' = [passed EXCEPT ![0] = @ + 1]
  /\ flood' = [Reading EXCEPT !.pc = next]

(* MUTANT: the list is counted before the request is added to it. *)
TooManyBefore == Total(requests_control, Counted) > MaxRequests

(* The request itself is in the list that is counted. *)
TooMany == Total(requests_control, Counted) + 1 > MaxRequests

(* _check_requests.  The request counts from now on, also when it is made  *)
(* only after the sleep.                                                    *)
CheckRequests(next) ==
  /\ requests_control' = [requests_control EXCEPT ![0] = @ + 1]
  /\ IF TooMany
     THEN /\ flood' = [pc |-> "asleep", left |-> SleepTime, next |-> next]
          /\ UNCHANGED passed
     ELSE Pass(next)

(* The chunk that is read is not there: the FUSE thread downloads it. *)
CheckFirst == flood.pc = "read" /\ CheckRequests("read")

(* The next chunk is downloaded by a thread. *)
CheckNext == flood.pc = "read" /\ CheckRequests("split")

(* check_and_split_file: one check for three threads. *)
CheckSplit == flood.pc = "split" /\ CheckRequests("read")

(* check_and_split_file finds nothing to do. *)
NothingSplit ==
  /\ flood.pc = "split"
  /\ flood' = Reading
  /\ UNCHANGED <<requests_control, passed>>

(* time.sleep returns; the list is not looked at again. *)
Wake ==
  /\ flood.pc = "asleep"
  /\ flood.left = 0
  /\ Pass(flood.next)
  /\ UNCHANGED requests_control

FloodStep == CheckFirst \/ CheckNext \/ CheckSplit \/ NothingSplit \/ Wake

(* One tick.  A sleep may last longer than it was asked to. *)
FloodTick ==
  /\ requests_control' =
       [a \in Counted |-> IF a = 0 THEN 0 ELSE requests_control[a - 1]]
  /\ passed' = [a \in Recent |-> IF a = 0 THEN 0 ELSE passed[a - 1]]
  /\ flood' = [flood EXCEPT !.left = IF @ > 0 THEN @ - 1 ELSE 0]

(* The list is a global of the process: a new process begins with none. *)
FloodReset ==
  /\ requests_control' = [a \in Counted |-> 0]
  /\ passed' = [a \in Recent |-> 0]
  /\ flood' = Reading
-----------------------------------------------------------------------------
FloodTypeOK ==
  /\ requests_control \in [Counted -> Nat]
  /\ passed \in [Recent -> Nat]
  /\ flood \in Control

(* When a sleep is as long as the period, as it is by default, at most one  *)
(* request above the maximum is let through in any period: one that was     *)
(* counted before its sleep and is made after it.                           *)
FloodKept == SleepTime >= Period => Total(passed, Recent) <= MaxRequests + 1
=============================================================================
