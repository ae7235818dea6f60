------------------------- MODULE ServiceCallsProofs -------------------------
(***************************************************************************)
(* TLAPS proofs about ServiceCalls, for every number of threads, every     *)
(* life and length of tokens, and every setting of the control.            *)
(***************************************************************************)
EXTENDS ServiceCalls, TLAPS

(* What is written over the file gives a file. *)
LEMMA OverType ==
  ASSUME keys \in File, NEW k \in Keys
  PROVE  /\ Over(k) \in File
         /\ Over(k).written = k
         /\ Over(k).length >= Length(k)
         /\ Over(k).length = Length(k) \/ Over(k).length = keys.length
<1>1. Length(k) \in {0, 1} \cup { s + 1 : s \in Sizes }
  BY DEF Length, Keys, Token, NoToken
<1>2. keys.length \in {0, 1} \cup { s + 1 : s \in Sizes }
  BY DEF File
<1>3. Length(k) \in Nat /\ keys.length \in Nat
  BY <1>1, <1>2, TokensAssumption
<1> QED BY <1>1, <1>2, <1>3 DEF Over, File

(* An older token is a token of the same text. *)
LEMMA OlderType ==
  ASSUME NEW t \in Token
  PROVE  Older(t) \in Token /\ Older(t).size = t.size
<1>1. CASE t = NoToken
  BY <1>1 DEF Older, Token, NoToken
<1>2. CASE t \in [life : 0..Life, size : Sizes]
  BY <1>2, TokensAssumption DEF Older, Token
<1> QED BY <1>1, <1>2 DEF Token

(* The control of requests keeps its types. *)
LEMMA FloodType ==
  ASSUME FloodTypeOK, FloodStep \/ FloodTick \/ FloodReset \/ UNCHANGED floodVars
  PROVE  FloodTypeOK'
<1>0. 0 \in Counted /\ 0 \in Recent /\ SleepTime \in Nat
  BY FloodAssumption DEF Counted, Recent
<1>1. ASSUME NEW next \in {"read", "split"},
             CheckRequests(next) \/ (Pass(next) /\ UNCHANGED requests_control)
      PROVE  FloodTypeOK'
  <2>1. requests_control' \in [Counted -> Nat]
    BY <1>0, <1>1 DEF CheckRequests, FloodTypeOK
  <2>2. passed' \in [Recent -> Nat]
    BY <1>0, <1>1 DEF CheckRequests, Pass, FloodTypeOK
  <2>3. flood' \in Control
    BY <1>0, <1>1 DEF CheckRequests, Pass, FloodTypeOK, Control, Reading
  <2> QED BY <2>1, <2>2, <2>3 DEF FloodTypeOK
<1>2. CASE FloodStep
  <2>1. CASE CheckFirst \/ CheckNext \/ CheckSplit
    BY <1>1, <2>1 DEF CheckFirst, CheckNext, CheckSplit
  <2>2. CASE NothingSplit
    BY <1>0, <2>2 DEF NothingSplit, FloodTypeOK, Control, Reading
  <2>3. CASE Wake
    <3>1. flood.next \in {"read", "split"}
      BY DEF FloodTypeOK, Control
    <3> QED BY <1>1, <2>3, <3>1 DEF Wake
  <2> QED BY <1>2, <2>1, <2>2, <2>3 DEF FloodStep
<1>3. CASE FloodTick
  <2>1. requests_control' \in [Counted -> Nat]
    <3>1. \A a \in Counted : a # 0 => a - 1 \in Counted
      BY FloodAssumption DEF Counted
    <3> QED BY <1>3, <3>1 DEF FloodTick, FloodTypeOK
  <2>2. passed' \in [Recent -> Nat]
    <3>1. \A a \in Recent : a # 0 => a - 1 \in Recent
      BY FloodAssumption DEF Recent
    <3> QED BY <1>3, <3>1 DEF FloodTick, FloodTypeOK
  <2>3. flood' \in Control
    BY <1>0, <1>3 DEF FloodTick, FloodTypeOK, Control
  <2> QED BY <2>1, <2>2, <2>3 DEF FloodTypeOK
<1>4. CASE FloodReset
  BY <1>0, <1>4 DEF FloodReset, FloodTypeOK, Control, Reading
<1>5. CASE UNCHANGED floodVars
  BY <1>5 DEF floodVars, FloodTypeOK
<1> QED BY <1>2, <1>3, <1>4, <1>5

(* What can happen to the keys and the calls in one step. *)
LEMMA TokenSteps ==
  ASSUME [Next]_vars
  PROVE  \/ \E c \in Callers : Begin(c) \/ CallStep(c)
         \/ TokensTick
         \/ Start \/ StartConfig \/ FinishConfig \/ Kill
         \/ UNCHANGED tokenVars
BY DEF Next, vars, PassControl, Query, Tick, Process

(* ... and to the control. *)
LEMMA FloodSteps ==
  ASSUME [Next]_vars
  PROVE  FloodStep \/ FloodTick \/ FloodReset \/ UNCHANGED floodVars
BY DEF Next, vars, PassControl, Query, Tick, Process

(* A step of a call keeps the types of the keys. *)
LEMMA CallType ==
  ASSUME TokensTypeOK, NEW c \in Callers, Begin(c) \/ CallStep(c)
  PROVE  TokensTypeOK'
<1>0. /\ KEYS \in Keys /\ keys \in File /\ call \in [Callers -> Call]
      /\ process \in {"down", "config", "up"}
      /\ call[c] \in Call /\ KEYS.token \in Token
  BY DEF TokensTypeOK, Keys
<1>1. NoCall \in Call
  BY DEF NoCall, Call, Token
<1>2. CASE Begin(c)
  <2>1. [NoCall EXCEPT !.pc = "token"] \in Call
    BY <1>1 DEF Call
  <2> QED BY <1>0, <1>2, <2>1 DEF Begin, TokensTypeOK
<1>3. CASE GetToken(c)
  <2>1. PICK pc \in {"renew", "send"} : call' = [call EXCEPT ![c].pc = pc]
    BY <1>3 DEF GetToken, Goto
  <2>2. [call[c] EXCEPT !.pc = pc] \in Call
    BY <1>0 DEF Call
  <2> QED BY <1>0, <1>3, <2>1, <2>2 DEF GetToken, TokensTypeOK
<1>4. CASE Refuse(c)
  <2>1. [call[c] EXCEPT !.pc = "send", !.failed = TRUE] \in Call
    BY <1>0 DEF Call
  <2> QED BY <1>0, <1>4, <2>1 DEF Refuse, TokensTypeOK
<1>5. CASE Grant(c)
  <2>1. PICK s \in Sizes :
          call' = [call EXCEPT ![c].pc = "store", ![c].token = [life |-> Life, size |-> s]]
    BY <1>5 DEF Grant
  <2>2. [life |-> Life, size |-> s] \in Token
    BY TokensAssumption DEF Token
  <2>3. [call[c] EXCEPT !.pc = "store", !.token = [life |-> Life, size |-> s]] \in Call
    BY <1>0, <2>2 DEF Call
  <2> QED BY <1>0, <1>5, <2>1, <2>3 DEF Grant, TokensTypeOK
<1>6. CASE StoreToken(c)
  <2>1. [call[c] EXCEPT !.pc = "open"] \in Call /\ call[c].token \in Token
    BY <1>0 DEF Call
  <2>2. [KEYS EXCEPT !.token = call[c].token] \in Keys
    BY <1>0, <2>1 DEF Keys
  <2> QED BY <1>0, <1>6, <2>1, <2>2 DEF StoreToken, Goto, TokensTypeOK
<1>7. CASE OpenKeys(c)
  <2>1. [call[c] EXCEPT !.pc = "write"] \in Call
    BY <1>0 DEF Call
  <2>2. Truncated \in File
    BY <1>0 DEF Truncated, File
  <2> QED BY <1>0, <1>7, <2>1, <2>2 DEF OpenKeys, Goto, TokensTypeOK
<1>8. CASE WriteKeys(c)
  <2>1. [call[c] EXCEPT !.pc = "send"] \in Call
    BY <1>0 DEF Call
  <2>2. [token |-> call[c].token, refresh |-> KEYS.refresh] \in Keys
    BY <1>0 DEF Call, Keys
  <2> QED BY <1>0, <1>8, <2>1, <2>2, OverType DEF WriteKeys, Goto, TokensTypeOK
<1>9. CASE Send(c)
  <2>1. [call[c] EXCEPT !.pc = "sent", !.token = KEYS.token] \in Call
    BY <1>0 DEF Call
  <2> QED BY <1>0, <1>9, <2>1 DEF Send, TokensTypeOK
<1>10. CASE EndCall(c)
  BY <1>0, <1>1, <1>10 DEF EndCall, TokensTypeOK
<1> QED
  BY <1>2, <1>3, <1>4, <1>5, <1>6, <1>7, <1>8, <1>9, <1>10 DEF CallStep

(* So does every other step. *)
LEMMA TokensType == TokensTypeOK /\ [Next]_vars => TokensTypeOK'
<1> SUFFICES ASSUME TokensTypeOK, [Next]_vars PROVE TokensTypeOK'
  OBVIOUS
<1>0. /\ KEYS \in Keys /\ keys \in File /\ call \in [Callers -> Call]
      /\ process \in {"down", "config", "up"}
      /\ KEYS.token \in Token /\ keys.written \in Keys /\ keys.written.token \in Token
  BY DEF TokensTypeOK, Keys, File
<1>1. NoCall \in Call /\ NoToken \in Token
  BY DEF NoCall, Call, Token
<1>2. ASSUME NEW c \in Callers, Begin(c) \/ CallStep(c) PROVE TokensTypeOK'
  BY <1>2, CallType
<1>3. CASE TokensTick
  <2>1. Older(KEYS.token) \in Token /\ Older(keys.written.token) \in Token
    BY <1>0, OlderType
  <2>2. [KEYS EXCEPT !.token = Older(KEYS.token)] \in Keys
    BY <1>0, <2>1 DEF Keys
  <2>3. [keys EXCEPT !.written.token = Older(keys.written.token)] \in File
    BY <1>0, <2>1 DEF Keys, File
  <2> QED BY <1>0, <1>3, <2>2, <2>3 DEF TokensTick, TokensTypeOK
<1>4. CASE Start
  BY <1>0, <1>4 DEF Start, Load, TokensTypeOK
<1>5. CASE StartConfig
  <2>1. Truncated \in File
    BY <1>0 DEF Truncated, File
  <2> QED BY <1>0, <1>5, <2>1 DEF StartConfig, TokensTypeOK
<1>6. CASE FinishConfig
  <2>1. [token |-> NoToken, refresh |-> TRUE] \in Keys
    BY <1>1 DEF Keys
  <2> QED BY <1>0, <1>6, <2>1, OverType DEF FinishConfig, TokensTypeOK
<1>7. CASE Kill
  <2>1. [token |-> NoToken, refresh |-> FALSE] \in Keys
    BY <1>1 DEF Keys
  <2> QED BY <1>0, <1>1, <1>7, <2>1 DEF Kill, TokensTypeOK
<1>8. CASE UNCHANGED tokenVars
  BY <1>8 DEF tokenVars, TokensTypeOK
<1> QED BY <1>2, <1>3, <1>4, <1>5, <1>6, <1>7, <1>8, TokenSteps

LEMMA InitType == Init => TypeOK
<1> SUFFICES ASSUME Init PROVE TypeOK
  OBVIOUS
<1>1. FloodTypeOK
  BY FloodAssumption DEF Init, FloodInit, FloodTypeOK, Control, Reading
<1>2. TokensTypeOK
  BY DEF Init, TokensInit, TokensTypeOK, Keys, File, Token, NoCall, Call
<1> QED BY <1>1, <1>2 DEF TypeOK

(* The keys, the file, the calls and the control keep their types. *)
THEOREM CallsTypeCorrect == Spec => []TypeOK
<1>1. TypeOK /\ [Next]_vars => TypeOK'
  BY FloodSteps, FloodType, TokensType DEF TypeOK
<1> QED BY <1>1, InitType, PTL DEF Spec
-----------------------------------------------------------------------------
(* Why a query is sent with a token that has not expired: from the moment a *)
(* token is granted until it is read for a query no tick passes, so that a  *)
(* thread that finds KEYS["Token"] replaced finds one as good as its own.   *)
FreshCall(c) ==
  /\ call[c].pc \in {"store", "open", "write"} => call[c].token.life = Life
  /\ call[c].pc \in {"open", "write"} => ~Expired(KEYS.token)
  /\ call[c].pc = "send" /\ ~call[c].failed => ~Expired(KEYS.token)
  /\ call[c].pc = "sent" /\ Expired(call[c].token) => call[c].failed
  /\ call[c].pc # "idle" => process = "up"

FreshInv == TypeOK /\ \A c \in Callers : FreshCall(c)

(* A step of one call leaves the other calls as they are, and any token it *)
(* stores has all its life.                                                *)
LEMMA OthersFresh ==
  ASSUME FreshInv, NEW c \in Callers, Begin(c) \/ CallStep(c), NEW d \in Callers, d # c
  PROVE  FreshCall(d)'
<1>0. call \in [Callers -> Call] /\ KEYS \in Keys /\ FreshCall(c) /\ FreshCall(d)
  BY DEF FreshInv, TypeOK, TokensTypeOK
<1>1. call'[d] = call[d]
  BY <1>0 DEF Begin, CallStep, GetToken, Refuse, Grant, StoreToken, OpenKeys, WriteKeys,
              Send, EndCall, Goto
<1>2. UNCHANGED process
  BY DEF Begin, CallStep, GetToken, Refuse, Grant, StoreToken, OpenKeys, WriteKeys,
         Send, EndCall
<1>3. UNCHANGED KEYS \/ (KEYS'.token = call[c].token /\ call[c].pc = "store")
  BY <1>0 DEF Begin, CallStep, GetToken, Refuse, Grant, StoreToken, OpenKeys, WriteKeys,
              Send, EndCall, Keys
<1>4. Expired(KEYS'.token) => Expired(KEYS.token)
  BY <1>0, <1>3, TokensAssumption DEF FreshCall, Expired
<1> QED BY <1>0, <1>1, <1>2, <1>4 DEF FreshCall

(* The call that takes the step stays fresh. *)
LEMMA OwnFresh ==
  ASSUME FreshInv, NEW c \in Callers, Begin(c) \/ CallStep(c)
  PROVE  FreshCall(c)'
<1>0. /\ call \in [Callers -> Call] /\ KEYS \in Keys /\ FreshCall(c) /\ call[c] \in Call
  BY DEF FreshInv, TypeOK, TokensTypeOK
<1>1. CASE Begin(c)
  BY <1>0, <1>1 DEF Begin, FreshCall, NoCall
<1>2. CASE GetToken(c)
  <2>1. /\ call'[c].pc = IF MustRenew(c) THEN "renew" ELSE "send"
        /\ UNCHANGED <<KEYS, process>>
    BY <1>0, <1>2 DEF GetToken, Goto, Call
  <2> QED BY <1>0, <1>2, <2>1 DEF FreshCall, GetToken, MustRenew
<1>3. CASE Refuse(c)
  <2>1. call'[c].pc = "send" /\ call'[c].failed /\ UNCHANGED process
    BY <1>0, <1>3 DEF Refuse, Call
  <2> QED BY <1>0, <1>3, <2>1 DEF FreshCall, Refuse
<1>4. CASE Grant(c)
  <2>1. call'[c].pc = "store" /\ call'[c].token.life = Life /\ UNCHANGED process
    BY <1>0, <1>4 DEF Grant, Call
  <2> QED BY <1>0, <1>4, <2>1 DEF FreshCall, Grant
<1>5. CASE StoreToken(c)
  <2>1. /\ call'[c].pc = "open" /\ call'[c].token = call[c].token
        /\ KEYS'.token = call[c].token /\ UNCHANGED process
    BY <1>0, <1>5 DEF StoreToken, Goto, Call, Keys
  <2>2. call[c].token.life = Life /\ process = "up"
    BY <1>0, <1>5 DEF FreshCall, StoreToken
  <2> QED BY <2>1, <2>2, TokensAssumption DEF FreshCall, Expired
<1>6. CASE OpenKeys(c)
  <2>1. /\ call'[c].pc = "write" /\ call'[c].token = call[c].token
        /\ UNCHANGED <<KEYS, process>>
    BY <1>0, <1>6 DEF OpenKeys, Goto, Call
  <2> QED BY <1>0, <1>6, <2>1 DEF FreshCall, OpenKeys
<1>7. CASE WriteKeys(c)
  <2>1. call'[c].pc = "send" /\ UNCHANGED <<KEYS, process>>
    BY <1>0, <1>7 DEF WriteKeys, Goto, Call
  <2> QED BY <1>0, <1>7, <2>1 DEF FreshCall, WriteKeys
<1>8. CASE Send(c)
  <2>1. /\ call'[c].pc = "sent" /\ call'[c].token = KEYS.token
        /\ call'[c].failed = call[c].failed /\ UNCHANGED <<KEYS, process>>
    BY <1>0, <1>8 DEF Send, Call
  <2> QED BY <1>0, <1>8, <2>1 DEF FreshCall, Send
<1>9. CASE EndCall(c)
  BY <1>0, <1>9 DEF EndCall, FreshCall, NoCall
<1> QED BY <1>1, <1>2, <1>3, <1>4, <1>5, <1>6, <1>7, <1>8, <1>9 DEF CallStep

LEMMA NextFresh == FreshInv /\ [Next]_vars => FreshInv'
<1> SUFFICES ASSUME FreshInv, [Next]_vars, NEW d \in Callers PROVE FreshCall(d)'
  BY FloodSteps, FloodType, TokensType DEF FreshInv, TypeOK
<1>0. /\ call \in [Callers -> Call] /\ FreshCall(d) /\ call[d] \in Call
  BY DEF FreshInv, TypeOK, TokensTypeOK
<1>1. ASSUME NEW c \in Callers, Begin(c) \/ CallStep(c) PROVE FreshCall(d)'
  BY <1>1, OthersFresh, OwnFresh
<1>2. CASE TokensTick
  <2>1. call[d].pc \in {"idle", "renew", "sent"} /\ UNCHANGED <<call, process>>
    BY <1>2 DEF TokensTick, Waiting
  <2> QED BY <1>0, <2>1 DEF FreshCall
<1>3. CASE Start \/ StartConfig \/ FinishConfig
  <2>1. process # "up" /\ UNCHANGED call
    BY <1>3 DEF Start, StartConfig, FinishConfig
  <2> QED BY <1>0, <2>1 DEF FreshCall
<1>4. CASE Kill
  BY <1>4 DEF Kill, FreshCall, NoCall
<1>5. CASE UNCHANGED tokenVars
  BY <1>0, <1>5 DEF tokenVars, FreshCall
<1> QED BY <1>1, <1>2, <1>3, <1>4, <1>5, TokenSteps

(* Whatever other threads renew and store meanwhile, a query is sent with a *)
(* token that has expired only when its own renewal was refused.            *)
THEOREM QueriesAreFresh == Spec => []SentFresh
<1>1. Init => FreshInv
  BY InitType DEF Init, TokensInit, FreshInv, FreshCall, NoCall
<1>2. FreshInv => SentFresh
  BY DEF FreshInv, FreshCall, SentFresh
<1> QED BY <1>1, <1>2, NextFresh, PTL DEF Spec
-----------------------------------------------------------------------------
(* Why keys.json can be read again.  Only a thread that has just opened it *)
(* leaves it empty, and what is written has the refresh token.             *)
FileKept ==
  /\ process = "up" =>
       /\ KEYS.refresh /\ keys.written.refresh
       /\ keys.length = 0 => \E c \in Callers : call[c].pc = "write"
       /\ OneSize => keys.length = 0 \/ Readable
  /\ process = "config" => keys.length = 0
  /\ \A c \in Callers : call[c].pc # "idle" => process = "up"
  /\ \A c \in Callers : call[c].pc \in {"store", "open", "write"} => call[c].token.size \in Sizes

KeysInv == TypeOK /\ FileKept

(* The length of what is written is never 0. *)
LEMMA LengthType ==
  ASSUME NEW k \in Keys
  PROVE  Length(k) \in Nat /\ Length(k) > 0
<1>1. k.token.size \in Sizes \cup {0}
  BY DEF Keys, Token, NoToken
<1>2. \A s \in Sizes \cup {0} : s \in Nat
  BY TokensAssumption
<1>3. k.token.size \in Nat
  BY <1>1, <1>2
<1> QED BY <1>3 DEF Length

(* A call that is about to grant, store or write does so with the keys kept. *)
LEMMA CallKept ==
  ASSUME KeysInv, NEW c \in Callers, CallStep(c)
  PROVE  FileKept'
<1>0. /\ call \in [Callers -> Call] /\ KEYS \in Keys /\ keys \in File /\ call[c] \in Call
      /\ FileKept
  BY DEF KeysInv, TypeOK, TokensTypeOK
<1>1. call[c].pc # "idle" /\ process = "up" /\ UNCHANGED process
  BY <1>0 DEF FileKept, CallStep, GetToken, Refuse, Grant, StoreToken, OpenKeys, WriteKeys,
              Send, EndCall
<1>2. KEYS.refresh /\ keys.written.refresh /\ KEYS'.refresh = KEYS.refresh
  BY <1>0, <1>1 DEF FileKept, CallStep, GetToken, Refuse, Grant, StoreToken, OpenKeys, WriteKeys,
                    Send, EndCall, Keys
<1>3. ASSUME NEW d \in Callers, d # c PROVE call'[d] = call[d]
  BY <1>0, <1>3 DEF CallStep, GetToken, Refuse, Grant, StoreToken, OpenKeys, WriteKeys,
                    Send, EndCall, Goto
<1>4. CASE GetToken(c) \/ Refuse(c) \/ Grant(c) \/ StoreToken(c) \/ Send(c) \/ EndCall(c)
  <2>1. UNCHANGED keys /\ call[c].pc # "write"
    BY <1>4 DEF GetToken, Refuse, Grant, StoreToken, Send, EndCall
  <2>2. call'[c].pc \in {"store", "open", "write"} => call'[c].token.size \in Sizes
    BY <1>0, <1>4 DEF GetToken, Refuse, Grant, StoreToken, Send, EndCall, Goto, Call, NoCall,
                      FileKept
  <2>3. Readable' <=> Readable
    BY <2>1 DEF Readable, Length
  <2>4. keys.length = 0 => \E d \in Callers : call'[d].pc = "write"
    BY <1>0, <1>1, <1>3, <2>1 DEF FileKept
  <2> QED BY <1>0, <1>1, <1>2, <1>3, <2>1, <2>2, <2>3, <2>4 DEF FileKept
<1>5. CASE OpenKeys(c)
  <2>1. keys'.length = 0 /\ keys'.written = keys.written
    BY <1>0, <1>5 DEF OpenKeys, Truncated, File
  <2>2. call'[c].pc = "write" /\ call'[c].token = call[c].token /\ call[c].pc = "open"
    BY <1>0, <1>5 DEF OpenKeys, Goto, Call
  <2> QED BY <1>0, <1>1, <1>2, <1>3, <2>1, <2>2 DEF FileKept
<1>6. CASE WriteKeys(c)
  <2> DEFINE k == [token |-> call[c].token, refresh |-> KEYS.refresh]
  <2>1. k \in Keys /\ keys' = Over(k) /\ call'[c].pc = "send"
    BY <1>0, <1>6 DEF WriteKeys, Goto, Call, Keys
  <2>2. k.token.size \in Sizes /\ k.token.size \in Nat /\ k.refresh = KEYS.refresh
    BY <1>0, <1>6, TokensAssumption DEF WriteKeys, FileKept
  <2> HIDE DEF k
  <2>3. /\ keys'.written = k /\ keys'.length > 0
        /\ keys'.length = Length(k) \/ (keys'.length = keys.length /\ keys.length >= Length(k))
    BY <1>0, <2>1, OverType, LengthType, TokensAssumption DEF File
  <2>4. ASSUME OneSize PROVE Readable'
    <3>1. keys.length = 0 \/ keys.length = Length(keys.written)
      BY <1>0, <1>1, <2>4 DEF FileKept, Readable
    <3>2. keys.written \in Keys /\ keys.written.token.size \in Sizes \cup {0}
      BY <1>0 DEF File, Keys, Token, NoToken
    <3>3. keys.written.token.size <= k.token.size
      BY <2>2, <2>4, <3>2 DEF OneSize
    <3>4. \A s \in Sizes \cup {0} : s \in Nat
      BY TokensAssumption
    <3>5. /\ Length(k) \in Nat /\ Length(k) > 0
          /\ Length(keys.written) \in Nat /\ keys.written.token.size \in Nat
      BY <2>1, <2>2, <3>2, <3>4, LengthType
    <3>6. Length(keys.written) <= Length(k) /\ Length(k) \in Nat /\ Length(k) > 0
          /\ Length(keys.written) \in Nat
      BY <2>2, <3>3, <3>5 DEF Length
    <3>7. keys'.length = Length(k)
      BY <2>3, <3>1, <3>6
    <3> QED BY <2>3, <3>7 DEF Readable, Length
  <2>5. keys'.length # 0
    BY <2>3
  <2>6. keys'.written.refresh /\ (OneSize => Readable')
    BY <1>2, <2>2, <2>3, <2>4
  <2>7. \A d \in Callers : /\ call'[d].pc # "idle" => process' = "up"
                           /\ call'[d].pc \in {"store", "open", "write"} =>
                                call'[d].token.size \in Sizes
    BY <1>0, <1>1, <1>3, <2>1 DEF FileKept
  <2> QED BY <1>1, <1>2, <2>5, <2>6, <2>7 DEF FileKept
<1> QED BY <1>4, <1>5, <1>6 DEF CallStep

LEMMA NextKept == KeysInv /\ [Next]_vars => KeysInv'
<1> SUFFICES ASSUME KeysInv, [Next]_vars PROVE FileKept'
  BY FloodSteps, FloodType, TokensType DEF KeysInv, TypeOK
<1>0. /\ call \in [Callers -> Call] /\ KEYS \in Keys /\ keys \in File /\ FileKept
      /\ keys.written \in Keys /\ KEYS.token \in Token /\ keys.written.token \in Token
  BY DEF KeysInv, TypeOK, TokensTypeOK, Keys, File
<1>1. ASSUME NEW c \in Callers, CallStep(c) PROVE FileKept'
  BY <1>1, CallKept
<1>2. ASSUME NEW c \in Callers, Begin(c) PROVE FileKept'
  <2>1. /\ call' = [call EXCEPT ![c] = [NoCall EXCEPT !.pc = "token"]]
        /\ call[c].pc = "idle" /\ process = "up" /\ UNCHANGED <<KEYS, keys, process>>
    BY <1>2 DEF Begin
  <2>2. call'[c].pc = "token" /\ \A d \in Callers : d # c => call'[d] = call[d]
    BY <1>0, <2>1 DEF NoCall
  <2>3. \A d \in Callers : call[d].pc = "write" => call'[d].pc = "write"
    BY <2>1, <2>2
  <2>4. Readable' <=> Readable
    BY <2>1 DEF Readable, Length
  <2> QED BY <1>0, <2>1, <2>2, <2>3, <2>4 DEF FileKept
<1>3. CASE TokensTick
  <2>1. /\ KEYS'.refresh = KEYS.refresh /\ keys'.length = keys.length
        /\ keys'.written.refresh = keys.written.refresh
        /\ keys'.written.token = Older(keys.written.token)
        /\ UNCHANGED <<call, process>>
    BY <1>0, <1>3 DEF TokensTick, Keys, File
  <2>2. Readable' <=> Readable
    BY <1>0, <2>1, OlderType DEF Readable, Length
  <2> QED BY <1>0, <2>1, <2>2 DEF FileKept
<1>4. CASE Start
  <2>1. UNCHANGED <<keys, call>> /\ Load /\ process = "down"
    BY <1>4 DEF Start
  <2>2. process' = "up" => /\ keys.length > 0 /\ keys.written.refresh /\ Readable
                           /\ KEYS' = keys.written
    BY <1>0, <2>1, LengthType DEF Load, Readable
  <2>3. process' \in {"up", "down"} /\ (Readable' <=> Readable)
    BY <2>1 DEF Load, Readable, Length
  <2> QED BY <1>0, <2>1, <2>2, <2>3 DEF FileKept
<1>5. CASE StartConfig
  <2>1. process = "down" /\ process' = "config" /\ keys'.length = 0 /\ UNCHANGED call
    BY <1>0, <1>5 DEF StartConfig, Truncated, File
  <2> QED BY <1>0, <2>1 DEF FileKept
<1>6. CASE FinishConfig
  <2> DEFINE k == [token |-> NoToken, refresh |-> TRUE]
  <2>1. k \in Keys /\ Length(k) = 1
    BY DEF Keys, Token, Length, NoToken
  <2>2. /\ process = "config" /\ process' = "up" /\ keys' = Over(k) /\ KEYS' = keys'.written
        /\ UNCHANGED call /\ keys.length = 0
    BY <1>0, <1>6 DEF FinishConfig, FileKept
  <2>3. keys'.written = k /\ keys'.length = 1
    BY <1>0, <2>1, <2>2, OverType
  <2>4. Readable'
    BY <2>1, <2>3 DEF Readable, Length
  <2> QED BY <1>0, <2>2, <2>3, <2>4 DEF FileKept
<1>7. CASE Kill
  <2>1. process' = "down" /\ \A c \in Callers : call'[c].pc = "idle"
    BY <1>7 DEF Kill, NoCall
  <2> QED BY <2>1 DEF FileKept
<1>8. CASE UNCHANGED tokenVars
  <2>1. Readable' <=> Readable
    BY <1>8 DEF tokenVars, Readable, Length
  <2> QED BY <1>0, <1>8, <2>1 DEF tokenVars, FileKept
<1> QED BY <1>1, <1>2, <1>3, <1>4, <1>5, <1>6, <1>7, <1>8, TokenSteps

(* While the process runs and nobody is writing it, keys.json is not empty, *)
(* and when access tokens are texts of one length it can be read.           *)
THEOREM KeysFileIsKept == Spec => []KeysKept
<1>1. Init => KeysInv
  BY InitType DEF Init, TokensInit, KeysInv, FileKept, NoCall
<1>2. KeysInv => KeysKept
  <2> SUFFICES ASSUME KeysInv, process = "up", \A c \in Callers : call[c].pc # "write"
               PROVE  keys.length > 0 /\ keys.written.refresh /\ (OneSize => Readable)
    BY DEF KeysKept
  <2>1. keys.length \in Nat
    BY TokensAssumption DEF KeysInv, TypeOK, TokensTypeOK, File
  <2> QED BY <2>1 DEF KeysInv, FileKept
<1> QED BY <1>1, <1>2, NextKept, PTL DEF Spec
=============================================================================
