------------------------------- MODULE Tokens -------------------------------
(***************************************************************************)
(* The keys of the drive (src/degoo/__init__.py): an access token that     *)
(* expires, the refresh token it is renewed with, and the file keys.json   *)
(* they are kept in.  Every query asks for the token first (_get_token),   *)
(* in the thread that makes it, and no lock is taken: several threads may  *)
(* renew the token, and write the file, together.                          *)
(*                                                                         *)
(* A token is what is left of its life, and the length of its text, which  *)
(* decides what two threads that write the file together leave in it.      *)
(***************************************************************************)
EXTENDS Integers

CONSTANTS
  Callers,  \* BOUND: threads that make queries at the same time
  Life,     \* ticks for which the service grants a token
  Sizes     \* lengths of the texts of tokens

ASSUME TokensAssumption ==
  /\ Life \in Nat \ {0}
  /\ Sizes \subseteq Nat \ {0}

VARIABLES
  KEYS,     \* KEYS["Token"] of the process, and whether RefreshToken is given
  keys,     \* keys.json
  call,     \* the query each thread makes
  process   \* "down", "config" (DegooConfig has opened keys.json) or "up"

tokenVars == <<KEYS, keys, call, process>>

NoToken == [life |-> 0, size |-> 0]

Token == [life : 0..Life, size : Sizes] \cup {NoToken}

Keys == [token : Token, refresh : BOOLEAN]

(* How long the file is with these keys in it. *)
Length(k) == k.token.size + 1

(* keys.json: what was written last from its beginning on, and how long the *)
(* file is, which is 0 when it was just opened with "w".                    *)
File == [written : Keys, length : {0, 1} \cup { s + 1 : s \in Sizes }]

(* json.loads accepts the file: nothing follows what was written last. *)
Readable == keys.length = Length(keys.written)

(* open(keys_file, "w") *)
Truncated == [keys EXCEPT !.length = 0]

(* MUTANT: what is written goes behind what is in the file. *)
Behind(k) == [written |-> k, length |-> keys.length + Length(k)]

(* What is written goes over what is in the file, and is in it as a whole *)
(* when the file is closed.                                                *)
Over(k) == [written |-> k, length |-> IF Length(k) < keys.length THEN keys.length ELSE Length(k)]

(* "renew": the access token is requested.  "store": it was granted.        *)
(* "open", "write": keys.json is written.  "send": the renewal is over, or  *)
(* was not needed, and KEYS["Token"] is read.  "sent": the service answers. *)
Call == [pc : {"idle", "token", "renew", "store", "open", "write", "send", "sent"},
         token : Token, failed : BOOLEAN]

NoCall == [pc |-> "idle", token |-> NoToken, failed |-> FALSE]

Goto(c, pc) == call' = [call EXCEPT ![c].pc = pc]

Expired(t) == t.life = 0

TokensInit ==
  /\ keys = [written |-> [token |-> NoToken, refresh |-> FALSE], length |-> 1]
  /\ KEYS = [token |-> NoToken, refresh |-> FALSE]
  /\ call = [c \in Callers |-> NoCall]
  /\ process = "down"
-----------------------------------------------------------------------------
(***************************************************************************)
(* A query.                                                                *)
(***************************************************************************)
Begin(c) ==
  /\ process = "up"
  /\ call[c].pc = "idle"
  /\ call' = [call EXCEPT ![c] = [NoCall EXCEPT !.pc = "token"]]
  /\ UNCHANGED <<KEYS, keys, process>>

(* MUTANT: a renewal by another thread counts as one's own. *)
MustRenewAlone(c) ==
  Expired(KEYS.token) /\ \A d \in Callers : call[d].pc \notin {"renew", "store"}

(* There is no token, or it has expired. *)
MustRenew(c) == Expired(KEYS.token)

(* _get_token looks at the token. *)
GetToken(c) ==
  /\ call[c].pc = "token"
  /\ Goto(c, IF MustRenew(c) THEN "renew" ELSE "send")
  /\ UNCHANGED <<KEYS, keys, process>>

(* MUTANT: the file is opened before the answer is looked at. *)
RefuseOpened(c) ==
  /\ call[c].pc = "renew"
  /\ call' = [call EXCEPT ![c].pc = "send", ![c].failed = TRUE]
  /\ keys' = Truncated
  /\ UNCHANGED <<KEYS, process>>

(* The service does not grant a token: _get_token ignores what              *)
(* _request_access_token returns, and goes on with the token there is.      *)
Refuse(c) ==
  /\ call[c].pc = "renew"
  /\ call' = [call EXCEPT ![c].pc = "send", ![c].failed = TRUE]
  /\ UNCHANGED <<KEYS, keys, process>>

Grant(c) ==
  /\ call[c].pc = "renew"
  /\ \E s \in Sizes :
       call' = [call EXCEPT ![c].pc = "store", ![c].token = [life |-> Life, size |-> s]]
  /\ UNCHANGED <<KEYS, keys, process>>

(* The service has answered the query, or cannot be reached: requests.post  *)
(* raises.                                                                  *)
EndCall(c) ==
  /\ call[c].pc \in {"renew", "sent"}
  /\ call' = [call EXCEPT ![c] = NoCall]
  /\ UNCHANGED <<KEYS, keys, process>>

(* self.KEYS["Token"] = rd["AccessToken"] *)
StoreToken(c) ==
  /\ call[c].pc = "store"
  /\ KEYS' = [KEYS EXCEPT !.token = call[c].token]
  /\ Goto(c, "open")
  /\ UNCHANGED <<keys, process>>

OpenKeys(c) ==
  /\ call[c].pc = "open"
  /\ keys' = Truncated
  /\ Goto(c, "write")
  /\ UNCHANGED <<KEYS, process>>

(* The thread's own token is written, with the refresh token of the process. *)
WriteKeys(c) ==
  /\ call[c].pc = "write"
  /\ keys' = Over([token |-> call[c].token, refresh |-> KEYS.refresh])
  /\ Goto(c, "send")
  /\ UNCHANGED <<KEYS, process>>

(* `return self.KEYS["Token"]`, which another thread may have replaced, and *)
(* the query is sent with it.                                               *)
Send(c) ==
  /\ call[c].pc = "send"
  /\ call' = [call EXCEPT ![c].pc = "sent", ![c].token = KEYS.token]
  /\ UNCHANGED <<KEYS, keys, process>>

CallStep(c) ==
  \/ GetToken(c) \/ Refuse(c) \/ Grant(c) \/ StoreToken(c)
  \/ OpenKeys(c) \/ WriteKeys(c) \/ Send(c) \/ EndCall(c)
-----------------------------------------------------------------------------
(***************************************************************************)
(* The life of the process.                                                *)
(***************************************************************************)
(* API.__init__ takes the keys from a file that has a refresh token. *)
Load ==
  IF Readable /\ keys.written.refresh
  THEN KEYS' = keys.written /\ process' = "up"
  ELSE process' = "down" /\ UNCHANGED KEYS

(* Start without --degoo-refresh-token. *)
Start ==
  /\ process = "down"
  /\ Load
  /\ UNCHANGED <<keys, call>>

(* Start with it: DegooConfig reads the file, takes the access token out of *)
(* it, and writes it again.                                                 *)
StartConfig ==
  /\ process = "down"
  /\ Readable
  /\ process' = "config"
  /\ keys' = Truncated
  /\ UNCHANGED <<KEYS, call>>

FinishConfig ==
  /\ process = "config"
  /\ keys' = Over([token |-> NoToken, refresh |-> TRUE])
  /\ KEYS' = keys'.written
  /\ process' = "up"
  /\ UNCHANGED call

(* The process is killed.  keys.json stays as it is. *)
Kill ==
  /\ process # "down"
  /\ process' = "down"
  /\ KEYS' = [token |-> NoToken, refresh |-> FALSE]
  /\ call' = [c \in Callers |-> NoCall]
  /\ UNCHANGED keys

(* What the threads do between two waits takes no time: a tick passes only *)
(* while they wait for the service.                                        *)
Waiting == \A c \in Callers : call[c].pc \in {"idle", "renew", "sent"}

Older(t) == [t EXCEPT !.life = IF @ > 0 THEN @ - 1 ELSE 0]

TokensTick ==
  /\ Waiting
  /\ KEYS' = [KEYS EXCEPT !.token = Older(@)]
  /\ keys' = [keys EXCEPT !.written.token = Older(@)]
  /\ UNCHANGED <<call, process>>
-----------------------------------------------------------------------------
TokensTypeOK ==
  /\ KEYS \in Keys
  /\ keys \in File
  /\ call \in [Callers -> Call]
  /\ process \in {"down", "config", "up"}

(* A query is sent with a token that has not expired, unless its own request *)
(* for one was refused: whatever other threads renew, store and overwrite    *)
(* between its look at the token and its use.                                *)
SentFresh ==
  \A c \in Callers : call[c].pc = "sent" /\ Expired(call[c].token) => call[c].failed

(* All access tokens are texts of one length. *)
OneSize == \A s, t \in Sizes : s = t

(* While the process runs and nobody is writing keys.json, the file is not  *)
(* empty, and the drive can be started from it again.  Two threads that     *)
(* write tokens of different lengths together may leave the end of the      *)
(* longer behind the shorter, which no start can read.                      *)
KeysKept ==
  process = "up" /\ (\A c \in Callers : call[c].pc # "write") =>
    keys.length > 0 /\ keys.written.refresh /\ (OneSize => Readable)
=============================================================================
