------------------------------ MODULE OAuthRefresh ------------------------------
(***************************************************************************)
(* The OAuth token of one LLM provider: OAuthService (apps/api/src/        *)
(* services/oauth.service.ts) keeps it in a row, hands out the access      *)
(* token, refreshes it when it is about to expire, under a lock in memory, *)
(* stores what an authorisation code was exchanged for, and revokes it.    *)
(* Each await is a point where another call may act.  The provider is      *)
(* external: a refresh token is spent when it is used, and the answer has  *)
(* a new one or none.                                                      *)
(***************************************************************************)
EXTENDS Integers, FiniteSets

CONSTANTS Asker,       \* slots for calls of getAccessToken
          Admin,       \* slots for refreshToken, exchangeCode, revokeToken
          None,        \* no row, no token, no lock
          MaxTokens,   \* bound: tokens the provider issues
          MaxFaults    \* bound: calls to the provider or database that fail

Call == Asker \cup Admin
Token == 1..MaxTokens
Row == [access : Token, refresh : Token \cup {None}, near : BOOLEAN]

ASSUME NoneAssumption == None \notin Call \cup Nat \cup Row
ASSUME BoundsAssumption == MaxTokens \in Nat /\ MaxFaults \in Nat

VARIABLES row,      \* OAuthToken: access and refresh token, near expiry
          lock,     \* refreshLocks: the call whose promise it holds
          pc,       \* where each call is
          seen,     \* the record it read
          reply,    \* what the provider answered, or the last read
          on,       \* the call whose promise it waits for
          issued,   \* tokens issued so far
          spent,    \* refresh tokens the provider has taken
          faults,
          held,     \* history: access tokens of the row during a call
          stale,    \* history: a call returned another one
          respent,  \* history: a refresh token was sent again, and not excused
          excused,  \* history: a lost answer, a failed write, or an explicit
                    \* refresh, a revocation or a new code met a refresh
          back,     \* history: a refresh was under way at the revocation
          overtaken \* history: calls with their answer under way that saw
                    \* another token stored meanwhile

provider == <<issued, spent, faults, respent>>
vars == <<row, lock, pc, seen, reply, on, provider, held, stale, excused, back,
          overtaken>>

(* A call refreshes with the lock, or without (the explicit refresh).      *)
Locked == {"record", "fetch", "store", "reread", "answer"}
Explicit == {"Record", "Fetch", "Store"}
Refreshing == {c \in Call : pc[c] \in Locked \cup Explicit}
Busy == {c \in Call : pc[c] # "idle"}

TypeOK == /\ row \in Row \cup {None}
          /\ lock \in Call \cup {None}
          /\ pc \in [Call -> {"idle", "got", "wait", "code", "unlock"} \cup Locked
                             \cup Explicit]
          /\ seen \in [Call -> Row \cup {None}]
          /\ reply \in [Call -> Row \cup {None}]
          /\ on \in [Call -> Call \cup {None}]
          /\ issued \in 0..MaxTokens
          /\ spent \subseteq Token
          /\ faults \in 0..MaxFaults
          /\ held \in [Asker -> SUBSET Token]
          /\ stale \in BOOLEAN
          /\ respent \in BOOLEAN
          /\ excused \in BOOLEAN
          /\ back \in BOOLEAN
          /\ overtaken \subseteq Call

Init == /\ row = None
        /\ lock = None
        /\ pc = [c \in Call |-> "idle"]
        /\ seen = [c \in Call |-> None]
        /\ reply = [c \in Call |-> None]
        /\ on = [c \in Call |-> None]
        /\ issued = 0
        /\ spent = {}
        /\ faults = 0
        /\ held = [c \in Asker |-> {}]
        /\ stale = FALSE
        /\ respent = FALSE
        /\ excused = FALSE
        /\ back = FALSE
        /\ overtaken = {}

-----------------------------------------------------------------------------
Access(r) == IF r = None THEN {} ELSE {r.access}
Goto(c, p) == pc' = [pc EXCEPT ![c] = p]

(* A call begins.                                                          *)
Begin(c, p) == /\ pc[c] = "idle"
               /\ Goto(c, p)

(* The row changes, and the askers may have seen that; who has its answer  *)
(* under way has not.                                                      *)
Put(r) ==
  /\ row' = r
  /\ held' = [c \in Asker |-> IF c \in Busy THEN held[c] \cup Access(r) ELSE {}]
  /\ overtaken' = overtaken \cup {c \in Call : pc[c] = "answer"}

(* The call is over, and those that share its promise.                     *)
Over(c) == {c} \cup {d \in Call : pc[d] = "wait" /\ on[d] = c}

(* Seeded fault: those that share the promise are forgotten.               *)
LeaveAlone(c) == /\ pc' = [pc EXCEPT ![c] = "idle"]
                 /\ on' = [on EXCEPT ![c] = None]
                 /\ seen' = [seen EXCEPT ![c] = None]
                 /\ reply' = [reply EXCEPT ![c] = None]

Leave(c) == /\ pc' = [d \in Call |-> IF d \in Over(c) THEN "idle" ELSE pc[d]]
            /\ on' = [d \in Call |-> IF d \in Over(c) THEN None ELSE on[d]]
            /\ seen' = [seen EXCEPT ![c] = None]
            /\ reply' = [reply EXCEPT ![c] = None]

(* Somebody gets a, which the row never held during the call.              *)
Stale(c, a) == /\ a # None /\ c \notin overtaken
               /\ \E d \in Over(c) \cap Asker : a \notin held[d]

(* They all return a, or throw when it is None.                            *)
Settle(c, a) ==
  /\ Leave(c)
  /\ overtaken' = overtaken \ {c}
  /\ held' = [d \in Asker |-> IF d \in Over(c) THEN {} ELSE held[d]]
  /\ stale' = (stale \/ Stale(c, a))

-----------------------------------------------------------------------------
(* getAccessToken: the record, and the token in it if it is not near its   *)
(* expiry.                                                                 *)
GetAccessToken(c) == /\ Begin(c, "got")
                     /\ held' = [held EXCEPT ![c] = Access(row)]
                     /\ seen' = [seen EXCEPT ![c] = row]
                     /\ UNCHANGED <<row, lock, reply, on, provider, stale,
                                    excused, back, overtaken>>

(* No record, or a token that is good, or one that cannot be refreshed.    *)
AnswerAtOnce(c) ==
  /\ pc[c] = "got"
  /\ seen[c] # None /\ seen[c].near => lock = None /\ seen[c].refresh = None
  /\ Settle(c, IF seen[c] = None THEN None
               ELSE IF seen[c].near THEN None ELSE seen[c].access)
  /\ UNCHANGED <<row, lock, provider, excused, back>>

NearExpiry(c) == pc[c] = "got" /\ seen[c] # None /\ seen[c].near

(* refreshWithLock: another call refreshes already, and its promise is     *)
(* shared.                                                                 *)
Join(c) == /\ NearExpiry(c)
           /\ lock # None
           /\ Goto(c, "wait")
           /\ on' = [on EXCEPT ![c] = lock]
           /\ seen' = [seen EXCEPT ![c] = None]
           /\ UNCHANGED <<row, lock, reply, provider, held, stale, excused,
                          back, overtaken>>

TakeLock(c) == /\ NearExpiry(c)
               /\ lock = None
               /\ seen[c].refresh # None
               /\ Goto(c, "record")
               /\ lock' = c
               /\ excused' = (excused \/ Refreshing # {})
               /\ UNCHANGED <<row, seen, reply, on, provider, held, stale,
                              back, overtaken>>

-----------------------------------------------------------------------------
(* refreshToken, with the lock or without.                      *)
RefreshToken(c) == /\ Begin(c, "Record")
                   /\ excused' = (excused \/ Refreshing # {})
                   /\ UNCHANGED <<row, lock, seen, reply, on, provider, held,
                                  stale, back, overtaken>>

(* The promise is over; whoever holds the lock by now, it is free.         *)
Finally(c) == lock' = IF pc[c] \in Locked THEN None ELSE lock

(* Seeded fault: the refresh token is the one read before the lock.        *)
RecordAsRead(c) ==
  LET read == IF seen[c] = None THEN row ELSE seen[c]
  IN  /\ pc[c] \in {"record", "Record"}
      /\ read # None /\ read.refresh # None
      /\ Goto(c, IF pc[c] = "record" THEN "fetch" ELSE "Fetch")
      /\ seen' = [seen EXCEPT ![c] = read]
      /\ UNCHANGED <<row, lock, reply, on, provider, held, stale, excused,
                     back, overtaken>>

(* The record is read, again when there is a lock: another refresh may     *)
(* have ended since the caller read it.                                    *)
ReadRecord(c) == /\ pc[c] \in {"record", "Record"}
                 /\ row # None /\ row.refresh # None
                 /\ Goto(c, IF pc[c] = "record" THEN "fetch" ELSE "Fetch")
                 /\ seen' = [seen EXCEPT ![c] = row]
                 /\ UNCHANGED <<row, lock, reply, on, provider, held, stale,
                                excused, back, overtaken>>

(* It is gone, or without a refresh token by now.                          *)
NothingToRefresh(c) == /\ pc[c] \in {"record", "Record"}
                       /\ row # None => row.refresh = None
                       /\ Finally(c)
                       /\ Settle(c, None)
                       /\ UNCHANGED <<row, provider, excused, back>>

Sent(t) == respent' = (respent \/ (t \in spent /\ ~excused))
Spend(t) == /\ Sent(t)
            /\ spent' = spent \cup {t}

Answers == [access : {issued + 1}, refresh : {issued + 1, None}, near : {FALSE}]

(* The provider takes the refresh token and answers, with a new one or     *)
(* without; or refuses one that it took before, or at the bound of tokens. *)
Fetch(c) == /\ pc[c] \in {"fetch", "Fetch"}
            /\ seen[c].refresh \notin spent
            /\ issued < MaxTokens
            /\ Spend(seen[c].refresh)
            /\ issued' = issued + 1
            /\ \E r \in Answers : reply' = [reply EXCEPT ![c] = r]
            /\ Goto(c, IF pc[c] = "fetch" THEN "store" ELSE "Store")
            /\ seen' = [seen EXCEPT ![c] = None]
            /\ UNCHANGED <<row, lock, on, faults, held, stale, excused, back,
                           overtaken>>

Refused(c) == /\ pc[c] \in {"fetch", "Fetch"}
              /\ seen[c].refresh \in spent \/ issued = MaxTokens
              /\ Sent(seen[c].refresh)
              /\ Finally(c)
              /\ Settle(c, None)
              /\ UNCHANGED <<row, issued, spent, faults, excused, back>>

(* The call fails; the provider may have taken the token.                  *)
FetchFails(c) == /\ pc[c] \in {"fetch", "Fetch"}
                 /\ faults < MaxFaults
                 /\ faults' = faults + 1
                 /\ \/ Spend(seen[c].refresh) /\ excused' = TRUE
                    \/ UNCHANGED <<spent, respent, excused>>
                 /\ Finally(c)
                 /\ Settle(c, None)
                 /\ UNCHANGED <<row, issued, back>>

(* storeToken: of a refresh under the lock, which goes on.                 *)
Store(c) == /\ pc[c] = "store"
            /\ Put(reply[c])
            /\ Goto(c, "reread")
            /\ back' = FALSE
            /\ UNCHANGED <<lock, seen, reply, on, provider, stale, excused>>

(* And of an explicit refresh, or a code.                                  *)
StoreAlone(c) == /\ pc[c] \in {"Store", "code"}
                 /\ Put(reply[c])
                 /\ Leave(c)
                 /\ back' = FALSE
                 /\ UNCHANGED <<lock, provider, stale, excused>>

StoreFails(c) == /\ pc[c] \in {"store", "Store", "code"}
                 /\ faults < MaxFaults
                 /\ faults' = faults + 1
                 /\ excused' = TRUE
                 /\ Finally(c)
                 /\ Settle(c, None)
                 /\ UNCHANGED <<row, issued, spent, respent, back>>

(* Seeded fault: what the provider answered will do.                       *)
KeepReply(c) == /\ pc[c] = "reread"
                /\ Goto(c, "answer")
                /\ UNCHANGED <<row, lock, seen, reply, on, provider, held, stale,
                               excused, back, overtaken>>

(* The row is read once more, under the lock,                              *)
Reread(c) == /\ pc[c] = "reread"
             /\ Goto(c, "answer")
             /\ reply' = [reply EXCEPT ![c] = row]
             /\ UNCHANGED <<row, lock, seen, on, provider, held, stale, excused,
                            back, overtaken>>

(* and its token is the answer; or it is gone.                             *)
Answer(c) == /\ pc[c] = "answer"
             /\ Finally(c)
             /\ Settle(c, IF reply[c] = None THEN None ELSE reply[c].access)
             /\ UNCHANGED <<row, provider, excused, back>>

(* A read of the record fails.                                             *)
ReadFails(c) == /\ pc[c] \in {"record", "Record", "reread"}
                /\ faults < MaxFaults
                /\ faults' = faults + 1
                /\ Finally(c)
                /\ Settle(c, None)
                /\ UNCHANGED <<row, issued, spent, respent, excused, back>>

-----------------------------------------------------------------------------
(* exchangeCode: the user authorised anew.                                 *)
ExchangeCode(c) == /\ issued < MaxTokens
                   /\ Begin(c, "code")
                   /\ issued' = issued + 1
                   /\ \E r \in Answers : reply' = [reply EXCEPT ![c] = r]
                   /\ excused' = (excused \/ Refreshing # {})
                   /\ UNCHANGED <<row, lock, seen, on, spent, faults, respent,
                                  held, stale, back, overtaken>>

(* revokeToken: the row, and then the lock, whoever holds it.              *)
Revoke(c) == /\ Begin(c, "unlock")
             /\ row' = None
             /\ back' = (\E d \in Refreshing :
                           pc[d] \notin {"record", "Record", "reread", "answer"})
             /\ excused' = (excused \/ Busy # {})
             /\ UNCHANGED <<lock, seen, reply, on, provider, held, stale,
                            overtaken>>

Unlock(c) == /\ pc[c] = "unlock"
             /\ lock' = None
             /\ Settle(c, None)
             /\ excused' = (excused \/ Refreshing # {})
             /\ UNCHANGED <<row, provider, back>>

(* Five minutes before its expiry the token counts as expired.             *)
Expire == /\ row # None /\ ~row.near
          /\ row' = [row EXCEPT !.near = TRUE]
          /\ UNCHANGED <<lock, pc, seen, reply, on, provider, held, stale,
                         excused, back, overtaken>>

-----------------------------------------------------------------------------
Refresh(c) == \/ ReadRecord(c) \/ NothingToRefresh(c) \/ Fetch(c) \/ Refused(c)
              \/ FetchFails(c) \/ Store(c) \/ StoreAlone(c) \/ StoreFails(c)
              \/ Reread(c) \/ Answer(c) \/ ReadFails(c)

Proceed(c) == AnswerAtOnce(c) \/ Join(c) \/ TakeLock(c) \/ Refresh(c) \/ Unlock(c)

Next == \/ \E c \in Asker : GetAccessToken(c)
        \/ \E c \in Admin : RefreshToken(c) \/ ExchangeCode(c) \/ Revoke(c)
        \/ \E c \in Call : Proceed(c)
        \/ Expire

Spec == Init /\ [][Next]_vars

(* A call to the database or the provider is answered, or fails.           *)
FairSpec == Spec /\ \A c \in Call : WF_vars(Proceed(c))

-----------------------------------------------------------------------------
(* The lock is held by a call that is refreshing under it, and unless a    *)
(* revocation freed it early, nobody else refreshes under it.              *)
LockIsHeld ==
  /\ lock # None => pc[lock] \in Locked
  /\ ~excused => \A c \in Call : pc[c] \in Locked => lock = c

(* No refresh token is sent to the provider twice: a caller that read the  *)
(* record before another refresh ended reads it again under the lock.      *)
(* Not so after a lost answer, a failed write, or whatever met a refresh   *)
(* without taking the lock: an explicit refresh, a revocation, a code.     *)
SpentOnce == ~respent

(* Refreshes under the lock exclude each other, and so spend each refresh  *)
(* token once.                                                             *)
RefreshedOnce == TypeOK /\ LockIsHeld /\ SpentOnce

(* The token that getAccessToken returns was in the row at some time       *)
(* during the call, also when the refresh it waited for began before it.   *)
(* Not so only when that refresh had read its answer, and then another     *)
(* token was stored, which is near its expiry for whoever joins.           *)
AnswerWasCurrent == ~stale

(* A revocation is final for whoever has not read the record: only a       *)
(* refresh that had read it may bring the row back, or a new code.         *)
RevokedStaysGone ==
  [][row = None /\ row' # None /\ ~back => \E c \in Call : pc[c] = "code"]_vars

(* Whoever asks for the token gets it, or an error, also when it waits for *)
(* a refresh whose lock a revocation has freed.                            *)
CallsEnd == \A c \in Asker : pc[c] # "idle" ~> pc[c] = "idle"
=============================================================================
