--------------------------- MODULE OAuthRefreshProofs ---------------------------
(***************************************************************************)
(* The token of a provider, for any number of calls, tokens and failures:  *)
(* refreshes under the lock exclude each other and spend each refresh      *)
(* token once, an answer was in the row during the call, and a revocation  *)
(* is not undone by whoever had not read the record.  The invariant says   *)
(* what a call that is about to spend or to store a token may rely on.     *)
(***************************************************************************)
EXTENDS OAuthRefresh, TLAPS

USE NoneAssumption, BoundsAssumption

Fetching == {c \in Call : pc[c] \in {"fetch", "Fetch"}}
Storing == {c \in Call : pc[c] \in {"store", "Store"}}
Pending == {c \in Call : pc[c] \in {"store", "Store", "code"}}
PCs == {"idle", "got", "wait", "code", "unlock"} \cup Locked \cup Explicit
Asking == {"got", "wait"} \cup Locked

(* What each call has at hand where it is.                                 *)
CallInv(c) ==
  /\ c \in Fetching => seen[c] \in Row /\ seen[c].refresh \in Token
  /\ c \in Pending => reply[c] \in Row
  /\ pc[c] \in Asking => c \in Asker
  /\ pc[c] = "wait" => on[c] \in Call /\ pc[on[c]] \in Locked

(* A refresh token that is about to be stored is known to nobody else.     *)
Unknown(c, t) ==
  /\ t \in 1..issued /\ t \notin spent
  /\ row # None => row.refresh # t
  /\ \A d \in Fetching : seen[d].refresh # t
  /\ \A d \in Pending \ {c} : reply[d].refresh # t

FreshInv ==
  /\ spent \subseteq 1..issued
  /\ row # None => row.refresh = None \/ row.refresh \in 1..issued
  /\ \A c \in Fetching : seen[c].refresh \in 1..issued
  /\ \A c \in Pending : reply[c].refresh = None \/ Unknown(c, reply[c].refresh)

(* One refresh at a time, and a spent token in the row is about to go.     *)
OnceInv ==
  ~excused =>
    /\ \A c, d \in Refreshing : c = d
    /\ row # None /\ row.refresh \in spent => Storing # {}
    /\ \A c \in Fetching : seen[c].refresh \notin spent

(* Who asks has seen what is in the row, and what it read.                 *)
HeldInv ==
  \A c \in Asker :
    /\ pc[c] \in Asking => Access(row) \subseteq held[c]
    /\ pc[c] = "got" /\ seen[c] # None => seen[c].access \in held[c]

(* Who is about to be given, or may yet ask for, what c has read last has  *)
(* seen it, unless another token was stored since.                         *)
Sharing(d, c) == \/ d = c
                 \/ pc[d] = "wait" /\ on[d] = c
                 \/ pc[d] = "got" /\ seen[d] # None

AnswerInv ==
  \A c \in Call : pc[c] = "answer" /\ c \notin overtaken /\ reply[c] # None =>
    /\ row # None => row.access = reply[c].access
    /\ \A d \in Asker : Sharing(d, c) => reply[c].access \in held[d]

(* Only a refresh that had read the record may bring it back.              *)
GoneInv == row = None /\ Fetching \cup Storing # {} => back

Calls == \A c \in Call : CallInv(c)

IInv == /\ TypeOK /\ Calls /\ LockIsHeld
        /\ FreshInv /\ OnceInv /\ SpentOnce
        /\ HeldInv /\ AnswerInv /\ AnswerWasCurrent /\ GoneInv

LEMMA InitInv == Init => IInv
<1> SUFFICES ASSUME Init PROVE IInv
  OBVIOUS
<1>1. \A c \in Call : pc[c] = "idle"
  BY DEF Init
<1>2. TypeOK
  <2>1. /\ issued \in 0..MaxTokens /\ faults \in 0..MaxFaults
        /\ spent \subseteq Token /\ held \in [Asker -> SUBSET Token]
    BY DEF Init
  <2>2. /\ pc \in [Call -> PCs] /\ row \in Row \cup {None} /\ lock \in Call \cup {None}
        /\ seen \in [Call -> Row \cup {None}] /\ reply \in [Call -> Row \cup {None}]
        /\ on \in [Call -> Call \cup {None}]
    BY DEF Init, PCs
  <2>3. overtaken \subseteq Call
    BY DEF Init
  <2>4. stale \in BOOLEAN /\ respent \in BOOLEAN /\ excused \in BOOLEAN /\ back \in BOOLEAN
    BY Zenon DEF Init
  <2> QED
    BY <2>1, <2>2, <2>3, <2>4 DEF TypeOK, PCs
<1>3. Calls /\ LockIsHeld
  BY <1>1 DEF Init, Calls, CallInv, LockIsHeld, Fetching, Pending, Asking, Locked
<1>4. FreshInv /\ OnceInv /\ SpentOnce
  BY <1>1 DEF Init, FreshInv, OnceInv, SpentOnce, Fetching, Pending, Refreshing, Locked,
              Explicit
<1>5. HeldInv /\ AnswerInv /\ AnswerWasCurrent /\ GoneInv
  BY <1>1 DEF Init, HeldInv, AnswerInv, AnswerWasCurrent, GoneInv, Fetching, Storing, Asking,
              Locked, Call
<1> QED
  BY <1>2, <1>3, <1>4, <1>5 DEF IInv

-----------------------------------------------------------------------------
(* What a step of call c does to the calls: c goes on to p, and those that *)
(* share its promise are done when it is.                                  *)
Moves(c, p) ==
  /\ pc'[c] = p
  /\ \A d \in Call \ {c} :
       /\ pc'[d] = pc[d] \/ (pc[d] = "wait" /\ on[d] = c /\ pc'[d] = "idle")
       /\ on'[d] = on[d] \/ pc'[d] = "idle"
       /\ seen'[d] = seen[d] /\ reply'[d] = reply[d]

LEMMA GotoMoves ==
  ASSUME TypeOK, NEW c \in Call, NEW p \in PCs, Goto(c, p),
         \A d \in Call \ {c} : /\ on'[d] = on[d]
                               /\ seen'[d] = seen[d] /\ reply'[d] = reply[d]
  PROVE  /\ pc' \in [Call -> PCs]
         /\ Moves(c, p)
         /\ \A d \in Call \ {c} : pc'[d] = pc[d]
BY DEF TypeOK, Goto, Moves, PCs

LEMMA LeaveMoves ==
  ASSUME TypeOK, NEW c \in Call, Leave(c)
  PROVE  /\ pc' \in [Call -> PCs]
         /\ on' \in [Call -> Call \cup {None}]
         /\ seen' \in [Call -> Row \cup {None}]
         /\ reply' \in [Call -> Row \cup {None}]
         /\ Moves(c, "idle")
         /\ \A d \in Over(c) : pc'[d] = "idle"
<1>1. /\ pc' = [d \in Call |-> IF d \in Over(c) THEN "idle" ELSE pc[d]]
      /\ on' = [d \in Call |-> IF d \in Over(c) THEN None ELSE on[d]]
      /\ seen' = [seen EXCEPT ![c] = None]
      /\ reply' = [reply EXCEPT ![c] = None]
  BY DEF Leave
<1>2. /\ pc \in [Call -> PCs] /\ on \in [Call -> Call \cup {None}]
      /\ seen \in [Call -> Row \cup {None}] /\ reply \in [Call -> Row \cup {None}]
  BY DEF TypeOK, PCs
<1>3. /\ pc' \in [Call -> PCs] /\ on' \in [Call -> Call \cup {None}]
      /\ seen' \in [Call -> Row \cup {None}] /\ reply' \in [Call -> Row \cup {None}]
  BY <1>1, <1>2 DEF PCs
<1>4. Moves(c, "idle")
  BY <1>1, <1>2 DEF Moves, Over
<1>5. \A d \in Over(c) : pc'[d] = "idle"
  BY <1>1 DEF Over
<1> QED
  BY <1>3, <1>4, <1>5

(* A call that settles says nothing that was not there.                    *)
LEMMA SettleMoves ==
  ASSUME TypeOK, NEW c \in Call, NEW a \in Token \cup {None}, Settle(c, a)
  PROVE  /\ Leave(c)
         /\ held' \in [Asker -> SUBSET Token]
         /\ \A d \in Asker \ Over(c) : held'[d] = held[d]
         /\ stale' \in BOOLEAN
         /\ overtaken' = overtaken \ {c}
         /\ (a # None /\ c \notin overtaken => \A d \in Over(c) \cap Asker : a \in held[d]) => stale' = stale
BY DEF TypeOK, Settle, Stale

(* Those that wait for c are over when c leaves, if c held the lock.       *)
LEMMA NoneWaits ==
  ASSUME Calls, NEW c \in Call, pc[c] \notin Locked
  PROVE  Over(c) = {c}
BY DEF Calls, CallInv, Over

-----------------------------------------------------------------------------
(* A token that the provider issues is new.                                *)
LEMMA NewToken ==
  ASSUME TypeOK, issued < MaxTokens
  PROVE  /\ issued + 1 \in 0..MaxTokens
         /\ \A r \in Answers : /\ r \in Row
                               /\ r.refresh = None \/ r.refresh = issued + 1
<1>1. issued + 1 \in Token /\ issued + 1 \in 0..MaxTokens
  BY DEF TypeOK, Token
<1> QED
  BY <1>1 DEF Answers, Row

LEMMA TypeInductive == ASSUME IInv, [Next]_vars PROVE TypeOK'
<1>t. TypeOK /\ Calls
  BY DEF IInv
<1>r. \A r \in Row : r.access \in Token /\ r.refresh \in Token \cup {None}
  BY DEF Row
<1>s. ASSUME NEW c \in Call, NEW a \in Token \cup {None}, Settle(c, a),
             UNCHANGED row, lock' \in Call \cup {None}, UNCHANGED issued,
             spent' \subseteq Token, faults' \in 0..MaxFaults,
             respent' \in BOOLEAN, excused' \in BOOLEAN, back' = back
      PROVE  TypeOK'
  BY <1>t, <1>s, LeaveMoves, SettleMoves DEF TypeOK, PCs
<1>l. ASSUME NEW c \in Call, Finally(c) PROVE lock' \in Call \cup {None}
  BY <1>t, <1>l DEF TypeOK, Finally
<1>p. ASSUME NEW r \in Row, Put(r)
      PROVE  /\ row' \in Row \cup {None} /\ held' \in [Asker -> SUBSET Token]
             /\ overtaken' \subseteq Call
  <2>1. Access(r) \subseteq Token
    BY <1>r DEF Access
  <2> QED
    BY <1>t, <1>p, <2>1 DEF TypeOK, Put
<1>1. ASSUME NEW c \in Asker, GetAccessToken(c) PROVE TypeOK'
  <2>1. Access(row) \subseteq Token
    BY <1>t, <1>r DEF TypeOK, Access
  <2> QED
    BY <1>t, <1>1, <2>1 DEF TypeOK, GetAccessToken, Begin, Goto, provider, Call
<1>2. ASSUME NEW c \in Admin, RefreshToken(c) PROVE TypeOK'
  BY <1>t, <1>2 DEF TypeOK, RefreshToken, Begin, Goto, provider, Call, Explicit
<1>3. ASSUME NEW c \in Admin, ExchangeCode(c) PROVE TypeOK'
  <2>1. issued + 1 \in 0..MaxTokens /\ \A r \in Answers : r \in Row
    BY <1>t, <1>3, NewToken DEF ExchangeCode
  <2>2. issued' \in 0..MaxTokens /\ reply' \in [Call -> Row \cup {None}]
    <3>1. reply \in [Call -> Row \cup {None}]
      BY <1>t DEF TypeOK
    <3>2. /\ issued' = issued + 1
          /\ \E r \in Answers : reply' = [reply EXCEPT ![c] = r]
      BY <1>3 DEF ExchangeCode
    <3> QED
      BY <2>1, <3>1, <3>2
  <2> QED
    BY <1>t, <1>3, <2>2 DEF TypeOK, ExchangeCode, Begin, Goto, Call
<1>4. ASSUME NEW c \in Admin, Revoke(c) PROVE TypeOK'
  BY <1>t, <1>4 DEF TypeOK, Revoke, Begin, Goto, provider, Call
<1>5. ASSUME NEW c \in Call, AnswerAtOnce(c) PROVE TypeOK'
  <2> DEFINE a == IF seen[c] = None THEN None
                  ELSE IF seen[c].near THEN None ELSE seen[c].access
  <2>1. a \in Token \cup {None}
    BY <1>t, <1>r DEF TypeOK
  <2>2. Settle(c, a) /\ UNCHANGED <<row, lock, provider, excused, back>>
    BY <1>5 DEF AnswerAtOnce
  <2> HIDE DEF a
  <2> QED
    BY <1>t, <1>s, <2>1, <2>2 DEF TypeOK, provider
<1>6. ASSUME NEW c \in Call, Join(c) PROVE TypeOK'
  BY <1>t, <1>6 DEF TypeOK, Join, Goto, provider
<1>7. ASSUME NEW c \in Call, TakeLock(c) PROVE TypeOK'
  BY <1>t, <1>7 DEF TypeOK, TakeLock, Goto, provider, Locked
<1>8. ASSUME NEW c \in Call, ReadRecord(c) PROVE TypeOK'
  BY <1>t, <1>8 DEF TypeOK, ReadRecord, Goto, provider, Locked, Explicit
<1>9. ASSUME NEW c \in Call, NothingToRefresh(c) PROVE TypeOK'
  <2>1. Settle(c, None) /\ Finally(c) /\ UNCHANGED <<row, provider, excused, back>>
    BY <1>9 DEF NothingToRefresh
  <2> QED
    BY <1>t, <1>s, <1>l, <2>1 DEF TypeOK, provider
<1>10. ASSUME NEW c \in Call, Fetch(c) PROVE TypeOK'
  <2>1. /\ \A r \in Answers : r \in Row
        /\ issued' \in 0..MaxTokens
    BY <1>t, <1>10, NewToken DEF Fetch
  <2>2. /\ reply' \in [Call -> Row \cup {None}]
        /\ pc' \in [Call -> PCs]
    BY <1>t, <1>10, <2>1 DEF TypeOK, Fetch, PCs, Goto, Locked, Explicit
  <2>3. spent' \subseteq Token /\ respent' \in BOOLEAN
    <3>1. seen[c].refresh \in Token
      BY <1>t, <1>10 DEF Calls, CallInv, Fetching, Fetch
    <3> QED
      BY <1>t, <1>10, <3>1 DEF TypeOK, Fetch, Spend, Sent
  <2> QED
    BY <1>t, <1>10, <2>1, <2>2, <2>3 DEF TypeOK, Fetch, PCs
<1>11. ASSUME NEW c \in Call, Refused(c) PROVE TypeOK'
  <2>1. /\ Settle(c, None) /\ Finally(c) /\ Sent(seen[c].refresh)
        /\ UNCHANGED <<row, issued, spent, faults, excused, back>>
    BY <1>11 DEF Refused
  <2>2. respent' \in BOOLEAN
    BY <1>t, <2>1 DEF TypeOK, Sent
  <2> QED
    BY <1>t, <1>s, <1>l, <2>1, <2>2 DEF TypeOK
<1>12. ASSUME NEW c \in Call, FetchFails(c) PROVE TypeOK'
  <2>1. /\ Settle(c, None) /\ Finally(c) /\ faults < MaxFaults /\ faults' = faults + 1
        /\ UNCHANGED <<row, issued, back>>
    BY <1>12 DEF FetchFails
  <2>2. spent' \subseteq Token /\ respent' \in BOOLEAN /\ excused' \in BOOLEAN
    <3>1. seen[c].refresh \in Token
      BY <1>t, <1>12 DEF Calls, CallInv, Fetching, FetchFails
    <3> QED
      BY <1>t, <1>12, <3>1 DEF TypeOK, FetchFails, Spend, Sent
  <2>3. faults' \in 0..MaxFaults
    BY <1>t, <2>1 DEF TypeOK
  <2> QED
    BY <1>t, <1>s, <1>l, <2>1, <2>2, <2>3 DEF TypeOK
<1>13. ASSUME NEW c \in Call, Store(c) PROVE TypeOK'
  <2>1. reply[c] \in Row
    BY <1>t, <1>13 DEF Calls, CallInv, Pending, Store
  <2>2. /\ row' \in Row \cup {None} /\ held' \in [Asker -> SUBSET Token]
        /\ overtaken' \subseteq Call
    BY <1>13, <1>p, <2>1 DEF Store
  <2> QED
    BY <1>t, <1>13, <2>2 DEF TypeOK, Store, Goto, provider, Locked
<1>14. ASSUME NEW c \in Call, StoreAlone(c) PROVE TypeOK'
  <2>1. reply[c] \in Row
    BY <1>t, <1>14 DEF Calls, CallInv, Pending, StoreAlone
  <2>2. /\ row' \in Row \cup {None} /\ held' \in [Asker -> SUBSET Token]
        /\ overtaken' \subseteq Call
    BY <1>14, <1>p, <2>1 DEF StoreAlone
  <2> QED
    BY <1>t, <1>14, <2>2, LeaveMoves DEF TypeOK, StoreAlone, provider, PCs
<1>15. ASSUME NEW c \in Call, StoreFails(c) PROVE TypeOK'
  <2>1. /\ Settle(c, None) /\ Finally(c) /\ faults' \in 0..MaxFaults
        /\ excused' = TRUE /\ UNCHANGED <<row, issued, spent, respent, back>>
    BY <1>t, <1>15 DEF StoreFails, TypeOK
  <2> QED
    BY <1>t, <1>s, <1>l, <2>1 DEF TypeOK
<1>16. ASSUME NEW c \in Call, Answer(c) PROVE TypeOK'
  <2> DEFINE a == IF reply[c] = None THEN None ELSE reply[c].access
  <2>1. a \in Token \cup {None}
    BY <1>t, <1>r DEF TypeOK
  <2>2. Settle(c, a) /\ Finally(c) /\ UNCHANGED <<row, provider, excused, back>>
    BY <1>16 DEF Answer
  <2> HIDE DEF a
  <2> QED
    BY <1>t, <1>s, <1>l, <2>1, <2>2 DEF TypeOK, provider
<1>17. ASSUME NEW c \in Call, Unlock(c) PROVE TypeOK'
  <2>1. /\ Settle(c, None) /\ lock' = None /\ excused' \in BOOLEAN
        /\ UNCHANGED <<row, provider, back>>
    BY <1>t, <1>17 DEF Unlock, TypeOK
  <2> QED
    BY <1>t, <1>s, <2>1 DEF TypeOK, provider
<1>18. CASE Expire
  <2>1. row' \in Row
    BY <1>t, <1>18 DEF TypeOK, Expire, Row
  <2> QED
    BY <1>t, <1>18, <2>1 DEF TypeOK, Expire, provider
<1>19. CASE UNCHANGED vars
  BY <1>t, <1>19 DEF TypeOK, vars, provider
<1>20. ASSUME NEW c \in Call, Reread(c) PROVE TypeOK'
  BY <1>t, <1>20 DEF TypeOK, Reread, Goto, provider, Locked
<1>21. ASSUME NEW c \in Call, ReadFails(c) PROVE TypeOK'
  <2>1. /\ Settle(c, None) /\ Finally(c) /\ faults' \in 0..MaxFaults
        /\ UNCHANGED <<row, issued, spent, respent, excused, back>>
    BY <1>t, <1>21 DEF ReadFails, TypeOK
  <2> QED
    BY <1>t, <1>s, <1>l, <2>1 DEF TypeOK
<1> QED
  BY <1>1, <1>2, <1>3, <1>4, <1>5, <1>6, <1>7, <1>8, <1>9, <1>10, <1>11, <1>12, <1>13,
     <1>14, <1>15, <1>16, <1>17, <1>18, <1>19, <1>20, <1>21 DEF Next, Proceed, Refresh

-----------------------------------------------------------------------------
(* The calls.  A step of c keeps what holds of the others: none of them    *)
(* moves, except those that wait for c, and those are done.                *)
LEMMA CallsStay ==
  ASSUME TypeOK, Calls, NEW c \in Call, NEW p, Moves(c, p), CallInv(c)',
         \/ pc[c] \notin Locked
         \/ p \in Locked
         \/ \A d \in Over(c) : pc'[d] = "idle"
  PROVE  Calls'
<1> SUFFICES ASSUME NEW d \in Call PROVE CallInv(d)'
  BY DEF Calls
<1>1. CASE d = c
  BY <1>1
<1>2. CASE d # c /\ pc'[d] = "idle"
  BY <1>2 DEF CallInv, Fetching, Pending, Asking, Locked
<1>3. CASE d # c /\ pc'[d] # "idle"
  <2>1. /\ pc'[d] = pc[d] /\ on'[d] = on[d] /\ seen'[d] = seen[d]
        /\ reply'[d] = reply[d] /\ CallInv(d)
    BY <1>3 DEF Moves, Calls
  <2>2. ASSUME pc[d] = "wait" PROVE on[d] \in Call /\ pc'[on[d]] \in Locked
    <3>1. on[d] \in Call /\ pc[on[d]] \in Locked
      BY <2>1, <2>2 DEF CallInv
    <3>2. CASE on[d] = c
      <4>1. d \in Over(c)
        BY <2>2, <3>2 DEF Over
      <4> QED
        BY <1>3, <3>1, <3>2, <4>1 DEF Moves
    <3>3. CASE on[d] # c
      BY <3>1, <3>3 DEF Moves, Locked
    <3> QED
      BY <3>2, <3>3
  <2>3. /\ d \in Fetching' <=> d \in Fetching
        /\ d \in Pending' <=> d \in Pending
    BY <2>1 DEF Fetching, Pending
  <2> QED
    BY <2>1, <2>2, <2>3 DEF CallInv
<1> QED
  BY <1>1, <1>2, <1>3

(* A call that leaves.                                                     *)
LEMMA CallsLeave ==
  ASSUME TypeOK, Calls, NEW c \in Call, Leave(c)
  PROVE  Calls'
<1>1. Moves(c, "idle") /\ \A d \in Over(c) : pc'[d] = "idle"
  BY LeaveMoves
<1>2. CallInv(c)'
  BY <1>1 DEF Moves, CallInv, Fetching, Pending, Asking, Locked
<1> QED
  BY <1>1, <1>2, CallsStay

(* Every step is one of a call that leaves, of a call that goes on, or of  *)
(* none.                                                                   *)
Leaving(c) == AnswerAtOnce(c) \/ NothingToRefresh(c) \/ Refused(c) \/ FetchFails(c)
              \/ StoreAlone(c) \/ StoreFails(c) \/ Answer(c) \/ ReadFails(c)
              \/ Unlock(c)

Going(c) == \/ c \in Asker /\ GetAccessToken(c)
            \/ c \in Admin /\ (RefreshToken(c) \/ ExchangeCode(c) \/ Revoke(c))
            \/ Join(c) \/ TakeLock(c) \/ ReadRecord(c) \/ Fetch(c) \/ Store(c)
            \/ Reread(c)

LEMMA Steps ==
  ASSUME [Next]_vars
  PROVE  \/ \E c \in Call : Leaving(c) \/ Going(c)
         \/ Expire
         \/ UNCHANGED vars
BY DEF Next, Proceed, Refresh, Leaving, Going, Call

LEMMA LeavingLeaves ==
  ASSUME TypeOK, NEW c \in Call, Leaving(c)
  PROVE  Leave(c) /\ pc[c] # "idle"
<1>1. \A a : Settle(c, a) => Leave(c)
  BY DEF Settle
<1> QED
  BY <1>1 DEF Leaving, AnswerAtOnce, NothingToRefresh, Refused, FetchFails, StoreAlone,
              StoreFails, Answer, ReadFails, Unlock

(* From where a call goes to where, by its next step.                      *)
LEMMA GoingMoves ==
  ASSUME TypeOK, Calls, NEW c \in Call, Going(c)
  PROVE  /\ Moves(c, pc'[c])
         /\ \A d \in Call \ {c} : pc'[d] = pc[d]
         /\ \/ c \in Asker /\ GetAccessToken(c) /\ pc[c] = "idle" /\ pc'[c] = "got"
            \/ RefreshToken(c) /\ pc[c] = "idle" /\ pc'[c] = "Record"
            \/ ExchangeCode(c) /\ pc[c] = "idle" /\ pc'[c] = "code"
            \/ Revoke(c) /\ pc[c] = "idle" /\ pc'[c] = "unlock"
            \/ Join(c) /\ pc[c] = "got" /\ pc'[c] = "wait"
            \/ TakeLock(c) /\ pc[c] = "got" /\ pc'[c] = "record"
            \/ ReadRecord(c) /\ pc[c] = "record" /\ pc'[c] = "fetch"
            \/ ReadRecord(c) /\ pc[c] = "Record" /\ pc'[c] = "Fetch"
            \/ Fetch(c) /\ pc[c] = "fetch" /\ pc'[c] = "store"
            \/ Fetch(c) /\ pc[c] = "Fetch" /\ pc'[c] = "Store"
            \/ Store(c) /\ pc[c] = "store" /\ pc'[c] = "reread"
            \/ Reread(c) /\ pc[c] = "reread" /\ pc'[c] = "answer"
<1>g. ASSUME NEW p \in PCs, Goto(c, p),
             \A d \in Call \ {c} : /\ on'[d] = on[d]
                                   /\ seen'[d] = seen[d] /\ reply'[d] = reply[d]
      PROVE  /\ pc'[c] = p /\ Moves(c, pc'[c])
             /\ \A d \in Call \ {c} : pc'[d] = pc[d]
  BY <1>g, GotoMoves DEF Moves
<1>f. ASSUME NEW p, p \in {"got", "Record", "code", "unlock", "wait", "record", "fetch",
                          "Fetch", "store", "Store", "reread", "answer"}
      PROVE  p \in PCs
  BY <1>f DEF PCs, Locked, Explicit
<1>t. /\ on \in [Call -> Call \cup {None}]
      /\ seen \in [Call -> Row \cup {None}] /\ reply \in [Call -> Row \cup {None}]
  BY DEF TypeOK
<1>1. CASE c \in Asker /\ GetAccessToken(c)
  BY <1>t, <1>g, <1>f, <1>1 DEF GetAccessToken, Begin
<1>2. CASE RefreshToken(c)
  BY <1>t, <1>g, <1>f, <1>2 DEF RefreshToken, Begin
<1>3. CASE ExchangeCode(c)
  BY <1>t, <1>g, <1>f, <1>3 DEF ExchangeCode, Begin
<1>4. CASE Revoke(c)
  BY <1>t, <1>g, <1>f, <1>4 DEF Revoke, Begin
<1>5. CASE Join(c)
  BY <1>t, <1>g, <1>f, <1>5 DEF Join, NearExpiry
<1>6. CASE TakeLock(c)
  BY <1>t, <1>g, <1>f, <1>6 DEF TakeLock, NearExpiry
<1>7. CASE ReadRecord(c)
  BY <1>t, <1>g, <1>f, <1>7 DEF ReadRecord
<1>8. CASE Fetch(c)
  BY <1>t, <1>g, <1>f, <1>8 DEF Fetch
<1>9. CASE Store(c)
  BY <1>t, <1>g, <1>f, <1>9 DEF Store
<1>10. CASE Reread(c)
  BY <1>t, <1>g, <1>f, <1>10 DEF Reread
<1> QED
  BY <1>1, <1>2, <1>3, <1>4, <1>5, <1>6, <1>7, <1>8, <1>9, <1>10 DEF Going

LEMMA CallsInductive == ASSUME IInv, TypeOK', [Next]_vars PROVE Calls'
<1>t. TypeOK /\ Calls /\ LockIsHeld
  BY DEF IInv
<1>1. ASSUME NEW c \in Call, Leaving(c) PROVE Calls'
  BY <1>t, <1>1, LeavingLeaves, CallsLeave
<1>2. ASSUME NEW c \in Call, Going(c) PROVE Calls'
  <2> DEFINE p == pc'[c]
  <2>1. Moves(c, p) /\ (pc[c] \in Locked => p \in Locked)
    BY <1>t, <1>2, GoingMoves DEF Locked
  <2>2. c \in Fetching' => seen'[c] \in Row /\ seen'[c].refresh \in Token
    <3>1. c \in Fetching' => ReadRecord(c)
      BY <1>t, <1>2, GoingMoves DEF Fetching
    <3>2. ReadRecord(c) => /\ row \in Row /\ row.refresh \in Token
                           /\ seen'[c] = row
      BY <1>t DEF ReadRecord, TypeOK, Row
    <3> QED
      BY <3>1, <3>2
  <2>3. c \in Pending' => reply'[c] \in Row
    <3>1. c \in Pending' => Fetch(c) \/ ExchangeCode(c)
      BY <1>t, <1>2, GoingMoves DEF Pending
    <3>2. Fetch(c) \/ ExchangeCode(c) => \E r \in Answers : r \in Row /\ reply'[c] = r
      BY <1>t, NewToken DEF Fetch, ExchangeCode, TypeOK
    <3> QED
      BY <3>1, <3>2
  <2>4. pc'[c] \in Asking => c \in Asker
    <3>1. pc'[c] \in Asking => c \in Asker \/ pc[c] \in Asking
      BY <1>t, <1>2, GoingMoves DEF Asking, Locked
    <3> QED
      BY <1>t, <3>1 DEF Calls, CallInv
  <2>5. pc'[c] = "wait" => on'[c] \in Call /\ pc'[on'[c]] \in Locked
    <3> SUFFICES ASSUME pc'[c] = "wait" PROVE on'[c] \in Call /\ pc'[on'[c]] \in Locked
      OBVIOUS
    <3>1. Join(c) /\ pc[c] = "got"
      BY <1>t, <1>2, GoingMoves
    <3>2. on'[c] = lock /\ lock \in Call /\ pc[lock] \in Locked
      BY <1>t, <3>1 DEF Join, TypeOK, LockIsHeld
    <3>3. lock # c
      BY <3>1, <3>2 DEF Locked
    <3> QED
      BY <1>t, <1>2, <3>2, <3>3, GoingMoves
  <2>6. CallInv(c)'
    BY <2>2, <2>3, <2>4, <2>5 DEF CallInv
  <2> QED
    BY <1>t, <2>1, <2>6, CallsStay
<1>3. CASE Expire \/ UNCHANGED vars
  <2>1. UNCHANGED <<pc, seen, reply, on>>
    BY <1>3 DEF Expire, vars
  <2> QED
    BY <1>t, <2>1 DEF Calls, CallInv, Fetching, Pending
<1> QED
  BY <1>1, <1>2, <1>3, Steps

(* What is excused stays so.                                               *)
LEMMA Monotonic ==
  ASSUME NEW c \in Call, Going(c), excused
  PROVE  excused'
<1>1. CASE GetAccessToken(c) \/ Join(c) \/ ReadRecord(c) \/ Fetch(c) \/ Store(c)
         \/ Reread(c)
  BY <1>1 DEF GetAccessToken, Join, ReadRecord, Fetch, Store, Reread
<1>2. CASE RefreshToken(c)
  BY <1>2, Zenon DEF RefreshToken
<1>3. CASE ExchangeCode(c)
  BY <1>3, Zenon DEF ExchangeCode
<1>4. CASE Revoke(c)
  BY <1>4, Zenon DEF Revoke
<1>5. CASE TakeLock(c)
  BY <1>5, Zenon DEF TakeLock
<1> QED
  BY <1>1, <1>2, <1>3, <1>4, <1>5 DEF Going

(* The lock.                                                               *)
LEMMA LockInductive == ASSUME IInv, TypeOK', [Next]_vars PROVE LockIsHeld'
<1>t. TypeOK /\ Calls /\ LockIsHeld
  BY DEF IInv
<1>1. ASSUME NEW c \in Call, Leaving(c) PROVE LockIsHeld'
  <2>1. Moves(c, "idle")
    BY <1>t, <1>1, LeavingLeaves, LeaveMoves
  <2>2. \A d \in Call : /\ pc'[d] \in Locked <=> d # c /\ pc[d] \in Locked
                        /\ d # c /\ pc[d] \in Locked => pc'[d] = pc[d]
    BY <2>1 DEF Moves, Locked
  <2>3. CASE Unlock(c)
    <3>1. lock' = None /\ (~excused' => ~excused /\ Refreshing = {})
      BY <1>t, <2>3 DEF Unlock, TypeOK
    <3> QED
      BY <2>2, <3>1 DEF LockIsHeld, Refreshing
  <2>4. CASE ~Unlock(c)
    <3>1. /\ lock' = IF pc[c] \in Locked THEN None ELSE lock
          /\ excused => excused'
      BY <1>1, <2>4 DEF Leaving, AnswerAtOnce, NothingToRefresh, Refused, FetchFails,
           StoreAlone, StoreFails, Answer, ReadFails, Finally, Locked
    <3>2. CASE pc[c] \in Locked
      BY <1>t, <2>2, <3>1, <3>2 DEF LockIsHeld
    <3>3. CASE pc[c] \notin Locked
      BY <1>t, <2>2, <3>1, <3>3 DEF LockIsHeld, TypeOK
    <3> QED
      BY <3>2, <3>3
  <2> QED
    BY <2>3, <2>4
<1>2. ASSUME NEW c \in Call, Going(c) PROVE LockIsHeld'
  <2>1. \A d \in Call \ {c} : pc'[d] = pc[d]
    BY <1>t, <1>2, GoingMoves
  <2>2. CASE TakeLock(c)
    <3>1. /\ lock = None /\ lock' = c /\ pc'[c] \in Locked
          /\ ~excused' => Refreshing = {}
      BY <1>t, <2>2 DEF TakeLock, TypeOK, Goto, Locked
    <3> QED
      BY <2>1, <3>1 DEF LockIsHeld, Refreshing
  <2>3. CASE ~TakeLock(c)
    <3>0. excused => excused'
      BY <1>2, <2>3, Monotonic
    <3>1. lock' = lock
      BY <1>2, <2>3 DEF Going, GetAccessToken, RefreshToken, ExchangeCode, Revoke, Join,
           ReadRecord, Fetch, Store, Reread
    <3>2. pc'[c] \in Locked <=> pc[c] \in Locked
      BY <1>t, <1>2, <2>3, GoingMoves DEF Locked
    <3> QED
      BY <1>t, <2>1, <3>0, <3>1, <3>2 DEF LockIsHeld, TypeOK
  <2> QED
    BY <2>2, <2>3
<1>3. CASE Expire \/ UNCHANGED vars
  BY <1>t, <1>3 DEF Expire, vars, LockIsHeld
<1> QED
  BY <1>1, <1>2, <1>3, Steps

-----------------------------------------------------------------------------
(* Tokens.  A step that neither issues nor spends nor stores a token, and  *)
(* gives no call one to spend or to store.                                 *)
LEMMA FreshStays ==
  ASSUME FreshInv, issued' = issued, spent' = spent,
         row' # None => row # None /\ row'.refresh = row.refresh,
         \A d \in Fetching' : d \in Fetching /\ seen'[d] = seen[d],
         \A d \in Pending' : d \in Pending /\ reply'[d] = reply[d]
  PROVE  FreshInv'
BY DEF FreshInv, Unknown

(* One that issues a token, of which only c knows, and may spend another.  *)
LEMMA FreshIssue ==
  ASSUME FreshInv, issued \in Nat, NEW c \in Call,
         issued' = issued + 1, row' = row,
         spent' = spent \/ (c \in Fetching /\ spent' = spent \cup {seen[c].refresh}),
         c \notin Fetching', c \in Pending', c \notin Pending,
         Fetching' \ {c} = Fetching \ {c}, Pending' \ {c} = Pending \ {c},
         Fetching \subseteq Call, Pending \subseteq Call,
         \A d \in Call \ {c} : seen'[d] = seen[d] /\ reply'[d] = reply[d],
         reply'[c].refresh = None \/ reply'[c].refresh = issued + 1
  PROVE  FreshInv'
<1>1. /\ spent' \subseteq 1..issued'
      /\ row' # None => row'.refresh = None \/ row'.refresh \in 1..issued'
      /\ \A d \in Fetching' : d \in Fetching /\ seen'[d].refresh \in 1..issued
      /\ \A d \in Fetching' : seen'[d].refresh \in 1..issued'
  <2>1. \A d \in Fetching' : /\ d \in Fetching /\ seen'[d] = seen[d]
                             /\ seen[d].refresh \in 1..issued
    BY DEF FreshInv
  <2>2. 1..issued \subseteq 1..issued'
    OBVIOUS
  <2>3. row # None => row.refresh = None \/ row.refresh \in 1..issued
    BY DEF FreshInv
  <2>4. spent' \subseteq 1..issued
    BY DEF FreshInv
  <2> QED
    BY <2>1, <2>2, <2>3, <2>4
<1>2. \A d \in Pending' \ {c} :
        reply'[d].refresh = None \/ reply'[d].refresh \in 1..issued
  BY DEF FreshInv, Unknown
<1>3. ASSUME NEW d \in Pending', NEW t, t = reply'[d].refresh, t # None
      PROVE  /\ t \in 1..issued' /\ t \notin spent'
             /\ row' # None => row'.refresh # t
             /\ \A e \in Fetching' : seen'[e].refresh # t
             /\ \A e \in Pending' \ {d} : reply'[e].refresh # t
  <2>1. CASE d = c
    <3>1. t = issued + 1
      BY <1>3, <2>1
    <3>2. t \in 1..issued' /\ t \notin 1..issued
      BY <3>1
    <3>3. t \notin spent' /\ (row' # None => row'.refresh # t)
      BY <1>3, <3>1, <3>2 DEF FreshInv
    <3>4. \A e \in Fetching' : seen'[e].refresh # t
      BY <1>1, <3>2
    <3>5. \A e \in Pending' \ {d} : reply'[e].refresh # t
      BY <1>2, <1>3, <2>1, <3>2
    <3> QED
      BY <3>2, <3>3, <3>4, <3>5
  <2>2. CASE d # c
    <3>1. d \in Pending /\ reply'[d] = reply[d] /\ Unknown(d, t)
      BY <1>3, <2>2 DEF FreshInv
    <3>2. t \in 1..issued /\ t \in 1..issued' /\ t # issued + 1
      BY <3>1 DEF Unknown
    <3>3. t \notin spent' /\ (row' # None => row'.refresh # t)
      BY <3>1 DEF Unknown
    <3>4. \A e \in Fetching' : seen'[e].refresh # t
      BY <1>1, <3>1 DEF Unknown
    <3>5. \A e \in Pending' \ {d} : reply'[e].refresh # t
      BY <1>3, <3>1, <3>2 DEF Unknown
    <3> QED
      BY <3>2, <3>3, <3>4, <3>5
  <2> QED
    BY <2>1, <2>2
<1> QED
  BY <1>1, <1>3 DEF FreshInv, Unknown

LEMMA FreshInductive == ASSUME IInv, TypeOK', [Next]_vars PROVE FreshInv'
<1>t. TypeOK /\ Calls /\ FreshInv /\ issued \in Nat
  BY DEF IInv, TypeOK
<1>p. \A c \in Call : c \in Fetching \cup Pending => pc[c] # "wait"
  BY DEF Fetching, Pending
<1>m. ASSUME NEW c \in Call, Moves(c, pc'[c])
      PROVE  /\ Fetching' \ {c} = Fetching \ {c}
             /\ Pending' \ {c} = Pending \ {c}
             /\ \A d \in Call \ {c} : seen'[d] = seen[d] /\ reply'[d] = reply[d]
  BY <1>m DEF Moves, Fetching, Pending
<1>1. ASSUME NEW c \in Call, Leaving(c) PROVE FreshInv'
  <2>1. Moves(c, "idle") /\ pc'[c] = "idle"
    BY <1>t, <1>1, LeavingLeaves, LeaveMoves DEF Moves
  <2>2. c \notin Fetching' /\ c \notin Pending'
    BY <2>1 DEF Fetching, Pending
  <2>3. /\ Fetching' = Fetching \ {c} /\ Pending' = Pending \ {c}
        /\ \A d \in Call \ {c} : seen'[d] = seen[d] /\ reply'[d] = reply[d]
        /\ Fetching \subseteq Call /\ Pending \subseteq Call
    BY <1>m, <2>1, <2>2 DEF Fetching, Pending
  <2>4. CASE StoreAlone(c)
    <3>1. c \in Pending /\ row' = reply[c] /\ issued' = issued /\ spent' = spent
      BY <2>4 DEF StoreAlone, Pending, Put, provider
    <3>2. row'.refresh = None \/ Unknown(c, row'.refresh)
      BY <1>t, <3>1 DEF FreshInv
    <3> QED
      BY <1>t, <2>3, <3>1, <3>2 DEF FreshInv, Unknown
  <2>5. CASE FetchFails(c)
    <3>1. /\ c \in Fetching /\ row' = row /\ issued' = issued
          /\ spent' = spent \/ spent' = spent \cup {seen[c].refresh}
      BY <2>5 DEF FetchFails, Fetching, Spend
    <3> QED
      BY <1>t, <2>3, <3>1 DEF FreshInv, Unknown
  <2>6. CASE ~StoreAlone(c) /\ ~FetchFails(c)
    <3>1. row' = row /\ issued' = issued /\ spent' = spent
      BY <1>1, <2>6 DEF Leaving, AnswerAtOnce, NothingToRefresh, Refused, StoreFails,
                        Answer, ReadFails, Unlock, provider
    <3> QED
      BY <1>t, <2>3, <3>1, FreshStays
  <2> QED
    BY <2>4, <2>5, <2>6
<1>2. ASSUME NEW c \in Call, Going(c) PROVE FreshInv'
  <2>1. /\ Fetching' \ {c} = Fetching \ {c}
        /\ Pending' \ {c} = Pending \ {c}
        /\ \A d \in Call \ {c} : seen'[d] = seen[d] /\ reply'[d] = reply[d]
        /\ Fetching \subseteq Call /\ Pending \subseteq Call
        /\ Fetching' \subseteq Call /\ Pending' \subseteq Call
    BY <1>t, <1>2, <1>m, GoingMoves DEF Fetching, Pending
  <2>2. CASE ReadRecord(c)
    <3>1. /\ c \notin Pending' /\ c \notin Pending
          /\ row' = row /\ issued' = issued /\ spent' = spent
          /\ seen'[c] = row /\ row # None /\ row.refresh # None
      BY <1>t, <2>2 DEF ReadRecord, Pending, provider, TypeOK, Goto
    <3> QED
      BY <1>t, <2>1, <3>1 DEF FreshInv, Unknown
  <2>3. CASE Fetch(c)
    <3>1. /\ c \in Fetching /\ c \notin Fetching' /\ c \notin Pending /\ c \in Pending'
          /\ row' = row /\ issued' = issued + 1 /\ spent' = spent \cup {seen[c].refresh}
      BY <1>t, <2>3 DEF Fetch, Fetching, Pending, Spend, TypeOK, Goto
    <3>2. reply'[c].refresh = None \/ reply'[c].refresh = issued + 1
      BY <1>t, <2>3, NewToken DEF Fetch, TypeOK
    <3> QED
      BY <1>t, <2>1, <3>1, <3>2, FreshIssue
  <2>4. CASE ExchangeCode(c)
    <3>1. /\ c \notin Fetching /\ c \notin Fetching' /\ c \notin Pending /\ c \in Pending'
          /\ row' = row /\ issued' = issued + 1 /\ spent' = spent
      BY <1>t, <2>4 DEF ExchangeCode, Fetching, Pending, TypeOK, Begin, Goto
    <3>2. reply'[c].refresh = None \/ reply'[c].refresh = issued + 1
      BY <1>t, <2>4, NewToken DEF ExchangeCode, TypeOK
    <3> QED
      BY <1>t, <2>1, <3>1, <3>2, FreshIssue
  <2>5. CASE Store(c)
    <3>1. /\ c \in Pending /\ c \notin Pending' /\ c \notin Fetching'
          /\ row' = reply[c] /\ issued' = issued /\ spent' = spent
      BY <1>t, <2>5 DEF Store, Pending, Fetching, Put, provider, TypeOK, Goto
    <3>2. row'.refresh = None \/ Unknown(c, row'.refresh)
      BY <1>t, <3>1 DEF FreshInv
    <3> QED
      BY <1>t, <2>1, <3>1, <3>2 DEF FreshInv, Unknown
  <2>6. CASE ~(ReadRecord(c) \/ Fetch(c) \/ ExchangeCode(c) \/ Store(c))
    <3>1. /\ issued' = issued /\ spent' = spent
          /\ row' = row \/ row' = None
      BY <1>2, <2>6 DEF Going, GetAccessToken, RefreshToken, Revoke, Join, TakeLock, Reread,
                        provider
    <3>2. c \notin Fetching' /\ c \notin Pending'
      BY <1>t, <1>2, <2>6, GoingMoves DEF Fetching, Pending
    <3> QED
      BY <1>t, <2>1, <3>1, <3>2, FreshStays
  <2> QED
    BY <2>2, <2>3, <2>4, <2>5, <2>6
<1>3. CASE Expire
  <2>1. /\ UNCHANGED <<pc, seen, reply, issued, spent>>
        /\ row # None /\ row'.refresh = row.refresh
    BY <1>t, <1>3 DEF Expire, provider, TypeOK, Row
  <2> QED
    BY <1>t, <2>1, FreshStays DEF Fetching, Pending
<1>4. CASE UNCHANGED vars
  BY <1>t, <1>4 DEF vars, provider, FreshInv, Unknown, Fetching, Pending
<1> QED
  BY <1>1, <1>2, <1>3, <1>4, Steps

-----------------------------------------------------------------------------
(* One refresh at a time.  A step in which no call begins to refresh, and  *)
(* none is about to spend or to store that was not before.                 *)
LEMMA OnceStays ==
  ASSUME OnceInv, excused => excused', spent' = spent,
         row' # None => row # None /\ row'.refresh = row.refresh,
         Refreshing' \subseteq Refreshing,
         Storing' = Storing,
         \A d \in Fetching' : d \in Fetching /\ seen'[d] = seen[d]
  PROVE  OnceInv'
BY DEF OnceInv

LEMMA OnceInductive == ASSUME IInv, TypeOK', [Next]_vars PROVE OnceInv' /\ SpentOnce'
<1>t. TypeOK /\ Calls /\ OnceInv /\ FreshInv /\ SpentOnce
  BY DEF IInv
<1>s. /\ Fetching \subseteq Refreshing /\ Storing \subseteq Refreshing
      /\ Refreshing \subseteq Call /\ Fetching \cap Storing = {}
  BY DEF Fetching, Storing, Refreshing, Locked, Explicit
<1>m. ASSUME NEW c \in Call, Moves(c, pc'[c])
      PROVE  /\ Fetching' \ {c} = Fetching \ {c}
             /\ Storing' \ {c} = Storing \ {c}
             /\ Refreshing' \ {c} = Refreshing \ {c}
             /\ \A d \in Call \ {c} : seen'[d] = seen[d]
             /\ Refreshing' \subseteq Call
  BY <1>m DEF Moves, Fetching, Storing, Refreshing, Locked, Explicit
<1>x. ASSUME NEW c \in Call, c \in Fetching, Sent(seen[c].refresh) PROVE SpentOnce'
  <2>1. ~(seen[c].refresh \in spent /\ ~excused)
    BY <1>t, <1>x DEF OnceInv
  <2> QED
    BY <1>t, <1>x, <2>1, Zenon DEF SpentOnce, Sent
<1>1. ASSUME NEW c \in Call, Leaving(c) PROVE OnceInv' /\ SpentOnce'
  <2>1. Moves(c, "idle") /\ pc'[c] = "idle"
    BY <1>t, <1>1, LeavingLeaves, LeaveMoves DEF Moves
  <2>2. /\ Refreshing' = Refreshing \ {c} /\ Fetching' = Fetching \ {c}
        /\ Storing' = Storing \ {c}
        /\ \A d \in Call \ {c} : seen'[d] = seen[d]
    BY <1>m, <1>s, <2>1 DEF Refreshing, Fetching, Storing, Locked, Explicit
  <2>3. CASE StoreAlone(c)
    <3>1. /\ c \in Pending /\ row' = reply[c] /\ excused' = excused
          /\ spent' = spent /\ respent' = respent
      BY <2>3 DEF StoreAlone, Pending, Put, provider
    <3>2. row'.refresh \notin spent
      <4>1. None \notin Token /\ spent \subseteq Token
        BY <1>t DEF TypeOK, Token
      <4> QED
        BY <1>t, <3>1, <4>1 DEF FreshInv, Unknown
    <3>3. OnceInv'
      BY <1>t, <1>s, <2>2, <3>1, <3>2 DEF OnceInv
    <3> QED
      BY <1>t, <3>1, <3>3 DEF SpentOnce
  <2>4. CASE FetchFails(c)
    <3>1. c \in Fetching /\ row' = row
      BY <2>4 DEF FetchFails, Fetching
    <3>2. CASE Spend(seen[c].refresh) /\ excused' = TRUE
      BY <1>x, <3>1, <3>2 DEF OnceInv, Spend
    <3>3. CASE UNCHANGED <<spent, respent, excused>>
      <4>1. Storing' = Storing
        BY <1>s, <2>2, <3>1
      <4>2. OnceInv'
        BY <1>t, <1>s, <2>2, <3>1, <3>3, <4>1, OnceStays
      <4> QED
        BY <1>t, <3>3, <4>2 DEF SpentOnce
    <3> QED
      BY <2>4, <3>2, <3>3 DEF FetchFails
  <2>5. CASE StoreFails(c)
    <3>1. excused' = TRUE /\ respent' = respent
      BY <2>5 DEF StoreFails
    <3> QED
      BY <1>t, <3>1 DEF OnceInv, SpentOnce
  <2>6. CASE Refused(c)
    <3>1. /\ c \in Fetching /\ Sent(seen[c].refresh) /\ row' = row /\ spent' = spent
          /\ excused' = excused
      BY <2>6 DEF Refused, Fetching
    <3>2. Storing' = Storing
      BY <1>s, <2>2, <3>1
    <3>3. OnceInv'
      BY <1>t, <1>s, <2>2, <3>1, <3>2, OnceStays
    <3> QED
      BY <1>x, <3>1, <3>3
  <2>7. CASE \/ AnswerAtOnce(c) \/ NothingToRefresh(c) \/ Answer(c)
            \/ ReadFails(c) \/ Unlock(c)
    <3>1. /\ row' = row /\ spent' = spent /\ respent' = respent /\ c \notin Storing
      BY <2>7 DEF AnswerAtOnce, NothingToRefresh, Answer, ReadFails, Unlock, provider, Storing
    <3>2. excused => excused'
      <4>1. CASE Unlock(c)
        BY <4>1, Zenon DEF Unlock
      <4>2. CASE ~Unlock(c)
        BY <2>7, <4>2 DEF AnswerAtOnce, NothingToRefresh, Answer, ReadFails
      <4> QED
        BY <4>1, <4>2
    <3>3. Storing' = Storing
      BY <2>2, <3>1
    <3>4. OnceInv'
      BY <1>t, <1>s, <2>2, <3>1, <3>2, <3>3, OnceStays
    <3> QED
      BY <1>t, <3>1, <3>4 DEF SpentOnce
  <2> QED
    BY <1>1, <2>3, <2>4, <2>5, <2>6, <2>7 DEF Leaving
<1>2. ASSUME NEW c \in Call, Going(c) PROVE OnceInv' /\ SpentOnce'
  <2>1. /\ Fetching' \ {c} = Fetching \ {c}
        /\ Storing' \ {c} = Storing \ {c}
        /\ Refreshing' \ {c} = Refreshing \ {c}
        /\ \A d \in Call \ {c} : seen'[d] = seen[d]
        /\ Refreshing' \subseteq Call
    BY <1>t, <1>2, <1>m, GoingMoves
  <2>2. excused => excused'
    BY <1>2, Monotonic
  <2>3. CASE TakeLock(c) \/ RefreshToken(c)
    <3>1. /\ row' = row /\ spent' = spent /\ respent' = respent
          /\ pc'[c] \in {"record", "Record"} /\ pc[c] \notin {"store", "Store"}
      BY <1>t, <2>3 DEF TakeLock, RefreshToken, provider, Begin, Goto, TypeOK, NearExpiry, Call
    <3>2. ~excused' => Refreshing = {}
      BY <2>3, Zenon DEF TakeLock, RefreshToken
    <3>3. c \notin Fetching' /\ c \notin Storing' /\ c \notin Storing
      BY <3>1 DEF Fetching, Storing
    <3>4. ~excused' => Fetching' = {} /\ Storing = {} /\ Refreshing' \subseteq {c}
      BY <1>s, <2>1, <3>2, <3>3
    <3>5. OnceInv'
      BY <1>t, <2>1, <2>2, <3>1, <3>3, <3>4 DEF OnceInv
    <3> QED
      BY <1>t, <3>1, <3>5 DEF SpentOnce
  <2>4. CASE ReadRecord(c)
    <3>1. /\ row' = row /\ spent' = spent /\ respent' = respent /\ excused' = excused
          /\ c \in Refreshing /\ c \in Refreshing' /\ c \notin Storing /\ c \notin Storing'
          /\ seen'[c] = row /\ row # None
      BY <1>t, <2>4 DEF ReadRecord, provider, Goto, TypeOK, Refreshing, Storing, Locked,
                        Explicit
    <3>2. Storing' = Storing /\ Refreshing' = Refreshing
      BY <2>1, <3>1
    <3>3. ~excused => Storing = {}
      BY <1>t, <1>s, <3>1 DEF OnceInv
    <3>4. ~excused => row.refresh \notin spent
      BY <1>t, <3>1, <3>3 DEF OnceInv
    <3>5. ~excused' => \A d \in Fetching' : seen'[d].refresh \notin spent'
      BY <1>t, <1>s, <2>1, <3>1, <3>4 DEF OnceInv
    <3>6. OnceInv'
      BY <1>t, <3>1, <3>2, <3>5 DEF OnceInv
    <3> QED
      BY <1>t, <3>1, <3>6 DEF SpentOnce
  <2>5. CASE Fetch(c)
    <3>1. /\ c \in Fetching /\ c \notin Fetching' /\ c \in Storing' /\ c \in Refreshing
          /\ c \in Refreshing' /\ excused' = excused
          /\ Sent(seen[c].refresh)
      BY <1>t, <2>5 DEF Fetch, Spend, Fetching, Storing, Refreshing, Locked, Explicit, TypeOK,
                        Goto
    <3>2. Refreshing' = Refreshing
      BY <2>1, <3>1
    <3>3. ~excused => Fetching' = {}
      BY <1>t, <1>s, <2>1, <3>1 DEF OnceInv
    <3>4. OnceInv'
      BY <1>t, <3>1, <3>2, <3>3 DEF OnceInv
    <3> QED
      BY <1>x, <3>1, <3>4
  <2>6. CASE Store(c)
    <3>1. /\ c \in Pending /\ c \notin Fetching' /\ c \in Refreshing /\ c \in Refreshing'
          /\ row' = reply[c] /\ excused' = excused /\ spent' = spent /\ respent' = respent
      BY <1>t, <2>6 DEF Store, Pending, Fetching, Put, provider, Refreshing, Locked, Explicit,
                        TypeOK, Goto
    <3>2. row'.refresh \notin spent
      <4>1. None \notin Token /\ spent \subseteq Token
        BY <1>t DEF TypeOK, Token
      <4> QED
        BY <1>t, <3>1, <4>1 DEF FreshInv, Unknown
    <3>3. Refreshing' = Refreshing
      BY <2>1, <3>1
    <3>4. OnceInv'
      BY <1>t, <1>s, <2>1, <3>1, <3>2, <3>3 DEF OnceInv
    <3> QED
      BY <1>t, <3>1, <3>4 DEF SpentOnce
  <2>7. CASE GetAccessToken(c) \/ ExchangeCode(c) \/ Revoke(c) \/ Join(c)
    <3>1. /\ spent' = spent /\ respent' = respent /\ (row' = row \/ row' = None)
      BY <2>7 DEF GetAccessToken, ExchangeCode, Revoke, Join, provider
    <3>2. /\ c \notin Refreshing' /\ c \notin Fetching' /\ c \notin Storing' /\ c \notin Storing
      <4>1. /\ pc[c] \in {"idle", "got"}
            /\ \E p \in {"got", "code", "unlock", "wait"} : Goto(c, p)
        BY <2>7 DEF GetAccessToken, ExchangeCode, Revoke, Join, Begin, NearExpiry
      <4>2. pc'[c] \in {"got", "code", "unlock", "wait"}
        BY <1>t, <4>1 DEF Goto, TypeOK
      <4> QED
        BY <4>1, <4>2 DEF Refreshing, Fetching, Storing, Locked, Explicit
    <3>3. /\ Storing' = Storing /\ Refreshing' \subseteq Refreshing
          /\ \A d \in Fetching' : d \in Fetching /\ d \in Call \ {c}
      BY <1>s, <2>1, <3>2
    <3>4. OnceInv'
      BY <1>t, <2>1, <2>2, <3>1, <3>3, OnceStays
    <3> QED
      BY <1>t, <3>1, <3>4 DEF SpentOnce
  <2>8. CASE Reread(c)
    <3>1. /\ spent' = spent /\ respent' = respent /\ row' = row
          /\ c \in Refreshing /\ c \notin Fetching' /\ c \notin Storing' /\ c \notin Storing
      BY <1>t, <2>8 DEF Reread, provider, Goto, TypeOK, Refreshing, Fetching, Storing, Locked
    <3>2. /\ Storing' = Storing /\ Refreshing' \subseteq Refreshing
          /\ \A d \in Fetching' : d \in Fetching /\ d \in Call \ {c}
      BY <1>s, <2>1, <3>1
    <3>3. OnceInv'
      BY <1>t, <2>1, <2>2, <3>1, <3>2, OnceStays
    <3> QED
      BY <1>t, <3>1, <3>3 DEF SpentOnce
  <2> QED
    BY <1>2, <2>3, <2>4, <2>5, <2>6, <2>7, <2>8 DEF Going
<1>3. CASE Expire
  <2>1. /\ UNCHANGED <<pc, seen, reply, spent, respent, excused>>
        /\ row # None /\ row'.refresh = row.refresh
    BY <1>t, <1>3 DEF Expire, provider, TypeOK, Row
  <2> QED
    BY <1>t, <2>1 DEF OnceInv, SpentOnce, Fetching, Storing, Refreshing
<1>4. CASE UNCHANGED vars
  BY <1>t, <1>4 DEF vars, provider, OnceInv, SpentOnce, Fetching, Storing, Refreshing
<1> QED
  BY <1>1, <1>2, <1>3, <1>4, Steps

-----------------------------------------------------------------------------
(* The answers.  Those who ask have seen every token the row had meanwhile.*)
LEMMA PutSeen ==
  ASSUME NEW r, Put(r), NEW d \in Asker, pc[d] # "idle"
  PROVE  Access(row') \subseteq held'[d] /\ held[d] \subseteq held'[d]
BY DEF Put, Busy, Call

LEMMA HeldInductive == ASSUME IInv, TypeOK', [Next]_vars PROVE HeldInv'
<1>t. TypeOK /\ Calls /\ HeldInv
  BY DEF IInv
<1>a. Asker \subseteq Call /\ "idle" \notin Asking
  BY DEF Call, Asking, Locked
(* One asker.                                                              *)
<1>k. ASSUME NEW d \in Asker, pc'[d] = pc[d], seen'[d] = seen[d],
             held[d] \subseteq held'[d], Access(row') \subseteq Access(row) \cup held'[d]
      PROVE  /\ pc'[d] \in Asking => Access(row') \subseteq held'[d]
             /\ pc'[d] = "got" /\ seen'[d] # None => seen'[d].access \in held'[d]
  BY <1>t, <1>k DEF HeldInv
<1>1. ASSUME NEW c \in Call, Leaving(c) PROVE HeldInv'
  <2>1. Moves(c, "idle") /\ \A d \in Over(c) : pc'[d] = "idle"
    BY <1>t, <1>1, LeavingLeaves, LeaveMoves
  <2>2. ASSUME NEW d \in Asker, pc'[d] # "idle"
        PROVE  /\ pc'[d] = pc[d] /\ seen'[d] = seen[d] /\ d \notin Over(c)
    BY <1>a, <2>1, <2>2 DEF Moves, Over
  <2>3. ASSUME NEW d \in Asker, pc'[d] # "idle"
        PROVE  held[d] \subseteq held'[d] /\ Access(row') \subseteq Access(row) \cup held'[d]
    <3>1. CASE StoreAlone(c)
      BY <2>2, <2>3, <3>1, PutSeen DEF StoreAlone
    <3>2. CASE ~StoreAlone(c)
      <4>1. row' = row /\ \E a : Settle(c, a)
        BY <1>1, <3>2 DEF Leaving, AnswerAtOnce, NothingToRefresh, Refused, FetchFails,
                          StoreFails, Answer, ReadFails, Unlock
      <4>2. held'[d] = held[d]
        BY <2>2, <2>3, <4>1 DEF Settle
      <4> QED
        BY <4>1, <4>2
    <3> QED
      BY <3>1, <3>2
  <2>4. ASSUME NEW d \in Asker
        PROVE  /\ pc'[d] \in Asking => Access(row') \subseteq held'[d]
               /\ pc'[d] = "got" /\ seen'[d] # None => seen'[d].access \in held'[d]
    BY <1>a, <1>k, <2>2, <2>3
  <2> QED
    BY <2>4 DEF HeldInv, Access
<1>2. ASSUME NEW c \in Call, Going(c) PROVE HeldInv'
  <2>1. \A d \in Call \ {c} : pc'[d] = pc[d] /\ seen'[d] = seen[d]
    BY <1>t, <1>2, GoingMoves DEF Moves
  <2>2. CASE c \in Asker /\ GetAccessToken(c)
    <3>1. /\ row' = row /\ held' = [held EXCEPT ![c] = Access(row)]
          /\ seen' = [seen EXCEPT ![c] = row]
      BY <2>2 DEF GetAccessToken
    <3>2. held'[c] = Access(row) /\ seen'[c] = row /\ Access(row') = Access(row)
      BY <1>t, <2>2, <3>1 DEF TypeOK
    <3>3. \A d \in Asker \ {c} : held'[d] = held[d]
      BY <1>t, <3>1 DEF TypeOK
    <3>4. row # None => row.access \in Access(row)
      BY DEF Access
    <3>5. ASSUME NEW d \in Asker
          PROVE  /\ pc'[d] \in Asking => Access(row') \subseteq held'[d]
                 /\ pc'[d] = "got" /\ seen'[d] # None => seen'[d].access \in held'[d]
      BY <1>a, <1>k, <2>1, <3>2, <3>3, <3>4
    <3> QED
      BY <3>5 DEF HeldInv, Access
  <2>3. CASE Store(c)
    <3>1. pc[c] = "store" /\ pc'[c] = "reread" /\ Put(reply[c])
      BY <1>t, <2>3 DEF Store, Goto, TypeOK
    <3>2. ASSUME NEW d \in Asker, pc'[d] # "idle"
          PROVE  Access(row') \subseteq held'[d] /\ held[d] \subseteq held'[d]
      BY <1>a, <2>1, <3>1, <3>2, PutSeen
    <3>3. ASSUME NEW d \in Asker
          PROVE  /\ pc'[d] \in Asking => Access(row') \subseteq held'[d]
                 /\ pc'[d] = "got" /\ seen'[d] # None => seen'[d].access \in held'[d]
      BY <1>a, <1>k, <2>1, <3>1, <3>2
    <3> QED
      BY <3>3 DEF HeldInv, Access
  <2>4. CASE ~(c \in Asker /\ GetAccessToken(c)) /\ ~Store(c)
    <3>1. held' = held /\ (row' = row \/ row' = None)
      BY <1>2, <2>4 DEF Going, RefreshToken, ExchangeCode, Revoke, Join, TakeLock,
                        ReadRecord, Fetch, Reread
    <3>2. Access(row') \subseteq Access(row)
      BY <3>1 DEF Access
    <3>3. pc'[c] # "got" /\ (pc'[c] \in Asking => pc[c] \in Asking)
      BY <1>t, <1>2, <2>4, GoingMoves DEF Asking, Locked
    <3>4. ASSUME NEW d \in Asker
          PROVE  /\ pc'[d] \in Asking => Access(row') \subseteq held'[d]
                 /\ pc'[d] = "got" /\ seen'[d] # None => seen'[d].access \in held'[d]
      <4>1. CASE d = c
        BY <1>t, <3>1, <3>2, <3>3, <4>1 DEF HeldInv
      <4>2. CASE d # c
        BY <1>a, <1>k, <2>1, <3>1, <3>2, <4>2
      <4> QED
        BY <4>1, <4>2
    <3> QED
      BY <3>4 DEF HeldInv, Access
  <2> QED
    BY <2>2, <2>3, <2>4
<1>3. CASE Expire
  <2>1. /\ UNCHANGED <<pc, seen, held>> /\ Access(row') = Access(row)
    BY <1>t, <1>3 DEF Expire, TypeOK, Row, Access
  <2> QED
    BY <1>t, <2>1 DEF HeldInv, Access
<1>4. CASE UNCHANGED vars
  BY <1>t, <1>4 DEF vars, HeldInv, Access
<1> QED
  BY <1>1, <1>2, <1>3, <1>4, Steps

LEMMA AnswerInductive == ASSUME IInv, TypeOK', [Next]_vars PROVE AnswerInv'
<1>t. TypeOK /\ Calls /\ HeldInv /\ AnswerInv
  BY DEF IInv
<1>a. Asker \subseteq Call /\ "idle" \notin Asking
  BY DEF Call, Asking, Locked
<1>r. row # None => row.access \in Access(row)
  BY DEF Access
(* One call that has its answer under way, and one asker: nothing new.     *)
<1>k. ASSUME NEW c \in Call, pc[c] = "answer", c \notin overtaken, reply'[c] = reply[c],
             reply[c] # None, row' # None => row # None /\ row'.access = row.access,
             \A d \in Asker : Sharing(d, c)' =>
                              \/ Sharing(d, c) /\ held'[d] = held[d]
                              \/ row # None /\ row.access \in held'[d]
      PROVE  /\ row' # None => row'.access = reply'[c].access
             /\ \A d \in Asker : Sharing(d, c)' => reply'[c].access \in held'[d]
  BY <1>t, <1>k DEF AnswerInv
<1>1. ASSUME NEW e \in Call, Leaving(e) PROVE AnswerInv'
  <2>1. Moves(e, "idle") /\ \A d \in Over(e) : pc'[d] = "idle"
    BY <1>t, <1>1, LeavingLeaves, LeaveMoves
  <2> SUFFICES ASSUME NEW c \in Call, pc'[c] = "answer", c \notin overtaken',
                      reply'[c] # None
               PROVE  /\ row' # None => row'.access = reply'[c].access
                      /\ \A d \in Asker : Sharing(d, c)' => reply'[c].access \in held'[d]
    BY DEF AnswerInv
  <2>2. c # e /\ pc[c] = "answer" /\ reply'[c] = reply[c]
    BY <2>1 DEF Moves
  <2>3. ~StoreAlone(e)
    BY <2>2 DEF StoreAlone, Put
  <2>4. row' = row /\ \E x : Settle(e, x)
    BY <1>1, <2>3 DEF Leaving, AnswerAtOnce, NothingToRefresh, Refused, FetchFails,
                      StoreFails, Answer, ReadFails, Unlock
  <2>5. c \notin overtaken /\ \A d \in Asker \ Over(e) : held'[d] = held[d]
    BY <2>2, <2>4 DEF Settle
  <2>6. ASSUME NEW d \in Asker, Sharing(d, c)' PROVE Sharing(d, c) /\ held'[d] = held[d]
    <3>1. pc'[d] # "idle"
      BY <2>2, <2>6 DEF Sharing
    <3>2. d \notin Over(e) /\ d # e
      BY <2>1, <3>1 DEF Over
    <3> QED
      BY <1>a, <2>1, <2>5, <2>6, <3>1, <3>2 DEF Moves, Sharing
  <2> QED
    BY <1>k, <2>2, <2>4, <2>5, <2>6
<1>2. ASSUME NEW e \in Call, Going(e) PROVE AnswerInv'
  <2>1. /\ Moves(e, pc'[e]) /\ \A d \in Call \ {e} : pc'[d] = pc[d]
    BY <1>t, <1>2, GoingMoves
  <2> SUFFICES ASSUME NEW c \in Call, pc'[c] = "answer", c \notin overtaken',
                      reply'[c] # None
               PROVE  /\ row' # None => row'.access = reply'[c].access
                      /\ \A d \in Asker : Sharing(d, c)' => reply'[c].access \in held'[d]
    BY DEF AnswerInv
  <2>0. \A d \in Asker : d # e /\ Sharing(d, c)' => Sharing(d, c) \/ d = c
    BY <1>a, <2>1 DEF Moves, Sharing
  <2>2. CASE Reread(e)
    <3>1. row' = row /\ held' = held /\ pc[e] = "reread" /\ overtaken' = overtaken
      BY <2>2 DEF Reread
    <3>2. CASE c = e
      <4>1. reply'[c] = row
        BY <1>t, <2>2, <3>2 DEF Reread, TypeOK
      <4>2. ASSUME NEW d \in Asker, Sharing(d, c)' PROVE row.access \in held[d]
        <5>1. pc[d] \in Asking
          BY <1>a, <2>1, <3>1, <3>2, <4>2 DEF Sharing, Moves, Asking, Locked
        <5> QED
          BY <1>t, <1>r, <4>1, <5>1 DEF HeldInv
      <4> QED
        BY <3>1, <4>1, <4>2
    <3>3. CASE c # e
      <4>1. pc[c] = "answer" /\ reply'[c] = reply[c]
        BY <2>1, <3>3 DEF Moves
      <4>2. \A d \in Asker : Sharing(d, c)' => Sharing(d, c)
        BY <1>t, <2>0, <2>2, <3>1, <3>3, GoingMoves, <1>2 DEF Sharing, Reread
      <4> QED
        BY <1>k, <3>1, <4>1, <4>2
    <3> QED
      BY <3>2, <3>3
  <2>3. CASE ~Reread(e)
    <3>1. c # e /\ pc[c] = "answer" /\ reply'[c] = reply[c]
      <4>1. c # e
        BY <1>t, <1>2, <2>3, GoingMoves
      <4> QED
        BY <2>1, <4>1 DEF Moves
    <3>2. ~Store(e)
      BY <3>1 DEF Store, Put
    <3>3. CASE e \in Asker /\ GetAccessToken(e)
      <4>1. /\ row' = row /\ overtaken' = overtaken
            /\ held' = [held EXCEPT ![e] = Access(row)] /\ seen' = [seen EXCEPT ![e] = row]
            /\ pc'[e] = "got"
        BY <1>t, <3>3, <1>2, GoingMoves DEF GetAccessToken, Begin, Goto, TypeOK
      <4>2. held'[e] = Access(row) /\ seen'[e] = row
        BY <1>t, <3>3, <4>1 DEF TypeOK
      <4>3. \A d \in Asker \ {e} : held'[d] = held[d]
        BY <1>t, <4>1 DEF TypeOK
      <4>4. Sharing(e, c)' => row # None /\ row.access \in held'[e]
        BY <1>r, <3>1, <4>1, <4>2 DEF Sharing
      <4> QED
        BY <1>k, <2>0, <3>1, <4>1, <4>3, <4>4 DEF Sharing
    <3>4. CASE ~(e \in Asker /\ GetAccessToken(e))
      <4>1. held' = held /\ overtaken' = overtaken /\ (row' = row \/ row' = None)
        BY <1>2, <2>3, <3>2, <3>4 DEF Going, RefreshToken, ExchangeCode, Revoke, Join,
                                     TakeLock, ReadRecord, Fetch
      <4>2. Sharing(e, c)' => Sharing(e, c)
        <5>1. pc'[e] # "got" /\ (pc'[e] = "wait" => Join(e) /\ pc[e] = "got")
          BY <1>t, <1>2, <3>4, GoingMoves
        <5>2. Join(e) => seen[e] # None
          BY DEF Join, NearExpiry
        <5> QED
          BY <3>1, <5>1, <5>2 DEF Sharing
      <4> QED
        BY <1>k, <2>0, <3>1, <4>1, <4>2 DEF Sharing
    <3> QED
      BY <3>3, <3>4
  <2> QED
    BY <2>2, <2>3
<1>3. CASE Expire
  <2>1. /\ UNCHANGED <<pc, seen, reply, on, held, overtaken>>
        /\ row # None /\ row'.access = row.access
    BY <1>t, <1>3 DEF Expire, TypeOK, Row
  <2> QED
    BY <1>t, <2>1 DEF AnswerInv, Sharing
<1>4. CASE UNCHANGED vars
  BY <1>t, <1>4 DEF vars, AnswerInv, Sharing
<1> QED
  BY <1>1, <1>2, <1>3, <1>4, Steps

LEMMA StaleInductive == ASSUME IInv, TypeOK', [Next]_vars PROVE AnswerWasCurrent'
<1>t. TypeOK /\ Calls /\ HeldInv /\ AnswerInv /\ AnswerWasCurrent
  BY DEF IInv
<1>s. ASSUME NEW c \in Call, NEW a \in Token \cup {None}, Settle(c, a),
             a # None /\ c \notin overtaken => \A d \in Over(c) \cap Asker : a \in held[d]
      PROVE  AnswerWasCurrent'
  BY <1>t, <1>s, SettleMoves DEF AnswerWasCurrent
<1>1. ASSUME NEW c \in Call, AnswerAtOnce(c) PROVE AnswerWasCurrent'
  <2> DEFINE a == IF seen[c] = None THEN None
                  ELSE IF seen[c].near THEN None ELSE seen[c].access
  <2>1. pc[c] = "got" /\ Settle(c, a)
    BY <1>1 DEF AnswerAtOnce
  <2>2. Over(c) = {c} /\ c \in Asker
    BY <1>t, <2>1, NoneWaits DEF Calls, CallInv, Asking, Locked
  <2>3. a \in Token \cup {None}
    BY <1>t DEF TypeOK, Row
  <2>4. a # None => a \in held[c]
    BY <1>t, <2>1, <2>2 DEF HeldInv
  <2> HIDE DEF a
  <2> QED
    BY <1>s, <2>1, <2>2, <2>3, <2>4
<1>2. ASSUME NEW c \in Call, Answer(c) PROVE AnswerWasCurrent'
  <2> DEFINE a == IF reply[c] = None THEN None ELSE reply[c].access
  <2>1. pc[c] = "answer" /\ Settle(c, a)
    BY <1>2 DEF Answer
  <2>2. a \in Token \cup {None}
    BY <1>t DEF TypeOK, Row
  <2>3. ASSUME a # None, c \notin overtaken, NEW d \in Over(c) \cap Asker
        PROVE  a \in held[d]
    BY <1>t, <2>1, <2>3 DEF AnswerInv, Sharing, Over
  <2> HIDE DEF a
  <2> QED
    BY <1>s, <2>1, <2>2, <2>3
<1>3. ASSUME NEW c \in Call, Settle(c, None) PROVE AnswerWasCurrent'
  BY <1>s, <1>3
<1>4. ASSUME stale' = stale PROVE AnswerWasCurrent'
  BY <1>t, <1>4 DEF AnswerWasCurrent
<1>5. ASSUME NEW c \in Call, Leaving(c) PROVE AnswerWasCurrent'
  BY <1>1, <1>2, <1>3, <1>4, <1>5
     DEF Leaving, NothingToRefresh, Refused, FetchFails, StoreAlone, StoreFails, ReadFails,
         Unlock
<1>6. ASSUME NEW c \in Call, Going(c) PROVE AnswerWasCurrent'
  BY <1>4, <1>6 DEF Going, GetAccessToken, RefreshToken, ExchangeCode, Revoke, Join,
                    TakeLock, ReadRecord, Fetch, Store, Reread
<1>7. CASE Expire \/ UNCHANGED vars
  BY <1>4, <1>7 DEF Expire, vars
<1> QED
  BY <1>5, <1>6, <1>7, Steps

-----------------------------------------------------------------------------
(* The revocation.  Who changes the row, and how.                          *)
LEMMA RowChanges ==
  ASSUME TypeOK, Calls, [Next]_vars
  PROVE  \/ row' = row
         \/ Expire /\ row # None /\ row' # None
         \/ \E c \in Call : Revoke(c) /\ row' = None
         \/ \E c \in Pending : /\ Store(c) \/ StoreAlone(c)
                              /\ row' = reply[c] /\ row' # None
<1>1. ASSUME NEW c \in Call, Leaving(c)
      PROVE  \/ row' = row
             \/ StoreAlone(c) /\ c \in Pending /\ row' = reply[c] /\ row' # None
  <2>1. CASE StoreAlone(c)
    <3>1. c \in Pending /\ row' = reply[c]
      BY <2>1 DEF StoreAlone, Pending, Put
    <3>2. reply[c] \in Row
      BY <3>1 DEF Calls, CallInv
    <3> QED
      BY <2>1, <3>1, <3>2
  <2>2. CASE ~StoreAlone(c)
    BY <1>1, <2>2 DEF Leaving, AnswerAtOnce, NothingToRefresh, Refused, FetchFails,
                      StoreFails, Answer, ReadFails, Unlock
  <2> QED
    BY <2>1, <2>2
<1>2. ASSUME NEW c \in Call, Going(c)
      PROVE  \/ row' = row
             \/ Revoke(c) /\ row' = None
             \/ Store(c) /\ c \in Pending /\ row' = reply[c] /\ row' # None
  <2>1. CASE Store(c)
    <3>1. c \in Pending /\ row' = reply[c]
      BY <2>1 DEF Store, Pending, Put
    <3>2. reply[c] \in Row
      BY <3>1 DEF Calls, CallInv
    <3> QED
      BY <2>1, <3>1, <3>2
  <2>2. CASE ~Store(c)
    BY <1>2, <2>2 DEF Going, GetAccessToken, RefreshToken, ExchangeCode, Revoke, Join,
                      TakeLock, ReadRecord, Fetch, Reread
  <2> QED
    BY <2>1, <2>2
<1>3. Expire => row # None /\ row' # None
  <2>1. Expire => row' \in Row /\ row # None
    BY DEF Expire, TypeOK, Row
  <2> QED
    BY <2>1
<1>4. UNCHANGED vars => row' = row
  BY DEF vars
<1> QED
  BY <1>1, <1>2, <1>3, <1>4, Steps

LEMMA GoneInductive == ASSUME IInv, TypeOK', [Next]_vars PROVE GoneInv'
<1>t. TypeOK /\ Calls /\ GoneInv
  BY DEF IInv
<1>1. ASSUME NEW c \in Call, Leaving(c) PROVE GoneInv'
  <2>1. Moves(c, "idle")
    BY <1>t, <1>1, LeavingLeaves, LeaveMoves
  <2>2. Fetching' \cup Storing' \subseteq Fetching \cup Storing
    BY <2>1 DEF Moves, Fetching, Storing
  <2>3. (row' = row /\ back' = back) \/ row' # None
    <3>1. CASE StoreAlone(c)
      <4>1. c \in Pending /\ row' = reply[c]
        BY <3>1 DEF StoreAlone, Pending, Put
      <4>2. reply[c] \in Row
        BY <1>t, <4>1 DEF Calls, CallInv
      <4> QED
        BY <4>1, <4>2
    <3>2. CASE ~StoreAlone(c)
      BY <1>1, <3>2 DEF Leaving, AnswerAtOnce, NothingToRefresh, Refused, FetchFails,
                        StoreFails, Answer, ReadFails, Unlock
    <3> QED
      BY <3>1, <3>2
  <2> QED
    BY <1>t, <2>2, <2>3 DEF GoneInv
<1>2. ASSUME NEW c \in Call, Going(c) PROVE GoneInv'
  <2>1. \A d \in Call \ {c} : pc'[d] = pc[d]
    BY <1>t, <1>2, GoingMoves
  <2>2. CASE Store(c)
    <3>1. c \in Pending /\ row' = reply[c]
      BY <2>2 DEF Store, Pending, Put
    <3>2. reply[c] \in Row
      BY <1>t, <3>1 DEF Calls, CallInv
    <3> QED
      BY <3>1, <3>2 DEF GoneInv
  <2>3. CASE ReadRecord(c)
    BY <2>3 DEF ReadRecord, GoneInv
  <2>4. CASE Revoke(c)
    <3>1. pc[c] = "idle" /\ pc'[c] = "unlock"
      BY <1>t, <2>4 DEF Revoke, Begin, Goto, TypeOK, Call
    <3>2. Fetching' \cup Storing' \subseteq Fetching \cup Storing
      BY <2>1, <3>1 DEF Fetching, Storing
    <3>3. \A d \in Fetching \cup Storing :
            d \in Refreshing /\ pc[d] \notin {"record", "Record", "reread", "answer"}
      BY DEF Fetching, Storing, Refreshing, Locked, Explicit
    <3>4. Fetching \cup Storing # {} => back'
      BY <2>4, <3>3, Zenon DEF Revoke
    <3> QED
      BY <3>2, <3>4 DEF GoneInv
  <2>5. CASE Fetch(c)
    <3>1. row' = row /\ back' = back /\ c \in Fetching
      BY <2>5 DEF Fetch, Fetching
    <3> QED
      BY <1>t, <3>1 DEF GoneInv
  <2>6. CASE ~(Store(c) \/ ReadRecord(c) \/ Revoke(c) \/ Fetch(c))
    <3>1. row' = row /\ back' = back
      BY <1>2, <2>6 DEF Going, GetAccessToken, RefreshToken, ExchangeCode, Join, TakeLock,
                        Reread
    <3>2. c \notin Fetching' /\ c \notin Storing'
      BY <1>t, <1>2, <2>6, GoingMoves DEF Fetching, Storing
    <3>3. Fetching' \cup Storing' \subseteq Fetching \cup Storing
      BY <2>1, <3>2 DEF Fetching, Storing
    <3> QED
      BY <1>t, <3>1, <3>3 DEF GoneInv
  <2> QED
    BY <2>2, <2>3, <2>4, <2>5, <2>6
<1>3. CASE Expire
  <2>0. row' \in Row
    BY <1>t, <1>3 DEF Expire, TypeOK, Row
  <2>1. row' # None
    BY <2>0
  <2> QED
    BY <2>1 DEF GoneInv
<1>4. CASE UNCHANGED vars
  BY <1>t, <1>4 DEF vars, GoneInv, Fetching, Storing
<1> QED
  BY <1>1, <1>2, <1>3, <1>4, Steps

-----------------------------------------------------------------------------
LEMMA Inductive == IInv /\ [Next]_vars => IInv'
BY TypeInductive, CallsInductive, LockInductive, FreshInductive, OnceInductive,
   HeldInductive, AnswerInductive, StaleInductive, GoneInductive DEF IInv

LEMMA Invariance == Spec => []IInv
  BY InitInv, Inductive, PTL DEF Spec

(* Refreshes under the lock exclude each other, and no refresh token is    *)
(* sent twice, for any number of calls, unless a failure or an operation   *)
(* that takes no lock met a refresh.                                       *)
THEOREM SentOnce == Spec => []RefreshedOnce
<1>1. IInv => RefreshedOnce
  BY DEF IInv, RefreshedOnce
<1> QED
  BY <1>1, Invariance, PTL

(* getAccessToken answers what was in the row during the call, also to     *)
(* those that shared the promise of an earlier one, unless another token   *)
(* was stored after that one had read its answer.                          *)
THEOREM AnswersAreCurrent == Spec => []AnswerWasCurrent
<1>1. IInv => AnswerWasCurrent
  BY DEF IInv
<1> QED
  BY <1>1, Invariance, PTL

(* A revoked row comes back only by a new code, or by a refresh that was   *)
(* under way and had read the record.                                      *)
THEOREM RevocationHolds == Spec => RevokedStaysGone
<1>1. ASSUME IInv, [Next]_vars
      PROVE  [row = None /\ row' # None /\ ~back => \E c \in Call : pc[c] = "code"]_vars
  <2> SUFFICES ASSUME row = None, row' # None, ~back
               PROVE  \E c \in Call : pc[c] = "code"
    OBVIOUS
  <2>1. PICK c \in Pending : Store(c) \/ StoreAlone(c)
    BY <1>1, RowChanges DEF IInv
  <2>2. c \notin Storing
    BY <1>1 DEF IInv, GoneInv
  <2> QED
    BY <2>1, <2>2 DEF Pending, Storing
<1> QED
  BY <1>1, Invariance, PTL DEF Spec, RevokedStaysGone
=============================================================================
