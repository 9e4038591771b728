-------------------------- MODULE SessionManagerProofs --------------------------
(***************************************************************************)
(* What holds of a session for any number of overlapping operations, any   *)
(* window and any number of messages: the copy never exceeds the window,   *)
(* a message finds itself in the history it gets, and the copy is what the *)
(* rows say unless something happened that diverged records.  The second   *)
(* needs that rows are stored in the order of their creation, the third    *)
(* what an operation knows when it was alone.                              *)
(***************************************************************************)
EXTENDS SessionManager, SequenceTheorems, TLAPS

USE WindowAssumption, BoundsAssumption, NoCopyAssumption

Increasing == \A i, j \in 1..Len(turns) : i < j => turns[i] < turns[j]

(* OwnTurnSeen, for a history h that was loaded when the rows were s.      *)
Shows(h, t) == \/ t \in Elems(h)
               \/ Len(h) = Window /\ \A u \in Elems(h) : u > t

Seen(o) == pc[o] = "store" =>
             IF stale[o] THEN loaded[o] = <<>>
             ELSE Shows(loaded[o], turn[o]) \/ turn[o] \notin Elems(turns)

Ready(o) == /\ pc[o] = "load" => ~stale[o]
            /\ pc[o] \in {"touch", "push"} => turn[o] > 0

IInv == /\ TypeOK
        /\ Increasing
        /\ \A o \in Op : Ready(o) /\ Seen(o)

-----------------------------------------------------------------------------
(* The window on a sequence is its tail.                                   *)
LEMMA LatestIsTail ==
  ASSUME NEW S, NEW s \in Seq(S)
  PROVE  /\ Latest(s) \in Seq(S)
         /\ Len(Latest(s)) <= Window
         /\ Len(s) > Window => /\ Len(Latest(s)) = Window
                               /\ \A i \in 1..Window :
                                    Latest(s)[i] = s[Len(s) - Window + i]
         /\ Len(s) <= Window => Latest(s) = s
<1>1. CASE Len(s) > Window
  <2> DEFINE m == Len(s) - Window + 1
  <2>1. m \in Int /\ Len(s) \in Int /\ m >= 1 /\ m <= Len(s)
    BY <1>1
  <2>2. \A i \in m..Len(s) : s[i] \in S
    BY <2>1
  <2>3. Latest(s) = SubSeq(s, m, Len(s))
    BY <1>1 DEF Latest
  <2>4. /\ SubSeq(s, m, Len(s)) \in Seq(S)
        /\ Len(SubSeq(s, m, Len(s))) = Len(s) - m + 1
        /\ \A i \in 1..(Len(s) - m + 1) : SubSeq(s, m, Len(s))[i] = s[m + i - 1]
    <3> HIDE DEF m
    <3> QED
      BY <2>1, <2>2, SubSeqProperties
  <2>5. Len(s) - m + 1 = Window /\ \A i \in 1..Window : m + i - 1 = Len(s) - Window + i
    BY <2>1
  <2> QED
    BY <1>1, <2>3, <2>4, <2>5
<1>2. CASE Len(s) <= Window
  <2>0. Len(s) \in Nat /\ ~(Len(s) > Window)
    BY <1>2
  <2>1. Latest(s) = SubSeq(s, 1, Len(s))
    BY <2>0, Zenon DEF Latest
  <2>2. SubSeq(s, 1, Len(s)) = s
    BY SubSeqFull
  <2> QED
    BY <1>2, <2>0, <2>1, <2>2
<1> QED
  BY <1>1, <1>2

(* The window on an increasing sequence shows each of its elements.        *)
LEMMA LatestShows ==
  ASSUME NEW n \in Nat, NEW s \in Seq(1..n), NEW t \in Elems(s),
         \A i, j \in 1..Len(s) : i < j => s[i] < s[j]
  PROVE  Shows(Latest(s), t)
<1>1. PICK k \in 1..Len(s) : t = s[k]
  BY DEF Elems
<1>2. CASE Len(s) <= Window
  BY <1>2, LatestIsTail DEF Shows
<1>3. CASE Len(s) > Window /\ k > Len(s) - Window
  <2> DEFINE i == k - (Len(s) - Window)
  <2>1. i \in 1..Window /\ Len(s) - Window + i = k
    BY <1>3
  <2>2. Latest(s)[i] = t /\ Len(Latest(s)) = Window /\ Latest(s) \in Seq(1..n)
    BY <1>1, <1>3, <2>1, LatestIsTail
  <2>3. t \in Elems(Latest(s))
    BY <2>1, <2>2 DEF Elems
  <2> QED
    BY <2>3 DEF Shows
<1>4. CASE Len(s) > Window /\ k <= Len(s) - Window
  <2>1. Len(Latest(s)) = Window /\ Latest(s) \in Seq(1..n)
    BY <1>4, LatestIsTail
  <2>2. ASSUME NEW u \in Elems(Latest(s)) PROVE u > t
    <3>1. PICK i \in 1..Window : u = Latest(s)[i]
      BY <2>1 DEF Elems
    <3> DEFINE j == Len(s) - Window + i
    <3>2. j \in 1..Len(s) /\ k < j /\ u = s[j]
      BY <1>4, <3>1, LatestIsTail
    <3>3. s[k] < s[j]
      BY <3>2
    <3> QED
      BY <1>1, <3>2, <3>3
  <2> QED
    BY <2>1, <2>2 DEF Shows
<1> QED
  BY <1>2, <1>3, <1>4

(* A sequence of turns stays one when a turn is created.                   *)
LEMMA MoreTurns ==
  ASSUME NEW n \in Nat, NEW s \in Seq(1..n)
  PROVE  s \in Seq(1..(n + 1))
<1>1. 1..n \subseteq 1..(n + 1)
  OBVIOUS
<1> QED
  BY <1>1, SeqMonotonic

LEMMA InitInv == Init => IInv
<1> SUFFICES ASSUME Init PROVE IInv
  OBVIOUS
<1>1. TypeOK
  <2>1. \A n : <<>> \in Seq(1..n) /\ Len(<<>>) = 0
    OBVIOUS
  <2>2. created = 0 /\ turns = <<>> /\ loaded = [o \in Op |-> <<>>]
    BY DEF Init
  <2>3. /\ turns \in Seq(1..created)
        /\ loaded \in [Op -> Seq(1..created)]
        /\ \A o \in Op : Len(loaded[o]) <= Window
    BY <2>1, <2>2
  <2>4. /\ pc \in [Op -> PCs] /\ stale \in [Op -> BOOLEAN]
        /\ turn \in [Op -> 0..created] /\ session \in {"absent", "warm", "cold"}
    BY DEF Init, PCs
  <2>5. /\ cache = NoCopy /\ created \in Nat /\ begun \in 0..MaxMessages
        /\ faults \in 0..MaxFaults
    BY DEF Init
  <2>6. overlapped \subseteq Op /\ diverged \in BOOLEAN
    BY Zenon DEF Init
  <2> QED
    BY <2>3, <2>4, <2>5, <2>6 DEF TypeOK
<1>2. Increasing /\ \A o \in Op : pc[o] = "idle"
  BY DEF Init, Increasing
<1> QED
  BY <1>1, <1>2 DEF IInv, Seen, Ready

-----------------------------------------------------------------------------
(* An operation that neither creates nor deletes a turn, and is not at the *)
(* point of caching a history, leaves what others have loaded alone.       *)
LEMMA Elsewhere ==
  ASSUME IInv, TypeOK', turns' = turns, NEW o \in Op,
         \A p \in Op \ {o} : /\ pc'[p] = pc[p] /\ stale'[p] = stale[p]
                             /\ turn'[p] = turn[p] /\ loaded'[p] = loaded[p],
         Ready(o)',
         Seen(o)'
  PROVE  IInv'
<1>1. ASSUME NEW p \in Op PROVE Seen(p)' /\ Ready(p)'
  <2>1. CASE p = o
    BY <2>1
  <2>2. CASE p # o
    BY <2>2 DEF IInv, Seen, Ready
  <2> QED
    BY <2>1, <2>2
<1>2. Increasing'
  BY DEF IInv, Increasing
<1> QED
  BY <1>1, <1>2 DEF IInv

(* So does one that creates a turn.                                        *)
LEMMA Creating ==
  ASSUME IInv, NEW o \in Op, NewTurn(o), TypeOK',
         \A p \in Op \ {o} : /\ pc'[p] = pc[p] /\ stale'[p] = stale[p]
                             /\ loaded'[p] = loaded[p],
         Ready(o)',
         pc'[o] = "store" => stale'[o] /\ loaded'[o] = <<>>
  PROVE  IInv'
<1>1. /\ turns \in Seq(1..created) /\ created \in Nat
      /\ turn \in [Op -> 0..created]
  BY DEF IInv, TypeOK
<1>2. /\ turns' = Append(turns, created + 1)
      /\ \A p \in Op \ {o} : turn'[p] = turn[p]
  BY <1>1 DEF NewTurn
<1>3. /\ Len(turns') = Len(turns) + 1
      /\ turns'[Len(turns) + 1] = created + 1
      /\ \A i \in 1..Len(turns) : turns'[i] = turns[i] /\ turns[i] <= created
  BY <1>1, <1>2
<1>4. Increasing'
  <2>1. \A i, j \in 1..Len(turns) : i < j => turns[i] < turns[j]
    BY DEF IInv, Increasing
  <2>2. \A i \in 1..Len(turns) : turns[i] \in Nat /\ turns[i] < created + 1
    BY <1>1
  <2>3. Len(turns) \in Nat
    BY <1>1
  <2> QED
    BY <1>3, <2>1, <2>2, <2>3 DEF Increasing
<1>5. ASSUME NEW p \in Op PROVE Seen(p)' /\ Ready(p)'
  <2>1. CASE p = o
    BY <2>1 DEF Seen
  <2>2. CASE p # o
    <3>1. turn[p] \notin Elems(turns) => turn[p] \notin Elems(turns')
      <4> SUFFICES ASSUME NEW i \in DOMAIN turns', turns'[i] = turn[p]
                   PROVE  turn[p] \in Elems(turns)
        BY DEF Elems
      <4>1. turn[p] \in 0..created
        BY <1>1
      <4>2. DOMAIN turns' = 1..Len(turns) + 1
        BY <1>1, <1>2
      <4>3. i # Len(turns) + 1
        BY <1>1, <1>3, <4>1
      <4>4. i \in DOMAIN turns /\ turns'[i] = turns[i]
        BY <1>1, <1>3, <4>2, <4>3
      <4> QED
        BY <4>4 DEF Elems
    <3>2. Seen(p) /\ Ready(p)
      BY DEF IInv
    <3> QED
      BY <1>2, <2>2, <3>1, <3>2 DEF Seen, Ready
  <2> QED
    BY <2>1, <2>2
<1> QED
  BY <1>4, <1>5 DEF IInv

(* What an operation changes of itself.                                    *)
Untouched(o) == \A p \in Op \ {o} : /\ pc'[p] = pc[p] /\ stale'[p] = stale[p]
                                    /\ turn'[p] = turn[p] /\ loaded'[p] = loaded[p]

LEMMA StartType ==
  ASSUME TypeOK, NEW o \in Op, NEW p \in PCs, Start(o, p)
  PROVE  /\ pc' \in [Op -> PCs]
         /\ overlapped' \subseteq Op
         /\ diverged' \in BOOLEAN
  BY DEF TypeOK, Start, Goto, InFlight

LEMMA GotoType ==
  ASSUME TypeOK, NEW o \in Op, NEW p \in PCs, Goto(o, p)
  PROVE  /\ pc' \in [Op -> PCs]
         /\ pc'[o] = p
         /\ \A q \in Op \ {o} : pc'[q] = pc[q]
  BY DEF TypeOK, Goto

LEMMA FindExistingStep ==
  ASSUME IInv, NEW o \in Op, FindExisting(o)
  PROVE  IInv'
<1>1. TypeOK /\ "upsert" \in PCs
  BY DEF IInv, PCs
<1>2. /\ pc' \in [Op -> PCs] /\ pc'[o] = "upsert"
      /\ overlapped' \subseteq Op /\ diverged' \in BOOLEAN
      /\ \A q \in Op \ {o} : pc'[q] = pc[q]
  BY <1>1, StartType, GotoType DEF FindExisting, Start
<1>3. TypeOK'
  BY <1>1, <1>2 DEF TypeOK, FindExisting
<1>4. turns' = turns /\ Untouched(o)
  BY <1>1, <1>2 DEF TypeOK, FindExisting, Untouched
<1> QED
  BY <1>2, <1>3, <1>4, Elsewhere DEF Seen, Ready, Untouched

LEMMA UpsertStep ==
  ASSUME IInv, NEW o \in Op, Upsert(o) \/ Touch(o) \/ Send(o)
  PROVE  IInv'
<1>1. TypeOK /\ {"create", "push", "idle"} \subseteq PCs
  BY DEF IInv, PCs
<1>2. /\ pc' \in [Op -> PCs] /\ pc'[o] \in {"create", "push", "idle"}
      /\ pc'[o] = "push" => pc[o] = "touch"
      /\ \A q \in Op \ {o} : pc'[q] = pc[q]
  BY <1>1, GotoType DEF Upsert, Touch, Send
<1>3. TypeOK'
  BY <1>1, <1>2 DEF TypeOK, Upsert, Touch, Send
<1>4. turns' = turns /\ Untouched(o)
  BY <1>1, <1>2 DEF TypeOK, Upsert, Touch, Send, Untouched
<1>5. Ready(o)'
  BY <1>2 DEF IInv, Ready, Upsert, Touch, Send
<1> QED
  BY <1>2, <1>3, <1>4, <1>5, Elsewhere DEF Seen, Untouched

LEMMA FindSessionStep ==
  ASSUME IInv, NEW o \in Op, FindSession(o)
  PROVE  IInv'
<1>1. TypeOK /\ "reload" \in PCs
  BY DEF IInv, PCs
<1>2. /\ pc' \in [Op -> PCs] /\ pc'[o] = "reload"
      /\ overlapped' \subseteq Op /\ diverged' \in BOOLEAN
      /\ \A q \in Op \ {o} : pc'[q] = pc[q]
  BY <1>1, StartType, GotoType DEF FindSession, Start
<1>3. TypeOK'
  BY <1>1, <1>2 DEF TypeOK, FindSession
<1>4. turns' = turns /\ Untouched(o)
  BY <1>1, <1>2 DEF TypeOK, FindSession, Untouched
<1> QED
  BY <1>2, <1>3, <1>4, Elsewhere DEF Seen, Ready, Untouched

LEMMA FailStep ==
  ASSUME IInv, NEW o \in Op, Fail(o)
  PROVE  IInv'
<1>1. TypeOK /\ "idle" \in PCs
  BY DEF IInv, PCs
<1>2. /\ pc' \in [Op -> PCs] /\ pc'[o] = "idle"
      /\ \A q \in Op \ {o} : pc'[q] = pc[q]
  BY <1>1, GotoType DEF Fail
<1>3. faults' \in 0..MaxFaults /\ diverged' \in BOOLEAN
  BY <1>1 DEF TypeOK, Fail
<1>4. TypeOK'
  BY <1>1, <1>2, <1>3 DEF TypeOK, Fail
<1>5. turns' = turns /\ Untouched(o)
  BY <1>1, <1>2 DEF TypeOK, Fail, Untouched
<1> QED
  BY <1>2, <1>4, <1>5, Elsewhere DEF Seen, Ready, Untouched

LEMMA LoadTurnsStep ==
  ASSUME IInv, NEW o \in Op, LoadTurns(o)
  PROVE  IInv'
<1>1. TypeOK /\ {"store", "restore"} \subseteq PCs
  BY DEF IInv, PCs
<1>2. /\ pc' \in [Op -> PCs] /\ pc'[o] \in {"store", "restore"}
      /\ pc'[o] = "store" => pc[o] = "load"
      /\ \A q \in Op \ {o} : pc'[q] = pc[q]
  BY <1>1, GotoType DEF LoadTurns
<1>3. turns \in Seq(1..created) /\ created \in Nat
  BY <1>1 DEF TypeOK
<1>4. Latest(turns) \in Seq(1..created) /\ Len(Latest(turns)) <= Window
  BY <1>3, LatestIsTail
<1>5. TypeOK'
  BY <1>1, <1>2, <1>4 DEF TypeOK, LoadTurns
<1>6. /\ turns' = turns /\ Untouched(o) /\ loaded'[o] = Latest(turns)
      /\ stale'[o] = stale[o] /\ turn'[o] = turn[o]
  BY <1>1, <1>2 DEF TypeOK, LoadTurns, Untouched
<1>7. turn[o] \in Elems(turns) => Shows(Latest(turns), turn[o])
  BY <1>3, LatestShows DEF IInv, Increasing
<1>8. Seen(o)'
  BY <1>2, <1>6, <1>7 DEF IInv, Seen, Ready
<1> QED
  BY <1>2, <1>5, <1>6, <1>8, Elsewhere DEF Untouched, Ready

LEMMA CacheStep ==
  ASSUME IInv, NEW o \in Op, Store(o) \/ Push(o) \/ ClearCopy(o)
  PROVE  IInv'
<1>1. TypeOK /\ {"reply", "idle", "send"} \subseteq PCs
  BY DEF IInv, PCs
<1>2. /\ pc' \in [Op -> PCs] /\ pc'[o] \in {"reply", "idle", "send"}
      /\ \A q \in Op \ {o} : pc'[q] = pc[q]
  BY <1>1, GotoType DEF Store, Push, ClearCopy
<1>3. \/ cache' = NoCopy
      \/ cache' \in Seq(1..created) /\ Len(cache') <= Window
  <2>1. CASE Store(o)
    BY <1>1, <2>1 DEF TypeOK, Store
  <2>2. CASE ClearCopy(o)
    <3>1. <<>> \in Seq(1..created) /\ Len(<<>>) <= Window
      OBVIOUS
    <3> QED
      BY <2>2, <3>1 DEF ClearCopy
  <2>3. CASE Push(o) /\ cache # NoCopy
    <3>1. cache \in Seq(1..created) /\ turn[o] \in 0..created /\ pc[o] = "push"
      BY <1>1, <2>3 DEF TypeOK, Push
    <3>2. turn[o] \in 1..created
      BY <1>1, <3>1 DEF IInv, Ready
    <3>3. Append(cache, turn[o]) \in Seq(1..created)
      BY <3>1, <3>2
    <3> QED
      BY <2>3, <3>3, LatestIsTail DEF Push
  <2>4. CASE Push(o) /\ cache = NoCopy
    BY <2>4 DEF Push
  <2> QED
    BY <2>1, <2>2, <2>3, <2>4
<1>4. diverged' \in BOOLEAN
  BY <1>1 DEF TypeOK, Store, Push, ClearCopy
<1>5. TypeOK'
  BY <1>1, <1>2, <1>3, <1>4 DEF TypeOK, Store, Push, ClearCopy
<1>6. turns' = turns /\ Untouched(o)
  BY <1>1, <1>2 DEF TypeOK, Store, Push, ClearCopy, Untouched
<1> QED
  BY <1>2, <1>5, <1>6, Elsewhere DEF Seen, Ready, Untouched

LEMMA CreateStep ==
  ASSUME IInv, NEW o \in Op, CreateTurn(o) \/ CreateReply(o)
  PROVE  IInv'
<1>1. TypeOK /\ {"store", "load", "touch"} \subseteq PCs
  BY DEF IInv, PCs
<1>2. /\ pc' \in [Op -> PCs] /\ pc'[o] \in {"store", "load", "touch"}
      /\ pc'[o] = "store" => stale[o] /\ CreateTurn(o)
      /\ pc'[o] = "load" => ~stale[o]
      /\ \A q \in Op \ {o} : pc'[q] = pc[q]
  BY <1>1, GotoType DEF CreateTurn, CreateReply
<1>3. NewTurn(o) /\ stale' = stale
  BY DEF CreateTurn, CreateReply
<1>4. created \in Nat /\ created' = created + 1
  BY <1>1, <1>3 DEF TypeOK, NewTurn
<1>5. turns' \in Seq(1..created') /\ turn' \in [Op -> 0..created']
  <2>1. turns \in Seq(1..created) /\ turn \in [Op -> 0..created]
    BY <1>1 DEF TypeOK
  <2>2. turns \in Seq(1..(created + 1)) /\ created + 1 \in 1..(created + 1)
    BY <1>4, <2>1, MoreTurns
  <2> QED
    BY <1>3, <1>4, <2>1, <2>2 DEF NewTurn
<1>6. /\ loaded' \in [Op -> Seq(1..created')]
      /\ \A p \in Op : Len(loaded'[p]) <= Window
      /\ CreateTurn(o) => loaded'[o] = <<>>
      /\ \A p \in Op \ {o} : loaded'[p] = loaded[p]
  <2>1. loaded \in [Op -> Seq(1..created)] /\ \A p \in Op : Len(loaded[p]) <= Window
    BY <1>1 DEF TypeOK
  <2>2. loaded \in [Op -> Seq(1..created')]
    BY <1>4, <2>1, MoreTurns
  <2> QED
    <3>1. CASE CreateTurn(o)
      BY <1>4, <2>1, <2>2, <3>1 DEF CreateTurn
    <3>2. CASE CreateReply(o) /\ ~CreateTurn(o)
      BY <2>1, <2>2, <3>2 DEF CreateReply
    <3> QED
      BY <3>1, <3>2
<1>7. \/ cache' = NoCopy
      \/ cache' \in Seq(1..created') /\ Len(cache') <= Window
  BY <1>1, <1>4, MoreTurns DEF TypeOK, CreateTurn, CreateReply
<1>8. UNCHANGED <<session, begun, faults, overlapped, diverged>> /\ created' \in Nat
  BY <1>4 DEF CreateTurn, CreateReply
<1>9. TypeOK'
  BY <1>1, <1>2, <1>3, <1>5, <1>6, <1>7, <1>8 DEF TypeOK
<1> QED
  <2>1. turn'[o] > 0
    BY <1>1, <1>3, <1>4 DEF TypeOK, NewTurn
  <2>2. Ready(o)'
    BY <1>2, <1>3, <2>1 DEF Ready
  <2> QED
    BY <1>2, <1>3, <1>6, <1>9, <2>2, Creating

LEMMA DeleteStep ==
  ASSUME IInv, NEW o \in Op, DeleteTurns(o)
  PROVE  IInv'
<1>1. TypeOK /\ "forget" \in PCs
  BY DEF IInv, PCs
<1>2. /\ pc' \in [Op -> PCs] /\ pc'[o] = "forget"
      /\ overlapped' \subseteq Op /\ diverged' \in BOOLEAN
      /\ \A q \in Op \ {o} : pc'[q] = pc[q]
  BY <1>1, StartType, GotoType DEF DeleteTurns, Start
<1>3. turns' = <<>> /\ <<>> \in Seq(1..created)
  BY DEF DeleteTurns
<1>4. TypeOK'
  BY <1>1, <1>2, <1>3 DEF TypeOK, DeleteTurns
<1>5. Increasing' /\ Elems(turns') = {}
  BY <1>3 DEF Increasing, Elems
<1>6. \A q \in Op : Seen(q)' /\ Ready(q)'
  BY <1>2, <1>5 DEF IInv, Seen, Ready, DeleteTurns
<1> QED
  BY <1>4, <1>5, <1>6 DEF IInv

LEMMA InvInductive == IInv /\ [Next]_vars => IInv'
<1> SUFFICES ASSUME IInv, [Next]_vars PROVE IInv'
  OBVIOUS
<1>1. CASE InvalidateCache \/ GrowCold \/ UNCHANGED vars
  <2>1. TypeOK'
    BY <1>1 DEF IInv, TypeOK, InvalidateCache, GrowCold, vars, ops
  <2>2. UNCHANGED <<turns, pc, stale, turn, loaded>>
    BY <1>1 DEF InvalidateCache, GrowCold, vars, ops
  <2> QED
    BY <2>1, <2>2 DEF IInv, Increasing, Seen, Ready
<1> QED
  BY <1>1, FindExistingStep, UpsertStep, FindSessionStep, FailStep, LoadTurnsStep,
     CacheStep, CreateStep, DeleteStep DEF Next

LEMMA Invariance == Spec => []IInv
  BY InitInv, InvInductive, PTL DEF Spec

(* The rows, the copy and what operations hold keep their types, and the   *)
(* copy never holds more than MAX_HISTORY_TURNS turns.                     *)
THEOREM TypeCorrect == Spec => []TypeOK
<1>1. IInv => TypeOK
  BY DEF IInv
<1> QED
  BY <1>1, Invariance, PTL

(* receiveUserMessage answers a history that shows the message itself,     *)
(* whatever else happens to the session while it runs.                     *)
THEOREM MessageSeesItself == Spec => []OwnTurnSeen
<1>1. IInv => OwnTurnSeen
  BY DEF IInv, Seen, Shows, OwnTurnSeen
<1> QED
  BY <1>1, Invariance, PTL

(* The types of a session and the history of a message, for any window.    *)
THEOREM HistoryIsSound == Spec => []HistorySound
<1>1. TypeOK /\ OwnTurnSeen => HistorySound
  BY DEF HistorySound
<1> QED
  BY <1>1, TypeCorrect, MessageSeesItself, PTL

-----------------------------------------------------------------------------
(* The copy and the rows.  An operation that nothing overlapped is the     *)
(* only one under way, so what it has read is still true; one that was     *)
(* overlapped has left its mark in diverged.                               *)
Quiet == {"idle", "upsert", "create", "reload", "restore", "reply", "send"}

Agree == cache = NoCopy \/ cache = Latest(turns)

(* What one operation that is alone knows of the copy and of the rows.     *)
Own(o) ==
  /\ pc[o] = "store" => stale[o] \/ loaded[o] = Latest(turns)
  /\ pc[o] = "restore" => loaded[o] = Latest(turns)
  /\ ~diverged => /\ pc[o] \in Quiet => Agree
                  /\ pc[o] \in {"touch", "push"} =>
                       cache = NoCopy \/ Latest(Append(cache, turn[o])) = Latest(turns)
                  /\ pc[o] = "forget" => turns = <<>>

CopyInv ==
  /\ \A o \in Op : pc[o] # "idle" /\ o \notin overlapped =>
       Own(o) /\ \A p \in Op \ {o} : pc[p] = "idle"
  /\ \A o \in Op : pc[o] # "idle" /\ o \in overlapped => diverged
  /\ (\A o \in Op : pc[o] = "idle") /\ ~diverged => Agree

(* The window of a sequence and one more is the window of its window and   *)
(* that one: what recordAssistantReply pushes onto the copy.               *)
LEMMA LatestAppend ==
  ASSUME NEW S, NEW s \in Seq(S), NEW t \in S
  PROVE  Latest(Append(Latest(s), t)) = Latest(Append(s, t))
<1>1. CASE Len(s) <= Window
  BY <1>1, LatestIsTail
<1>2. CASE Len(s) > Window
  <2> DEFINE w == Latest(s)
             a == Append(w, t)
             b == Append(s, t)
  <2>1. w \in Seq(S) /\ Len(w) = Window /\ \A i \in 1..Window : w[i] = s[Len(s) - Window + i]
    BY <1>2, LatestIsTail
  <2>2. /\ a \in Seq(S) /\ Len(a) = Window + 1 /\ a[Window + 1] = t
        /\ \A i \in 1..Window : a[i] = w[i]
    BY <2>1
  <2>3. /\ b \in Seq(S) /\ Len(b) = Len(s) + 1 /\ b[Len(s) + 1] = t
        /\ \A i \in 1..Len(s) : b[i] = s[i]
    BY <1>2
  <2> HIDE DEF w, a, b
  <2>4. /\ Latest(a) \in Seq(S) /\ Len(Latest(a)) = Window
        /\ \A i \in 1..Window : Latest(a)[i] = a[1 + i]
    <3>1. Len(a) > Window /\ Len(a) - Window = 1
      BY <2>2
    <3> QED
      BY <2>2, <3>1, LatestIsTail
  <2>5. /\ Latest(b) \in Seq(S) /\ Len(Latest(b)) = Window
        /\ \A i \in 1..Window : Latest(b)[i] = b[Len(s) + 1 - Window + i]
    <3>1. Len(b) > Window
      BY <1>2, <2>3
    <3>2. /\ Latest(b) \in Seq(S) /\ Len(Latest(b)) = Window
          /\ \A i \in 1..Window : Latest(b)[i] = b[Len(b) - Window + i]
      BY <2>3, <3>1, LatestIsTail
    <3> QED
      BY <2>3, <3>2
  <2>6. ASSUME NEW i \in 1..Window PROVE Latest(a)[i] = Latest(b)[i]
    <3>1. CASE i = Window
      BY <1>2, <2>2, <2>3, <2>4, <2>5, <3>1
    <3>2. CASE i # Window
      <4>1. i + 1 \in 1..Window /\ Len(s) - Window + (i + 1) \in 1..Len(s)
        BY <1>2, <3>2
      <4>2. Latest(a)[i] = s[Len(s) - Window + (i + 1)]
        BY <2>1, <2>2, <2>4, <4>1
      <4>3. Latest(b)[i] = s[Len(s) - Window + (i + 1)]
        BY <2>3, <2>5, <4>1
      <4> QED
        BY <4>2, <4>3
    <3> QED
      BY <3>1, <3>2
  <2> QED
    BY <2>4, <2>5, <2>6, SeqEqual DEF a, b, w
<1> QED
  BY <1>1, <1>2

(* The window of no turns is empty.                                        *)
LEMMA LatestEmpty == Latest(<<>>) = <<>>
<1>1. <<>> \in Seq(Nat) /\ Len(<<>>) <= Window
  OBVIOUS
<1> QED
  BY <1>1, LatestIsTail

(* A step of an operation under way.  If it was overlapped the copy stays  *)
(* under suspicion; if not, nobody else is concerned.                      *)
LEMMA CopyMove ==
  ASSUME CopyInv, NEW o \in Op, pc[o] # "idle", overlapped' = overlapped,
         \A p \in Op \ {o} : pc'[p] = pc[p],
         o \in overlapped /\ diverged => diverged',
         o \notin overlapped => Own(o)'
  PROVE  CopyInv'
<1>1. CASE o \in overlapped
  <2>1. diverged /\ diverged'
    BY <1>1 DEF CopyInv
  <2>2. \A p \in Op : pc'[p] # "idle" => p \in overlapped
    BY <1>1 DEF CopyInv
  <2> QED
    BY <1>1, <2>1, <2>2 DEF CopyInv
<1>2. CASE o \notin overlapped
  <2>1. \A p \in Op \ {o} : pc[p] = "idle" /\ pc'[p] = "idle"
    BY <1>2 DEF CopyInv
  <2>2. pc'[o] = "idle" /\ ~diverged' => Agree'
    BY <1>2 DEF Own, Quiet
  <2> QED
    BY <1>2, <2>1, <2>2 DEF CopyInv
<1> QED
  BY <1>1, <1>2

(* An operation begins: alone, or every one under way is overlapped.       *)
LEMMA CopyStart ==
  ASSUME TypeOK, CopyInv, NEW o \in Op, NEW p \in {"upsert", "reload", "forget"},
         Start(o, p), cache' = cache,
         turns' = IF p = "forget" THEN <<>> ELSE turns
  PROVE  CopyInv'
<1>1. /\ pc'[o] = p /\ pc[o] = "idle"
      /\ \A q \in Op \ {o} : pc'[q] = pc[q]
  BY DEF TypeOK, Start, Goto
<1>2. CASE InFlight = {}
  <2>1. /\ \A q \in Op : pc[q] = "idle"
        /\ o \notin overlapped' /\ diverged' = diverged
    BY <1>2 DEF Start, InFlight, TypeOK
  <2>2. ~diverged => Agree
    BY <2>1 DEF CopyInv
  <2>3. Own(o)'
    BY <1>1, <2>1, <2>2 DEF Own, Quiet, Agree
  <2> QED
    BY <1>1, <2>1, <2>3 DEF CopyInv
<1>3. CASE InFlight # {}
  <2>1. overlapped' = InFlight \cup {o} /\ diverged'
    BY <1>3 DEF Start
  <2>2. \A q \in Op : pc'[q] # "idle" => q \in overlapped'
    BY <1>1, <2>1 DEF InFlight
  <2> QED
    BY <2>1, <2>2 DEF CopyInv
<1> QED
  BY <1>2, <1>3

LEMMA CopyStep ==
  ASSUME IInv, CopyInv, [Next]_vars
  PROVE  CopyInv'
<1>t. TypeOK
  BY DEF IInv
<1>1. ASSUME NEW o \in Op, FindExisting(o) PROVE CopyInv'
  BY <1>t, <1>1, CopyStart DEF FindExisting
<1>2. ASSUME NEW o \in Op, FindSession(o) PROVE CopyInv'
  BY <1>t, <1>2, CopyStart DEF FindSession
<1>3. ASSUME NEW o \in Op, DeleteTurns(o) PROVE CopyInv'
  <2>1. Start(o, "forget") /\ cache' = cache /\ turns' = <<>>
    BY <1>3 DEF DeleteTurns
  <2>2. turns' = IF "forget" = "forget" THEN <<>> ELSE turns
    BY <2>1
  <2> QED
    BY <1>t, <2>1, <2>2, CopyStart
<1>m. ASSUME NEW o \in Op, NEW p, Goto(o, p)
      PROVE  pc'[o] = p /\ \A q \in Op \ {o} : pc'[q] = pc[q]
  BY <1>t, <1>m DEF TypeOK, Goto
<1>k. ASSUME NEW o \in Op, pc[o] # "idle", o \notin overlapped PROVE Own(o)
  BY <1>k DEF CopyInv
<1>4. ASSUME NEW o \in Op, Upsert(o) \/ Touch(o) \/ Send(o) PROVE CopyInv'
  <2>1. /\ pc[o] # "idle" /\ overlapped' = overlapped /\ diverged' = diverged
        /\ cache' = cache /\ turns' = turns /\ turn' = turn
    BY <1>4 DEF Upsert, Touch, Send
  <2>2. \A q \in Op \ {o} : pc'[q] = pc[q]
    BY <1>4, <1>m DEF Upsert, Touch, Send
  <2>3. \/ pc[o] = "upsert" /\ pc'[o] = "create"
        \/ pc[o] = "touch" /\ pc'[o] = "push"
        \/ pc[o] = "send" /\ pc'[o] = "idle"
    BY <1>4, <1>m DEF Upsert, Touch, Send
  <2>4. o \notin overlapped => Own(o)'
    BY <1>k, <2>1, <2>3 DEF Own, Quiet, Agree
  <2> QED
    BY <2>1, <2>2, <2>4, CopyMove
<1>5. ASSUME NEW o \in Op, CreateTurn(o) PROVE CopyInv'
  <2>1. /\ pc[o] # "idle" /\ overlapped' = overlapped /\ diverged' = diverged
        /\ pc'[o] = IF stale[o] THEN "store" ELSE "load"
        /\ stale' = stale
        /\ \A q \in Op \ {o} : pc'[q] = pc[q]
    BY <1>5, <1>m DEF CreateTurn
  <2>2. Own(o)'
    BY <2>1 DEF Own, Quiet
  <2> QED
    BY <2>1, <2>2, CopyMove
<1>6. ASSUME NEW o \in Op, LoadTurns(o) PROVE CopyInv'
  <2>1. /\ pc[o] # "idle" /\ overlapped' = overlapped /\ diverged' = diverged
        /\ cache' = cache /\ turns' = turns
        /\ \A q \in Op \ {o} : pc'[q] = pc[q]
        /\ \/ pc[o] = "load" /\ pc'[o] = "store"
           \/ pc[o] = "reload" /\ pc'[o] = "restore"
    BY <1>6, <1>m DEF LoadTurns
  <2>2. loaded'[o] = Latest(turns)
    BY <1>t, <1>6 DEF TypeOK, LoadTurns
  <2>3. o \notin overlapped => Own(o)'
    BY <1>k, <2>1, <2>2 DEF Own, Quiet, Agree, Latest
  <2> QED
    BY <2>1, <2>3, CopyMove
<1>7. ASSUME NEW o \in Op, Store(o) PROVE CopyInv'
  <2>1. /\ overlapped' = overlapped /\ cache' = loaded[o] /\ turns' = turns
        /\ diverged' = IF o \in overlapped THEN diverged
                       ELSE pc[o] = "store" /\ stale[o]
        /\ \A q \in Op \ {o} : pc'[q] = pc[q]
        /\ \/ pc[o] = "store" /\ pc'[o] = "reply"
           \/ pc[o] = "restore" /\ pc'[o] = "idle"
    BY <1>7, <1>m DEF Store
  <2>2. o \notin overlapped => Own(o)'
    BY <1>k, <2>1 DEF Own, Quiet, Agree, Latest
  <2> QED
    BY <2>1, <2>2, CopyMove
<1>8. ASSUME NEW o \in Op, CreateReply(o) PROVE CopyInv'
  <2>1. /\ pc[o] = "reply" /\ pc'[o] = "touch" /\ cache' = cache
        /\ overlapped' = overlapped /\ diverged' = diverged
        /\ \A q \in Op \ {o} : pc'[q] = pc[q]
    BY <1>8, <1>m DEF CreateReply
  <2>2. /\ turns' = Append(turns, created + 1) /\ turn'[o] = created + 1
        /\ turns \in Seq(Nat) /\ created + 1 \in Nat
    <3>1. turns \in Seq(1..created) /\ created \in Nat /\ turn \in [Op -> 0..created]
      BY <1>t DEF TypeOK
    <3>2. 1..created \subseteq Nat
      BY <3>1
    <3> QED
      BY <1>8, <3>1, <3>2, SeqMonotonic DEF CreateReply, NewTurn
  <2>3. o \notin overlapped /\ ~diverged => Agree
    BY <1>k, <2>1 DEF Own, Quiet
  <2>4. o \notin overlapped => Own(o)'
    <3>1. Latest(Append(Latest(turns), created + 1)) = Latest(turns')
      BY <2>2, LatestAppend
    <3> QED
      BY <2>1, <2>2, <2>3, <3>1 DEF Own, Quiet, Agree, Latest
  <2> QED
    BY <2>1, <2>4, CopyMove
<1>9. ASSUME NEW o \in Op, Push(o) PROVE CopyInv'
  <2>1. /\ pc[o] = "push" /\ pc'[o] = "send" /\ turns' = turns
        /\ overlapped' = overlapped /\ diverged' = diverged
        /\ cache' = IF cache = NoCopy THEN NoCopy ELSE Latest(Append(cache, turn[o]))
        /\ \A q \in Op \ {o} : pc'[q] = pc[q]
    BY <1>9, <1>m DEF Push
  <2>2. o \notin overlapped => Own(o)'
    BY <1>k, <2>1 DEF Own, Quiet, Agree, Latest
  <2> QED
    BY <2>1, <2>2, CopyMove
<1>10. ASSUME NEW o \in Op, ClearCopy(o) PROVE CopyInv'
  <2>1. /\ pc[o] = "forget" /\ pc'[o] = "idle" /\ turns' = turns
        /\ overlapped' = overlapped /\ diverged' = diverged
        /\ cache' = IF cache = NoCopy THEN NoCopy ELSE <<>>
        /\ \A q \in Op \ {o} : pc'[q] = pc[q]
    BY <1>10, <1>m DEF ClearCopy
  <2>2. o \notin overlapped => Own(o)'
    <3>1. o \notin overlapped /\ ~diverged => turns = <<>>
      BY <1>k, <2>1 DEF Own
    <3>2. o \notin overlapped /\ ~diverged => Agree'
      BY <2>1, <3>1, LatestEmpty DEF Agree, Latest
    <3> QED
      BY <2>1, <3>2 DEF Own
  <2> QED
    BY <2>1, <2>2, CopyMove
<1>11. ASSUME NEW o \in Op, Fail(o) PROVE CopyInv'
  <2>1. /\ pc[o] \in {"upsert", "create", "load", "reload", "reply", "touch", "send"}
        /\ pc'[o] = "idle" /\ turns' = turns /\ cache' = cache
        /\ overlapped' = overlapped
        /\ diverged' = (diverged \/ pc[o] \in {"load", "touch"})
        /\ \A q \in Op \ {o} : pc'[q] = pc[q]
    BY <1>11, <1>m DEF Fail
  <2>2. o \notin overlapped => Own(o)'
    <3>1. o \notin overlapped /\ ~diverged' => Agree
      BY <1>k, <2>1 DEF Own, Quiet
    <3>2. o \notin overlapped /\ ~diverged' => Agree'
      BY <2>1, <3>1 DEF Agree, Latest
    <3> QED
      BY <2>1, <3>2 DEF Own
  <2> QED
    BY <2>1, <2>2, CopyMove
<1>12. CASE InvalidateCache
  BY <1>12 DEF InvalidateCache, ops, CopyInv, Own, Agree, Latest
<1>13. CASE GrowCold \/ UNCHANGED vars
  <2>1. UNCHANGED <<turns, cache, pc, stale, turn, loaded, overlapped, diverged>>
    BY <1>13 DEF GrowCold, vars, ops
  <2> QED
    BY <2>1 DEF CopyInv, Own, Agree, Latest
<1> QED
  BY <1>1, <1>2, <1>3, <1>4, <1>5, <1>6, <1>7, <1>8, <1>9, <1>10, <1>11, <1>12, <1>13
     DEF Next

(* Unless operations overlapped, a call failed half-way or the session was *)
(* cold, the copy is what a query of the rows would answer.                *)
THEOREM CopyIsCurrent == Spec => []CopyAgreesWithRows
<1>1. Init => CopyInv
  BY DEF Init, CopyInv, Agree
<1>2. CopyInv => CopyAgreesWithRows
  BY DEF CopyInv, Agree, CopyAgreesWithRows, InFlight
<1> QED
  BY <1>1, <1>2, CopyStep, Invariance, PTL DEF Spec
=============================================================================
