--------------------------- MODULE DispatchProofs ---------------------------
(***************************************************************************)
(* Proofs about the choice of an agent for a message (AgentResolver), for  *)
(* every set of bindings, agents and calls, every time to live and every   *)
(* latency, and about its way through the dispatcher (MessageDispatcher),  *)
(* for every number of messages under way, limit, window, timeout, number  *)
(* of attempts and delay.                                                  *)
(***************************************************************************)
EXTENDS AgentResolver, MessageDispatcher, FiniteSetTheorems, TLAPS

USE BindingAssumption, NoneAssumption, BoundsAssumption

-----------------------------------------------------------------------------
(* The inductive invariant. *)

(* A binding that came or went since bs was read.                           *)
Differ(bs, b) == (b \in bs) # (b \in rows)

(* What a call has read is as old as its wait for the answer.               *)
ReadInv == \A c \in Op : pc[c] = "keep" =>
             \A b \in Binding : Differ(read[c], b) => changed[b] <= waited[c]

(* The cache counts its age from the arrival of what was read before.       *)
CacheInv == Valid =>
  \A b \in Binding : Differ(cache.bindings, b) => changed[b] <= cache.age + Latency

(* A call that passed the check of the channel did so one query ago, what   *)
(* it then cached rests on a check two queries ago.                         *)
OffInv ==
  ~active =>
    /\ \A c \in Op : /\ pc[c] = "query" => switched <= waited[c]
                     /\ pc[c] = "keep" => switched <= waited[c] + Latency
    /\ Valid => switched <= cache.age + 2 * Latency

(* The agent of the session is given up only when a load has failed.        *)
CallInv == \A c \in Op :
  /\ pc[c] = "idle" => ~failed[c]
  /\ pc[c] # "idle" => sticky[c] = IF failed[c] THEN None ELSE existing[c]

(* An answer is right for the bindings that were used.                      *)
Chosen(a) ==
  /\ ~a.fault /\ (\E b \in a.used : agentOf[b] = a.existing) => a.agent = a.existing
  /\ (a.fault \/ \A b \in a.used : agentOf[b] # a.existing) =>
       \E b \in a.used : /\ a.agent = agentOf[b]
                         /\ \A o \in a.used \ {b} : priority[o] < priority[b]

AnswerInv == answer # None => Chosen(answer)

LoadInv == ReadInv /\ CacheInv /\ OffInv /\ CallInv
IInv == TypeOK /\ LoadInv /\ StaleForBoundedTime /\ AnswerInv

-----------------------------------------------------------------------------
(* Lemmas on the operators. *)

(* Where one binding alone is at the top, it is above all others.           *)
LEMMA TopAbove ==
  ASSUME NEW bs \in SUBSET Binding, Cardinality(Top(bs)) = 1, NEW b \in Top(bs)
  PROVE  b \in bs /\ \A o \in bs \ {b} : priority[o] < priority[b]
<1>1. Top(bs) \in SUBSET Binding /\ IsFiniteSet(Top(bs))
  BY FS_Subset DEF Top
<1>2. Top(bs) = {b}
  BY <1>1, FS_Singleton
<1>3. ASSUME NEW o \in bs \ {b} PROVE priority[o] < priority[b]
  <2>1. o \notin Top(bs)
    BY <1>2
  <2>2. PICK p \in bs : ~(priority[p] <= priority[o])
    BY <2>1 DEF Top
  <2>3. priority[p] <= priority[b]
    BY DEF Top
  <2>4. {priority[o], priority[p], priority[b]} \subseteq 0..4
    BY DEF Top
  <2> QED
    BY <2>2, <2>3, <2>4
<1> QED
  BY <1>3 DEF Top

(* The choice among bs, for the agent that is still looked for, is right    *)
(* for bs; where nothing can be chosen the call throws.                     *)
LEMMA ChoiceIsRight ==
  ASSUME NEW bs \in SUBSET Binding, NEW e \in Agent \cup {None}, NEW f \in BOOLEAN,
         NEW a, a = (IF f THEN None ELSE e), Choose(bs, a, e, f)
  PROVE  /\ answer' \in Answer \cup {None}
         /\ answer' # None => answer'.used = bs /\ Chosen(answer')
<1>1. CASE \E b \in Of(a, bs) : Return(b, bs, e, f)
  <2>1. PICK b \in Of(a, bs) : Return(b, bs, e, f)
    BY <1>1
  <2>2. b \in bs /\ b \in Binding /\ agentOf[b] = a /\ agentOf[b] \in Agent
    BY DEF Of
  <2>3. ~f /\ a = e
    BY <2>2
  <2> QED
    BY <2>1, <2>2, <2>3 DEF Return, Answer, Chosen
<1>2. CASE /\ Of(a, bs) = {} /\ Cardinality(Top(bs)) = 1
           /\ \E b \in Top(bs) : Return(b, bs, e, f)
  <2>1. PICK b \in Top(bs) : Return(b, bs, e, f)
    BY <1>2
  <2>2. b \in bs /\ \A o \in bs \ {b} : priority[o] < priority[b]
    BY <1>2, TopAbove
  <2>3. \A o \in bs : agentOf[o] # a
    BY <1>2 DEF Of
  <2>4. /\ answer'.agent = agentOf[b] /\ answer'.used = bs
        /\ answer'.existing = e /\ answer'.fault = f
    BY <2>1 DEF Return
  <2>5. Chosen(answer')
    BY <2>2, <2>3, <2>4 DEF Chosen
  <2> QED
    BY <2>1, <2>2, <2>4, <2>5 DEF Return, Answer
<1>3. CASE Of(a, bs) = {} /\ Cardinality(Top(bs)) # 1 /\ answer' = None
  BY <1>3
<1> QED
  BY <1>1, <1>2, <1>3 DEF Choose

(* An answer from bindings read not too long ago is as fresh as it must be. *)
LEMMA AnswerIsSound ==
  ASSUME TypeOK, NEW bs \in SUBSET Binding, NEW e \in Agent \cup {None}, NEW f \in BOOLEAN,
         NEW a, a = (IF f THEN None ELSE e), Choose(bs, a, e, f),
         UNCHANGED <<rows, active, changed, switched>>,
         \A b \in Binding : Differ(bs, b) => changed[b] < TTL + Latency,
         ~active => switched < Horizon
  PROVE  /\ answer' \in Answer \cup {None}
         /\ FreshWithinTTL' /\ DeactivatedStops' /\ AnswerInv'
<1>1. /\ answer' \in Answer \cup {None}
      /\ answer' # None => answer'.used = bs /\ Chosen(answer')
  BY ChoiceIsRight
<1>2. FreshWithinTTL'
  BY <1>1 DEF FreshWithinTTL, Differ
<1>3. DeactivatedStops'
  BY DEF DeactivatedStops, Horizon
<1>4. AnswerInv'
  BY <1>1 DEF AnswerInv, Chosen
<1> QED
  BY <1>1, <1>2, <1>3, <1>4

(* No answer, nothing to show of it.                                        *)
LEMMA NoAnswerIsSound ==
  answer' = None => /\ answer' \in Answer \cup {None}
                    /\ FreshWithinTTL' /\ DeactivatedStops' /\ AnswerInv'
  BY DEF FreshWithinTTL, DeactivatedStops, AnswerInv

(* So is one from a valid cache.                                            *)
LEMMA CachedIsSound ==
  ASSUME TypeOK, LoadInv, Valid,
         NEW e \in Agent \cup {None}, NEW f \in BOOLEAN,
         NEW a, a = (IF f THEN None ELSE e), Choose(cache.bindings, a, e, f),
         UNCHANGED <<rows, active, changed, switched>>
  PROVE  /\ answer' \in Answer \cup {None}
         /\ FreshWithinTTL' /\ DeactivatedStops' /\ AnswerInv'
<1>1. /\ cache.bindings \in SUBSET Binding /\ cache.age \in Nat /\ cache.age < TTL
      /\ changed \in [Binding -> Nat] /\ switched \in Nat
  BY DEF TypeOK, Valid, Entry, Age, Horizon
<1>2. \A b \in Binding : Differ(cache.bindings, b) => changed[b] < TTL + Latency
  BY <1>1 DEF LoadInv, CacheInv
<1>3. ~active => switched < Horizon
  BY <1>1 DEF LoadInv, OffInv, Horizon
<1> QED
  BY <1>1, <1>2, <1>3, AnswerIsSound

-----------------------------------------------------------------------------
(* Every step keeps the invariant. *)

LEMMA InitInv == Init => IInv
<1> SUFFICES ASSUME Init PROVE IInv
  OBVIOUS
<1>1. Horizon \in Nat
  BY DEF Horizon
<1>2. TypeOK
  BY <1>1 DEF Init, TypeOK, Age
<1>3. LoadInv
  BY DEF Init, LoadInv, ReadInv, CacheInv, OffInv, CallInv, Valid
<1> QED
  BY <1>2, <1>3 DEF Init, IInv, StaleForBoundedTime, FreshWithinTTL, DeactivatedStops,
                    AnswerInv

(* A call that is over leaves the locals of one that never was.             *)
LEMMA DoneKeeps ==
  ASSUME TypeOK, LoadInv, NEW c \in Op, Done(c), UNCHANGED channel
  PROVE  /\ pc' \in [Op -> {"idle", "config", "query", "keep"}]
         /\ sticky' \in [Op -> Agent \cup {None}]
         /\ read' \in [Op -> SUBSET Binding]
         /\ waited' \in [Op -> 0..Latency]
         /\ failed' \in [Op -> BOOLEAN]
         /\ existing' \in [Op -> Agent \cup {None}]
         /\ ReadInv' /\ CallInv'
         /\ ~active' => \A d \in Op :
              /\ pc'[d] = "query" => switched' <= waited'[d]
              /\ pc'[d] = "keep" => switched' <= waited'[d] + Latency
<1> USE DEF Done, channel, TypeOK
<1>1. pc' \in [Op -> {"idle", "config", "query", "keep"}]
      /\ sticky' \in [Op -> Agent \cup {None}] /\ read' \in [Op -> SUBSET Binding]
  OBVIOUS
<1>2. waited' \in [Op -> 0..Latency] /\ existing' \in [Op -> Agent \cup {None}]
  OBVIOUS
<1>3. failed' \in [Op -> BOOLEAN]
  OBVIOUS
<1>4. ReadInv'
  BY DEF LoadInv, ReadInv, Differ
<1>5. CallInv'
  BY DEF LoadInv, CallInv
<1> QED
  BY <1>1, <1>2, <1>3, <1>4, <1>5 DEF LoadInv, OffInv

(* What the failure of a load does, whatever made it fail.                  *)
LEMMA LoadFailsKeeps ==
  ASSUME TypeOK, LoadInv, NEW c \in Op, pc[c] \in {"config", "query"}, LoadFails(c),
         UNCHANGED <<channel, cache>>, faults' \in 0..MaxFaults
  PROVE  IInv'
<1> USE DEF channel
<1>1. /\ rows' \subseteq Binding /\ active' \in BOOLEAN /\ cache' \in Entry \cup {None}
      /\ writes' \in 0..MaxWrites /\ changed' \in [Binding -> Age] /\ switched' \in Age
  BY DEF TypeOK
<1>2. CacheInv'
  BY DEF LoadInv, CacheInv, Valid, Differ
<1>3. ~active' /\ Valid' => switched' <= cache'.age + 2 * Latency
  BY DEF LoadInv, OffInv, Valid
<1>4. CASE sticky[c] = None /\ Done(c) /\ answer' = None
  BY <1>1, <1>2, <1>3, <1>4, DoneKeeps, NoAnswerIsSound
     DEF IInv, TypeOK, LoadInv, OffInv, StaleForBoundedTime
<1>5. CASE /\ sticky[c] # None /\ Valid
           /\ Choose(cache.bindings, None, existing[c], TRUE)
           /\ Done(c)
  <2>1. existing[c] \in Agent \cup {None}
    BY DEF TypeOK
  <2>2. answer' \in Answer \cup {None} /\ FreshWithinTTL' /\ DeactivatedStops' /\ AnswerInv'
    BY <1>5, <2>1, CachedIsSound
  <2> QED
    BY <1>1, <1>2, <1>3, <1>5, <2>2, DoneKeeps
       DEF IInv, TypeOK, LoadInv, OffInv, StaleForBoundedTime
<1>6. CASE /\ sticky[c] # None /\ ~Valid
           /\ pc' = [pc EXCEPT ![c] = "config"]
           /\ sticky' = [sticky EXCEPT ![c] = None]
           /\ waited' = [waited EXCEPT ![c] = 0]
           /\ failed' = [failed EXCEPT ![c] = TRUE]
           /\ answer' = None
           /\ UNCHANGED <<read, existing>>
  <2> USE <1>6
  <2>1. /\ pc' \in [Op -> {"idle", "config", "query", "keep"}]
        /\ sticky' \in [Op -> Agent \cup {None}] /\ read' \in [Op -> SUBSET Binding]
        /\ waited' \in [Op -> 0..Latency] /\ existing' \in [Op -> Agent \cup {None}]
    BY DEF TypeOK
  <2>2. failed' \in [Op -> BOOLEAN]
    BY DEF TypeOK
  <2>3. ReadInv' /\ CallInv'
    BY DEF LoadInv, ReadInv, CallInv, Differ, TypeOK
  <2>4. OffInv'
    BY <1>3 DEF LoadInv, OffInv, TypeOK
  <2> QED
    BY <1>1, <1>2, <2>1, <2>2, <2>3, <2>4, NoAnswerIsSound
       DEF IInv, TypeOK, LoadInv, StaleForBoundedTime
<1> QED
  BY <1>4, <1>5, <1>6 DEF LoadFails

LEMMA StepInv == IInv /\ [Next]_vars => IInv'
<1> SUFFICES ASSUME IInv, [Next]_vars PROVE IInv'
  OBVIOUS
<1> USE DEF call, channel
<1>a. TypeOK /\ LoadInv
  BY DEF IInv
<1>n. Horizon \in Nat /\ Horizon = TTL + 2 * Latency
  BY DEF Horizon
<1>1. ASSUME NEW c \in Op, Resolve(c) PROVE IInv'
  <2> USE <1>1
  <2>1. PICK e \in Agent \cup {None} :
          \/ Valid /\ Choose(cache.bindings, e, e, FALSE) /\ UNCHANGED call
          \/ /\ ~Valid
             /\ pc' = [pc EXCEPT ![c] = "config"]
             /\ sticky' = [sticky EXCEPT ![c] = e]
             /\ existing' = [existing EXCEPT ![c] = e]
             /\ answer' = None
             /\ UNCHANGED <<read, waited, failed>>
    BY DEF Resolve
  <2>2. pc[c] = "idle" /\ UNCHANGED <<channel, cache, faults>>
    BY DEF Resolve
  <2>3. CASE Valid /\ Choose(cache.bindings, e, e, FALSE) /\ UNCHANGED call
    <3>1. answer' \in Answer \cup {None} /\ FreshWithinTTL' /\ DeactivatedStops' /\ AnswerInv'
      BY <1>a, <2>2, <2>3, CachedIsSound
    <3>2. TypeOK'
      BY <1>a, <2>2, <2>3, <3>1 DEF TypeOK
    <3>3. LoadInv'
      BY <1>a, <2>2, <2>3 DEF LoadInv, ReadInv, CacheInv, OffInv, CallInv, Valid, Differ
    <3> QED
      BY <3>1, <3>2, <3>3 DEF IInv, StaleForBoundedTime
  <2>4. CASE /\ ~Valid
             /\ pc' = [pc EXCEPT ![c] = "config"]
             /\ sticky' = [sticky EXCEPT ![c] = e]
             /\ existing' = [existing EXCEPT ![c] = e]
             /\ answer' = None
             /\ UNCHANGED <<read, waited, failed>>
    <3>1. TypeOK'
      BY <1>a, <2>2, <2>4 DEF TypeOK
    <3>2. ReadInv' /\ CacheInv' /\ OffInv'
      BY <1>a, <2>2, <2>4 DEF LoadInv, ReadInv, CacheInv, OffInv, Valid, Differ, TypeOK
    <3>3. CallInv'
      BY <1>a, <2>2, <2>4 DEF LoadInv, CallInv, TypeOK
    <3> QED
      BY <2>4, <3>1, <3>2, <3>3, NoAnswerIsSound DEF IInv, LoadInv, StaleForBoundedTime
  <2> QED
    BY <2>1, <2>3, <2>4
<1>2. ASSUME NEW c \in Op, CheckConfig(c) PROVE IInv'
  <2> USE <1>2, <1>a DEF CheckConfig
  <2>1. TypeOK'
    BY DEF TypeOK
  <2>2. LoadInv'
    BY DEF LoadInv, ReadInv, CacheInv, OffInv, CallInv, Valid, Differ, TypeOK
  <2> QED
    BY <2>1, <2>2, NoAnswerIsSound DEF IInv, StaleForBoundedTime
<1>3. ASSUME NEW c \in Op, Inactive(c) PROVE IInv'
  BY <1>3, <1>a, LoadFailsKeeps DEF Inactive, TypeOK
<1>4. ASSUME NEW c \in Op, Query(c) PROVE IInv'
  <2> USE <1>4, <1>a DEF Query
  <2>1. TypeOK'
    BY DEF TypeOK
  <2>2. ReadInv'
    BY DEF LoadInv, ReadInv, Differ, TypeOK
  <2>3. CacheInv' /\ CallInv'
    BY DEF LoadInv, CacheInv, CallInv, Valid, Differ, TypeOK
  <2>4. OffInv'
    <3>1. ASSUME ~active', NEW d \in Op
          PROVE  /\ pc'[d] = "query" => switched' <= waited'[d]
                 /\ pc'[d] = "keep" => switched' <= waited'[d] + Latency
      <4>1. waited[c] <= Latency /\ waited[c] \in Nat /\ switched \in Nat
        BY <1>n DEF TypeOK, Age
      <4>2. CASE d = c
        BY <3>1, <4>1, <4>2 DEF LoadInv, OffInv, TypeOK
      <4>3. CASE d # c
        BY <3>1, <4>3 DEF LoadInv, OffInv, TypeOK
      <4> QED
        BY <4>2, <4>3
    <3> QED
      BY <3>1 DEF LoadInv, OffInv, Valid
  <2> QED
    BY <2>1, <2>2, <2>3, <2>4, NoAnswerIsSound DEF IInv, LoadInv, StaleForBoundedTime
<1>5. ASSUME NEW c \in Op, QueryFails(c) PROVE IInv'
  <2>1. faults' \in 0..MaxFaults
    BY <1>5, <1>a DEF QueryFails, TypeOK
  <2> QED
    BY <1>5, <1>a, <2>1, LoadFailsKeeps DEF QueryFails
<1>6. ASSUME NEW c \in Op, Keep(c) PROVE IInv'
  <2> USE <1>6, <1>a DEF Keep
  <2>1. /\ read[c] \in SUBSET Binding /\ existing[c] \in Agent \cup {None}
        /\ failed[c] \in BOOLEAN /\ sticky[c] = IF failed[c] THEN None ELSE existing[c]
    BY DEF TypeOK, LoadInv, CallInv
  <2>2. /\ waited[c] \in Nat /\ waited[c] <= Latency
        /\ changed \in [Binding -> Nat] /\ switched \in Nat
    BY <1>n DEF TypeOK, Age
  <2>3. \A b \in Binding : Differ(read[c], b) => changed[b] <= Latency
    BY <2>2 DEF LoadInv, ReadInv
  <2>4. ~active => switched <= 2 * Latency
    BY <2>2 DEF LoadInv, OffInv
  <2>5. answer' \in Answer \cup {None} /\ FreshWithinTTL' /\ DeactivatedStops' /\ AnswerInv'
    <3>1. \A b \in Binding : Differ(read[c], b) => changed[b] < TTL + Latency
      BY <2>2, <2>3
    <3>2. ~active => switched < Horizon
      BY <1>n, <2>2, <2>4
    <3> QED
      BY <2>1, <3>1, <3>2, AnswerIsSound
  <2>6. cache' \in Entry /\ cache'.bindings = read[c] /\ cache'.age = 0
    BY <2>1 DEF Entry
  <2>7. CacheInv'
    BY <2>2, <2>3, <2>6 DEF CacheInv, Differ
  <2>8. OffInv'
    BY <2>2, <2>4, <2>6, DoneKeeps DEF OffInv
  <2>9. TypeOK'
    BY <2>5, <2>6, DoneKeeps DEF TypeOK
  <2> QED
    BY <2>5, <2>7, <2>8, <2>9, DoneKeeps DEF IInv, LoadInv, StaleForBoundedTime
<1>7. ASSUME InvalidateCache PROVE IInv'
  <2> USE <1>7, <1>a DEF InvalidateCache
  <2>1. TypeOK'
    BY DEF TypeOK
  <2>2. LoadInv'
    BY DEF LoadInv, ReadInv, CacheInv, OffInv, CallInv, Valid, Differ
  <2> QED
    BY <2>1, <2>2, NoAnswerIsSound DEF IInv, StaleForBoundedTime
<1>8. ASSUME NEW b \in Binding, Bind(b) \/ Unbind(b) PROVE IInv'
  <2> USE <1>8, <1>a DEF Bind, Unbind
  <2>1. TypeOK'
    BY <1>n DEF TypeOK, Age
  <2>2. changed \in [Binding -> Nat] /\ waited \in [Op -> Nat]
        /\ (cache # None => cache.age \in Nat)
    BY <1>n DEF TypeOK, Age, Entry
  <2>3. changed' = [changed EXCEPT ![b] = 0]
        /\ \A o \in Binding : o # b => (o \in rows' <=> o \in rows)
    OBVIOUS
  <2>4. ReadInv'
    BY <2>2, <2>3 DEF LoadInv, ReadInv, Differ
  <2>5. CacheInv'
    BY <2>2, <2>3 DEF LoadInv, CacheInv, Valid, Differ
  <2>6. OffInv' /\ CallInv'
    BY DEF LoadInv, OffInv, CallInv, Valid
  <2> QED
    BY <2>1, <2>4, <2>5, <2>6, NoAnswerIsSound DEF IInv, LoadInv, StaleForBoundedTime
<1>9. ASSUME NEW b \in Binding, NEW o \in Binding, Rebind(b, o) PROVE IInv'
  <2> USE <1>9, <1>a DEF Rebind
  <2>1. TypeOK'
    BY <1>n DEF TypeOK, Age
  <2>2. changed \in [Binding -> Nat] /\ waited \in [Op -> Nat]
        /\ (cache # None => cache.age \in Nat)
    BY <1>n DEF TypeOK, Age, Entry
  <2>3. changed' = [changed EXCEPT ![b] = 0, ![o] = 0]
        /\ \A d \in Binding : d # b /\ d # o => (d \in rows' <=> d \in rows)
    OBVIOUS
  <2>4. ReadInv'
    BY <2>2, <2>3 DEF LoadInv, ReadInv, Differ
  <2>5. CacheInv'
    BY <2>2, <2>3 DEF LoadInv, CacheInv, Valid, Differ
  <2>6. OffInv' /\ CallInv'
    BY DEF LoadInv, OffInv, CallInv, Valid
  <2> QED
    BY <2>1, <2>4, <2>5, <2>6, NoAnswerIsSound DEF IInv, LoadInv, StaleForBoundedTime
<1>10. ASSUME Switch PROVE IInv'
  <2> USE <1>10, <1>a DEF Switch
  <2>1. writes' \in 0..MaxWrites /\ switched' \in Age /\ active' \in BOOLEAN
    BY <1>n DEF TypeOK, Age
  <2>2. TypeOK'
    BY <2>1 DEF TypeOK
  <2>3. waited \in [Op -> Nat] /\ (cache # None => cache.age \in Nat)
    BY DEF TypeOK, Entry
  <2>4. OffInv'
    BY <2>3 DEF OffInv, Valid
  <2>5. ReadInv' /\ CacheInv' /\ CallInv'
    BY DEF LoadInv, ReadInv, CacheInv, CallInv, Valid, Differ
  <2> QED
    BY <2>2, <2>4, <2>5, NoAnswerIsSound DEF IInv, LoadInv, StaleForBoundedTime
<1>11. ASSUME Tick PROVE IInv'
  <2> USE <1>11, <1>a DEF Tick
  <2>1. /\ changed \in [Binding -> 0..Horizon] /\ switched \in 0..Horizon
        /\ waited \in [Op -> 0..Latency]
    BY DEF TypeOK, Age
  <2>2. waited' \in [Op -> 0..Latency]
    BY <2>1
  <2>3. cache' \in Entry \cup {None}
    BY DEF TypeOK, Entry, Older
  <2>4. changed' \in [Binding -> 0..Horizon] /\ switched' \in 0..Horizon
    BY <1>n, <2>1 DEF Older
  <2>5. TypeOK'
    BY <2>2, <2>3, <2>4 DEF TypeOK, Age
  <2>6. \A b \in Binding : changed[b] \in Nat /\ changed'[b] <= changed[b] + 1
                           /\ changed'[b] \in Nat
    BY <1>n, <2>1 DEF Older
  <2>7. switched' <= switched + 1 /\ switched \in Nat /\ switched' \in Nat
    BY <1>n, <2>1 DEF Older
  <2>8. \A c \in Op : /\ waited[c] \in Nat
                      /\ pc[c] \in {"query", "keep"} => waited'[c] = waited[c] + 1
    BY <2>1 DEF Loading
  <2>9. Valid' => /\ Valid /\ cache.age \in Nat
                  /\ cache'.age = cache.age + 1 /\ cache'.bindings = cache.bindings
    BY DEF TypeOK, Valid, Entry, Older
  <2>10. ReadInv'
    BY <2>6, <2>8 DEF LoadInv, ReadInv, Differ
  <2>11. CacheInv'
    BY <2>6, <2>9 DEF LoadInv, CacheInv, Differ, TypeOK, Entry, Valid
  <2>12. OffInv'
    BY <2>7, <2>8, <2>9 DEF LoadInv, OffInv
  <2>13. CallInv'
    BY DEF LoadInv, CallInv
  <2> QED
    BY <2>5, <2>10, <2>11, <2>12, <2>13, NoAnswerIsSound DEF IInv, LoadInv, StaleForBoundedTime
<1>12. ASSUME UNCHANGED vars PROVE IInv'
  <2> USE <1>12 DEF vars
  <2>1. TypeOK'
    BY <1>a DEF TypeOK
  <2>2. LoadInv'
    BY <1>a DEF LoadInv, ReadInv, CacheInv, OffInv, CallInv, Valid, Differ
  <2> QED
    BY <2>1, <2>2 DEF IInv, StaleForBoundedTime, FreshWithinTTL, DeactivatedStops, AnswerInv,
                      Chosen
<1> QED
  BY <1>1, <1>2, <1>3, <1>4, <1>5, <1>6, <1>7, <1>8, <1>9, <1>10, <1>11, <1>12 DEF Next, Proceed

LEMMA Invariance == Spec => []IInv
  BY InitInv, StepInv, PTL DEF Spec

-----------------------------------------------------------------------------
(* An answer rests on bindings no older than the time of the cache and one *)
(* query, and on a channel that was active no more than two queries before, *)
(* however the loads of overlapping calls end.                             *)
THEOREM StalenessIsBounded == Spec => []StaleForBoundedTime
<1>1. IInv => StaleForBoundedTime
  BY DEF IInv
<1> QED
  BY <1>1, Invariance, PTL

(* With bindings that nobody changes a conversation keeps its agent while   *)
(* that has a binding, else, or when the load for it failed, it gets the    *)
(* one above all others.                                                    *)
THEOREM AgentIsRight == Spec => []RightAgent
<1>1. IInv => RightAgent
  <2> SUFFICES ASSUME IInv, answer # None, Stable PROVE
        /\ ~answer.fault /\ (\E b \in rows : agentOf[b] = answer.existing)
             => answer.agent = answer.existing
        /\ (answer.fault \/ \A b \in rows : agentOf[b] # answer.existing) =>
             \E b \in rows : /\ answer.agent = agentOf[b]
                            /\ \A o \in rows \ {b} : priority[o] < priority[b]
    BY DEF RightAgent, SessionKeepsAgent, HighestScopeWins
  <2>1. answer.used \subseteq Binding /\ rows \subseteq Binding
    BY DEF IInv, TypeOK, Answer
  <2>2. \A b \in Binding : ~(changed[b] < TTL + Latency)
    BY DEF Stable, Horizon
  <2>3. \A b \in Binding : b \in answer.used <=> b \in rows
    BY <2>2 DEF IInv, StaleForBoundedTime, FreshWithinTTL
  <2>4. answer.used = rows
    BY <2>1, <2>3
  <2> QED
    BY <2>4 DEF IInv, AnswerInv, Chosen
<1> QED
  BY <1>1, Invariance, PTL

-----------------------------------------------------------------------------
(***************************************************************************)
(* The messages of one user at the dispatcher.                             *)
(***************************************************************************)
USE LimitAssumption, RetryAssumption, BucketAssumption

(* The inductive invariant. *)

(* A bucket that renews in "left" began that much less than a window ago:   *)
(* the messages it counts passed since, the others before.  Of those the    *)
(* ones of the bucket before it are no more than the limit, and all others  *)
(* had left the window when this one began.                                 *)
RateInv ==
  /\ bucket = NoBucket => \A i \in Latest : i > Limit => recent[i] = Window
  /\ bucket # NoBucket => \A i \in Latest :
       /\ i <= bucket.count => recent[i] <= Window - bucket.left
       /\ i > bucket.count => recent[i] >= Window - bucket.left \/ recent[i] = Window
       /\ i > bucket.count + Limit => recent[i] = Window

(* An attempt and the delay after it.                                       *)
Round == Timeout + RetryDelay

(* The time of a dispatch: the rounds before this one, and this one so far. *)
TimeInv == \A c \in Slot :
  /\ phase[c] = "idle" => attempt[c] = 0 /\ age[c] = 0 /\ total[c] = 0
  /\ phase[c] = "run" => /\ attempt[c] \in 1..MaxAttempts
                         /\ age[c] <= Timeout
                         /\ total[c] <= (attempt[c] - 1) * Round + age[c]
  /\ phase[c] = "sleep" => /\ attempt[c] \in 1..(MaxAttempts - 1)
                           /\ age[c] <= RetryDelay
                           /\ total[c] <= (attempt[c] - 1) * Round + Timeout + age[c]

DispatchIInv == /\ DispatchTypeOK /\ RateInv /\ RefusalJustified
                /\ TimeInv /\ LateRunOnlyAfterTimeout

-----------------------------------------------------------------------------
(* Lemmas on the operators. *)

(* However many attempts a dispatch is at, it is within the longest time.   *)
LEMMA RoundsFit ==
  ASSUME NEW a \in 1..MaxAttempts
  PROVE  /\ (a - 1) * Round + Timeout <= Longest
         /\ a < MaxAttempts => a * Round <= (MaxAttempts - 1) * Round
         /\ (MaxAttempts - 1) * Round + Timeout = Longest
<1> DEFINE d == MaxAttempts - a
<1>1. d \in Nat /\ a = MaxAttempts - d /\ Round \in Nat
  BY DEF Round
<1>2. d * Round \in Nat
  BY <1>1
<1>3. (a - 1) * Round = (MaxAttempts - 1) * Round - d * Round
  BY <1>1, <1>2
<1>4. (MaxAttempts - 1) * Round + Timeout = Longest
  BY DEF Round, Longest
<1> QED
  BY <1>1, <1>2, <1>3, <1>4

(* One message more that passed.                                            *)
LEMMA PassKeeps ==
  ASSUME DispatchTypeOK, RateInv, Pass
  PROVE  /\ bucket' \in Bucket /\ recent' \in [Latest -> 0..Window]
         /\ verdict' = "passed" /\ RateInv'
<1>t. /\ Limit \in Nat \ {0} /\ Window \in Nat \ {0}
      /\ bucket \in Bucket \cup {NoBucket} /\ NoBucket \notin Bucket
      /\ recent \in [Latest -> 0..Window] /\ verdict' = "passed"
      /\ recent' = [i \in Latest |-> IF i = 1 THEN 0 ELSE recent[i - 1]]
  BY DEF DispatchTypeOK, Pass
<1>i. ASSUME NEW i \in Latest
      PROVE  /\ i \in Nat /\ i >= 1 /\ recent[i] \in 0..Window
             /\ i = 1 => recent'[i] = 0
             /\ i > 1 => i - 1 \in Latest /\ recent'[i] = recent[i - 1]
  <2>1. i \in Nat /\ i >= 1 /\ (i > 1 => i - 1 \in Latest)
    BY <1>t DEF Latest
  <2> QED
    BY <1>t, <2>1
<1>1. recent' \in [Latest -> 0..Window]
  <2>1. ASSUME NEW i \in Latest
        PROVE  (IF i = 1 THEN 0 ELSE recent[i - 1]) \in 0..Window
    BY <1>i, <1>t
  <2> QED
    BY <1>t, <2>1
<1>2. CASE (bucket = NoBucket \/ Over) /\ bucket' = Fresh
  <2>1. bucket' \in Bucket /\ bucket' # NoBucket /\ bucket'.count = 1 /\ bucket'.left = Window
    BY <1>2, <1>t DEF Fresh, Bucket
  <2>2. \A i \in Latest : i > Limit => recent[i] = Window
    <3>1. CASE bucket = NoBucket
      BY <3>1 DEF RateInv
    <3>2. CASE Over
      <4>1. /\ bucket # NoBucket /\ bucket.left \in Int /\ bucket.left <= 0
            /\ bucket.count \in Nat /\ bucket.count <= Limit
        BY <1>t, <3>2 DEF Over, Bucket
      <4>2. SUFFICES ASSUME NEW i \in Latest, i > Limit PROVE recent[i] = Window
        OBVIOUS
      <4>3. recent[i] \in 0..Window /\ i \in Nat /\ i > bucket.count
        BY <1>t, <1>i, <4>1, <4>2
      <4>4. recent[i] >= Window - bucket.left \/ recent[i] = Window
        BY <4>1, <4>3 DEF RateInv
      <4> QED
        BY <1>t, <4>1, <4>3, <4>4
    <3> QED
      BY <1>2, <3>1, <3>2
  <2>3. ASSUME NEW i \in Latest
        PROVE  /\ i <= 1 => recent'[i] <= Window - Window
               /\ i > 1 => recent'[i] >= Window - Window \/ recent'[i] = Window
               /\ i > 1 + Limit => recent'[i] = Window
    <3>1. CASE i = 1
      BY <1>i, <1>t, <3>1
    <3>2. CASE i > 1
      <4>1. i - 1 \in Latest /\ i \in Nat /\ recent'[i] = recent[i - 1]
        BY <1>i, <3>2
      <4>2. recent[i - 1] \in 0..Window
        BY <1>i, <4>1
      <4>3. i > 1 + Limit => i - 1 > Limit
        BY <1>t, <4>1
      <4>4. i - 1 > Limit => recent[i - 1] = Window
        BY <2>2, <4>1
      <4> QED
        BY <1>t, <3>2, <4>1, <4>2, <4>3, <4>4
    <3> QED
      BY <1>i, <3>1, <3>2
  <2> QED
    BY <1>t, <1>1, <2>1, <2>3 DEF RateInv
<1>3. CASE /\ bucket # NoBucket /\ ~Over
           /\ bucket.count < Limit
           /\ bucket' = [bucket EXCEPT !.count = @ + 1]
  <2>1. /\ bucket' \in Bucket /\ bucket' # NoBucket
        /\ bucket'.count = bucket.count + 1 /\ bucket'.left = bucket.left
        /\ bucket.count \in Nat /\ bucket.left \in 1..Window
    BY <1>3, <1>t DEF Over, Bucket
  <2>2. ASSUME NEW i \in Latest
        PROVE  /\ i <= bucket.count + 1 => recent'[i] <= Window - bucket.left
               /\ i > bucket.count + 1 =>
                    recent'[i] >= Window - bucket.left \/ recent'[i] = Window
               /\ i > bucket.count + 1 + Limit => recent'[i] = Window
    <3>1. CASE i = 1
      BY <1>i, <1>t, <2>1, <3>1
    <3>2. CASE i > 1
      <4> DEFINE j == i - 1
      <4>1. j \in Latest /\ recent'[i] = recent[j] /\ i \in Nat
        BY <1>i, <3>2
      <4>2. /\ j <= bucket.count => recent[j] <= Window - bucket.left
            /\ j > bucket.count => recent[j] >= Window - bucket.left \/ recent[j] = Window
            /\ j > bucket.count + Limit => recent[j] = Window
        BY <1>3, <4>1 DEF RateInv
      <4>3. i = j + 1 /\ j \in Nat
        BY <1>i, <4>1
      <4> HIDE DEF j
      <4>4. /\ i <= bucket.count + 1 => j <= bucket.count
            /\ i > bucket.count + 1 => j > bucket.count
            /\ i > bucket.count + 1 + Limit => j > bucket.count + Limit
        BY <1>t, <2>1, <4>3
      <4> QED
        BY <4>1, <4>2, <4>4
    <3> QED
      BY <1>i, <3>1, <3>2
  <2> QED
    BY <1>t, <1>1, <2>1, <2>2 DEF RateInv
<1> QED
  BY <1>t, <1>1, <1>2, <1>3 DEF Pass

-----------------------------------------------------------------------------
(* Every step keeps the invariant. *)

LEMMA DispatchInitInv == DispatchInit => DispatchIInv
  BY DEF DispatchInit, DispatchIInv, DispatchTypeOK, RateInv, RefusalJustified, TimeInv,
     LateRunOnlyAfterTimeout,
         Latest, Result, Bucket

(* A step of one message that leaves the bucket alone.                      *)
LEMMA RateKeeps ==
  ASSUME DispatchTypeOK, RateInv, UNCHANGED <<bucket, recent>>, verdict' = "none"
  PROVE  RateInv' /\ RefusalJustified'
  BY DEF RateInv, RefusalJustified

(* The answer of a message that none of its runs outlives but one that      *)
(* timed out.                                                               *)
LEMMA AnswerKeeps ==
  ASSUME DispatchIInv, NEW c \in Slot, NEW r \in Result, Settle(c, r),
         UNCHANGED <<bucket, recent>>, verdict' = "none",
         loose' \in [Slot -> Nat], \A d \in Slot : d # c => loose'[d] = loose[d],
         loose'[c] > 0 => r = "timeout"
  PROVE  DispatchIInv'
<1> USE DEF DispatchIInv, Settle
<1>1. DispatchTypeOK'
  <2>1. phase' \in [Slot -> {"idle", "run", "sleep"}] /\ result' \in [Slot -> Result]
    BY DEF DispatchTypeOK
  <2>2. /\ attempt' \in [Slot -> 0..MaxAttempts]
        /\ age' \in [Slot -> Nat] /\ total' \in [Slot -> Nat]
    BY DEF DispatchTypeOK
  <2> QED
    BY <2>1, <2>2 DEF DispatchTypeOK
<1>2. TimeInv'
  BY DEF DispatchTypeOK, TimeInv
<1>3. LateRunOnlyAfterTimeout'
  BY DEF DispatchTypeOK, LateRunOnlyAfterTimeout
<1> QED
  BY <1>1, <1>2, <1>3, RateKeeps

(* A failed attempt, and the delay before the next.                         *)
LEMMA SleepKeeps ==
  ASSUME DispatchIInv, NEW c \in Slot, phase[c] = "run", attempt[c] < MaxAttempts, Sleep(c),
         UNCHANGED <<bucket, recent, loose>>, verdict' = "none"
  PROVE  DispatchIInv'
<1> USE DEF DispatchIInv, Sleep
<1>1. DispatchTypeOK'
  BY DEF DispatchTypeOK
<1>2. /\ attempt[c] \in 1..(MaxAttempts - 1) /\ age[c] <= Timeout /\ age[c] \in Nat
      /\ total[c] <= (attempt[c] - 1) * Round + age[c] /\ total[c] \in Nat
  BY DEF TimeInv, DispatchTypeOK
<1>3. (attempt[c] - 1) * Round \in Nat
  <2>1. attempt[c] - 1 \in Nat /\ Round \in Nat
    BY <1>2 DEF Round
  <2> QED
    BY <2>1
<1>4. total[c] <= (attempt[c] - 1) * Round + Timeout + 0
  BY <1>2, <1>3
<1>5. TimeInv'
  BY <1>2, <1>4 DEF TimeInv, DispatchTypeOK
<1>6. LateRunOnlyAfterTimeout'
  BY DEF DispatchTypeOK, LateRunOnlyAfterTimeout
<1> QED
  BY <1>1, <1>5, <1>6, RateKeeps

LEMMA DispatchStepInv == DispatchIInv /\ [DispatchNext]_dispatchVars => DispatchIInv'
<1> SUFFICES ASSUME DispatchIInv, [DispatchNext]_dispatchVars PROVE DispatchIInv'
  OBVIOUS
<1>a. DispatchTypeOK /\ RateInv /\ RefusalJustified /\ TimeInv /\ LateRunOnlyAfterTimeout
  BY DEF DispatchIInv
<1>r. Round \in Nat /\ Round = Timeout + RetryDelay
  BY DEF Round
<1>1. ASSUME NEW c \in Slot, Dispatch(c) PROVE DispatchIInv'
  <2> USE <1>1, <1>a DEF Dispatch
  <2>1. CASE /\ Refuse
             /\ result' = [result EXCEPT ![c] = "rate_limited"]
             /\ UNCHANGED <<phase, attempt, age, total, loose>>
    <3> USE <2>1 DEF Refuse
    <3>1. DispatchTypeOK'
      BY DEF DispatchTypeOK, Result
    <3>2. RateInv' /\ TimeInv'
      BY DEF RateInv, TimeInv
    <3>3. RefusalJustified'
      <4>1. /\ bucket \in Bucket /\ bucket.left >= 1 /\ bucket.count >= Limit
            /\ bucket.left \in Int /\ Limit \in Latest
        BY DEF DispatchTypeOK, Over, Bucket, Latest
      <4>2. recent[Limit] <= Window - bucket.left /\ recent[Limit] \in 0..Window
        BY <4>1 DEF RateInv, DispatchTypeOK, Bucket
      <4> QED
        BY <4>1, <4>2 DEF RefusalJustified
    <3>4. LateRunOnlyAfterTimeout'
      BY DEF LateRunOnlyAfterTimeout, DispatchTypeOK
    <3> QED
      BY <3>1, <3>2, <3>3, <3>4 DEF DispatchIInv
  <2>2. CASE /\ Pass
             /\ phase' = [phase EXCEPT ![c] = "run"]
             /\ attempt' = [attempt EXCEPT ![c] = 1]
             /\ result' = [result EXCEPT ![c] = "none"]
             /\ UNCHANGED <<age, total, loose>>
    <3> USE <2>2
    <3>1. DispatchTypeOK'
      BY PassKeeps DEF DispatchTypeOK, Result
    <3>2. TimeInv'
      <4>1. (1 - 1) * Round = 0
        BY <1>r
      <4> QED
        BY <4>1, <1>r DEF TimeInv, DispatchTypeOK
    <3>3. LateRunOnlyAfterTimeout'
      BY DEF LateRunOnlyAfterTimeout, DispatchTypeOK
    <3> QED
      BY <3>1, <3>2, <3>3, PassKeeps DEF DispatchIInv, RefusalJustified
  <2> QED
    BY <2>1, <2>2
<1>2. ASSUME NEW c \in Slot, Reply(c) PROVE DispatchIInv'
  <2>1. /\ Settle(c, "ok") /\ "ok" \in Result /\ phase[c] = "run"
        /\ verdict' = "none" /\ UNCHANGED <<bucket, recent, loose>>
    BY <1>2 DEF Reply, Result
  <2>2. loose' \in [Slot -> Nat] /\ ~(loose'[c] > 0)
    BY <1>a, <2>1 DEF DispatchTypeOK, LateRunOnlyAfterTimeout
  <2> QED
    BY <2>1, <2>2, AnswerKeeps
<1>3. ASSUME NEW c \in Slot, RunFails(c) PROVE DispatchIInv'
  <2>1. PICK e \in Error : ~e.timeout /\ Catch(c, e)
    BY <1>3 DEF RunFails
  <2>2. phase[c] = "run" /\ verdict' = "none" /\ UNCHANGED <<bucket, recent, loose>>
    BY <1>3 DEF RunFails
  <2>3. Kind(e) \in Result /\ attempt[c] \in 0..MaxAttempts
        /\ loose' \in [Slot -> Nat] /\ ~(loose'[c] > 0)
    BY <1>a, <2>2 DEF Kind, Result, Retryable, DispatchTypeOK, LateRunOnlyAfterTimeout
  <2> QED
    BY <2>1, <2>2, <2>3, AnswerKeeps, SleepKeeps DEF Catch
<1>4. ASSUME NEW c \in Slot, TimeOut(c) PROVE DispatchIInv'
  <2>1. Settle(c, "timeout")
    BY <1>4 DEF TimeOut, Catch, Kind, Retryable
  <2>2. loose' \in [Slot -> Nat] /\ \A d \in Slot : d # c => loose'[d] = loose[d]
    BY <1>4, <1>a DEF TimeOut, DispatchTypeOK
  <2>3. "timeout" \in Result /\ verdict' = "none" /\ UNCHANGED <<bucket, recent>>
    BY <1>4 DEF TimeOut, Result
  <2> QED
    BY <2>1, <2>2, <2>3, AnswerKeeps
<1>5. ASSUME NEW c \in Slot, Retry(c) PROVE DispatchIInv'
  <2> USE <1>5, <1>a DEF Retry
  <2>1. /\ attempt[c] \in 1..(MaxAttempts - 1) /\ total[c] \in Nat
        /\ total[c] <= (attempt[c] - 1) * Round + Timeout + RetryDelay
    BY DEF TimeInv, DispatchTypeOK
  <2>2. total[c] <= (attempt[c] + 1 - 1) * Round + 0
    <3>1. (attempt[c] + 1 - 1) * Round = (attempt[c] - 1) * Round + Round
      BY <2>1, <1>r
    <3>2. attempt[c] - 1 \in Nat
      BY <2>1
    <3>3. (attempt[c] - 1) * Round \in Nat
      BY <3>2, <1>r
    <3> QED
      BY <2>1, <3>1, <3>3, <1>r
  <2>3. DispatchTypeOK'
    BY <2>1 DEF DispatchTypeOK
  <2>4. TimeInv'
    BY <2>1, <2>2 DEF TimeInv, DispatchTypeOK
  <2>5. LateRunOnlyAfterTimeout'
    BY DEF LateRunOnlyAfterTimeout, DispatchTypeOK
  <2> QED
    BY <2>3, <2>4, <2>5, RateKeeps DEF DispatchIInv
<1>6. ASSUME NEW c \in Slot, RunEndsLate(c) PROVE DispatchIInv'
  <2> USE <1>6, <1>a DEF RunEndsLate
  <2>1. DispatchTypeOK'
    BY DEF DispatchTypeOK
  <2>2. TimeInv' /\ LateRunOnlyAfterTimeout'
    BY DEF TimeInv, LateRunOnlyAfterTimeout, DispatchTypeOK
  <2> QED
    BY <2>1, <2>2, RateKeeps DEF DispatchIInv
<1>7. ASSUME CleanUp PROVE DispatchIInv'
  <2> USE <1>7, <1>a DEF CleanUp
  <2>1. DispatchTypeOK'
    BY DEF DispatchTypeOK, slots
  <2>2. RateInv'
    <3>1. bucket \in Bucket /\ bucket.left = -1 /\ bucket.count \in 1..Limit
      BY DEF DispatchTypeOK, Bucket
    <3>2. \A i \in Latest : i > Limit => recent[i] = Window
      <4> SUFFICES ASSUME NEW i \in Latest, i > Limit PROVE recent[i] = Window
        OBVIOUS
      <4>1. recent[i] \in 0..Window /\ i \in Nat
        BY DEF DispatchTypeOK, Latest
      <4>2. i > bucket.count
        BY <3>1, <4>1
      <4>3. recent[i] >= Window - bucket.left \/ recent[i] = Window
        BY <4>2 DEF RateInv
      <4> QED
        BY <3>1, <4>1, <4>3
    <3> QED
      BY <3>2 DEF RateInv
  <2>3. RefusalJustified' /\ TimeInv' /\ LateRunOnlyAfterTimeout'
    BY DEF RefusalJustified, TimeInv, LateRunOnlyAfterTimeout, slots
  <2> QED
    BY <2>1, <2>2, <2>3 DEF DispatchIInv
<1>8. ASSUME TimePasses PROVE DispatchIInv'
  <2> USE <1>8, <1>a DEF TimePasses
  <2>1. /\ age' \in [Slot -> Nat] /\ total' \in [Slot -> Nat]
        /\ recent' \in [Latest -> 0..Window] /\ bucket' \in Bucket \cup {NoBucket}
        /\ bucket' = NoBucket <=> bucket = NoBucket
    <3>1. age' \in [Slot -> Nat] /\ total' \in [Slot -> Nat]
      BY DEF DispatchTypeOK
    <3>2. recent' \in [Latest -> 0..Window]
      BY DEF DispatchTypeOK
    <3>3. CASE bucket = NoBucket
      BY <3>1, <3>2, <3>3
    <3>4. CASE bucket # NoBucket
      BY <3>1, <3>2, <3>4 DEF DispatchTypeOK, Bucket
    <3> QED
      BY <3>3, <3>4
  <2>2. DispatchTypeOK'
    BY <2>1 DEF DispatchTypeOK
  <2>3. RateInv'
    <3>1. \A i \in Latest : /\ recent[i] \in 0..Window
                            /\ recent'[i] = IF recent[i] < Window THEN recent[i] + 1 ELSE Window
      BY DEF DispatchTypeOK
    <3>2. CASE bucket = NoBucket
      BY <2>1, <3>1, <3>2 DEF RateInv
    <3>3. CASE bucket # NoBucket
      <4>1. /\ bucket' # NoBucket /\ bucket'.count = bucket.count
            /\ bucket.left \in -1..Window /\ bucket.count \in Nat
            /\ bucket'.left = IF bucket.left < 0 THEN bucket.left ELSE bucket.left - 1
        BY <2>1, <3>3 DEF DispatchTypeOK, Bucket
      <4>2. ASSUME NEW i \in Latest
            PROVE /\ i <= bucket.count => recent'[i] <= Window - bucket'.left
                  /\ i > bucket.count =>
                       recent'[i] >= Window - bucket'.left \/ recent'[i] = Window
                  /\ i > bucket.count + Limit => recent'[i] = Window
        <5>1. /\ i <= bucket.count => recent[i] <= Window - bucket.left
              /\ i > bucket.count => recent[i] >= Window - bucket.left \/ recent[i] = Window
              /\ i > bucket.count + Limit => recent[i] = Window
          BY <3>3 DEF RateInv
        <5> QED
          BY <3>1, <4>1, <5>1
      <4> QED
        BY <4>1, <4>2 DEF RateInv
    <3> QED
      BY <3>2, <3>3
  <2>4. TimeInv'
    <3> SUFFICES ASSUME NEW c \in Slot
                 PROVE /\ phase'[c] = "idle" => attempt'[c] = 0 /\ age'[c] = 0 /\ total'[c] = 0
                       /\ phase'[c] = "run" =>
                               /\ attempt'[c] \in 1..MaxAttempts
                               /\ age'[c] <= Timeout
                               /\ total'[c] <= (attempt'[c] - 1) * Round + age'[c]
                       /\ phase'[c] = "sleep" =>
                               /\ attempt'[c] \in 1..(MaxAttempts - 1)
                               /\ age'[c] <= RetryDelay
                               /\ total'[c] <= (attempt'[c] - 1) * Round + Timeout + age'[c]
      BY DEF TimeInv
    <3>1. phase'[c] = phase[c] /\ attempt'[c] = attempt[c]
      OBVIOUS
    <3>2. CASE phase[c] = "idle"
      BY <3>1, <3>2 DEF TimeInv, Active
    <3>3. CASE phase[c] # "idle"
      <4>1. /\ age'[c] = age[c] + 1 /\ total'[c] = total[c] + 1 /\ Waits(c)
            /\ age[c] \in Nat /\ total[c] \in Nat
        BY <3>3 DEF Active, DispatchTypeOK
      <4>2. attempt[c] \in Nat /\ attempt[c] >= 1
        BY <3>3 DEF TimeInv, DispatchTypeOK
      <4>3. attempt[c] - 1 \in Nat
        BY <4>2
      <4>4. (attempt[c] - 1) * Round \in Nat
        BY <4>3, <1>r
      <4> QED
        BY <3>1, <3>3, <4>1, <4>2, <4>4 DEF TimeInv, Waits
    <3> QED
      BY <3>2, <3>3 DEF DispatchTypeOK
  <2>5. RefusalJustified' /\ LateRunOnlyAfterTimeout'
    BY DEF RefusalJustified, LateRunOnlyAfterTimeout
  <2> QED
    BY <2>2, <2>3, <2>4, <2>5 DEF DispatchIInv
<1>9. ASSUME UNCHANGED dispatchVars PROVE DispatchIInv'
  BY <1>9, <1>a DEF dispatchVars, slots, DispatchIInv, DispatchTypeOK, RateInv,
     RefusalJustified, TimeInv,
                    LateRunOnlyAfterTimeout
<1> QED
  BY <1>1, <1>2, <1>3, <1>4, <1>5, <1>6, <1>7, <1>8, <1>9 DEF DispatchNext

LEMMA DispatchInvariance == DispatchSpec => []DispatchIInv
  BY DispatchInitInv, DispatchStepInv, PTL DEF DispatchSpec

-----------------------------------------------------------------------------
(* The rate limit lets no more than twice its number pass in any window, and *)
(* refuses only when its number has passed in the last one.                  *)
THEOREM RateIsKept == DispatchSpec => []RateKept
<1>1. DispatchIInv => RateKept
  <2> SUFFICES ASSUME DispatchIInv PROVE recent[2 * Limit + 1] = Window
    BY DEF DispatchIInv, RateKept, RateBounded
  <2>1. 2 * Limit + 1 \in Latest
    BY DEF Latest
  <2>2. bucket # NoBucket => bucket.count \in 1..Limit
    BY DEF DispatchIInv, DispatchTypeOK, Bucket
  <2> QED
    BY <2>1, <2>2 DEF DispatchIInv, RateInv, Latest
<1> QED
  BY <1>1, DispatchInvariance, PTL

(* No run of a message outlives its dispatch, nor meets another attempt, but *)
(* one that timed out, and every answer comes within the timeouts and delays *)
(* of the attempts that are allowed.                                         *)
THEOREM AnswersComeOnTime == DispatchSpec => []AnswersOnTime
<1>1. DispatchIInv => AnswersOnTime
  <2> SUFFICES ASSUME DispatchIInv, NEW c \in Slot PROVE total[c] <= Longest
    BY DEF DispatchIInv, AnswersOnTime, AnswerInTime
  <2>a. phase[c] \in {"idle", "run", "sleep"} /\ total[c] \in Nat /\ age[c] \in Nat
    BY DEF DispatchIInv, DispatchTypeOK
  <2>1. CASE phase[c] = "idle"
    <3>1. MaxAttempts - 1 \in Nat /\ Round \in Nat
      BY DEF Round
    <3>2. (MaxAttempts - 1) * Round \in Nat
      BY <3>1
    <3> QED
      BY <2>1, <3>2, RoundsFit DEF DispatchIInv, TimeInv
  <2>2. CASE phase[c] = "run"
    <3>1. /\ attempt[c] \in 1..MaxAttempts /\ age[c] <= Timeout
          /\ total[c] <= (attempt[c] - 1) * Round + age[c]
      BY <2>2 DEF DispatchIInv, TimeInv
    <3>2. (attempt[c] - 1) * Round \in Int /\ Longest \in Int
      BY <3>1 DEF Round, Longest
    <3> QED
      BY <2>a, <3>1, <3>2, RoundsFit
  <2>3. CASE phase[c] = "sleep"
    <3>1. /\ attempt[c] \in 1..(MaxAttempts - 1) /\ age[c] <= RetryDelay
          /\ total[c] <= (attempt[c] - 1) * Round + Timeout + age[c]
      BY <2>3 DEF DispatchIInv, TimeInv
    <3>2. (attempt[c] - 1) * Round + Round = attempt[c] * Round
          /\ attempt[c] * Round \in Int /\ (MaxAttempts - 1) * Round \in Int
      BY <3>1 DEF Round
    <3>3. attempt[c] * Round <= (MaxAttempts - 1) * Round
          /\ (MaxAttempts - 1) * Round + Timeout = Longest
      BY <3>1, RoundsFit
    <3> QED
      BY <2>a, <3>1, <3>2, <3>3 DEF Round
  <2> QED
    BY <2>a, <2>1, <2>2, <2>3
<1> QED
  BY <1>1, DispatchInvariance, PTL
=============================================================================
