----------------------------- MODULE AgentResolver -----------------------------
(***************************************************************************)
(* AgentResolverService (apps/gateway/src/agent-resolver.service.ts)       *)
(* chooses the agent for a message of one channel: the agent of the        *)
(* session while it has a binding, else the binding of the highest scope.  *)
(* The bindings are cached for a while; the calls load them over several   *)
(* awaits, while bindings come and go and the channel is switched on and   *)
(* off.  Times are kept as ages, cut off where they no longer matter.      *)
(***************************************************************************)
EXTENDS Integers, FiniteSets

CONSTANTS Op,        \* slots for calls of resolve under way
          Binding,   \* the bindings the channel may have
          Agent,
          agentOf,   \* the agent of each binding
          priority,  \* SCOPE_PRIORITY of its scope, 0 for a scope it lacks
          None,
          TTL,       \* CACHE_TTL_MS
          Latency,   \* bound: how long a query takes to be answered
          MaxFaults, \* bound: queries that fail
          MaxWrites  \* bound: writes of the API

ASSUME BindingAssumption == /\ IsFiniteSet(Binding)
                            /\ agentOf \in [Binding -> Agent]
                            /\ priority \in [Binding -> 0..4]
ASSUME NoneAssumption == None \notin Agent \cup Binding
ASSUME BoundsAssumption == TTL \in Nat \ {0} /\ Latency \in Nat
                           /\ MaxFaults \in Nat /\ MaxWrites \in Nat

(* How old an answer may be: that the channel is active is asked one       *)
(* query before the bindings are read, which take another to arrive.       *)
Horizon == TTL + 2 * Latency

VARIABLES rows,      \* the bindings of the channel
          active,    \* ChannelConfig.isActive
          cache,     \* bindingsCache: nothing, or the bindings and their age
          pc,        \* where each call is
          sticky,    \* existingAgentId, None once it is resolved anew
          read,      \* the bindings it read
          waited,    \* how long its query has been under way
          failed,    \* history: its first load failed
          existing,  \* history: the agent it was called with
          answer,    \* what a call returned in the last step, if one did
          faults,
          writes,
          changed,   \* history: how long ago each binding came or went
          switched   \* history: how long ago active was written

call == <<pc, sticky, read, waited, failed, existing>>
channel == <<rows, active, writes, changed, switched>>
vars == <<call, channel, cache, answer, faults>>

Age == 0..Horizon
Entry == [bindings : SUBSET Binding, age : 0..TTL]
Answer == [agent : Agent, used : SUBSET Binding, existing : Agent \cup {None},
           fault : BOOLEAN]

TypeOK == /\ rows \subseteq Binding
          /\ active \in BOOLEAN
          /\ cache \in Entry \cup {None}
          /\ pc \in [Op -> {"idle", "config", "query", "keep"}]
          /\ sticky \in [Op -> Agent \cup {None}]
          /\ read \in [Op -> SUBSET Binding]
          /\ waited \in [Op -> 0..Latency]
          /\ failed \in [Op -> BOOLEAN]
          /\ existing \in [Op -> Agent \cup {None}]
          /\ answer \in Answer \cup {None}
          /\ faults \in 0..MaxFaults
          /\ writes \in 0..MaxWrites
          /\ changed \in [Binding -> Age]
          /\ switched \in Age

Init == /\ rows \in SUBSET Binding
        /\ active = TRUE
        /\ cache = None
        /\ pc = [c \in Op |-> "idle"]
        /\ sticky = [c \in Op |-> None]
        /\ read = [c \in Op |-> {}]
        /\ waited = [c \in Op |-> 0]
        /\ failed = [c \in Op |-> FALSE]
        /\ existing = [c \in Op |-> None]
        /\ answer = None
        /\ faults = 0
        /\ writes = 0
        /\ changed = [b \in Binding |-> Horizon]
        /\ switched = Horizon

-----------------------------------------------------------------------------
(* Several bindings: the one of the highest priority, if there is one.     *)
Top(bs) == {b \in bs : \A o \in bs : priority[o] <= priority[b]}
Of(a, bs) == {b \in bs : agentOf[b] = a}

Return(b, bs, e, fault) ==
  answer' = [agent |-> agentOf[b], used |-> bs, existing |-> e, fault |-> fault]

(* Seeded fault: the agent of the session is not looked for.               *)
ChooseAnew(bs, a, e, fault) ==
  \/ Cardinality(Top(bs)) = 1 /\ \E b \in Top(bs) : Return(b, bs, e, fault)
  \/ Cardinality(Top(bs)) # 1 /\ answer' = None

(* The bindings are there: one of the agent that is looked for, if any,    *)
(* else, from the cache by now, the highest; or the call throws.           *)
Choose(bs, a, e, fault) ==
  \/ \E b \in Of(a, bs) : Return(b, bs, e, fault)
  \/ /\ Of(a, bs) = {}
     /\ Cardinality(Top(bs)) = 1
     /\ \E b \in Top(bs) : Return(b, bs, e, fault)
  \/ /\ Of(a, bs) = {}
     /\ Cardinality(Top(bs)) # 1
     /\ answer' = None

Valid == cache # None /\ cache.age < TTL

Done(c) == /\ pc' = [pc EXCEPT ![c] = "idle"]
           /\ sticky' = [sticky EXCEPT ![c] = None]
           /\ read' = [read EXCEPT ![c] = {}]
           /\ waited' = [waited EXCEPT ![c] = 0]
           /\ failed' = [failed EXCEPT ![c] = FALSE]
           /\ existing' = [existing EXCEPT ![c] = None]

-----------------------------------------------------------------------------
(* Seeded fault: the cache is as good as new each time it is used.         *)
ResolveRenewing(c) ==
  /\ pc[c] = "idle"
  /\ \E e \in Agent \cup {None} :
       \/ /\ Valid
          /\ Choose(cache.bindings, e, e, FALSE)
          /\ cache' = [cache EXCEPT !.age = 0]
          /\ UNCHANGED call
       \/ /\ ~Valid
          /\ pc' = [pc EXCEPT ![c] = "config"]
          /\ sticky' = [sticky EXCEPT ![c] = e]
          /\ existing' = [existing EXCEPT ![c] = e]
          /\ answer' = None
          /\ UNCHANGED <<read, waited, failed, cache>>
  /\ UNCHANGED <<channel, faults>>

(* resolve, with the agent of the session that was found, if any.          *)
(* loadBindings: from the cache, unless it is too old.                     *)
Resolve(c) ==
  /\ pc[c] = "idle"
  /\ \E e \in Agent \cup {None} :
       \/ Valid /\ Choose(cache.bindings, e, e, FALSE) /\ UNCHANGED call
       \/ /\ ~Valid
          /\ pc' = [pc EXCEPT ![c] = "config"]
          /\ sticky' = [sticky EXCEPT ![c] = e]
          /\ existing' = [existing EXCEPT ![c] = e]
          /\ answer' = None
          /\ UNCHANGED <<read, waited, failed>>
  /\ UNCHANGED <<channel, cache, faults>>

(* Seeded fault: the agent of the session is looked for, for ever.         *)
LoadFailsForEver(c) == /\ sticky[c] # None
                       /\ pc' = [pc EXCEPT ![c] = "config"]
                       /\ waited' = [waited EXCEPT ![c] = 0]
                       /\ answer' = None
                       /\ UNCHANGED <<sticky, read, failed, existing>>

(* A load fails.  While the agent of the session is looked for that counts *)
(* as no binding, and the bindings are loaded once more.                   *)
LoadFails(c) ==
  \/ sticky[c] = None /\ Done(c) /\ answer' = None
  \/ /\ sticky[c] # None
     /\ Valid
     /\ Choose(cache.bindings, None, existing[c], TRUE)
     /\ Done(c)
  \/ /\ sticky[c] # None
     /\ ~Valid
     /\ pc' = [pc EXCEPT ![c] = "config"]
     /\ sticky' = [sticky EXCEPT ![c] = None]
     /\ waited' = [waited EXCEPT ![c] = 0]
     /\ failed' = [failed EXCEPT ![c] = TRUE]
     /\ answer' = None
     /\ UNCHANGED <<read, existing>>

(* Is the channel active?                                                  *)
CheckConfig(c) == /\ pc[c] = "config"
                  /\ active
                  /\ pc' = [pc EXCEPT ![c] = "query"]
                  /\ waited' = [waited EXCEPT ![c] = 0]
                  /\ answer' = None
                  /\ UNCHANGED <<channel, cache, sticky, read, failed, existing,
                                 faults>>

Inactive(c) == /\ pc[c] = "config"
               /\ ~active
               /\ LoadFails(c)
               /\ UNCHANGED <<channel, cache, faults>>

(* The database reads the bindings ...                                     *)
Query(c) == /\ pc[c] = "query"
            /\ pc' = [pc EXCEPT ![c] = "keep"]
            /\ read' = [read EXCEPT ![c] = rows]
            /\ waited' = [waited EXCEPT ![c] = 0]
            /\ answer' = None
            /\ UNCHANGED <<channel, cache, sticky, failed, existing, faults>>

QueryFails(c) == /\ pc[c] \in {"config", "query"}
                 /\ faults < MaxFaults
                 /\ faults' = faults + 1
                 /\ LoadFails(c)
                 /\ UNCHANGED <<channel, cache>>

(* ... and when they arrive they are cached, as if read now.               *)
Keep(c) == /\ pc[c] = "keep"
           /\ cache' = [bindings |-> read[c], age |-> 0]
           /\ Choose(read[c], sticky[c], existing[c], failed[c])
           /\ Done(c)
           /\ UNCHANGED <<channel, faults>>

InvalidateCache == /\ cache' = None
                   /\ answer' = None
                   /\ UNCHANGED <<call, channel, faults>>

-----------------------------------------------------------------------------
(* The API writes the rows, in another process, and tells nobody: a        *)
(* binding is created or removed ...                                       *)
Bind(b) == /\ writes < MaxWrites
           /\ b \notin rows
           /\ writes' = writes + 1
           /\ rows' = rows \cup {b}
           /\ changed' = [changed EXCEPT ![b] = 0]
           /\ answer' = None
           /\ UNCHANGED <<call, active, switched, cache, faults>>

Unbind(b) == /\ writes < MaxWrites
             /\ b \in rows
             /\ writes' = writes + 1
             /\ rows' = rows \ {b}
             /\ changed' = [changed EXCEPT ![b] = 0]
             /\ answer' = None
             /\ UNCHANGED <<call, active, switched, cache, faults>>

(* ... or is given another agent, which makes it another one of its scope. *)
Rebind(b, o) == /\ writes < MaxWrites
                /\ b \in rows /\ o \notin rows /\ priority[o] = priority[b]
                /\ writes' = writes + 1
                /\ rows' = (rows \ {b}) \cup {o}
                /\ changed' = [changed EXCEPT ![b] = 0, ![o] = 0]
                /\ answer' = None
                /\ UNCHANGED <<call, active, switched, cache, faults>>

(* The channel is started or stopped.                                      *)
Switch == /\ writes < MaxWrites
          /\ writes' = writes + 1
          /\ active' = ~active
          /\ switched' = 0
          /\ answer' = None
          /\ UNCHANGED <<call, rows, changed, cache, faults>>

Older(age, cap) == IF age < cap THEN age + 1 ELSE age

Loading == {c \in Op : pc[c] \in {"config", "query", "keep"}}

(* Time passes, while no query takes too long.                             *)
Tick ==
  /\ \A c \in Loading : waited[c] < Latency
  /\ waited' = [c \in Op |-> IF c \in Loading THEN waited[c] + 1 ELSE waited[c]]
  /\ cache' = IF cache = None THEN None
              ELSE [cache EXCEPT !.age = Older(@, TTL)]
  /\ changed' = [b \in Binding |-> Older(changed[b], Horizon)]
  /\ switched' = Older(switched, Horizon)
  /\ answer' = None
  /\ UNCHANGED <<rows, active, writes, pc, sticky, read, failed, existing,
                 faults>>

-----------------------------------------------------------------------------
Proceed(c) == \/ CheckConfig(c) \/ Inactive(c)
              \/ Query(c) \/ QueryFails(c) \/ Keep(c)

Next == \/ \E c \in Op : Resolve(c) \/ Proceed(c)
        \/ \E b \in Binding : Bind(b) \/ Unbind(b) \/ \E o \in Binding : Rebind(b, o)
        \/ Switch \/ InvalidateCache \/ Tick

Spec == Init /\ [][Next]_vars

(* A query is answered, or fails.                                          *)
FairSpec == Spec /\ \A c \in Op : WF_vars(Proceed(c))

-----------------------------------------------------------------------------
(* An answer rests on the bindings as they were at most the time of the    *)
(* cache and of one query ago, also when loads overlap and an older one    *)
(* ends last: neither a binding that is gone for longer, nor one that is   *)
(* there for longer and was not seen.                                      *)
FreshWithinTTL ==
  answer # None =>
    \A b \in Binding :
      (b \in answer.used) # (b \in rows) => changed[b] < TTL + Latency

(* A channel that was switched off gets no more answers after the time of  *)
(* the cache and two queries.                                              *)
DeactivatedStops == answer # None /\ ~active => switched < Horizon

(* The cache delays changes of the bindings and of the channel, for a time *)
(* that is bounded.                                                        *)
StaleForBoundedTime == TypeOK /\ FreshWithinTTL /\ DeactivatedStops

Stable == (\A b \in Binding : changed[b] = Horizon) /\ switched = Horizon

(* A conversation keeps its agent while that agent has a binding, unless a *)
(* load that failed was taken for a missing binding.                       *)
SessionKeepsAgent ==
  /\ answer # None /\ Stable
  /\ ~answer.fault
  /\ \E b \in rows : agentOf[b] = answer.existing
  => answer.agent = answer.existing

(* Otherwise, and after a load that failed was taken for a missing binding *)
(* of the agent of the session, the agent is the one whose binding is      *)
(* above all others; where two of the highest scope compete nobody is      *)
(* chosen.                                                                 *)
HighestScopeWins ==
  /\ answer # None /\ Stable
  /\ answer.fault \/ \A b \in rows : agentOf[b] # answer.existing
  => \E b \in rows : /\ answer.agent = agentOf[b]
                     /\ \A o \in rows \ {b} : priority[o] < priority[b]

(* With bindings that nobody changes the agent is the one of the session,  *)
(* or else of the highest scope; a failed load moves a conversation to the *)
(* agent of the highest scope, and to no other.  Nothing is said of        *)
(* isDefault, which the code no longer reads although its tests do.        *)
RightAgent == SessionKeepsAgent /\ HighestScopeWins

(* Every call answers or throws.                                           *)
ResolveEnds == \A c \in Op : pc[c] # "idle" ~> pc[c] = "idle"
=============================================================================
