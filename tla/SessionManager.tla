---------------------------- MODULE SessionManager ----------------------------
(***************************************************************************)
(* The session of one user on one channel: SessionManager (apps/gateway/   *)
(* src/session/session-manager.service.ts) keeps its rows, the session and *)
(* its turns, and a copy in memory, and GatewayService.dispatch (gateway.  *)
(* service.ts) uses it for each incoming message.  Webhooks answer at once *)
(* and dispatch in the background, so messages of one user overlap; each   *)
(* await is a point where another operation may act.                       *)
(***************************************************************************)
EXTENDS Integers, Sequences

CONSTANTS Op,             \* slots for operations under way
          Window,         \* MAX_HISTORY_TURNS
          MaxMessages,    \* bound: incoming messages
          MaxFaults,      \* bound: failed calls
          NoCopy          \* the cache has no entry for the session

ASSUME WindowAssumption == Window \in Nat \ {0}
ASSUME BoundsAssumption == MaxMessages \in Nat /\ MaxFaults \in Nat
ASSUME NoCopyAssumption == NoCopy \notin Seq(Nat)

VARIABLES session,    \* GatewaySession: absent, or updated within
                      \* MAX_SESSION_AGE_MS (warm), or before that (cold)
          turns,      \* ConversationMessage rows, by createdAt
          cache,      \* history of the cached GatewaySessionDto
          pc,         \* where each operation is
          stale,      \* isStale of a message
          turn,       \* the turn that an operation created last
          loaded,     \* the history it is about to cache and return
          created,    \* turns ever created
          begun,      \* messages so far
          faults,     \* failed calls so far
          overlapped, \* history: operations that were not alone all the time
          diverged    \* history: something happened that may tell the copy
                      \* from the rows, and nothing since that repaired it

ops  == <<pc, stale, turn, loaded>>
vars == <<session, turns, cache, pc, stale, turn, loaded, created, begun,
          faults, overlapped, diverged>>

PCs == {"idle", "upsert", "create", "load", "store", "reply", "touch", "push",
        "send", "reload", "restore", "forget"}

TypeOK == /\ session \in {"absent", "warm", "cold"}
          /\ turns \in Seq(1..created)
          /\ \/ cache = NoCopy
             \/ cache \in Seq(1..created) /\ Len(cache) <= Window
          /\ pc \in [Op -> PCs]
          /\ stale \in [Op -> BOOLEAN]
          /\ turn \in [Op -> 0..created]
          /\ loaded \in [Op -> Seq(1..created)]
          /\ \A o \in Op : Len(loaded[o]) <= Window
          /\ created \in Nat
          /\ begun \in 0..MaxMessages
          /\ faults \in 0..MaxFaults
          /\ overlapped \subseteq Op
          /\ diverged \in BOOLEAN

Elems(s) == {s[i] : i \in DOMAIN s}

(* Seeded fault of Latest: the oldest turns.              *)
Oldest(s) == SubSeq(s, 1, IF Len(s) > Window THEN Window ELSE Len(s))
(* slice(-Window), and findMany with orderBy desc and take, reversed.      *)
Latest(s) == SubSeq(s, IF Len(s) > Window THEN Len(s) - Window + 1 ELSE 1, Len(s))

InFlight == {o \in Op : pc[o] # "idle"}

-----------------------------------------------------------------------------
Goto(o, p) == pc' = [pc EXCEPT ![o] = p]

Start(o, p) == /\ pc[o] = "idle"
               /\ Goto(o, p)
               /\ overlapped' = IF InFlight = {} THEN overlapped \ {o}
                                ELSE InFlight \cup {o}
               /\ diverged' = (diverged \/ InFlight # {})

NewTurn(o) == /\ created' = created + 1
              /\ turn' = [turn EXCEPT ![o] = created + 1]
              /\ turns' = Append(turns, created + 1)

Init == /\ session = "absent"
        /\ turns = <<>>
        /\ cache = NoCopy
        /\ pc = [o \in Op |-> "idle"]
        /\ stale = [o \in Op |-> FALSE]
        /\ turn = [o \in Op |-> 0]
        /\ loaded = [o \in Op |-> <<>>]
        /\ created = 0
        /\ begun = 0
        /\ faults = 0
        /\ overlapped = {}
        /\ diverged = FALSE

-----------------------------------------------------------------------------
(* dispatch: receiveUserMessage, the agent, recordAssistantReply, send. *)

(* The session is read before the upsert hides when it was last used.      *)
FindExisting(o) == /\ begun < MaxMessages
                   /\ Start(o, "upsert")
                   /\ begun' = begun + 1
                   /\ stale' = [stale EXCEPT ![o] = (session = "cold")]
                   /\ UNCHANGED <<session, turns, cache, turn, loaded, created, faults>>

Upsert(o) == /\ pc[o] = "upsert"
             /\ Goto(o, "create")
             /\ session' = "warm"
             /\ UNCHANGED <<turns, cache, stale, turn, loaded, created, begun, faults,
                            overlapped, diverged>>

(* The turn of the user.  A cold session loads no history.                 *)
CreateTurn(o) == /\ pc[o] = "create"
                 /\ NewTurn(o)
                 /\ Goto(o, IF stale[o] THEN "store" ELSE "load")
                 /\ loaded' = [loaded EXCEPT ![o] = <<>>]
                 /\ UNCHANGED <<session, cache, stale, begun, faults, overlapped,
                                diverged>>

(* loadTurns, for a message, or for a lookup that missed the cache.        *)
LoadTurns(o) == /\ \/ pc[o] = "load" /\ Goto(o, "store")
                   \/ pc[o] = "reload" /\ Goto(o, "restore")
                /\ loaded' = [loaded EXCEPT ![o] = Latest(turns)]
                /\ UNCHANGED <<session, turns, cache, stale, turn, created, begun,
                               faults, overlapped, diverged>>

(* cache.set: whatever the copy was, it is replaced.  The agent then takes *)
(* its time over the message.                                              *)
Store(o) == /\ \/ pc[o] = "store" /\ Goto(o, "reply")
               \/ pc[o] = "restore" /\ Goto(o, "idle")
            /\ cache' = loaded[o]
            /\ diverged' = IF o \in overlapped THEN diverged
                           ELSE pc[o] = "store" /\ stale[o]
            /\ UNCHANGED <<session, turns, stale, turn, loaded, created, begun, faults,
                           overlapped>>

CreateReply(o) == /\ pc[o] = "reply"
                  /\ NewTurn(o)
                  /\ Goto(o, "touch")
                  /\ UNCHANGED <<session, cache, stale, loaded, begun, faults,
                                 overlapped, diverged>>

Touch(o) == /\ pc[o] = "touch"
            /\ Goto(o, "push")
            /\ session' = "warm"
            /\ UNCHANGED <<turns, cache, stale, turn, loaded, created, begun, faults,
                           overlapped, diverged>>

(* The reply joins the copy, if there is one by now.                       *)
Push(o) == /\ pc[o] = "push"
           /\ Goto(o, "send")
           /\ cache' = IF cache = NoCopy THEN NoCopy ELSE Latest(Append(cache, turn[o]))
           /\ UNCHANGED <<session, turns, stale, turn, loaded, created, begun, faults,
                          overlapped, diverged>>

Send(o) == /\ pc[o] = "send"
           /\ Goto(o, "idle")
           /\ UNCHANGED <<session, turns, cache, stale, turn, loaded, created, begun,
                          faults, overlapped, diverged>>

-----------------------------------------------------------------------------
(* findSession and findSessionByUser, when the copy is missing.            *)
FindSession(o) == /\ cache = NoCopy
                  /\ session # "absent"
                  /\ Start(o, "reload")
                  /\ UNCHANGED <<session, turns, cache, stale, turn, loaded, created,
                                 begun, faults>>

(* clearSessionHistory: the rows, and then the copy.                       *)
DeleteTurns(o) == /\ session # "absent"
                  /\ Start(o, "forget")
                  /\ turns' = <<>>
                  /\ UNCHANGED <<session, cache, stale, turn, loaded, created, begun,
                                 faults>>

(* Seeded fault: clearSessionHistory leaves the copy as it is.              *)
KeepCopy(o) == /\ pc[o] = "forget"
               /\ Goto(o, "idle")
               /\ UNCHANGED <<session, turns, cache, stale, turn, loaded, created,
                              begun, faults, overlapped, diverged>>

ClearCopy(o) == /\ pc[o] = "forget"
                /\ Goto(o, "idle")
                /\ cache' = IF cache = NoCopy THEN NoCopy ELSE <<>>
                /\ UNCHANGED <<session, turns, stale, turn, loaded, created, begun,
                               faults, overlapped, diverged>>

InvalidateCache == /\ cache # NoCopy
                   /\ cache' = NoCopy
                   /\ UNCHANGED <<session, turns, ops, created, begun, faults,
                                  overlapped, diverged>>

(* A call of the database or of the channel fails: the operation is over.  *)
Fail(o) == /\ pc[o] \in {"upsert", "create", "load", "reload", "reply", "touch", "send"}
           /\ faults < MaxFaults
           /\ faults' = faults + 1
           /\ Goto(o, "idle")
           /\ diverged' = (diverged \/ pc[o] \in {"load", "touch"})
           /\ UNCHANGED <<session, turns, cache, stale, turn, loaded, created, begun,
                          overlapped>>

(* MAX_SESSION_AGE_MS passes without a message.                            *)
GrowCold == /\ session = "warm"
            /\ InFlight = {}
            /\ session' = "cold"
            /\ UNCHANGED <<turns, cache, ops, created, begun, faults, overlapped,
                           diverged>>

-----------------------------------------------------------------------------
Next == \/ \E o \in Op : \/ FindExisting(o) \/ Upsert(o) \/ CreateTurn(o)
                         \/ LoadTurns(o) \/ Store(o) \/ CreateReply(o)
                         \/ Touch(o) \/ Push(o) \/ Send(o)
                         \/ FindSession(o) \/ DeleteTurns(o) \/ ClearCopy(o)
                         \/ Fail(o)
        \/ InvalidateCache
        \/ GrowCold

Spec == Init /\ [][Next]_vars

-----------------------------------------------------------------------------
(* The copy is what a query would answer, unless operations overlapped, a  *)
(* call failed between a row and its copy, or the session was cold: and    *)
(* then the next message or lookup that is alone repairs it.               *)
CopyAgreesWithRows ==
  InFlight = {} /\ ~diverged /\ cache # NoCopy => cache = Latest(turns)

(* The history a message gets holds the message itself, whatever overlaps  *)
(* it, unless the session was cold, a reset removed the turn, or a whole   *)
(* window of later turns did; a cold session gets none.                    *)
OwnTurnSeen ==
  \A o \in Op : pc[o] = "store" =>
    IF stale[o] THEN loaded[o] = <<>>
    ELSE \/ turn[o] \in Elems(loaded[o])
         \/ turn[o] \notin Elems(turns)
         \/ Len(loaded[o]) = Window /\ \A t \in Elems(loaded[o]) : t > turn[o]

(* The rows, the copy and the history that is handed out fit together.     *)
HistorySound == TypeOK /\ OwnTurnSeen
=============================================================================
