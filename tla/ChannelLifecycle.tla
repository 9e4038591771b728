---------------------------- MODULE ChannelLifecycle ----------------------------
(***************************************************************************)
(* Starting, stopping and restarting one channel.  The API's               *)
(* ChannelLifecycleService checks the row, keeps a status in memory, and   *)
(* posts to the gateway, whose route checks the row too, loads the         *)
(* channel's configuration into a cache without an end, sets the adapter   *)
(* up or tears it down, and writes the row before it answers; the API then *)
(* writes it again.  Calls overlap, answers get lost, and the API and the  *)
(* gateway may be restarted.                                               *)
(***************************************************************************)
EXTENDS Integers

CONSTANTS Op,        \* slots for calls of the service
          None,
          MaxEdits,  \* bound: changes of the configuration
          MaxFaults  \* bound: failures, lost answers, restarts

ASSUME NoneAssumption == None \notin Nat
ASSUME EditsAssumption == MaxEdits \in Nat /\ MaxFaults \in Nat

VARIABLES row,      \* ChannelConfig.isActive
          version,  \* ChannelConfig.config
          runtime,  \* runtimeStatus, in the memory of the API
          cached,   \* configCache, in the memory of the gateway
          up,       \* the configuration the adapter is set up with
          pc,       \* where each call is, in the API
          kind,     \* what it is: start, stop, or the stop of a restart
          seen,     \* the row it read
          gpc,      \* where its request is, in the gateway
          cfg,      \* the configuration the request has loaded
          loading,  \* the one that a message being dispatched has read
          faults,
          calm,     \* history: nothing disturbed the call so far
          asked,    \* history: the configuration when it began
          excused   \* history: runtimeStatus and row may differ

call == <<pc, kind, seen, calm, asked>>
gateway == <<cached, up, loading>>
channelVars == <<row, version, runtime, gateway, call, gpc, cfg, faults, excused>>

Version == 0..MaxEdits
Kinds == {"start", "stop", "restart"}
Status == {"starting", "active", "stopping", "stopped", "error"}

ChannelTypeOK == /\ row \in {"absent", "inactive", "active"}
                 /\ version \in Version
                 /\ runtime \in Status \cup {None}
                 /\ {cached, up, loading} \subseteq Version \cup {None}
                 /\ pc \in [Op -> {"idle", "loaded", "read", "found", "posted", "write",
                                   "mark", "undo"}]
                 /\ kind \in [Op -> Kinds]
                 /\ seen \in [Op -> {"absent", "inactive", "active"}]
                 /\ gpc \in [Op -> {"none", "route", "load", "fill", "setup", "teardown",
                                    "drop", "save", "ok", "error"}]
                 /\ cfg \in [Op -> Version \cup {None}]
                 /\ faults \in 0..MaxFaults
                 /\ calm \in [Op -> BOOLEAN]
                 /\ asked \in [Op -> Version]
                 /\ excused \in BOOLEAN

ChannelInit == /\ row = "absent"
               /\ version = 0
               /\ runtime = None
               /\ cached = None /\ up = None /\ loading = None
               /\ pc = [o \in Op |-> "idle"]
               /\ kind = [o \in Op |-> "start"]
               /\ seen = [o \in Op |-> "absent"]
               /\ gpc = [o \in Op |-> "none"]
               /\ cfg = [o \in Op |-> None]
               /\ faults = 0
               /\ calm = [o \in Op |-> FALSE]
               /\ asked = [o \in Op |-> 0]
               /\ excused = FALSE

-----------------------------------------------------------------------------
Busy == {o \in Op : pc[o] # "idle" \/ gpc[o] # "none"}
Goto(o, p) == pc' = [pc EXCEPT ![o] = p]
Request(o, p) == gpc' = [gpc EXCEPT ![o] = p]
Activating(o) == kind[o] = "start"
Target(o) == IF Activating(o) THEN "active" ELSE "inactive"

Fault == faults < MaxFaults /\ faults' = faults + 1

(* The call is over; what a call leaves is what one that never was has, but *)
(* for a request of it that the gateway still serves.                       *)
Leave(o) == /\ Goto(o, "idle")
            /\ kind' = [kind EXCEPT ![o] = IF gpc[o] = "none" THEN "start" ELSE @]
            /\ seen' = [seen EXCEPT ![o] = "absent"]
            /\ calm' = [calm EXCEPT ![o] = FALSE]
            /\ asked' = [asked EXCEPT ![o] = 0]

(* provision: the row, and the status in memory; it may start at once.     *)
Provision == /\ row = "absent"
             /\ row' = "inactive"
             /\ runtime' = "stopped"
             /\ UNCHANGED <<version, gateway, call, gpc, cfg, faults, excused>>

(* A stop finds the configuration of an adapter that is up, and a restart  *)
(* meets no older one on its way to the cache.                             *)
Undisturbed(k) ==
  /\ Busy = {}
  /\ k = "start" \/ up = None \/ cached # None
  /\ k = "restart" => row = "active" /\ loading \in {None, version}

Begin(o, k) ==
  /\ o \notin Busy
  /\ Goto(o, IF k = "restart" THEN "loaded" ELSE "found")
  /\ kind' = [kind EXCEPT ![o] = k]
  /\ seen' = [seen EXCEPT ![o] = row]
  /\ calm' = [d \in Op |-> d = o /\ Undisturbed(k)]
  /\ asked' = [asked EXCEPT ![o] = IF k = "restart" THEN version ELSE 0]
  /\ excused' = (excused \/ Busy # {})
  /\ UNCHANGED <<row, version, runtime, gateway, gpc, cfg, faults>>

(* Seeded fault: a restart of an active channel only starts it.            *)
RestartStarts(o) == /\ pc[o] = "loaded"
                    /\ Goto(o, "read")
                    /\ kind' = [kind EXCEPT ![o] = "start"]
                    /\ UNCHANGED <<row, version, runtime, gateway, seen, calm, asked, gpc,
                                   cfg, faults, excused>>

(* restart: stop, if the row is active, then start.                        *)
Restart(o) == /\ pc[o] = "loaded"
              /\ IF seen[o] = "absent" THEN Leave(o)
                 ELSE /\ Goto(o, "read")
                      /\ kind' = [kind EXCEPT ![o] =
                                    IF seen[o] = "active" THEN "restart" ELSE "start"]
                      /\ UNCHANGED <<seen, calm, asked>>
              /\ UNCHANGED <<row, version, runtime, gateway, gpc, cfg, faults,
                             excused>>

(* stop and start within a restart read the row again.                     *)
Reread(o) == /\ pc[o] = "read"
             /\ Goto(o, "found")
             /\ seen' = [seen EXCEPT ![o] = row]
             /\ UNCHANGED <<row, version, runtime, gateway, kind, calm, asked,
                            gpc, cfg, faults, excused>>

(* There is no such channel, or it is in that state already.               *)
Refuse(o) == /\ pc[o] = "found"
             /\ seen[o] \in {"absent", Target(o)}
             /\ Leave(o)
             /\ UNCHANGED <<row, version, runtime, gateway, gpc, cfg, faults,
                            excused>>

Post(o) == /\ pc[o] = "found"
           /\ seen[o] \notin {"absent", Target(o)}
           /\ runtime' = IF Activating(o) THEN "starting" ELSE "stopping"
           /\ Goto(o, "posted")
           /\ Request(o, "route")
           /\ UNCHANGED <<row, version, gateway, kind, seen, calm, asked, cfg,
                          faults, excused>>

-----------------------------------------------------------------------------
(* The gateway's route: a request for the state the row is in is answered  *)
(* without doing anything.                                                 *)
Route(o) ==
  /\ gpc[o] = "route"
  /\ Request(o, IF row = Target(o) THEN "ok"
                ELSE IF Activating(o) THEN "load"
                ELSE IF cached = None THEN "save" ELSE "teardown")
  /\ UNCHANGED <<row, version, runtime, gateway, call, cfg, faults, excused>>

(* loadChannelConfig, from the cache or the database.                      *)
LoadConfig(o) ==
  /\ gpc[o] = "load"
  /\ cfg' = [cfg EXCEPT ![o] = IF cached # None THEN cached ELSE version]
  /\ Request(o, IF cached # None THEN "setup" ELSE "fill")
  /\ UNCHANGED <<row, version, runtime, gateway, call, faults, excused>>

FillCache(o) ==
  /\ gpc[o] = "fill"
  /\ cached' = cfg[o]
  /\ Request(o, "setup")
  /\ UNCHANGED <<row, version, runtime, up, loading, call, cfg, faults, excused>>

Setup(o) ==
  /\ gpc[o] = "setup"
  /\ up' = cfg[o]
  /\ cfg' = [cfg EXCEPT ![o] = None]
  /\ Request(o, "save")
  /\ UNCHANGED <<row, version, runtime, cached, loading, call, faults, excused>>

SetupFails(o) ==
  /\ gpc[o] = "setup"
  /\ Fault
  /\ cfg' = [cfg EXCEPT ![o] = None]
  /\ Request(o, "error")
  /\ UNCHANGED <<row, version, runtime, gateway, call, excused>>

(* deactivateChannel: the adapter, whose failure is only logged.           *)
Teardown(o) ==
  /\ gpc[o] = "teardown"
  /\ up' = None
  /\ Request(o, "drop")
  /\ UNCHANGED <<row, version, runtime, cached, loading, call, cfg, faults,
                 excused>>

TeardownFails(o) ==
  /\ gpc[o] = "teardown"
  /\ Fault
  /\ calm' = [calm EXCEPT ![o] = FALSE]
  /\ Request(o, "drop")
  /\ UNCHANGED <<row, version, runtime, gateway, pc, kind, seen, asked, cfg,
                 excused>>

(* Seeded fault: the configuration stays in the cache.                     *)
KeepCache(o) ==
  /\ gpc[o] = "drop"
  /\ Request(o, "save")
  /\ UNCHANGED <<row, version, runtime, gateway, call, cfg, faults, excused>>

DropCache(o) ==
  /\ gpc[o] = "drop"
  /\ cached' = None
  /\ Request(o, "save")
  /\ UNCHANGED <<row, version, runtime, up, loading, call, cfg, faults, excused>>

(* The gateway writes the row before it answers.                           *)
SaveRow(o) ==
  /\ gpc[o] = "save"
  /\ row' = Target(o)
  /\ Request(o, IF pc[o] = "posted" THEN "ok" ELSE "none")
  /\ UNCHANGED <<version, runtime, gateway, call, cfg, faults, excused>>

(* Or it cannot, with the adapter set up or torn down already.             *)
RowFails(o) ==
  /\ gpc[o] = "save"
  /\ Fault
  /\ Request(o, IF pc[o] = "posted" THEN "error" ELSE "none")
  /\ UNCHANGED <<row, version, runtime, gateway, call, cfg, excused>>

-----------------------------------------------------------------------------
(* A request nobody waits for any more is over when it has its answer.     *)
Unheard(o) == /\ pc[o] # "posted"
              /\ gpc[o] \in {"ok", "error"}
              /\ Request(o, "none")
              /\ UNCHANGED <<row, version, runtime, gateway, call, cfg, faults,
                             excused>>

(* The answer reaches the API.                                             *)
Answer(o) == /\ pc[o] = "posted"
             /\ gpc[o] = "ok"
             /\ Request(o, "none")
             /\ Goto(o, "write")
             /\ UNCHANGED <<row, version, runtime, gateway, kind, seen, calm,
                            asked, cfg, faults, excused>>

(* The catch clause: the status first, then the row.                       *)
Fails(o) == /\ runtime' = "error"
            /\ Goto(o, "undo")
            /\ UNCHANGED <<row, version, gateway, kind, seen, calm, asked, cfg>>

ErrorAnswer(o) == /\ pc[o] = "posted"
                  /\ gpc[o] = "error"
                  /\ Request(o, "none")
                  /\ Fails(o)
                  /\ UNCHANGED <<faults, excused>>

(* The connection breaks; the gateway goes on.                             *)
AnswerLost(o) == /\ pc[o] = "posted"
                 /\ Fault
                 /\ Fails(o)
                 /\ excused' = TRUE
                 /\ UNCHANGED gpc

WriteRow(o) == /\ pc[o] = "write"
               /\ row' = Target(o)
               /\ Goto(o, "mark")
               /\ UNCHANGED <<version, runtime, gateway, kind, seen, calm,
                              asked, gpc, cfg, faults, excused>>

WriteFails(o) == /\ pc[o] = "write"
                 /\ Fault
                 /\ Fails(o)
                 /\ UNCHANGED <<gpc, excused>>

(* Seeded fault: the status is left as it was.                             *)
MarkNothing(o) == /\ pc[o] = "mark"
                  /\ UNCHANGED runtime
                  /\ IF kind[o] = "restart"
                     THEN /\ Goto(o, "read")
                          /\ kind' = [kind EXCEPT ![o] = "start"]
                          /\ UNCHANGED <<seen, calm, asked, excused>>
                     ELSE Leave(o) /\ excused' = (excused /\ ~calm[o])
                  /\ UNCHANGED <<row, version, gateway, gpc, cfg, faults>>

(* The status; the call returns, or the restart goes on with its start.    *)
Mark(o) == /\ pc[o] = "mark"
           /\ runtime' = IF Activating(o) THEN "active" ELSE "stopped"
           /\ IF kind[o] = "restart"
              THEN /\ Goto(o, "read")
                   /\ kind' = [kind EXCEPT ![o] = "start"]
                   /\ UNCHANGED <<seen, calm, asked, excused>>
              ELSE Leave(o) /\ excused' = (excused /\ ~calm[o])
           /\ UNCHANGED <<row, version, gateway, gpc, cfg, faults>>

(* Or the report that the stop of a restart returns (buildStatusDto) fails: *)
(* what it did stays, and the restart ends there.                           *)
ReportFails(o) == /\ pc[o] = "mark"
                  /\ kind[o] = "restart"
                  /\ Fault
                  /\ runtime' = "stopped"
                  /\ Leave(o)
                  /\ UNCHANGED <<row, version, gateway, gpc, cfg, excused>>

(* Seeded fault: a failure leaves the row as it is.                        *)
UndoNothing(o) == /\ pc[o] = "undo"
                  /\ Leave(o)
                  /\ UNCHANGED <<row, version, runtime, gateway, gpc, cfg, faults,
                                 excused>>

(* The row of a channel that failed is not active; the call throws.        *)
Undo(o) == /\ pc[o] = "undo"
           /\ row' = "inactive"
           /\ Leave(o)
           /\ UNCHANGED <<version, runtime, gateway, gpc, cfg, faults, excused>>

(* Or that fails too; it costs no fault, since it follows one.             *)
UndoFails(o) == /\ pc[o] = "undo"
                /\ excused' = TRUE
                /\ Leave(o)
                /\ UNCHANGED <<row, version, runtime, gateway, gpc, cfg, faults>>

-----------------------------------------------------------------------------
(* A message is dispatched: its configuration is loaded as well.           *)
DispatchLoads == /\ cached = None /\ loading = None
                 /\ row # "absent"
                 /\ loading' = version
                 /\ UNCHANGED <<row, version, runtime, cached, up, call, gpc,
                                cfg, faults, excused>>

DispatchFills == /\ loading # None
                 /\ cached' = loading
                 /\ loading' = None
                 /\ UNCHANGED <<row, version, runtime, up, call, gpc, cfg,
                                faults, excused>>

(* The configuration is edited; the cache is not told.                     *)
EditConfig == /\ row # "absent"
              /\ version < MaxEdits
              /\ version' = version + 1
              /\ UNCHANGED <<row, runtime, gateway, call, gpc, cfg, faults,
                             excused>>

(* The API is restarted: the statuses and the calls are gone, not their    *)
(* requests.                                                               *)
ApiRestarts == /\ Fault
               /\ runtime' = None
               /\ pc' = [o \in Op |-> "idle"]
               /\ kind' = [o \in Op |-> IF gpc[o] = "none" THEN "start" ELSE kind[o]]
               /\ seen' = [o \in Op |-> "absent"]
               /\ calm' = [o \in Op |-> FALSE]
               /\ asked' = [o \in Op |-> 0]
               /\ excused' = (excused \/ Busy # {})
               /\ UNCHANGED <<row, version, gateway, gpc, cfg>>

(* The gateway is restarted: the cache and the requests are gone, and the  *)
(* adapter, unless its webhook is registered with the provider.            *)
GatewayRestarts ==
  /\ Fault
  /\ cached' = None /\ loading' = None
  /\ up' \in {up, None}
  /\ gpc' = [o \in Op |-> IF pc[o] = "posted" THEN "error" ELSE "none"]
  /\ cfg' = [o \in Op |-> None]
  /\ calm' = [o \in Op |-> FALSE]
  /\ UNCHANGED <<row, version, runtime, pc, kind, seen, asked, excused>>

-----------------------------------------------------------------------------
Proceed(o) == \/ Restart(o) \/ Reread(o) \/ Refuse(o) \/ Post(o)
              \/ Answer(o) \/ ErrorAnswer(o) \/ AnswerLost(o)
              \/ WriteRow(o) \/ WriteFails(o) \/ Mark(o) \/ ReportFails(o)
              \/ Undo(o) \/ UndoFails(o)

Serve(o) == \/ Route(o) \/ LoadConfig(o) \/ FillCache(o) \/ Setup(o) \/ SetupFails(o)
            \/ Teardown(o) \/ TeardownFails(o) \/ DropCache(o) \/ SaveRow(o)
            \/ RowFails(o) \/ Unheard(o)

ChannelNext == \/ Provision \/ DispatchLoads \/ DispatchFills \/ EditConfig
               \/ ApiRestarts \/ GatewayRestarts
               \/ \E o \in Op : (\E k \in Kinds : Begin(o, k)) \/ Proceed(o) \/ Serve(o)

ChannelSpec == ChannelInit /\ [][ChannelNext]_channelVars

(* The database, the adapters and the gateway answer or fail.              *)
ChannelFairSpec ==
  ChannelSpec /\ \A o \in Op : WF_channelVars(Proceed(o)) /\ WF_channelVars(Serve(o))

-----------------------------------------------------------------------------
(* The call is over, and not for a restart of the API.                     *)
Returns(o) == pc[o] = "mark" /\ pc'[o] = "idle" /\ runtime' # None

(* When a start or a restart returns that no other call, lost answer or    *)
(* restarted process disturbed, the adapter is up and row and status agree *)
(* that the channel is active.                                             *)
StartedMeansRunning ==
  [][\A o \in Op : Returns(o) /\ kind[o] = "start" /\ calm[o] =>
       up # None /\ row = "active" /\ runtime' = "active"]_channelVars

(* When a stop returns, and nothing disturbed it, nor did the adapter fail *)
(* to be torn down or the gateway lose its configuration, the channel is   *)
(* silent.                                                                 *)
StoppedMeansSilent ==
  [][\A o \in Op : Returns(o) /\ kind[o] = "stop" /\ calm[o] =>
       up = None /\ row = "inactive" /\ runtime' = "stopped"]_channelVars

(* A restart of an active channel applies the configuration that was there *)
(* when it began, or a newer one: the one in the cache is given up.        *)
RestartAppliesConfig ==
  [][\A o \in Op : Returns(o) /\ kind[o] = "start" /\ calm[o] => up >= asked[o]]_channelVars

(* A call that returned to its caller took effect: on the adapter, on the  *)
(* row, on the status and with the configuration it found.                 *)
CallsTakeEffect == StartedMeansRunning /\ StoppedMeansSilent /\ RestartAppliesConfig

(* At rest the status in memory and the row agree, also after a failure,   *)
(* unless calls overlapped, an answer was lost, the API was restarted      *)
(* during a call or the row could not be reset; the next undisturbed call  *)
(* that succeeds mends that.                                               *)
StatusAgrees ==
  Busy = {} /\ ~excused /\ row # "absent" /\ runtime # None =>
    runtime = IF row = "active" THEN "active" ELSE IF runtime = "error" THEN "error"
              ELSE "stopped"

(* The two records of a channel are typed, and agree.                      *)
RecordsAgree == ChannelTypeOK /\ StatusAgrees

(* A channel is not starting or stopping for ever.                         *)
StatusSettles == runtime \in {"starting", "stopping"}
                   ~> runtime \notin {"starting", "stopping"}
=============================================================================
