------------------------------- MODULE RunQueue -------------------------------
(***************************************************************************)
(* The execution of one run through the queue of the API (apps/api/src/    *)
(* modules/runtime): RunQueueService puts it on a BullMQ queue, or without *)
(* Redis on the next tick of the process, tracks the job in memory, and    *)
(* processes it with the runtime's AgentExecutorService, which polls the   *)
(* run's row and saves checkpoints until the run is over or ten minutes    *)
(* have passed.  SseEmitterService passes the outcome to a subscriber; the *)
(* progress that is announced step by step is left out.  The FlowExecutor this service makes has no  *)
(* executeAgent and throws before it writes anything, so the row moves     *)
(* only as an executor elsewhere, or a cancellation, moves it.             *)
(***************************************************************************)
EXTENDS Integers, Sequences

CONSTANTS Slot,         \* jobs processed at a time
          Attempts,     \* attempts of a job of the queue
          Polls,        \* polls that fit in ten minutes
          MaxRequests,  \* bound: requests to enqueue the run
          MaxFaults,    \* bound: calls that throw
          MaxRestarts   \* bound: restarts of the API

ASSUME QueueAssumption == /\ Attempts \in Nat \ {0}
                          /\ Polls \in Nat \ {0}
                          /\ MaxRequests \in Nat
                          /\ MaxFaults \in Nat
                          /\ MaxRestarts \in Nat

VARIABLES mode,      \* with Redis, or local
          row,       \* status of the Run row, or absent
          executor,  \* the executor elsewhere: idle, busy, over
          job,       \* the job of the queue (BullMQ)
          tries,     \* attempts of it that failed
          ticks,     \* local jobs that wait for their tick
          requests,  \* requests so far
          adding,    \* those that added a job and have not tracked it yet
          metas,     \* status of every RunJobMeta of this process
          tracked,   \* the one under the id that jobs are processed under, or 0
          stage,     \* where the processing in each slot is
          handle,    \* the RunJobMeta it found, 0 if none
          snap,      \* the status it read last
          polls,     \* polls so far
          disk,      \* status in the checkpoint file
          stream,    \* a subscriber: none, open, or closed
          closedBy,  \* the event that closed it
          faults, restarts,
          been,      \* history: statuses the row has had
          gaveUp,    \* history: a poll reached its deadline
          troubled   \* history: a poll threw, gave up or died

rowVars == <<row, executor, been>>
jobVars == <<job, tries, ticks>>
metaVars == <<metas, tracked>>
reqVars == <<requests, adding>>
slotVars == <<stage, handle, snap, polls>>
streamVars == <<stream, closedBy>>
histVars == <<faults, restarts, gaveUp, troubled>>
queueVars == <<mode, rowVars, jobVars, reqVars, metaVars, slotVars, disk, streamVars, histVars>>

Terminal == {"completed", "failed", "cancelled"}
RowStatus == {"absent", "pending", "running"} \cup Terminal
Busy == {a \in Slot : stage[a] # "idle"}

QueueTypeOK == /\ mode \in {"redis", "local"}
               /\ row \in RowStatus
               /\ executor \in {"idle", "busy", "over"}
               /\ job \in {"none", "waiting", "active", "completed", "failed"}
               /\ tries \in 0..Attempts
               /\ ticks \in Nat
               /\ requests \in 0..MaxRequests
               /\ adding \in 0..requests
               /\ metas \in Seq({"queued", "processing", "completed", "failed"})
               /\ tracked \in 0..Len(metas)
               /\ stage \in [Slot -> {"idle", "read", "save", "last", "end"}]
               /\ handle \in [Slot -> 0..Len(metas)]
               /\ snap \in [Slot -> RowStatus]
               /\ polls \in [Slot -> 0..Polls]
               /\ disk \in {"none"} \cup RowStatus
               /\ stream \in {"none", "open", "closed"}
               /\ closedBy \in {"none", "completed", "failed"}
               /\ faults \in 0..MaxFaults
               /\ restarts \in 0..MaxRestarts
               /\ been \subseteq RowStatus
               /\ gaveUp \in BOOLEAN
               /\ troubled \in BOOLEAN

(* The run exists, or the id in the request is of no run.                  *)
QueueInit == /\ mode \in {"redis", "local"}
             /\ row \in {"absent", "pending"}
             /\ been = {row}
             /\ executor = "idle"
             /\ job = "none"
             /\ tries = 0
             /\ ticks = 0
             /\ requests = 0
             /\ adding = 0
             /\ metas = <<>>
             /\ tracked = 0
             /\ stage = [a \in Slot |-> "idle"]
             /\ handle = [a \in Slot |-> 0]
             /\ snap = [a \in Slot |-> "absent"]
             /\ polls = [a \in Slot |-> 0]
             /\ disk = "none"
             /\ stream = "none"
             /\ closedBy = "none"
             /\ faults = 0
             /\ restarts = 0
             /\ gaveUp = FALSE
             /\ troubled = FALSE

-----------------------------------------------------------------------------
(* enqueueRun. *)

(* queue.add.  The queue keeps one job of an id: while it has one, whatever *)
(* its state, another is not added.                                        *)
Add == /\ mode = "redis"
       /\ requests < MaxRequests
       /\ requests' = requests + 1
       /\ adding' = adding + 1
       /\ job' = IF job = "none" THEN "waiting" ELSE job
       /\ UNCHANGED <<mode, rowVars, tries, ticks, metaVars, slotVars, disk,
                      streamVars, histVars>>

(* _trackJob: a new RunJobMeta takes the place of the one under the id.    *)
Track == /\ adding > 0
         /\ adding' = adding - 1
         /\ metas' = Append(metas, "queued")
         /\ tracked' = Len(metas) + 1
         /\ UNCHANGED <<mode, rowVars, jobVars, requests, slotVars, disk, streamVars,
                        histVars>>

(* Without Redis the job is tracked under an id of its own, which is not   *)
(* the one it is processed under.                                          *)
EnqueueLocal == /\ mode = "local"
                /\ requests < MaxRequests
                /\ requests' = requests + 1
                /\ ticks' = ticks + 1
                /\ metas' = Append(metas, "queued")
                /\ UNCHANGED <<mode, rowVars, job, tries, adding, tracked, slotVars,
                               disk, streamVars, histVars>>

-----------------------------------------------------------------------------
(* _processJob, and executeRun of AgentExecutorService. *)

(* The locals of a slot are gone with the job.                             *)
Leave(a) == /\ stage' = [stage EXCEPT ![a] = "idle"]
            /\ handle' = [handle EXCEPT ![a] = 0]
            /\ snap' = [snap EXCEPT ![a] = "absent"]
            /\ polls' = [polls EXCEPT ![a] = 0]

Mark(a, status) ==
  metas' = IF handle[a] = 0 THEN metas ELSE [metas EXCEPT ![handle[a]] = status]

(* Slots are alike: a job takes whichever is chosen of those that are free. *)
Begin(a) == /\ stage[a] = "idle"
            /\ a = CHOOSE b \in Slot : stage[b] = "idle"
            /\ \/ mode = "redis" /\ job = "waiting" /\ job' = "active" /\ ticks' = ticks
               \/ mode = "local" /\ ticks > 0 /\ ticks' = ticks - 1 /\ job' = job
            /\ stage' = [stage EXCEPT ![a] = "read"]
            /\ handle' = [handle EXCEPT ![a] = tracked]
            /\ metas' = IF tracked = 0 THEN metas
                        ELSE [metas EXCEPT ![tracked] = "processing"]
            /\ UNCHANGED <<mode, rowVars, tries, reqVars, tracked, snap, polls, disk,
                           streamVars, histVars>>

(* One poll: findRunById.                                                  *)
Read(a) == /\ stage[a] = "read"
           /\ polls[a] < Polls
           /\ polls' = [polls EXCEPT ![a] = @ + 1]
           /\ snap' = [snap EXCEPT ![a] = row]
           /\ stage' = [stage EXCEPT ![a] = IF row = "absent" THEN "last" ELSE "save"]
           /\ UNCHANGED <<mode, rowVars, jobVars, reqVars, metaVars, handle, disk,
                          streamVars, histVars>>

(* Seeded fault: a run that is over is returned before the checkpoint.     *)
SaveUnlessOver(a) ==
  /\ stage[a] = "save"
  /\ disk' = IF snap[a] \in Terminal THEN disk ELSE snap[a]
  /\ stage' = [stage EXCEPT ![a] = IF snap[a] \in Terminal THEN "end" ELSE "read"]
  /\ UNCHANGED <<mode, rowVars, jobVars, reqVars, metaVars, handle, snap, polls,
                 streamVars, histVars>>

(* saveCheckpoint, then the end, or the pause before the next poll.        *)
Save(a) == /\ stage[a] = "save"
           /\ disk' = snap[a]
           /\ stage' = [stage EXCEPT ![a] = IF snap[a] \in Terminal THEN "end" ELSE "read"]
           /\ UNCHANGED <<mode, rowVars, jobVars, reqVars, metaVars, handle, snap, polls,
                          streamVars, histVars>>

(* The ten minutes may be over at any poll but the first.                   *)
GiveUp(a) == /\ stage[a] = "read"
             /\ polls[a] > 0
             /\ stage' = [stage EXCEPT ![a] = "last"]
             /\ gaveUp' = TRUE
             /\ troubled' = TRUE
             /\ UNCHANGED <<mode, rowVars, jobVars, reqVars, metaVars, handle, snap, polls,
                            disk, streamVars, faults, restarts>>

(* The last known state; a run that does not exist counts as failed.       *)
ReadLast(a) == /\ stage[a] = "last"
               /\ snap' = [snap EXCEPT ![a] = row]
               /\ stage' = [stage EXCEPT ![a] = "end"]
               /\ UNCHANGED <<mode, rowVars, jobVars, reqVars, metaVars, handle, polls,
                              disk, streamVars, histVars>>

(* streamHandler: an outcome closes the stream, an error does not.         *)
Tell(outcome) == IF stream = "open" THEN stream' = "closed" /\ closedBy' = outcome
                 ELSE UNCHANGED streamVars

(* Seeded fault: only what is completed is announced as such, an absent run *)
(* or one that was cancelled as failed.                                    *)
OutcomeFailing(status) == IF status = "completed" THEN "completed" ELSE "failed"

Outcome(status) == IF status \in {"failed", "absent"} THEN "failed" ELSE "completed"

End(a) == /\ stage[a] = "end"
          /\ Mark(a, Outcome(snap[a]))
          /\ Tell(Outcome(snap[a]))
          /\ job' = IF mode = "redis" THEN "completed" ELSE job
          /\ Leave(a)
          /\ UNCHANGED <<mode, rowVars, tries, ticks, reqVars, tracked, disk, histVars>>

(* Seeded fault: a failed attempt is neither retried nor failed.           *)
ThrowSwallowed(a) == /\ stage[a] \in {"read", "save", "last"}
                     /\ faults < MaxFaults
                     /\ faults' = faults + 1
                     /\ troubled' = TRUE
                     /\ Mark(a, "failed")
                     /\ Leave(a)
                     /\ UNCHANGED <<mode, rowVars, jobVars, reqVars, tracked, disk,
                                    streamVars, restarts, gaveUp>>

(* The catch block.  The error is announced and thrown on: the queue        *)
(* retries the job until its attempts are spent.                           *)
Throw(a) == /\ stage[a] \in {"read", "save", "last"}
            /\ faults < MaxFaults
            /\ faults' = faults + 1
            /\ troubled' = TRUE
            /\ Mark(a, "failed")
            /\ Leave(a)
            /\ IF mode = "redis"
               THEN /\ tries' = tries + 1
                    /\ job' = IF tries + 1 < Attempts THEN "waiting" ELSE "failed"
               ELSE UNCHANGED <<tries, job>>
            /\ UNCHANGED <<mode, rowVars, ticks, reqVars, tracked, disk, streamVars, restarts,
                           gaveUp>>

-----------------------------------------------------------------------------
(* Outside the queue service. *)

(* The queue forgets a job that is over when it holds enough of them.      *)
Forget == /\ job \in {"completed", "failed"}
          /\ job' = "none"
          /\ tries' = 0
          /\ UNCHANGED <<mode, rowVars, ticks, reqVars, metaVars, slotVars, disk,
                         streamVars, histVars>>

(* GET /runs/:id/stream.                                                   *)
Subscribe == /\ stream = "none"
             /\ stream' = "open"
             /\ UNCHANGED <<mode, rowVars, jobVars, reqVars, metaVars, slotVars, disk,
                            closedBy, histVars>>

(* The API dies and starts again; the queue hands out its active job anew. *)
Restart == /\ restarts < MaxRestarts
           /\ restarts' = restarts + 1
           /\ troubled' = (troubled \/ Busy # {})
           /\ job' = IF job = "active" THEN "waiting" ELSE job
           /\ ticks' = 0
           /\ adding' = 0
           /\ metas' = <<>>
           /\ tracked' = 0
           /\ stage' = [a \in Slot |-> "idle"]
           /\ handle' = [a \in Slot |-> 0]
           /\ snap' = [a \in Slot |-> "absent"]
           /\ polls' = [a \in Slot |-> 0]
           /\ stream' = IF stream = "open" THEN "none" ELSE stream
           /\ UNCHANGED <<mode, rowVars, tries, requests, disk, closedBy, faults,
                          gaveUp>>

Write(status) == /\ row' = status
                 /\ been' = been \cup {status}

(* An executor elsewhere starts the run and ends it; it does not look      *)
(* whether the run was cancelled.                                          *)
Execute == /\ \/ /\ executor = "idle" /\ row # "absent"
                 /\ executor' = "busy"
                 /\ Write("running")
              \/ /\ executor = "busy"
                 /\ executor' = "over"
                 /\ \E s \in {"completed", "failed"} : Write(s)
           /\ UNCHANGED <<mode, jobVars, reqVars, metaVars, slotVars, disk, streamVars,
                          histVars>>

(* RunsService.cancelRun, once.                                            *)
CancelElsewhere == /\ row # "absent"
                   /\ "cancelled" \notin been
                   /\ Write("cancelled")
                   /\ UNCHANGED <<mode, executor, jobVars, reqVars, metaVars, slotVars,
                                  disk, streamVars, histVars>>

-----------------------------------------------------------------------------
Enqueue == Add \/ Track \/ EnqueueLocal

Process(a) == Begin(a) \/ Read(a) \/ Save(a) \/ GiveUp(a) \/ ReadLast(a) \/ End(a)

QueueNext == \/ Enqueue
             \/ \E a \in Slot : Process(a) \/ Throw(a)
             \/ Forget
             \/ Subscribe
             \/ Restart
             \/ Execute
             \/ CancelElsewhere

QueueSpec == QueueInit /\ [][QueueNext]_queueVars

(* The worker takes jobs that wait, timers fire and calls return or throw. *)
Fairness == \A a \in Slot : WF_queueVars(Process(a))
QueueFairSpec == QueueSpec /\ Fairness

-----------------------------------------------------------------------------
(* What the tracked job and the stream say of the outcome was true of the  *)
(* row at some time: completed only of a run that was completed or         *)
(* cancelled, unless the poll gave up on it, and failed only of a run that *)
(* failed or does not exist, or, for the job, after a call threw.          *)
OutcomesAreTrue ==
  LET over == "completed" \in been \/ "cancelled" \in been \/ gaveUp
      lost == "failed" \in been \/ "absent" \in been
  IN  /\ closedBy = "completed" => over
      /\ closedBy = "failed" => lost
      /\ \A i \in DOMAIN metas : /\ metas[i] = "completed" => over
                                 /\ metas[i] = "failed" => lost \/ troubled

(* Two jobs of one run poll it at once without Redis, and write the same   *)
(* file in any order.  When they are done, and none threw, gave up or died, *)
(* the checkpoint that is left is of a run that is over, never an earlier  *)
(* snapshot that was written late.                                         *)
CheckpointIsFinal ==
  Busy = {} /\ ~troubled /\ disk # "none" => disk \in Terminal

(* The checkpoint that is left when the work on a run is done.             *)
CheckpointSound == QueueTypeOK /\ CheckpointIsFinal

(* A job of the queue that waits or runs is completed or failed in the end,*)
(* whether or not the run ever is, and whatever throws or dies.            *)
JobSettles == job \in {"waiting", "active"} ~> job \in {"completed", "failed"}

(* Who listens while the run is processed is told an outcome, unless the   *)
(* API dies, or the last attempt throws: only an error is announced then,  *)
(* and the stream stays open.                                              *)
StreamEnds ==
  (stream = "open" /\ Busy # {}) ~>
    (stream # "open" \/ job = "failed" \/ (mode = "local" /\ faults > 0))

(* Who waits, for the job or in the stream, comes to know.                 *)
WaitingEnds == JobSettles /\ StreamEnds
=============================================================================
