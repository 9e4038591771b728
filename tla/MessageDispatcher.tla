--------------------------- MODULE MessageDispatcher ---------------------------
(***************************************************************************)
(* MessageDispatcher (apps/gateway/src/message-dispatcher.service.ts): a   *)
(* message of one user on one channel passes the rate limit (middleware/   *)
(* user-rate-limiter.ts), and the agent is run on it, with a timeout and   *)
(* retries; dispatch always answers.  A run that timed out is not stopped. *)
(* The agent is external: a run replies, fails, or goes on for ever.       *)
(* Times are kept as ages, so that no clock need be bounded.               *)
(***************************************************************************)
EXTENDS Integers

CONSTANTS Slot,       \* messages under way at a time
          NoBucket,
          Limit,      \* USER_RATE_LIMIT_MAX
          Window,     \* USER_RATE_LIMIT_WINDOW_MS
          Timeout,    \* timeoutMs
          MaxAttempts,
          RetryDelay  \* retryDelayMs

ASSUME LimitAssumption == Limit \in Nat \ {0} /\ Window \in Nat \ {0}
ASSUME RetryAssumption == /\ Timeout \in Nat \ {0} /\ MaxAttempts \in Nat \ {0}
                          /\ RetryDelay \in Nat

(* The messages a bucket counts, and the time until it renews, -1 when it  *)
(* is past that time.                                                      *)
Bucket == [count : 1..Limit, left : -1..Window]

ASSUME BucketAssumption == NoBucket \notin Bucket

VARIABLES bucket,   \* of the user, if there is one
          phase,    \* where the dispatch of each message is
          attempt,
          age,      \* time in this attempt, or in this delay
          total,    \* history: time since the dispatch began
          loose,    \* runs of this message that nobody waits for
          result,   \* what its dispatch answered
          verdict,  \* the rate limit's in the last step, if it was asked
          recent    \* history: ages of the last messages that passed, latest first

slots == <<phase, attempt, age, total, loose, result>>
dispatchVars == <<bucket, slots, verdict, recent>>

(* What an error is recognised by; the message may have several marks.     *)
Mark == {"business", "network"}
Error == [timeout : BOOLEAN, marks : SUBSET Mark]

(* classifyError *)
Kind(e) == IF e.timeout THEN "timeout"
           ELSE IF "business" \in e.marks THEN "agent_error"
           ELSE IF "network" \in e.marks THEN "transient" ELSE "unknown"

Retryable == {"transient", "unknown"}
Result == {"none", "ok", "timeout", "agent_error", "rate_limited"} \cup Retryable

(* As many of the messages that passed as the limit can tell apart; one    *)
(* that never was counts as one that passed a window ago.                  *)
Latest == 1..(2 * Limit + 1)

Longest == MaxAttempts * Timeout + (MaxAttempts - 1) * RetryDelay

DispatchTypeOK == /\ bucket \in Bucket \cup {NoBucket}
                  /\ phase \in [Slot -> {"idle", "run", "sleep"}]
                  /\ attempt \in [Slot -> 0..MaxAttempts]
                  /\ age \in [Slot -> Nat]
                  /\ total \in [Slot -> Nat]
                  /\ loose \in [Slot -> Nat]
                  /\ result \in [Slot -> Result]
                  /\ verdict \in {"none", "passed", "refused"}
                  /\ recent \in [Latest -> 0..Window]

DispatchInit == /\ bucket = NoBucket
                /\ phase = [c \in Slot |-> "idle"]
                /\ attempt = [c \in Slot |-> 0]
                /\ age = [c \in Slot |-> 0]
                /\ total = [c \in Slot |-> 0]
                /\ loose = [c \in Slot |-> 0]
                /\ result = [c \in Slot |-> "none"]
                /\ verdict = "none"
                /\ recent = [i \in Latest |-> Window]

-----------------------------------------------------------------------------
(* checkUserRateLimit *)

Over == bucket # NoBucket /\ bucket.left <= 0
Fresh == [count |-> 1, left |-> Window]

(* A new bucket, or a count in one that is neither over nor full.          *)
Pass == /\ \/ (bucket = NoBucket \/ Over) /\ bucket' = Fresh
           \/ /\ bucket # NoBucket /\ ~Over
              /\ bucket.count < Limit
              /\ bucket' = [bucket EXCEPT !.count = @ + 1]
        /\ verdict' = "passed"
        /\ recent' = [i \in Latest |-> IF i = 1 THEN 0 ELSE recent[i - 1]]

Refuse == /\ bucket # NoBucket /\ ~Over
          /\ bucket.count >= Limit
          /\ verdict' = "refused"
          /\ UNCHANGED <<bucket, recent>>

(* Seeded fault: every bucket is deleted.                                  *)
CleanAll == /\ bucket # NoBucket
            /\ bucket' = NoBucket
            /\ verdict' = "none"
            /\ UNCHANGED <<slots, recent>>

(* Every two minutes buckets that are over are deleted.                    *)
CleanUp == /\ bucket # NoBucket /\ bucket.left < 0
           /\ bucket' = NoBucket
           /\ verdict' = "none"
           /\ UNCHANGED <<slots, recent>>

-----------------------------------------------------------------------------
(* dispatch: refused by the rate limit, or the first run begins.  The      *)
(* bound: a slot with a run that nobody waits for takes no other message.  *)
Dispatch(c) ==
  /\ phase[c] = "idle" /\ loose[c] = 0
  /\ \/ /\ Refuse
        /\ result' = [result EXCEPT ![c] = "rate_limited"]
        /\ UNCHANGED <<phase, attempt, age, total, loose>>
     \/ /\ Pass
        /\ phase' = [phase EXCEPT ![c] = "run"]
        /\ attempt' = [attempt EXCEPT ![c] = 1]
        /\ result' = [result EXCEPT ![c] = "none"]
        /\ UNCHANGED <<age, total, loose>>

Settle(c, r) == /\ phase' = [phase EXCEPT ![c] = "idle"]
                /\ attempt' = [attempt EXCEPT ![c] = 0]
                /\ age' = [age EXCEPT ![c] = 0]
                /\ total' = [total EXCEPT ![c] = 0]
                /\ result' = [result EXCEPT ![c] = r]

(* The run replies in time.                                                *)
Reply(c) == /\ phase[c] = "run"
            /\ Settle(c, "ok")
            /\ verdict' = "none"
            /\ UNCHANGED <<bucket, recent, loose>>

Sleep(c) == /\ phase' = [phase EXCEPT ![c] = "sleep"]
            /\ age' = [age EXCEPT ![c] = 0]
            /\ UNCHANGED <<attempt, total, result>>

(* Seeded fault: a timeout is tried again, as a failure is.                *)
CatchAll(c, e) == \/ attempt[c] < MaxAttempts /\ Sleep(c)
                  \/ attempt[c] >= MaxAttempts /\ Settle(c, Kind(e))

(* The run failed: it is tried again after a delay, or that is the answer. *)
Catch(c, e) ==
  IF Kind(e) \in Retryable /\ attempt[c] < MaxAttempts
  THEN Sleep(c) ELSE Settle(c, Kind(e))

RunFails(c) == /\ phase[c] = "run"
               /\ \E e \in Error : ~e.timeout /\ Catch(c, e)
               /\ verdict' = "none"
               /\ UNCHANGED <<bucket, recent, loose>>

(* Seeded fault: only the first attempt has a timeout.                     *)
TimeOutFirst(c) == /\ phase[c] = "run" /\ age[c] = Timeout /\ attempt[c] = 1
                   /\ loose' = [loose EXCEPT ![c] = @ + 1]
                   /\ Catch(c, [timeout |-> TRUE, marks |-> {}])
                   /\ verdict' = "none"
                   /\ UNCHANGED <<bucket, recent>>

(* The timeout wins: the run goes on, and nobody waits for it.             *)
TimeOut(c) == /\ phase[c] = "run" /\ age[c] = Timeout
              /\ loose' = [loose EXCEPT ![c] = @ + 1]
              /\ Catch(c, [timeout |-> TRUE, marks |-> {}])
              /\ verdict' = "none"
              /\ UNCHANGED <<bucket, recent>>

Retry(c) == /\ phase[c] = "sleep" /\ age[c] = RetryDelay
            /\ phase' = [phase EXCEPT ![c] = "run"]
            /\ attempt' = [attempt EXCEPT ![c] = @ + 1]
            /\ age' = [age EXCEPT ![c] = 0]
            /\ verdict' = "none"
            /\ UNCHANGED <<bucket, recent, total, loose, result>>

(* A run that nobody waits for ends, with whatever it did.                 *)
RunEndsLate(c) == /\ loose[c] > 0
                  /\ loose' = [loose EXCEPT ![c] = @ - 1]
                  /\ verdict' = "none"
                  /\ UNCHANGED <<bucket, recent, phase, attempt, age, total, result>>

Waits(c) == IF phase[c] = "run" THEN age[c] < Timeout ELSE age[c] < RetryDelay
Active == {c \in Slot : phase[c] # "idle"}

(* Time passes while no timer is due.                                      *)
TimePasses == /\ \A c \in Active : Waits(c)
              /\ age' = [c \in Slot |-> IF c \in Active THEN age[c] + 1 ELSE 0]
              /\ total' = [c \in Slot |-> IF c \in Active THEN total[c] + 1 ELSE 0]
              /\ bucket' = IF bucket = NoBucket THEN NoBucket
                           ELSE [bucket EXCEPT !.left = IF @ < 0 THEN @ ELSE @ - 1]
              /\ recent' = [i \in Latest |->
                           IF recent[i] < Window THEN recent[i] + 1 ELSE Window]
              /\ verdict' = "none"
              /\ UNCHANGED <<phase, attempt, loose, result>>

-----------------------------------------------------------------------------
DispatchNext == \/ \E c \in Slot : \/ Dispatch(c) \/ Reply(c) \/ RunFails(c) \/ TimeOut(c)
                                   \/ Retry(c) \/ RunEndsLate(c)
                \/ CleanUp \/ TimePasses

DispatchSpec == DispatchInit /\ [][DispatchNext]_dispatchVars

(* Time passes and timers fire; an agent need not ever answer.             *)
DispatchFairSpec == /\ DispatchSpec
                    /\ WF_dispatchVars(TimePasses)
                    /\ \A c \in Slot : WF_dispatchVars(TimeOut(c)) /\ WF_dispatchVars(Retry(c))

-----------------------------------------------------------------------------
(* In no stretch of time as long as the window do more messages pass than  *)
(* twice the limit, so one that passed so many messages ago has left it: a *)
(* full window and the next, but never a third, however the clean-up and   *)
(* the messages fall.                                                      *)
RateBounded == recent[2 * Limit + 1] = Window

(* A message is refused only if as many as the limit passed within the     *)
(* window before it: refusals never prolong the wait.                      *)
RefusalJustified == verdict = "refused" => recent[Limit] < Window

(* The limit is kept, from above and from below.                           *)
RateKept == DispatchTypeOK /\ RateBounded /\ RefusalJustified

(* One run at a time works on a message: whatever still runs when another  *)
(* attempt begins, or after the answer, was given up by a timeout, and     *)
(* that is what the answer says.                                           *)
LateRunOnlyAfterTimeout ==
  \A c \in Slot : loose[c] > 0 => phase[c] = "idle" /\ result[c] = "timeout"

(* The answer comes within the attempts' timeouts and the delays between.  *)
AnswerInTime == \A c \in Slot : total[c] <= Longest

(* A message has one answer, that nothing of it outlives but a run that    *)
(* timed out, and has it in time.                                          *)
AnswersOnTime == LateRunOnlyAfterTimeout /\ AnswerInTime

(* Every dispatch answers, also when the agent never does.                 *)
DispatchEnds == \A c \in Slot : phase[c] # "idle" ~> phase[c] = "idle"
=============================================================================
