---------------------------- MODULE WhatsAppAdapter ----------------------------
(***************************************************************************)
(* The connection of one WhatsApp channel: WhatsAppBaileysAdapter (apps/   *)
(* gateway/src/channels/whatsapp-baileys.adapter.ts), its                  *)
(* ExponentialBackoff (whatsapp-backoff.ts) and the credentials kept in    *)
(* the database (whatsapp-prisma-auth.ts).  The sockets are those of       *)
(* Baileys: external, they show a code, open, ask for the credentials to   *)
(* be saved, and close for good or not.  A socket that ended emits nothing *)
(* more, while the writes it began may still land.                         *)
(***************************************************************************)
EXTENDS Integers, FiniteSets

CONSTANTS Socket,      \* identities of sockets, used again once ended
          NoSocket,
          MaxRetries,  \* maxRetries of the backoff
          MaxDials,    \* bound: doConnect calls under way at a time
          MaxArmed,    \* bound: timers of the backoff at a time
          MaxWrites    \* bound: saves, and clears, under way at a time

ASSUME SocketAssumption == NoSocket \notin Socket
ASSUME BoundsAssumption == /\ MaxRetries \in Nat \ {0}
                           /\ MaxDials \in Nat \ {0}
                           /\ MaxArmed \in Nat \ {0}
                           /\ MaxWrites \in Nat \ {0}

VARIABLES state,     \* _state
          sock,      \* this.sock
          life,      \* of each socket: none, fresh, qr or open
          promise,   \* connectPromise is set
          dials,     \* doConnect calls that await modules and credentials
          attempt, aborted,   \* of the backoff
          armed,     \* its timers that will fire
          timer,     \* it holds the handle of the one armed last
          qrTimer,   \* qrTimeoutHandle will fire
          leaving,   \* where logout is: no, sock, db, end
          creds,     \* credentials are stored
          saves,     \* saveCreds calls under way, which nobody awaits
          clears,    \* clearSessionInDb calls of permanent closes, likewise
          goodbye,   \* history: the session ended for good, nothing since
          outlived,  \* history: a save landed after the clear, or it failed
          stuck,     \* history: the last connection failed to be made
          disposed,  \* history: dispose was called, nothing since
          spoilt     \* history: dispose or logout met a connection being
                     \* made or a code being shown, or logout failed

conn    == <<state, sock, life, promise, dials>>
backoff == <<attempt, aborted, armed, timer>>
session == <<creds, saves, clears, goodbye, outlived>>
vars    == <<conn, backoff, qrTimer, leaving, session, disposed, spoilt, stuck>>

(* What happens to the connection while logout waits meets it half way.    *)
MeetsLogout == spoilt' = (spoilt \/ leaving # "no")

Alive == {s \in Socket : life[s] # "none"}

Exhausted == attempt >= MaxRetries

TypeOK == /\ state \in {"idle", "connecting", "qr", "open", "reconnecting", "closed"}
          /\ sock \in Socket \cup {NoSocket}
          /\ life \in [Socket -> {"none", "fresh", "qr", "open"}]
          /\ promise \in BOOLEAN
          /\ dials \in 0..MaxDials
          /\ attempt \in 0..MaxRetries
          /\ aborted \in BOOLEAN
          /\ armed \in 0..MaxArmed
          /\ timer \in BOOLEAN
          /\ qrTimer \in BOOLEAN
          /\ leaving \in {"no", "sock", "db", "end"}
          /\ creds \in BOOLEAN
          /\ saves \in 0..MaxWrites
          /\ clears \in 0..MaxWrites
          /\ goodbye \in BOOLEAN
          /\ outlived \in BOOLEAN
          /\ stuck \in BOOLEAN
          /\ disposed \in BOOLEAN
          /\ spoilt \in BOOLEAN

Init == /\ state = "idle"
        /\ sock = NoSocket
        /\ life = [s \in Socket |-> "none"]
        /\ promise = FALSE
        /\ dials = 0
        /\ attempt = 0
        /\ aborted = FALSE
        /\ armed = 0
        /\ timer = FALSE
        /\ qrTimer = FALSE
        /\ leaving = "no"
        /\ creds \in BOOLEAN
        /\ saves = 0
        /\ clears = 0
        /\ goodbye = FALSE
        /\ outlived = FALSE
        /\ stuck = FALSE
        /\ disposed = FALSE
        /\ spoilt = FALSE

-----------------------------------------------------------------------------
(* connect. *)

(* It shares the connection being made, if any.                            *)
Dial == IF state = "open" \/ promise
        THEN UNCHANGED <<state, promise, dials, goodbye, outlived, disposed, stuck>>
        ELSE /\ dials < MaxDials
             /\ state' = "connecting"
             /\ promise' = TRUE
             /\ dials' = dials + 1
             /\ goodbye' = FALSE
             /\ outlived' = FALSE
             /\ disposed' = FALSE
             /\ stuck' = FALSE

(* send, of an adapter that is down.                                       *)
Connect == /\ state \in {"idle", "closed"}
           /\ ~promise
           /\ Dial
           /\ MeetsLogout
           /\ UNCHANGED <<sock, life, backoff, qrTimer, leaving, creds, saves, clears>>

(* doConnect has what it awaited and makes a socket.                       *)
MakeSocket(s) == /\ dials > 0
                 /\ life[s] = "none"
                 /\ s # sock
                 /\ dials' = dials - 1
                 /\ promise' = FALSE
                 /\ sock' = s
                 /\ life' = [life EXCEPT ![s] = "fresh"]
                 /\ MeetsLogout
                 /\ UNCHANGED <<state, backoff, qrTimer, leaving, session, disposed,
                                stuck>>

(* Something it awaited throws: a reconnection only logs it, and the state *)
(* stays connecting, in which nobody connects again.                       *)
DialFails == /\ dials > 0
             /\ dials' = dials - 1
             /\ promise' = FALSE
             /\ stuck' = TRUE
             /\ UNCHANGED <<state, sock, life, backoff, qrTimer, leaving, session, disposed,
                            spoilt>>

-----------------------------------------------------------------------------
(* ExponentialBackoff. *)

(* next, of a backoff that is neither aborted nor exhausted.               *)
Arm == /\ armed < MaxArmed
       /\ attempt' = attempt + 1
       /\ armed' = armed + 1
       /\ timer' = TRUE
       /\ aborted' = aborted

(* Only the timer whose handle is held can be cleared; its promise stays   *)
(* pending.                                                                *)
ClearTimer == /\ armed' = IF timer THEN armed - 1 ELSE armed
              /\ timer' = FALSE

Abort == /\ aborted' = TRUE
         /\ attempt' = attempt
         /\ ClearTimer

Reset == /\ aborted' = FALSE
         /\ attempt' = 0
         /\ ClearTimer

(* Seeded fault: the delay is over and nobody connects.                    *)
FireUnheard == /\ armed > 0
               /\ armed' = armed - 1
               /\ timer' = FALSE
               /\ UNCHANGED <<conn, attempt, aborted, qrTimer, leaving, session, disposed,
                              spoilt, stuck>>

(* The delay is over.  An aborted backoff rejects, which is ignored.       *)
Fire == /\ armed > 0
        /\ armed' = armed - 1
        /\ timer' = FALSE
        /\ IF aborted
           THEN UNCHANGED <<state, promise, dials, goodbye, outlived, disposed, stuck>>
           ELSE Dial
        /\ UNCHANGED <<sock, life, attempt, aborted, qrTimer, leaving, creds, saves,
                       clears, spoilt>>

-----------------------------------------------------------------------------
(* connection.update. *)

ClearQrTimeout == qrTimer' = FALSE

ShowQr(s) == /\ life[s] \in {"fresh", "qr"}
             /\ life' = [life EXCEPT ![s] = "qr"]
             /\ state' = "qr"
             /\ qrTimer' = TRUE
             /\ MeetsLogout
             /\ UNCHANGED <<sock, promise, dials, backoff, leaving, session, disposed,
                            stuck>>

(* With the credentials it was made with, or once its code was scanned.    *)
Opens(s) == /\ life[s] \in {"fresh", "qr"}
            /\ life' = [life EXCEPT ![s] = "open"]
            /\ ClearQrTimeout
            /\ Reset
            /\ state' = "open"
            /\ MeetsLogout
            /\ UNCHANGED <<sock, promise, dials, leaving, session, disposed, stuck>>

(* creds.update of a socket that lives: saveCreds begins, and is not       *)
(* awaited.                                                                *)
CredsUpdate(s) == /\ life[s] # "none"
                  /\ saves < MaxWrites
                  /\ saves' = saves + 1
                  /\ UNCHANGED <<conn, backoff, qrTimer, leaving, creds, clears, goodbye,
                                 outlived, disposed, spoilt, stuck>>

(* Seeded fault: a session that the phone ended is kept.                   *)
KeepSession(s) == /\ life[s] # "none"
                  /\ life' = [life EXCEPT ![s] = "none"]
                  /\ ClearQrTimeout
                  /\ state' = "closed"
                  /\ goodbye' = TRUE
                  /\ UNCHANGED <<sock, promise, dials, backoff, leaving, creds, saves,
                                 clears, outlived, disposed, spoilt, stuck>>

(* loggedOut or connectionReplaced: the session is cleared, not awaited.   *)
ClosesForGood(s) == /\ life[s] # "none"
                    /\ life' = [life EXCEPT ![s] = "none"]
                    /\ ClearQrTimeout
                    /\ state' = "closed"
                    /\ clears < MaxWrites
                    /\ clears' = clears + 1
                    /\ goodbye' = TRUE
                    /\ UNCHANGED <<sock, promise, dials, backoff, leaving, creds, saves,
                                   outlived, disposed, spoilt, stuck>>

(* Any other close: the next attempt is due after a delay, or there is     *)
(* none.  The code's time to be scanned may be what ended it.              *)
Closed(s) == /\ life' = [life EXCEPT ![s] = "none"]
             /\ ClearQrTimeout
             /\ IF Exhausted \/ aborted
                THEN /\ state' = "closed"
                     /\ UNCHANGED <<sock, promise, backoff>>
                ELSE /\ state' = "reconnecting"
                     /\ sock' = NoSocket
                     /\ promise' = FALSE
                     /\ Arm
             /\ UNCHANGED <<dials, leaving, session, disposed, spoilt, stuck>>

Closes(s) == life[s] # "none" /\ Closed(s)

(* Seeded fault: the socket is let go of, but not ended.                   *)
QrForgets ==
  /\ qrTimer
  /\ state' = "closed"
  /\ qrTimer' = FALSE
  /\ sock' = NoSocket
  /\ UNCHANGED <<life, promise, backoff, dials, leaving, session, disposed, spoilt, stuck>>

(* The timer of the code: sock.end, whose close event is handled at once,  *)
(* and then this.sock is null whatever the event left.                     *)
QrExpires ==
  /\ qrTimer
  /\ IF sock # NoSocket /\ life[sock] # "none"
     THEN /\ life' = [life EXCEPT ![sock] = "none"]
          /\ IF Exhausted \/ aborted
             THEN state' = "closed" /\ UNCHANGED <<promise, backoff>>
             ELSE state' = "reconnecting" /\ promise' = FALSE /\ Arm
     ELSE state' = "closed" /\ UNCHANGED <<life, promise, backoff>>
  /\ qrTimer' = FALSE
  /\ sock' = NoSocket
  /\ UNCHANGED <<dials, leaving, session, disposed, spoilt, stuck>>

-----------------------------------------------------------------------------
(* The writes of credentials that nobody awaits land in any order, or fail. *)

SaveLands == /\ saves > 0
             /\ saves' = saves - 1
             /\ creds' = TRUE
             /\ outlived' = TRUE
             /\ UNCHANGED <<conn, backoff, qrTimer, leaving, clears, goodbye, disposed,
                            spoilt, stuck>>

SaveFails == /\ saves > 0
             /\ saves' = saves - 1
             /\ UNCHANGED <<conn, backoff, qrTimer, leaving, creds, clears, goodbye,
                            outlived, disposed, spoilt, stuck>>

(* clearSessionInDb of a permanent close.                                  *)
Clear == /\ clears > 0
         /\ clears' = clears - 1
         /\ creds' = FALSE
         /\ outlived' = FALSE
         /\ UNCHANGED <<conn, backoff, qrTimer, leaving, saves, goodbye, disposed, spoilt,
                        stuck>>

ClearFails == /\ clears > 0
              /\ clears' = clears - 1
              /\ outlived' = TRUE
              /\ UNCHANGED <<conn, backoff, qrTimer, leaving, creds, saves, goodbye,
                             disposed, spoilt, stuck>>

-----------------------------------------------------------------------------
(* dispose and logout. *)

(* Seeded fault: nothing is ended.                                         *)
LeaveAlive(s) == life' = IF s = NoSocket THEN life ELSE [life EXCEPT ![s] = @]

End(s) == life' = IF s = NoSocket THEN life ELSE [life EXCEPT ![s] = "none"]

Dispose == /\ ~disposed
           /\ Abort
           /\ ClearQrTimeout
           /\ state' = "closed"
           /\ End(sock)
           /\ sock' = NoSocket
           /\ disposed' = TRUE
           /\ spoilt' = (spoilt \/ dials > 0 \/ leaving # "no")
           /\ UNCHANGED <<promise, dials, leaving, session, stuck>>

Logout == /\ leaving = "no"
          /\ state # "idle"
          /\ Abort
          /\ ClearQrTimeout
          /\ leaving' = IF sock = NoSocket THEN "db" ELSE "sock"
          /\ UNCHANGED <<conn, session, disposed, spoilt, stuck>>

(* sock.logout answered or failed.  What is ended is this.sock, whichever  *)
(* it is by now; if it is null, that throws and logout is over.            *)
LeaveSocket == /\ leaving = "sock"
               /\ leaving' = IF sock = NoSocket THEN "no" ELSE "db"
               /\ End(sock)
               /\ sock' = NoSocket
               /\ spoilt' = (spoilt \/ sock = NoSocket)
               /\ UNCHANGED <<state, promise, dials, backoff, qrTimer, session, disposed,
                              stuck>>

(* clearSessionInDb of logout, which waits for it.                         *)
LogoutClears == /\ leaving = "db"
                /\ leaving' = "end"
                /\ creds' = FALSE
                /\ outlived' = FALSE
                /\ UNCHANGED <<conn, backoff, qrTimer, saves, clears, goodbye, disposed,
                               spoilt, stuck>>

LogoutEnds == /\ leaving = "end"
              /\ leaving' = "no"
              /\ promise' = FALSE
              /\ state' = "closed"
              /\ goodbye' = TRUE
              /\ spoilt' = (spoilt \/ dials > 0)
              /\ UNCHANGED <<sock, life, dials, backoff, qrTimer, creds, saves, clears,
                             outlived, disposed, stuck>>

(* The database fails: the state stays what it was.                        *)
LogoutFails == /\ leaving = "db"
               /\ leaving' = "no"
               /\ spoilt' = TRUE
               /\ UNCHANGED <<conn, backoff, qrTimer, session, disposed, stuck>>

-----------------------------------------------------------------------------
Event(s) == \/ ShowQr(s) \/ Opens(s) \/ CredsUpdate(s)
            \/ ClosesForGood(s) \/ Closes(s)

Next == \/ Connect
        \/ \E s \in Socket : MakeSocket(s) \/ Event(s)
        \/ DialFails
        \/ Fire
        \/ QrExpires
        \/ SaveLands \/ SaveFails \/ Clear \/ ClearFails
        \/ Dispose
        \/ Logout \/ LeaveSocket \/ LogoutClears \/ LogoutEnds \/ LogoutFails

Spec == Init /\ [][Next]_vars

-----------------------------------------------------------------------------
(* Unless dispose or logout met a connection being made, every socket that *)
(* lives is the one the adapter holds, nothing is dialled beside it, and   *)
(* an adapter that says it is open holds a socket that is: its close event *)
(* cannot take down another connection, nor a second attempt leak a first. *)
SocketIsCurrent ==
  ~spoilt => /\ Alive \subseteq {sock}
             /\ dials <= 1
             /\ dials = 1 => Alive = {} /\ armed = 0
             /\ state = "open" /\ leaving = "no" =>
                  sock \in Alive /\ life[sock] = "open"

(* A reconnection is due only while the adapter says so, and only once.    *)
OneReconnection ==
  ~spoilt => /\ armed <= 1
             /\ armed = 1 => timer /\ state = "reconnecting" /\ ~aborted
             /\ armed = 1 => Alive = {}

(* After dispose, until someone sends again, nothing is alive, due, or     *)
(* about to expire.                                                        *)
DisposedIsDown ==
  disposed /\ ~spoilt => state = "closed" /\ Alive = {} /\ armed = 0 /\ ~qrTimer

(* A session that ended for good, by the phone or by logout, is over until *)
(* someone sends again: no connection is made, due or alive.  Credentials  *)
(* are left only while a clear of them is under way, or when one failed or *)
(* a save landed after the last of them.                                   *)
ForgetsSession ==
  goodbye /\ ~spoilt => /\ Alive = {} /\ armed = 0 /\ dials = 0
                        /\ creds => clears > 0 \/ outlived

(* The code expires only on a socket that shows one.                       *)
QrTimerHasQr ==
  qrTimer /\ ~spoilt => state = "qr" /\ sock \in Alive /\ life[sock] = "qr"

(* There is one connection at most, made, alive or due.                    *)
OneConnection == TypeOK /\ SocketIsCurrent /\ OneReconnection /\ QrTimerHasQr

(* An adapter that is neither idle nor closed waits for something: for a   *)
(* socket that lives, for the delay of a reconnection, or for a connection *)
(* being made; except that after a connection which failed to be made it   *)
(* says connecting for as long as nobody disposes of it or logs out.       *)
NeverWaitsInVain ==
  ~spoilt /\ leaving = "no" =>
    /\ state = "connecting" => dials > 0 \/ Alive # {} \/ stuck
    /\ state = "reconnecting" => armed > 0
    /\ state \in {"qr", "open"} => Alive # {}
=============================================================================
