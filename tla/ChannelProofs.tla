---------------------------- MODULE ChannelProofs ----------------------------
(***************************************************************************)
(* Proofs about the connection of a WhatsApp channel, for any number of    *)
(* sockets, attempts and timers: unless a dispose or a logout meets a      *)
(* connection being made, there is one connection at most, nothing is left *)
(* after dispose, a session that ended for good stays over, and an adapter *)
(* that is up waits for something.  Then about the life cycle of any       *)
(* channel: its records agree, and a call that nothing disturbed took      *)
(* effect.                                                                 *)
(***************************************************************************)
EXTENDS WhatsAppAdapter, ChannelLifecycle, TLAPS

USE SocketAssumption, BoundsAssumption

States == {"idle", "connecting", "qr", "open", "reconnecting", "closed"}

(* No socket lives, or only the one that is held.                          *)
Dead == \A s \in Socket : life[s] = "none"
Held == \A s \in Socket : life[s] # "none" => s = sock

(* The socket held is the only one that lives, and none does while one is  *)
(* being made; the state says so.                                          *)
ConnInv ==
  /\ Held
  /\ dials = IF promise THEN 1 ELSE 0
  /\ promise => state = "connecting" /\ Dead /\ ~timer /\ ~disposed /\ ~goodbye
  /\ state \in {"idle", "reconnecting", "closed"} => Dead
  /\ state = "open" /\ leaving = "no" => sock \in Socket /\ life[sock] = "open"

(* The timer that will fire is the one that can be cleared.                *)
BackoffInv == /\ armed = IF timer THEN 1 ELSE 0
              /\ timer => state = "reconnecting" /\ ~aborted

QrInv == qrTimer => state = "qr" /\ sock \in Socket /\ life[sock] = "qr"

(* Logout has stopped what was due before it waits, and once it has        *)
(* cleared the credentials only a save that lands brings them back.        *)
LeavingInv == /\ leaving # "no" => aborted /\ ~timer /\ ~qrTimer
              /\ leaving \in {"db", "end"} => Dead
              /\ leaving = "end" => (creds => clears > 0 \/ outlived)

(* What dispose and the end of a session leave behind.                     *)
EndInv ==
  /\ disposed => state = "closed" /\ Dead /\ ~timer /\ ~qrTimer
  /\ goodbye => Dead /\ ~timer /\ (creds => clears > 0 \/ outlived)

(* What the state says is waited for is there.                             *)
WaitInv ==
  leaving = "no" =>
    /\ state = "connecting" => promise \/ stuck \/ ~Dead
    /\ state = "reconnecting" => timer
    /\ state = "qr" => ~Dead

Sound == ConnInv /\ BackoffInv /\ QrInv /\ LeavingInv /\ EndInv /\ WaitInv

IInv == /\ TypeOK
        /\ timer => armed > 0
        /\ ~spoilt => Sound

LEMMA InitInv == Init => IInv
<1> SUFFICES ASSUME Init PROVE IInv
  OBVIOUS
<1>1. TypeOK
  <2>1. /\ 0 \in 0..MaxDials /\ 0 \in 0..MaxRetries /\ 0 \in 0..MaxArmed
        /\ 0 \in 0..MaxWrites
        /\ state \in States /\ life \in [Socket -> {"none", "fresh", "qr", "open"}]
    BY DEF Init, States
  <2> QED
    BY <2>1 DEF Init, TypeOK, States
<1>2. Sound
  BY DEF Init, Sound, ConnInv, BackoffInv, QrInv, LeavingInv, EndInv, WaitInv, Dead, Held
<1> QED
  BY <1>1, <1>2 DEF Init, IInv

LEMMA StepInv == IInv /\ [Next]_vars => IInv'
<1> SUFFICES ASSUME IInv, [Next]_vars PROVE IInv'
  OBVIOUS
<1> USE DEF IInv, MeetsLogout, Exhausted
<1>1. CASE Connect
  <2> USE <1>1 DEF Connect, Dial, backoff
  <2>1. TypeOK' /\ (timer => armed > 0)'
    <3>1. (state \in States /\ sock \in Socket \cup {NoSocket})'
      BY DEF TypeOK, States
    <3>2. (life \in [Socket -> {"none", "fresh", "qr", "open"}])'
      BY DEF TypeOK
    <3>3. (dials \in 0..MaxDials /\ attempt \in 0..MaxRetries /\ armed \in 0..MaxArmed)'
      BY DEF TypeOK
    <3>4. (saves \in 0..MaxWrites /\ clears \in 0..MaxWrites)'
      BY DEF TypeOK
    <3>5. (timer => armed > 0)'
      BY DEF TypeOK
    <3>6. (leaving \in {"no", "sock", "db", "end"})'
      BY DEF TypeOK
    <3>7. ({promise, aborted, timer, qrTimer} \subseteq BOOLEAN)'
      BY DEF TypeOK
    <3>8. ({creds, goodbye, outlived, stuck, disposed, spoilt} \subseteq BOOLEAN)'
      BY DEF TypeOK
    <3> QED
      BY <3>1, <3>2, <3>3, <3>4, <3>5, <3>6, <3>7, <3>8 DEF TypeOK, States
  <2>2. ASSUME ~spoilt' PROVE Sound'
    <3>0. Sound
      BY <2>2
    <3> USE <2>2, <3>0 DEF Sound, TypeOK, Dead, Held
    <3>1. ConnInv'
      BY DEF ConnInv, BackoffInv, QrInv, LeavingInv, EndInv, WaitInv
    <3>2. BackoffInv'
      BY DEF ConnInv, BackoffInv, QrInv, LeavingInv, EndInv, WaitInv
    <3>3. QrInv'
      BY DEF ConnInv, BackoffInv, QrInv, LeavingInv, EndInv, WaitInv
    <3>4. LeavingInv'
      BY DEF ConnInv, BackoffInv, QrInv, LeavingInv, EndInv, WaitInv
    <3>5. EndInv'
      BY DEF ConnInv, BackoffInv, QrInv, LeavingInv, EndInv, WaitInv
    <3>6. WaitInv'
      BY DEF ConnInv, BackoffInv, QrInv, LeavingInv, EndInv, WaitInv
    <3> QED
      BY <3>1, <3>2, <3>3, <3>4, <3>5, <3>6 DEF Sound
  <2> QED
    BY <2>1, <2>2
<1>2. ASSUME NEW s \in Socket, MakeSocket(s) PROVE IInv'
  <2> USE <1>2 DEF MakeSocket, backoff, session
  <2>1. TypeOK' /\ (timer => armed > 0)'
    <3>1. (state \in States /\ sock \in Socket \cup {NoSocket})'
      BY DEF TypeOK, States
    <3>2. (life \in [Socket -> {"none", "fresh", "qr", "open"}])'
      BY DEF TypeOK
    <3>3. (dials \in 0..MaxDials /\ attempt \in 0..MaxRetries /\ armed \in 0..MaxArmed)'
      BY DEF TypeOK
    <3>4. (saves \in 0..MaxWrites /\ clears \in 0..MaxWrites)'
      BY DEF TypeOK
    <3>5. (timer => armed > 0)'
      BY DEF TypeOK
    <3>6. (leaving \in {"no", "sock", "db", "end"})'
      BY DEF TypeOK
    <3>7. ({promise, aborted, timer, qrTimer} \subseteq BOOLEAN)'
      BY DEF TypeOK
    <3>8. ({creds, goodbye, outlived, stuck, disposed, spoilt} \subseteq BOOLEAN)'
      BY DEF TypeOK
    <3> QED
      BY <3>1, <3>2, <3>3, <3>4, <3>5, <3>6, <3>7, <3>8 DEF TypeOK, States
  <2>2. ASSUME ~spoilt' PROVE Sound'
    <3>0. Sound
      BY <2>2
    <3> USE <2>2, <3>0 DEF Sound, TypeOK, Dead, Held
    <3>1. ConnInv'
      BY DEF ConnInv, BackoffInv, QrInv, LeavingInv, EndInv, WaitInv
    <3>2. BackoffInv'
      BY DEF ConnInv, BackoffInv, QrInv, LeavingInv, EndInv, WaitInv
    <3>3. QrInv'
      BY DEF ConnInv, BackoffInv, QrInv, LeavingInv, EndInv, WaitInv
    <3>4. LeavingInv'
      BY DEF ConnInv, BackoffInv, QrInv, LeavingInv, EndInv, WaitInv
    <3>5. EndInv'
      BY DEF ConnInv, BackoffInv, QrInv, LeavingInv, EndInv, WaitInv
    <3>6. WaitInv'
      BY DEF ConnInv, BackoffInv, QrInv, LeavingInv, EndInv, WaitInv
    <3> QED
      BY <3>1, <3>2, <3>3, <3>4, <3>5, <3>6 DEF Sound
  <2> QED
    BY <2>1, <2>2
<1>3. CASE DialFails
  <2> USE <1>3 DEF DialFails, backoff, session
  <2>1. TypeOK' /\ (timer => armed > 0)'
    <3>1. (state \in States /\ sock \in Socket \cup {NoSocket})'
      BY DEF TypeOK, States
    <3>2. (life \in [Socket -> {"none", "fresh", "qr", "open"}])'
      BY DEF TypeOK
    <3>3. (dials \in 0..MaxDials /\ attempt \in 0..MaxRetries /\ armed \in 0..MaxArmed)'
      BY DEF TypeOK
    <3>4. (saves \in 0..MaxWrites /\ clears \in 0..MaxWrites)'
      BY DEF TypeOK
    <3>5. (timer => armed > 0)'
      BY DEF TypeOK
    <3>6. (leaving \in {"no", "sock", "db", "end"})'
      BY DEF TypeOK
    <3>7. ({promise, aborted, timer, qrTimer} \subseteq BOOLEAN)'
      BY DEF TypeOK
    <3>8. ({creds, goodbye, outlived, stuck, disposed, spoilt} \subseteq BOOLEAN)'
      BY DEF TypeOK
    <3> QED
      BY <3>1, <3>2, <3>3, <3>4, <3>5, <3>6, <3>7, <3>8 DEF TypeOK, States
  <2>2. ASSUME ~spoilt' PROVE Sound'
    <3>0. Sound
      BY <2>2
    <3> USE <2>2, <3>0 DEF Sound, TypeOK, Dead, Held
    <3>1. ConnInv'
      BY DEF ConnInv, BackoffInv, QrInv, LeavingInv, EndInv, WaitInv
    <3>2. BackoffInv'
      BY DEF ConnInv, BackoffInv, QrInv, LeavingInv, EndInv, WaitInv
    <3>3. QrInv'
      BY DEF ConnInv, BackoffInv, QrInv, LeavingInv, EndInv, WaitInv
    <3>4. LeavingInv'
      BY DEF ConnInv, BackoffInv, QrInv, LeavingInv, EndInv, WaitInv
    <3>5. EndInv'
      BY DEF ConnInv, BackoffInv, QrInv, LeavingInv, EndInv, WaitInv
    <3>6. WaitInv'
      BY DEF ConnInv, BackoffInv, QrInv, LeavingInv, EndInv, WaitInv
    <3> QED
      BY <3>1, <3>2, <3>3, <3>4, <3>5, <3>6 DEF Sound
  <2> QED
    BY <2>1, <2>2
<1>4. CASE Fire
  <2> USE <1>4 DEF Fire, Dial
  <2>1. TypeOK' /\ (timer => armed > 0)'
    <3>1. (state \in States /\ sock \in Socket \cup {NoSocket})'
      BY DEF TypeOK, States
    <3>2. (life \in [Socket -> {"none", "fresh", "qr", "open"}])'
      BY DEF TypeOK
    <3>3. (dials \in 0..MaxDials /\ attempt \in 0..MaxRetries /\ armed \in 0..MaxArmed)'
      BY DEF TypeOK
    <3>4. (saves \in 0..MaxWrites /\ clears \in 0..MaxWrites)'
      BY DEF TypeOK
    <3>5. (timer => armed > 0)'
      BY DEF TypeOK
    <3>6. (leaving \in {"no", "sock", "db", "end"})'
      BY DEF TypeOK
    <3>7. ({promise, aborted, timer, qrTimer} \subseteq BOOLEAN)'
      BY DEF TypeOK
    <3>8. ({creds, goodbye, outlived, stuck, disposed, spoilt} \subseteq BOOLEAN)'
      BY DEF TypeOK
    <3> QED
      BY <3>1, <3>2, <3>3, <3>4, <3>5, <3>6, <3>7, <3>8 DEF TypeOK, States
  <2>2. ASSUME ~spoilt' PROVE Sound'
    <3>0. Sound
      BY <2>2
    <3> USE <2>2, <3>0 DEF Sound, TypeOK, Dead, Held
    <3>1. ConnInv'
      BY DEF ConnInv, BackoffInv, QrInv, LeavingInv, EndInv, WaitInv
    <3>2. BackoffInv'
      BY DEF ConnInv, BackoffInv, QrInv, LeavingInv, EndInv, WaitInv
    <3>3. QrInv'
      BY DEF ConnInv, BackoffInv, QrInv, LeavingInv, EndInv, WaitInv
    <3>4. LeavingInv'
      BY DEF ConnInv, BackoffInv, QrInv, LeavingInv, EndInv, WaitInv
    <3>5. EndInv'
      BY DEF ConnInv, BackoffInv, QrInv, LeavingInv, EndInv, WaitInv
    <3>6. WaitInv'
      BY DEF ConnInv, BackoffInv, QrInv, LeavingInv, EndInv, WaitInv
    <3> QED
      BY <3>1, <3>2, <3>3, <3>4, <3>5, <3>6 DEF Sound
  <2> QED
    BY <2>1, <2>2
<1>5. ASSUME NEW s \in Socket, ShowQr(s) PROVE IInv'
  <2> USE <1>5 DEF ShowQr, backoff, session
  <2>1. TypeOK' /\ (timer => armed > 0)'
    <3>1. (state \in States /\ sock \in Socket \cup {NoSocket})'
      BY DEF TypeOK, States
    <3>2. (life \in [Socket -> {"none", "fresh", "qr", "open"}])'
      BY DEF TypeOK
    <3>3. (dials \in 0..MaxDials /\ attempt \in 0..MaxRetries /\ armed \in 0..MaxArmed)'
      BY DEF TypeOK
    <3>4. (saves \in 0..MaxWrites /\ clears \in 0..MaxWrites)'
      BY DEF TypeOK
    <3>5. (timer => armed > 0)'
      BY DEF TypeOK
    <3>6. (leaving \in {"no", "sock", "db", "end"})'
      BY DEF TypeOK
    <3>7. ({promise, aborted, timer, qrTimer} \subseteq BOOLEAN)'
      BY DEF TypeOK
    <3>8. ({creds, goodbye, outlived, stuck, disposed, spoilt} \subseteq BOOLEAN)'
      BY DEF TypeOK
    <3> QED
      BY <3>1, <3>2, <3>3, <3>4, <3>5, <3>6, <3>7, <3>8 DEF TypeOK, States
  <2>2. ASSUME ~spoilt' PROVE Sound'
    <3>0. Sound
      BY <2>2
    <3> USE <2>2, <3>0 DEF Sound, TypeOK, Dead, Held
    <3>1. ConnInv'
      BY DEF ConnInv, BackoffInv, QrInv, LeavingInv, EndInv, WaitInv
    <3>2. BackoffInv'
      BY DEF ConnInv, BackoffInv, QrInv, LeavingInv, EndInv, WaitInv
    <3>3. QrInv'
      BY DEF ConnInv, BackoffInv, QrInv, LeavingInv, EndInv, WaitInv
    <3>4. LeavingInv'
      BY DEF ConnInv, BackoffInv, QrInv, LeavingInv, EndInv, WaitInv
    <3>5. EndInv'
      BY DEF ConnInv, BackoffInv, QrInv, LeavingInv, EndInv, WaitInv
    <3>6. WaitInv'
      BY DEF ConnInv, BackoffInv, QrInv, LeavingInv, EndInv, WaitInv
    <3> QED
      BY <3>1, <3>2, <3>3, <3>4, <3>5, <3>6 DEF Sound
  <2> QED
    BY <2>1, <2>2
<1>6. ASSUME NEW s \in Socket, Opens(s) PROVE IInv'
  <2> USE <1>6 DEF Opens, ClearQrTimeout, Reset, ClearTimer, session
  <2>1. TypeOK' /\ (timer => armed > 0)'
    <3>1. (state \in States /\ sock \in Socket \cup {NoSocket})'
      BY DEF TypeOK, States
    <3>2. (life \in [Socket -> {"none", "fresh", "qr", "open"}])'
      BY DEF TypeOK
    <3>3. (dials \in 0..MaxDials /\ attempt \in 0..MaxRetries /\ armed \in 0..MaxArmed)'
      BY DEF TypeOK
    <3>4. (saves \in 0..MaxWrites /\ clears \in 0..MaxWrites)'
      BY DEF TypeOK
    <3>5. (timer => armed > 0)'
      BY DEF TypeOK
    <3>6. (leaving \in {"no", "sock", "db", "end"})'
      BY DEF TypeOK
    <3>7. ({promise, aborted, timer, qrTimer} \subseteq BOOLEAN)'
      BY DEF TypeOK
    <3>8. ({creds, goodbye, outlived, stuck, disposed, spoilt} \subseteq BOOLEAN)'
      BY DEF TypeOK
    <3> QED
      BY <3>1, <3>2, <3>3, <3>4, <3>5, <3>6, <3>7, <3>8 DEF TypeOK, States
  <2>2. ASSUME ~spoilt' PROVE Sound'
    <3>0. Sound
      BY <2>2
    <3> USE <2>2, <3>0 DEF Sound, TypeOK, Dead, Held
    <3>1. ConnInv'
      BY DEF ConnInv, BackoffInv, QrInv, LeavingInv, EndInv, WaitInv
    <3>2. BackoffInv'
      BY DEF ConnInv, BackoffInv, QrInv, LeavingInv, EndInv, WaitInv
    <3>3. QrInv'
      BY DEF ConnInv, BackoffInv, QrInv, LeavingInv, EndInv, WaitInv
    <3>4. LeavingInv'
      BY DEF ConnInv, BackoffInv, QrInv, LeavingInv, EndInv, WaitInv
    <3>5. EndInv'
      BY DEF ConnInv, BackoffInv, QrInv, LeavingInv, EndInv, WaitInv
    <3>6. WaitInv'
      BY DEF ConnInv, BackoffInv, QrInv, LeavingInv, EndInv, WaitInv
    <3> QED
      BY <3>1, <3>2, <3>3, <3>4, <3>5, <3>6 DEF Sound
  <2> QED
    BY <2>1, <2>2
<1>7. ASSUME NEW s \in Socket, CredsUpdate(s) PROVE IInv'
  <2> USE <1>7 DEF CredsUpdate, conn, backoff
  <2>1. TypeOK' /\ (timer => armed > 0)'
    <3>1. (state \in States /\ sock \in Socket \cup {NoSocket})'
      BY DEF TypeOK, States
    <3>2. (life \in [Socket -> {"none", "fresh", "qr", "open"}])'
      BY DEF TypeOK
    <3>3. (dials \in 0..MaxDials /\ attempt \in 0..MaxRetries /\ armed \in 0..MaxArmed)'
      BY DEF TypeOK
    <3>4. (saves \in 0..MaxWrites /\ clears \in 0..MaxWrites)'
      BY DEF TypeOK
    <3>5. (timer => armed > 0)'
      BY DEF TypeOK
    <3>6. (leaving \in {"no", "sock", "db", "end"})'
      BY DEF TypeOK
    <3>7. ({promise, aborted, timer, qrTimer} \subseteq BOOLEAN)'
      BY DEF TypeOK
    <3>8. ({creds, goodbye, outlived, stuck, disposed, spoilt} \subseteq BOOLEAN)'
      BY DEF TypeOK
    <3> QED
      BY <3>1, <3>2, <3>3, <3>4, <3>5, <3>6, <3>7, <3>8 DEF TypeOK, States
  <2>2. ASSUME ~spoilt' PROVE Sound'
    <3>0. Sound
      BY <2>2
    <3> USE <2>2, <3>0 DEF Sound, TypeOK, Dead, Held
    <3>1. ConnInv'
      BY DEF ConnInv, BackoffInv, QrInv, LeavingInv, EndInv, WaitInv
    <3>2. BackoffInv'
      BY DEF ConnInv, BackoffInv, QrInv, LeavingInv, EndInv, WaitInv
    <3>3. QrInv'
      BY DEF ConnInv, BackoffInv, QrInv, LeavingInv, EndInv, WaitInv
    <3>4. LeavingInv'
      BY DEF ConnInv, BackoffInv, QrInv, LeavingInv, EndInv, WaitInv
    <3>5. EndInv'
      BY DEF ConnInv, BackoffInv, QrInv, LeavingInv, EndInv, WaitInv
    <3>6. WaitInv'
      BY DEF ConnInv, BackoffInv, QrInv, LeavingInv, EndInv, WaitInv
    <3> QED
      BY <3>1, <3>2, <3>3, <3>4, <3>5, <3>6 DEF Sound
  <2> QED
    BY <2>1, <2>2
<1>8. ASSUME NEW s \in Socket, ClosesForGood(s) PROVE IInv'
  <2> USE <1>8 DEF ClosesForGood, ClearQrTimeout, backoff
  <2>1. TypeOK' /\ (timer => armed > 0)'
    <3>1. (state \in States /\ sock \in Socket \cup {NoSocket})'
      BY DEF TypeOK, States
    <3>2. (life \in [Socket -> {"none", "fresh", "qr", "open"}])'
      BY DEF TypeOK
    <3>3. (dials \in 0..MaxDials /\ attempt \in 0..MaxRetries /\ armed \in 0..MaxArmed)'
      BY DEF TypeOK
    <3>4. (saves \in 0..MaxWrites /\ clears \in 0..MaxWrites)'
      BY DEF TypeOK
    <3>5. (timer => armed > 0)'
      BY DEF TypeOK
    <3>6. (leaving \in {"no", "sock", "db", "end"})'
      BY DEF TypeOK
    <3>7. ({promise, aborted, timer, qrTimer} \subseteq BOOLEAN)'
      BY DEF TypeOK
    <3>8. ({creds, goodbye, outlived, stuck, disposed, spoilt} \subseteq BOOLEAN)'
      BY DEF TypeOK
    <3> QED
      BY <3>1, <3>2, <3>3, <3>4, <3>5, <3>6, <3>7, <3>8 DEF TypeOK, States
  <2>2. ASSUME ~spoilt' PROVE Sound'
    <3>0. Sound
      BY <2>2
    <3> USE <2>2, <3>0 DEF Sound, TypeOK, Dead, Held
    <3>1. ConnInv'
      BY DEF ConnInv, BackoffInv, QrInv, LeavingInv, EndInv, WaitInv
    <3>2. BackoffInv'
      BY DEF ConnInv, BackoffInv, QrInv, LeavingInv, EndInv, WaitInv
    <3>3. QrInv'
      BY DEF ConnInv, BackoffInv, QrInv, LeavingInv, EndInv, WaitInv
    <3>4. LeavingInv'
      BY DEF ConnInv, BackoffInv, QrInv, LeavingInv, EndInv, WaitInv
    <3>5. EndInv'
      BY DEF ConnInv, BackoffInv, QrInv, LeavingInv, EndInv, WaitInv
    <3>6. WaitInv'
      BY DEF ConnInv, BackoffInv, QrInv, LeavingInv, EndInv, WaitInv
    <3> QED
      BY <3>1, <3>2, <3>3, <3>4, <3>5, <3>6 DEF Sound
  <2> QED
    BY <2>1, <2>2
<1>9. ASSUME NEW s \in Socket, Closes(s) PROVE IInv'
  <2> USE <1>9 DEF Closes, Closed, ClearQrTimeout, Arm, backoff, session
  <2>1. TypeOK' /\ (timer => armed > 0)'
    <3>1. (state \in States /\ sock \in Socket \cup {NoSocket})'
      BY DEF TypeOK, States
    <3>2. (life \in [Socket -> {"none", "fresh", "qr", "open"}])'
      BY DEF TypeOK
    <3>3. (dials \in 0..MaxDials /\ attempt \in 0..MaxRetries /\ armed \in 0..MaxArmed)'
      BY DEF TypeOK
    <3>4. (saves \in 0..MaxWrites /\ clears \in 0..MaxWrites)'
      BY DEF TypeOK
    <3>5. (timer => armed > 0)'
      <4>1. armed \in Nat /\ (timer => armed > 0)
        BY DEF TypeOK
      <4>2. CASE armed' = armed + 1
        BY <4>1, <4>2
      <4>3. CASE armed' = armed /\ timer' = timer
        BY Zenon, <4>1, <4>3
      <4> QED
        BY Zenon, <4>2, <4>3
    <3>6. (leaving \in {"no", "sock", "db", "end"})'
      BY DEF TypeOK
    <3>7. ({promise, aborted, timer, qrTimer} \subseteq BOOLEAN)'
      BY DEF TypeOK
    <3>8. ({creds, goodbye, outlived, stuck, disposed, spoilt} \subseteq BOOLEAN)'
      BY DEF TypeOK
    <3> QED
      BY <3>1, <3>2, <3>3, <3>4, <3>5, <3>6, <3>7, <3>8 DEF TypeOK, States
  <2>2. ASSUME ~spoilt' PROVE Sound'
    <3>0. Sound
      BY <2>2
    <3> USE <2>2, <3>0 DEF Sound, TypeOK, Dead, Held
    <3>1. ConnInv'
      BY DEF ConnInv, BackoffInv, QrInv, LeavingInv, EndInv, WaitInv
    <3>2. BackoffInv'
      BY DEF ConnInv, BackoffInv, QrInv, LeavingInv, EndInv, WaitInv
    <3>3. QrInv'
      BY DEF ConnInv, BackoffInv, QrInv, LeavingInv, EndInv, WaitInv
    <3>4. LeavingInv'
      BY DEF ConnInv, BackoffInv, QrInv, LeavingInv, EndInv, WaitInv
    <3>5. EndInv'
      BY DEF ConnInv, BackoffInv, QrInv, LeavingInv, EndInv, WaitInv
    <3>6. WaitInv'
      BY DEF ConnInv, BackoffInv, QrInv, LeavingInv, EndInv, WaitInv
    <3> QED
      BY <3>1, <3>2, <3>3, <3>4, <3>5, <3>6 DEF Sound
  <2> QED
    BY <2>1, <2>2
<1>10. CASE QrExpires
  <2> USE <1>10 DEF QrExpires, Arm, backoff, session
  <2>1. TypeOK' /\ (timer => armed > 0)'
    <3>1. (state \in States /\ sock \in Socket \cup {NoSocket})'
      BY DEF TypeOK, States
    <3>2. (life \in [Socket -> {"none", "fresh", "qr", "open"}])'
      BY DEF TypeOK
    <3>3. (dials \in 0..MaxDials /\ attempt \in 0..MaxRetries /\ armed \in 0..MaxArmed)'
      BY DEF TypeOK
    <3>4. (saves \in 0..MaxWrites /\ clears \in 0..MaxWrites)'
      BY DEF TypeOK
    <3>5. (timer => armed > 0)'
      <4>1. armed \in Nat /\ (timer => armed > 0)
        BY DEF TypeOK
      <4>2. CASE armed' = armed + 1
        BY <4>1, <4>2
      <4>3. CASE armed' = armed /\ timer' = timer
        BY Zenon, <4>1, <4>3
      <4> QED
        BY Zenon, <4>2, <4>3
    <3>6. (leaving \in {"no", "sock", "db", "end"})'
      BY DEF TypeOK
    <3>7. ({promise, aborted, timer, qrTimer} \subseteq BOOLEAN)'
      BY DEF TypeOK
    <3>8. ({creds, goodbye, outlived, stuck, disposed, spoilt} \subseteq BOOLEAN)'
      BY DEF TypeOK
    <3> QED
      BY <3>1, <3>2, <3>3, <3>4, <3>5, <3>6, <3>7, <3>8 DEF TypeOK, States
  <2>2. ASSUME ~spoilt' PROVE Sound'
    <3>0. Sound
      BY <2>2
    <3> USE <2>2, <3>0 DEF Sound, TypeOK, Dead, Held
    <3>1. ConnInv'
      BY DEF ConnInv, BackoffInv, QrInv, LeavingInv, EndInv, WaitInv
    <3>2. BackoffInv'
      BY DEF ConnInv, BackoffInv, QrInv, LeavingInv, EndInv, WaitInv
    <3>3. QrInv'
      BY DEF ConnInv, BackoffInv, QrInv, LeavingInv, EndInv, WaitInv
    <3>4. LeavingInv'
      BY DEF ConnInv, BackoffInv, QrInv, LeavingInv, EndInv, WaitInv
    <3>5. EndInv'
      BY DEF ConnInv, BackoffInv, QrInv, LeavingInv, EndInv, WaitInv
    <3>6. WaitInv'
      BY DEF ConnInv, BackoffInv, QrInv, LeavingInv, EndInv, WaitInv
    <3> QED
      BY <3>1, <3>2, <3>3, <3>4, <3>5, <3>6 DEF Sound
  <2> QED
    BY <2>1, <2>2
<1>11. CASE SaveLands
  <2> USE <1>11 DEF SaveLands, conn, backoff
  <2>1. TypeOK' /\ (timer => armed > 0)'
    <3>1. (state \in States /\ sock \in Socket \cup {NoSocket})'
      BY DEF TypeOK, States
    <3>2. (life \in [Socket -> {"none", "fresh", "qr", "open"}])'
      BY DEF TypeOK
    <3>3. (dials \in 0..MaxDials /\ attempt \in 0..MaxRetries /\ armed \in 0..MaxArmed)'
      BY DEF TypeOK
    <3>4. (saves \in 0..MaxWrites /\ clears \in 0..MaxWrites)'
      BY DEF TypeOK
    <3>5. (timer => armed > 0)'
      BY DEF TypeOK
    <3>6. (leaving \in {"no", "sock", "db", "end"})'
      BY DEF TypeOK
    <3>7. ({promise, aborted, timer, qrTimer} \subseteq BOOLEAN)'
      BY DEF TypeOK
    <3>8. ({creds, goodbye, outlived, stuck, disposed, spoilt} \subseteq BOOLEAN)'
      BY DEF TypeOK
    <3> QED
      BY <3>1, <3>2, <3>3, <3>4, <3>5, <3>6, <3>7, <3>8 DEF TypeOK, States
  <2>2. ASSUME ~spoilt' PROVE Sound'
    <3>0. Sound
      BY <2>2
    <3> USE <2>2, <3>0 DEF Sound, TypeOK, Dead, Held
    <3>1. ConnInv'
      BY DEF ConnInv, BackoffInv, QrInv, LeavingInv, EndInv, WaitInv
    <3>2. BackoffInv'
      BY DEF ConnInv, BackoffInv, QrInv, LeavingInv, EndInv, WaitInv
    <3>3. QrInv'
      BY DEF ConnInv, BackoffInv, QrInv, LeavingInv, EndInv, WaitInv
    <3>4. LeavingInv'
      BY DEF ConnInv, BackoffInv, QrInv, LeavingInv, EndInv, WaitInv
    <3>5. EndInv'
      BY DEF ConnInv, BackoffInv, QrInv, LeavingInv, EndInv, WaitInv
    <3>6. WaitInv'
      BY DEF ConnInv, BackoffInv, QrInv, LeavingInv, EndInv, WaitInv
    <3> QED
      BY <3>1, <3>2, <3>3, <3>4, <3>5, <3>6 DEF Sound
  <2> QED
    BY <2>1, <2>2
<1>12. CASE SaveFails
  <2> USE <1>12 DEF SaveFails, conn, backoff
  <2>1. TypeOK' /\ (timer => armed > 0)'
    <3>1. (state \in States /\ sock \in Socket \cup {NoSocket})'
      BY DEF TypeOK, States
    <3>2. (life \in [Socket -> {"none", "fresh", "qr", "open"}])'
      BY DEF TypeOK
    <3>3. (dials \in 0..MaxDials /\ attempt \in 0..MaxRetries /\ armed \in 0..MaxArmed)'
      BY DEF TypeOK
    <3>4. (saves \in 0..MaxWrites /\ clears \in 0..MaxWrites)'
      BY DEF TypeOK
    <3>5. (timer => armed > 0)'
      BY DEF TypeOK
    <3>6. (leaving \in {"no", "sock", "db", "end"})'
      BY DEF TypeOK
    <3>7. ({promise, aborted, timer, qrTimer} \subseteq BOOLEAN)'
      BY DEF TypeOK
    <3>8. ({creds, goodbye, outlived, stuck, disposed, spoilt} \subseteq BOOLEAN)'
      BY DEF TypeOK
    <3> QED
      BY <3>1, <3>2, <3>3, <3>4, <3>5, <3>6, <3>7, <3>8 DEF TypeOK, States
  <2>2. ASSUME ~spoilt' PROVE Sound'
    <3>0. Sound
      BY <2>2
    <3> USE <2>2, <3>0 DEF Sound, TypeOK, Dead, Held
    <3>1. ConnInv'
      BY DEF ConnInv, BackoffInv, QrInv, LeavingInv, EndInv, WaitInv
    <3>2. BackoffInv'
      BY DEF ConnInv, BackoffInv, QrInv, LeavingInv, EndInv, WaitInv
    <3>3. QrInv'
      BY DEF ConnInv, BackoffInv, QrInv, LeavingInv, EndInv, WaitInv
    <3>4. LeavingInv'
      BY DEF ConnInv, BackoffInv, QrInv, LeavingInv, EndInv, WaitInv
    <3>5. EndInv'
      BY DEF ConnInv, BackoffInv, QrInv, LeavingInv, EndInv, WaitInv
    <3>6. WaitInv'
      BY DEF ConnInv, BackoffInv, QrInv, LeavingInv, EndInv, WaitInv
    <3> QED
      BY <3>1, <3>2, <3>3, <3>4, <3>5, <3>6 DEF Sound
  <2> QED
    BY <2>1, <2>2
<1>13. CASE Clear
  <2> USE <1>13 DEF Clear, conn, backoff
  <2>1. TypeOK' /\ (timer => armed > 0)'
    <3>1. (state \in States /\ sock \in Socket \cup {NoSocket})'
      BY DEF TypeOK, States
    <3>2. (life \in [Socket -> {"none", "fresh", "qr", "open"}])'
      BY DEF TypeOK
    <3>3. (dials \in 0..MaxDials /\ attempt \in 0..MaxRetries /\ armed \in 0..MaxArmed)'
      BY DEF TypeOK
    <3>4. (saves \in 0..MaxWrites /\ clears \in 0..MaxWrites)'
      BY DEF TypeOK
    <3>5. (timer => armed > 0)'
      BY DEF TypeOK
    <3>6. (leaving \in {"no", "sock", "db", "end"})'
      BY DEF TypeOK
    <3>7. ({promise, aborted, timer, qrTimer} \subseteq BOOLEAN)'
      BY DEF TypeOK
    <3>8. ({creds, goodbye, outlived, stuck, disposed, spoilt} \subseteq BOOLEAN)'
      BY DEF TypeOK
    <3> QED
      BY <3>1, <3>2, <3>3, <3>4, <3>5, <3>6, <3>7, <3>8 DEF TypeOK, States
  <2>2. ASSUME ~spoilt' PROVE Sound'
    <3>0. Sound
      BY <2>2
    <3> USE <2>2, <3>0 DEF Sound, TypeOK, Dead, Held
    <3>1. ConnInv'
      BY DEF ConnInv, BackoffInv, QrInv, LeavingInv, EndInv, WaitInv
    <3>2. BackoffInv'
      BY DEF ConnInv, BackoffInv, QrInv, LeavingInv, EndInv, WaitInv
    <3>3. QrInv'
      BY DEF ConnInv, BackoffInv, QrInv, LeavingInv, EndInv, WaitInv
    <3>4. LeavingInv'
      BY DEF ConnInv, BackoffInv, QrInv, LeavingInv, EndInv, WaitInv
    <3>5. EndInv'
      BY DEF ConnInv, BackoffInv, QrInv, LeavingInv, EndInv, WaitInv
    <3>6. WaitInv'
      BY DEF ConnInv, BackoffInv, QrInv, LeavingInv, EndInv, WaitInv
    <3> QED
      BY <3>1, <3>2, <3>3, <3>4, <3>5, <3>6 DEF Sound
  <2> QED
    BY <2>1, <2>2
<1>14. CASE ClearFails
  <2> USE <1>14 DEF ClearFails, conn, backoff
  <2>1. TypeOK' /\ (timer => armed > 0)'
    <3>1. (state \in States /\ sock \in Socket \cup {NoSocket})'
      BY DEF TypeOK, States
    <3>2. (life \in [Socket -> {"none", "fresh", "qr", "open"}])'
      BY DEF TypeOK
    <3>3. (dials \in 0..MaxDials /\ attempt \in 0..MaxRetries /\ armed \in 0..MaxArmed)'
      BY DEF TypeOK
    <3>4. (saves \in 0..MaxWrites /\ clears \in 0..MaxWrites)'
      BY DEF TypeOK
    <3>5. (timer => armed > 0)'
      BY DEF TypeOK
    <3>6. (leaving \in {"no", "sock", "db", "end"})'
      BY DEF TypeOK
    <3>7. ({promise, aborted, timer, qrTimer} \subseteq BOOLEAN)'
      BY DEF TypeOK
    <3>8. ({creds, goodbye, outlived, stuck, disposed, spoilt} \subseteq BOOLEAN)'
      BY DEF TypeOK
    <3> QED
      BY <3>1, <3>2, <3>3, <3>4, <3>5, <3>6, <3>7, <3>8 DEF TypeOK, States
  <2>2. ASSUME ~spoilt' PROVE Sound'
    <3>0. Sound
      BY <2>2
    <3> USE <2>2, <3>0 DEF Sound, TypeOK, Dead, Held
    <3>1. ConnInv'
      BY DEF ConnInv, BackoffInv, QrInv, LeavingInv, EndInv, WaitInv
    <3>2. BackoffInv'
      BY DEF ConnInv, BackoffInv, QrInv, LeavingInv, EndInv, WaitInv
    <3>3. QrInv'
      BY DEF ConnInv, BackoffInv, QrInv, LeavingInv, EndInv, WaitInv
    <3>4. LeavingInv'
      BY DEF ConnInv, BackoffInv, QrInv, LeavingInv, EndInv, WaitInv
    <3>5. EndInv'
      BY DEF ConnInv, BackoffInv, QrInv, LeavingInv, EndInv, WaitInv
    <3>6. WaitInv'
      BY DEF ConnInv, BackoffInv, QrInv, LeavingInv, EndInv, WaitInv
    <3> QED
      BY <3>1, <3>2, <3>3, <3>4, <3>5, <3>6 DEF Sound
  <2> QED
    BY <2>1, <2>2
<1>15. CASE Dispose
  <2> USE <1>15 DEF Dispose, Abort, ClearTimer, ClearQrTimeout, End, session
  <2>1. TypeOK' /\ (timer => armed > 0)'
    <3>1. (state \in States /\ sock \in Socket \cup {NoSocket})'
      BY DEF TypeOK, States
    <3>2. (life \in [Socket -> {"none", "fresh", "qr", "open"}])'
      BY DEF TypeOK
    <3>3. (dials \in 0..MaxDials /\ attempt \in 0..MaxRetries /\ armed \in 0..MaxArmed)'
      BY DEF TypeOK
    <3>4. (saves \in 0..MaxWrites /\ clears \in 0..MaxWrites)'
      BY DEF TypeOK
    <3>5. (timer => armed > 0)'
      BY DEF TypeOK
    <3>6. (leaving \in {"no", "sock", "db", "end"})'
      BY DEF TypeOK
    <3>7. ({promise, aborted, timer, qrTimer} \subseteq BOOLEAN)'
      BY DEF TypeOK
    <3>8. ({creds, goodbye, outlived, stuck, disposed, spoilt} \subseteq BOOLEAN)'
      BY DEF TypeOK
    <3> QED
      BY <3>1, <3>2, <3>3, <3>4, <3>5, <3>6, <3>7, <3>8 DEF TypeOK, States
  <2>2. ASSUME ~spoilt' PROVE Sound'
    <3>0. Sound
      BY <2>2
    <3> USE <2>2, <3>0 DEF Sound, TypeOK, Dead, Held
    <3>1. ConnInv'
      BY DEF ConnInv, BackoffInv, QrInv, LeavingInv, EndInv, WaitInv
    <3>2. BackoffInv'
      BY DEF ConnInv, BackoffInv, QrInv, LeavingInv, EndInv, WaitInv
    <3>3. QrInv'
      BY DEF ConnInv, BackoffInv, QrInv, LeavingInv, EndInv, WaitInv
    <3>4. LeavingInv'
      BY DEF ConnInv, BackoffInv, QrInv, LeavingInv, EndInv, WaitInv
    <3>5. EndInv'
      BY DEF ConnInv, BackoffInv, QrInv, LeavingInv, EndInv, WaitInv
    <3>6. WaitInv'
      BY DEF ConnInv, BackoffInv, QrInv, LeavingInv, EndInv, WaitInv
    <3> QED
      BY <3>1, <3>2, <3>3, <3>4, <3>5, <3>6 DEF Sound
  <2> QED
    BY <2>1, <2>2
<1>16. CASE Logout
  <2> USE <1>16 DEF Logout, Abort, ClearTimer, ClearQrTimeout, conn, session
  <2>1. TypeOK' /\ (timer => armed > 0)'
    <3>1. (state \in States /\ sock \in Socket \cup {NoSocket})'
      BY DEF TypeOK, States
    <3>2. (life \in [Socket -> {"none", "fresh", "qr", "open"}])'
      BY DEF TypeOK
    <3>3. (dials \in 0..MaxDials /\ attempt \in 0..MaxRetries /\ armed \in 0..MaxArmed)'
      BY DEF TypeOK
    <3>4. (saves \in 0..MaxWrites /\ clears \in 0..MaxWrites)'
      BY DEF TypeOK
    <3>5. (timer => armed > 0)'
      BY DEF TypeOK
    <3>6. (leaving \in {"no", "sock", "db", "end"})'
      BY DEF TypeOK
    <3>7. ({promise, aborted, timer, qrTimer} \subseteq BOOLEAN)'
      BY DEF TypeOK
    <3>8. ({creds, goodbye, outlived, stuck, disposed, spoilt} \subseteq BOOLEAN)'
      BY DEF TypeOK
    <3> QED
      BY <3>1, <3>2, <3>3, <3>4, <3>5, <3>6, <3>7, <3>8 DEF TypeOK, States
  <2>2. ASSUME ~spoilt' PROVE Sound'
    <3>0. Sound
      BY <2>2
    <3> USE <2>2, <3>0 DEF Sound, TypeOK, Dead, Held
    <3>1. ConnInv'
      BY DEF ConnInv, BackoffInv, QrInv, LeavingInv, EndInv, WaitInv
    <3>2. BackoffInv'
      BY DEF ConnInv, BackoffInv, QrInv, LeavingInv, EndInv, WaitInv
    <3>3. QrInv'
      BY DEF ConnInv, BackoffInv, QrInv, LeavingInv, EndInv, WaitInv
    <3>4. LeavingInv'
      BY DEF ConnInv, BackoffInv, QrInv, LeavingInv, EndInv, WaitInv
    <3>5. EndInv'
      BY DEF ConnInv, BackoffInv, QrInv, LeavingInv, EndInv, WaitInv
    <3>6. WaitInv'
      BY DEF ConnInv, BackoffInv, QrInv, LeavingInv, EndInv, WaitInv
    <3> QED
      BY <3>1, <3>2, <3>3, <3>4, <3>5, <3>6 DEF Sound
  <2> QED
    BY <2>1, <2>2
<1>17. CASE LeaveSocket
  <2> USE <1>17 DEF LeaveSocket, End, backoff, session
  <2>1. TypeOK' /\ (timer => armed > 0)'
    <3>1. (state \in States /\ sock \in Socket \cup {NoSocket})'
      BY DEF TypeOK, States
    <3>2. (life \in [Socket -> {"none", "fresh", "qr", "open"}])'
      BY DEF TypeOK
    <3>3. (dials \in 0..MaxDials /\ attempt \in 0..MaxRetries /\ armed \in 0..MaxArmed)'
      BY DEF TypeOK
    <3>4. (saves \in 0..MaxWrites /\ clears \in 0..MaxWrites)'
      BY DEF TypeOK
    <3>5. (timer => armed > 0)'
      BY DEF TypeOK
    <3>6. (leaving \in {"no", "sock", "db", "end"})'
      BY DEF TypeOK
    <3>7. ({promise, aborted, timer, qrTimer} \subseteq BOOLEAN)'
      BY DEF TypeOK
    <3>8. ({creds, goodbye, outlived, stuck, disposed, spoilt} \subseteq BOOLEAN)'
      BY DEF TypeOK
    <3> QED
      BY <3>1, <3>2, <3>3, <3>4, <3>5, <3>6, <3>7, <3>8 DEF TypeOK, States
  <2>2. ASSUME ~spoilt' PROVE Sound'
    <3>0. Sound
      BY <2>2
    <3> USE <2>2, <3>0 DEF Sound, TypeOK, Dead, Held
    <3>1. ConnInv'
      BY DEF ConnInv, BackoffInv, QrInv, LeavingInv, EndInv, WaitInv
    <3>2. BackoffInv'
      BY DEF ConnInv, BackoffInv, QrInv, LeavingInv, EndInv, WaitInv
    <3>3. QrInv'
      BY DEF ConnInv, BackoffInv, QrInv, LeavingInv, EndInv, WaitInv
    <3>4. LeavingInv'
      BY DEF ConnInv, BackoffInv, QrInv, LeavingInv, EndInv, WaitInv
    <3>5. EndInv'
      BY DEF ConnInv, BackoffInv, QrInv, LeavingInv, EndInv, WaitInv
    <3>6. WaitInv'
      BY DEF ConnInv, BackoffInv, QrInv, LeavingInv, EndInv, WaitInv
    <3> QED
      BY <3>1, <3>2, <3>3, <3>4, <3>5, <3>6 DEF Sound
  <2> QED
    BY <2>1, <2>2
<1>18. CASE LogoutClears
  <2> USE <1>18 DEF LogoutClears, conn, backoff
  <2>1. TypeOK' /\ (timer => armed > 0)'
    <3>1. (state \in States /\ sock \in Socket \cup {NoSocket})'
      BY DEF TypeOK, States
    <3>2. (life \in [Socket -> {"none", "fresh", "qr", "open"}])'
      BY DEF TypeOK
    <3>3. (dials \in 0..MaxDials /\ attempt \in 0..MaxRetries /\ armed \in 0..MaxArmed)'
      BY DEF TypeOK
    <3>4. (saves \in 0..MaxWrites /\ clears \in 0..MaxWrites)'
      BY DEF TypeOK
    <3>5. (timer => armed > 0)'
      BY DEF TypeOK
    <3>6. (leaving \in {"no", "sock", "db", "end"})'
      BY DEF TypeOK
    <3>7. ({promise, aborted, timer, qrTimer} \subseteq BOOLEAN)'
      BY DEF TypeOK
    <3>8. ({creds, goodbye, outlived, stuck, disposed, spoilt} \subseteq BOOLEAN)'
      BY DEF TypeOK
    <3> QED
      BY <3>1, <3>2, <3>3, <3>4, <3>5, <3>6, <3>7, <3>8 DEF TypeOK, States
  <2>2. ASSUME ~spoilt' PROVE Sound'
    <3>0. Sound
      BY <2>2
    <3> USE <2>2, <3>0 DEF Sound, TypeOK, Dead, Held
    <3>1. ConnInv'
      BY DEF ConnInv, BackoffInv, QrInv, LeavingInv, EndInv, WaitInv
    <3>2. BackoffInv'
      BY DEF ConnInv, BackoffInv, QrInv, LeavingInv, EndInv, WaitInv
    <3>3. QrInv'
      BY DEF ConnInv, BackoffInv, QrInv, LeavingInv, EndInv, WaitInv
    <3>4. LeavingInv'
      BY DEF ConnInv, BackoffInv, QrInv, LeavingInv, EndInv, WaitInv
    <3>5. EndInv'
      BY DEF ConnInv, BackoffInv, QrInv, LeavingInv, EndInv, WaitInv
    <3>6. WaitInv'
      BY DEF ConnInv, BackoffInv, QrInv, LeavingInv, EndInv, WaitInv
    <3> QED
      BY <3>1, <3>2, <3>3, <3>4, <3>5, <3>6 DEF Sound
  <2> QED
    BY <2>1, <2>2
<1>19. CASE LogoutEnds
  <2> USE <1>19 DEF LogoutEnds, backoff
  <2>1. TypeOK' /\ (timer => armed > 0)'
    <3>1. (state \in States /\ sock \in Socket \cup {NoSocket})'
      BY DEF TypeOK, States
    <3>2. (life \in [Socket -> {"none", "fresh", "qr", "open"}])'
      BY DEF TypeOK
    <3>3. (dials \in 0..MaxDials /\ attempt \in 0..MaxRetries /\ armed \in 0..MaxArmed)'
      BY DEF TypeOK
    <3>4. (saves \in 0..MaxWrites /\ clears \in 0..MaxWrites)'
      BY DEF TypeOK
    <3>5. (timer => armed > 0)'
      BY DEF TypeOK
    <3>6. (leaving \in {"no", "sock", "db", "end"})'
      BY DEF TypeOK
    <3>7. ({promise, aborted, timer, qrTimer} \subseteq BOOLEAN)'
      BY DEF TypeOK
    <3>8. ({creds, goodbye, outlived, stuck, disposed, spoilt} \subseteq BOOLEAN)'
      BY DEF TypeOK
    <3> QED
      BY <3>1, <3>2, <3>3, <3>4, <3>5, <3>6, <3>7, <3>8 DEF TypeOK, States
  <2>2. ASSUME ~spoilt' PROVE Sound'
    <3>0. Sound
      BY <2>2
    <3> USE <2>2, <3>0 DEF Sound, TypeOK, Dead, Held
    <3>1. ConnInv'
      BY DEF ConnInv, BackoffInv, QrInv, LeavingInv, EndInv, WaitInv
    <3>2. BackoffInv'
      BY DEF ConnInv, BackoffInv, QrInv, LeavingInv, EndInv, WaitInv
    <3>3. QrInv'
      BY DEF ConnInv, BackoffInv, QrInv, LeavingInv, EndInv, WaitInv
    <3>4. LeavingInv'
      BY DEF ConnInv, BackoffInv, QrInv, LeavingInv, EndInv, WaitInv
    <3>5. EndInv'
      BY DEF ConnInv, BackoffInv, QrInv, LeavingInv, EndInv, WaitInv
    <3>6. WaitInv'
      BY DEF ConnInv, BackoffInv, QrInv, LeavingInv, EndInv, WaitInv
    <3> QED
      BY <3>1, <3>2, <3>3, <3>4, <3>5, <3>6 DEF Sound
  <2> QED
    BY <2>1, <2>2
<1>20. CASE LogoutFails
  <2> USE <1>20 DEF LogoutFails, conn, backoff, session
  <2>1. TypeOK' /\ (timer => armed > 0)'
    <3>1. (state \in States /\ sock \in Socket \cup {NoSocket})'
      BY DEF TypeOK, States
    <3>2. (life \in [Socket -> {"none", "fresh", "qr", "open"}])'
      BY DEF TypeOK
    <3>3. (dials \in 0..MaxDials /\ attempt \in 0..MaxRetries /\ armed \in 0..MaxArmed)'
      BY DEF TypeOK
    <3>4. (saves \in 0..MaxWrites /\ clears \in 0..MaxWrites)'
      BY DEF TypeOK
    <3>5. (timer => armed > 0)'
      BY DEF TypeOK
    <3>6. (leaving \in {"no", "sock", "db", "end"})'
      BY DEF TypeOK
    <3>7. ({promise, aborted, timer, qrTimer} \subseteq BOOLEAN)'
      BY DEF TypeOK
    <3>8. ({creds, goodbye, outlived, stuck, disposed, spoilt} \subseteq BOOLEAN)'
      BY DEF TypeOK
    <3> QED
      BY <3>1, <3>2, <3>3, <3>4, <3>5, <3>6, <3>7, <3>8 DEF TypeOK, States
  <2>2. ASSUME ~spoilt' PROVE Sound'
    <3>0. Sound
      BY <2>2
    <3> USE <2>2, <3>0 DEF Sound, TypeOK, Dead, Held
    <3>1. ConnInv'
      BY DEF ConnInv, BackoffInv, QrInv, LeavingInv, EndInv, WaitInv
    <3>2. BackoffInv'
      BY DEF ConnInv, BackoffInv, QrInv, LeavingInv, EndInv, WaitInv
    <3>3. QrInv'
      BY DEF ConnInv, BackoffInv, QrInv, LeavingInv, EndInv, WaitInv
    <3>4. LeavingInv'
      BY DEF ConnInv, BackoffInv, QrInv, LeavingInv, EndInv, WaitInv
    <3>5. EndInv'
      BY DEF ConnInv, BackoffInv, QrInv, LeavingInv, EndInv, WaitInv
    <3>6. WaitInv'
      BY DEF ConnInv, BackoffInv, QrInv, LeavingInv, EndInv, WaitInv
    <3> QED
      BY <3>1, <3>2, <3>3, <3>4, <3>5, <3>6 DEF Sound
  <2> QED
    BY <2>1, <2>2
<1>21. CASE UNCHANGED vars
  <2> USE <1>21 DEF vars, conn, backoff, session
  <2>1. TypeOK' /\ (timer => armed > 0)'
    <3>1. (state \in States /\ sock \in Socket \cup {NoSocket})'
      BY DEF TypeOK, States
    <3>2. (life \in [Socket -> {"none", "fresh", "qr", "open"}])'
      BY DEF TypeOK
    <3>3. (dials \in 0..MaxDials /\ attempt \in 0..MaxRetries /\ armed \in 0..MaxArmed)'
      BY DEF TypeOK
    <3>4. (saves \in 0..MaxWrites /\ clears \in 0..MaxWrites)'
      BY DEF TypeOK
    <3>5. (timer => armed > 0)'
      BY DEF TypeOK
    <3>6. (leaving \in {"no", "sock", "db", "end"})'
      BY DEF TypeOK
    <3>7. ({promise, aborted, timer, qrTimer} \subseteq BOOLEAN)'
      BY DEF TypeOK
    <3>8. ({creds, goodbye, outlived, stuck, disposed, spoilt} \subseteq BOOLEAN)'
      BY DEF TypeOK
    <3> QED
      BY <3>1, <3>2, <3>3, <3>4, <3>5, <3>6, <3>7, <3>8 DEF TypeOK, States
  <2>2. ASSUME ~spoilt' PROVE Sound'
    <3>0. Sound
      BY <2>2
    <3> USE <2>2, <3>0 DEF Sound, TypeOK, Dead, Held
    <3>1. ConnInv'
      BY DEF ConnInv, BackoffInv, QrInv, LeavingInv, EndInv, WaitInv
    <3>2. BackoffInv'
      BY DEF ConnInv, BackoffInv, QrInv, LeavingInv, EndInv, WaitInv
    <3>3. QrInv'
      BY DEF ConnInv, BackoffInv, QrInv, LeavingInv, EndInv, WaitInv
    <3>4. LeavingInv'
      BY DEF ConnInv, BackoffInv, QrInv, LeavingInv, EndInv, WaitInv
    <3>5. EndInv'
      BY DEF ConnInv, BackoffInv, QrInv, LeavingInv, EndInv, WaitInv
    <3>6. WaitInv'
      BY DEF ConnInv, BackoffInv, QrInv, LeavingInv, EndInv, WaitInv
    <3> QED
      BY <3>1, <3>2, <3>3, <3>4, <3>5, <3>6 DEF Sound
  <2> QED
    BY <2>1, <2>2
<1> QED
  BY <1>1, <1>2, <1>3, <1>4, <1>5, <1>6, <1>7, <1>8, <1>9, <1>10, <1>11, <1>12,
     <1>13, <1>14, <1>15, <1>16, <1>17, <1>18, <1>19, <1>20, <1>21 DEF Next, Event

LEMMA Invariance == Spec => []IInv
  BY InitInv, StepInv, PTL DEF Spec

-----------------------------------------------------------------------------
(* There is one connection at most, made, alive or due: a close event      *)
(* takes down no other connection, and a second attempt leaks no first.    *)
THEOREM ConnectionIsOne == Spec => []OneConnection
<1>1. IInv => OneConnection
  BY DEF IInv, TypeOK, Sound, ConnInv, BackoffInv, QrInv, OneConnection, SocketIsCurrent,
         OneReconnection, QrTimerHasQr, Alive, Dead, Held
<1> QED
  BY <1>1, Invariance, PTL

(* After dispose nothing is alive, due, or about to expire.                *)
THEOREM DisposedStaysDown == Spec => []DisposedIsDown
<1>1. IInv => DisposedIsDown
  BY DEF IInv, TypeOK, Sound, BackoffInv, EndInv, DisposedIsDown, Alive, Dead
<1> QED
  BY <1>1, Invariance, PTL

(* A session that ended for good is over until someone sends, and leaves   *)
(* credentials only while a clear is under way, or if one failed or a save *)
(* landed after it.                                                        *)
THEOREM SessionIsForgotten == Spec => []ForgetsSession
<1>1. IInv => ForgetsSession
  BY DEF IInv, TypeOK, Sound, ConnInv, BackoffInv, EndInv, ForgetsSession, Alive, Dead
<1> QED
  BY <1>1, Invariance, PTL

(* An adapter that is neither idle nor closed waits for something, unless  *)
(* the last connection failed to be made.                                  *)
THEOREM AdapterIsBusy == Spec => []NeverWaitsInVain
<1>1. IInv => NeverWaitsInVain
  BY DEF IInv, TypeOK, Sound, ConnInv, BackoffInv, WaitInv, NeverWaitsInVain, Alive, Dead
<1> QED
  BY <1>1, Invariance, PTL

-----------------------------------------------------------------------------
(***************************************************************************)
(* The life cycle of a channel.                                            *)
(***************************************************************************)
USE NoneAssumption, EditsAssumption

CallPC == {"idle", "loaded", "read", "found", "posted", "write", "mark", "undo"}
RequestPC == {"none", "route", "load", "fill", "setup", "teardown", "drop", "save", "ok",
              "error"}
Seen == {"absent", "inactive", "active"}

-----------------------------------------------------------------------------
(* Types. *)

LEMMA TypeInit == ChannelInit => ChannelTypeOK
<1> SUFFICES ASSUME ChannelInit PROVE ChannelTypeOK
  OBVIOUS
<1>1. /\ pc \in [Op -> CallPC] /\ kind \in [Op -> Kinds] /\ seen \in [Op -> Seen]
      /\ gpc \in [Op -> RequestPC] /\ cfg \in [Op -> Version \cup {None}]
      /\ asked \in [Op -> Version]
  BY DEF ChannelInit, CallPC, Kinds, Seen, RequestPC, Version
<1>2. calm \in [Op -> BOOLEAN]
  BY DEF ChannelInit
<1>3. /\ version \in Version /\ faults \in 0..MaxFaults
      /\ {cached, up, loading} \subseteq Version \cup {None}
  BY DEF ChannelInit, Version
<1>4. row \in Seen /\ runtime \in Status \cup {None} /\ excused \in BOOLEAN
  BY DEF ChannelInit, Seen
<1> QED
  BY <1>1, <1>2, <1>3, <1>4 DEF ChannelTypeOK, CallPC, Seen, RequestPC

(* A call that is over.                                                     *)
LEMMA LeaveType ==
  ASSUME ChannelTypeOK, NEW o \in Op, Leave(o)
  PROVE  /\ pc' \in [Op -> CallPC] /\ kind' \in [Op -> Kinds] /\ seen' \in [Op -> Seen]
         /\ calm' \in [Op -> BOOLEAN] /\ asked' \in [Op -> Version]
<1> USE DEF Leave, Goto, ChannelTypeOK
<1>1. pc' \in [Op -> CallPC] /\ seen' \in [Op -> Seen]
  BY DEF CallPC, Seen
<1>2. kind' \in [Op -> Kinds]
  BY DEF Kinds
<1>3. calm' \in [Op -> BOOLEAN]
  OBVIOUS
<1>4. asked' \in [Op -> Version]
  BY DEF Version
<1> QED
  BY <1>1, <1>2, <1>3, <1>4

LEMMA TypeStep == ChannelTypeOK /\ [ChannelNext]_channelVars => ChannelTypeOK'
<1> SUFFICES ASSUME ChannelTypeOK, [ChannelNext]_channelVars PROVE ChannelTypeOK'
  OBVIOUS
<1> USE DEF call, gateway, Goto, Request, Fault
<1>1. ASSUME Provision PROVE ChannelTypeOK'
  BY <1>1, SMTT(30) DEF Provision, ChannelTypeOK, Status
<1>2. ASSUME DispatchLoads PROVE ChannelTypeOK'
  BY <1>2, SMTT(30) DEF DispatchLoads, ChannelTypeOK, Version
<1>3. ASSUME DispatchFills PROVE ChannelTypeOK'
  BY <1>3, SMTT(30) DEF DispatchFills, ChannelTypeOK
<1>4. ASSUME EditConfig PROVE ChannelTypeOK'
  BY <1>4, SMTT(30) DEF EditConfig, ChannelTypeOK, Version
<1>5. ASSUME ApiRestarts PROVE ChannelTypeOK'
  BY <1>5, SMTT(30) DEF ApiRestarts, ChannelTypeOK, Kinds, Version
<1>6. ASSUME GatewayRestarts PROVE ChannelTypeOK'
  BY <1>6, SMTT(30) DEF GatewayRestarts, ChannelTypeOK
<1>7. ASSUME NEW o \in Op, NEW k \in Kinds, Begin(o, k) PROVE ChannelTypeOK'
  BY <1>7, SMTT(30) DEF Begin, ChannelTypeOK, Version
<1>8. ASSUME NEW o \in Op, Restart(o) PROVE ChannelTypeOK'
  BY <1>8, LeaveType, SMTT(30) DEF Restart, ChannelTypeOK, Kinds, CallPC, Seen
<1>9. ASSUME NEW o \in Op, Reread(o) PROVE ChannelTypeOK'
  BY <1>9, SMTT(30) DEF Reread, ChannelTypeOK
<1>10. ASSUME NEW o \in Op, Refuse(o) PROVE ChannelTypeOK'
  BY <1>10, LeaveType, SMTT(30) DEF Refuse, ChannelTypeOK, CallPC, Seen
<1>11. ASSUME NEW o \in Op, Post(o) PROVE ChannelTypeOK'
  BY <1>11, SMTT(30) DEF Post, ChannelTypeOK, Status
<1>12. ASSUME NEW o \in Op, Answer(o) PROVE ChannelTypeOK'
  BY <1>12, SMTT(30) DEF Answer, ChannelTypeOK
<1>13. ASSUME NEW o \in Op, ErrorAnswer(o) PROVE ChannelTypeOK'
  BY <1>13, SMTT(30) DEF ErrorAnswer, ChannelTypeOK, Fails, Status
<1>14. ASSUME NEW o \in Op, AnswerLost(o) PROVE ChannelTypeOK'
  BY <1>14, SMTT(30) DEF AnswerLost, ChannelTypeOK, Fails, Status
<1>15. ASSUME NEW o \in Op, WriteRow(o) PROVE ChannelTypeOK'
  BY <1>15, SMTT(30) DEF WriteRow, ChannelTypeOK, Target
<1>16. ASSUME NEW o \in Op, WriteFails(o) PROVE ChannelTypeOK'
  BY <1>16, SMTT(30) DEF WriteFails, ChannelTypeOK, Fails, Status
<1>17. ASSUME NEW o \in Op, Mark(o) PROVE ChannelTypeOK'
  <2> USE <1>17 DEF Mark
  <2>1. pc' \in [Op -> CallPC] /\ kind' \in [Op -> Kinds] /\ seen' \in [Op -> Seen]
        /\ asked' \in [Op -> Version]
    BY LeaveType DEF ChannelTypeOK, CallPC, Kinds, Seen
  <2>2. calm' \in [Op -> BOOLEAN]
    BY LeaveType DEF ChannelTypeOK
  <2>3. excused' \in BOOLEAN
    BY DEF ChannelTypeOK
  <2> QED
    BY <2>1, <2>2, <2>3 DEF ChannelTypeOK, Status, CallPC, Seen
<1>18. ASSUME NEW o \in Op, Undo(o) PROVE ChannelTypeOK'
  BY <1>18, LeaveType, SMTT(30) DEF Undo, ChannelTypeOK, CallPC, Seen
<1>19. ASSUME NEW o \in Op, UndoFails(o) PROVE ChannelTypeOK'
  BY <1>19, LeaveType, SMTT(30) DEF UndoFails, ChannelTypeOK, CallPC, Seen
<1>20. ASSUME NEW o \in Op, Route(o) PROVE ChannelTypeOK'
  BY <1>20, SMTT(30) DEF Route, ChannelTypeOK
<1>21. ASSUME NEW o \in Op, LoadConfig(o) PROVE ChannelTypeOK'
  BY <1>21, SMTT(30) DEF LoadConfig, ChannelTypeOK
<1>22. ASSUME NEW o \in Op, FillCache(o) PROVE ChannelTypeOK'
  BY <1>22, SMTT(30) DEF FillCache, ChannelTypeOK
<1>23. ASSUME NEW o \in Op, Setup(o) PROVE ChannelTypeOK'
  BY <1>23, SMTT(30) DEF Setup, ChannelTypeOK
<1>24. ASSUME NEW o \in Op, SetupFails(o) PROVE ChannelTypeOK'
  BY <1>24, SMTT(30) DEF SetupFails, ChannelTypeOK
<1>25. ASSUME NEW o \in Op, Teardown(o) PROVE ChannelTypeOK'
  BY <1>25, SMTT(30) DEF Teardown, ChannelTypeOK
<1>26. ASSUME NEW o \in Op, TeardownFails(o) PROVE ChannelTypeOK'
  BY <1>26, SMTT(30) DEF TeardownFails, ChannelTypeOK
<1>27. ASSUME NEW o \in Op, DropCache(o) PROVE ChannelTypeOK'
  BY <1>27, SMTT(30) DEF DropCache, ChannelTypeOK
<1>28. ASSUME NEW o \in Op, SaveRow(o) PROVE ChannelTypeOK'
  BY <1>28, SMTT(30) DEF SaveRow, ChannelTypeOK, Target
<1>29. ASSUME NEW o \in Op, Unheard(o) PROVE ChannelTypeOK'
  BY <1>29, SMTT(30) DEF Unheard, ChannelTypeOK
<1>30. ASSUME NEW o \in Op, RowFails(o) PROVE ChannelTypeOK'
  BY <1>30, SMTT(30) DEF RowFails, ChannelTypeOK
<1>31. ASSUME NEW o \in Op, ReportFails(o) PROVE ChannelTypeOK'
  BY <1>31, LeaveType, SMTT(30) DEF ReportFails, ChannelTypeOK, CallPC, Seen, Status
<1>32. ASSUME UNCHANGED channelVars PROVE ChannelTypeOK'
  BY <1>32 DEF channelVars, ChannelTypeOK
<1> QED
  BY <1>1, <1>2, <1>3, <1>4, <1>5, <1>6, <1>7, <1>8, <1>9, <1>10, <1>11, <1>12, <1>13,
     <1>14, <1>15, <1>16, <1>17, <1>18, <1>19, <1>20, <1>21, <1>22, <1>23, <1>24, <1>25,
     <1>26, <1>27, <1>28, <1>29, <1>30, <1>31, <1>32 DEF ChannelNext, Proceed, Serve

-----------------------------------------------------------------------------
(* The inductive invariant. *)

(* Neither a call nor a request of it is under way.                         *)
Idle(o) == pc[o] = "idle" /\ gpc[o] = "none"

(* A call is calm only while it is alone, and calls that overlap excuse a    *)
(* difference until a call that is calm has succeeded.                      *)
AloneInv == /\ \A o \in Op : calm[o] => /\ pc[o] # "idle"
                                        /\ \A d \in Op : d = o \/ Idle(d)
            /\ ~excused => \A o, d \in Op : d = o \/ Idle(o) \/ Idle(d)

(* A request is under way while its answer is awaited; one that nobody      *)
(* waits for excuses a difference.  A restart reads the row before its stop *)
(* or its start, and the gateway serves either.                             *)
RequestInv == \A o \in Op :
  /\ pc[o] = "posted" => gpc[o] # "none"
  /\ pc[o] \in {"loaded", "read", "found", "write", "mark"} => gpc[o] = "none"
  /\ pc[o] \in {"idle", "undo"} /\ gpc[o] # "none" => excused
  /\ pc[o] = "read" => kind[o] # "stop"
  /\ gpc[o] \in {"load", "fill", "setup"} => kind[o] = "start"
  /\ gpc[o] \in {"teardown", "drop"} => kind[o] # "start"
  /\ gpc[o] \in {"fill", "setup"} => cfg[o] # None

(* A call that has found the channel finds it for ever.                     *)
RowInv == \A o \in Op :
  seen[o] # "absent" \/ pc[o] \in {"posted", "write", "mark", "undo"} \/ gpc[o] # "none"
    => row # "absent"

(* Row and status agree while no call has told the gateway to change them.  *)
Agree == row # "absent" /\ runtime # None =>
           runtime = IF row = "active" THEN "active"
                     ELSE IF runtime = "error" THEN "error" ELSE "stopped"

StatusInv == ~excused =>
  /\ (\A o \in Op : pc[o] \in {"idle", "loaded", "read", "found"}) => Agree
  /\ \A o \in Op : pc[o] = "undo" => runtime = "error"

(* What is left to the call is to mark what the row says.                   *)
MarkInv == \A o \in Op : pc[o] = "mark" /\ (~excused \/ calm[o]) => row = Target(o)

StatusPart == AloneInv /\ RequestInv /\ RowInv /\ StatusInv /\ MarkInv

(* The row is as a calm call has seen it, so that its request is not        *)
(* answered without doing anything; a restart that is calm does stop.       *)
SeenInv == \A o \in Op : calm[o] =>
  /\ pc[o] = "loaded" => kind[o] = "restart" /\ seen[o] = "active" /\ row = "active"
  /\ pc[o] = "found" /\ seen[o] # "absent" => row = seen[o]
  /\ gpc[o] = "route" => row # Target(o)

(* The gateway has done what the call is for.                               *)
Served(o) == gpc[o] \in {"save", "ok"} \/ pc[o] \in {"write", "mark"}

(* A calm stop finds what it needs to tear the adapter down, and does.      *)
StopInv == \A o \in Op : calm[o] /\ kind[o] = "stop" =>
  /\ pc[o] = "found" \/ gpc[o] = "route" => up = None \/ cached # None
  /\ gpc[o] = "drop" \/ Served(o) => up = None

(* A calm start sets the adapter up with what is in the cache or the row,   *)
(* and neither is older than what the call found when it began, once the    *)
(* stop of a restart has dropped what was cached before.                    *)
ConfigInv == \A o \in Op : calm[o] =>
  /\ asked[o] <= version
  /\ loading = None \/ asked[o] <= loading
  /\ kind[o] = "start" \/ (kind[o] = "restart" /\ Served(o))
       => cached = None \/ asked[o] <= cached
  /\ gpc[o] \in {"fill", "setup"} => asked[o] <= cfg[o]
  /\ kind[o] = "start" /\ Served(o) => up # None /\ asked[o] <= up

EffectPart == SeenInv /\ StopInv /\ ConfigInv

-----------------------------------------------------------------------------
LEMMA PartsInit == ChannelInit => StatusPart /\ EffectPart
  BY DEF ChannelInit, StatusPart, AloneInv, Idle, RequestInv, RowInv, StatusInv, Agree,
     MarkInv, EffectPart, SeenInv, StopInv, ConfigInv, Served

(* Each step of a call that is alone keeps row and status in order, and     *)
(* other steps find no such call.                                           *)
LEMMA StatusStep ==
  ASSUME ChannelTypeOK, StatusPart, [ChannelNext]_channelVars
  PROVE  StatusPart'
<1> USE DEF call, gateway, Goto, Request, Fault, Activating
<1>t. AloneInv /\ RequestInv /\ RowInv /\ StatusInv /\ MarkInv
  BY DEF StatusPart
<1>1. ASSUME Provision PROVE StatusPart'
  <2> USE <1>1, <1>t DEF Provision
  <2>1. AloneInv' /\ RequestInv' /\ RowInv'
    BY DEF AloneInv, Idle, RequestInv, RowInv, Target, Version, ChannelTypeOK
  <2>2. StatusInv' /\ MarkInv'
    BY DEF StatusInv, Agree, MarkInv, AloneInv, Idle, RequestInv, RowInv, Target,
       ChannelTypeOK
  <2> QED
    BY <2>1, <2>2 DEF StatusPart
<1>2. ASSUME DispatchLoads PROVE StatusPart'
  <2> USE <1>2, <1>t DEF DispatchLoads
  <2>1. AloneInv' /\ RequestInv' /\ RowInv'
    BY DEF AloneInv, Idle, RequestInv, RowInv, Target, Version, ChannelTypeOK
  <2>2. StatusInv' /\ MarkInv'
    BY DEF StatusInv, Agree, MarkInv, AloneInv, Idle, RequestInv, RowInv, Target,
       ChannelTypeOK
  <2> QED
    BY <2>1, <2>2 DEF StatusPart
<1>3. ASSUME DispatchFills PROVE StatusPart'
  <2> USE <1>3, <1>t DEF DispatchFills
  <2>1. AloneInv' /\ RequestInv' /\ RowInv'
    BY DEF AloneInv, Idle, RequestInv, RowInv, Target, Version, ChannelTypeOK
  <2>2. StatusInv' /\ MarkInv'
    BY DEF StatusInv, Agree, MarkInv, AloneInv, Idle, RequestInv, RowInv, Target,
       ChannelTypeOK
  <2> QED
    BY <2>1, <2>2 DEF StatusPart
<1>4. ASSUME EditConfig PROVE StatusPart'
  <2> USE <1>4, <1>t DEF EditConfig
  <2>1. AloneInv' /\ RequestInv' /\ RowInv'
    BY DEF AloneInv, Idle, RequestInv, RowInv, Target, Version, ChannelTypeOK
  <2>2. StatusInv' /\ MarkInv'
    BY DEF StatusInv, Agree, MarkInv, AloneInv, Idle, RequestInv, RowInv, Target,
       ChannelTypeOK
  <2> QED
    BY <2>1, <2>2 DEF StatusPart
<1>5. ASSUME ApiRestarts PROVE StatusPart'
  <2> USE <1>5, <1>t DEF ApiRestarts, Busy
  <2>1. AloneInv' /\ RequestInv' /\ RowInv'
    BY DEF AloneInv, Idle, RequestInv, RowInv, Target, Version, ChannelTypeOK
  <2>2. StatusInv' /\ MarkInv'
    BY DEF StatusInv, Agree, MarkInv, AloneInv, Idle, RequestInv, RowInv, Target,
       ChannelTypeOK
  <2> QED
    BY <2>1, <2>2 DEF StatusPart
<1>6. ASSUME GatewayRestarts PROVE StatusPart'
  <2> USE <1>6, <1>t DEF GatewayRestarts
  <2>1. AloneInv' /\ RequestInv' /\ RowInv'
    BY DEF AloneInv, Idle, RequestInv, RowInv, Target, Version, ChannelTypeOK
  <2>2. StatusInv' /\ MarkInv'
    BY DEF StatusInv, Agree, MarkInv, AloneInv, Idle, RequestInv, RowInv, Target,
       ChannelTypeOK
  <2> QED
    BY <2>1, <2>2 DEF StatusPart
<1>7. ASSUME NEW o \in Op, NEW k \in Kinds, Begin(o, k) PROVE StatusPart'
  <2> USE <1>7, <1>t DEF Begin, Busy, Undisturbed
  <2>1. AloneInv'
    BY DEF AloneInv, Idle, ChannelTypeOK
  <2>2. RequestInv' /\ RowInv'
    BY DEF RequestInv, RowInv, ChannelTypeOK
  <2>3. StatusInv' /\ MarkInv'
    BY DEF StatusInv, Agree, MarkInv, AloneInv, Idle, RequestInv, RowInv, Target,
       ChannelTypeOK
  <2> QED
    BY <2>1, <2>2, <2>3 DEF StatusPart
<1>8. ASSUME NEW o \in Op, Restart(o) PROVE StatusPart'
  <2> USE <1>8, <1>t DEF Restart, Leave
  <2>1. AloneInv' /\ RequestInv' /\ RowInv'
    BY DEF AloneInv, Idle, RequestInv, RowInv, Target, Version, ChannelTypeOK
  <2>2. StatusInv' /\ MarkInv'
    BY DEF StatusInv, Agree, MarkInv, AloneInv, Idle, RequestInv, RowInv, Target,
       ChannelTypeOK
  <2> QED
    BY <2>1, <2>2 DEF StatusPart
<1>9. ASSUME NEW o \in Op, Reread(o) PROVE StatusPart'
  <2> USE <1>9, <1>t DEF Reread
  <2>1. AloneInv' /\ RequestInv' /\ RowInv'
    BY DEF AloneInv, Idle, RequestInv, RowInv, Target, Version, ChannelTypeOK
  <2>2. StatusInv' /\ MarkInv'
    BY DEF StatusInv, Agree, MarkInv, AloneInv, Idle, RequestInv, RowInv, Target,
       ChannelTypeOK
  <2> QED
    BY <2>1, <2>2 DEF StatusPart
<1>10. ASSUME NEW o \in Op, Refuse(o) PROVE StatusPart'
  <2> USE <1>10, <1>t DEF Refuse, Leave
  <2>1. AloneInv' /\ RequestInv' /\ RowInv'
    BY DEF AloneInv, Idle, RequestInv, RowInv, Target, Version, ChannelTypeOK
  <2>2. StatusInv' /\ MarkInv'
    BY DEF StatusInv, Agree, MarkInv, AloneInv, Idle, RequestInv, RowInv, Target,
       ChannelTypeOK
  <2> QED
    BY <2>1, <2>2 DEF StatusPart
<1>11. ASSUME NEW o \in Op, Post(o) PROVE StatusPart'
  <2> USE <1>11, <1>t DEF Post
  <2>1. AloneInv' /\ RequestInv' /\ RowInv'
    BY DEF AloneInv, Idle, RequestInv, RowInv, Target, Version, ChannelTypeOK
  <2>2. StatusInv' /\ MarkInv'
    BY DEF StatusInv, Agree, MarkInv, AloneInv, Idle, RequestInv, RowInv, Target,
       ChannelTypeOK
  <2> QED
    BY <2>1, <2>2 DEF StatusPart
<1>12. ASSUME NEW o \in Op, Answer(o) PROVE StatusPart'
  <2> USE <1>12, <1>t DEF Answer
  <2>1. AloneInv' /\ RequestInv' /\ RowInv'
    BY DEF AloneInv, Idle, RequestInv, RowInv, Target, Version, ChannelTypeOK
  <2>2. StatusInv' /\ MarkInv'
    BY DEF StatusInv, Agree, MarkInv, AloneInv, Idle, RequestInv, RowInv, Target,
       ChannelTypeOK
  <2> QED
    BY <2>1, <2>2 DEF StatusPart
<1>13. ASSUME NEW o \in Op, ErrorAnswer(o) PROVE StatusPart'
  <2> USE <1>13, <1>t DEF ErrorAnswer, Fails
  <2>1. AloneInv' /\ RequestInv' /\ RowInv'
    BY DEF AloneInv, Idle, RequestInv, RowInv, Target, Version, ChannelTypeOK
  <2>2. StatusInv' /\ MarkInv'
    BY DEF StatusInv, Agree, MarkInv, AloneInv, Idle, RequestInv, RowInv, Target,
       ChannelTypeOK
  <2> QED
    BY <2>1, <2>2 DEF StatusPart
<1>14. ASSUME NEW o \in Op, AnswerLost(o) PROVE StatusPart'
  <2> USE <1>14, <1>t DEF AnswerLost, Fails
  <2>1. AloneInv' /\ RequestInv' /\ RowInv'
    BY DEF AloneInv, Idle, RequestInv, RowInv, Target, Version, ChannelTypeOK
  <2>2. StatusInv' /\ MarkInv'
    BY DEF StatusInv, Agree, MarkInv, AloneInv, Idle, RequestInv, RowInv, Target,
       ChannelTypeOK
  <2> QED
    BY <2>1, <2>2 DEF StatusPart
<1>15. ASSUME NEW o \in Op, WriteRow(o) PROVE StatusPart'
  <2> USE <1>15, <1>t DEF WriteRow
  <2>1. AloneInv' /\ RequestInv' /\ RowInv'
    BY DEF AloneInv, Idle, RequestInv, RowInv, Target, Version, ChannelTypeOK
  <2>2. StatusInv' /\ MarkInv'
    BY DEF StatusInv, Agree, MarkInv, AloneInv, Idle, RequestInv, RowInv, Target,
       ChannelTypeOK
  <2> QED
    BY <2>1, <2>2 DEF StatusPart
<1>16. ASSUME NEW o \in Op, WriteFails(o) PROVE StatusPart'
  <2> USE <1>16, <1>t DEF WriteFails, Fails
  <2>1. AloneInv' /\ RequestInv' /\ RowInv'
    BY DEF AloneInv, Idle, RequestInv, RowInv, Target, Version, ChannelTypeOK
  <2>2. StatusInv' /\ MarkInv'
    BY DEF StatusInv, Agree, MarkInv, AloneInv, Idle, RequestInv, RowInv, Target,
       ChannelTypeOK
  <2> QED
    BY <2>1, <2>2 DEF StatusPart
<1>17. ASSUME NEW o \in Op, Mark(o) PROVE StatusPart'
  <2> USE <1>17, <1>t DEF Mark, Leave
  <2>1. AloneInv' /\ RequestInv' /\ RowInv'
    BY DEF AloneInv, Idle, RequestInv, RowInv, Target, Version, ChannelTypeOK
  <2>2. StatusInv' /\ MarkInv'
    BY DEF StatusInv, Agree, MarkInv, AloneInv, Idle, RequestInv, RowInv, Target,
       ChannelTypeOK
  <2> QED
    BY <2>1, <2>2 DEF StatusPart
<1>18. ASSUME NEW o \in Op, Undo(o) PROVE StatusPart'
  <2> USE <1>18, <1>t DEF Undo, Leave
  <2>1. AloneInv' /\ RequestInv' /\ RowInv'
    BY DEF AloneInv, Idle, RequestInv, RowInv, Target, Version, ChannelTypeOK
  <2>2. StatusInv' /\ MarkInv'
    BY DEF StatusInv, Agree, MarkInv, AloneInv, Idle, RequestInv, RowInv, Target,
       ChannelTypeOK
  <2> QED
    BY <2>1, <2>2 DEF StatusPart
<1>19. ASSUME NEW o \in Op, UndoFails(o) PROVE StatusPart'
  <2> USE <1>19, <1>t DEF UndoFails, Leave
  <2>1. AloneInv' /\ RequestInv' /\ RowInv'
    BY DEF AloneInv, Idle, RequestInv, RowInv, Target, Version, ChannelTypeOK
  <2>2. StatusInv' /\ MarkInv'
    BY DEF StatusInv, Agree, MarkInv, AloneInv, Idle, RequestInv, RowInv, Target,
       ChannelTypeOK
  <2> QED
    BY <2>1, <2>2 DEF StatusPart
<1>20. ASSUME NEW o \in Op, Route(o) PROVE StatusPart'
  <2> USE <1>20, <1>t DEF Route
  <2>1. AloneInv' /\ RequestInv' /\ RowInv'
    BY DEF AloneInv, Idle, RequestInv, RowInv, Target, Version, ChannelTypeOK
  <2>2. StatusInv' /\ MarkInv'
    BY DEF StatusInv, Agree, MarkInv, AloneInv, Idle, RequestInv, RowInv, Target,
       ChannelTypeOK
  <2> QED
    BY <2>1, <2>2 DEF StatusPart
<1>21. ASSUME NEW o \in Op, LoadConfig(o) PROVE StatusPart'
  <2> USE <1>21, <1>t DEF LoadConfig
  <2>1. AloneInv' /\ RequestInv' /\ RowInv'
    BY DEF AloneInv, Idle, RequestInv, RowInv, Target, Version, ChannelTypeOK
  <2>2. StatusInv' /\ MarkInv'
    BY DEF StatusInv, Agree, MarkInv, AloneInv, Idle, RequestInv, RowInv, Target,
       ChannelTypeOK
  <2> QED
    BY <2>1, <2>2 DEF StatusPart
<1>22. ASSUME NEW o \in Op, FillCache(o) PROVE StatusPart'
  <2> USE <1>22, <1>t DEF FillCache
  <2>1. AloneInv' /\ RequestInv' /\ RowInv'
    BY DEF AloneInv, Idle, RequestInv, RowInv, Target, Version, ChannelTypeOK
  <2>2. StatusInv' /\ MarkInv'
    BY DEF StatusInv, Agree, MarkInv, AloneInv, Idle, RequestInv, RowInv, Target,
       ChannelTypeOK
  <2> QED
    BY <2>1, <2>2 DEF StatusPart
<1>23. ASSUME NEW o \in Op, Setup(o) PROVE StatusPart'
  <2> USE <1>23, <1>t DEF Setup
  <2>1. AloneInv' /\ RequestInv' /\ RowInv'
    BY DEF AloneInv, Idle, RequestInv, RowInv, Target, Version, ChannelTypeOK
  <2>2. StatusInv' /\ MarkInv'
    BY DEF StatusInv, Agree, MarkInv, AloneInv, Idle, RequestInv, RowInv, Target,
       ChannelTypeOK
  <2> QED
    BY <2>1, <2>2 DEF StatusPart
<1>24. ASSUME NEW o \in Op, SetupFails(o) PROVE StatusPart'
  <2> USE <1>24, <1>t DEF SetupFails
  <2>1. AloneInv' /\ RequestInv' /\ RowInv'
    BY DEF AloneInv, Idle, RequestInv, RowInv, Target, Version, ChannelTypeOK
  <2>2. StatusInv' /\ MarkInv'
    BY DEF StatusInv, Agree, MarkInv, AloneInv, Idle, RequestInv, RowInv, Target,
       ChannelTypeOK
  <2> QED
    BY <2>1, <2>2 DEF StatusPart
<1>25. ASSUME NEW o \in Op, Teardown(o) PROVE StatusPart'
  <2> USE <1>25, <1>t DEF Teardown
  <2>1. AloneInv' /\ RequestInv' /\ RowInv'
    BY DEF AloneInv, Idle, RequestInv, RowInv, Target, Version, ChannelTypeOK
  <2>2. StatusInv' /\ MarkInv'
    BY DEF StatusInv, Agree, MarkInv, AloneInv, Idle, RequestInv, RowInv, Target,
       ChannelTypeOK
  <2> QED
    BY <2>1, <2>2 DEF StatusPart
<1>26. ASSUME NEW o \in Op, TeardownFails(o) PROVE StatusPart'
  <2> USE <1>26, <1>t DEF TeardownFails
  <2>1. AloneInv' /\ RequestInv' /\ RowInv'
    BY DEF AloneInv, Idle, RequestInv, RowInv, Target, Version, ChannelTypeOK
  <2>2. StatusInv' /\ MarkInv'
    BY DEF StatusInv, Agree, MarkInv, AloneInv, Idle, RequestInv, RowInv, Target,
       ChannelTypeOK
  <2> QED
    BY <2>1, <2>2 DEF StatusPart
<1>27. ASSUME NEW o \in Op, DropCache(o) PROVE StatusPart'
  <2> USE <1>27, <1>t DEF DropCache
  <2>1. AloneInv' /\ RequestInv' /\ RowInv'
    BY DEF AloneInv, Idle, RequestInv, RowInv, Target, Version, ChannelTypeOK
  <2>2. StatusInv' /\ MarkInv'
    BY DEF StatusInv, Agree, MarkInv, AloneInv, Idle, RequestInv, RowInv, Target,
       ChannelTypeOK
  <2> QED
    BY <2>1, <2>2 DEF StatusPart
<1>28. ASSUME NEW o \in Op, SaveRow(o) PROVE StatusPart'
  <2> USE <1>28, <1>t DEF SaveRow
  <2>1. AloneInv' /\ RequestInv' /\ RowInv'
    BY DEF AloneInv, Idle, RequestInv, RowInv, Target, Version, ChannelTypeOK
  <2>2. StatusInv' /\ MarkInv'
    BY DEF StatusInv, Agree, MarkInv, AloneInv, Idle, RequestInv, RowInv, Target,
       ChannelTypeOK
  <2> QED
    BY <2>1, <2>2 DEF StatusPart
<1>29. ASSUME NEW o \in Op, Unheard(o) PROVE StatusPart'
  <2> USE <1>29, <1>t DEF Unheard
  <2>1. AloneInv' /\ RequestInv' /\ RowInv'
    BY DEF AloneInv, Idle, RequestInv, RowInv, Target, Version, ChannelTypeOK
  <2>2. StatusInv' /\ MarkInv'
    BY DEF StatusInv, Agree, MarkInv, AloneInv, Idle, RequestInv, RowInv, Target,
       ChannelTypeOK
  <2> QED
    BY <2>1, <2>2 DEF StatusPart
<1>30. ASSUME NEW o \in Op, RowFails(o) PROVE StatusPart'
  <2> USE <1>30, <1>t DEF RowFails
  <2>1. AloneInv' /\ RequestInv' /\ RowInv'
    BY DEF AloneInv, Idle, RequestInv, RowInv, Target, Version, ChannelTypeOK
  <2>2. StatusInv' /\ MarkInv'
    BY DEF StatusInv, Agree, MarkInv, AloneInv, Idle, RequestInv, RowInv, Target,
       ChannelTypeOK
  <2> QED
    BY <2>1, <2>2 DEF StatusPart
<1>31. ASSUME NEW o \in Op, ReportFails(o) PROVE StatusPart'
  <2> USE <1>31, <1>t DEF ReportFails, Leave
  <2>1. AloneInv' /\ RequestInv' /\ RowInv'
    BY DEF AloneInv, Idle, RequestInv, RowInv, Target, Version, ChannelTypeOK
  <2>2. StatusInv' /\ MarkInv'
    BY DEF StatusInv, Agree, MarkInv, AloneInv, Idle, RequestInv, RowInv, Target,
       ChannelTypeOK
  <2> QED
    BY <2>1, <2>2 DEF StatusPart
<1>32. ASSUME UNCHANGED channelVars PROVE StatusPart'
  BY <1>32, <1>t DEF channelVars, StatusPart, AloneInv, Idle, RequestInv, RowInv, Target,
     Version, StatusInv, Agree, MarkInv
<1> QED
  BY <1>1, <1>2, <1>3, <1>4, <1>5, <1>6, <1>7, <1>8, <1>9, <1>10, <1>11, <1>12, <1>13,
     <1>14, <1>15, <1>16, <1>17, <1>18, <1>19, <1>20, <1>21, <1>22, <1>23, <1>24, <1>25,
     <1>26, <1>27, <1>28, <1>29, <1>30, <1>31, <1>32 DEF ChannelNext, Proceed, Serve

(* Each step of a calm call brings its effect nearer.                       *)
LEMMA EffectStep ==
  ASSUME ChannelTypeOK, StatusPart, EffectPart, [ChannelNext]_channelVars
  PROVE  EffectPart'
<1> USE DEF call, gateway, Goto, Request, Fault, Activating
<1>t. AloneInv /\ RequestInv /\ RowInv /\ MarkInv /\ SeenInv /\ StopInv /\ ConfigInv
  BY DEF StatusPart, EffectPart
<1>1. ASSUME Provision PROVE EffectPart'
  <2> USE <1>1, <1>t DEF Provision
  <2>1. SeenInv' /\ StopInv'
    BY DEF SeenInv, StopInv, Served, AloneInv, Idle, RequestInv, RowInv, MarkInv,
       Target, ChannelTypeOK
  <2>2. ConfigInv'
    BY DEF ConfigInv, Served, AloneInv, Idle, RequestInv, SeenInv, RowInv, MarkInv,
       Target, Version, ChannelTypeOK
  <2> QED
    BY <2>1, <2>2 DEF EffectPart
<1>2. ASSUME DispatchLoads PROVE EffectPart'
  <2> USE <1>2, <1>t DEF DispatchLoads
  <2>1. SeenInv' /\ StopInv'
    BY DEF SeenInv, StopInv, Served, AloneInv, Idle, RequestInv, RowInv, MarkInv,
       Target, ChannelTypeOK
  <2>2. ConfigInv'
    BY DEF ConfigInv, Served, AloneInv, Idle, RequestInv, SeenInv, RowInv, MarkInv,
       Target, Version, ChannelTypeOK
  <2> QED
    BY <2>1, <2>2 DEF EffectPart
<1>3. ASSUME DispatchFills PROVE EffectPart'
  <2> USE <1>3, <1>t DEF DispatchFills
  <2>1. SeenInv' /\ StopInv'
    BY DEF SeenInv, StopInv, Served, AloneInv, Idle, RequestInv, RowInv, MarkInv,
       Target, ChannelTypeOK
  <2>2. ConfigInv'
    BY DEF ConfigInv, Served, AloneInv, Idle, RequestInv, SeenInv, RowInv, MarkInv,
       Target, Version, ChannelTypeOK
  <2> QED
    BY <2>1, <2>2 DEF EffectPart
<1>4. ASSUME EditConfig PROVE EffectPart'
  <2> USE <1>4, <1>t DEF EditConfig
  <2>1. SeenInv' /\ StopInv'
    BY DEF SeenInv, StopInv, Served, AloneInv, Idle, RequestInv, RowInv, MarkInv,
       Target, ChannelTypeOK
  <2>2. ConfigInv'
    BY DEF ConfigInv, Served, AloneInv, Idle, RequestInv, SeenInv, RowInv, MarkInv,
       Target, Version, ChannelTypeOK
  <2> QED
    BY <2>1, <2>2 DEF EffectPart
<1>5. ASSUME ApiRestarts PROVE EffectPart'
  <2> USE <1>5, <1>t DEF ApiRestarts, Busy
  <2>1. SeenInv' /\ StopInv'
    BY DEF SeenInv, StopInv, Served, AloneInv, Idle, RequestInv, RowInv, MarkInv,
       Target, ChannelTypeOK
  <2>2. ConfigInv'
    BY DEF ConfigInv, Served, AloneInv, Idle, RequestInv, SeenInv, RowInv, MarkInv,
       Target, Version, ChannelTypeOK
  <2> QED
    BY <2>1, <2>2 DEF EffectPart
<1>6. ASSUME GatewayRestarts PROVE EffectPart'
  <2> USE <1>6, <1>t DEF GatewayRestarts
  <2>1. SeenInv' /\ StopInv'
    BY DEF SeenInv, StopInv, Served, AloneInv, Idle, RequestInv, RowInv, MarkInv,
       Target, ChannelTypeOK
  <2>2. ConfigInv'
    BY DEF ConfigInv, Served, AloneInv, Idle, RequestInv, SeenInv, RowInv, MarkInv,
       Target, Version, ChannelTypeOK
  <2> QED
    BY <2>1, <2>2 DEF EffectPart
<1>7. ASSUME NEW o \in Op, NEW k \in Kinds, Begin(o, k) PROVE EffectPart'
  <2> USE <1>7, <1>t DEF Begin, Busy, Undisturbed
  <2>1. SeenInv' /\ StopInv'
    BY DEF SeenInv, StopInv, Served, AloneInv, Idle, RequestInv, RowInv, MarkInv,
       Target, ChannelTypeOK
  <2>2. ConfigInv'
    BY DEF ConfigInv, Served, AloneInv, Idle, RequestInv, SeenInv, RowInv, MarkInv,
       Target, Version, ChannelTypeOK
  <2> QED
    BY <2>1, <2>2 DEF EffectPart
<1>8. ASSUME NEW o \in Op, Restart(o) PROVE EffectPart'
  <2> USE <1>8, <1>t DEF Restart, Leave
  <2>1. SeenInv' /\ StopInv'
    BY DEF SeenInv, StopInv, Served, AloneInv, Idle, RequestInv, RowInv, MarkInv,
       Target, ChannelTypeOK
  <2>2. ConfigInv'
    BY DEF ConfigInv, Served, AloneInv, Idle, RequestInv, SeenInv, RowInv, MarkInv,
       Target, Version, ChannelTypeOK
  <2> QED
    BY <2>1, <2>2 DEF EffectPart
<1>9. ASSUME NEW o \in Op, Reread(o) PROVE EffectPart'
  <2> USE <1>9, <1>t DEF Reread
  <2>1. SeenInv' /\ StopInv'
    BY DEF SeenInv, StopInv, Served, AloneInv, Idle, RequestInv, RowInv, MarkInv,
       Target, ChannelTypeOK
  <2>2. ConfigInv'
    BY DEF ConfigInv, Served, AloneInv, Idle, RequestInv, SeenInv, RowInv, MarkInv,
       Target, Version, ChannelTypeOK
  <2> QED
    BY <2>1, <2>2 DEF EffectPart
<1>10. ASSUME NEW o \in Op, Refuse(o) PROVE EffectPart'
  <2> USE <1>10, <1>t DEF Refuse, Leave
  <2>1. SeenInv' /\ StopInv'
    BY DEF SeenInv, StopInv, Served, AloneInv, Idle, RequestInv, RowInv, MarkInv,
       Target, ChannelTypeOK
  <2>2. ConfigInv'
    BY DEF ConfigInv, Served, AloneInv, Idle, RequestInv, SeenInv, RowInv, MarkInv,
       Target, Version, ChannelTypeOK
  <2> QED
    BY <2>1, <2>2 DEF EffectPart
<1>11. ASSUME NEW o \in Op, Post(o) PROVE EffectPart'
  <2> USE <1>11, <1>t DEF Post
  <2>1. SeenInv' /\ StopInv'
    BY DEF SeenInv, StopInv, Served, AloneInv, Idle, RequestInv, RowInv, MarkInv,
       Target, ChannelTypeOK
  <2>2. ConfigInv'
    BY DEF ConfigInv, Served, AloneInv, Idle, RequestInv, SeenInv, RowInv, MarkInv,
       Target, Version, ChannelTypeOK
  <2> QED
    BY <2>1, <2>2 DEF EffectPart
<1>12. ASSUME NEW o \in Op, Answer(o) PROVE EffectPart'
  <2> USE <1>12, <1>t DEF Answer
  <2>1. SeenInv' /\ StopInv'
    BY DEF SeenInv, StopInv, Served, AloneInv, Idle, RequestInv, RowInv, MarkInv,
       Target, ChannelTypeOK
  <2>2. ConfigInv'
    BY DEF ConfigInv, Served, AloneInv, Idle, RequestInv, SeenInv, RowInv, MarkInv,
       Target, Version, ChannelTypeOK
  <2> QED
    BY <2>1, <2>2 DEF EffectPart
<1>13. ASSUME NEW o \in Op, ErrorAnswer(o) PROVE EffectPart'
  <2> USE <1>13, <1>t DEF ErrorAnswer, Fails
  <2>1. SeenInv' /\ StopInv'
    BY DEF SeenInv, StopInv, Served, AloneInv, Idle, RequestInv, RowInv, MarkInv,
       Target, ChannelTypeOK
  <2>2. ConfigInv'
    BY DEF ConfigInv, Served, AloneInv, Idle, RequestInv, SeenInv, RowInv, MarkInv,
       Target, Version, ChannelTypeOK
  <2> QED
    BY <2>1, <2>2 DEF EffectPart
<1>14. ASSUME NEW o \in Op, AnswerLost(o) PROVE EffectPart'
  <2> USE <1>14, <1>t DEF AnswerLost, Fails
  <2>1. SeenInv' /\ StopInv'
    BY DEF SeenInv, StopInv, Served, AloneInv, Idle, RequestInv, RowInv, MarkInv,
       Target, ChannelTypeOK
  <2>2. ConfigInv'
    BY DEF ConfigInv, Served, AloneInv, Idle, RequestInv, SeenInv, RowInv, MarkInv,
       Target, Version, ChannelTypeOK
  <2> QED
    BY <2>1, <2>2 DEF EffectPart
<1>15. ASSUME NEW o \in Op, WriteRow(o) PROVE EffectPart'
  <2> USE <1>15, <1>t DEF WriteRow
  <2>1. SeenInv' /\ StopInv'
    BY DEF SeenInv, StopInv, Served, AloneInv, Idle, RequestInv, RowInv, MarkInv,
       Target, ChannelTypeOK
  <2>2. ConfigInv'
    BY DEF ConfigInv, Served, AloneInv, Idle, RequestInv, SeenInv, RowInv, MarkInv,
       Target, Version, ChannelTypeOK
  <2> QED
    BY <2>1, <2>2 DEF EffectPart
<1>16. ASSUME NEW o \in Op, WriteFails(o) PROVE EffectPart'
  <2> USE <1>16, <1>t DEF WriteFails, Fails
  <2>1. SeenInv' /\ StopInv'
    BY DEF SeenInv, StopInv, Served, AloneInv, Idle, RequestInv, RowInv, MarkInv,
       Target, ChannelTypeOK
  <2>2. ConfigInv'
    BY DEF ConfigInv, Served, AloneInv, Idle, RequestInv, SeenInv, RowInv, MarkInv,
       Target, Version, ChannelTypeOK
  <2> QED
    BY <2>1, <2>2 DEF EffectPart
<1>17. ASSUME NEW o \in Op, Mark(o) PROVE EffectPart'
  <2> USE <1>17, <1>t DEF Mark, Leave
  <2>1. SeenInv' /\ StopInv'
    BY DEF SeenInv, StopInv, Served, AloneInv, Idle, RequestInv, RowInv, MarkInv,
       Target, ChannelTypeOK
  <2>2. ConfigInv'
    BY DEF ConfigInv, Served, AloneInv, Idle, RequestInv, SeenInv, RowInv, MarkInv,
       Target, Version, ChannelTypeOK
  <2> QED
    BY <2>1, <2>2 DEF EffectPart
<1>18. ASSUME NEW o \in Op, Undo(o) PROVE EffectPart'
  <2> USE <1>18, <1>t DEF Undo, Leave
  <2>1. SeenInv' /\ StopInv'
    BY DEF SeenInv, StopInv, Served, AloneInv, Idle, RequestInv, RowInv, MarkInv,
       Target, ChannelTypeOK
  <2>2. ConfigInv'
    BY DEF ConfigInv, Served, AloneInv, Idle, RequestInv, SeenInv, RowInv, MarkInv,
       Target, Version, ChannelTypeOK
  <2> QED
    BY <2>1, <2>2 DEF EffectPart
<1>19. ASSUME NEW o \in Op, UndoFails(o) PROVE EffectPart'
  <2> USE <1>19, <1>t DEF UndoFails, Leave
  <2>1. SeenInv' /\ StopInv'
    BY DEF SeenInv, StopInv, Served, AloneInv, Idle, RequestInv, RowInv, MarkInv,
       Target, ChannelTypeOK
  <2>2. ConfigInv'
    BY DEF ConfigInv, Served, AloneInv, Idle, RequestInv, SeenInv, RowInv, MarkInv,
       Target, Version, ChannelTypeOK
  <2> QED
    BY <2>1, <2>2 DEF EffectPart
<1>20. ASSUME NEW o \in Op, Route(o) PROVE EffectPart'
  <2> USE <1>20, <1>t DEF Route
  <2>1. SeenInv' /\ StopInv'
    BY DEF SeenInv, StopInv, Served, AloneInv, Idle, RequestInv, RowInv, MarkInv,
       Target, ChannelTypeOK
  <2>2. ConfigInv'
    BY DEF ConfigInv, Served, AloneInv, Idle, RequestInv, SeenInv, RowInv, MarkInv,
       Target, Version, ChannelTypeOK
  <2> QED
    BY <2>1, <2>2 DEF EffectPart
<1>21. ASSUME NEW o \in Op, LoadConfig(o) PROVE EffectPart'
  <2> USE <1>21, <1>t DEF LoadConfig
  <2>1. SeenInv' /\ StopInv'
    BY DEF SeenInv, StopInv, Served, AloneInv, Idle, RequestInv, RowInv, MarkInv,
       Target, ChannelTypeOK
  <2>2. ConfigInv'
    BY DEF ConfigInv, Served, AloneInv, Idle, RequestInv, SeenInv, RowInv, MarkInv,
       Target, Version, ChannelTypeOK
  <2> QED
    BY <2>1, <2>2 DEF EffectPart
<1>22. ASSUME NEW o \in Op, FillCache(o) PROVE EffectPart'
  <2> USE <1>22, <1>t DEF FillCache
  <2>1. SeenInv' /\ StopInv'
    BY DEF SeenInv, StopInv, Served, AloneInv, Idle, RequestInv, RowInv, MarkInv,
       Target, ChannelTypeOK
  <2>2. ConfigInv'
    BY DEF ConfigInv, Served, AloneInv, Idle, RequestInv, SeenInv, RowInv, MarkInv,
       Target, Version, ChannelTypeOK
  <2> QED
    BY <2>1, <2>2 DEF EffectPart
<1>23. ASSUME NEW o \in Op, Setup(o) PROVE EffectPart'
  <2> USE <1>23, <1>t DEF Setup
  <2>1. SeenInv' /\ StopInv'
    BY DEF SeenInv, StopInv, Served, AloneInv, Idle, RequestInv, RowInv, MarkInv,
       Target, ChannelTypeOK
  <2>2. ConfigInv'
    BY DEF ConfigInv, Served, AloneInv, Idle, RequestInv, SeenInv, RowInv, MarkInv,
       Target, Version, ChannelTypeOK
  <2> QED
    BY <2>1, <2>2 DEF EffectPart
<1>24. ASSUME NEW o \in Op, SetupFails(o) PROVE EffectPart'
  <2> USE <1>24, <1>t DEF SetupFails
  <2>1. SeenInv' /\ StopInv'
    BY DEF SeenInv, StopInv, Served, AloneInv, Idle, RequestInv, RowInv, MarkInv,
       Target, ChannelTypeOK
  <2>2. ConfigInv'
    BY DEF ConfigInv, Served, AloneInv, Idle, RequestInv, SeenInv, RowInv, MarkInv,
       Target, Version, ChannelTypeOK
  <2> QED
    BY <2>1, <2>2 DEF EffectPart
<1>25. ASSUME NEW o \in Op, Teardown(o) PROVE EffectPart'
  <2> USE <1>25, <1>t DEF Teardown
  <2>1. SeenInv' /\ StopInv'
    BY DEF SeenInv, StopInv, Served, AloneInv, Idle, RequestInv, RowInv, MarkInv,
       Target, ChannelTypeOK
  <2>2. ConfigInv'
    BY DEF ConfigInv, Served, AloneInv, Idle, RequestInv, SeenInv, RowInv, MarkInv,
       Target, Version, ChannelTypeOK
  <2> QED
    BY <2>1, <2>2 DEF EffectPart
<1>26. ASSUME NEW o \in Op, TeardownFails(o) PROVE EffectPart'
  <2> USE <1>26, <1>t DEF TeardownFails
  <2>1. SeenInv' /\ StopInv'
    BY DEF SeenInv, StopInv, Served, AloneInv, Idle, RequestInv, RowInv, MarkInv,
       Target, ChannelTypeOK
  <2>2. ConfigInv'
    BY DEF ConfigInv, Served, AloneInv, Idle, RequestInv, SeenInv, RowInv, MarkInv,
       Target, Version, ChannelTypeOK
  <2> QED
    BY <2>1, <2>2 DEF EffectPart
<1>27. ASSUME NEW o \in Op, DropCache(o) PROVE EffectPart'
  <2> USE <1>27, <1>t DEF DropCache
  <2>1. SeenInv' /\ StopInv'
    BY DEF SeenInv, StopInv, Served, AloneInv, Idle, RequestInv, RowInv, MarkInv,
       Target, ChannelTypeOK
  <2>2. ConfigInv'
    BY DEF ConfigInv, Served, AloneInv, Idle, RequestInv, SeenInv, RowInv, MarkInv,
       Target, Version, ChannelTypeOK
  <2> QED
    BY <2>1, <2>2 DEF EffectPart
<1>28. ASSUME NEW o \in Op, SaveRow(o) PROVE EffectPart'
  <2> USE <1>28, <1>t DEF SaveRow
  <2>1. SeenInv' /\ StopInv'
    BY DEF SeenInv, StopInv, Served, AloneInv, Idle, RequestInv, RowInv, MarkInv,
       Target, ChannelTypeOK
  <2>2. ConfigInv'
    BY DEF ConfigInv, Served, AloneInv, Idle, RequestInv, SeenInv, RowInv, MarkInv,
       Target, Version, ChannelTypeOK
  <2> QED
    BY <2>1, <2>2 DEF EffectPart
<1>29. ASSUME NEW o \in Op, Unheard(o) PROVE EffectPart'
  <2> USE <1>29, <1>t DEF Unheard
  <2>1. SeenInv' /\ StopInv'
    BY DEF SeenInv, StopInv, Served, AloneInv, Idle, RequestInv, RowInv, MarkInv,
       Target, ChannelTypeOK
  <2>2. ConfigInv'
    BY DEF ConfigInv, Served, AloneInv, Idle, RequestInv, SeenInv, RowInv, MarkInv,
       Target, Version, ChannelTypeOK
  <2> QED
    BY <2>1, <2>2 DEF EffectPart
<1>30. ASSUME NEW o \in Op, RowFails(o) PROVE EffectPart'
  <2> USE <1>30, <1>t DEF RowFails
  <2>1. SeenInv' /\ StopInv'
    BY DEF SeenInv, StopInv, Served, AloneInv, Idle, RequestInv, RowInv, MarkInv,
       Target, ChannelTypeOK
  <2>2. ConfigInv'
    BY DEF ConfigInv, Served, AloneInv, Idle, RequestInv, SeenInv, RowInv, MarkInv,
       Target, Version, ChannelTypeOK
  <2> QED
    BY <2>1, <2>2 DEF EffectPart
<1>31. ASSUME NEW o \in Op, ReportFails(o) PROVE EffectPart'
  <2> USE <1>31, <1>t DEF ReportFails, Leave
  <2>1. SeenInv' /\ StopInv'
    BY DEF SeenInv, StopInv, Served, AloneInv, Idle, RequestInv, RowInv, MarkInv,
       Target, ChannelTypeOK
  <2>2. ConfigInv'
    BY DEF ConfigInv, Served, AloneInv, Idle, RequestInv, SeenInv, RowInv, MarkInv,
       Target, Version, ChannelTypeOK
  <2> QED
    BY <2>1, <2>2 DEF EffectPart
<1>32. ASSUME UNCHANGED channelVars PROVE EffectPart'
  BY <1>32, <1>t DEF channelVars, EffectPart, SeenInv, StopInv, Served, AloneInv, Idle,
     RequestInv, RowInv, MarkInv, Target, ConfigInv, Version
<1> QED
  BY <1>1, <1>2, <1>3, <1>4, <1>5, <1>6, <1>7, <1>8, <1>9, <1>10, <1>11, <1>12, <1>13,
     <1>14, <1>15, <1>16, <1>17, <1>18, <1>19, <1>20, <1>21, <1>22, <1>23, <1>24, <1>25,
     <1>26, <1>27, <1>28, <1>29, <1>30, <1>31, <1>32 DEF ChannelNext, Proceed, Serve

ChannelIInv == ChannelTypeOK /\ StatusPart /\ EffectPart

LEMMA ChannelInvariance == ChannelSpec => []ChannelIInv
<1>1. ChannelInit => ChannelIInv
  BY TypeInit, PartsInit DEF ChannelIInv
<1>2. ChannelIInv /\ [ChannelNext]_channelVars => ChannelIInv'
  BY TypeStep, StatusStep, EffectStep DEF ChannelIInv
<1> QED
  BY <1>1, <1>2, PTL DEF ChannelSpec

-----------------------------------------------------------------------------
(* At rest the status in the memory of the API and the row of the channel   *)
(* agree, after failures too, unless calls overlapped, an answer was lost,  *)
(* the API was restarted during a call or the row could not be reset.       *)
THEOREM RecordsDoAgree == ChannelSpec => []RecordsAgree
<1>1. ChannelIInv => RecordsAgree
  BY DEF ChannelIInv, StatusPart, StatusInv, Agree, RecordsAgree, StatusAgrees, Busy
<1> QED
  BY <1>1, ChannelInvariance, PTL

(* Only a call that marks the status returns to its caller, but for the     *)
(* restart whose report fails.                                              *)
LEMMA ReturnsMarks ==
  ASSUME ChannelTypeOK, ChannelNext, NEW o \in Op, Returns(o), kind[o] # "restart"
  PROVE  Mark(o)
<1> USE DEF Returns, call, Goto, ChannelTypeOK
<1>1. ~(Provision \/ DispatchLoads \/ DispatchFills \/ EditConfig)
  BY DEF Provision, DispatchLoads, DispatchFills, EditConfig
<1>2. ~(ApiRestarts \/ GatewayRestarts)
  BY DEF ApiRestarts, GatewayRestarts
<1>3. ASSUME NEW d \in Op, NEW k \in Kinds, Begin(d, k) PROVE FALSE
  BY <1>3 DEF Begin, Busy
<1>4. ASSUME NEW d \in Op, Serve(d) PROVE FALSE
  BY <1>4 DEF Serve, Route, LoadConfig, FillCache, Setup, SetupFails, Teardown,
              TeardownFails, DropCache, SaveRow, RowFails, Unheard
<1>5. ASSUME NEW d \in Op, Proceed(d), ~Mark(d), ~ReportFails(d) PROVE FALSE
  BY <1>5 DEF Proceed, Restart, Reread, Refuse, Post, Answer, ErrorAnswer, AnswerLost,
              WriteRow, WriteFails, Undo, UndoFails, Leave, Fails
<1>6. ASSUME NEW d \in Op, Mark(d) PROVE d = o
  BY <1>6 DEF Mark, Leave
<1>7. ASSUME NEW d \in Op, ReportFails(d) PROVE FALSE
  BY <1>7 DEF ReportFails, Leave
<1> QED
  BY <1>1, <1>2, <1>3, <1>4, <1>5, <1>6, <1>7 DEF ChannelNext

(* A call that nothing disturbed took effect when it returns: a start on    *)
(* the adapter, with no older configuration than the one it found, a stop   *)
(* on the adapter too, both on the row and on the status.                   *)
THEOREM CallsDoTakeEffect == ChannelSpec => CallsTakeEffect
<1>1. ASSUME ChannelIInv, ChannelNext, NEW o \in Op, Returns(o), calm[o],
             kind[o] # "restart"
      PROVE  /\ kind[o] = "start" => /\ up # None /\ up >= asked[o]
                                     /\ row = "active" /\ runtime' = "active"
             /\ kind[o] = "stop" => up = None /\ row = "inactive" /\ runtime' = "stopped"
  <2>1. Mark(o) /\ pc[o] = "mark"
    BY <1>1, ReturnsMarks DEF ChannelIInv, Mark
  <2>2. row = Target(o)
    BY <1>1, <2>1 DEF ChannelIInv, StatusPart, MarkInv
  <2>3. runtime' = IF kind[o] = "start" THEN "active" ELSE "stopped"
    BY <2>1 DEF Mark, Activating
  <2>4. kind[o] = "start" => up # None /\ asked[o] <= up
    BY <1>1, <2>1 DEF ChannelIInv, EffectPart, ConfigInv, Served
  <2>5. kind[o] = "stop" => up = None
    BY <1>1, <2>1 DEF ChannelIInv, EffectPart, StopInv, Served
  <2>6. asked[o] \in Nat /\ up \in Nat \cup {None}
    BY <1>1 DEF ChannelIInv, ChannelTypeOK, Version
  <2> QED
    BY <2>2, <2>3, <2>4, <2>5, <2>6 DEF Target, Activating
<1>2. ChannelIInv /\ [ChannelNext]_channelVars =>
        [\A o \in Op : Returns(o) /\ kind[o] = "start" /\ calm[o] =>
           up # None /\ row = "active" /\ runtime' = "active"]_channelVars
  BY <1>1
<1>3. ChannelIInv /\ [ChannelNext]_channelVars =>
        [\A o \in Op : Returns(o) /\ kind[o] = "stop" /\ calm[o] =>
           up = None /\ row = "inactive" /\ runtime' = "stopped"]_channelVars
  BY <1>1
<1>4. ChannelIInv /\ [ChannelNext]_channelVars =>
        [\A o \in Op : Returns(o) /\ kind[o] = "start" /\ calm[o] =>
           up >= asked[o]]_channelVars
  BY <1>1
<1> QED
  BY <1>2, <1>3, <1>4, ChannelInvariance, PTL
     DEF ChannelSpec, CallsTakeEffect, StartedMeansRunning, StoppedMeansSilent,
         RestartAppliesConfig
=============================================================================
