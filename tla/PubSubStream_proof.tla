------------------------ MODULE PubSubStream_proof -------------------------
(***************************************************************************)
(* Proofs about PubSubStream, for any number of streams. Streams follow    *)
(* one another: before the next is opened the callback of the last one has *)
(* returned, and the supervisor that opens it is the only one.             *)
(***************************************************************************)
EXTENDS PubSubStream, TLAPS

Over(s) == life[s] \in {"ended", "cancelled"}

\* A stream is opened when everything about the earlier ones is over.
OneAfterAnother ==
    \A s, t \in Streams : (s < t /\ life[t] # "unused") =>
        Over(s) /\ registered[s] # "no" /\ doneStep[s] = "returned" /\ s \notin supervisors

\* How far the callback of a stream and its supervisor can be.
CallbackStates ==
    \A s \in Streams :
        /\ doneStep[s] # "check" => Over(s) /\ registered[s] # "no"
        /\ doneStep[s] \in {"mark", "forget", "schedule"} => life[s] = "ended"
        /\ s \in supervisors => life[s] = "ended" /\ doneStep[s] = "returned"

Subscribing == subscribing # None => life[subscribing] # "unused" /\ ~Closing

IInv ==
    /\ TypeOK
    /\ OneAfterAnother
    /\ CallbackStates
    /\ Subscribing
    /\ OpenStreamIsHeld
    /\ NoStreamAfterClose
    /\ UnhealthyIsRecovering

-----------------------------------------------------------------------------
LEMMA InitIInv == Init => IInv
<1> SUFFICES ASSUME Init PROVE IInv
  OBVIOUS
<1> USE StreamAssumption DEF StreamAssumption, Init, Streams, None, InitialBackoff, MaxBackoff
<1>1. TypeOK
  <2>1. delay \in [Streams -> InitialBackoff .. MaxBackoff]
    OBVIOUS
  <2>2. alive \in BOOLEAN
    OBVIOUS
  <2>3. future \in Streams \cup {None} /\ subscribing \in Streams \cup {None}
    OBVIOUS
  <2> QED
    BY <2>1, <2>2, <2>3 DEF TypeOK
<1>2. OneAfterAnother /\ CallbackStates /\ Subscribing
  BY DEF OneAfterAnother, CallbackStates, Subscribing
<1>3. OpenStreamIsHeld /\ NoStreamAfterClose
  BY DEF OpenStreamIsHeld, NoStreamAfterClose
<1>4. UnhealthyIsRecovering
  BY DEF UnhealthyIsRecovering, Started
<1> QED
  BY <1>1, <1>2, <1>3, <1>4 DEF IInv

\* A stream t is opened when there is none yet, or by the supervisor of the last.
LEMMA OpenIInv ==
  ASSUME IInv, NEW t \in Streams, Open(t), ~Closing,
         \/ t = 1 /\ ~Started /\ supervisors' = supervisors
         \/ \E s \in supervisors : supervisors' = supervisors \ {s},
         UNCHANGED <<registered, doneStep, alive, delay, closeStep>>
  PROVE  IInv'
<1> USE StreamAssumption DEF StreamAssumption, Streams, None
<1>1. /\ life[t] = "unused" /\ life' = [life EXCEPT ![t] = "open"]
      /\ \A s \in Streams : life[s] = "unused" => t <= s
      /\ future' = t /\ subscribing' = t
  BY DEF Open, IsNext
<1>2. \A s \in Streams : life'[s] = IF s = t THEN "open" ELSE life[s]
  BY <1>1 DEF IInv, TypeOK
<1>3. \A s \in Streams : s < t =>
          Over(s) /\ registered[s] # "no" /\ doneStep[s] = "returned" /\ s \notin supervisors'
  <2>1. CASE t = 1
    BY <2>1
  <2>2. CASE t # 1
    <3>1. PICK s \in supervisors : supervisors' = supervisors \ {s}
      BY <2>2
    <3>2. s \in Streams /\ life[s] = "ended" /\ doneStep[s] = "returned" /\ registered[s] # "no"
      BY <3>1 DEF IInv, TypeOK, CallbackStates
    <3>3. \A u \in Streams : s < u => life[u] = "unused"
      BY <3>1, <3>2 DEF IInv, OneAfterAnother
    <3>4. \A u \in Streams : u < t => life[u] # "unused"
      BY <1>1
    <3>5. \A u \in Streams : u < t => u < s \/ u = s
      BY <3>2, <3>3, <3>4
    <3>6. \A u \in Streams : u < s =>
              Over(u) /\ registered[u] # "no" /\ doneStep[u] = "returned" /\ u \notin supervisors
      BY <3>2 DEF IInv, OneAfterAnother
    <3> QED
      BY <3>1, <3>2, <3>5, <3>6 DEF Over
  <2> QED
    BY <2>1, <2>2
<1>4. \A s \in Streams : s # t /\ life[s] # "unused" => s < t
  <2>1. SUFFICES ASSUME NEW s \in Streams, t < s, life[s] # "unused" PROVE FALSE
    OBVIOUS
  <2>2. Over(t)
    BY <2>1 DEF IInv, OneAfterAnother
  <2> QED
    BY <1>1, <2>2 DEF Over
<1>5. t \notin supervisors /\ doneStep[t] = "check"
  BY <1>1 DEF IInv, TypeOK, CallbackStates, Over
<1>6. TypeOK'
  BY <1>1 DEF IInv, TypeOK
<1>7. OneAfterAnother'
  <2>1. SUFFICES ASSUME NEW s \in Streams, NEW u \in Streams, s < u, life'[u] # "unused"
                 PROVE  Over(s)' /\ registered'[s] # "no" /\ doneStep'[s] = "returned"
                        /\ s \notin supervisors'
    BY DEF OneAfterAnother
  <2>2. s < t
    BY <1>2, <1>4, <2>1
  <2> QED
    BY <1>2, <1>3, <2>2 DEF Over
<1>8. CallbackStates'
  BY <1>2, <1>5 DEF IInv, CallbackStates, Over
<1>9. Subscribing'
  BY <1>1, <1>2 DEF Subscribing, Closing
<1>10. OpenStreamIsHeld'
  BY <1>1, <1>2, <1>3, <1>4 DEF OpenStreamIsHeld, Over
<1>11. NoStreamAfterClose'
  BY DEF NoStreamAfterClose, Closing
<1>12. UnhealthyIsRecovering'
  BY <1>1 DEF UnhealthyIsRecovering
<1> QED
  BY <1>6, <1>7, <1>8, <1>9, <1>10, <1>11, <1>12 DEF IInv

LEMMA StartIInv == ASSUME IInv, Start PROVE IInv'
<1>1. 1 \in Streams
  BY StreamAssumption DEF StreamAssumption, Streams
<1>2. ~Closing
  BY DEF Start, Closing
<1> QED
  BY <1>1, <1>2, OpenIInv DEF Start

LEMMA ReopenIInv == ASSUME IInv, NEW s \in Streams, Reopen(s) PROVE IInv'
<1>1. PICK t \in Streams : Open(t)
  BY DEF Reopen
<1>2. s \in supervisors /\ supervisors' = supervisors \ {s} /\ ~Closing
  BY DEF Reopen, Awake
<1> QED
  BY <1>1, <1>2, OpenIInv DEF Reopen

LEMMA RegisterIInv == ASSUME IInv, Register PROVE IInv'
<1> USE StreamAssumption DEF StreamAssumption, Streams, None, Register, Closing
<1>1. TypeOK'
  BY DEF IInv, TypeOK
<1>2. OneAfterAnother'
  BY DEF IInv, TypeOK, OneAfterAnother, Over
<1>3. CallbackStates'
  BY DEF IInv, TypeOK, CallbackStates, Over
<1>4. Subscribing'
  BY DEF IInv, TypeOK, Subscribing
<1>5. OpenStreamIsHeld'
  BY DEF IInv, TypeOK, OpenStreamIsHeld
<1>6. NoStreamAfterClose'
  BY DEF IInv, TypeOK, NoStreamAfterClose
<1>7. UnhealthyIsRecovering'
  BY DEF IInv, TypeOK, UnhealthyIsRecovering, Started
<1> QED
  BY <1>1, <1>2, <1>3, <1>4, <1>5, <1>6, <1>7 DEF IInv

LEMMA MarkAliveIInv == ASSUME IInv, MarkAlive PROVE IInv'
<1> USE StreamAssumption DEF StreamAssumption, Streams, None, MarkAlive, Closing
<1>1. TypeOK'
  BY DEF IInv, TypeOK
<1>2. OneAfterAnother'
  BY DEF IInv, TypeOK, OneAfterAnother, Over
<1>3. CallbackStates'
  BY DEF IInv, TypeOK, CallbackStates, Over
<1>4. Subscribing'
  BY DEF IInv, TypeOK, Subscribing
<1>5. OpenStreamIsHeld'
  BY DEF IInv, TypeOK, OpenStreamIsHeld
<1>6. NoStreamAfterClose'
  BY DEF IInv, TypeOK, NoStreamAfterClose
<1>7. UnhealthyIsRecovering'
  BY DEF IInv, TypeOK, UnhealthyIsRecovering, Started
<1> QED
  BY <1>1, <1>2, <1>3, <1>4, <1>5, <1>6, <1>7 DEF IInv

LEMMA StreamEndsIInv == ASSUME IInv, NEW s \in Streams, StreamEnds(s) PROVE IInv'
<1> USE StreamAssumption DEF StreamAssumption, Streams, None, StreamEnds, Closing
<1>1. TypeOK'
  BY DEF IInv, TypeOK
<1>2. OneAfterAnother'
  BY DEF IInv, TypeOK, OneAfterAnother, Over
<1>3. CallbackStates'
  BY DEF IInv, TypeOK, CallbackStates, Over
<1>4. Subscribing'
  BY DEF IInv, TypeOK, Subscribing
<1>5. OpenStreamIsHeld'
  BY DEF IInv, TypeOK, OpenStreamIsHeld
<1>6. NoStreamAfterClose'
  BY DEF IInv, TypeOK, NoStreamAfterClose
<1>7. UnhealthyIsRecovering'
  BY DEF IInv, TypeOK, UnhealthyIsRecovering, Started
<1> QED
  BY <1>1, <1>2, <1>3, <1>4, <1>5, <1>6, <1>7 DEF IInv

LEMMA CheckClosingIInv == ASSUME IInv, NEW s \in Streams, CheckClosing(s) PROVE IInv'
<1> USE StreamAssumption DEF StreamAssumption, Streams, None, CheckClosing, AtDoneStep, Closing
<1>1. TypeOK'
  BY DEF IInv, TypeOK
<1>2. OneAfterAnother'
  BY DEF IInv, TypeOK, OneAfterAnother, Over
<1>3. CallbackStates'
  BY DEF IInv, TypeOK, CallbackStates, Over
<1>4. Subscribing'
  BY DEF IInv, TypeOK, Subscribing
<1>5. OpenStreamIsHeld'
  BY DEF IInv, TypeOK, OpenStreamIsHeld
<1>6. NoStreamAfterClose'
  BY DEF IInv, TypeOK, NoStreamAfterClose
<1>7. UnhealthyIsRecovering'
  BY DEF IInv, TypeOK, UnhealthyIsRecovering, Started
<1> QED
  BY <1>1, <1>2, <1>3, <1>4, <1>5, <1>6, <1>7 DEF IInv

LEMMA MarkDeadIInv == ASSUME IInv, NEW s \in Streams, MarkDead(s) PROVE IInv'
<1> USE StreamAssumption DEF StreamAssumption, Streams, None, MarkDead, AtDoneStep, Closing
<1>1. TypeOK'
  BY DEF IInv, TypeOK
<1>2. OneAfterAnother'
  BY DEF IInv, TypeOK, OneAfterAnother, Over
<1>3. CallbackStates'
  BY DEF IInv, TypeOK, CallbackStates, Over
<1>4. Subscribing'
  BY DEF IInv, TypeOK, Subscribing
<1>5. OpenStreamIsHeld'
  BY DEF IInv, TypeOK, OpenStreamIsHeld
<1>6. NoStreamAfterClose'
  BY DEF IInv, TypeOK, NoStreamAfterClose
<1>7. UnhealthyIsRecovering'
  BY DEF IInv, TypeOK, UnhealthyIsRecovering, Started
<1> QED
  BY <1>1, <1>2, <1>3, <1>4, <1>5, <1>6, <1>7 DEF IInv

LEMMA ForgetIInv == ASSUME IInv, NEW s \in Streams, Forget(s) PROVE IInv'
<1> USE StreamAssumption DEF StreamAssumption, Streams, None, Forget, AtDoneStep, Closing
<1>1. TypeOK'
  BY DEF IInv, TypeOK
<1>2. OneAfterAnother'
  BY DEF IInv, TypeOK, OneAfterAnother, Over
<1>3. CallbackStates'
  BY DEF IInv, TypeOK, CallbackStates, Over
<1>4. Subscribing'
  BY DEF IInv, TypeOK, Subscribing
<1>5. OpenStreamIsHeld'
  <2>1. \A t \in Streams : life[t] # "open"
    <3>1. Over(s) /\ doneStep[s] = "forget"
      BY DEF Over
    <3>2. SUFFICES ASSUME NEW t \in Streams, life[t] = "open" PROVE FALSE
      OBVIOUS
    <3>3. ~(t < s) /\ ~(s < t)
      BY <3>1, <3>2 DEF IInv, OneAfterAnother, Over
    <3>4. t = s
      BY <3>3
    <3> QED
      BY <3>1, <3>2, <3>4 DEF Over
  <2> QED
    BY <2>1 DEF OpenStreamIsHeld
<1>6. NoStreamAfterClose'
  BY DEF IInv, TypeOK, NoStreamAfterClose
<1>7. UnhealthyIsRecovering'
  BY DEF IInv, TypeOK, UnhealthyIsRecovering, Started
<1> QED
  BY <1>1, <1>2, <1>3, <1>4, <1>5, <1>6, <1>7 DEF IInv

LEMMA ScheduleIInv == ASSUME IInv, NEW s \in Streams, Schedule(s) PROVE IInv'
<1> USE StreamAssumption DEF StreamAssumption, Streams, None, Schedule, AtDoneStep, Closing
<1>1. TypeOK'
  BY DEF IInv, TypeOK
<1>2. OneAfterAnother'
  <2>1. \A t \in Streams : s < t => life[t] = "unused"
    BY DEF IInv, OneAfterAnother
  <2> QED
    BY <2>1 DEF IInv, TypeOK, OneAfterAnother, Over
<1>3. CallbackStates'
  <2>1. life[s] = "ended"
    BY DEF IInv, CallbackStates
  <2> QED
    BY <2>1 DEF IInv, TypeOK, CallbackStates, Over
<1>4. Subscribing'
  BY DEF IInv, TypeOK, Subscribing
<1>5. OpenStreamIsHeld'
  BY DEF IInv, TypeOK, OpenStreamIsHeld
<1>6. NoStreamAfterClose'
  BY DEF IInv, TypeOK, NoStreamAfterClose
<1>7. UnhealthyIsRecovering'
  BY DEF IInv, TypeOK, UnhealthyIsRecovering, Started
<1> QED
  BY <1>1, <1>2, <1>3, <1>4, <1>5, <1>6, <1>7 DEF IInv

LEMMA SupervisorReturnsIInv == ASSUME IInv, NEW s \in Streams, SupervisorReturns(s) PROVE IInv'
<1> USE StreamAssumption DEF StreamAssumption, Streams, None, SupervisorReturns, Awake, Closing
<1>1. TypeOK'
  BY DEF IInv, TypeOK
<1>2. OneAfterAnother'
  BY DEF IInv, TypeOK, OneAfterAnother, Over
<1>3. CallbackStates'
  BY DEF IInv, TypeOK, CallbackStates, Over
<1>4. Subscribing'
  BY DEF IInv, TypeOK, Subscribing
<1>5. OpenStreamIsHeld'
  BY DEF IInv, TypeOK, OpenStreamIsHeld
<1>6. NoStreamAfterClose'
  BY DEF IInv, TypeOK, NoStreamAfterClose
<1>7. UnhealthyIsRecovering'
  BY DEF IInv, TypeOK, UnhealthyIsRecovering, Started
<1> QED
  BY <1>1, <1>2, <1>3, <1>4, <1>5, <1>6, <1>7 DEF IInv

LEMMA ReopenFailsIInv == ASSUME IInv, NEW s \in Streams, ReopenFails(s) PROVE IInv'
<1> USE StreamAssumption DEF StreamAssumption, Streams, None, ReopenFails, Awake, Closing
<1>1. TypeOK'
  <2>1. \A n \in InitialBackoff .. MaxBackoff :
            (IF 2 * n < MaxBackoff THEN 2 * n ELSE MaxBackoff) \in InitialBackoff .. MaxBackoff
    BY DEF InitialBackoff, MaxBackoff
  <2>2. delay \in [Streams -> InitialBackoff .. MaxBackoff]
    BY DEF IInv, TypeOK
  <2>3. delay' \in [Streams -> InitialBackoff .. MaxBackoff]
    BY <2>1, <2>2
  <2> QED
    BY <2>3 DEF IInv, TypeOK
<1>2. OneAfterAnother'
  BY DEF IInv, TypeOK, OneAfterAnother, Over
<1>3. CallbackStates'
  BY DEF IInv, TypeOK, CallbackStates, Over
<1>4. Subscribing'
  BY DEF IInv, TypeOK, Subscribing
<1>5. OpenStreamIsHeld'
  BY DEF IInv, TypeOK, OpenStreamIsHeld
<1>6. NoStreamAfterClose'
  BY DEF IInv, TypeOK, NoStreamAfterClose
<1>7. UnhealthyIsRecovering'
  BY DEF IInv, TypeOK, UnhealthyIsRecovering, Started
<1> QED
  BY <1>1, <1>2, <1>3, <1>4, <1>5, <1>6, <1>7 DEF IInv

LEMMA BeginCloseIInv == ASSUME IInv, BeginClose PROVE IInv'
<1> USE StreamAssumption DEF StreamAssumption, Streams, None, BeginClose, Closing
<1>1. TypeOK'
  BY DEF IInv, TypeOK
<1>2. OneAfterAnother'
  BY DEF IInv, TypeOK, OneAfterAnother, Over
<1>3. CallbackStates'
  BY DEF IInv, TypeOK, CallbackStates, Over
<1>4. Subscribing'
  BY DEF IInv, TypeOK, Subscribing
<1>5. OpenStreamIsHeld'
  BY DEF IInv, TypeOK, OpenStreamIsHeld
<1>6. NoStreamAfterClose'
  BY DEF IInv, TypeOK, NoStreamAfterClose
<1>7. UnhealthyIsRecovering'
  BY DEF IInv, TypeOK, UnhealthyIsRecovering, Started
<1> QED
  BY <1>1, <1>2, <1>3, <1>4, <1>5, <1>6, <1>7 DEF IInv

LEMMA CancelStreamIInv == ASSUME IInv, CancelStream PROVE IInv'
<1> USE StreamAssumption DEF StreamAssumption, Streams, None, CancelStream, Closing
<1>1. TypeOK'
  BY DEF IInv, TypeOK
<1>2. OneAfterAnother'
  BY DEF IInv, TypeOK, OneAfterAnother, Over
<1>3. CallbackStates'
  BY DEF IInv, TypeOK, CallbackStates, Over
<1>4. Subscribing'
  BY DEF IInv, TypeOK, Subscribing
<1>5. OpenStreamIsHeld'
  BY DEF IInv, TypeOK, OpenStreamIsHeld
<1>6. NoStreamAfterClose'
  BY DEF IInv, TypeOK, OpenStreamIsHeld, NoStreamAfterClose
<1>7. UnhealthyIsRecovering'
  BY DEF IInv, TypeOK, UnhealthyIsRecovering, Started
<1> QED
  BY <1>1, <1>2, <1>3, <1>4, <1>5, <1>6, <1>7 DEF IInv

LEMMA FinishCloseIInv == ASSUME IInv, FinishClose PROVE IInv'
<1> USE StreamAssumption DEF StreamAssumption, Streams, None, FinishClose, Closing
<1>1. TypeOK'
  BY DEF IInv, TypeOK
<1>2. OneAfterAnother'
  BY DEF IInv, TypeOK, OneAfterAnother, Over
<1>3. CallbackStates'
  BY DEF IInv, TypeOK, CallbackStates, Over
<1>4. Subscribing'
  BY DEF IInv, TypeOK, Subscribing
<1>5. OpenStreamIsHeld'
  BY DEF IInv, TypeOK, OpenStreamIsHeld
<1>6. NoStreamAfterClose'
  BY DEF IInv, TypeOK, NoStreamAfterClose
<1>7. UnhealthyIsRecovering'
  BY DEF IInv, TypeOK, UnhealthyIsRecovering, Started
<1> QED
  BY <1>1, <1>2, <1>3, <1>4, <1>5, <1>6, <1>7 DEF IInv

LEMMA NextIInv == IInv /\ [Next]_vars => IInv'
<1> SUFFICES ASSUME IInv, [Next]_vars PROVE IInv'
  OBVIOUS
<1>1. CASE UNCHANGED vars
  BY <1>1 DEF vars, IInv, TypeOK, OneAfterAnother, Over, CallbackStates, Subscribing, Closing,
              OpenStreamIsHeld, NoStreamAfterClose, UnhealthyIsRecovering, Started
<1> QED
  BY <1>1, StartIInv, ReopenIInv, RegisterIInv, MarkAliveIInv, StreamEndsIInv, CheckClosingIInv,
     MarkDeadIInv, ForgetIInv, ScheduleIInv, SupervisorReturnsIInv, ReopenFailsIInv,
     BeginCloseIInv, CancelStreamIInv, FinishCloseIInv
     DEF Next

\* IInv holds in every state of every behaviour.
THEOREM Invariance == Spec => []IInv
<1> QED
  BY InitIInv, NextIInv, PTL DEF Spec

-----------------------------------------------------------------------------
\* The types; a supervisor never sleeps longer than the cap.
THEOREM TypeCorrect == Spec => []TypeOK
<1>1. IInv => TypeOK
  BY DEF IInv
<1> QED
  BY <1>1, Invariance, PTL

\* At most one streaming pull is open, and close() can cancel it.
THEOREM OpenIsHeld == Spec => []OpenStreamIsHeld
<1>1. IInv => OpenStreamIsHeld
  BY DEF IInv
<1> QED
  BY <1>1, Invariance, PTL

\* close() is final.
THEOREM CloseIsFinal == Spec => []NoStreamAfterClose
<1>1. IInv => NoStreamAfterClose
  BY DEF IInv
<1> QED
  BY <1>1, Invariance, PTL

\* An unhealthy process that is not closing has a reconnect under way.
THEOREM RecoveryUnderWay == Spec => []UnhealthyIsRecovering
<1>1. IInv => UnhealthyIsRecovering
  BY DEF IInv
<1> QED
  BY <1>1, Invariance, PTL

-----------------------------------------------------------------------------
(* The silent outage needs a stream that ends while _subscribe is opening  *)
(* it: at any other moment the callback has the last word.                 *)

\* No stream ends between its opening and _stream_alive = True.
EndsAfterSubscribe == [][\A s \in Streams : subscribing = s => life'[s] # "ended"]_vars

\* The done-callback of s is about to take the flag back.
WillMarkDead(s) ==
    life[s] = "ended" /\ registered[s] = "live" /\ doneStep[s] \in {"check", "mark"}

\* A process that is healthy with no stream is one whose callback has just begun.
OutageIsNoticed == SilentOutage => \E s \in Streams : WillMarkDead(s)

\* The flag stands for a stream that is open and watched, or for its callback.
FlagIsBacked ==
    /\ subscribing # None => life[subscribing] = "open" /\ ~alive
    /\ alive /\ ~Closing =>
          \E s \in Streams : \/ life[s] = "open" /\ registered[s] = "live"
                             \/ WillMarkDead(s)

LEMMA FlagStep ==
    ASSUME IInv, FlagIsBacked, [Next]_vars,
           \A s \in Streams : subscribing = s => life'[s] # "ended"
    PROVE  FlagIsBacked'
<1> USE StreamAssumption DEF StreamAssumption, Streams, None
<1>0. TypeOK /\ CallbackStates /\ Subscribing
  BY DEF IInv
<1>1. CASE Start
  <2>1. ~alive
    BY <1>1 DEF IInv, FlagIsBacked, Start, Started, Closing, WillMarkDead, OneAfterAnother, Over
  <2> QED
    BY <1>0, <1>1, <2>1 DEF TypeOK, Start, Open, FlagIsBacked, Closing
<1>2. CASE Register
  BY <1>0, <1>2 DEF TypeOK, Register, FlagIsBacked, Closing, WillMarkDead
<1>3. CASE MarkAlive
  <2>1. life[subscribing] = "open" /\ registered[subscribing] = "live"
    BY <1>0, <1>3 DEF MarkAlive, FlagIsBacked, CallbackStates, Over, TypeOK
  <2> QED
    BY <1>0, <1>3, <2>1 DEF TypeOK, MarkAlive, FlagIsBacked
<1>4. ASSUME NEW s \in Streams, StreamEnds(s) PROVE FlagIsBacked'
  <2>1. subscribing # s /\ doneStep[s] = "check"
    BY <1>0, <1>4 DEF StreamEnds, CallbackStates, Over, TypeOK
  <2> QED
    BY <1>0, <1>4, <2>1 DEF TypeOK, StreamEnds, FlagIsBacked, WillMarkDead, Closing
<1>5. ASSUME NEW s \in Streams, CheckClosing(s) PROVE FlagIsBacked'
  BY <1>0, <1>5 DEF TypeOK, CheckClosing, AtDoneStep, FlagIsBacked, WillMarkDead, Closing
<1>6. ASSUME NEW s \in Streams, MarkDead(s) PROVE FlagIsBacked'
  BY <1>0, <1>6 DEF TypeOK, MarkDead, FlagIsBacked
<1>7. ASSUME NEW s \in Streams, Forget(s) \/ Schedule(s) PROVE FlagIsBacked'
  <2>1. /\ doneStep[s] \in {"forget", "schedule"} /\ UNCHANGED <<life, registered>>
        /\ UNCHANGED <<subscribing, alive, closeStep>>
        /\ \A t \in Streams : t # s => doneStep'[t] = doneStep[t]
    BY <1>0, <1>7 DEF TypeOK, Forget, Schedule, AtDoneStep
  <2>2. \A t \in Streams : WillMarkDead(t) => WillMarkDead(t)'
    BY <2>1 DEF WillMarkDead
  <2> QED
    BY <2>1, <2>2 DEF FlagIsBacked, Closing
<1>8. ASSUME NEW s \in Streams, SupervisorReturns(s) \/ ReopenFails(s) PROVE FlagIsBacked'
  BY <1>8 DEF SupervisorReturns, ReopenFails, FlagIsBacked, WillMarkDead, Closing
<1>9. ASSUME NEW s \in Streams, Reopen(s) PROVE FlagIsBacked'
  BY <1>0, <1>9 DEF TypeOK, Reopen, Open, FlagIsBacked, Closing
<1>10. CASE BeginClose \/ CancelStream \/ FinishClose
  BY <1>0, <1>10 DEF TypeOK, BeginClose, CancelStream, FinishClose, FlagIsBacked, Closing
<1>11. CASE UNCHANGED vars
  BY <1>11 DEF vars, FlagIsBacked, WillMarkDead, Closing
<1> QED
  BY <1>1, <1>2, <1>3, <1>4, <1>5, <1>6, <1>7, <1>8, <1>9, <1>10, <1>11 DEF Next

\* If no stream ends while it is being subscribed to, a healthy process has an
\* open stream or a done-callback about to report it dead: the window in
\* _subscribe is all there is to the silent outage.
THEOREM OnlySubscribingIsBlind == Spec /\ EndsAfterSubscribe => []OutageIsNoticed
<1>1. Init => FlagIsBacked
  BY DEF Init, FlagIsBacked
<1>2. IInv /\ FlagIsBacked /\ [Next]_vars
        /\ [\A s \in Streams : subscribing = s => life'[s] # "ended"]_vars => FlagIsBacked'
  <2> SUFFICES ASSUME IInv, FlagIsBacked, [Next]_vars,
                      [\A s \in Streams : subscribing = s => life'[s] # "ended"]_vars
               PROVE  FlagIsBacked'
    OBVIOUS
  <2>1. CASE \A s \in Streams : subscribing = s => life'[s] # "ended"
    BY <2>1, FlagStep
  <2>2. CASE UNCHANGED vars
    BY <2>2 DEF vars, FlagIsBacked, WillMarkDead, Closing
  <2> QED
    BY <2>1, <2>2
<1>3. FlagIsBacked => OutageIsNoticed
  BY DEF FlagIsBacked, OutageIsNoticed, SilentOutage, IsHealthy
<1> QED
  BY <1>1, <1>2, <1>3, Invariance, PTL DEF Spec, EndsAfterSubscribe
=============================================================================
