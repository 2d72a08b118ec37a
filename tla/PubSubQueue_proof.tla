------------------------- MODULE PubSubQueue_proof -------------------------
(***************************************************************************)
(* Proofs about PubSubQueue, for any number of deliveries, workers and     *)
(* places in the queue. Every safety property is a consequence of IInv,    *)
(* which is inductive: each receipt has exactly one owner among the sets   *)
(* of the adapter, and its count of settling calls says whether it has one.*)
(***************************************************************************)
EXTENDS PubSubQueue, FiniteSetTheorems, TLAPS

\* The sets a receipt passes through are disjoint.
Disjoint ==
    /\ fresh \cap Unsettled = {}
    /\ callbacks \cap (handoffs \cup buffered \cup inFlight) = {}
    /\ handoffs \cap (buffered \cup inFlight) = {}
    /\ buffered \cap inFlight = {}

\* A receipt was settled once if it has left those sets, and never before.
CallsCount ==
    \A r \in Receipts :
        calls[r] = IF r \in fresh \cup Unsettled THEN 0 ELSE 1

\* A delivery is in the queue, in one dequeue() or with one worker.
Holders ==
    /\ deliveries \cap (fresh \cup callbacks \cup handoffs \cup inFlight) = {}
    /\ \A w \in Workers : got[w] # None =>
           got[w] \notin fresh \cup callbacks \cup handoffs \cup deliveries \cup inFlight
    /\ \A w \in Workers : held[w] # None =>
           held[w] \notin fresh \cup callbacks \cup handoffs \cup deliveries \cup buffered
    /\ \A w \in Workers : got[w] = None \/ held[w] = None
    /\ \A v, w \in Workers : held[w] # None => held[w] # got[v]
    /\ \A v, w \in Workers : v # w /\ got[w] # None => got[w] # got[v]
    /\ \A v, w \in Workers : v # w /\ held[w] # None => held[w] # held[v]

\* What close() and the life of the stream have to do with what is held.
Shutdown ==
    /\ closeStep = "flush" => handoffs \subseteq ahead
    /\ ReleasedBeforeClosed
    /\ stream = "cancelled" => closeStep \in {"join", "closed"}
    /\ stream \in {"none", "down"} => callbacks = {}
    /\ NothingUnsentAfterCancel

IInv ==
    /\ TypeOK
    /\ IsFiniteSet(deliveries)
    /\ Disjoint
    /\ CallsCount
    /\ Holders
    /\ NothingStranded
    /\ Shutdown

-----------------------------------------------------------------------------
LEMMA InitIInv == Init => IInv
<1> SUFFICES ASSUME Init PROVE IInv
  OBVIOUS
<1> USE PubSubAssumption DEF Init
<1>1. IsFiniteSet(deliveries) /\ Cardinality(deliveries) = 0
  BY FS_EmptySet
<1>2. TypeOK
  BY <1>1 DEF TypeOK
<1>3. Disjoint /\ CallsCount /\ Holders
  BY DEF Disjoint, CallsCount, Holders, Unsettled
<1>4. NothingStranded /\ Shutdown
  BY DEF NothingStranded, Shutdown, ReleasedBeforeClosed, NothingUnsentAfterCancel, Unsettled
<1> QED
  BY <1>1, <1>2, <1>3, <1>4 DEF IInv

LEMMA SubscribeIInv == ASSUME IInv, Subscribe PROVE IInv'
<1> USE PubSubAssumption DEF Subscribe, workerVars, Closing
<1>1. TypeOK'
  BY DEF IInv, TypeOK
<1>2. IsFiniteSet(deliveries)'
  BY DEF IInv
<1>3. Disjoint'
  BY DEF IInv, TypeOK, Disjoint, Unsettled
<1>4. CallsCount'
  BY DEF IInv, TypeOK, Disjoint, CallsCount, Unsettled
<1>5. Holders'
  BY DEF IInv, TypeOK, Disjoint, Holders, Unsettled
<1>6. NothingStranded'
  BY DEF IInv, TypeOK, Disjoint, Holders, NothingStranded
<1>7. Shutdown'
  BY DEF IInv, Shutdown, ReleasedBeforeClosed, NothingUnsentAfterCancel, Unsettled
<1> QED
  BY <1>1, <1>2, <1>3, <1>4, <1>5, <1>6, <1>7 DEF IInv

LEMMA OnMessageIInv == ASSUME IInv, NEW r \in Receipts, OnMessage(r) PROVE IInv'
<1> USE PubSubAssumption DEF OnMessage, Settle, Closing, workerVars
<1>1. TypeOK'
  BY DEF IInv, TypeOK
<1>2. IsFiniteSet(deliveries)'
  BY DEF IInv
<1>3. Disjoint'
  BY DEF IInv, TypeOK, Disjoint, Unsettled
<1>4. CallsCount'
  BY DEF IInv, TypeOK, Disjoint, CallsCount, Unsettled
<1>5. Holders'
  BY DEF IInv, TypeOK, Disjoint, Holders, Unsettled
<1>6. NothingStranded'
  BY DEF IInv, TypeOK, Disjoint, Holders, NothingStranded
<1>7. Shutdown'
  BY DEF IInv, Shutdown, ReleasedBeforeClosed, NothingUnsentAfterCancel, Unsettled
<1> QED
  BY <1>1, <1>2, <1>3, <1>4, <1>5, <1>6, <1>7 DEF IInv

LEMMA RejectIInv == ASSUME IInv, NEW r \in Receipts, Reject(r) PROVE IInv'
<1> USE PubSubAssumption DEF Reject, Settle, workerVars
<1>1. TypeOK'
  BY DEF IInv, TypeOK
<1>2. IsFiniteSet(deliveries)'
  BY DEF IInv
<1>3. Disjoint'
  BY DEF IInv, TypeOK, Disjoint, Unsettled
<1>4. CallsCount'
  BY DEF IInv, TypeOK, Disjoint, CallsCount, Unsettled
<1>5. Holders'
  BY DEF IInv, TypeOK, Disjoint, Holders, Unsettled
<1>6. NothingStranded'
  BY DEF IInv, TypeOK, Disjoint, Holders, NothingStranded
<1>7. Shutdown'
  BY DEF IInv, Shutdown, ReleasedBeforeClosed, NothingUnsentAfterCancel, Unsettled
<1> QED
  BY <1>1, <1>2, <1>3, <1>4, <1>5, <1>6, <1>7 DEF IInv

LEMMA HandOffIInv == ASSUME IInv, NEW r \in Receipts, HandOff(r) PROVE IInv'
<1> USE PubSubAssumption DEF HandOff, Settle, Closing, workerVars
<1>1. TypeOK'
  BY DEF IInv, TypeOK
<1>2. IsFiniteSet(deliveries)'
  BY DEF IInv
<1>3. Disjoint'
  BY DEF IInv, TypeOK, Disjoint, Unsettled
<1>4. CallsCount'
  BY DEF IInv, TypeOK, Disjoint, CallsCount, Unsettled
<1>5. Holders'
  BY DEF IInv, TypeOK, Disjoint, Holders, Unsettled
<1>6. NothingStranded'
  BY DEF IInv, TypeOK, Disjoint, Holders, NothingStranded
<1>7. Shutdown'
  BY DEF IInv, Shutdown, ReleasedBeforeClosed, NothingUnsentAfterCancel, Unsettled
<1> QED
  BY <1>1, <1>2, <1>3, <1>4, <1>5, <1>6, <1>7 DEF IInv

LEMMA LeaseExpiresIInv == ASSUME IInv, NEW r \in Receipts, LeaseExpires(r) PROVE IInv'
<1> USE PubSubAssumption DEF LeaseExpires, workerVars
<1>1. TypeOK'
  BY DEF IInv, TypeOK
<1>2. IsFiniteSet(deliveries)'
  BY DEF IInv
<1>3. Disjoint'
  BY DEF IInv, TypeOK, Disjoint, Unsettled
<1>4. CallsCount'
  BY DEF IInv, TypeOK, Disjoint, CallsCount, Unsettled
<1>5. Holders'
  BY DEF IInv, TypeOK, Disjoint, Holders, Unsettled
<1>6. NothingStranded'
  BY DEF IInv, TypeOK, Disjoint, Holders, NothingStranded
<1>7. Shutdown'
  BY DEF IInv, Shutdown, ReleasedBeforeClosed, NothingUnsentAfterCancel, Unsettled
<1> QED
  BY <1>1, <1>2, <1>3, <1>4, <1>5, <1>6, <1>7 DEF IInv

LEMMA StreamFailsIInv == ASSUME IInv, StreamFails PROVE IInv'
<1> USE PubSubAssumption DEF StreamFails, workerVars
<1>1. TypeOK'
  BY DEF IInv, TypeOK
<1>2. IsFiniteSet(deliveries)'
  BY DEF IInv
<1>3. Disjoint'
  BY DEF IInv, TypeOK, Disjoint, Unsettled
<1>4. CallsCount'
  BY DEF IInv, TypeOK, Disjoint, CallsCount, Unsettled
<1>5. Holders'
  BY DEF IInv, TypeOK, Disjoint, Holders, Unsettled
<1>6. NothingStranded'
  BY DEF IInv, TypeOK, Disjoint, Holders, NothingStranded
<1>7. Shutdown'
  BY DEF IInv, Shutdown, ReleasedBeforeClosed, NothingUnsentAfterCancel, Unsettled
<1> QED
  BY <1>1, <1>2, <1>3, <1>4, <1>5, <1>6, <1>7 DEF IInv

LEMMA LibraryStopsIInv == ASSUME IInv, LibraryStops PROVE IInv'
<1> USE PubSubAssumption DEF LibraryStops, workerVars
<1>1. TypeOK'
  BY DEF IInv, TypeOK, Unsettled
<1>2. IsFiniteSet(deliveries)'
  BY DEF IInv
<1>3. Disjoint'
  BY DEF IInv, TypeOK, Disjoint, Unsettled
<1>4. CallsCount'
  BY DEF IInv, TypeOK, Disjoint, CallsCount, Unsettled
<1>5. Holders'
  BY DEF IInv, TypeOK, Disjoint, Holders, Unsettled
<1>6. NothingStranded'
  BY DEF IInv, TypeOK, Disjoint, Holders, NothingStranded
<1>7. Shutdown'
  BY DEF IInv, Shutdown, ReleasedBeforeClosed, NothingUnsentAfterCancel, Unsettled
<1> QED
  BY <1>1, <1>2, <1>3, <1>4, <1>5, <1>6, <1>7 DEF IInv

LEMMA AcceptIInv == ASSUME IInv, NEW r \in Receipts, Accept(r) PROVE IInv'
<1> USE PubSubAssumption DEF Accept, Settle, Refused, Closing, workerVars
<1>a. IsFiniteSet(deliveries)' /\ (Cardinality(deliveries) <= MaxMessages)'
  <2>1. CASE Refused(r)
    BY <2>1 DEF IInv, TypeOK
  <2>2. CASE ~Refused(r)
    <3>1. deliveries' = deliveries \cup {r} /\ Cardinality(deliveries) # MaxMessages
      BY <2>2 DEF IInv, TypeOK
    <3>2. IsFiniteSet(deliveries') /\ Cardinality(deliveries') <= Cardinality(deliveries) + 1
      <4>1. IsFiniteSet(deliveries) /\ Cardinality(deliveries) \in Nat
        BY FS_CardinalityType DEF IInv
      <4>2. /\ IsFiniteSet(deliveries \cup {r})
            /\ \/ Cardinality(deliveries \cup {r}) = Cardinality(deliveries)
               \/ Cardinality(deliveries \cup {r}) = Cardinality(deliveries) + 1
        BY ONLY <4>1, FS_AddElement
      <4> QED
        BY ONLY <4>1, <4>2, <3>1
    <3> QED
      BY <3>1, <3>2, FS_CardinalityType DEF IInv, TypeOK
  <2> QED
    BY <2>1, <2>2
<1>1. TypeOK'
  BY <1>a DEF IInv, TypeOK
<1>2. IsFiniteSet(deliveries)'
  BY <1>a
<1>3. Disjoint'
  BY DEF IInv, TypeOK, Disjoint, Unsettled
<1>4. CallsCount'
  BY DEF IInv, TypeOK, Disjoint, CallsCount, Unsettled
<1>5. Holders'
  BY DEF IInv, TypeOK, Disjoint, Holders, Unsettled
<1>6. NothingStranded'
  BY DEF IInv, TypeOK, Disjoint, Holders, NothingStranded
<1>7. Shutdown'
  BY DEF IInv, Shutdown, ReleasedBeforeClosed, NothingUnsentAfterCancel, Unsettled
<1> QED
  BY <1>1, <1>2, <1>3, <1>4, <1>5, <1>6, <1>7 DEF IInv

LEMMA TakeIInv == ASSUME IInv, NEW w \in Workers, Take(w) PROVE IInv'
<1> USE PubSubAssumption DEF Take
<1>a. IsFiniteSet(deliveries') /\ Cardinality(deliveries') <= Cardinality(deliveries)
  BY FS_Subset DEF IInv
<1>1. TypeOK'
  <2>1. Cardinality(deliveries') \in Nat /\ Cardinality(deliveries) \in Nat
    BY <1>a, FS_CardinalityType DEF IInv
  <2> QED
    BY <1>a, <2>1 DEF IInv, TypeOK
<1>2. IsFiniteSet(deliveries)'
  BY <1>a
<1>3. Disjoint'
  BY DEF IInv, TypeOK, Disjoint, Unsettled
<1>4. CallsCount'
  BY DEF IInv, TypeOK, Disjoint, CallsCount, Unsettled
<1>5. Holders'
  BY DEF IInv, TypeOK, Disjoint, Holders, Unsettled
<1>6. NothingStranded'
  BY DEF IInv, TypeOK, Disjoint, Holders, NothingStranded
<1>7. Shutdown'
  BY DEF IInv, Shutdown, ReleasedBeforeClosed, NothingUnsentAfterCancel, Unsettled
<1> QED
  BY <1>1, <1>2, <1>3, <1>4, <1>5, <1>6, <1>7 DEF IInv

LEMMA DequeueIInv == ASSUME IInv, NEW w \in Workers, Dequeue(w) PROVE IInv'
<1> USE PubSubAssumption DEF Dequeue
<1>1. TypeOK'
  BY DEF IInv, TypeOK
<1>2. IsFiniteSet(deliveries)'
  BY DEF IInv
<1>3. Disjoint'
  BY DEF IInv, TypeOK, Disjoint, Unsettled
<1>4. CallsCount'
  BY DEF IInv, TypeOK, Disjoint, CallsCount, Unsettled
<1>5. Holders'
  BY DEF IInv, TypeOK, Disjoint, Holders, Unsettled
<1>6. NothingStranded'
  BY DEF IInv, TypeOK, Disjoint, Holders, NothingStranded
<1>7. Shutdown'
  BY DEF IInv, Shutdown, ReleasedBeforeClosed, NothingUnsentAfterCancel, Unsettled
<1> QED
  BY <1>1, <1>2, <1>3, <1>4, <1>5, <1>6, <1>7 DEF IInv

LEMMA AckOrNackIInv == ASSUME IInv, NEW w \in Workers, AckOrNack(w) PROVE IInv'
<1> USE PubSubAssumption DEF AckOrNack, Settle
<1>1. TypeOK'
  BY DEF IInv, TypeOK
<1>2. IsFiniteSet(deliveries)'
  BY DEF IInv
<1>3. Disjoint'
  BY DEF IInv, TypeOK, Disjoint, Unsettled
<1>4. CallsCount'
  BY DEF IInv, TypeOK, Disjoint, CallsCount, Unsettled
<1>5. Holders'
  BY DEF IInv, TypeOK, Disjoint, Holders, Unsettled
<1>6. NothingStranded'
  BY DEF IInv, TypeOK, Disjoint, Holders, NothingStranded
<1>7. Shutdown'
  BY DEF IInv, Shutdown, ReleasedBeforeClosed, NothingUnsentAfterCancel, Unsettled
<1> QED
  BY <1>1, <1>2, <1>3, <1>4, <1>5, <1>6, <1>7 DEF IInv

LEMMA BeginCloseIInv == ASSUME IInv, BeginClose PROVE IInv'
<1> USE PubSubAssumption DEF BeginClose, libraryVars, workerVars
<1>1. TypeOK'
  BY DEF IInv, TypeOK
<1>2. IsFiniteSet(deliveries)'
  BY DEF IInv
<1>3. Disjoint'
  BY DEF IInv, TypeOK, Disjoint, Unsettled
<1>4. CallsCount'
  BY DEF IInv, TypeOK, Disjoint, CallsCount, Unsettled
<1>5. Holders'
  BY DEF IInv, TypeOK, Disjoint, Holders, Unsettled
<1>6. NothingStranded'
  BY DEF IInv, TypeOK, Disjoint, Holders, NothingStranded
<1>7. Shutdown'
  BY DEF IInv, Shutdown, ReleasedBeforeClosed, NothingUnsentAfterCancel, Unsettled
<1> QED
  BY <1>1, <1>2, <1>3, <1>4, <1>5, <1>6, <1>7 DEF IInv

LEMMA CloseReleaseIInv == ASSUME IInv, CloseRelease PROVE IInv'
<1> USE PubSubAssumption DEF CloseRelease, Settle, workerVars
<1>1. TypeOK'
  BY DEF IInv, TypeOK
<1>2. IsFiniteSet(deliveries)'
  BY DEF IInv
<1>3. Disjoint'
  BY DEF IInv, TypeOK, Disjoint, Unsettled
<1>4. CallsCount'
  BY DEF IInv, TypeOK, Disjoint, CallsCount, Unsettled
<1>5. Holders'
  BY DEF IInv, TypeOK, Disjoint, Holders, Unsettled
<1>6. NothingStranded'
  BY DEF IInv, TypeOK, Disjoint, Holders, NothingStranded
<1>7. Shutdown'
  BY DEF IInv, Shutdown, ReleasedBeforeClosed, NothingUnsentAfterCancel, Unsettled
<1> QED
  BY <1>1, <1>2, <1>3, <1>4, <1>5, <1>6, <1>7 DEF IInv

LEMMA CloseFinishIInv == ASSUME IInv, CloseFinish PROVE IInv'
<1> USE PubSubAssumption DEF CloseFinish, libraryVars, workerVars
<1>1. TypeOK'
  BY DEF IInv, TypeOK
<1>2. IsFiniteSet(deliveries)'
  BY DEF IInv
<1>3. Disjoint'
  BY DEF IInv, TypeOK, Disjoint, Unsettled
<1>4. CallsCount'
  BY DEF IInv, TypeOK, Disjoint, CallsCount, Unsettled
<1>5. Holders'
  BY DEF IInv, TypeOK, Disjoint, Holders, Unsettled
<1>6. NothingStranded'
  BY DEF IInv, TypeOK, Disjoint, Holders, NothingStranded
<1>7. Shutdown'
  BY DEF IInv, Shutdown, ReleasedBeforeClosed, NothingUnsentAfterCancel, Unsettled
<1> QED
  BY <1>1, <1>2, <1>3, <1>4, <1>5, <1>6, <1>7 DEF IInv

-----------------------------------------------------------------------------
LEMMA StepIInv == IInv /\ [Next]_vars => IInv'
<1> SUFFICES ASSUME IInv, [Next]_vars PROVE IInv'
  OBVIOUS
<1>1. CASE Next
  <2>1. CASE Subscribe
    BY <2>1, SubscribeIInv
  <2>2. CASE \E r \in Receipts : OnMessage(r)
    BY <2>2, OnMessageIInv
  <2>3. CASE \E r \in Receipts : Reject(r)
    BY <2>3, RejectIInv
  <2>4. CASE \E r \in Receipts : HandOff(r)
    BY <2>4, HandOffIInv
  <2>5. CASE \E r \in Receipts : LeaseExpires(r)
    BY <2>5, LeaseExpiresIInv
  <2>6. CASE StreamFails
    BY <2>6, StreamFailsIInv
  <2>7. CASE LibraryStops
    BY <2>7, LibraryStopsIInv
  <2>8. CASE \E r \in Receipts : Accept(r)
    BY <2>8, AcceptIInv
  <2>9. CASE \E w \in Workers : Take(w)
    BY <2>9, TakeIInv
  <2>10. CASE \E w \in Workers : Dequeue(w)
    BY <2>10, DequeueIInv
  <2>11. CASE \E w \in Workers : AckOrNack(w)
    BY <2>11, AckOrNackIInv
  <2>12. CASE BeginClose
    BY <2>12, BeginCloseIInv
  <2>13. CASE CloseRelease
    BY <2>13, CloseReleaseIInv
  <2>14. CASE CloseFinish
    BY <2>14, CloseFinishIInv
  <2> QED
    BY <1>1, <2>1, <2>2, <2>3, <2>4, <2>5, <2>6, <2>7, <2>8, <2>9, <2>10, <2>11, <2>12, <2>13, <2>14 DEF Next
<1>2. CASE UNCHANGED vars
  BY <1>2 DEF vars, IInv, TypeOK, Disjoint, CallsCount, Holders, NothingStranded,
              Shutdown, ReleasedBeforeClosed, NothingUnsentAfterCancel, Unsettled,
              Closing, Closed
<1> QED
  BY <1>1, <1>2

\* IInv holds in every state of every behaviour.
THEOREM Invariance == Spec => []IInv
<1>1. Init => IInv
  BY InitIInv
<1>2. IInv /\ [Next]_vars => IInv'
  BY StepIInv
<1> QED
  BY <1>1, <1>2, PTL DEF Spec

-----------------------------------------------------------------------------
\* The types, and the capacity of _deliveries: put_nowait never raises.
THEOREM TypeCorrect == Spec => []TypeOK
<1>1. IInv => TypeOK
  BY DEF IInv
<1> QED
  BY <1>1, Invariance, PTL

\* No delivery is acked or nacked twice.
THEOREM SettledOnce == Spec => []SettledAtMostOnce
<1>1. IInv => SettledAtMostOnce
  BY DEF IInv, CallsCount, SettledAtMostOnce
<1> QED
  BY <1>1, Invariance, PTL

\* No two workers run the same delivery, and none runs a queued one.
THEOREM HolderIsUnique == Spec => []OneHolder
<1>1. IInv => OneHolder
  BY DEF IInv, Holders, OneHolder
<1> QED
  BY <1>1, Invariance, PTL

\* Every buffered or in-flight message is on its way to a worker or with one.
THEOREM NoneStranded == Spec => []NothingStranded
<1>1. IInv => NothingStranded
  BY DEF IInv
<1> QED
  BY <1>1, Invariance, PTL

\* close() leaves nothing behind.
THEOREM CloseReleasesAll == Spec => []ReleasedBeforeClosed
<1>1. IInv => ReleasedBeforeClosed
  BY DEF IInv, Shutdown
<1> QED
  BY <1>1, Invariance, PTL

\* The nacks of an orderly close() precede the end of the dispatcher thread.
THEOREM NacksAreSent == Spec => []NothingUnsentAfterCancel
<1>1. IInv => NothingUnsentAfterCancel
  BY DEF IInv, Shutdown
<1> QED
  BY <1>1, Invariance, PTL

\* No hand-off is scheduled once close() has begun.
THEOREM CloseStopsHandOffs == Spec => NoHandOffAfterClosing
<1>1. [Next]_vars => [Closing => handoffs' \subseteq handoffs]_vars
  <2> SUFFICES ASSUME Next, Closing PROVE handoffs' \subseteq handoffs
    OBVIOUS
  <2>1. ASSUME NEW r \in Receipts, HandOff(r) PROVE handoffs' \subseteq handoffs
    BY <2>1 DEF HandOff
  <2>2. ASSUME NEW r \in Receipts, Accept(r) PROVE handoffs' \subseteq handoffs
    BY <2>2 DEF Accept
  <2> QED
    BY <2>1, <2>2 DEF Next, Subscribe, OnMessage, Reject, LeaseExpires, StreamFails,
                      LibraryStops, Take, Dequeue, AckOrNack, BeginClose, CloseRelease,
                      CloseFinish
<1> QED
  BY <1>1, PTL DEF Spec, NoHandOffAfterClosing

-----------------------------------------------------------------------------
(* The adapter implements the port.                                        *)

LEMMA InWorkIsInFlight == IInv => Port!InWork = inFlight
<1> SUFFICES ASSUME IInv PROVE Port!InWork = inFlight
  OBVIOUS
<1>1. None \notin inFlight
  BY PubSubAssumption DEF PubSubAssumption, IInv, TypeOK
<1>2. \A w \in Workers : working[w] = IF held[w] \in inFlight THEN held[w] ELSE None
  BY DEF working
<1>3. \A r \in inFlight : \E w \in Workers : held[w] = r
  BY DEF IInv, NothingStranded
<1> QED
  BY <1>1, <1>2, <1>3 DEF Port!InWork

LEMMA InitPort == Init => Port!Init
<1> SUFFICES ASSUME Init PROVE Port!Init
  OBVIOUS
<1>1. waiting = {} /\ working = [w \in Workers |-> None] /\ gone = {} /\ ~Closing
  BY DEF Init, waiting, working, gone, Closing
<1> QED
  BY <1>1 DEF Port!Init

\* Before a message is buffered, and in what the library does by itself.
LEMMA ArrivalPort ==
  ASSUME IInv, NEW r \in Receipts,
         OnMessage(r) \/ Reject(r) \/ HandOff(r) \/ LeaseExpires(r) \/ Accept(r)
  PROVE  [Port!Next]_(Port!vars)
<1> USE PubSubAssumption DEF PubSubAssumption
<1>1. working' = working /\ Closing' = Closing
  BY DEF OnMessage, Reject, HandOff, LeaseExpires, Accept, working, workerVars, Closing
<1>2. Port!InWork = inFlight
  BY InWorkIsInFlight
<1>3. \/ waiting' = waiting /\ gone' = gone
      \/ waiting' = waiting \cup {r} /\ gone' = gone /\ r \in fresh
      \/ waiting' = waiting \ {r} /\ gone' = gone \cup {r} /\ r \in waiting
      \/ waiting' = waiting /\ gone' = gone \cup {r} /\ r \in fresh /\ Closing
  <2>1. CASE OnMessage(r)
    BY <2>1 DEF OnMessage, Settle, IInv, TypeOK, CallsCount, waiting, gone
  <2>2. CASE Reject(r)
    BY <2>2 DEF Reject, Settle, IInv, TypeOK, Disjoint, CallsCount, Unsettled, waiting, gone
  <2>3. CASE HandOff(r)
    BY <2>3 DEF HandOff, Settle, IInv, TypeOK, Disjoint, CallsCount, Unsettled, waiting, gone
  <2>4. CASE LeaseExpires(r)
    BY <2>4 DEF LeaseExpires, waiting, gone
  <2>5. CASE Accept(r)
    BY <2>5 DEF Accept, Settle, IInv, TypeOK, Disjoint, CallsCount, Unsettled, waiting, gone
  <2> QED
    BY <2>1, <2>2, <2>3, <2>4, <2>5
<1>4. r \in fresh => r \notin waiting \cup inFlight \cup gone
  BY DEF IInv, Disjoint, CallsCount, Unsettled, waiting, gone
<1>5. r \in waiting => r \notin inFlight \cup gone
  BY DEF IInv, Disjoint, CallsCount, Unsettled, waiting, gone
<1>6. Port!Arrive(r) \/ Port!Refuse(r) \/ UNCHANGED Port!vars
  <2>1. CASE waiting' = waiting /\ gone' = gone
    BY <1>1, <2>1 DEF Port!vars
  <2>2. CASE waiting' = waiting \cup {r} /\ gone' = gone /\ r \in fresh
    BY <1>1, <1>2, <1>4, <2>2 DEF Port!Arrive
  <2>3. CASE waiting' = waiting \ {r} /\ gone' = gone \cup {r} /\ r \in waiting
    BY <1>1, <1>2, <1>5, <2>3 DEF Port!Refuse
  <2>4. CASE waiting' = waiting /\ gone' = gone \cup {r} /\ r \in fresh /\ Closing
    BY <1>1, <1>2, <1>4, <2>4 DEF Port!Refuse
  <2> QED
    BY <1>3, <2>1, <2>2, <2>3, <2>4
<1> QED
  BY <1>6 DEF Port!Next

\* dequeue(), ack() and nack().
LEMMA WorkerPort ==
  ASSUME IInv, NEW w \in Workers, Take(w) \/ Dequeue(w) \/ AckOrNack(w)
  PROVE  [Port!Next]_(Port!vars)
<1> USE PubSubAssumption DEF PubSubAssumption
<1>1. CASE Take(w)
  BY <1>1 DEF Take, Port!vars, waiting, working, gone, Closing
<1>2. CASE Dequeue(w)
  <2> DEFINE r == got[w]
  <2>1. CASE r \in buffered
    <3>1. held[w] = None /\ held' = [held EXCEPT ![w] = r] /\ r # None
      BY <1>2, <2>1 DEF Dequeue, IInv, Holders
    <3>2. inFlight' = inFlight \cup {r} /\ r \in waiting
      BY <1>2, <2>1 DEF Dequeue, waiting
    <3>3. waiting' = waiting \ {r}
      BY <1>2, <2>1 DEF Dequeue, IInv, Disjoint, waiting
    <3>4. working[w] = None
      BY <3>1 DEF working, IInv, TypeOK
    <3>5. \A v \in Workers : v # w => held[v] # r
      BY <2>1, <3>1 DEF IInv, Holders
    <3>6. working' = [working EXCEPT ![w] = r]
      <4>1. \A v \in Workers \ {w} : held'[v] = held[v] /\ held[v] # r
        BY <3>1, <3>5 DEF IInv, TypeOK
      <4>2. held'[w] = r
        BY <3>1 DEF IInv, TypeOK
      <4>3. working' = [v \in Workers |-> IF held'[v] \in inFlight' THEN held'[v] ELSE None]
        BY DEF working
      <4>4. working = [v \in Workers |-> IF held[v] \in inFlight THEN held[v] ELSE None]
        BY DEF working
      <4> QED
        BY <3>2, <4>1, <4>2, <4>3, <4>4
    <3>7. gone' = gone /\ Closing' = Closing
      BY <1>2 DEF Dequeue, gone, Closing
    <3>8. Port!Dequeue(w)
      BY <3>2, <3>3, <3>4, <3>6, <3>7 DEF Port!Dequeue
    <3> QED
      BY <3>8 DEF Port!Next
  <2>2. CASE r \notin buffered
    BY <1>2, <2>2 DEF Dequeue, Port!vars, waiting, working, gone, Closing
  <2> QED
    BY <2>1, <2>2
<1>3. CASE AckOrNack(w)
  <2> DEFINE r == held[w]
  <2>1. CASE r \in inFlight
    <3>1. working[w] = r /\ r # None
      BY <1>3, <2>1 DEF AckOrNack, working
    <3>2. calls' = [q \in Receipts |-> IF q = r THEN calls[q] + 1 ELSE calls[q]]
      BY <1>3, <2>1 DEF AckOrNack, Settle
    <3>3. r \in Receipts /\ calls[r] = 0
      BY <2>1 DEF IInv, TypeOK, CallsCount, Unsettled
    <3>4. gone' = gone \cup {r}
      BY <3>2, <3>3 DEF gone
    <3>5. working' = [working EXCEPT ![w] = None]
      <4>1. \A v \in Workers \ {w} : held'[v] = held[v] /\ (held[v] # None => held[v] # r)
        BY <1>3, <3>1 DEF AckOrNack, IInv, TypeOK, Holders
      <4>2. held'[w] = None /\ inFlight' = inFlight \ {r}
        BY <1>3 DEF AckOrNack, IInv, TypeOK
      <4>3. working' = [v \in Workers |-> IF held'[v] \in inFlight' THEN held'[v] ELSE None]
        BY DEF working
      <4>4. working = [v \in Workers |-> IF held[v] \in inFlight THEN held[v] ELSE None]
        BY DEF working
      <4> QED
        BY <4>1, <4>2, <4>3, <4>4
    <3>6. waiting' = waiting /\ Closing' = Closing
      BY <1>3 DEF AckOrNack, waiting, Closing
    <3>7. Port!Leave(w)
      BY <3>1, <3>4, <3>5, <3>6 DEF Port!Leave
    <3> QED
      BY <3>7 DEF Port!Next
  <2>2. CASE r \notin inFlight
    <3>1. inFlight' = inFlight /\ waiting' = waiting /\ Closing' = Closing
      BY <1>3, <2>2 DEF AckOrNack, waiting, Closing
    <3>2. gone' = gone
      <4>1. calls' = [q \in Receipts |-> calls[q]]
        BY <1>3, <2>2 DEF AckOrNack, Settle
      <4> QED
        BY <4>1 DEF gone
    <3>3. working' = working
      <4>1. \A v \in Workers \ {w} : held'[v] = held[v]
        BY <1>3 DEF AckOrNack, IInv, TypeOK
      <4>2. held'[w] = None /\ None \notin inFlight
        BY <1>3 DEF AckOrNack, IInv, TypeOK
      <4> QED
        BY <2>2, <3>1, <4>1, <4>2 DEF working
    <3> QED
      BY <3>1, <3>2, <3>3 DEF Port!vars
  <2> QED
    BY <2>1, <2>2
<1> QED
  BY <1>1, <1>2, <1>3

LEMMA CloseReleasePort == ASSUME IInv, CloseRelease PROVE [Port!Next]_(Port!vars)
<1> USE PubSubAssumption DEF PubSubAssumption
<1> DEFINE D == buffered \cup inFlight
<1>1. D \in SUBSET (waiting \cup Port!InWork)
  BY InWorkIsInFlight DEF waiting
<1>2. waiting' = waiting \ D
  BY DEF CloseRelease, waiting, IInv, Disjoint
<1>3. working' = [w \in Workers |-> IF working[w] \in D THEN None ELSE working[w]]
  <2>1. working' = [w \in Workers |-> None]
    BY DEF CloseRelease, working
  <2>2. \A w \in Workers : working[w] \in D \/ working[w] = None
    BY DEF working
  <2> QED
    BY <2>1, <2>2
<1>4. gone' = gone \cup D
  BY DEF CloseRelease, Settle, gone, IInv, TypeOK, CallsCount, Unsettled
<1>5. Closing /\ Closing'
  BY DEF CloseRelease, Closing
<1>6. Port!Release
  BY <1>1, <1>2, <1>3, <1>4, <1>5 DEF Port!Release
<1> QED
  BY <1>6 DEF Port!Next

LEMMA StepPort == ASSUME IInv, [Next]_vars PROVE [Port!Next]_(Port!vars)
<1>1. ASSUME Subscribe \/ StreamFails \/ LibraryStops \/ CloseFinish \/ UNCHANGED vars
      PROVE  UNCHANGED Port!vars
  BY <1>1 DEF Subscribe, StreamFails, LibraryStops, CloseFinish, vars, workerVars,
              libraryVars, Port!vars, waiting, working, gone, Closing
<1>2. ASSUME BeginClose PROVE Port!Close
  <2>1. ~Closing /\ Closing' /\ waiting' = waiting /\ working' = working /\ gone' = gone
    BY <1>2 DEF BeginClose, workerVars, waiting, working, gone, Closing
  <2> QED
    BY <2>1 DEF Port!Close
<1> QED
  BY <1>1, <1>2, ArrivalPort, WorkerPort, CloseReleasePort DEF Next, Port!Next

\* The Pub/Sub adapter implements the port, for any number of deliveries,
\* workers and places.
THEOREM PortImplemented == Spec => ImplementsPort
<1>1. Init => Port!Init
  BY InitPort
<1>2. IInv /\ [Next]_vars => [Port!Next]_(Port!vars)
  BY StepPort
<1> QED
  BY <1>1, <1>2, Invariance, PTL DEF Spec, ImplementsPort, Port!Spec
=============================================================================
