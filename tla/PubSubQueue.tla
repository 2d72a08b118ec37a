---------------------------- MODULE PubSubQueue ----------------------------
(***************************************************************************)
(* The message path of adapters/queue_pubsub.py: how a received message    *)
(* travels from a Pub/Sub callback thread through the event loop to a      *)
(* worker and is acked or nacked exactly once, while leases expire, the    *)
(* stream fails and is reopened, and close() runs.                         *)
(*                                                                         *)
(* A receipt (Pub/Sub's ack_id) names one delivery of one message: the     *)
(* redelivery of a message is a new receipt.                               *)
(***************************************************************************)
EXTENDS Naturals, FiniteSets

CONSTANTS
    Receipts,       \* the deliveries Pub/Sub makes to this process
    Malformed,      \* those whose payload _on_message cannot validate
    Workers,        \* the Worker._run tasks that share the queue
    MaxMessages,    \* max(1, concurrency): flow control and queue capacity
    None            \* no receipt

ASSUME PubSubAssumption ==
    /\ Malformed \subseteq Receipts
    /\ None \notin Receipts
    /\ MaxMessages \in Nat \ {0}

VARIABLES
    stream,         \* the library's stream and the dispatcher thread behind it
    fresh,          \* receipts Pub/Sub has not delivered yet
    leased,         \* receipts counted by the library's flow control
    callbacks,      \* inside _on_message, past the unlocked check of _closing
    handoffs,       \* _accept_message calls scheduled on the loop, not yet run
    ahead,          \* hand-offs the loop runs before close() resumes
    deliveries,     \* _deliveries, the asyncio.Queue; its order is left out
    buffered,       \* keys of _buffered
    inFlight,       \* keys of _in_flight
    got,            \* got[w]: taken from _deliveries by a dequeue() not resumed
    held,           \* held[w]: the delivery dequeue() returned to worker w
    closeStep,      \* how far close() is
    calls,          \* calls[r]: ack() and nack() calls made on r's Message
    orphaned        \* unsettled when the dispatcher of a failed stream stopped

libraryVars == <<stream, fresh, leased, orphaned>>
workerVars  == <<got, held>>
vars == <<stream, fresh, leased, callbacks, handoffs, ahead, deliveries,
          buffered, inFlight, got, held, closeStep, calls, orphaned>>

Closing == closeStep # "idle"
Closed  == closeStep = "closed"

\* What the adapter has been handed and has neither acked nor nacked.
Unsettled == callbacks \cup handoffs \cup buffered \cup inFlight

TypeOK ==
    /\ stream \in {"none", "open", "failing", "cancelled", "down"}
    /\ fresh \subseteq Receipts
    /\ leased \subseteq Receipts
    /\ callbacks \subseteq Receipts
    /\ handoffs \subseteq Receipts
    /\ ahead \subseteq Receipts
    /\ deliveries \subseteq Receipts /\ Cardinality(deliveries) <= MaxMessages
    /\ buffered \subseteq Receipts
    /\ inFlight \subseteq Receipts
    /\ got \in [Workers -> Receipts \cup {None}]
    /\ held \in [Workers -> Receipts \cup {None}]
    /\ closeStep \in {"idle", "flush", "join", "closed"}
    /\ calls \in [Receipts -> Nat]
    /\ orphaned \subseteq Receipts

Init ==
    /\ stream = "none"
    /\ fresh = Receipts
    /\ leased = {}
    /\ callbacks = {}
    /\ handoffs = {}
    /\ ahead = {}
    /\ deliveries = {}
    /\ buffered = {}
    /\ inFlight = {}
    /\ got = [w \in Workers |-> None]
    /\ held = [w \in Workers |-> None]
    /\ closeStep = "idle"
    /\ calls = [r \in Receipts |-> 0]
    /\ orphaned = {}

\* message.ack() or message.nack() on every receipt of S; settling a message
\* also frees its place in the library's flow control.
Settle(S) ==
    /\ calls' = [r \in Receipts |-> IF r \in S THEN calls[r] + 1 ELSE calls[r]]
    /\ leased' = leased \ S

-----------------------------------------------------------------------------
(* The Pub/Sub library, and the adapter's callback in its threads.         *)

\* start(), and the supervisor's reopening of a stream that went down. Both
\* hold the lifecycle lock that close() keeps from its first step to its last.
Subscribe ==
    /\ stream \in {"none", "down"}
    /\ ~Closing
    /\ stream' = "open"
    /\ UNCHANGED <<fresh, leased, callbacks, handoffs, ahead, deliveries,
                   buffered, inFlight, workerVars, closeStep, calls, orphaned>>

\* The library schedules _on_message for r while flow control has room; the
\* callback's first step is the check of _closing without a lock.
OnMessage(r) ==
    /\ stream = "open"
    /\ r \in fresh
    /\ Cardinality(leased) < MaxMessages
    /\ fresh' = fresh \ {r}
    /\ IF Closing
         THEN /\ Settle({r})
              /\ UNCHANGED callbacks
         ELSE /\ leased' = leased \cup {r}
              /\ callbacks' = callbacks \cup {r}
              /\ UNCHANGED calls
    /\ UNCHANGED <<stream, handoffs, ahead, deliveries, buffered, inFlight,
                   workerVars, closeStep, orphaned>>

\* The payload does not validate: nack from the callback thread.
Reject(r) ==
    /\ r \in callbacks \cap Malformed
    /\ callbacks' = callbacks \ {r}
    /\ Settle({r})
    /\ UNCHANGED <<stream, fresh, handoffs, ahead, deliveries, buffered,
                   inFlight, workerVars, closeStep, orphaned>>

\* Under _callback_lock: nack if close() has begun, else schedule
\* _accept_message on the loop.
HandOff(r) ==
    /\ r \in callbacks \ Malformed
    /\ callbacks' = callbacks \ {r}
    /\ IF Closing
         THEN Settle({r}) /\ UNCHANGED handoffs
         ELSE handoffs' = handoffs \cup {r} /\ UNCHANGED <<calls, leased>>
    /\ UNCHANGED <<stream, fresh, ahead, deliveries, buffered, inFlight,
                   workerVars, closeStep, orphaned>>

\* max_lease_duration passes: the library stops extending r and frees its
\* place in flow control, whatever the adapter still does with it. A lease is
\* that old only under a running job or behind workers that are all busy.
LeaseExpires(r) ==
    /\ r \in leased
    /\ \/ r \in inFlight
       \/ r \in buffered /\ \A w \in Workers : held[w] # None
    /\ leased' = leased \ {r}
    /\ UNCHANGED <<stream, fresh, callbacks, handoffs, ahead, deliveries,
                   buffered, inFlight, workerVars, closeStep, calls, orphaned>>

\* A terminal error: the stream delivers nothing more.
StreamFails ==
    /\ stream = "open"
    /\ stream' = "failing"
    /\ UNCHANGED <<fresh, leased, callbacks, handoffs, ahead, deliveries,
                   buffered, inFlight, workerVars, closeStep, calls, orphaned>>

\* await_callbacks_on_shutdown: the dispatcher sends what was queued and stops
\* once no callback runs. After a failure the adapter may still hold messages
\* of that stream; nothing it says of them will reach Pub/Sub any more.
LibraryStops ==
    /\ stream \in {"failing", "cancelled"}
    /\ callbacks = {}
    /\ stream' = "down"
    /\ leased' = {}
    /\ orphaned' = IF stream = "failing" THEN orphaned \cup Unsettled
                                         ELSE orphaned
    /\ UNCHANGED <<fresh, callbacks, handoffs, ahead, deliveries, buffered,
                   inFlight, workerVars, closeStep, calls>>

-----------------------------------------------------------------------------
(* The event loop.                                                         *)

\* _accept_message nacks when closing, when the receipt is already known or when
\* _deliveries is full.
Refused(r) ==
    \/ Closing
    \/ r \in buffered \cup inFlight
    \/ Cardinality(deliveries) = MaxMessages

\* Mutant: the message that finds _deliveries full is dropped, not nacked.
AcceptOrDrop(r) ==
    /\ r \in handoffs
    /\ handoffs' = handoffs \ {r}
    /\ ahead' = ahead \ {r}
    /\ IF Refused(r)
         THEN UNCHANGED <<deliveries, buffered>>
         ELSE buffered' = buffered \cup {r} /\ deliveries' = deliveries \cup {r}
    /\ UNCHANGED <<libraryVars, callbacks, inFlight, workerVars, closeStep,
                   calls>>

\* _accept_message on the loop: nack, or buffer the message for a worker.
Accept(r) ==
    /\ r \in handoffs
    /\ handoffs' = handoffs \ {r}
    /\ ahead' = ahead \ {r}
    /\ IF Refused(r)
         THEN Settle({r}) /\ UNCHANGED <<deliveries, buffered>>
         ELSE /\ buffered' = buffered \cup {r}
              /\ deliveries' = deliveries \cup {r}
              /\ UNCHANGED <<calls, leased>>
    /\ UNCHANGED <<stream, fresh, callbacks, inFlight, workerVars, closeStep,
                   orphaned>>

\* dequeue() of worker w: the inner get() has taken a delivery, and wait_for
\* has not resumed the caller yet.
Take(w) ==
    /\ got[w] = None
    /\ held[w] = None
    /\ \E r \in deliveries :
          /\ deliveries' = deliveries \ {r}
          /\ got' = [got EXCEPT ![w] = r]
    /\ UNCHANGED <<stream, fresh, leased, callbacks, handoffs, ahead, buffered,
                   inFlight, held, closeStep, calls, orphaned>>

\* Mutant: a timeout of wait_for that loses the delivery get() had taken.
DequeueOrLose(w) ==
    /\ got[w] # None
    /\ got' = [got EXCEPT ![w] = None]
    /\ UNCHANGED <<libraryVars, callbacks, handoffs, ahead, deliveries,
                   buffered, inFlight, held, closeStep, calls>>

\* dequeue() resumes: the message moves from _buffered to _in_flight, unless
\* close() released it in between.
Dequeue(w) ==
    /\ got[w] # None
    /\ got' = [got EXCEPT ![w] = None]
    /\ IF got[w] \in buffered
         THEN /\ buffered' = buffered \ {got[w]}
              /\ inFlight' = inFlight \cup {got[w]}
              /\ held' = [held EXCEPT ![w] = got[w]]
         ELSE UNCHANGED <<buffered, inFlight, held>>
    /\ UNCHANGED <<stream, fresh, leased, callbacks, handoffs, ahead,
                   deliveries, closeStep, calls, orphaned>>

\* Mutant: the delivery is settled even if it is no longer in _in_flight.
AckOrNackAlways(w) ==
    /\ held[w] # None
    /\ held' = [held EXCEPT ![w] = None]
    /\ inFlight' = inFlight \ {held[w]}
    /\ Settle({held[w]})
    /\ UNCHANGED <<stream, fresh, callbacks, handoffs, ahead, deliveries,
                   buffered, got, closeStep, orphaned>>

\* ack() or nack() by the worker that holds the delivery; neither does
\* anything when close() has already released it.
AckOrNack(w) ==
    /\ held[w] # None
    /\ held' = [held EXCEPT ![w] = None]
    /\ inFlight' = inFlight \ {held[w]}
    /\ Settle({held[w]} \cap inFlight)
    /\ UNCHANGED <<stream, fresh, callbacks, handoffs, ahead, deliveries,
                   buffered, got, closeStep, orphaned>>

-----------------------------------------------------------------------------
(* close(), under the lifecycle lock.                                      *)

\* _closing is set under _callback_lock; sleep(0) then queues close() behind
\* every hand-off that is scheduled at this moment.
BeginClose ==
    /\ closeStep = "idle"
    /\ closeStep' = "flush"
    /\ ahead' = handoffs
    /\ UNCHANGED <<libraryVars, callbacks, handoffs, deliveries, buffered,
                   inFlight, workerVars, calls>>

\* Mutant: only _buffered is released.
CloseReleaseBuffered ==
    /\ closeStep = "flush"
    /\ ahead = {}
    /\ Settle(buffered)
    /\ buffered' = {}
    /\ stream' = IF stream = "open" THEN "cancelled" ELSE stream
    /\ closeStep' = "join"
    /\ UNCHANGED <<fresh, callbacks, handoffs, ahead, deliveries, inFlight,
                   workerVars, orphaned>>

\* Mutant: the stream is cancelled first and the nacks follow.
CancelThenRelease ==
    /\ closeStep = "flush"
    /\ ahead = {}
    /\ IF stream = "open"
         THEN /\ stream' = "cancelled"
              /\ UNCHANGED <<leased, calls, buffered, inFlight, closeStep>>
         ELSE /\ Settle(buffered \cup inFlight)
              /\ buffered' = {}
              /\ inFlight' = {}
              /\ closeStep' = "join"
              /\ UNCHANGED stream
    /\ UNCHANGED <<fresh, callbacks, handoffs, ahead, deliveries, workerVars,
                   orphaned>>

\* Nack everything the process holds, then cancel the stream.
CloseRelease ==
    /\ closeStep = "flush"
    /\ ahead = {}
    /\ Settle(buffered \cup inFlight)
    /\ buffered' = {}
    /\ inFlight' = {}
    /\ stream' = IF stream = "open" THEN "cancelled" ELSE stream
    /\ closeStep' = "join"
    /\ UNCHANGED <<fresh, callbacks, handoffs, ahead, deliveries, workerVars,
                   orphaned>>

\* future.result() returned or timed out after _STREAM_SHUTDOWN_TIMEOUT_SECONDS:
\* either way close() goes on, closes both clients and marks the queue closed.
CloseFinish ==
    /\ closeStep = "join"
    /\ closeStep' = "closed"
    /\ UNCHANGED <<libraryVars, callbacks, handoffs, ahead, deliveries,
                   buffered, inFlight, workerVars, calls>>

-----------------------------------------------------------------------------
Next ==
    \/ Subscribe
    \/ \E r \in Receipts : OnMessage(r)
    \/ \E r \in Receipts : Reject(r)
    \/ \E r \in Receipts : HandOff(r)
    \/ \E r \in Receipts : LeaseExpires(r)
    \/ StreamFails
    \/ LibraryStops
    \/ \E r \in Receipts : Accept(r)
    \/ \E w \in Workers : Take(w)
    \/ \E w \in Workers : Dequeue(w)
    \/ \E w \in Workers : AckOrNack(w)
    \/ BeginClose
    \/ CloseRelease
    \/ CloseFinish

\* Callback threads and the loop keep running; a worker settles what it holds
\* because wait_for bounds the job, but its loop has ended when Worker.stop()
\* calls close(), so a worker owes nothing from then on; close() is never
\* abandoned half-way. Pub/Sub owes no message, no lease expiry and no failure.
Fairness ==
    /\ \A r \in Receipts : /\ WF_vars(Reject(r))
                           /\ WF_vars(HandOff(r))
                           /\ WF_vars(Accept(r))
    /\ \A w \in Workers : /\ WF_vars(~Closing /\ Take(w))
                          /\ WF_vars(~Closing /\ Dequeue(w))
                          /\ WF_vars(~Closing /\ AckOrNack(w))
    /\ WF_vars(CloseRelease)
    /\ WF_vars(CloseFinish)

Spec == Init /\ [][Next]_vars
FairSpec == Spec /\ Fairness

-----------------------------------------------------------------------------
(* Properties.                                                             *)

\* The process never acks or nacks one delivery twice, whoever gets there
\* first: the callback, the loop, a worker that finishes, or close().
SettledAtMostOnce == \A r \in Receipts : calls[r] <= 1

\* A delivery has one owner: no two workers run the same one, and none runs
\* one that is still queued.
OneHolder ==
    \A v, w \in Workers :
        /\ held[w] # None => held[w] \notin deliveries
        /\ held[w] # None => held[w] # got[v]
        /\ (v # w /\ held[w] # None) => held[w] # held[v]

\* No message is stranded in a dictionary: a buffered one has a delivery in
\* the queue or in a dequeue() about to resume, and an in-flight one is held
\* by a worker. Otherwise it is neither processed nor released until its lease
\* ends.
NothingStranded ==
    /\ \A r \in buffered : r \in deliveries \/ \E w \in Workers : got[w] = r
    /\ \A r \in inFlight : \E w \in Workers : held[w] = r

\* close() releases everything before it marks the queue closed, also the
\* hand-offs that were already scheduled and a dequeue() in its last step, even
\* when joining the stream times out.
ReleasedBeforeClosed ==
    closeStep \in {"join", "closed"} => handoffs \cup buffered \cup inFlight = {}

\* Once the dispatcher thread is gone nothing the process says of a message is
\* transmitted. Only a stream that failed by itself may catch messages
\* unsettled: the nacks of an orderly close() are all issued before.
NothingUnsentAfterCancel == stream = "down" => Unsettled \subseteq orphaned

\* No hand-off is scheduled on the loop once close() has begun (the comment on
\* _callback_lock in _on_message).
NoHandOffAfterClosing == [][Closing => handoffs' \subseteq handoffs]_vars

\* The port over this module's state: the worker's delivery is one that ack() and
\* nack() still know, and a delivery is gone when it has been settled once.
waiting == callbacks \cup handoffs \cup buffered
working == [w \in Workers |-> IF held[w] \in inFlight THEN held[w] ELSE None]
gone == {r \in Receipts : calls[r] = 1}

Port == INSTANCE QueuePort WITH
            Deliveries <- Receipts, Nothing <- None,
            waiting <- waiting, working <- working, gone <- gone, closing <- Closing

\* The Pub/Sub adapter keeps the contract of ports/queue.py: no delivery is with
\* two workers, handed back twice or dropped.
ImplementsPort == Port!Spec

\* Whatever the callback was given is acked or nacked in the end.
EventuallySettled == \A r \in Receipts : (r \in callbacks) ~> (calls[r] = 1)

\* close() terminates and lets nothing slip: every delivery seen is settled.
CloseCompletes == Closing ~> (Closed /\ Unsettled = {})
=============================================================================
