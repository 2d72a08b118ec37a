----------------------------- MODULE QueuePort -----------------------------
(***************************************************************************)
(* What ports/queue.py promises to worker.py of any adapter: a delivery    *)
(* waits in the process, is worked on by one worker, and leaves the        *)
(* process once: by ack(), by a nack() that hands it back to its provider, *)
(* or because the consumer refuses it or is closed. Until it leaves, it is *)
(* kept. PubSubQueue and InMemoryQueue are shown to implement it.          *)
(***************************************************************************)
CONSTANTS
    Deliveries,
    Workers,        \* the loops that call dequeue(), ack() and nack()
    Nothing         \* no delivery

VARIABLES
    waiting,        \* deliveries the process has and no worker works on
    working,        \* working[w]: the delivery of w
    gone,           \* deliveries that have left the process
    closing         \* the consumer is being shut down

vars == <<waiting, working, gone, closing>>

InWork == {working[w] : w \in Workers} \ {Nothing}

Init ==
    /\ waiting = {}
    /\ working = [w \in Workers |-> Nothing]
    /\ gone = {}
    /\ closing = FALSE

\* A job is enqueued here, or the provider delivers one.
Arrive(d) ==
    /\ d \notin waiting \cup InWork \cup gone
    /\ waiting' = waiting \cup {d}
    /\ UNCHANGED <<working, gone, closing>>

Dequeue(w) ==
    /\ working[w] = Nothing
    /\ \E d \in waiting :
          /\ waiting' = waiting \ {d}
          /\ working' = [working EXCEPT ![w] = d]
    /\ UNCHANGED <<gone, closing>>

\* ack(), or a nack() after which the provider delivers it anew.
Leave(w) ==
    /\ working[w] # Nothing
    /\ working' = [working EXCEPT ![w] = Nothing]
    /\ gone' = gone \cup {working[w]}
    /\ UNCHANGED <<waiting, closing>>

\* A nack() to an adapter that is its own provider.
PutBack(w) ==
    /\ working[w] # Nothing
    /\ working' = [working EXCEPT ![w] = Nothing]
    /\ waiting' = waiting \cup {working[w]}
    /\ UNCHANGED <<gone, closing>>

\* The consumer hands back what it cannot read, has no room for or gets after
\* close() began.
Refuse(d) ==
    /\ d \notin InWork \cup gone
    /\ d \in waiting \/ closing
    /\ waiting' = waiting \ {d}
    /\ gone' = gone \cup {d}
    /\ UNCHANGED <<working, closing>>

Close ==
    /\ ~closing
    /\ closing' = TRUE
    /\ UNCHANGED <<waiting, working, gone>>

\* Shutting down releases deliveries, those of workers included.
Release ==
    /\ closing
    /\ \E D \in SUBSET (waiting \cup InWork) :
          /\ waiting' = waiting \ D
          /\ working' = [w \in Workers |-> IF working[w] \in D THEN Nothing ELSE working[w]]
          /\ gone' = gone \cup D
    /\ UNCHANGED closing

Next ==
    \/ \E d \in Deliveries : Arrive(d) \/ Refuse(d)
    \/ \E w \in Workers : Dequeue(w) \/ Leave(w) \/ PutBack(w)
    \/ Close
    \/ Release

Spec == Init /\ [][Next]_vars
=============================================================================
