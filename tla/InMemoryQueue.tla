--------------------------- MODULE InMemoryQueue ---------------------------
(***************************************************************************)
(* adapters/queue_inmemory.py under the loops of worker.py, all in one     *)
(* process (RUN_MODE=all): a bounded asyncio.Queue whose put() waits when  *)
(* it is full, both for the dispatcher and for a worker's nack.            *)
(***************************************************************************)
EXTENDS Naturals, FiniteSets, SequencesExt

CONSTANTS
    Jobs,           \* jobs the dispatcher mints, each once
    Workers,        \* the Worker._run tasks
    Capacity,       \* maxsize
    NoJob           \* no delivery

\* The default maxsize is 1000. With fewer places than workers a second
\* task_done() for one job could raise, and its job would not be put back.
ASSUME InMemoryAssumption ==
    /\ Capacity \in Nat \ {0}
    /\ Cardinality(Workers) <= Capacity
    /\ NoJob \notin Jobs

VARIABLES
    queue,          \* _q, oldest first
    step,           \* step[w]: where the loop of w is
    delivery,       \* delivery[w]: the job w holds
    cancelled,      \* tasks that stop() has cancelled
    stopping,       \* the stop event
    accepted,       \* jobs that were put into the queue
    succeeded       \* jobs that were acked

vars == <<queue, step, delivery, cancelled, stopping, accepted, succeeded>>

TypeOK ==
    /\ queue \in Seq(Jobs) /\ Len(queue) <= Capacity
    /\ step \in [Workers -> {"idle", "processing", "nacking", "releasing", "ended"}]
    /\ delivery \in [Workers -> Jobs \cup {NoJob}]
    /\ cancelled \subseteq Workers
    /\ stopping \in BOOLEAN
    /\ succeeded \subseteq accepted /\ accepted \subseteq Jobs

Init ==
    /\ queue = <<>>
    /\ step = [w \in Workers |-> "idle"]
    /\ delivery = [w \in Workers |-> NoJob]
    /\ cancelled = {}
    /\ stopping = FALSE
    /\ accepted = {}
    /\ succeeded = {}

\* Mutant: the bound is off by one.
HasRoomOffByOne == Len(queue) + 1 < Capacity

\* asyncio.Queue.full() is false.
HasRoom == Len(queue) < Capacity

\* A loop with no delivery goes round, or ends once stop() was called.
Release(w) ==
    /\ delivery' = [delivery EXCEPT ![w] = NoJob]
    /\ step' = [step EXCEPT ![w] = IF stopping THEN "ended" ELSE "idle"]

\* enqueue(): put() waits until there is room.
Enqueue(j) ==
    /\ j \notin accepted
    /\ HasRoom
    /\ queue' = Append(queue, j)
    /\ accepted' = accepted \cup {j}
    /\ UNCHANGED <<step, delivery, cancelled, stopping, succeeded>>

\* Mutant: the job is read, and left at the head of the queue.
DequeuePeek(w) ==
    /\ step[w] = "idle"
    /\ queue # <<>>
    /\ delivery' = [delivery EXCEPT ![w] = Head(queue)]
    /\ step' = [step EXCEPT ![w] = "processing"]
    /\ UNCHANGED <<queue, cancelled, stopping, accepted, succeeded>>

\* dequeue() returns the oldest job, and process() starts: also after stop(), if
\* the loop was waiting in dequeue() at that moment.
Dequeue(w) ==
    /\ step[w] = "idle"
    /\ queue # <<>>
    /\ queue' = Tail(queue)
    /\ delivery' = [delivery EXCEPT ![w] = Head(queue)]
    /\ step' = [step EXCEPT ![w] = "processing"]
    /\ UNCHANGED <<cancelled, stopping, accepted, succeeded>>

\* dequeue() times out after stop(), and the loop ends.
EndIdle(w) ==
    /\ step[w] = "idle" /\ stopping
    /\ step' = [step EXCEPT ![w] = "ended"]
    /\ UNCHANGED <<queue, delivery, cancelled, stopping, accepted, succeeded>>

\* process() is true: ack.
Succeed(w) ==
    /\ step[w] = "processing"
    /\ succeeded' = succeeded \cup {delivery[w]}
    /\ Release(w)
    /\ UNCHANGED <<queue, cancelled, stopping, accepted>>

\* process() is false: nack follows, whose put() may have to wait.
Fail(w) ==
    /\ step[w] = "processing"
    /\ step' = [step EXCEPT ![w] = "nacking"]
    /\ UNCHANGED <<queue, delivery, cancelled, stopping, accepted, succeeded>>

\* The time budget is exceeded, or the loop raises: _release, in the handler.
Timeout(w) ==
    /\ step[w] = "processing"
    /\ step' = [step EXCEPT ![w] = "releasing"]
    /\ UNCHANGED <<queue, delivery, cancelled, stopping, accepted, succeeded>>

\* Mutant: nack only ends the task and drops the job.
PutBackNothing(w) ==
    /\ step[w] \in {"nacking", "releasing"}
    /\ Release(w)
    /\ UNCHANGED <<queue, cancelled, stopping, accepted, succeeded>>

\* The put() of nack finds room.
PutBack(w) ==
    /\ step[w] \in {"nacking", "releasing"}
    /\ HasRoom
    /\ queue' = Append(queue, delivery[w])
    /\ Release(w)
    /\ UNCHANGED <<cancelled, stopping, accepted, succeeded>>

\* worker.stop() sets the event every loop reads.
Stop ==
    /\ ~stopping
    /\ stopping' = TRUE
    /\ UNCHANGED <<queue, step, delivery, cancelled, accepted, succeeded>>

\* The drain window is over: each task still running is cancelled, once. In the
\* try block the delivery is released again; a put() cancelled inside the
\* exception handler ends the task and takes the job with it.
Cancel(w) ==
    /\ stopping
    /\ step[w] # "ended" /\ w \notin cancelled
    /\ cancelled' = cancelled \cup {w}
    /\ step' = [step EXCEPT ![w] = IF @ \in {"processing", "nacking"}
                                     THEN "releasing" ELSE "ended"]
    /\ delivery' = [delivery EXCEPT ![w] = IF step'[w] = "ended" THEN NoJob ELSE @]
    /\ UNCHANGED <<queue, stopping, accepted, succeeded>>

Next ==
    \/ \E j \in Jobs : Enqueue(j)
    \/ \E w \in Workers : Dequeue(w)
    \/ \E w \in Workers : EndIdle(w)
    \/ \E w \in Workers : Succeed(w)
    \/ \E w \in Workers : Fail(w)
    \/ \E w \in Workers : Timeout(w)
    \/ \E w \in Workers : PutBack(w)
    \/ Stop
    \/ \E w \in Workers : Cancel(w)

\* Every await of a worker returns, or is cancelled by the budget or by stop().
Fairness ==
    \A w \in Workers : /\ WF_vars(EndIdle(w))
                       /\ WF_vars(Succeed(w) \/ Fail(w) \/ Timeout(w))
                       /\ WF_vars(PutBack(w))
                       /\ WF_vars(Cancel(w))

Spec == Init /\ [][Next]_vars
FairSpec == Spec /\ Fairness

-----------------------------------------------------------------------------
(* Properties.                                                             *)

Held == {delivery[w] : w \in Workers}

\* While the process is not being stopped, a job it accepted is in the queue,
\* with a worker, or done; a nack does not lose it.
NoJobLost == accepted \subseteq ToSet(queue) \cup succeeded \cup Held \/ cancelled # {}

\* A job is in one place only: no second copy is queued or run beside the first.
OneCopy ==
    /\ IsInjective(queue)
    /\ \A w \in Workers : delivery[w] \notin ToSet(queue) \cup succeeded
    /\ \A v, w \in Workers : (v # w /\ delivery[v] # NoJob) => delivery[v] # delivery[w]

\* stop() ends every loop, except one case: a cancelled worker that waits for
\* room in a full queue, which no other worker is left to make. stop() then
\* waits for it for ever (worker.py awaits the cancelled tasks without a limit).
StuckOnFullQueue(w) == w \in cancelled /\ step[w] = "releasing" /\ Len(queue) = Capacity
StopEndsUnlessFull ==
    stopping ~> \A w \in Workers : step[w] = "ended" \/ StuckOnFullQueue(w)

\* The port over this module's state: a job is gone when it was acked, or dropped
\* by a task that stop() cancelled inside nack().
waiting == ToSet(queue)
gone == succeeded \cup (IF stopping THEN accepted \ (waiting \cup Held) ELSE {})

Port == INSTANCE QueuePort WITH
            Deliveries <- Jobs, Nothing <- NoJob,
            waiting <- waiting, working <- delivery, gone <- gone, closing <- stopping

\* The in-memory queue keeps the contract of ports/queue.py as the Pub/Sub
\* adapter does: no job is with two workers, queued twice or dropped while the
\* worker runs.
ImplementsPort == Port!Spec
=============================================================================
