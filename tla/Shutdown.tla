------------------------------ MODULE Shutdown ------------------------------
(***************************************************************************)
(* A worker pod between SIGTERM and its end: uvicorn answers the probes it *)
(* has accepted, the lifespan of app.py stops the worker (worker.py) and   *)
(* closes the queue (queue_pubsub.py), asyncio.run waits for the threads   *)
(* of asyncio.to_thread, which nothing can cancel, and the kubelet kills   *)
(* what is left when the grace period is over (deployment-worker.yaml).    *)
(* Deployment_proof takes this module together with others, so its Init,   *)
(* Next, Spec and vars bear its name.                                      *)
(***************************************************************************)
EXTENDS Naturals

CONSTANTS                   \* every number in the same unit of time
    Workers,        \* the Worker._run tasks
    Grace,          \* terminationGracePeriodSeconds
    ProbeTime,      \* the longest request still being answered
    DrainTimeout,   \* Worker's drain_timeout
    JobTimeout,     \* Worker's job_timeout
    PollTime,       \* the timeout of a worker's dequeue()
    JoinTimeout,    \* close(): _STREAM_SHUTDOWN_TIMEOUT_SECONDS + 1
    CloseTimeout,   \* close(): wait_for on the subscriber client
    CallTime        \* the longest blocking call in a thread

ASSUME ShutdownAssumption ==
    /\ Grace \in Nat /\ ProbeTime \in Nat
    /\ DrainTimeout \in Nat /\ JobTimeout \in Nat /\ PollTime \in Nat
    /\ JoinTimeout \in Nat /\ CloseTimeout \in Nat /\ CallTime \in Nat

VARIABLES
    now,            \* time since SIGTERM
    held,           \* how long open requests hold the lifespan back
    stage,          \* what the process is waiting for
    deadline,       \* when that wait is over at the latest
    loop,           \* loop[w]: what the loop of w does
    until,          \* until[w]: when the time budget of its job is over
    threads         \* when the last thread is done

shutdownVars == <<now, held, stage, deadline, loop, until, threads>>

Over == stage \in {"exited", "killed"}
Running(w) == loop[w] = "running"

ShutdownTypeOK ==
    /\ now \in 0 .. Grace
    /\ held \in 0 .. ProbeTime
    /\ stage \in {"http", "drain", "join", "client", "executor", "exited", "killed"}
    /\ deadline \in Nat
    /\ loop \in [Workers -> {"idle", "running", "ended"}]
    /\ until \in [Workers -> Nat]
    /\ threads \in Nat

\* A job may be at any point of its budget, and a job that ran out of it
\* earlier may have left a call behind.
ShutdownInit ==
    /\ now = 0
    /\ stage = "http"
    /\ held \in 0 .. ProbeTime
    /\ deadline = held
    /\ loop \in [Workers -> {"idle", "running"}]
    /\ until \in [Workers -> 0 .. JobTimeout]
    /\ \A w \in Workers : loop[w] = "idle" => until[w] = 0
    /\ threads \in 0 .. CallTime

Enter(next, timeout) ==
    /\ stage' = next
    /\ deadline' = now + timeout

\* An interrupted await of to_thread leaves its call running.
LeaveCall == \E d \in 0 .. CallTime : threads' = IF now + d > threads THEN now + d ELSE threads

\* Time passes until something has to happen.
Tick ==
    /\ ~Over
    /\ now < Grace
    /\ now < IF stage = "executor" THEN threads ELSE deadline
    /\ \A w \in Workers : Running(w) => now < until[w]
    /\ now' = now + 1
    /\ UNCHANGED <<held, stage, deadline, loop, until, threads>>

-----------------------------------------------------------------------------
\* dequeue() returns a job: until the stop event is set, and still once after
\* it if the loop was waiting at that moment.
TakeJob(w) ==
    /\ loop[w] = "idle"
    /\ \/ stage = "http"
       \/ stage = "drain" /\ now + DrainTimeout <= deadline + PollTime
    /\ loop' = [loop EXCEPT ![w] = "running"]
    /\ until' = [until EXCEPT ![w] = now + JobTimeout]
    /\ UNCHANGED <<now, held, stage, deadline, threads>>

\* The loop goes round, or ends once the stop event is set.
EndOfRound(w) ==
    /\ loop' = [loop EXCEPT ![w] = IF stage = "http" THEN "idle" ELSE "ended"]
    /\ until' = [until EXCEPT ![w] = 0]

\* A job is done and acked or nacked; or dequeue() times out after the stop.
EndJob(w) ==
    /\ Running(w) \/ (loop[w] = "idle" /\ stage = "drain")
    /\ EndOfRound(w)
    /\ UNCHANGED <<now, held, stage, deadline, threads>>

\* wait_for cuts the job off, the worker nacks; the call goes on.
JobTimesOut(w) ==
    /\ Running(w) /\ now = until[w]
    /\ LeaveCall
    /\ EndOfRound(w)
    /\ UNCHANGED <<now, held, stage, deadline>>

-----------------------------------------------------------------------------
\* uvicorn has answered the last request; worker.stop() sets the event.
StopWorker ==
    /\ stage = "http"
    /\ now = held
    /\ Enter("drain", DrainTimeout)
    /\ UNCHANGED <<now, held, loop, until, threads>>

\* asyncio.wait returns because every loop has ended.
Drained ==
    /\ stage = "drain"
    /\ \A w \in Workers : loop[w] = "ended"
    /\ Enter("join", JoinTimeout)
    /\ UNCHANGED <<now, held, loop, until, threads>>

\* Mutant: the drain window does not end while a loop runs.
DrainWindowIgnored ==
    /\ stage = "drain"
    /\ now = deadline
    /\ deadline' = now + 1
    /\ UNCHANGED <<now, held, stage, loop, until, threads>>

\* Mutant: stop() leaves the pending tasks as they are and goes on.
CancelForgotten ==
    /\ stage = "drain"
    /\ now = deadline
    /\ Enter("join", JoinTimeout)
    /\ UNCHANGED <<now, held, loop, until, threads>>

\* The window is over: the remaining tasks are cancelled, and each releases its
\* delivery at once; their calls go on. close() nacks the rest.
CancelPending ==
    /\ stage = "drain"
    /\ now = deadline
    /\ LeaveCall
    /\ loop' = [w \in Workers |-> "ended"]
    /\ until' = [w \in Workers |-> 0]
    /\ Enter("join", JoinTimeout)
    /\ UNCHANGED <<now, held>>

\* close(): the stream is down, or future.result() timed out.
Joined ==
    /\ stage = "join"
    /\ Enter("client", CloseTimeout)
    /\ UNCHANGED <<now, held, loop, until, threads>>

\* close(): the client is closed, or its close() is left to its thread. What
\* follows, up to the end of the lifespan, does not wait.
ClientClosed ==
    /\ stage = "client"
    /\ \/ UNCHANGED threads
       \/ now = deadline /\ LeaveCall
    /\ Enter("executor", 0)
    /\ UNCHANGED <<now, held, loop, until>>

\* asyncio.run: shutdown_default_executor() joins every thread.
Exit ==
    /\ stage = "executor"
    /\ now >= threads
    /\ stage' = "exited"
    /\ UNCHANGED <<now, held, deadline, loop, until, threads>>

\* SIGKILL.
Kill ==
    /\ ~Over
    /\ now = Grace
    /\ stage' = "killed"
    /\ UNCHANGED <<now, held, deadline, loop, until, threads>>

-----------------------------------------------------------------------------
WorkerStep(w) == TakeJob(w) \/ EndJob(w) \/ JobTimesOut(w)

ShutdownNext ==
    \/ Tick
    \/ \E w \in Workers : WorkerStep(w)
    \/ StopWorker
    \/ Drained
    \/ CancelPending
    \/ Joined
    \/ ClientClosed
    \/ Exit
    \/ Kill

ShutdownSpec == ShutdownInit /\ [][ShutdownNext]_shutdownVars

-----------------------------------------------------------------------------
(* Properties.                                                             *)

\* The kubelet kills the process only if open requests, drain window, stream
\* join, client close and the longest call do not fit into the grace period
\* together, however the jobs hang: worker.py says that a hung job cannot outlive
\* the pod's shutdown budget.
ExitsWithinGrace ==
    stage = "killed" =>
        held + DrainTimeout + JoinTimeout + CloseTimeout + CallTime >= Grace

\* When it does, no worker is in the middle of a job, unless requests held the
\* lifespan back so long that not even the drain window was over: each delivery
\* was settled while the nack could still be sent.
ReleasedBeforeKill ==
    stage = "killed" =>
        held + DrainTimeout >= Grace \/ \A w \in Workers : ~Running(w)
=============================================================================
