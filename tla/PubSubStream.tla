---------------------------- MODULE PubSubStream ----------------------------
(***************************************************************************)
(* Supervision of the streaming pull in adapters/queue_pubsub.py: opening  *)
(* a stream, its done-callback on a library thread, the supervisor that    *)
(* reopens it, close(), and the health flag that /livez reports.           *)
(*                                                                         *)
(* The event loop runs _subscribe without yielding; the library thread     *)
(* runs _on_stream_done beside it, one attribute at a time.                *)
(***************************************************************************)
EXTENDS Naturals

CONSTANT MaxStreams     \* bound: the streams opened in a behaviour; the last
                        \* one does not fail

ASSUME StreamAssumption == MaxStreams \in Nat \ {0}

Streams == 1 .. MaxStreams
None == 0

InitialBackoff == 1
MaxBackoff == 30

VARIABLES
    life,           \* life[s] of the library's stream s
    registered,     \* add_done_callback(_on_stream_done): "no", "live" when it
                    \* came before the end of s, "late" when it came after
    doneStep,       \* the next statement of _on_stream_done for s
    subscribing,    \* the stream _subscribe is opening on the loop, or None
    alive,          \* _stream_alive
    future,         \* _streaming_future
    supervisors,    \* streams whose _reconnect_after task has not returned
    delay,          \* delay[s]: seconds that task sleeps before its next attempt
    closeStep       \* how far close() is

vars == <<life, registered, doneStep, subscribing, alive, future, supervisors,
          delay, closeStep>>

Closing == closeStep # "idle"
Closed  == closeStep = "closed"
Started == life[1] # "unused"

TypeOK ==
    /\ life \in [Streams -> {"unused", "open", "ended", "cancelled"}]
    /\ registered \in [Streams -> {"no", "live", "late"}]
    /\ doneStep \in [Streams -> {"check", "mark", "forget", "schedule", "returned"}]
    /\ subscribing \in Streams \cup {None}
    /\ alive \in BOOLEAN
    /\ future \in Streams \cup {None}
    /\ supervisors \subseteq Streams
    /\ delay \in [Streams -> InitialBackoff .. MaxBackoff]
    /\ closeStep \in {"idle", "cancel", "join", "closed"}

Init ==
    /\ life = [s \in Streams |-> "unused"]
    /\ registered = [s \in Streams |-> "no"]
    /\ doneStep = [s \in Streams |-> "check"]
    /\ subscribing = None
    /\ alive = FALSE
    /\ future = None
    /\ supervisors = {}
    /\ delay = [s \in Streams |-> InitialBackoff]
    /\ closeStep = "idle"

-----------------------------------------------------------------------------
(* _subscribe, called by start() and by the supervisor.                    *)

IsNext(s) == /\ life[s] = "unused"
             /\ \A t \in Streams : life[t] = "unused" => s <= t

\* subscribe() returns and its future is stored.
Open(s) ==
    /\ IsNext(s)
    /\ life' = [life EXCEPT ![s] = "open"]
    /\ future' = s
    /\ subscribing' = s

Start ==
    /\ closeStep = "idle"       \* close() keeps the lifecycle lock to its end
    /\ ~Started
    /\ Open(1)
    /\ UNCHANGED <<registered, doneStep, alive, supervisors, delay, closeStep>>

\* add_done_callback: from now on the end of s runs _on_stream_done on a library
\* thread; if s has already ended, it runs here and now, inside _subscribe.
Register ==
    /\ subscribing # None
    /\ registered[subscribing] = "no"
    /\ registered' = [registered EXCEPT ![subscribing] =
                         IF life[subscribing] = "open" THEN "live" ELSE "late"]
    /\ UNCHANGED <<life, doneStep, subscribing, alive, future, supervisors,
                   delay, closeStep>>

\* The last statement of _subscribe that matters: _stream_alive = True.
MarkAlive ==
    /\ subscribing # None
    /\ \/ registered[subscribing] = "live"
       \/ registered[subscribing] = "late" /\ doneStep[subscribing] = "returned"
    /\ alive' = TRUE
    /\ subscribing' = None
    /\ UNCHANGED <<life, registered, doneStep, future, supervisors, delay, closeStep>>

-----------------------------------------------------------------------------
(* The library thread.                                                     *)

\* A terminal error ends the stream, maybe while it is being registered.
StreamEnds(s) ==
    /\ s < MaxStreams
    /\ life[s] = "open"
    /\ life' = [life EXCEPT ![s] = "ended"]
    /\ UNCHANGED <<registered, doneStep, subscribing, alive, future,
                   supervisors, delay, closeStep>>

AtDoneStep(s, step, next) ==
    /\ registered[s] # "no"
    /\ life[s] \in {"ended", "cancelled"}
    /\ doneStep[s] = step
    /\ doneStep' = [doneStep EXCEPT ![s] = next]

\* if self._closing or future.cancelled(): return
CheckClosing(s) ==
    /\ AtDoneStep(s, "check",
                  IF Closing \/ life[s] = "cancelled" THEN "returned" ELSE "mark")
    /\ UNCHANGED <<life, registered, subscribing, alive, future, supervisors,
                   delay, closeStep>>

\* Mutant: the reconnect is handed to the loop before the state is updated.
MarkDeadAfterScheduling(s) ==
    /\ AtDoneStep(s, "mark", "forget")
    /\ alive' = FALSE
    /\ supervisors' = supervisors \cup {s}
    /\ UNCHANGED <<life, registered, subscribing, future, delay, closeStep>>

\* self._stream_alive = False
MarkDead(s) ==
    /\ AtDoneStep(s, "mark", "forget")
    /\ alive' = FALSE
    /\ UNCHANGED <<life, registered, subscribing, future, supervisors, delay, closeStep>>

\* self._streaming_future = None
Forget(s) ==
    /\ AtDoneStep(s, "forget", "schedule")
    /\ future' = None
    /\ UNCHANGED <<life, registered, subscribing, alive, supervisors, delay, closeStep>>

\* run_coroutine_threadsafe(self._reconnect_after(...), loop)
Schedule(s) ==
    /\ AtDoneStep(s, "schedule", "returned")
    /\ supervisors' = supervisors \cup {s}
    /\ UNCHANGED <<life, registered, subscribing, alive, future, delay, closeStep>>

-----------------------------------------------------------------------------
(* _reconnect_after on the loop: each action is one wake-up from its sleep. *)

Awake(s) == s \in supervisors /\ subscribing = None

\* Mutant: the task returns only when a stream is believed alive.
SupervisorIgnoresClosing(s) ==
    /\ Awake(s)
    /\ alive
    /\ supervisors' = supervisors \ {s}
    /\ UNCHANGED <<life, registered, doneStep, subscribing, alive, future,
                   delay, closeStep>>

\* Closing, or somebody else's stream is believed alive: return.
SupervisorReturns(s) ==
    /\ Awake(s)
    /\ Closing \/ alive
    /\ supervisors' = supervisors \ {s}
    /\ UNCHANGED <<life, registered, doneStep, subscribing, alive, future,
                   delay, closeStep>>

\* Mutant: _closing is only tested before the sleep.
ReopenWhileClosing(s) ==
    /\ Awake(s)
    /\ ~alive
    /\ \E t \in Streams : Open(t)
    /\ supervisors' = supervisors \ {s}
    /\ UNCHANGED <<registered, doneStep, alive, delay, closeStep>>

\* _subscribe succeeds and the task returns.
Reopen(s) ==
    /\ Awake(s)
    /\ ~Closing
    /\ ~alive
    /\ \E t \in Streams : Open(t)
    /\ supervisors' = supervisors \ {s}
    /\ UNCHANGED <<registered, doneStep, alive, delay, closeStep>>

\* Mutant: the task gives up after a failed attempt.
ReopenGivesUp(s) ==
    /\ Awake(s)
    /\ ~Closing
    /\ ~alive
    /\ supervisors' = supervisors \ {s}
    /\ UNCHANGED <<life, registered, doneStep, subscribing, alive, future,
                   delay, closeStep>>

\* subscribe() raises; the task doubles its delay and sleeps again.
ReopenFails(s) ==
    /\ Awake(s)
    /\ ~Closing
    /\ ~alive
    /\ delay' = [delay EXCEPT ![s] = IF 2 * @ < MaxBackoff THEN 2 * @ ELSE MaxBackoff]
    /\ UNCHANGED <<life, registered, doneStep, subscribing, alive, future,
                   supervisors, closeStep>>

-----------------------------------------------------------------------------
(* close(), under the lifecycle lock.                                      *)

BeginClose ==
    /\ closeStep = "idle"
    /\ subscribing = None
    /\ closeStep' = "cancel"
    /\ UNCHANGED <<life, registered, doneStep, subscribing, alive, future,
                   supervisors, delay>>

\* Take the future, forget it, cancel the stream it stands for.
CancelStream ==
    /\ closeStep = "cancel"
    /\ subscribing = None
    /\ life' = [s \in Streams |-> IF s = future /\ life[s] = "open"
                                    THEN "cancelled" ELSE life[s]]
    /\ future' = None
    /\ closeStep' = "join"
    /\ UNCHANGED <<registered, doneStep, subscribing, alive, supervisors, delay>>

FinishClose ==
    /\ closeStep = "join"
    /\ subscribing = None
    /\ closeStep' = "closed"
    /\ UNCHANGED <<life, registered, doneStep, subscribing, alive, future,
                   supervisors, delay>>

-----------------------------------------------------------------------------
Next ==
    \/ Start
    \/ Register
    \/ MarkAlive
    \/ \E s \in Streams : StreamEnds(s)
    \/ \E s \in Streams : CheckClosing(s)
    \/ \E s \in Streams : MarkDead(s)
    \/ \E s \in Streams : Forget(s)
    \/ \E s \in Streams : Schedule(s)
    \/ \E s \in Streams : SupervisorReturns(s)
    \/ \E s \in Streams : Reopen(s)
    \/ \E s \in Streams : ReopenFails(s)
    \/ BeginClose
    \/ CancelStream
    \/ FinishClose

\* The loop and the callback threads keep running, a sleep ends, and subscribe()
\* does not raise for ever: it opens the stream in the background, so its
\* failures are local and transient. Nothing makes a stream fail or a process
\* close.
Fairness ==
    /\ WF_vars(Register)
    /\ WF_vars(MarkAlive)
    /\ \A s \in Streams : /\ WF_vars(CheckClosing(s))
                          /\ WF_vars(MarkDead(s))
                          /\ WF_vars(Forget(s))
                          /\ WF_vars(Schedule(s))
                          /\ WF_vars(SupervisorReturns(s))
                          /\ WF_vars(Reopen(s))
    /\ WF_vars(CancelStream)
    /\ WF_vars(FinishClose)

Spec == Init /\ [][Next]_vars
FairSpec == Spec /\ Fairness

-----------------------------------------------------------------------------
(* Properties.                                                             *)

IsHealthy == alive /\ ~Closed

\* At most one streaming pull is open, and the adapter holds its future: a
\* stream it lost track of would deliver for ever, and close() could not
\* cancel it.
OpenStreamIsHeld ==
    \A s \in Streams : life[s] = "open" => future = s

\* close() is final: a supervisor that was asleep opens no stream after close()
\* has cancelled the one it found.
NoStreamAfterClose ==
    closeStep \in {"join", "closed"} => \A s \in Streams : life[s] # "open"

\* While /livez reports a started process unhealthy, the reconnect is under way:
\* a supervisor exists, its scheduling is pending, or the stream is being opened.
UnhealthyIsRecovering ==
    (Started /\ ~alive /\ ~Closing) =>
        \/ supervisors # {}
        \/ subscribing # None
        \/ \E s \in Streams : doneStep[s] \in {"forget", "schedule"}

\* The flag recovers from every failure it has noticed.
UnhealthyRecovers == (Started /\ ~alive) ~> (alive \/ Closing)

\* close() ends without waiting for a supervisor, and none is left for good: one
\* that is asleep may outlive close() by the rest of its sleep and returns when
\* it wakes, and so does one that a callback schedules late, having read _closing
\* before close() set it.
SupervisorsEnd == Closing ~> [](Closed /\ supervisors = {})

\* The docstring of _on_stream_done: a terminated stream marks the process
\* unhealthy, so that /livez fails and the pod is restarted, and it is reopened.
\* A process that is healthy for ever with no stream open is the silent outage
\* this was written against. It still happens: a stream that ends while
\* _subscribe registers it is marked alive afterwards.
SilentOutage == /\ Started /\ ~Closing
                /\ IsHealthy
                /\ \A s \in Streams : life[s] # "open"
NoSilentOutage == []<>~SilentOutage
=============================================================================
