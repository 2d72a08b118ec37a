---------------------------- MODULE StreamProbe -----------------------------
(***************************************************************************)
(* Two cures for a dead stream race each other: the supervisor of          *)
(* queue_pubsub.py opens a new one, with a backoff, and the kubelet, which *)
(* asks /livez (app.py), restarts the process (deployment-worker.yaml).    *)
(* Time is in seconds. PubSubStream has the interleavings of the steps     *)
(* that are one step here.                                                 *)
(* Deployment_proof takes this module together with others, so its Init,   *)
(* Next, Spec and vars bear its name.                                      *)
(***************************************************************************)
EXTENDS Naturals

CONSTANTS
    ProbeDelay,     \* initialDelaySeconds of the livenessProbe
    ProbePeriod,    \* periodSeconds
    FailureThreshold,
    MaxOutage,      \* bound: how long an outage lasts
    RestartTime     \* bound: from the kubelet's decision to the new lifespan

InitialBackoff == 1
MaxBackoff == 30

ASSUME ProbeAssumption ==
    /\ ProbeDelay \in Nat \ {0} /\ ProbePeriod \in Nat \ {0}
    /\ FailureThreshold \in Nat \ {0}
    /\ MaxOutage \in Nat /\ RestartTime \in Nat

VARIABLES
    outage,         \* whether Pub/Sub refuses this process, with an error the
                    \* library takes for terminal
    length,         \* how long it lasts, or the last one lasted
    since,          \* how long it has been over without the process consuming
    process,        \* "up" or "restarting"
    alive,          \* _stream_alive
    asleep,         \* whether the supervisor is in asyncio.sleep(delay)
    delay,
    timer,          \* what is left of that sleep, or of the restart
    nextProbe,      \* time to the next probe
    failures        \* probes failed in a row

probeVars == <<outage, length, since, process, alive, asleep, delay, timer,
          nextProbe, failures>>

ProbeInit ==
    /\ outage = FALSE /\ length = 0 /\ since = 0
    /\ process = "up"
    /\ alive = TRUE
    /\ asleep = FALSE
    /\ delay = InitialBackoff
    /\ timer = 0
    /\ nextProbe \in 1 .. ProbePeriod
    /\ failures = 0

Waiting == asleep \/ process = "restarting"

-----------------------------------------------------------------------------
(* Pub/Sub and the clock.                                                  *)

\* Outages are far enough apart for a probe to see the stream alive in between.
OutageBegins ==
    /\ ~outage /\ process = "up" /\ alive /\ failures = 0
    /\ outage' = TRUE
    /\ length' = 0 /\ since' = 0
    /\ UNCHANGED <<process, alive, asleep, delay, timer, nextProbe, failures>>

OutageEnds ==
    /\ outage
    /\ outage' = FALSE
    /\ UNCHANGED <<length, since, process, alive, asleep, delay, timer, nextProbe, failures>>

\* A second passes, unless something is due.
Second ==
    /\ outage => length < MaxOutage
    /\ Waiting => timer > 0
    /\ process = "up" => nextProbe > 0
    /\ length' = IF outage THEN length + 1 ELSE length
    /\ since' = IF ~outage /\ ~alive THEN since + 1 ELSE 0
    /\ timer' = IF Waiting THEN timer - 1 ELSE timer
    /\ nextProbe' = IF process = "up" THEN nextProbe - 1 ELSE nextProbe
    /\ UNCHANGED <<outage, process, alive, asleep, delay, failures>>

-----------------------------------------------------------------------------
(* queue_pubsub.py                                                         *)

\* Mutant: the first attempt waits as long as the last ones.
FirstDelayLong == MaxBackoff

\* What _on_stream_done hands to _reconnect_after.
FirstDelay == InitialBackoff

\* _on_stream_done(), in an outage only: other ends the library repairs itself.
StreamDies ==
    /\ outage /\ process = "up" /\ alive
    /\ alive' = FALSE
    /\ asleep' = TRUE
    /\ delay' = FirstDelay
    /\ timer' = FirstDelay
    /\ UNCHANGED <<outage, length, since, process, nextProbe, failures>>

\* _subscribe() returns; in an outage, to a stream that is going to die.
Reopened ==
    /\ alive' = TRUE
    /\ asleep' = FALSE
    /\ timer' = 0
    /\ delay' = InitialBackoff

\* subscribe() raises, and the loop sleeps twice as long, up to a cap.
BackOff ==
    /\ outage
    /\ delay' = IF 2 * delay > MaxBackoff THEN MaxBackoff ELSE 2 * delay
    /\ timer' = delay'
    /\ UNCHANGED <<alive, asleep>>

\* Mutant: the supervisor returns although the attempt failed.
AttemptOnce ==
    /\ asleep /\ timer = 0
    /\ \/ Reopened
       \/ outage /\ asleep' = FALSE /\ UNCHANGED <<alive, delay, timer>>
    /\ UNCHANGED <<outage, length, since, process, nextProbe, failures>>

\* _reconnect_after() wakes up.
Attempt ==
    /\ asleep /\ timer = 0
    /\ Reopened \/ BackOff
    /\ UNCHANGED <<outage, length, since, process, nextProbe, failures>>

-----------------------------------------------------------------------------
(* The kubelet.                                                            *)

\* The process is gone: killed, or because its lifespan raised.
Restart ==
    /\ process' = "restarting"
    /\ alive' = FALSE
    /\ asleep' = FALSE
    /\ delay' = InitialBackoff
    /\ failures' = 0
    /\ timer' \in 0 .. RestartTime

\* /livez answers 503 while the stream is down; enough of that in a row is fatal.
Probe ==
    /\ process = "up" /\ nextProbe = 0
    /\ nextProbe' = ProbePeriod
    /\ IF ~alive /\ failures + 1 = FailureThreshold
         THEN Restart
         ELSE /\ failures' = IF alive THEN 0 ELSE failures + 1
              /\ UNCHANGED <<process, alive, asleep, delay, timer>>
    /\ UNCHANGED <<outage, length, since>>

\* The new process starts its queue: it opens a stream, or raises in an outage.
StartProcess ==
    /\ process = "restarting" /\ timer = 0
    /\ \/ /\ process' = "up"
          /\ Reopened
          /\ nextProbe' = ProbeDelay
          /\ UNCHANGED failures
       \/ outage /\ Restart /\ UNCHANGED nextProbe
    /\ UNCHANGED <<outage, length, since>>

ProbeNext ==
    \/ OutageBegins
    \/ OutageEnds
    \/ Second
    \/ StreamDies
    \/ Attempt
    \/ Probe
    \/ StartProcess

ProbeSpec == ProbeInit /\ [][ProbeNext]_probeVars

-----------------------------------------------------------------------------
(* Properties, with the numbers of the chart.                              *)

\* The shortest outage that can end in a restart.
RideOut == 12

\* "a transient blip costs seconds rather than a pod restart"
\* (queue_pubsub.py): the backoff is short enough at first for the process to
\* be back before the probes give it up, wherever the probes fall.
BlipCostsNoRestart == process = "restarting" => length >= RideOut

\* The longest rest of a sleep that an outage's end can fall into before the
\* probes give the process up.
LongestWait == 15

\* Once the outage is over a process that is up consumes again within seconds:
\* its backoff does not get long, as the probes replace a process that has failed
\* for so long. One that the probes have given up, before or after that moment,
\* needs the time of its restart besides.
RecoversInTime ==
    ~alive => since <= LongestWait + (IF process = "up" THEN 0 ELSE RestartTime)
=============================================================================
