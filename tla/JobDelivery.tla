---------------------------- MODULE JobDelivery ----------------------------
(***************************************************************************)
(* What becomes of a job once it is published: the subscription redelivers *)
(* it with an attempt count until it is acked, dead-lettered or expires    *)
(* (infra/gcp/pubsub.tf), worker.py runs it under a time budget and may be *)
(* stopped, cancelled or killed, pipeline.py writes the story and the      *)
(* image, stores both, replies or apologises, telegram.py sends.           *)
(***************************************************************************)
EXTENDS Naturals

CONSTANTS
    Jobs,           \* generation commands, one message each
    Slots,          \* Worker._run loops of all the worker processes
    MaxAttempts,    \* max_delivery_attempts of the subscription and the worker
    LeaseSeconds,   \* _MAX_LEASE_SECONDS
    JobTimeout,     \* Worker's job_timeout, in seconds
    NoJob           \* an idle slot's job

ASSUME DeliveryAssumption ==
    /\ MaxAttempts \in Nat \ {0}
    /\ LeaseSeconds \in Nat
    /\ JobTimeout \in Nat
    /\ NoJob \notin Jobs

VARIABLES
    sub,            \* sub[j]: where the subscription has j's message
    attempts,       \* attempts[j]: deliveries of j made so far
    slot,           \* slot[w]: the delivery w works on and its next step
    loop,           \* loop[w]: whether the worker loop runs
    stored,         \* stored[j]: what the blob store holds of j
    stories,        \* stories[j]: texts of j's story shown in the chat
    pictures,       \* pictures[j]: illustrations of j shown in the chat
    apologies       \* apologies[j]: apologies for j shown in the chat

chat == <<stories, pictures, apologies>>
vars == <<sub, attempts, slot, loop, stored, chat>>

\* The awaits of Pipeline.process, in order, and what remains after it.
PipelineSteps == {"story", "image", "saveText", "saveImage", "send", "photo",
                  "apology"}
Steps == PipelineSteps \cup {"ack", "nack"}

Idle == [job |-> NoJob, attempt |-> 0, step |-> "idle"]

Working(w) == slot[w].step # "idle"

TypeOK ==
    /\ sub \in [Jobs -> {"absent", "ready", "out", "acked", "dead", "expired"}]
    /\ attempts \in [Jobs -> 0 .. MaxAttempts]
    /\ slot \in [Slots -> [job : Jobs, attempt : 1 .. MaxAttempts, step : Steps]
                          \cup {Idle}]
    /\ loop \in [Slots -> {"running", "stopping", "stopped"}]
    /\ stored \in [Jobs -> SUBSET {"text", "image"}]
    /\ stories \in [Jobs -> Nat]
    /\ pictures \in [Jobs -> Nat]
    /\ apologies \in [Jobs -> Nat]

Init ==
    /\ sub = [j \in Jobs |-> "absent"]
    /\ attempts = [j \in Jobs |-> 0]
    /\ slot = [w \in Slots |-> Idle]
    /\ loop = [w \in Slots |-> "running"]
    /\ stored = [j \in Jobs |-> {}]
    /\ stories = [j \in Jobs |-> 0]
    /\ pictures = [j \in Jobs |-> 0]
    /\ apologies = [j \in Jobs |-> 0]

-----------------------------------------------------------------------------
(* The subscription.                                                       *)

\* PubSubQueue.enqueue: publish() and wait for its result.
Publish(j) ==
    /\ sub[j] = "absent"
    /\ sub' = [sub EXCEPT ![j] = "ready"]
    /\ UNCHANGED <<attempts, slot, loop, stored, chat>>

\* A delivery ends unacked: redeliver, or dead-letter after the last attempt.
Requeue(j) ==
    sub' = [sub EXCEPT ![j] = IF attempts[j] = MaxAttempts THEN "dead" ELSE "ready"]

\* A worker is at work on the current delivery of j.
WorkedOn(j) == \E w \in Slots : slot[w].job = j /\ slot[w].attempt = attempts[j]

\* The lease of the current delivery runs out. The process extends it for
\* LeaseSeconds while a worker runs the job, so a job that may run longer than
\* that loses it; without a worker (a crash, a lost ack or nack) it always ends.
LeaseExpires(j) ==
    /\ sub[j] = "out"
    /\ WorkedOn(j) => LeaseSeconds < JobTimeout
    /\ Requeue(j)
    /\ UNCHANGED <<attempts, slot, loop, stored, chat>>

\* The lease ends early, under a worker that goes on: the stream that extends it
\* has terminated, and the supervisor will open another.
LeaseLost(j) ==
    /\ sub[j] = "out"
    /\ WorkedOn(j)
    /\ Requeue(j)
    /\ UNCHANGED <<attempts, slot, loop, stored, chat>>

\* message_retention_duration passes while no worker takes the message.
Expire(j) ==
    /\ sub[j] = "ready"
    /\ sub' = [sub EXCEPT ![j] = "expired"]
    /\ UNCHANGED <<attempts, slot, loop, stored, chat>>

-----------------------------------------------------------------------------
(* Worker._run.                                                            *)

\* dequeue() returns a delivery and process() starts. A stopped loop takes none.
Deliver(w, j) ==
    /\ loop[w] = "running"
    /\ ~Working(w)
    /\ sub[j] = "ready"
    /\ sub' = [sub EXCEPT ![j] = "out"]
    /\ attempts' = [attempts EXCEPT ![j] = @ + 1]
    /\ slot' = [slot EXCEPT ![w] = [job |-> j, attempt |-> attempts[j] + 1,
                                    step |-> "story"]]
    /\ UNCHANGED <<loop, stored, chat>>

\* Mutant: off by one, the last attempt but one counts as the last.
IsFinalAttemptEarly(w) == slot[w].attempt >= MaxAttempts - 1

\* _is_final_attempt
IsFinalAttempt(w) == slot[w].attempt >= MaxAttempts

\* What a step of Pipeline.process stores.
Blob(step) == IF step = "saveText" THEN "text" ELSE "image"

Goto(w, step) == slot' = [slot EXCEPT ![w].step = step]

\* The loop goes round; it ends here when stop() has been called.
Finish(w) ==
    /\ slot' = [slot EXCEPT ![w] = Idle]
    /\ loop' = [loop EXCEPT ![w] = IF @ = "stopping" THEN "stopped" ELSE @]

\* ack(). It takes effect on a delivery whose lease holds, and may or may not
\* on one whose lease has ended; it is lost when the stream it belongs to died.
Ack(w) ==
    /\ slot[w].step = "ack"
    /\ \/ sub' = [sub EXCEPT ![slot[w].job] = IF @ \in {"out", "ready"}
                                                THEN "acked" ELSE @]
       \/ UNCHANGED sub
    /\ Finish(w)
    /\ UNCHANGED <<attempts, stored, chat>>

\* nack(). It counts for the current delivery only, and may be lost as well.
Nack(w) ==
    /\ slot[w].step = "nack"
    /\ \/ /\ sub[slot[w].job] = "out"
          /\ slot[w].attempt = attempts[slot[w].job]
          /\ Requeue(slot[w].job)
       \/ UNCHANGED sub
    /\ Finish(w)
    /\ UNCHANGED <<attempts, stored, chat>>

\* What an await that raises or is cancelled may have done all the same: an
\* upload goes on in its thread, a request may have reached Telegram.
SideEffect(w) ==
    LET j == slot[w].job
        s == slot[w].step
    IN  \/ /\ s \in {"saveText", "saveImage"}
           /\ stored' = [stored EXCEPT ![j] = @ \cup {Blob(s)}]
           /\ UNCHANGED <<stories, pictures, apologies>>
        \/ /\ s = "send"
           /\ stories' = [stories EXCEPT ![j] = @ + 1]
           /\ pictures' \in {pictures, [pictures EXCEPT ![j] = @ + 1]}
           /\ UNCHANGED <<stored, apologies>>
        \/ /\ s = "photo"
           /\ pictures' = [pictures EXCEPT ![j] = @ + 1]
           /\ UNCHANGED <<stored, stories, apologies>>
        \/ /\ s = "apology"
           /\ apologies' = [apologies EXCEPT ![j] = @ + 1]
           /\ UNCHANGED <<stored, stories, pictures>>
        \/ UNCHANGED <<stored, stories, pictures, apologies>>

\* process() is cancelled at an await, and the worker releases the delivery.
Interrupt(w) ==
    /\ slot[w].step \in PipelineSteps
    /\ SideEffect(w)
    /\ Goto(w, "nack")
    /\ UNCHANGED <<sub, attempts, loop>>

\* Mutant: a job that exceeds its budget is acked.
TimeoutAcks(w) ==
    /\ slot[w].step \in PipelineSteps
    /\ SideEffect(w)
    /\ Goto(w, "ack")
    /\ UNCHANGED <<sub, attempts, loop>>

\* wait_for cancels process() at whatever await it is in; CancelledError passes
\* its "except Exception", so there is no apology, and the worker releases.
Timeout(w) == Interrupt(w)

\* stop() sets the flag; an idle loop ends within its dequeue timeout. (A job
\* that it still receives in that second counts as delivered before the stop: the
\* loop ends in the same state.)
Stop(w) ==
    /\ loop[w] = "running"
    /\ loop' = [loop EXCEPT ![w] = IF Working(w) THEN "stopping" ELSE "stopped"]
    /\ UNCHANGED <<sub, attempts, slot, stored, chat>>

\* The drain window is over: the task is cancelled and releases its delivery.
Cancel(w) ==
    /\ loop[w] = "stopping"
    /\ Interrupt(w)

\* The process is killed; what it was doing may still take effect.
Crash(w) ==
    /\ loop[w] # "stopped"
    /\ SideEffect(w)
    /\ slot' = [slot EXCEPT ![w] = Idle]
    /\ loop' = [loop EXCEPT ![w] = "stopped"]
    /\ UNCHANGED <<sub, attempts>>

\* A new pod.
Start(w) ==
    /\ loop[w] = "stopped"
    /\ loop' = [loop EXCEPT ![w] = "running"]
    /\ UNCHANGED <<sub, attempts, slot, stored, chat>>

-----------------------------------------------------------------------------
(* Pipeline.process.                                                       *)

\* Story, then image; then both are stored, the text before the image.
Generate(w) ==
    /\ \/ slot[w].step = "story" /\ Goto(w, "image")
       \/ slot[w].step = "image" /\ Goto(w, "saveText")
    /\ UNCHANGED <<sub, attempts, loop, stored, chat>>

\* storage.save() of the text, then of the image.
Save(w) ==
    /\ \/ slot[w].step = "saveText" /\ Goto(w, "saveImage")
       \/ slot[w].step = "saveImage" /\ Goto(w, "send")
    /\ stored' = [stored EXCEPT ![slot[w].job] = @ \cup {Blob(slot[w].step)}]
    /\ UNCHANGED <<sub, attempts, loop, chat>>

\* Mutant: the client sends the photo again when the answer is slow.
SendCaptionedAgain(w) ==
    /\ slot[w].step = "send"
    /\ stories' = [stories EXCEPT ![slot[w].job] = @ + 1]
    /\ pictures' = [pictures EXCEPT ![slot[w].job] = @ + 1]
    /\ UNCHANGED <<sub, attempts, slot, loop, stored, apologies>>

\* send_story_and_image: a story that fits a caption goes out in one request
\* with its picture, a longer one as a message that the picture follows.
SendCaptioned(w) ==
    /\ slot[w].step = "send"
    /\ stories' = [stories EXCEPT ![slot[w].job] = @ + 1]
    /\ pictures' = [pictures EXCEPT ![slot[w].job] = @ + 1]
    /\ Goto(w, "ack")
    /\ UNCHANGED <<sub, attempts, loop, stored, apologies>>

\* _send_message of a long story.
SendText(w) ==
    /\ slot[w].step = "send"
    /\ stories' = [stories EXCEPT ![slot[w].job] = @ + 1]
    /\ Goto(w, "photo")
    /\ UNCHANGED <<sub, attempts, loop, stored, pictures, apologies>>

\* _send_photo, after the message.
SendPhoto(w) ==
    /\ slot[w].step = "photo"
    /\ pictures' = [pictures EXCEPT ![slot[w].job] = @ + 1]
    /\ Goto(w, "ack")
    /\ UNCHANGED <<sub, attempts, loop, stored, stories, apologies>>

\* Mutant: process() returns True after an error.
FailReturnsTrue(w) ==
    /\ slot[w].step \in PipelineSteps \ {"apology"}
    /\ SideEffect(w)
    /\ Goto(w, "ack")
    /\ UNCHANGED <<sub, attempts, loop>>

\* Any step raises: apologise on the final attempt only, and return False.
Fail(w) ==
    /\ slot[w].step \in PipelineSteps \ {"apology"}
    /\ SideEffect(w)
    /\ Goto(w, IF IsFinalAttempt(w) THEN "apology" ELSE "nack")
    /\ UNCHANGED <<sub, attempts, loop>>

\* The apology is sent, or its failure is logged; False either way.
Apologise(w) ==
    /\ slot[w].step = "apology"
    /\ SideEffect(w)
    /\ Goto(w, "nack")
    /\ UNCHANGED <<sub, attempts, loop>>

-----------------------------------------------------------------------------
\* What happens to the delivery that w holds.
Advance(w) ==
    \/ Generate(w)
    \/ Save(w)
    \/ SendCaptioned(w)
    \/ SendText(w)
    \/ SendPhoto(w)
    \/ Fail(w)
    \/ Apologise(w)
    \/ Timeout(w)
    \/ Ack(w)
    \/ Nack(w)

\* A step while every stream extends its leases for as long as it may.
SteadyNext ==
    \/ \E j \in Jobs : Publish(j)
    \/ \E j \in Jobs : LeaseExpires(j)
    \/ \E j \in Jobs : Expire(j)
    \/ \E w \in Slots, j \in Jobs : Deliver(w, j)
    \/ \E w \in Slots : Advance(w)
    \/ \E w \in Slots : Stop(w)
    \/ \E w \in Slots : Cancel(w)
    \/ \E w \in Slots : Crash(w)
    \/ \E w \in Slots : Start(w)

Next ==
    \/ \E j \in Jobs : LeaseLost(j)
    \/ SteadyNext

\* Every await of a job returns, raises or is cut off by the time budget; a
\* lease without a worker ends; Kubernetes restarts pods, and Pub/Sub keeps
\* offering a message that can be delivered. That users send commands, that
\* processes stop or crash and that the retention period passes is not assumed.
Fairness ==
    /\ \A w \in Slots : WF_vars(Advance(w)) /\ WF_vars(Start(w))
    /\ \A j \in Jobs : /\ WF_vars(LeaseExpires(j))
                       /\ SF_vars(\E w \in Slots : Deliver(w, j))

Spec == Init /\ [][Next]_vars
FairSpec == Spec /\ Fairness

\* No stream terminates: what is left of overlap is due to the constants.
SteadySpec == Init /\ [][SteadyNext]_vars

-----------------------------------------------------------------------------
(* Properties.                                                             *)

\* A job leaves the subscription as acked only when the family has its story
\* and picture and both are in the store, whatever crashed or timed out before.
AckImpliesReplied ==
    \A j \in Jobs : sub[j] = "acked" =>
        stories[j] > 0 /\ pictures[j] > 0 /\ stored[j] = {"text", "image"}

\* Nothing is shown that is not archived: persisting comes before replying on
\* every attempt, and a cancelled upload never lets a reply through.
ShownIsStored ==
    \A j \in Jobs : stories[j] > 0 => stored[j] = {"text", "image"}

\* The chat is told of a failure once, on the last delivery, however many
\* attempts fail and however they overlap.
ApologyOnlyWhenExhausted ==
    \A j \in Jobs : apologies[j] <= (IF attempts[j] = MaxAttempts THEN 1 ELSE 0)

\* Redelivery may repeat a story, but at most once per attempt, and no picture
\* arrives without its story.
RepliesBounded ==
    \A j \in Jobs : pictures[j] <= stories[j] /\ stories[j] <= attempts[j]

\* JobContract over this module's state: a job is done when it is acked and
\* lost when it is dead-lettered or expires.
status == [j \in Jobs |-> CASE sub[j] = "absent" -> "absent"
                           [] sub[j] \in {"ready", "out"} -> "queued"
                           [] sub[j] = "acked" -> "done"
                           [] sub[j] \in {"dead", "expired"} -> "lost"]
replied == {j \in Jobs : stories[j] > 0 /\ pictures[j] > 0}
apologised == {j \in Jobs : apologies[j] > 0}

Contract == INSTANCE JobContract WITH
                status <- status, replied <- replied, apologised <- apologised

\* The delivery machinery keeps the contract: every accepted job is completed,
\* dead-lettered or expires, and completed only after the reply.
ImplementsContract == Contract!FairSpec

\* The subscription never starts a delivery while an older one of the same job
\* still runs: the point of the lease limit in the comment on
\* _MAX_LEASE_SECONDS. With 60 s of lease and 90 s of budget it does, even while
\* every stream holds.
NoConcurrentWork ==
    \A v, w \in Slots :
        (v # w /\ slot[v].job # NoJob) => slot[v].job # slot[w].job
=============================================================================
