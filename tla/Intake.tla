------------------------------- MODULE Intake -------------------------------
(***************************************************************************)
(* From a Telegram update to a published job: dispatch.py handles the      *)
(* update, which reaches it through the webhook of app.py or the long poll *)
(* of poller.py. Telegram repeats what has not been confirmed to it: an    *)
(* answer of 200 confirms a webhook request, and getUpdates confirms all   *)
(* updates below its offset.                                               *)
(***************************************************************************)
EXTENDS Naturals, FiniteSetsExt

CONSTANTS
    Commands,       \* updates that are generation commands
    Chats,          \* updates answered in the chat: queries, greetings, menus
    Others,         \* updates that handle_update ignores
    MaxRestarts,    \* bound: restarts of the process in a behaviour
    MaxJobs         \* bound: jobs of one update are counted up to this

\* update_id, in the order the users sent them.
Updates == Commands \cup Chats \cup Others

ASSUME IntakeAssumption ==
    /\ Updates \subseteq Nat \ {0}
    /\ Commands \cap (Chats \cup Others) = {}
    /\ Chats \cap Others = {}
    /\ MaxRestarts \in Nat
    /\ MaxJobs \in Nat \ {0, 1}

VARIABLES
    transport,      \* how the deployment gets updates: "webhook" or "polling"
    sent,           \* updates the users have sent
    confirmed,      \* updates Telegram will not deliver again
    handling,       \* handling[u]: how far handle_update(u) is
    handled,        \* updates for which handle_update returned or raised
    jobs,           \* jobs[u]: jobs published for u
    batch,          \* what getUpdates returned and the poller has not begun
    offset,         \* the poller's _offset, 0 for None
    restarts        \* restarts so far

vars == <<transport, sent, confirmed, handling, handled, jobs, batch, offset,
          restarts>>

TypeOK ==
    /\ transport \in {"webhook", "polling"}
    /\ sent \subseteq Updates
    /\ confirmed \subseteq sent
    /\ handling \in [Updates -> {"no", "begun", "enqueued"}]
    /\ handled \subseteq sent
    /\ jobs \in [Updates -> 0 .. MaxJobs]
    /\ batch \subseteq sent
    /\ offset \in {0} \cup {u + 1 : u \in sent}
    /\ restarts \in 0 .. MaxRestarts

Init ==
    /\ transport \in {"webhook", "polling"}
    /\ sent = {}
    /\ confirmed = {}
    /\ handling = [u \in Updates |-> "no"]
    /\ handled = {}
    /\ jobs = [u \in Updates |-> 0]
    /\ batch = {}
    /\ offset = 0
    /\ restarts = 0

Busy == \E u \in Updates : handling[u] # "no"

\* A user sends the next message.
Send ==
    /\ sent # Updates
    /\ sent' = sent \cup {Min(Updates \ sent)}
    /\ UNCHANGED <<transport, confirmed, handling, handled, jobs, batch, offset, restarts>>

-----------------------------------------------------------------------------
(* How an update reaches handle_update, and how its end is reported.       *)

\* Telegram posts an unconfirmed update, in any order and again after a failure
\* or an answer that got lost.
Post(u) ==
    /\ transport = "webhook"
    /\ u \in sent \ confirmed
    /\ handling[u] = "no"
    /\ handling' = [handling EXCEPT ![u] = "begun"]
    /\ UNCHANGED <<transport, sent, confirmed, handled, jobs, batch, offset, restarts>>

\* Mutant: the next getUpdates is not kept waiting by a running handler.
PollEarly ==
    /\ transport = "polling"
    /\ batch = {}
    /\ confirmed' = confirmed \cup {u \in sent : u < offset}
    /\ batch' \in {{}, sent \ confirmed'}
    /\ UNCHANGED <<transport, sent, handling, handled, jobs, offset, restarts>>

\* getUpdates: the offset confirms what is below it, the rest is returned, or
\* the answer is lost and the poller asks again.
Poll ==
    /\ transport = "polling"
    /\ batch = {} /\ ~Busy
    /\ confirmed' = confirmed \cup {u \in sent : u < offset}
    /\ batch' \in {{}, sent \ confirmed'}
    /\ UNCHANGED <<transport, sent, handling, handled, jobs, offset, restarts>>

\* getUpdates returns updates in the order of their ids.
FirstInBatch == Min(batch)

\* Mutant: only the first update of an answer is handled.
TakeFirstOnly ==
    /\ batch # {} /\ ~Busy
    /\ offset' = Max(batch) + 1
    /\ batch' = {}
    /\ handling' = [handling EXCEPT ![FirstInBatch] = "begun"]
    /\ UNCHANGED <<transport, sent, confirmed, handled, jobs, restarts>>

\* Mutant: the newest update of an answer comes first.
TakeNewest ==
    /\ batch # {} /\ ~Busy
    /\ offset' = Max(batch) + 1
    /\ batch' = batch \ {Max(batch)}
    /\ handling' = [handling EXCEPT ![Max(batch)] = "begun"]
    /\ UNCHANGED <<transport, sent, confirmed, handled, jobs, restarts>>

\* Mutant: the offset does not move with the updates.
TakeKeepingOffset ==
    /\ batch # {} /\ ~Busy
    /\ batch' = batch \ {FirstInBatch}
    /\ handling' = [handling EXCEPT ![FirstInBatch] = "begun"]
    /\ UNCHANGED <<transport, sent, confirmed, handled, jobs, offset, restarts>>

\* The poller's loop goes on to the next update of the batch: the offset first,
\* then the handler.
TakeFromBatch ==
    /\ batch # {} /\ ~Busy
    /\ offset' = FirstInBatch + 1
    /\ batch' = batch \ {FirstInBatch}
    /\ handling' = [handling EXCEPT ![FirstInBatch] = "begun"]
    /\ UNCHANGED <<transport, sent, confirmed, handled, jobs, restarts>>

\* handle_update(u) returns: the webhook answers 200, which may get lost.
Return(u) ==
    /\ handling' = [handling EXCEPT ![u] = "no"]
    /\ handled' = handled \cup {u}
    /\ confirmed' \in {confirmed} \cup
           (IF transport = "webhook" THEN {confirmed \cup {u}} ELSE {})
    /\ UNCHANGED <<transport, sent, batch, offset, restarts>>

\* handle_update(u) raises: the webhook answers 500; the poller logs it.
Raise(u) ==
    /\ handling' = [handling EXCEPT ![u] = "no"]
    /\ handled' = handled \cup {u}
    /\ UNCHANGED <<transport, sent, confirmed, batch, offset, restarts>>

-----------------------------------------------------------------------------
(* Dispatcher.handle_update.                                               *)

\* No chat or no text.
Ignore(u) ==
    /\ handling[u] = "begun" /\ u \in Others
    /\ Return(u)
    /\ UNCHANGED jobs

\* send_text for a query, a greeting or the menu.
Answer(u) ==
    /\ handling[u] = "begun" /\ u \in Chats
    /\ Return(u) \/ Raise(u)
    /\ UNCHANGED jobs

\* Mutant: the update is confirmed before its job is published.
EnqueueInBackground(u) ==
    /\ handling[u] = "begun" /\ u \in Commands
    /\ Return(u)
    /\ UNCHANGED jobs

OneMore(n) == IF n < MaxJobs THEN n + 1 ELSE n

\* The job is published under a fresh id; the ack to the chat comes after it.
Enqueue(u) ==
    /\ handling[u] = "begun" /\ u \in Commands
    /\ jobs' = [jobs EXCEPT ![u] = OneMore(@)]
    /\ handling' = [handling EXCEPT ![u] = "enqueued"]
    /\ UNCHANGED <<transport, sent, confirmed, handled, batch, offset, restarts>>

\* publish() fails, or its result does after the message was accepted.
EnqueueRaises(u) ==
    /\ handling[u] = "begun" /\ u \in Commands
    /\ jobs' \in {jobs, [jobs EXCEPT ![u] = OneMore(@)]}
    /\ Raise(u)

\* Mutant: an ack that cannot be sent leaves the request without an answer.
AcknowledgeOrFail(u) ==
    /\ handling[u] = "enqueued"
    /\ Raise(u)
    /\ UNCHANGED jobs

\* send_text of the ack succeeds, or raises with the job already published.
Acknowledge(u) ==
    /\ handling[u] = "enqueued"
    /\ Return(u) \/ Raise(u)
    /\ UNCHANGED jobs

-----------------------------------------------------------------------------
\* The process stops or crashes, also in the middle of a handler, and a new one
\* starts: what it had in memory, the offset included, is gone.
Restart ==
    /\ restarts < MaxRestarts
    /\ restarts' = restarts + 1
    /\ handling' = [u \in Updates |-> "no"]
    /\ batch' = {}
    /\ offset' = 0
    /\ UNCHANGED <<transport, sent, confirmed, handled, jobs>>

Handle(u) ==
    \/ Ignore(u)
    \/ Answer(u)
    \/ Enqueue(u)
    \/ EnqueueRaises(u)
    \/ Acknowledge(u)

Next ==
    \/ Send
    \/ \E u \in Updates : Post(u)
    \/ Poll
    \/ TakeFromBatch
    \/ \E u \in Updates : Handle(u)
    \/ Restart

\* Handlers end and Telegram keeps delivering; a poll, a publish or an answer
\* that is tried for ever gets through some time.
Fairness ==
    /\ \A u \in Updates : /\ WF_vars(Post(u))
                          /\ WF_vars(Handle(u))
                          /\ SF_vars(Enqueue(u))
                          /\ SF_vars(Handle(u) /\ u \in confirmed')
    /\ SF_vars(Poll /\ batch' # {})
    /\ WF_vars(TakeFromBatch)

Spec == Init /\ [][Next]_vars
FairSpec == Spec /\ Fairness

-----------------------------------------------------------------------------
(* Properties.                                                             *)

\* Telegram is never told to forget an update that was not handled: neither
\* transport loses one that a crash or a restart interrupted.
ConfirmedWasHandled == confirmed \subseteq handled

\* A webhook command is confirmed only with its job published: a failure to
\* enqueue is a 500, and Telegram asks again.
ConfirmedWasEnqueued ==
    transport = "webhook" => \A u \in Commands \cap confirmed : jobs[u] > 0

\* The poller handles updates one at a time and in the order they were sent,
\* across restarts too: none is begun before every earlier one has been handled.
PollerInOrder ==
    transport = "polling" =>
        \A u \in Updates : handling[u] # "no" =>
            \A t \in Updates : t < u => t \in handled /\ handling[t] = "no"

\* The bound on duplicate jobs: a command is published, for the first time or
\* again, only while it is not confirmed to Telegram, and by the poller at most
\* once in the life of a process, whatever acks to the chat raise, answers are
\* lost and polls repeat.
PublishedOnlyWhileOwed ==
    [][\A u \in Commands : jobs'[u] # jobs[u] =>
           /\ u \notin confirmed
           /\ transport = "polling" => jobs[u] <= restarts]_vars

\* Every update is handled in the end.
EveryUpdateHandled == \A u \in Updates : (u \in sent) ~> (u \in handled)

\* A command sent to the webhook becomes a job.
WebhookCommandBecomesJob ==
    \A u \in Commands :
        (transport = "webhook" /\ u \in sent) ~> (u \in confirmed /\ jobs[u] > 0)
=============================================================================
