---------------------------- MODULE Intake_proof ----------------------------
(***************************************************************************)
(* Proofs about Intake, for any updates and any number of restarts: what   *)
(* Telegram may forget was handled, a webhook command it may forget was    *)
(* published, the poller keeps to the order of the updates, and no command *)
(* is published again once it is confirmed.                                *)
(***************************************************************************)
EXTENDS Intake, WellFoundedInduction, TLAPS

\* Done with, or with a handler at this moment.
Begun(u) == u \in handled \/ handling[u] # "no"

\* update_id grows: what was sent came before what was not.
SentInOrder == \A u \in sent, t \in Updates : t < u => t \in sent

\* The offset and the batch pass over nothing that has not begun.
BatchIsRest ==
    /\ \A t \in sent : t < offset => Begun(t)
    /\ \A b \in batch, t \in sent : t < b => t \in batch \/ Begun(t)

IInv ==
    /\ TypeOK
    /\ SentInOrder
    /\ transport = "polling" => BatchIsRest
    /\ transport = "webhook" => batch = {}
    /\ \A u \in Updates : handling[u] # "no" => u \in sent
    /\ \A u \in Updates : handling[u] = "enqueued" => u \in Commands /\ jobs[u] > 0
    /\ ConfirmedWasHandled
    /\ ConfirmedWasEnqueued
    /\ PollerInOrder

\* A non-empty set of update ids has a least element, and Min is it.
LEMMA MinOfUpdates ==
  ASSUME NEW T \in SUBSET Updates, T # {}
  PROVE  Min(T) \in T /\ \A t \in T : Min(T) <= t
<1> DEFINE R == OpToRel(<, Nat)
<1>1. T \in SUBSET Nat
  BY IntakeAssumption DEF IntakeAssumption
<1>2. IsWellFoundedOn(R, Nat)
  BY NatLessThanWellFounded
<1>3. \A t, u \in Nat : t < u => <<t, u>> \in R
  BY DEF OpToRel
<1> HIDE DEF R
<1>4. PICK m \in T : \A t \in T : ~ (<<t, m>> \in R)
  BY <1>1, <1>2, WFMin
<1>5. \A t \in T : ~ (t < m)
  BY <1>1, <1>3, <1>4
<1>6. \A t \in T : m <= t
  BY <1>1, <1>5
<1> QED
  BY <1>6 DEF Min

LEMMA OneMoreCounts ==
  ASSUME NEW n \in 0 .. MaxJobs PROVE OneMore(n) \in 0 .. MaxJobs /\ OneMore(n) > 0 /\ OneMore(n) >= n
BY IntakeAssumption DEF IntakeAssumption, OneMore

-----------------------------------------------------------------------------
LEMMA InitIInv == Init => IInv
<1> SUFFICES ASSUME Init PROVE IInv
  OBVIOUS
<1> USE IntakeAssumption DEF IntakeAssumption, Init
<1>1. jobs \in [Updates -> 0 .. MaxJobs]
  OBVIOUS
<1>2. TypeOK
  BY <1>1 DEF TypeOK
<1>3. SentInOrder /\ BatchIsRest
  BY DEF SentInOrder, BatchIsRest
<1>4. ConfirmedWasHandled /\ ConfirmedWasEnqueued /\ PollerInOrder
  BY DEF ConfirmedWasHandled, ConfirmedWasEnqueued, PollerInOrder
<1> QED
  BY <1>2, <1>3, <1>4 DEF IInv

LEMMA SendIInv == ASSUME IInv, Send PROVE IInv'
<1> DEFINE m == Min(Updates \ sent)
<1>1. m \in Updates \ sent /\ \A t \in Updates \ sent : m <= t
  BY MinOfUpdates DEF Send, IInv, TypeOK
<1>2. sent' = sent \cup {m} /\ UNCHANGED <<transport, confirmed, handling, handled, jobs, batch, offset, restarts>>
  BY DEF Send
<1> HIDE DEF m
<1>3. Updates \subseteq Nat
  BY IntakeAssumption DEF IntakeAssumption
<1>4. TypeOK'
  BY <1>1, <1>2 DEF IInv, TypeOK
<1>5. SentInOrder'
  BY <1>1, <1>2, <1>3 DEF IInv, TypeOK, SentInOrder
<1>6. \A u \in sent : u < m
  <2>1. SUFFICES ASSUME NEW u \in sent, m < u PROVE FALSE
    BY <1>1, <1>3 DEF IInv, TypeOK
  <2> QED
    BY <1>1, <2>1 DEF IInv, SentInOrder
<1>7. (transport = "polling" => BatchIsRest)'
  <2>1. ~(m < offset)
    <3>1. CASE offset = 0
      BY <1>1, <1>3, <3>1
    <3>2. CASE offset # 0
      <4>1. PICK u \in sent : offset = u + 1
        BY <3>2 DEF IInv, TypeOK
      <4>2. u \in Nat /\ m \in Nat /\ u < m
        BY <1>1, <1>3, <1>6 DEF IInv, TypeOK
      <4> QED
        BY <4>1, <4>2
    <3> QED
      BY <3>1, <3>2
  <2>2. \A b \in batch : ~(m < b)
    BY <1>1, <1>3, <1>6 DEF IInv, TypeOK
  <2> QED
    BY <1>2, <2>1, <2>2 DEF IInv, BatchIsRest, Begun
<1>8. (ConfirmedWasHandled /\ ConfirmedWasEnqueued /\ PollerInOrder)'
  BY <1>2 DEF IInv, ConfirmedWasHandled, ConfirmedWasEnqueued, PollerInOrder
<1> QED
  BY <1>2, <1>4, <1>5, <1>7, <1>8 DEF IInv

LEMMA PostIInv == ASSUME IInv, NEW u \in Updates, Post(u) PROVE IInv'
<1>1. \A t \in Updates : handling'[t] = IF t = u THEN "begun" ELSE handling[t]
  BY DEF Post, IInv, TypeOK
<1>2. TypeOK'
  BY DEF Post, IInv, TypeOK
<1>3. (SentInOrder /\ ConfirmedWasHandled /\ ConfirmedWasEnqueued)'
  BY DEF Post, IInv, SentInOrder, ConfirmedWasHandled, ConfirmedWasEnqueued
<1> QED
  BY <1>1, <1>2, <1>3 DEF Post, IInv, PollerInOrder

LEMMA PollIInv == ASSUME IInv, Poll PROVE IInv'
<1>1. TypeOK'
  BY DEF Poll, IInv, TypeOK
<1>2. \A t \in Updates : handling[t] = "no"
  BY DEF Poll, Busy
<1>3. ConfirmedWasHandled'
  <2>1. \A t \in sent : t < offset => t \in handled
    BY <1>2 DEF Poll, IInv, TypeOK, BatchIsRest, Begun
  <2> QED
    BY <2>1 DEF Poll, IInv, ConfirmedWasHandled
<1>4. BatchIsRest'
  <2>1. \A t \in sent : t < offset => Begun(t)'
    BY DEF Poll, IInv, BatchIsRest, Begun
  <2>2. \A t \in sent : t \in confirmed' => Begun(t)'
    BY <1>3 DEF Poll, ConfirmedWasHandled, Begun
  <2> QED
    BY <2>1, <2>2 DEF Poll, BatchIsRest
<1>5. (SentInOrder /\ ConfirmedWasEnqueued /\ PollerInOrder)'
  BY DEF Poll, IInv, SentInOrder, ConfirmedWasEnqueued, PollerInOrder
<1> QED
  BY <1>1, <1>3, <1>4, <1>5 DEF Poll, IInv

LEMMA TakeFromBatchIInv == ASSUME IInv, TakeFromBatch PROVE IInv'
<1> DEFINE m == FirstInBatch
<1>1. m \in batch /\ \A t \in batch : m <= t
  BY MinOfUpdates DEF TakeFromBatch, FirstInBatch, IInv, TypeOK
<1>2. /\ offset' = m + 1 /\ batch' = batch \ {m}
      /\ handling' = [handling EXCEPT ![m] = "begun"]
      /\ UNCHANGED <<transport, sent, confirmed, handled, jobs, restarts>>
      /\ \A t \in Updates : handling[t] = "no"
  BY DEF TakeFromBatch, Busy
<1> HIDE DEF m
<1>3. Updates \subseteq Nat
  BY IntakeAssumption DEF IntakeAssumption
<1>4. m \in Updates /\ m \in sent /\ m \in Nat /\ transport = "polling"
  BY <1>1, <1>3 DEF IInv, TypeOK
<1>5. \A t \in Updates : handling'[t] = IF t = m THEN "begun" ELSE "no"
  BY <1>2, <1>4 DEF IInv, TypeOK
<1>6. TypeOK'
  BY <1>2, <1>4 DEF IInv, TypeOK
<1>7. \A t \in sent : t < m => t \in handled
  <2>1. SUFFICES ASSUME NEW t \in sent, t < m PROVE t \in handled
    OBVIOUS
  <2>2. t \in Nat /\ t \in Updates
    BY <1>3 DEF IInv, TypeOK
  <2>3. t \notin batch
    BY <1>1, <1>4, <2>1, <2>2
  <2>4. Begun(t)
    BY <1>1, <1>4, <2>1, <2>3 DEF IInv, BatchIsRest
  <2> QED
    BY <1>2, <2>2, <2>4 DEF Begun
<1>8. BatchIsRest'
  <2>1. \A t \in sent : Begun(t) => Begun(t)'
    BY <1>2, <1>5 DEF Begun, IInv, TypeOK
  <2>2. \A t \in sent : t = m => Begun(t)'
    BY <1>4, <1>5 DEF Begun, IInv, TypeOK
  <2>3. \A t \in sent : t < m + 1 => Begun(t)'
    <3>1. \A t \in sent : t < m + 1 => t < m \/ t = m
      BY <1>3, <1>4 DEF IInv, TypeOK
    <3> QED
      BY <1>2, <1>7, <2>2, <3>1 DEF Begun
  <2>4. \A b \in batch, t \in sent : t < b => t \in batch \/ Begun(t)
    BY <1>4 DEF IInv, BatchIsRest
  <2> QED
    BY <1>2, <1>4, <2>1, <2>2, <2>3, <2>4 DEF BatchIsRest
<1>9. PollerInOrder'
  <2>1. \A t \in Updates : t < m => t \in handled /\ t # m
    BY <1>3, <1>4, <1>7 DEF IInv, SentInOrder
  <2> QED
    BY <1>2, <1>5, <2>1 DEF PollerInOrder
<1>10. (SentInOrder /\ ConfirmedWasHandled /\ ConfirmedWasEnqueued)'
  BY <1>2 DEF IInv, SentInOrder, ConfirmedWasHandled, ConfirmedWasEnqueued
<1> QED
  BY <1>2, <1>4, <1>5, <1>6, <1>8, <1>9, <1>10 DEF IInv

\* handle_update(u) ends, with a job for u or none.
LEMMA EndIInv ==
  ASSUME IInv, NEW u \in Updates, handling[u] # "no", Return(u) \/ Raise(u),
         jobs' \in [Updates -> 0 .. MaxJobs], \A t \in Updates : jobs'[t] >= jobs[t],
         (u \in Commands /\ confirmed' # confirmed) => jobs'[u] > 0
  PROVE  IInv'
<1>1. /\ handling' = [handling EXCEPT ![u] = "no"] /\ handled' = handled \cup {u}
      /\ UNCHANGED <<transport, sent, batch, offset, restarts>>
  BY DEF Return, Raise
<1>2. \/ confirmed' = confirmed
      \/ transport = "webhook" /\ confirmed' = confirmed \cup {u} /\ (u \in Commands => jobs'[u] > 0)
  <2>1. \/ confirmed' = confirmed
        \/ transport = "webhook" /\ confirmed' = confirmed \cup {u}
    BY DEF Return, Raise
  <2> QED
    BY <2>1
<1>3. u \in sent
  BY DEF IInv
<1>4. \A t \in Updates : handling'[t] = IF t = u THEN "no" ELSE handling[t]
  BY <1>1 DEF IInv, TypeOK
<1>5. TypeOK'
  BY <1>1, <1>2, <1>3 DEF IInv, TypeOK
<1>6. \A t \in Updates : Begun(t) => Begun(t)'
  BY <1>1, <1>4 DEF Begun
<1>7. (transport = "polling" => BatchIsRest)'
  <2>1. sent \subseteq Updates
    BY DEF IInv, TypeOK
  <2> QED
    BY <1>1, <1>6, <2>1 DEF IInv, BatchIsRest
<1>8. ConfirmedWasHandled'
  BY <1>1, <1>2 DEF IInv, ConfirmedWasHandled
<1>9. \A t \in Updates : jobs[t] > 0 => jobs'[t] > 0
  <2>1. \A t \in Updates : jobs[t] \in Nat /\ jobs'[t] \in Nat
    BY DEF IInv, TypeOK
  <2> QED
    BY <2>1
<1>10. ConfirmedWasEnqueued'
  <2>1. Commands \subseteq Updates
    BY DEF Updates
  <2> QED
    BY <1>1, <1>2, <1>9, <2>1 DEF IInv, ConfirmedWasEnqueued
<1>11. PollerInOrder'
  BY <1>1, <1>4 DEF IInv, PollerInOrder
<1>12. SentInOrder'
  BY <1>1 DEF IInv, SentInOrder
<1> QED
  BY <1>1, <1>4, <1>5, <1>7, <1>8, <1>9, <1>10, <1>11, <1>12 DEF IInv

LEMMA HandleIInv == ASSUME IInv, NEW u \in Updates, Handle(u) PROVE IInv'
<1> DEFINE more == [jobs EXCEPT ![u] = OneMore(@)]
<1>1. jobs \in [Updates -> 0 .. MaxJobs] /\ \A t \in Updates : jobs[t] >= jobs[t]
  BY DEF IInv, TypeOK
<1>2. /\ more \in [Updates -> 0 .. MaxJobs] /\ more[u] > 0
      /\ \A t \in Updates : more[t] >= jobs[t]
  BY <1>1, OneMoreCounts
<1> HIDE DEF more
<1>3. CASE Ignore(u) \/ Answer(u)
  <2>1. u \notin Commands /\ jobs' = jobs /\ handling[u] # "no" /\ (Return(u) \/ Raise(u))
    BY <1>3, IntakeAssumption DEF IntakeAssumption, Ignore, Answer
  <2> QED
    BY <1>1, <2>1, EndIInv
<1>4. CASE EnqueueRaises(u)
  <2>1. handling[u] # "no" /\ Raise(u) /\ (jobs' = jobs \/ jobs' = more)
    BY <1>4 DEF EnqueueRaises, more
  <2>2. jobs' \in [Updates -> 0 .. MaxJobs] /\ \A t \in Updates : jobs'[t] >= jobs[t]
    BY <1>1, <1>2, <2>1
  <2>3. confirmed' = confirmed
    BY <2>1 DEF Raise
  <2> QED
    BY <2>1, <2>2, <2>3, EndIInv
<1>5. CASE Acknowledge(u)
  <2>1. handling[u] = "enqueued" /\ jobs' = jobs /\ (Return(u) \/ Raise(u))
    BY <1>5 DEF Acknowledge
  <2>2. jobs[u] > 0
    BY <2>1 DEF IInv
  <2> QED
    BY <1>1, <2>1, <2>2, EndIInv
<1>6. CASE Enqueue(u)
  <2>1. /\ u \in Commands /\ handling[u] = "begun"
        /\ jobs' = more /\ handling' = [handling EXCEPT ![u] = "enqueued"]
        /\ UNCHANGED <<transport, sent, confirmed, handled, batch, offset, restarts>>
    BY <1>6 DEF Enqueue, more
  <2>2. \A t \in Updates : handling'[t] = IF t = u THEN "enqueued" ELSE handling[t]
    BY <2>1 DEF IInv, TypeOK
  <2>3. TypeOK'
    BY <1>2, <2>1 DEF IInv, TypeOK
  <2>4. \A t \in Updates : jobs[t] > 0 => jobs'[t] > 0
    <3>1. \A t \in Updates : jobs[t] \in Nat /\ more[t] \in Nat
      BY <1>1, <1>2
    <3> QED
      BY <1>2, <2>1, <3>1
  <2>5. \A t \in Updates : Begun(t) => Begun(t)'
    BY <2>1, <2>2 DEF Begun
  <2>6. (transport = "polling" => BatchIsRest)'
    <3>1. sent \subseteq Updates
      BY DEF IInv, TypeOK
    <3> QED
      BY <2>1, <2>5, <3>1 DEF IInv, BatchIsRest
  <2>7. ConfirmedWasEnqueued'
    <3>1. Commands \subseteq Updates
      BY DEF Updates
    <3> QED
      BY <2>1, <2>4, <3>1 DEF IInv, ConfirmedWasEnqueued
  <2>8. (SentInOrder /\ ConfirmedWasHandled /\ PollerInOrder)'
    BY <2>1, <2>2 DEF IInv, SentInOrder, ConfirmedWasHandled, PollerInOrder
  <2>9. jobs'[u] > 0 /\ u \in sent
    BY <1>2, <2>1 DEF IInv
  <2> QED
    BY <2>1, <2>2, <2>3, <2>4, <2>6, <2>7, <2>8, <2>9 DEF IInv
<1> QED
  BY <1>3, <1>4, <1>5, <1>6 DEF Handle

LEMMA RestartIInv == ASSUME IInv, Restart PROVE IInv'
<1>1. \A t \in Updates : handling'[t] = "no"
  BY DEF Restart
<1>2. offset' = 0 /\ batch' = {} /\ UNCHANGED <<transport, sent, confirmed, handled, jobs>>
  BY DEF Restart
<1>3. TypeOK'
  BY IntakeAssumption DEF IntakeAssumption, Restart, IInv, TypeOK
<1>4. BatchIsRest'
  <2>1. \A t \in sent : ~(t < 0)
    BY IntakeAssumption DEF IntakeAssumption, IInv, TypeOK
  <2> QED
    BY <1>2, <2>1 DEF BatchIsRest
<1>5. (SentInOrder /\ ConfirmedWasHandled /\ ConfirmedWasEnqueued /\ PollerInOrder)'
  BY <1>1, <1>2 DEF IInv, SentInOrder, ConfirmedWasHandled, ConfirmedWasEnqueued, PollerInOrder
<1> QED
  BY <1>1, <1>2, <1>3, <1>4, <1>5 DEF IInv

LEMMA NextIInv == IInv /\ [Next]_vars => IInv'
<1> SUFFICES ASSUME IInv, [Next]_vars PROVE IInv'
  OBVIOUS
<1>1. CASE UNCHANGED vars
  BY <1>1 DEF vars, IInv, TypeOK, SentInOrder, BatchIsRest, Begun, ConfirmedWasHandled,
              ConfirmedWasEnqueued, PollerInOrder
<1> QED
  BY <1>1, SendIInv, PostIInv, PollIInv, TakeFromBatchIInv, HandleIInv, RestartIInv DEF Next

\* IInv holds in every state of every behaviour.
THEOREM Invariance == Spec => []IInv
<1> QED
  BY InitIInv, NextIInv, PTL DEF Spec

-----------------------------------------------------------------------------
\* The types; the offset is one past an update that was sent, or unset.
THEOREM TypeCorrect == Spec => []TypeOK
<1>1. IInv => TypeOK
  BY DEF IInv
<1> QED
  BY <1>1, Invariance, PTL

\* Telegram never forgets an update that was not handled.
THEOREM NothingUnhandledIsConfirmed == Spec => []ConfirmedWasHandled
<1>1. IInv => ConfirmedWasHandled
  BY DEF IInv
<1> QED
  BY <1>1, Invariance, PTL

\* A webhook command is confirmed only with its job published.
THEOREM ConfirmedCommandHasJob == Spec => []ConfirmedWasEnqueued
<1>1. IInv => ConfirmedWasEnqueued
  BY DEF IInv
<1> QED
  BY <1>1, Invariance, PTL

\* The poller handles updates one at a time and in order, across restarts.
THEOREM PollingKeepsOrder == Spec => []PollerInOrder
<1>1. IInv => PollerInOrder
  BY DEF IInv
<1> QED
  BY <1>1, Invariance, PTL

-----------------------------------------------------------------------------
(* How often a polled command is published.                                *)

\* The poller publishes a command once for each time the process was started.
OncePerStart ==
    transport = "polling" => \A u \in Updates : jobs[u] <= restarts + 1

\* The offset is past what this process has begun, and what it has not begun was
\* published at most by its predecessors.
BegunIsBehindOffset ==
    transport = "polling" =>
        /\ \A u \in Updates : handling[u] # "no" => u < offset
        /\ \A b \in batch : ~(b < offset)
        /\ \A u \in Updates : handling[u] = "begun" \/ ~(u < offset) => jobs[u] <= restarts

LEMMA OneMoreAdds == ASSUME NEW n \in 0 .. MaxJobs PROVE OneMore(n) \in Nat /\ OneMore(n) <= n + 1
BY IntakeAssumption DEF IntakeAssumption, OneMore

\* handle_update(u) ends, for jobs' as far as they may have come.
LEMMA EndOncePerStart ==
    ASSUME IInv, BegunIsBehindOffset, OncePerStart, NEW u \in Updates, handling[u] # "no",
           Return(u) \/ Raise(u),
           \A t \in Updates : t # u => jobs'[t] = jobs[t],
           transport = "polling" => jobs'[u] <= restarts + 1
    PROVE  BegunIsBehindOffset' /\ OncePerStart'
<1>1. /\ UNCHANGED <<transport, sent, batch, offset, restarts>>
      /\ \A t \in Updates : handling'[t] = IF t = u THEN "no" ELSE handling[t]
  BY DEF Return, Raise, IInv, TypeOK
<1> QED
  BY <1>1 DEF BegunIsBehindOffset, OncePerStart

LEMMA StepOncePerStart ==
    ASSUME IInv, BegunIsBehindOffset, OncePerStart, [Next]_vars
    PROVE  BegunIsBehindOffset' /\ OncePerStart'
<1> USE DEF BegunIsBehindOffset, OncePerStart
<1>0. /\ TypeOK /\ Updates \subseteq Nat /\ restarts \in Nat
      /\ \A u \in Updates : jobs[u] \in 0 .. MaxJobs /\ jobs[u] \in Nat
  BY IntakeAssumption DEF IntakeAssumption, IInv, TypeOK
<1>1. CASE Send
  BY <1>1 DEF Send
<1>2. ASSUME NEW u \in Updates, Post(u) PROVE BegunIsBehindOffset' /\ OncePerStart'
  BY <1>2 DEF Post
<1>3. CASE Poll
  <2>1. transport = "polling" => \A b \in batch' : ~(b < offset)
    BY <1>3 DEF Poll
  <2> QED
    BY <1>3, <2>1 DEF Poll
<1>4. CASE TakeFromBatch
  <2> DEFINE m == FirstInBatch
  <2>1. m \in batch /\ \A b \in batch : m <= b
    BY <1>4, MinOfUpdates DEF TakeFromBatch, FirstInBatch, IInv, TypeOK
  <2>2. /\ offset' = m + 1 /\ batch' = batch \ {m}
        /\ handling' = [handling EXCEPT ![m] = "begun"]
        /\ UNCHANGED <<transport, jobs, restarts>>
        /\ \A t \in Updates : handling[t] = "no"
    BY <1>4 DEF TakeFromBatch, Busy
  <2> HIDE DEF m
  <2>3. batch \subseteq Updates /\ m \in Updates /\ m \in Nat
    BY <1>0, <2>1 DEF TypeOK
  <2>4. \A t \in Updates : handling'[t] = IF t = m THEN "begun" ELSE "no"
    BY <1>0, <2>2, <2>3 DEF TypeOK
  <2>5. m < m + 1 /\ \A b \in batch' : ~(b < m + 1)
    BY <1>0, <2>1, <2>2, <2>3
  <2>6. offset \in Nat
    BY <1>0 DEF TypeOK
  <2>7. transport = "polling" => \A u \in Updates : u = m \/ ~(u < m + 1) => jobs[u] <= restarts
    BY <1>0, <2>1, <2>3, <2>6
  <2> QED
    BY <2>2, <2>4, <2>5, <2>7
<1>5. ASSUME NEW u \in Updates, Handle(u) PROVE BegunIsBehindOffset' /\ OncePerStart'
  <2> DEFINE more == [jobs EXCEPT ![u] = OneMore(@)]
  <2>1. /\ \A t \in Updates : t # u => more[t] = jobs[t]
        /\ handling[u] = "begun" /\ transport = "polling" => more[u] <= restarts + 1
    <3>1. \A t \in Updates : more[t] = IF t = u THEN OneMore(jobs[u]) ELSE jobs[t]
      BY <1>0 DEF TypeOK
    <3>2. OneMore(jobs[u]) \in Nat /\ OneMore(jobs[u]) <= jobs[u] + 1
      BY <1>0, OneMoreAdds
    <3>3. handling[u] = "begun" /\ transport = "polling" => jobs[u] <= restarts
      OBVIOUS
    <3> QED
      BY <1>0, <3>1, <3>2, <3>3
  <2> HIDE DEF more
  <2>2. CASE Ignore(u) \/ Answer(u) \/ Acknowledge(u)
    <3>1. handling[u] # "no" /\ jobs' = jobs /\ (Return(u) \/ Raise(u))
      BY <2>2 DEF Ignore, Answer, Acknowledge
    <3> QED
      BY <3>1, EndOncePerStart
  <2>3. CASE EnqueueRaises(u)
    <3>1. handling[u] = "begun" /\ Raise(u) /\ (jobs' = jobs \/ jobs' = more)
      BY <2>3 DEF EnqueueRaises, more
    <3> QED
      BY <2>1, <3>1, EndOncePerStart
  <2>4. CASE Enqueue(u)
    <3>1. /\ handling[u] = "begun" /\ jobs' = more
          /\ handling' = [handling EXCEPT ![u] = "enqueued"]
          /\ UNCHANGED <<transport, batch, offset, restarts>>
      BY <2>4 DEF Enqueue, more
    <3>2. \A t \in Updates : handling'[t] = IF t = u THEN "enqueued" ELSE handling[t]
      BY <1>0, <3>1 DEF TypeOK
    <3>3. transport = "polling" => u < offset
      BY <3>1
    <3> QED
      BY <2>1, <3>1, <3>2, <3>3
  <2> QED
    BY <1>5, <2>2, <2>3, <2>4 DEF Handle
<1>6. CASE Restart
  <2>1. /\ \A t \in Updates : handling'[t] = "no"
        /\ batch' = {} /\ restarts' = restarts + 1 /\ UNCHANGED <<transport, jobs>>
    BY <1>6 DEF Restart
  <2>2. transport = "polling" =>
            \A u \in Updates : jobs[u] <= restarts + 1 /\ jobs[u] <= restarts + 1 + 1
    BY <1>0
  <2> QED
    BY <2>1, <2>2
<1>7. CASE UNCHANGED vars
  BY <1>7 DEF vars
<1> QED
  BY <1>1, <1>2, <1>3, <1>4, <1>5, <1>6, <1>7 DEF Next

\* One command, one job, as far as the poller keeps it: the same command is
\* published again only by a process that was started since, never twice by one,
\* whatever polls are lost and handlers raise.
THEOREM PolledOncePerStart == Spec => []OncePerStart
<1>1. Init => BegunIsBehindOffset /\ OncePerStart
  BY IntakeAssumption DEF IntakeAssumption, Init, BegunIsBehindOffset, OncePerStart
<1>2. IInv /\ BegunIsBehindOffset /\ OncePerStart /\ [Next]_vars
        => (BegunIsBehindOffset /\ OncePerStart)'
  BY StepOncePerStart
<1> QED
  BY <1>1, <1>2, Invariance, PTL DEF Spec

-----------------------------------------------------------------------------
(* A confirmed update is published no more.                                *)

\* What is handled, or waits for it in the batch, is not confirmed yet.
OwedInv ==
    /\ \A u \in Updates : handling[u] # "no" => u \notin confirmed
    /\ batch \cap confirmed = {}

LEMMA StepOwed == IInv /\ OwedInv /\ [Next]_vars => OwedInv'
<1> SUFFICES ASSUME IInv, OwedInv, [Next]_vars PROVE OwedInv'
  OBVIOUS
<1> USE DEF OwedInv
<1>0. TypeOK /\ (transport = "webhook" => batch = {})
  BY DEF IInv
<1>1. CASE Send \/ UNCHANGED vars
  BY <1>1 DEF Send, vars
<1>2. ASSUME NEW u \in Updates, Post(u) PROVE OwedInv'
  BY <1>0, <1>2 DEF Post, TypeOK
<1>3. CASE Poll
  <2>1. \A u \in Updates : handling'[u] = "no"
    BY <1>3 DEF Poll, Busy
  <2>2. batch' \cap confirmed' = {}
    BY <1>3 DEF Poll
  <2> QED
    BY <2>1, <2>2
<1>4. CASE TakeFromBatch
  <2>1. FirstInBatch \in batch
    BY <1>0, <1>4, MinOfUpdates DEF TakeFromBatch, FirstInBatch, TypeOK
  <2> QED
    BY <1>0, <1>4, <2>1 DEF TakeFromBatch, TypeOK
<1>5. ASSUME NEW u \in Updates, Return(u) \/ Raise(u) PROVE OwedInv'
  <2>1. /\ \A t \in Updates : handling'[t] = IF t = u THEN "no" ELSE handling[t]
        /\ batch' = batch
    BY <1>0, <1>5 DEF Return, Raise, TypeOK
  <2>2. \/ confirmed' = confirmed
        \/ transport = "webhook" /\ confirmed' = confirmed \cup {u}
    BY <1>5 DEF Return, Raise
  <2> QED
    BY <1>0, <2>1, <2>2
<1>6. ASSUME NEW u \in Updates, Enqueue(u) PROVE OwedInv'
  <2>1. /\ handling[u] = "begun" /\ UNCHANGED <<batch, confirmed>>
        /\ \A t \in Updates : handling'[t] = IF t = u THEN "enqueued" ELSE handling[t]
    BY <1>0, <1>6 DEF Enqueue, TypeOK
  <2> QED
    BY <2>1
<1>7. ASSUME NEW u \in Updates, Handle(u) PROVE OwedInv'
  BY <1>5, <1>6, <1>7 DEF Handle, Ignore, Answer, EnqueueRaises, Acknowledge
<1>8. CASE Restart
  BY <1>8 DEF Restart
<1> QED
  BY <1>1, <1>2, <1>3, <1>4, <1>7, <1>8 DEF Next

\* Jobs are published by a handler that has begun, for its own update.
LEMMA OnlyHandlersPublish ==
    ASSUME IInv, [Next]_vars, NEW u \in Commands, jobs'[u] # jobs[u]
    PROVE  u \in Updates /\ handling[u] = "begun"
<1>1. u \in Updates
  BY DEF Updates
<1>2. PICK t \in Updates : Handle(t)
  BY DEF Next, Send, Post, Poll, TakeFromBatch, Restart, vars
<1>3. handling[t] = "begun" /\ jobs' = [jobs EXCEPT ![t] = OneMore(@)]
  BY <1>2 DEF Handle, Ignore, Answer, Enqueue, EnqueueRaises, Acknowledge
<1> QED
  BY <1>1, <1>3 DEF IInv, TypeOK

\* A command is published only while Telegram still owes its confirmation, and by
\* the poller once for each time the process was started.
THEOREM RepeatsAreBounded == Spec => PublishedOnlyWhileOwed
<1> DEFINE Inv == IInv /\ OwedInv /\ BegunIsBehindOffset /\ OncePerStart
           Owed == \A u \in Commands : jobs'[u] # jobs[u] =>
                       /\ u \notin confirmed
                       /\ transport = "polling" => jobs[u] <= restarts
<1>1. Init => Inv
  <2>1. Init => OwedInv
    BY DEF Init, OwedInv
  <2> QED
    BY <2>1, InitIInv, IntakeAssumption
       DEF IntakeAssumption, Init, BegunIsBehindOffset, OncePerStart
<1>2. Inv /\ [Next]_vars => Inv'
  BY NextIInv, StepOwed, StepOncePerStart
<1>3. Inv /\ [Next]_vars => [Owed]_vars
  <2> SUFFICES ASSUME Inv, [Next]_vars PROVE Owed
    OBVIOUS
  <2> SUFFICES ASSUME NEW u \in Commands, jobs'[u] # jobs[u]
               PROVE  u \notin confirmed /\ (transport = "polling" => jobs[u] <= restarts)
    OBVIOUS
  <2>1. u \in Updates /\ handling[u] = "begun"
    BY OnlyHandlersPublish
  <2> QED
    BY <2>1 DEF OwedInv, BegunIsBehindOffset
<1> QED
  BY <1>1, <1>2, <1>3, PTL DEF Spec, PublishedOnlyWhileOwed
=============================================================================
