------------------------ MODULE InMemoryQueue_proof ------------------------
(***************************************************************************)
(* Proofs about InMemoryQueue, for any number of jobs and workers and any  *)
(* capacity: a job is never lost or doubled before the stop, and the queue *)
(* implements the port.                                                    *)
(***************************************************************************)
EXTENDS InMemoryQueue, FunctionTheorems, FiniteSetTheorems, TLAPS

\* A task has a delivery exactly while it is in one of these steps.
Holding == {"processing", "nacking", "releasing"}

\* OneCopy and NoJobLost together say where each accepted job is.
IInv ==
    /\ TypeOK
    /\ OneCopy
    /\ NoJobLost
    /\ \A w \in Workers : delivery[w] # NoJob <=> step[w] \in Holding
    /\ ToSet(queue) \subseteq accepted
    /\ ToSet(queue) \cap succeeded = {}
    /\ \A w \in Workers : delivery[w] # NoJob => delivery[w] \in accepted
    /\ cancelled # {} => stopping

-----------------------------------------------------------------------------
(* What append and tail do to the elements of a queue.                     *)

LEMMA AppendElements ==
  ASSUME NEW S, NEW q \in Seq(S), NEW e \in S
  PROVE  /\ Append(q, e) \in Seq(S)
         /\ Len(Append(q, e)) = Len(q) + 1
         /\ ToSet(Append(q, e)) = ToSet(q) \cup {e}
         /\ (IsInjective(q) /\ e \notin ToSet(q)) => IsInjective(Append(q, e))
<1> DEFINE n == Len(q)
<1> DEFINE p == Append(q, e)
<1>1. /\ p \in Seq(S) /\ n \in Nat /\ Len(p) = n + 1
      /\ DOMAIN p = 1 .. (n + 1) /\ DOMAIN q = 1 .. n
      /\ p[n + 1] = e
  OBVIOUS
<1>2. \A i \in 1 .. n : p[i] = q[i]
  OBVIOUS
<1> HIDE DEF p, n
<1>3. ToSet(p) = ToSet(q) \cup {e}
  <2>1. ASSUME NEW x \in ToSet(p) PROVE x \in ToSet(q) \cup {e}
    <3>1. PICK i \in 1 .. (n + 1) : x = p[i]
      BY <1>1, <2>1 DEF ToSet
    <3>2. i \in 1 .. n \/ i = n + 1
      BY <1>1
    <3> QED
      BY <1>1, <1>2, <3>1, <3>2 DEF ToSet
  <2>2. ASSUME NEW x \in ToSet(q) PROVE x \in ToSet(p)
    <3>1. PICK i \in 1 .. n : x = q[i]
      BY <1>1, <2>2 DEF ToSet
    <3>2. i \in 1 .. (n + 1)
      BY <1>1
    <3> QED
      BY <1>1, <1>2, <3>1, <3>2 DEF ToSet
  <2>3. n + 1 \in 1 .. (n + 1)
    BY <1>1
  <2>4. e \in ToSet(p)
    BY <1>1, <2>3 DEF ToSet
  <2> QED
    BY <2>1, <2>2, <2>4
<1>4. ASSUME IsInjective(q), e \notin ToSet(q) PROVE IsInjective(p)
  <2>1. \A i \in 1 .. n : q[i] # e
    BY <1>1, <1>4 DEF ToSet
  <2>2. \A i \in 1 .. (n + 1) : i \in 1 .. n \/ i = n + 1
    BY <1>1
  <2> QED
    BY <1>1, <1>2, <1>4, <2>1, <2>2 DEF IsInjective
<1> QED
  BY <1>1, <1>3, <1>4 DEF p, n

LEMMA TailElements ==
  ASSUME NEW S, NEW q \in Seq(S), q # <<>>, IsInjective(q)
  PROVE  /\ Tail(q) \in Seq(S) /\ Head(q) \in S /\ Head(q) \in ToSet(q)
         /\ Len(Tail(q)) \in Nat /\ Len(q) = Len(Tail(q)) + 1
         /\ ToSet(Tail(q)) = ToSet(q) \ {Head(q)}
         /\ IsInjective(Tail(q))
<1> DEFINE n == Len(q)
<1> DEFINE p == Tail(q)
<1>1. /\ p \in Seq(S) /\ n \in Nat \ {0} /\ Len(p) = n - 1
      /\ DOMAIN p = 1 .. (n - 1) /\ DOMAIN q = 1 .. n
      /\ Head(q) = q[1] /\ q[1] \in S
  OBVIOUS
<1>2. \A i \in 1 .. (n - 1) : p[i] = q[i + 1]
  OBVIOUS
<1> HIDE DEF p, n
<1>3. \A i, j \in 1 .. n : q[i] = q[j] => i = j
  BY <1>1 DEF IsInjective
<1>4. ToSet(p) = ToSet(q) \ {q[1]}
  <2>1. ASSUME NEW x \in ToSet(p) PROVE x \in ToSet(q) \ {q[1]}
    <3>1. PICK i \in 1 .. (n - 1) : x = p[i]
      BY <1>1, <2>1 DEF ToSet
    <3>2. i + 1 \in 1 .. n /\ 1 \in 1 .. n /\ i + 1 # 1
      BY <1>1
    <3>3. x = q[i + 1] /\ q[i + 1] # q[1]
      BY <1>2, <1>3, <3>1, <3>2
    <3> QED
      BY <1>1, <3>2, <3>3 DEF ToSet
  <2>2. ASSUME NEW x \in ToSet(q) \ {q[1]} PROVE x \in ToSet(p)
    <3>1. PICK i \in 1 .. n : x = q[i]
      BY <1>1, <2>2 DEF ToSet
    <3>2. i # 1
      BY <2>2, <3>1
    <3>3. i - 1 \in 1 .. (n - 1) /\ (i - 1) + 1 = i
      BY <1>1, <3>2
    <3>4. x = p[i - 1]
      BY <1>2, <3>1, <3>3
    <3> QED
      BY <1>1, <3>3, <3>4 DEF ToSet
  <2> QED
    BY <2>1, <2>2
<1>5. IsInjective(p)
  <2>1. \A i \in 1 .. (n - 1) : i + 1 \in 1 .. n
    BY <1>1
  <2>2. ASSUME NEW i \in 1 .. (n - 1), NEW j \in 1 .. (n - 1), p[i] = p[j] PROVE i = j
    <3>1. q[i + 1] = q[j + 1]
      BY <1>2, <2>2
    <3>2. i + 1 = j + 1
      BY <1>3, <2>1, <3>1
    <3> QED
      BY <3>2, <1>1
  <2> QED
    BY <1>1, <2>2 DEF IsInjective
<1>6. q[1] \in ToSet(q)
  BY <1>1 DEF ToSet
<1> QED
  BY <1>1, <1>4, <1>5, <1>6 DEF p, n

-----------------------------------------------------------------------------
LEMMA InitIInv == Init => IInv
<1> SUFFICES ASSUME Init PROVE IInv
  OBVIOUS
<1> USE InMemoryAssumption DEF InMemoryAssumption, Init
<1>1. ToSet(queue) = {} /\ IsInjective(queue)
  BY DEF ToSet, IsInjective
<1>2. TypeOK
  <2>1. queue \in Seq(Jobs) /\ Len(queue) <= Capacity
    OBVIOUS
  <2> QED
    BY <2>1 DEF TypeOK
<1>3. OneCopy /\ NoJobLost
  BY <1>1 DEF OneCopy, NoJobLost, Held
<1> QED
  BY <1>1, <1>2, <1>3 DEF IInv, Holding

LEMMA EnqueueIInv == ASSUME IInv, NEW j \in Jobs, Enqueue(j) PROVE IInv'
<1> USE InMemoryAssumption DEF InMemoryAssumption, Enqueue, HasRoom
<1>1. /\ queue' \in Seq(Jobs) /\ Len(queue') = Len(queue) + 1
      /\ ToSet(queue') = ToSet(queue) \cup {j}
      /\ j \notin ToSet(queue) /\ IsInjective(queue')
  BY AppendElements DEF IInv, TypeOK, OneCopy
<1>2. TypeOK'
  BY <1>1 DEF IInv, TypeOK
<1>3. OneCopy'
  BY <1>1 DEF IInv, TypeOK, OneCopy
<1>4. NoJobLost'
  BY <1>1 DEF IInv, NoJobLost, Held
<1> QED
  BY <1>1, <1>2, <1>3, <1>4 DEF IInv, TypeOK

LEMMA DequeueIInv == ASSUME IInv, NEW w \in Workers, Dequeue(w) PROVE IInv'
<1> USE InMemoryAssumption DEF InMemoryAssumption, Dequeue
<1> DEFINE j == Head(queue)
<1>1. /\ queue' \in Seq(Jobs) /\ j \in Jobs /\ j \in ToSet(queue)
      /\ Len(queue') \in Nat /\ Len(queue) = Len(queue') + 1
      /\ ToSet(queue') = ToSet(queue) \ {j} /\ IsInjective(queue')
  BY TailElements DEF IInv, TypeOK, OneCopy
<1>2. delivery[w] = NoJob /\ j # NoJob
  BY <1>1 DEF IInv, Holding
<1>3. \A v \in Workers : delivery'[v] = IF v = w THEN j ELSE delivery[v]
  BY DEF IInv, TypeOK
<1>4. TypeOK'
  BY <1>1 DEF IInv, TypeOK
<1>5. OneCopy'
  BY <1>1, <1>2, <1>3 DEF IInv, OneCopy
<1>6. NoJobLost'
  <2>1. (Held \ {NoJob}) \cup {j} \subseteq Held'
    BY <1>2, <1>3 DEF Held
  <2>2. NoJob \notin accepted
    BY DEF IInv, TypeOK
  <2> QED
    BY <1>1, <2>1, <2>2 DEF IInv, NoJobLost
<1>7. \A v \in Workers : delivery'[v] # NoJob <=> step'[v] \in Holding
  BY <1>2, <1>3 DEF IInv, TypeOK, Holding
<1> QED
  BY <1>1, <1>3, <1>4, <1>5, <1>6, <1>7 DEF IInv

\* A task that keeps its delivery.
LEMMA KeepIInv ==
  ASSUME IInv, NEW w \in Workers, EndIdle(w) \/ Fail(w) \/ Timeout(w) PROVE IInv'
<1> USE InMemoryAssumption DEF InMemoryAssumption
<1>1. /\ UNCHANGED <<queue, delivery, cancelled, stopping, accepted, succeeded>>
      /\ \/ step[w] = "idle" /\ step' = [step EXCEPT ![w] = "ended"]
         \/ step[w] = "processing" /\ step' = [step EXCEPT ![w] = "nacking"]
         \/ step[w] = "processing" /\ step' = [step EXCEPT ![w] = "releasing"]
  BY DEF EndIdle, Fail, Timeout
<1>3. TypeOK'
  BY <1>1 DEF IInv, TypeOK
<1>4. OneCopy' /\ NoJobLost'
  BY <1>1 DEF IInv, OneCopy, NoJobLost, Held
<1>5. \A v \in Workers : delivery'[v] # NoJob <=> step'[v] \in Holding
  BY <1>1 DEF IInv, TypeOK, Holding
<1> QED
  BY <1>1, <1>3, <1>4, <1>5 DEF IInv

\* A task that gives its delivery up.
LEMMA ReleaseIInv ==
  ASSUME IInv, NEW w \in Workers, Succeed(w) \/ PutBack(w) PROVE IInv'
<1> USE InMemoryAssumption DEF InMemoryAssumption
<1> DEFINE j == delivery[w]
<1>1. /\ j \in Jobs /\ j # NoJob /\ j \in accepted
      /\ j \notin ToSet(queue) \cup succeeded
  BY DEF Succeed, PutBack, IInv, TypeOK, OneCopy, Holding
<1>2. /\ delivery' = [delivery EXCEPT ![w] = NoJob]
      /\ step' = [step EXCEPT ![w] = IF stopping THEN "ended" ELSE "idle"]
      /\ UNCHANGED <<cancelled, stopping, accepted>>
  BY DEF Succeed, PutBack, Release
<1>3. \A v \in Workers : delivery'[v] = IF v = w THEN NoJob ELSE delivery[v]
  BY <1>2 DEF IInv, TypeOK
<1>4. \/ queue' = queue /\ succeeded' = succeeded \cup {j}
      \/ /\ queue' \in Seq(Jobs) /\ Len(queue') <= Capacity
         /\ ToSet(queue') = ToSet(queue) \cup {j} /\ IsInjective(queue')
         /\ succeeded' = succeeded
  <2>1. CASE Succeed(w)
    BY <2>1 DEF Succeed
  <2>2. CASE PutBack(w)
    BY <1>1, <2>2, AppendElements DEF PutBack, HasRoom, IInv, TypeOK, OneCopy
  <2> QED
    BY <2>1, <2>2
<1>5. TypeOK'
  BY <1>1, <1>2, <1>4 DEF IInv, TypeOK
<1>6. \A v \in Workers : v # w => delivery[v] # j
  BY <1>1 DEF IInv, OneCopy
<1>7. OneCopy'
  BY <1>1, <1>3, <1>4, <1>6 DEF IInv, OneCopy, TypeOK
<1>8. NoJobLost'
  BY <1>1, <1>2, <1>3, <1>4, <1>6 DEF IInv, NoJobLost, Held
<1>9. \A v \in Workers : delivery'[v] # NoJob <=> step'[v] \in Holding
  BY <1>2, <1>3 DEF IInv, TypeOK, Holding
<1> QED
  BY <1>1, <1>2, <1>3, <1>4, <1>5, <1>7, <1>8, <1>9 DEF IInv

LEMMA StopIInv == ASSUME IInv, Stop PROVE IInv'
BY DEF Stop, IInv, TypeOK, OneCopy, NoJobLost, Held

LEMMA CancelIInv == ASSUME IInv, NEW w \in Workers, Cancel(w) PROVE IInv'
<1> USE InMemoryAssumption DEF InMemoryAssumption, Cancel
<1>1. \A v \in Workers : v # w => step'[v] = step[v] /\ delivery'[v] = delivery[v]
  BY DEF IInv, TypeOK
<1>2. \/ /\ step[w] \in {"processing", "nacking"}
         /\ step'[w] = "releasing" /\ delivery'[w] = delivery[w]
      \/ step'[w] = "ended" /\ delivery'[w] = NoJob
  BY DEF IInv, TypeOK
<1>3. TypeOK'
  BY <1>2 DEF IInv, TypeOK
<1>4. OneCopy'
  BY <1>1, <1>2 DEF IInv, OneCopy, TypeOK
<1>5. \A v \in Workers : delivery'[v] # NoJob <=> step'[v] \in Holding
  BY <1>1, <1>2 DEF IInv, Holding
<1> QED
  BY <1>1, <1>2, <1>3, <1>4, <1>5 DEF IInv, NoJobLost

LEMMA NextIInv == IInv /\ [Next]_vars => IInv'
<1> SUFFICES ASSUME IInv, [Next]_vars PROVE IInv'
  OBVIOUS
<1>1. CASE UNCHANGED vars
  BY <1>1 DEF vars, IInv, TypeOK, OneCopy, NoJobLost, Held
<1> QED
  BY <1>1, EnqueueIInv, DequeueIInv, KeepIInv, ReleaseIInv, StopIInv, CancelIInv DEF Next

\* IInv holds in every state of every behaviour.
THEOREM Invariance == Spec => []IInv
<1> QED
  BY InitIInv, NextIInv, PTL DEF Spec

-----------------------------------------------------------------------------
\* The types; the queue never holds more than maxsize.
THEOREM TypeCorrect == Spec => []TypeOK
<1>1. IInv => TypeOK
  BY DEF IInv
<1> QED
  BY <1>1, Invariance, PTL

\* No accepted job is lost while the process is not being stopped.
THEOREM NoneLost == Spec => []NoJobLost
<1>1. IInv => NoJobLost
  BY DEF IInv
<1> QED
  BY <1>1, Invariance, PTL

\* No job is queued twice, or queued and run, or run by two workers.
THEOREM NoneDoubled == Spec => []OneCopy
<1>1. IInv => OneCopy
  BY DEF IInv
<1> QED
  BY <1>1, Invariance, PTL

-----------------------------------------------------------------------------
(* When put() has room.                                                    *)

\* A queue without repetition is as long as it has elements.
LEMMA LengthOfInjective ==
    ASSUME NEW S, NEW q \in Seq(S), IsInjective(q)
    PROVE  IsFiniteSet(ToSet(q)) /\ Cardinality(ToSet(q)) = Len(q)
<1> DEFINE n == Len(q)
           f == [i \in 1 .. n |-> q[i]]
<1>1. n \in Nat /\ DOMAIN q = 1 .. n
  OBVIOUS
<1>2. ToSet(q) = {f[i] : i \in 1 .. n}
  BY <1>1 DEF ToSet
<1>3. \A i, j \in 1 .. n : f[i] = f[j] => i = j
  BY <1>1 DEF IsInjective
<1> HIDE DEF n
<1>4. f \in Bijection(1 .. n, ToSet(q))
  BY <1>2, <1>3, Fun_IsBij
<1>5. ExistsBijection(1 .. n, ToSet(q))
  BY <1>4 DEF ExistsBijection
<1> QED
  BY <1>1, <1>5, FS_CountingElements, FS_NatBijection DEF n

\* A worker that has to put a job back finds room while the jobs that are not
\* done fit into the queue, its own among them.
RoomToPutBack ==
    \A w \in Workers :
        (step[w] \in {"nacking", "releasing"} /\ Cardinality(accepted \ succeeded) <= Capacity)
            => HasRoom

\* Worker.stop() can wait for ever on a full queue only if more jobs are open than
\* the queue has places (1000 by default): put() of a nack waits for nothing else.
THEOREM PutBackWaitsForFullQueue ==
    ASSUME IsFiniteSet(Jobs)
    PROVE  Spec => []RoomToPutBack
<1>1. IInv => RoomToPutBack
  <2> SUFFICES ASSUME IInv, NEW w \in Workers, step[w] \in {"nacking", "releasing"},
                      Cardinality(accepted \ succeeded) <= Capacity
               PROVE  HasRoom
    BY DEF RoomToPutBack
  <2> DEFINE open == accepted \ succeeded
             queued == ToSet(queue)
             mine == delivery[w]
  <2>1. IsFiniteSet(open)
    BY FS_Subset DEF IInv, TypeOK
  <2>2. mine # NoJob /\ mine \in open /\ mine \notin queued /\ queued \subseteq open
    BY DEF IInv, OneCopy, Holding
  <2>3. IsFiniteSet(queued) /\ Cardinality(queued) = Len(queue)
    BY LengthOfInjective DEF IInv, TypeOK, OneCopy
  <2> HIDE DEF open, queued, mine
  <2>4. Cardinality(queued) < Cardinality(open)
    <3>1. queued \cup {mine} \subseteq open
      BY <2>2
    <3>2. Cardinality(queued \cup {mine}) = Cardinality(queued) + 1
      BY <2>2, <2>3, FS_AddElement
    <3>3. Cardinality(queued \cup {mine}) <= Cardinality(open)
      BY <2>1, <3>1, FS_Subset
    <3>4. Cardinality(queued) \in Nat /\ Cardinality(open) \in Nat
      BY <2>1, <2>3, FS_CardinalityType
    <3> QED
      BY <3>2, <3>3, <3>4
  <2>5. Cardinality(open) \in Nat /\ Len(queue) \in Nat /\ Capacity \in Nat
    BY <2>1, FS_CardinalityType, InMemoryAssumption DEF InMemoryAssumption, IInv, TypeOK
  <2>6. Cardinality(open) <= Capacity
    BY DEF open
  <2> QED
    BY <2>3, <2>4, <2>5, <2>6 DEF HasRoom
<1> QED
  BY <1>1, Invariance, PTL

-----------------------------------------------------------------------------
(* The queue implements the port.                                          *)

\* What has left the process is what it accepted and holds no more.
RestIsGone == gone = accepted \ (waiting \cup Port!InWork)

LEMMA IInvRestIsGone == IInv => RestIsGone
<1> SUFFICES ASSUME IInv PROVE RestIsGone
  OBVIOUS
<1> USE InMemoryAssumption DEF InMemoryAssumption
<1>1. Port!InWork = Held \ {NoJob}
  BY DEF Port!InWork, Held
<1>2. /\ accepted \subseteq Jobs /\ succeeded \subseteq accepted
      /\ succeeded \cap (waiting \cup Held) \subseteq {NoJob}
  BY DEF IInv, TypeOK, OneCopy, waiting, Held
<1>3. ~stopping => accepted \subseteq waiting \cup succeeded \cup Held
  BY DEF IInv, NoJobLost, waiting
<1> QED
  BY <1>1, <1>2, <1>3 DEF RestIsGone, gone

LEMMA InitPort == Init => Port!Init
<1> SUFFICES ASSUME Init PROVE Port!Init
  OBVIOUS
<1>1. waiting = {} /\ gone = {}
  BY DEF Init, waiting, gone, Held, ToSet
<1> QED
  BY <1>1 DEF Init, Port!Init

LEMMA EnqueuePort == ASSUME IInv, IInv', NEW j \in Jobs, Enqueue(j) PROVE Port!Arrive(j)
<1>1. waiting' = waiting \cup {j}
  BY AppendElements DEF Enqueue, IInv, TypeOK, waiting
<1>2. UNCHANGED <<delivery, stopping>> /\ accepted' = accepted \cup {j} /\ j \notin accepted
  BY DEF Enqueue
<1>3. Port!InWork' = Port!InWork
  BY <1>2 DEF Port!InWork
<1>4. waiting \cup Port!InWork \subseteq accepted
  BY DEF IInv, waiting, Port!InWork
<1>5. RestIsGone /\ RestIsGone'
  BY IInvRestIsGone, PTL
<1>6. gone' = gone /\ j \notin waiting \cup Port!InWork \cup gone
  BY <1>1, <1>2, <1>3, <1>4, <1>5 DEF RestIsGone
<1> QED
  BY <1>1, <1>2, <1>6 DEF Port!Arrive

LEMMA DequeuePort == ASSUME IInv, IInv', NEW w \in Workers, Dequeue(w) PROVE Port!Dequeue(w)
<1> USE InMemoryAssumption DEF InMemoryAssumption
<1> DEFINE j == Head(queue)
<1>1. j \in waiting /\ waiting' = waiting \ {j}
  BY TailElements DEF Dequeue, IInv, TypeOK, OneCopy, waiting
<1>2. delivery[w] = NoJob /\ delivery' = [delivery EXCEPT ![w] = j] /\ j # NoJob
  BY <1>1 DEF Dequeue, IInv, TypeOK, Holding, waiting
<1>3. Port!InWork' = Port!InWork \cup {j}
  <2>1. \A v \in Workers : delivery'[v] = IF v = w THEN j ELSE delivery[v]
    BY <1>2 DEF IInv, TypeOK
  <2> QED
    BY <1>2, <2>1 DEF Port!InWork
<1>4. RestIsGone /\ RestIsGone'
  BY IInvRestIsGone, PTL
<1>5. UNCHANGED <<accepted, stopping>>
  BY DEF Dequeue
<1>6. gone' = gone
  BY <1>1, <1>3, <1>4, <1>5 DEF RestIsGone
<1> QED
  BY <1>1, <1>2, <1>5, <1>6 DEF Port!Dequeue

LEMMA ReleasePort ==
  ASSUME IInv, IInv', NEW w \in Workers, Succeed(w) \/ PutBack(w) \/ Cancel(w)
  PROVE  [Port!Next]_(Port!vars)
<1> USE InMemoryAssumption DEF InMemoryAssumption
<1> DEFINE j == delivery[w]
<1>1. RestIsGone /\ RestIsGone'
  BY IInvRestIsGone, PTL
<1>2. accepted' = accepted /\ stopping' = stopping
  BY DEF Succeed, PutBack, Cancel
<1>3. CASE delivery' = delivery
  <2>1. waiting' = waiting
    BY <1>3 DEF Succeed, PutBack, Cancel, Release, IInv, TypeOK, Holding, waiting
  <2>2. Port!InWork' = Port!InWork
    BY <1>3 DEF Port!InWork
  <2> QED
    BY <1>1, <1>2, <1>3, <2>1, <2>2 DEF RestIsGone, Port!vars
<1>4. CASE delivery' # delivery
  <2>1. delivery' = [delivery EXCEPT ![w] = NoJob]
    BY <1>4 DEF Succeed, PutBack, Cancel, Release, IInv, TypeOK
  <2>2. j # NoJob /\ j \in accepted /\ j \notin waiting /\ j \in Port!InWork
    BY <1>4, <2>1 DEF IInv, TypeOK, OneCopy, waiting, Port!InWork
  <2>3. \A v \in Workers : v # w => delivery[v] # j
    BY <2>2 DEF IInv, OneCopy
  <2>4. \A v \in Workers : delivery'[v] = IF v = w THEN NoJob ELSE delivery[v]
    BY <2>1 DEF IInv, TypeOK
  <2>5. Port!InWork' = Port!InWork \ {j}
    BY <2>3, <2>4 DEF Port!InWork
  <2>6. CASE Succeed(w)
    <3>1. waiting' = waiting
      BY <2>6 DEF Succeed, waiting
    <3>2. gone' = gone \cup {j}
      BY <1>1, <1>2, <2>2, <2>5, <3>1 DEF RestIsGone
    <3>3. Port!Leave(w)
      BY <1>2, <2>1, <2>2, <3>1, <3>2 DEF Port!Leave
    <3> QED
      BY <3>3 DEF Port!Next
  <2>7. CASE PutBack(w)
    <3>1. waiting' = waiting \cup {j}
      BY <2>2, <2>7, AppendElements DEF PutBack, IInv, TypeOK, waiting
    <3>2. gone' = gone
      BY <1>1, <1>2, <2>2, <2>5, <3>1 DEF RestIsGone
    <3>3. Port!PutBack(w)
      BY <1>2, <2>1, <2>2, <3>1, <3>2 DEF Port!PutBack
    <3> QED
      BY <3>3 DEF Port!Next
  <2>8. CASE Cancel(w)
    <3>1. waiting' = waiting /\ stopping
      BY <2>8 DEF Cancel, waiting
    <3>2. waiting' = waiting \ {j}
      BY <2>2, <3>1
    <3>3. gone' = gone \cup {j}
      BY <1>1, <1>2, <2>2, <2>5, <3>1 DEF RestIsGone
    <3>4. delivery' = [v \in Workers |-> IF delivery[v] \in {j} THEN NoJob ELSE delivery[v]]
      BY <2>1, <2>3 DEF IInv, TypeOK
    <3>5. Port!Release
      BY <1>2, <2>2, <3>1, <3>2, <3>3, <3>4 DEF Port!Release
    <3> QED
      BY <3>5 DEF Port!Next
  <2> QED
    BY <2>6, <2>7, <2>8
<1> QED
  BY <1>3, <1>4

LEMMA StepPort == ASSUME IInv, IInv', [Next]_vars PROVE [Port!Next]_(Port!vars)
<1>1. ASSUME UNCHANGED <<queue, delivery, stopping, accepted, succeeded>>
      PROVE  UNCHANGED Port!vars
  BY <1>1 DEF Port!vars, waiting, gone, Held
<1>2. ASSUME Stop PROVE Port!Close
  <2>1. waiting' = waiting /\ accepted' = accepted /\ delivery' = delivery
    BY <1>2 DEF Stop, waiting
  <2>2. Port!InWork' = Port!InWork
    BY <2>1 DEF Port!InWork
  <2>3. RestIsGone /\ RestIsGone'
    BY IInvRestIsGone, PTL
  <2>4. gone' = gone
    BY <2>1, <2>2, <2>3 DEF RestIsGone
  <2> QED
    BY <1>2, <2>1, <2>4 DEF Stop, Port!Close
<1>3. ASSUME NEW w \in Workers, EndIdle(w) \/ Fail(w) \/ Timeout(w)
      PROVE  UNCHANGED Port!vars
  BY <1>1, <1>3 DEF EndIdle, Fail, Timeout
<1>4. ASSUME UNCHANGED vars PROVE UNCHANGED Port!vars
  BY <1>1, <1>4 DEF vars
<1> QED
  BY <1>2, <1>3, <1>4, EnqueuePort, DequeuePort, ReleasePort DEF Next, Port!Next

\* The in-memory queue implements the port, for any number of jobs and workers.
THEOREM PortImplemented == Spec => ImplementsPort
<1>1. Init => Port!Init
  BY InitPort
<1>2. IInv /\ IInv' /\ [Next]_vars => [Port!Next]_(Port!vars)
  BY StepPort
<1> QED
  BY <1>1, <1>2, Invariance, PTL DEF Spec, ImplementsPort, Port!Spec
=============================================================================
