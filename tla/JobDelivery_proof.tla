------------------------- MODULE JobDelivery_proof -------------------------
(***************************************************************************)
(* Proofs about JobDelivery for any number of jobs, workers and attempts:  *)
(* what an ack, a reply and an apology imply, and that every step is a     *)
(* step of JobContract.                                                    *)
(***************************************************************************)
EXTENDS JobDelivery, FiniteSetTheorems, TLAPS

Both == {"text", "image"}

\* How far the chat and the store are when a slot reaches a step.
Progress ==
    \A w \in Slots : Working(w) =>
        LET j == slot[w].job
            s == slot[w].step
        IN  /\ s = "saveImage" => "text" \in stored[j]
            /\ s \in {"send", "photo", "ack"} => stored[j] = Both
            /\ s \in {"photo", "ack"} => stories[j] > 0
            /\ s = "ack" => pictures[j] > 0

\* Deliveries in progress belong to published jobs and are numbered apart.
Deliveries ==
    /\ \A j \in Jobs : sub[j] = "ready" => attempts[j] < MaxAttempts
    /\ \A j \in Jobs : sub[j] = "absent" =>
           attempts[j] = 0 /\ stories[j] = 0 /\ apologies[j] = 0
    /\ \A w \in Slots : Working(w) =>
           sub[slot[w].job] # "absent" /\ slot[w].attempt <= attempts[slot[w].job]
    /\ \A v, w \in Slots :
           (v # w /\ Working(v) /\ Working(w) /\ slot[v].job = slot[w].job)
               => slot[v].attempt # slot[w].attempt

\* Only the last delivery apologises, and only when none has yet.
Apologies ==
    /\ \A w \in Slots : slot[w].step = "apology" => slot[w].attempt = MaxAttempts
    /\ \A w \in Slots :
           (slot[w].step \in PipelineSteps /\ slot[w].attempt = MaxAttempts)
               => apologies[slot[w].job] = 0

IInv ==
    /\ TypeOK
    /\ Progress
    /\ ShownIsStored
    /\ AckImpliesReplied
    /\ Deliveries
    /\ Apologies
    /\ ApologyOnlyWhenExhausted

-----------------------------------------------------------------------------
\* A side effect changes the store and the chat of one job, within their types.
LEMMA SideEffectTypes ==
    ASSUME TypeOK, NEW w \in Slots, slot[w].step \in PipelineSteps, SideEffect(w)
    PROVE  /\ slot[w] \in [job : Jobs, attempt : 1 .. MaxAttempts, step : Steps]
           /\ stored' \in [Jobs -> SUBSET {"text", "image"}]
           /\ stories' \in [Jobs -> Nat]
           /\ pictures' \in [Jobs -> Nat]
           /\ apologies' \in [Jobs -> Nat]
<1>1. slot[w] \in [job : Jobs, attempt : 1 .. MaxAttempts, step : Steps]
  BY DEF TypeOK, Idle, PipelineSteps
<1>2. stored' \in [Jobs -> SUBSET {"text", "image"}]
  BY <1>1 DEF SideEffect, TypeOK, Blob
<1>3. stories' \in [Jobs -> Nat] /\ apologies' \in [Jobs -> Nat]
  BY <1>1 DEF SideEffect, TypeOK
<1>4. pictures' \in [Jobs -> Nat]
  <2>1. [pictures EXCEPT ![slot[w].job] = @ + 1] \in [Jobs -> Nat]
    BY <1>1 DEF TypeOK
  <2> QED
    BY <2>1 DEF SideEffect, TypeOK
<1> QED
  BY <1>1, <1>2, <1>3, <1>4

\* A side effect takes nothing from the store or the chat, and a story is shown
\* only when both files are stored.
LEMMA SideEffectReplies ==
    ASSUME IInv, NEW w \in Slots, slot[w].step \in PipelineSteps, SideEffect(w), sub' = sub
    PROVE  ShownIsStored' /\ AckImpliesReplied'
<1>1. TypeOK /\ slot[w].job \in Jobs /\ Working(w)
  BY DEF IInv, TypeOK, Idle, PipelineSteps, Working
<1>2. stored' \in [Jobs -> SUBSET Both]
  BY <1>1, SideEffectTypes DEF Both
<1>3. \A j \in Jobs : stored[j] \subseteq stored'[j]
  BY <1>1 DEF SideEffect, TypeOK
<1>4. \A j \in Jobs : stories[j] <= stories'[j]
  BY <1>1 DEF SideEffect, TypeOK
<1>5. \A j \in Jobs : pictures[j] <= pictures'[j]
  <2>1. \A j \in Jobs : pictures[j] <= [pictures EXCEPT ![slot[w].job] = @ + 1][j]
    BY <1>1 DEF TypeOK
  <2>2. \A j \in Jobs : pictures[j] <= pictures[j]
    BY <1>1 DEF TypeOK
  <2> QED
    BY <2>1, <2>2 DEF SideEffect
<1>6. \A j \in Jobs : stories'[j] > 0 => stored[j] = Both
  <2>1. slot[w].step = "send" => stored[slot[w].job] = Both
    BY <1>1 DEF IInv, Progress
  <2>2. \A j \in Jobs : stories[j] > 0 => stored[j] = Both
    BY DEF IInv, ShownIsStored, Both
  <2>3. CASE slot[w].step = "send" /\ stories' = [stories EXCEPT ![slot[w].job] = @ + 1]
    BY <1>1, <2>1, <2>2, <2>3 DEF TypeOK
  <2>4. CASE stories' = stories
    BY <2>2, <2>4
  <2> QED
    BY <2>3, <2>4 DEF SideEffect
<1>7. ShownIsStored'
  BY <1>2, <1>3, <1>6 DEF ShownIsStored, Both
<1>8. AckImpliesReplied'
  <2> SUFFICES ASSUME NEW j \in Jobs, sub[j] = "acked"
               PROVE  stories'[j] > 0 /\ pictures'[j] > 0 /\ stored'[j] = Both
    BY DEF AckImpliesReplied, Both
  <2>1. stories[j] > 0 /\ pictures[j] > 0 /\ stored[j] = Both
    BY DEF IInv, AckImpliesReplied, Both
  <2>2. stories'[j] \in Nat /\ pictures'[j] \in Nat /\ stories[j] \in Nat /\ pictures[j] \in Nat
    BY <1>1, SideEffectTypes DEF TypeOK
  <2> QED
    BY <1>2, <1>3, <1>4, <1>5, <2>1, <2>2
<1> QED
  BY <1>7, <1>8

LEMMA InitIInv == Init => IInv
<1> SUFFICES ASSUME Init PROVE IInv
  OBVIOUS
<1> USE DeliveryAssumption DEF Init
<1>1. TypeOK
  BY DEF TypeOK, Idle
<1>2. Progress /\ ShownIsStored /\ AckImpliesReplied
  BY DEF Progress, ShownIsStored, AckImpliesReplied, Working, Idle
<1>3. Deliveries /\ Apologies /\ ApologyOnlyWhenExhausted
  BY DEF Deliveries, Apologies, ApologyOnlyWhenExhausted, Working, Idle, PipelineSteps
<1> QED
  BY <1>1, <1>2, <1>3 DEF IInv

LEMMA GenerateIInv == ASSUME IInv, NEW w \in Slots, Generate(w) PROVE IInv'
<1> USE DeliveryAssumption DEF Generate, Goto, chat
<1>1. TypeOK'
  BY DEF IInv, TypeOK, Deliveries, Idle, Steps, PipelineSteps, Working
<1>2. Progress'
  BY DEF IInv, TypeOK, Progress, Deliveries, Working, Idle, Both, Steps, PipelineSteps
<1>3. ShownIsStored' /\ AckImpliesReplied'
  BY DEF IInv, TypeOK, Progress, Deliveries, ShownIsStored, AckImpliesReplied, Working, Idle, Both, Steps, PipelineSteps
<1>4. Deliveries'
  BY DEF IInv, TypeOK, Deliveries, Working, Idle, Steps, PipelineSteps
<1>5. Apologies' /\ ApologyOnlyWhenExhausted'
  BY DEF IInv, TypeOK, Deliveries, Apologies, ApologyOnlyWhenExhausted, Working, Idle, Steps, PipelineSteps
<1> QED
  BY <1>1, <1>2, <1>3, <1>4, <1>5 DEF IInv

LEMMA SaveIInv == ASSUME IInv, NEW w \in Slots, Save(w) PROVE IInv'
<1> USE DeliveryAssumption DEF Save, Goto, Blob, chat
<1>1. TypeOK'
  BY DEF IInv, TypeOK, Deliveries, Idle, Steps, PipelineSteps, Working
<1>2. Progress'
  BY DEF IInv, TypeOK, Progress, Deliveries, Working, Idle, Both, Steps, PipelineSteps
<1>3. ShownIsStored' /\ AckImpliesReplied'
  BY DEF IInv, TypeOK, Progress, Deliveries, ShownIsStored, AckImpliesReplied, Working, Idle, Both, Steps, PipelineSteps
<1>4. Deliveries'
  BY DEF IInv, TypeOK, Deliveries, Working, Idle, Steps, PipelineSteps
<1>5. Apologies' /\ ApologyOnlyWhenExhausted'
  BY DEF IInv, TypeOK, Deliveries, Apologies, ApologyOnlyWhenExhausted, Working, Idle, Steps, PipelineSteps
<1> QED
  BY <1>1, <1>2, <1>3, <1>4, <1>5 DEF IInv

LEMMA SendCaptionedIInv == ASSUME IInv, NEW w \in Slots, SendCaptioned(w) PROVE IInv'
<1> USE DeliveryAssumption DEF SendCaptioned, Goto, chat
<1>1. TypeOK'
  BY DEF IInv, TypeOK, Deliveries, Idle, Steps, PipelineSteps, Working
<1>2. Progress'
  BY DEF IInv, TypeOK, Progress, Deliveries, Working, Idle, Both, Steps, PipelineSteps
<1>3. ShownIsStored' /\ AckImpliesReplied'
  BY DEF IInv, TypeOK, Progress, Deliveries, ShownIsStored, AckImpliesReplied, Working, Idle, Both, Steps, PipelineSteps
<1>4. Deliveries'
  BY DEF IInv, TypeOK, Deliveries, Working, Idle, Steps, PipelineSteps
<1>5. Apologies' /\ ApologyOnlyWhenExhausted'
  BY DEF IInv, TypeOK, Deliveries, Apologies, ApologyOnlyWhenExhausted, Working, Idle, Steps, PipelineSteps
<1> QED
  BY <1>1, <1>2, <1>3, <1>4, <1>5 DEF IInv

LEMMA SendTextIInv == ASSUME IInv, NEW w \in Slots, SendText(w) PROVE IInv'
<1> USE DeliveryAssumption DEF SendText, Goto, chat
<1>1. TypeOK'
  BY DEF IInv, TypeOK, Deliveries, Idle, Steps, PipelineSteps, Working
<1>2. Progress'
  BY DEF IInv, TypeOK, Progress, Deliveries, Working, Idle, Both, Steps, PipelineSteps
<1>3. ShownIsStored' /\ AckImpliesReplied'
  BY DEF IInv, TypeOK, Progress, Deliveries, ShownIsStored, AckImpliesReplied, Working, Idle, Both, Steps, PipelineSteps
<1>4. Deliveries'
  BY DEF IInv, TypeOK, Deliveries, Working, Idle, Steps, PipelineSteps
<1>5. Apologies' /\ ApologyOnlyWhenExhausted'
  BY DEF IInv, TypeOK, Deliveries, Apologies, ApologyOnlyWhenExhausted, Working, Idle, Steps, PipelineSteps
<1> QED
  BY <1>1, <1>2, <1>3, <1>4, <1>5 DEF IInv

LEMMA SendPhotoIInv == ASSUME IInv, NEW w \in Slots, SendPhoto(w) PROVE IInv'
<1> USE DeliveryAssumption DEF SendPhoto, Goto, chat
<1>1. TypeOK'
  BY DEF IInv, TypeOK, Deliveries, Idle, Steps, PipelineSteps, Working
<1>2. Progress'
  BY DEF IInv, TypeOK, Progress, Deliveries, Working, Idle, Both, Steps, PipelineSteps
<1>3. ShownIsStored' /\ AckImpliesReplied'
  BY DEF IInv, TypeOK, Progress, Deliveries, ShownIsStored, AckImpliesReplied, Working, Idle, Both, Steps, PipelineSteps
<1>4. Deliveries'
  BY DEF IInv, TypeOK, Deliveries, Working, Idle, Steps, PipelineSteps
<1>5. Apologies' /\ ApologyOnlyWhenExhausted'
  BY DEF IInv, TypeOK, Deliveries, Apologies, ApologyOnlyWhenExhausted, Working, Idle, Steps, PipelineSteps
<1> QED
  BY <1>1, <1>2, <1>3, <1>4, <1>5 DEF IInv

LEMMA FailIInv == ASSUME IInv, NEW w \in Slots, Fail(w) PROVE IInv'
<1> USE DeliveryAssumption DEF Fail, Goto, SideEffect, Blob, IsFinalAttempt, PipelineSteps
<1>1. TypeOK'
  <2>1. TypeOK /\ slot[w].step \in PipelineSteps /\ SideEffect(w)
    BY DEF IInv
  <2>2. /\ slot[w] \in [job : Jobs, attempt : 1 .. MaxAttempts, step : Steps]
        /\ stored' \in [Jobs -> SUBSET {"text", "image"}]
        /\ stories' \in [Jobs -> Nat]
        /\ pictures' \in [Jobs -> Nat]
        /\ apologies' \in [Jobs -> Nat]
    BY ONLY <2>1, SideEffectTypes
  <2> QED
    BY <2>1, <2>2 DEF TypeOK, Steps
<1>2. Progress'
  BY DEF IInv, TypeOK, Progress, Deliveries, Working, Idle, Both, Steps
<1>3. ShownIsStored' /\ AckImpliesReplied'
  <2>1. slot[w].step \in PipelineSteps /\ SideEffect(w) /\ sub' = sub
    OBVIOUS
  <2> QED
    BY ONLY IInv, w \in Slots, <2>1, SideEffectReplies
<1>4. Deliveries'
  BY DEF IInv, TypeOK, Deliveries, Working, Idle, Steps
<1>5. Apologies' /\ ApologyOnlyWhenExhausted'
  <2>1. /\ apologies' = apologies /\ attempts' = attempts
        /\ slot' = [slot EXCEPT ![w].step = IF slot[w].attempt >= MaxAttempts
                                              THEN "apology" ELSE "nack"]
        /\ slot[w].step \in PipelineSteps /\ slot[w].step # "apology"
    OBVIOUS
  <2>2. /\ slot[w] \in [job : Jobs, attempt : 1 .. MaxAttempts, step : Steps]
        /\ MaxAttempts \in Nat
    BY <2>1 DEF IInv, TypeOK, Idle
  <2> HIDE DEF Fail, SideEffect, Goto
  <2>3. \A v \in Slots : v # w => slot'[v] = slot[v]
    BY <2>1 DEF IInv, TypeOK
  <2>4. /\ slot'[w].attempt = slot[w].attempt /\ slot'[w].job = slot[w].job
        /\ slot'[w].step = "apology" => slot[w].attempt = MaxAttempts
    <3>1. slot'[w] = [slot[w] EXCEPT !.step = IF slot[w].attempt >= MaxAttempts
                                                THEN "apology" ELSE "nack"]
      BY <2>1 DEF IInv, TypeOK
    <3> QED
      BY ONLY <2>2, <3>1
  <2>5. Apologies'
    BY <2>1, <2>3, <2>4 DEF IInv, Apologies
  <2> QED
    BY <2>1, <2>5 DEF IInv, ApologyOnlyWhenExhausted
<1> QED
  BY <1>1, <1>2, <1>3, <1>4, <1>5 DEF IInv

LEMMA ApologiseIInv == ASSUME IInv, NEW w \in Slots, Apologise(w) PROVE IInv'
<1> USE DeliveryAssumption DEF Apologise, Goto, SideEffect, Blob, PipelineSteps
<1>1. TypeOK'
  BY DEF IInv, TypeOK, Deliveries, Idle, Steps, Working
<1>2. Progress'
  BY DEF IInv, TypeOK, Progress, Deliveries, Working, Idle, Both, Steps
<1>3. ShownIsStored' /\ AckImpliesReplied'
  <2>1. slot[w].step \in PipelineSteps /\ SideEffect(w) /\ sub' = sub
    OBVIOUS
  <2> QED
    BY ONLY IInv, w \in Slots, <2>1, SideEffectReplies
<1>4. Deliveries'
  BY DEF IInv, TypeOK, Deliveries, Working, Idle, Steps
<1>5. Apologies' /\ ApologyOnlyWhenExhausted'
  <2>1. Apologies'
    BY DEF IInv, TypeOK, Deliveries, Apologies, Working, Idle, Steps
  <2>2. ApologyOnlyWhenExhausted'
    BY DEF IInv, TypeOK, Deliveries, Apologies, ApologyOnlyWhenExhausted, Working, Idle, Steps
  <2> QED
    BY <2>1, <2>2
<1> QED
  BY <1>1, <1>2, <1>3, <1>4, <1>5 DEF IInv

LEMMA TimeoutIInv == ASSUME IInv, NEW w \in Slots, Timeout(w) PROVE IInv'
<1> USE DeliveryAssumption DEF Timeout, Interrupt, Goto, SideEffect, Blob, PipelineSteps
<1>1. TypeOK'
  <2>1. TypeOK /\ slot[w].step \in PipelineSteps /\ SideEffect(w)
    BY DEF IInv
  <2>2. /\ slot[w] \in [job : Jobs, attempt : 1 .. MaxAttempts, step : Steps]
        /\ stored' \in [Jobs -> SUBSET {"text", "image"}]
        /\ stories' \in [Jobs -> Nat]
        /\ pictures' \in [Jobs -> Nat]
        /\ apologies' \in [Jobs -> Nat]
    BY ONLY <2>1, SideEffectTypes
  <2> QED
    BY <2>1, <2>2 DEF TypeOK, Steps
<1>2. Progress'
  BY DEF IInv, TypeOK, Progress, Deliveries, Working, Idle, Both, Steps
<1>3. ShownIsStored' /\ AckImpliesReplied'
  <2>1. slot[w].step \in PipelineSteps /\ SideEffect(w) /\ sub' = sub
    OBVIOUS
  <2> QED
    BY ONLY IInv, w \in Slots, <2>1, SideEffectReplies
<1>4. Deliveries'
  BY DEF IInv, TypeOK, Deliveries, Working, Idle, Steps
<1>5. Apologies' /\ ApologyOnlyWhenExhausted'
  <2>1. Apologies'
    BY DEF IInv, TypeOK, Deliveries, Apologies, Working, Idle, Steps
  <2>2. ApologyOnlyWhenExhausted'
    BY DEF IInv, TypeOK, Deliveries, Apologies, ApologyOnlyWhenExhausted, Working, Idle, Steps
  <2> QED
    BY <2>1, <2>2
<1> QED
  BY <1>1, <1>2, <1>3, <1>4, <1>5 DEF IInv

LEMMA AckIInv == ASSUME IInv, NEW w \in Slots, Ack(w) PROVE IInv'
<1> USE DeliveryAssumption DEF Ack, Finish, chat, Idle
<1>1. TypeOK'
  <2>1. slot[w].job \in Jobs
    BY DEF IInv, TypeOK, Idle
  <2>2. sub' \in [Jobs -> {"absent", "ready", "out", "acked", "dead", "expired"}]
    BY <2>1 DEF IInv, TypeOK
  <2> QED
    BY <2>2 DEF IInv, TypeOK
<1>2. Progress'
  BY DEF IInv, TypeOK, Progress, Deliveries, Working, Both, Steps, PipelineSteps
<1>3. ShownIsStored' /\ AckImpliesReplied'
  BY DEF IInv, TypeOK, Progress, Deliveries, ShownIsStored, AckImpliesReplied, Working, Both, Steps, PipelineSteps
<1>4. Deliveries'
  BY DEF IInv, TypeOK, Deliveries, Working, Steps, PipelineSteps
<1>5. Apologies' /\ ApologyOnlyWhenExhausted'
  BY DEF IInv, TypeOK, Deliveries, Apologies, ApologyOnlyWhenExhausted, Working, Steps, PipelineSteps
<1> QED
  BY <1>1, <1>2, <1>3, <1>4, <1>5 DEF IInv

LEMMA NackIInv == ASSUME IInv, NEW w \in Slots, Nack(w) PROVE IInv'
<1> USE DeliveryAssumption DEF Nack, Finish, Requeue, chat, Idle
<1>1. TypeOK'
  <2>1. slot[w].job \in Jobs
    BY DEF IInv, TypeOK, Idle
  <2>2. sub' \in [Jobs -> {"absent", "ready", "out", "acked", "dead", "expired"}]
    BY <2>1 DEF IInv, TypeOK
  <2> QED
    BY <2>2 DEF IInv, TypeOK
<1>2. Progress'
  BY DEF IInv, TypeOK, Progress, Deliveries, Working, Both, Steps, PipelineSteps
<1>3. ShownIsStored' /\ AckImpliesReplied'
  BY DEF IInv, TypeOK, Progress, Deliveries, ShownIsStored, AckImpliesReplied, Working, Both, Steps, PipelineSteps
<1>4. Deliveries'
  BY DEF IInv, TypeOK, Deliveries, Working, Steps, PipelineSteps
<1>5. Apologies' /\ ApologyOnlyWhenExhausted'
  BY DEF IInv, TypeOK, Deliveries, Apologies, ApologyOnlyWhenExhausted, Working, Steps, PipelineSteps
<1> QED
  BY <1>1, <1>2, <1>3, <1>4, <1>5 DEF IInv

LEMMA PublishIInv == ASSUME IInv, NEW j \in Jobs, Publish(j) PROVE IInv'
<1> USE DeliveryAssumption DEF Publish, chat
<1>1. TypeOK'
  BY DEF IInv, TypeOK, Deliveries, Idle, Steps, PipelineSteps, Working
<1>2. Progress'
  BY DEF IInv, TypeOK, Progress, Deliveries, Working, Idle, Both, Steps, PipelineSteps
<1>3. ShownIsStored' /\ AckImpliesReplied'
  BY DEF IInv, TypeOK, Progress, Deliveries, ShownIsStored, AckImpliesReplied, Working, Idle, Both, Steps, PipelineSteps
<1>4. Deliveries'
  BY DEF IInv, TypeOK, Deliveries, Working, Idle, Steps, PipelineSteps
<1>5. Apologies' /\ ApologyOnlyWhenExhausted'
  BY DEF IInv, TypeOK, Deliveries, Apologies, ApologyOnlyWhenExhausted, Working, Idle, Steps, PipelineSteps
<1> QED
  BY <1>1, <1>2, <1>3, <1>4, <1>5 DEF IInv

LEMMA LeaseEndsIInv ==
    ASSUME IInv, NEW j \in Jobs, LeaseExpires(j) \/ LeaseLost(j)
    PROVE  IInv'
<1>0. sub[j] = "out" /\ Requeue(j) /\ UNCHANGED <<attempts, slot, loop, stored, chat>>
  BY DEF LeaseExpires, LeaseLost
<1> USE DeliveryAssumption, <1>0 DEF Requeue, chat
<1>1. TypeOK'
  BY DEF IInv, TypeOK, Deliveries, Idle, Steps, PipelineSteps, Working
<1>2. Progress'
  BY DEF IInv, TypeOK, Progress, Deliveries, Working, Idle, Both, Steps, PipelineSteps
<1>3. ShownIsStored' /\ AckImpliesReplied'
  BY DEF IInv, TypeOK, Progress, Deliveries, ShownIsStored, AckImpliesReplied, Working, Idle, Both, Steps, PipelineSteps
<1>4. Deliveries'
  BY DEF IInv, TypeOK, Deliveries, Working, Idle, Steps, PipelineSteps
<1>5. Apologies' /\ ApologyOnlyWhenExhausted'
  BY DEF IInv, TypeOK, Deliveries, Apologies, ApologyOnlyWhenExhausted, Working, Idle, Steps, PipelineSteps
<1> QED
  BY <1>1, <1>2, <1>3, <1>4, <1>5 DEF IInv

LEMMA ExpireIInv == ASSUME IInv, NEW j \in Jobs, Expire(j) PROVE IInv'
<1> USE DeliveryAssumption DEF Expire, chat
<1>1. TypeOK'
  BY DEF IInv, TypeOK, Deliveries, Idle, Steps, PipelineSteps, Working
<1>2. Progress'
  BY DEF IInv, TypeOK, Progress, Deliveries, Working, Idle, Both, Steps, PipelineSteps
<1>3. ShownIsStored' /\ AckImpliesReplied'
  BY DEF IInv, TypeOK, Progress, Deliveries, ShownIsStored, AckImpliesReplied, Working, Idle, Both, Steps, PipelineSteps
<1>4. Deliveries'
  BY DEF IInv, TypeOK, Deliveries, Working, Idle, Steps, PipelineSteps
<1>5. Apologies' /\ ApologyOnlyWhenExhausted'
  BY DEF IInv, TypeOK, Deliveries, Apologies, ApologyOnlyWhenExhausted, Working, Idle, Steps, PipelineSteps
<1> QED
  BY <1>1, <1>2, <1>3, <1>4, <1>5 DEF IInv

LEMMA DeliverIInv == ASSUME IInv, NEW w \in Slots, NEW j \in Jobs, Deliver(w, j) PROVE IInv'
<1> USE DeliveryAssumption DEF Deliver, chat, Working
<1>1. TypeOK'
  BY DEF IInv, TypeOK, Deliveries, Idle, Steps, PipelineSteps
<1>2. Progress'
  BY DEF IInv, TypeOK, Progress, Deliveries, Idle, Both, Steps, PipelineSteps
<1>3. ShownIsStored' /\ AckImpliesReplied'
  BY DEF IInv, TypeOK, Progress, Deliveries, ShownIsStored, AckImpliesReplied, Idle, Both, Steps, PipelineSteps
<1>4. Deliveries'
  BY DEF IInv, TypeOK, Deliveries, Idle, Steps, PipelineSteps
<1>5. Apologies' /\ ApologyOnlyWhenExhausted'
  BY DEF IInv, TypeOK, Deliveries, Apologies, ApologyOnlyWhenExhausted, Idle, Steps, PipelineSteps
<1> QED
  BY <1>1, <1>2, <1>3, <1>4, <1>5 DEF IInv

LEMMA StopIInv == ASSUME IInv, NEW w \in Slots, Stop(w) PROVE IInv'
<1> USE DeliveryAssumption DEF Stop, Working, chat
<1>1. TypeOK'
  BY DEF IInv, TypeOK, Deliveries, Idle, Steps, PipelineSteps
<1>2. Progress'
  BY DEF IInv, TypeOK, Progress, Deliveries, Idle, Both, Steps, PipelineSteps
<1>3. ShownIsStored' /\ AckImpliesReplied'
  BY DEF IInv, TypeOK, Progress, Deliveries, ShownIsStored, AckImpliesReplied, Idle, Both, Steps, PipelineSteps
<1>4. Deliveries'
  BY DEF IInv, TypeOK, Deliveries, Idle, Steps, PipelineSteps
<1>5. Apologies' /\ ApologyOnlyWhenExhausted'
  BY DEF IInv, TypeOK, Deliveries, Apologies, ApologyOnlyWhenExhausted, Idle, Steps, PipelineSteps
<1> QED
  BY <1>1, <1>2, <1>3, <1>4, <1>5 DEF IInv

LEMMA CancelIInv == ASSUME IInv, NEW w \in Slots, Cancel(w) PROVE IInv'
<1> USE DeliveryAssumption DEF Cancel, Interrupt, Goto, SideEffect, Blob, PipelineSteps
<1>1. TypeOK'
  <2>1. TypeOK /\ slot[w].step \in PipelineSteps /\ SideEffect(w)
    BY DEF IInv
  <2>2. /\ slot[w] \in [job : Jobs, attempt : 1 .. MaxAttempts, step : Steps]
        /\ stored' \in [Jobs -> SUBSET {"text", "image"}]
        /\ stories' \in [Jobs -> Nat]
        /\ pictures' \in [Jobs -> Nat]
        /\ apologies' \in [Jobs -> Nat]
    BY ONLY <2>1, SideEffectTypes
  <2> QED
    BY <2>1, <2>2 DEF TypeOK, Steps
<1>2. Progress'
  BY DEF IInv, TypeOK, Progress, Deliveries, Working, Idle, Both, Steps
<1>3. ShownIsStored' /\ AckImpliesReplied'
  <2>1. slot[w].step \in PipelineSteps /\ SideEffect(w) /\ sub' = sub
    OBVIOUS
  <2> QED
    BY ONLY IInv, w \in Slots, <2>1, SideEffectReplies
<1>4. Deliveries'
  BY DEF IInv, TypeOK, Deliveries, Working, Idle, Steps
<1>5. Apologies' /\ ApologyOnlyWhenExhausted'
  <2>1. Apologies'
    BY DEF IInv, TypeOK, Deliveries, Apologies, Working, Idle, Steps
  <2>2. ApologyOnlyWhenExhausted'
    BY DEF IInv, TypeOK, Deliveries, Apologies, ApologyOnlyWhenExhausted, Working, Idle, Steps
  <2> QED
    BY <2>1, <2>2
<1> QED
  BY <1>1, <1>2, <1>3, <1>4, <1>5 DEF IInv

LEMMA CrashIInv == ASSUME IInv, NEW w \in Slots, Crash(w) PROVE IInv'
<1> USE DeliveryAssumption DEF Crash, SideEffect, Blob, Idle
<1>1. TypeOK'
  BY DEF IInv, TypeOK, Deliveries, Steps, PipelineSteps, Working
<1>2. Progress'
  BY DEF IInv, TypeOK, Progress, Deliveries, Working, Both, Steps, PipelineSteps
<1>3. ShownIsStored' /\ AckImpliesReplied'
  BY DEF IInv, TypeOK, Progress, Deliveries, ShownIsStored, AckImpliesReplied, Working, Both, Steps, PipelineSteps
<1>4. Deliveries'
  BY DEF IInv, TypeOK, Deliveries, Working, Steps, PipelineSteps
<1>5. Apologies' /\ ApologyOnlyWhenExhausted'
  BY DEF IInv, TypeOK, Deliveries, Apologies, ApologyOnlyWhenExhausted, Working, Steps, PipelineSteps
<1> QED
  BY <1>1, <1>2, <1>3, <1>4, <1>5 DEF IInv

LEMMA StartIInv == ASSUME IInv, NEW w \in Slots, Start(w) PROVE IInv'
<1> USE DeliveryAssumption DEF Start, chat
<1>1. TypeOK'
  BY DEF IInv, TypeOK, Deliveries, Idle, Steps, PipelineSteps, Working
<1>2. Progress'
  BY DEF IInv, TypeOK, Progress, Deliveries, Working, Idle, Both, Steps, PipelineSteps
<1>3. ShownIsStored' /\ AckImpliesReplied'
  BY DEF IInv, TypeOK, Progress, Deliveries, ShownIsStored, AckImpliesReplied, Working, Idle, Both, Steps, PipelineSteps
<1>4. Deliveries'
  BY DEF IInv, TypeOK, Deliveries, Working, Idle, Steps, PipelineSteps
<1>5. Apologies' /\ ApologyOnlyWhenExhausted'
  BY DEF IInv, TypeOK, Deliveries, Apologies, ApologyOnlyWhenExhausted, Working, Idle, Steps, PipelineSteps
<1> QED
  BY <1>1, <1>2, <1>3, <1>4, <1>5 DEF IInv

-----------------------------------------------------------------------------
LEMMA StepIInv == IInv /\ [Next]_vars => IInv'
<1> SUFFICES ASSUME IInv, [Next]_vars PROVE IInv'
  OBVIOUS
<1>1. ASSUME NEW w \in Slots, Advance(w) PROVE IInv'
  BY <1>1, GenerateIInv, SaveIInv, SendCaptionedIInv, SendTextIInv, SendPhotoIInv,
     FailIInv, ApologiseIInv, TimeoutIInv, AckIInv, NackIInv DEF Advance
<1>2. ASSUME NEW j \in Jobs, Publish(j) \/ LeaseExpires(j) \/ LeaseLost(j) \/ Expire(j)
      PROVE  IInv'
  BY <1>2, PublishIInv, LeaseEndsIInv, ExpireIInv
<1>3. ASSUME NEW w \in Slots, Stop(w) \/ Cancel(w) \/ Crash(w) \/ Start(w) PROVE IInv'
  BY <1>3, StopIInv, CancelIInv, CrashIInv, StartIInv
<1>4. ASSUME NEW w \in Slots, NEW j \in Jobs, Deliver(w, j) PROVE IInv'
  BY <1>4, DeliverIInv
<1>5. CASE UNCHANGED vars
  BY <1>5 DEF vars, chat, IInv, TypeOK, Progress, ShownIsStored, AckImpliesReplied,
              Deliveries, Apologies, ApologyOnlyWhenExhausted, Working
<1> QED
  BY <1>1, <1>2, <1>3, <1>4, <1>5 DEF Next, SteadyNext

\* IInv holds in every state of every behaviour.
THEOREM Invariance == Spec => []IInv
<1>1. Init => IInv
  BY InitIInv
<1>2. IInv /\ [Next]_vars => IInv'
  BY StepIInv
<1> QED
  BY <1>1, <1>2, PTL DEF Spec

\* The types; in particular no job is delivered more than MaxAttempts times.
THEOREM TypeCorrect == Spec => []TypeOK
<1>1. IInv => TypeOK
  BY DEF IInv
<1> QED
  BY <1>1, Invariance, PTL

\* An acked job was stored and replied to in full.
THEOREM AckedIsReplied == Spec => []AckImpliesReplied
<1>1. IInv => AckImpliesReplied
  BY DEF IInv
<1> QED
  BY <1>1, Invariance, PTL

\* A story that was shown is in the store.
THEOREM ShownWasStored == Spec => []ShownIsStored
<1>1. IInv => ShownIsStored
  BY DEF IInv
<1> QED
  BY <1>1, Invariance, PTL

\* One apology at most, and only on the last delivery.
THEOREM ApologyIsLast == Spec => []ApologyOnlyWhenExhausted
<1>1. IInv => ApologyOnlyWhenExhausted
  BY DEF IInv
<1> QED
  BY <1>1, Invariance, PTL

-----------------------------------------------------------------------------
(* RepliesBounded: each attempt can still show what it has not shown yet.  *)

BeforeReply == {"story", "image", "saveText", "saveImage", "send"}

\* The attempts in progress that have shown nothing, and those that have shown
\* the story and owe the picture.
ToShow(j) == {a \in 1 .. MaxAttempts : \E w \in Slots :
                 slot[w].job = j /\ slot[w].attempt = a /\ slot[w].step \in BeforeReply}
AtPhoto(j) == {a \in 1 .. MaxAttempts : \E w \in Slots :
                 slot[w].job = j /\ slot[w].attempt = a /\ slot[w].step = "photo"}

\* What was shown and what can still be shown are together within the attempts.
Count(j) ==
    /\ pictures[j] + Cardinality(AtPhoto(j)) <= stories[j]
    /\ stories[j] + Cardinality(ToShow(j)) <= attempts[j]
Counts == \A j \in Jobs : Count(j)

\* Sets of attempts are finite and can be counted.
LEMMA Countable ==
    ASSUME NEW S \in SUBSET (1 .. MaxAttempts)
    PROVE  /\ IsFiniteSet(S) /\ Cardinality(S) \in Nat
           /\ \A T \in SUBSET S : Cardinality(T) <= Cardinality(S)
           /\ \A a : Cardinality(S \cup {a}) <= Cardinality(S) + 1
           /\ \A a \in S : Cardinality(S \ {a}) = Cardinality(S) - 1
<1>1. MaxAttempts \in Int
  BY DeliveryAssumption DEF DeliveryAssumption
<1>2. IsFiniteSet(S)
  <2>1. 1 \in Int /\ IsFiniteSet(1 .. MaxAttempts)
    BY <1>1, FS_Interval
  <2> QED
    BY <2>1, FS_Subset
<1>3. Cardinality(S) \in Nat
  BY <1>2, FS_CardinalityType
<1>4. \A T \in SUBSET S : Cardinality(T) <= Cardinality(S)
  BY <1>2, FS_Subset
<1>5. \A a : Cardinality(S \cup {a}) <= Cardinality(S) + 1
  BY <1>2, <1>3, FS_AddElement
<1>6. \A a \in S : Cardinality(S \ {a}) = Cardinality(S) - 1
  BY <1>2, FS_RemoveElement
<1> QED
  BY <1>2, <1>3, <1>4, <1>5, <1>6

LEMMA InitCounts == Init => Counts
<1> SUFFICES ASSUME Init, NEW j \in Jobs PROVE Count(j)
  BY DEF Counts
<1>1. ToShow(j) = {} /\ AtPhoto(j) = {}
  BY DEF Init, Idle, ToShow, AtPhoto, BeforeReply
<1> QED
  BY <1>1, FS_EmptySet DEF Init, Count

\* A step that shows nothing, and makes nobody ready to show more.
LEMMA QuietStep ==
    ASSUME IInv, Counts, NEW j \in Jobs,
           ToShow(j)' \subseteq ToShow(j), AtPhoto(j)' \subseteq AtPhoto(j),
           stories'[j] = stories[j], pictures'[j] = pictures[j], attempts'[j] = attempts[j]
    PROVE  Count(j)'
<1>1. stories[j] \in Nat /\ pictures[j] \in Nat /\ attempts[j] \in Nat
  BY DeliveryAssumption DEF IInv, TypeOK, DeliveryAssumption
<1>2. ToShow(j) \in SUBSET (1 .. MaxAttempts) /\ AtPhoto(j) \in SUBSET (1 .. MaxAttempts)
  BY DEF ToShow, AtPhoto
<1>3. /\ Cardinality(ToShow(j)) \in Nat /\ Cardinality(AtPhoto(j)) \in Nat
      /\ Cardinality(ToShow(j)') \in Nat /\ Cardinality(AtPhoto(j)') \in Nat
      /\ Cardinality(ToShow(j)') <= Cardinality(ToShow(j))
      /\ Cardinality(AtPhoto(j)') <= Cardinality(AtPhoto(j))
  BY <1>2, Countable
<1> QED
  BY <1>1, <1>3 DEF Counts, Count

\* One worker goes on with its delivery, or leaves it, and shows nothing new.
LEMMA SilentAdvance ==
    ASSUME IInv, Counts, NEW w \in Slots, NEW x, slot' = [slot EXCEPT ![w] = x],
           \/ x = Idle
           \/ /\ x.job = slot[w].job /\ x.attempt = slot[w].attempt
              /\ x.step \in BeforeReply => slot[w].step \in BeforeReply
              /\ x.step = "photo" => slot[w].step = "photo",
           UNCHANGED <<stories, pictures, attempts>>
    PROVE  Counts'
<1> SUFFICES ASSUME NEW j \in Jobs PROVE Count(j)'
  BY DEF Counts
<1>1. \A v \in Slots : slot'[v] = IF v = w THEN x ELSE slot[v]
  BY DEF IInv, TypeOK
<1>2. \A v \in Slots : slot'[v].job = j /\ slot'[v].step \in BeforeReply \cup {"photo"} =>
         /\ slot'[v].job = slot[v].job /\ slot'[v].attempt = slot[v].attempt
         /\ slot'[v].step \in BeforeReply => slot[v].step \in BeforeReply
         /\ slot'[v].step = "photo" => slot[v].step = "photo"
  BY <1>1 DEF Idle, BeforeReply
<1>3. ToShow(j)' \subseteq ToShow(j) /\ AtPhoto(j)' \subseteq AtPhoto(j)
  BY <1>2 DEF ToShow, AtPhoto
<1> QED
  BY <1>3, QuietStep

\* The worker at "send" shows its story, with the picture or without, and does
\* not come back to "send".
LEMMA ShowsStory ==
    ASSUME IInv, Counts, NEW w \in Slots, NEW x, slot' = [slot EXCEPT ![w] = x],
           slot[w].step = "send",
           x = Idle \/ (x.job = slot[w].job /\ x.attempt = slot[w].attempt),
           x.step \notin BeforeReply,
           stories' = [stories EXCEPT ![slot[w].job] = @ + 1],
           \/ pictures' = pictures
           \/ x.step # "photo" /\ pictures' = [pictures EXCEPT ![slot[w].job] = @ + 1],
           attempts' = attempts
    PROVE  Counts'
<1> SUFFICES ASSUME NEW j \in Jobs PROVE Count(j)'
  BY DEF Counts
<1> DEFINE a == slot[w].attempt
<1>1. slot[w].job \in Jobs /\ a \in 1 .. MaxAttempts /\ Working(w)
  BY DEF IInv, TypeOK, Idle, Working
<1>2. \A v \in Slots : slot'[v] = IF v = w THEN x ELSE slot[v]
  BY DEF IInv, TypeOK
<1>3. /\ stories \in [Jobs -> Nat] /\ pictures \in [Jobs -> Nat]
      /\ attempts[j] \in Nat
  BY DeliveryAssumption DEF IInv, TypeOK, DeliveryAssumption
<1>4. CASE j # slot[w].job
  <2>1. ToShow(j)' \subseteq ToShow(j) /\ AtPhoto(j)' \subseteq AtPhoto(j)
    BY <1>2, <1>4 DEF ToShow, AtPhoto, Idle, BeforeReply
  <2>2. stories'[j] = stories[j] /\ pictures'[j] = pictures[j]
    BY <1>1, <1>3, <1>4
  <2> QED
    BY <2>1, <2>2, QuietStep
<1>5. CASE j = slot[w].job
  <2>1. a \in ToShow(j)
    BY <1>1, <1>5 DEF ToShow, BeforeReply
  <2>2. \A v \in Slots : (v # w /\ slot[v].job = j /\ slot[v].step \in BeforeReply)
                            => slot[v].attempt # a
    BY <1>1, <1>5 DEF IInv, Deliveries, Working, BeforeReply
  <2>3. ToShow(j)' \subseteq ToShow(j) \ {a}
    BY <1>2, <2>2 DEF ToShow
  <2>4. AtPhoto(j)' \subseteq AtPhoto(j) \cup {a}
    BY <1>2 DEF AtPhoto, Idle
  <2>5. x.step # "photo" => AtPhoto(j)' \subseteq AtPhoto(j)
    BY <1>2 DEF AtPhoto
  <2>6. /\ ToShow(j) \in SUBSET (1 .. MaxAttempts) /\ AtPhoto(j) \in SUBSET (1 .. MaxAttempts)
        /\ AtPhoto(j) \cup {a} \in SUBSET (1 .. MaxAttempts)
        /\ ToShow(j) \ {a} \in SUBSET (1 .. MaxAttempts)
    BY <1>1 DEF ToShow, AtPhoto
  <2>7. /\ Cardinality(ToShow(j)) \in Nat
        /\ Cardinality(ToShow(j)') \in Nat
        /\ Cardinality(ToShow(j)') <= Cardinality(ToShow(j)) - 1
    <3>1. Cardinality(ToShow(j) \ {a}) = Cardinality(ToShow(j)) - 1
      BY <2>1, <2>6, Countable
    <3>2. Cardinality(ToShow(j)') <= Cardinality(ToShow(j) \ {a})
      BY <2>3, <2>6, Countable
    <3>3. Cardinality(ToShow(j)) \in Nat /\ Cardinality(ToShow(j)') \in Nat
      BY <2>3, <2>6, Countable
    <3> QED
      BY <3>1, <3>2, <3>3
  <2>8. /\ Cardinality(AtPhoto(j)) \in Nat
        /\ Cardinality(AtPhoto(j)') \in Nat
        /\ Cardinality(AtPhoto(j)') <= Cardinality(AtPhoto(j)) + 1
        /\ x.step # "photo" => Cardinality(AtPhoto(j)') <= Cardinality(AtPhoto(j))
    <3>1. Cardinality(AtPhoto(j)') <= Cardinality(AtPhoto(j) \cup {a})
      BY <2>4, <2>6, Countable
    <3>2. Cardinality(AtPhoto(j) \cup {a}) <= Cardinality(AtPhoto(j)) + 1
      BY <2>6, Countable
    <3>3. x.step # "photo" => Cardinality(AtPhoto(j)') <= Cardinality(AtPhoto(j))
      BY <2>5, <2>6, Countable
    <3>4. /\ Cardinality(AtPhoto(j)) \in Nat /\ Cardinality(AtPhoto(j)') \in Nat
          /\ Cardinality(AtPhoto(j) \cup {a}) \in Nat
      BY <2>4, <2>6, Countable
    <3> QED
      BY <3>1, <3>2, <3>3, <3>4
  <2>9. /\ stories'[j] = stories[j] + 1
        /\ \/ pictures'[j] = pictures[j]
           \/ x.step # "photo" /\ pictures'[j] = pictures[j] + 1
    BY <1>1, <1>3, <1>5
  <2> QED
    BY <1>3, <2>7, <2>8, <2>9 DEF Counts, Count
<1> QED
  BY <1>4, <1>5

\* The worker at "photo" shows its picture and does not come back.
LEMMA ShowsPicture ==
    ASSUME IInv, Counts, NEW w \in Slots, NEW x, slot' = [slot EXCEPT ![w] = x],
           slot[w].step = "photo", x.step \notin BeforeReply \cup {"photo"},
           pictures' = [pictures EXCEPT ![slot[w].job] = @ + 1],
           UNCHANGED <<stories, attempts>>
    PROVE  Counts'
<1> SUFFICES ASSUME NEW j \in Jobs PROVE Count(j)'
  BY DEF Counts
<1> DEFINE a == slot[w].attempt
<1>1. slot[w].job \in Jobs /\ a \in 1 .. MaxAttempts /\ Working(w)
  BY DEF IInv, TypeOK, Idle, Working
<1>2. \A v \in Slots : slot'[v] = IF v = w THEN x ELSE slot[v]
  BY DEF IInv, TypeOK
<1>3. /\ stories \in [Jobs -> Nat] /\ pictures \in [Jobs -> Nat]
      /\ attempts[j] \in Nat
  BY DeliveryAssumption DEF IInv, TypeOK, DeliveryAssumption
<1>4. ToShow(j)' \subseteq ToShow(j) /\ AtPhoto(j)' \subseteq AtPhoto(j)
  BY <1>2 DEF ToShow, AtPhoto
<1>5. CASE j # slot[w].job
  <2>1. pictures'[j] = pictures[j]
    BY <1>1, <1>3, <1>5
  <2> QED
    BY <1>4, <2>1, QuietStep
<1>6. CASE j = slot[w].job
  <2>1. a \in AtPhoto(j)
    BY <1>1, <1>6 DEF AtPhoto
  <2>2. \A v \in Slots : (v # w /\ slot[v].job = j /\ slot[v].step = "photo")
                            => slot[v].attempt # a
    BY <1>1, <1>6 DEF IInv, Deliveries, Working
  <2>3. AtPhoto(j)' \subseteq AtPhoto(j) \ {a}
    BY <1>2, <2>2 DEF AtPhoto
  <2>4. /\ ToShow(j) \in SUBSET (1 .. MaxAttempts) /\ AtPhoto(j) \in SUBSET (1 .. MaxAttempts)
        /\ AtPhoto(j) \ {a} \in SUBSET (1 .. MaxAttempts)
    BY DEF ToShow, AtPhoto
  <2>5. /\ Cardinality(AtPhoto(j)) \in Nat /\ Cardinality(AtPhoto(j)') \in Nat
        /\ Cardinality(AtPhoto(j)') <= Cardinality(AtPhoto(j)) - 1
    <3>1. Cardinality(AtPhoto(j) \ {a}) = Cardinality(AtPhoto(j)) - 1
      BY <2>1, <2>4, Countable
    <3>2. Cardinality(AtPhoto(j)') <= Cardinality(AtPhoto(j) \ {a})
      BY <2>3, <2>4, Countable
    <3>3. Cardinality(AtPhoto(j)) \in Nat /\ Cardinality(AtPhoto(j)') \in Nat
      BY <2>3, <2>4, Countable
    <3> QED
      BY <3>1, <3>2, <3>3
  <2>6. /\ Cardinality(ToShow(j)) \in Nat /\ Cardinality(ToShow(j)') \in Nat
        /\ Cardinality(ToShow(j)') <= Cardinality(ToShow(j))
    BY <1>4, <2>4, Countable
  <2>7. pictures'[j] = pictures[j] + 1 /\ stories'[j] = stories[j]
    BY <1>1, <1>3, <1>6
  <2> QED
    BY <1>3, <2>5, <2>6, <2>7 DEF Counts, Count
<1> QED
  BY <1>5, <1>6

\* A step that interrupts an await, whatever it has done by then.
LEMMA InterruptedAwait ==
    ASSUME IInv, Counts, NEW w \in Slots, SideEffect(w), attempts' = attempts,
           NEW x, slot' = [slot EXCEPT ![w] = x],
           x = Idle \/ (x.job = slot[w].job /\ x.attempt = slot[w].attempt),
           x.step \notin BeforeReply \cup {"photo"}
    PROVE  Counts'
<1>1. CASE UNCHANGED <<stories, pictures>>
  BY <1>1, SilentAdvance
<1>2. CASE /\ slot[w].step = "send"
           /\ stories' = [stories EXCEPT ![slot[w].job] = @ + 1]
           /\ pictures' \in {pictures, [pictures EXCEPT ![slot[w].job] = @ + 1]}
  BY <1>2, ShowsStory
<1>3. CASE /\ slot[w].step = "photo"
           /\ pictures' = [pictures EXCEPT ![slot[w].job] = @ + 1]
           /\ stories' = stories
  BY <1>3, ShowsPicture
<1> QED
  BY <1>1, <1>2, <1>3 DEF SideEffect

\* A delivery adds an attempt, and one that may show something.
LEMMA DeliverCounts ==
    ASSUME IInv, Counts, NEW w \in Slots, NEW i \in Jobs, Deliver(w, i) PROVE Counts'
<1> SUFFICES ASSUME NEW j \in Jobs PROVE Count(j)'
  BY DEF Counts
<1> DEFINE x == [job |-> i, attempt |-> attempts[i] + 1, step |-> "story"]
<1>1. \A v \in Slots : slot'[v] = IF v = w THEN x ELSE slot[v]
  BY DEF IInv, TypeOK, Deliver
<1>2. AtPhoto(j)' \subseteq AtPhoto(j)
  BY <1>1 DEF AtPhoto
<1>3. /\ stories' = stories /\ pictures' = pictures
      /\ attempts' = [attempts EXCEPT ![i] = @ + 1]
  BY DEF Deliver, chat
<1>4. attempts \in [Jobs -> Nat] /\ stories \in [Jobs -> Nat] /\ pictures \in [Jobs -> Nat]
  BY DeliveryAssumption DEF IInv, TypeOK, DeliveryAssumption
<1>5. CASE j # i
  <2>1. ToShow(j)' \subseteq ToShow(j)
    BY <1>1, <1>5 DEF ToShow
  <2>2. attempts'[j] = attempts[j]
    BY <1>3, <1>4, <1>5
  <2> QED
    BY <1>2, <1>3, <2>1, <2>2, QuietStep
<1>6. CASE j = i
  <2> DEFINE a == attempts[i] + 1
  <2>1. a \in 1 .. MaxAttempts
    BY DeliveryAssumption DEF IInv, TypeOK, Deliveries, Deliver, DeliveryAssumption
  <2>2. ToShow(j)' \subseteq ToShow(j) \cup {a}
    BY <1>1, <1>6 DEF ToShow
  <2>3. /\ ToShow(j) \in SUBSET (1 .. MaxAttempts) /\ AtPhoto(j) \in SUBSET (1 .. MaxAttempts)
        /\ ToShow(j) \cup {a} \in SUBSET (1 .. MaxAttempts)
    BY <2>1 DEF ToShow, AtPhoto
  <2>4. /\ Cardinality(ToShow(j)) \in Nat /\ Cardinality(ToShow(j)') \in Nat
        /\ Cardinality(ToShow(j)') <= Cardinality(ToShow(j)) + 1
    <3>1. Cardinality(ToShow(j)') <= Cardinality(ToShow(j) \cup {a})
      BY <2>2, <2>3, Countable
    <3>2. Cardinality(ToShow(j) \cup {a}) <= Cardinality(ToShow(j)) + 1
      BY <2>3, Countable
    <3>3. /\ Cardinality(ToShow(j)) \in Nat /\ Cardinality(ToShow(j)') \in Nat
          /\ Cardinality(ToShow(j) \cup {a}) \in Nat
      BY <2>2, <2>3, Countable
    <3> QED
      BY <3>1, <3>2, <3>3
  <2>5. /\ Cardinality(AtPhoto(j)) \in Nat /\ Cardinality(AtPhoto(j)') \in Nat
        /\ Cardinality(AtPhoto(j)') <= Cardinality(AtPhoto(j))
    BY <1>2, <2>3, Countable
  <2>6. attempts'[j] = attempts[j] + 1
    BY <1>3, <1>4, <1>6
  <2> QED
    BY <1>3, <1>4, <2>4, <2>5, <2>6 DEF Counts, Count
<1> QED
  BY <1>5, <1>6

LEMMA StepCounts == IInv /\ Counts /\ [Next]_vars => Counts'
<1> SUFFICES ASSUME IInv, Counts, [Next]_vars PROVE Counts'
  OBVIOUS
<1> DEFINE At(w, s) == [slot[w] EXCEPT !.step = s]
<1>0. ASSUME NEW w \in Slots, NEW s, Goto(w, s)
      PROVE  slot' = [slot EXCEPT ![w] = At(w, s)]
  BY <1>0 DEF Goto
<1>00. ASSUME NEW w \in Slots, slot[w] # Idle, NEW s
       PROVE  At(w, s).job = slot[w].job /\ At(w, s).attempt = slot[w].attempt /\ At(w, s).step = s
  BY <1>00 DEF IInv, TypeOK
<1> HIDE DEF At
<1>1. ASSUME NEW w \in Slots, Generate(w) \/ Save(w) PROVE Counts'
  <2>1. PICK s : Goto(w, s) /\ s \in BeforeReply
    BY <1>1 DEF Generate, Save, BeforeReply
  <2>2. UNCHANGED <<stories, pictures, attempts>> /\ slot[w].step \in BeforeReply /\ slot[w] # Idle
    BY <1>1 DEF Generate, Save, chat, BeforeReply, Idle
  <2>3. s # "photo"
    BY <2>1 DEF BeforeReply
  <2> QED
    BY <1>0, <1>00, <2>1, <2>2, <2>3, SilentAdvance
<1>2. ASSUME NEW w \in Slots, SendCaptioned(w) PROVE Counts'
  <2>1. /\ slot' = [slot EXCEPT ![w] = At(w, "ack")] /\ slot[w] # Idle
        /\ slot[w].step = "send" /\ attempts' = attempts
        /\ stories' = [stories EXCEPT ![slot[w].job] = @ + 1]
        /\ pictures' = [pictures EXCEPT ![slot[w].job] = @ + 1]
    BY <1>0, <1>2 DEF SendCaptioned, Idle
  <2>2. /\ At(w, "ack").job = slot[w].job /\ At(w, "ack").attempt = slot[w].attempt
        /\ At(w, "ack").step \notin BeforeReply /\ At(w, "ack").step # "photo"
    BY <1>00, <2>1 DEF BeforeReply
  <2> QED
    BY ONLY IInv, Counts, w \in Slots, <2>1, <2>2, ShowsStory
<1>3. ASSUME NEW w \in Slots, SendText(w) PROVE Counts'
  <2>1. /\ slot' = [slot EXCEPT ![w] = At(w, "photo")] /\ slot[w] # Idle
        /\ slot[w].step = "send" /\ attempts' = attempts /\ pictures' = pictures
        /\ stories' = [stories EXCEPT ![slot[w].job] = @ + 1]
    BY <1>0, <1>3 DEF SendText, Idle
  <2>2. /\ At(w, "photo").job = slot[w].job /\ At(w, "photo").attempt = slot[w].attempt
        /\ At(w, "photo").step \notin BeforeReply
    BY <1>00, <2>1 DEF BeforeReply
  <2> QED
    BY ONLY IInv, Counts, w \in Slots, <2>1, <2>2, ShowsStory
<1>4. ASSUME NEW w \in Slots, SendPhoto(w) PROVE Counts'
  <2>1. /\ slot' = [slot EXCEPT ![w] = At(w, "ack")] /\ slot[w] # Idle
        /\ slot[w].step = "photo" /\ attempts' = attempts /\ stories' = stories
        /\ pictures' = [pictures EXCEPT ![slot[w].job] = @ + 1]
    BY <1>0, <1>4 DEF SendPhoto, Idle
  <2>2. "ack" \notin BeforeReply \cup {"photo"}
    BY DEF BeforeReply
  <2> QED
    BY <1>00, <2>1, <2>2, ShowsPicture
<1>5. ASSUME NEW w \in Slots, Fail(w) \/ Apologise(w) \/ Timeout(w) \/ Cancel(w) PROVE Counts'
  <2>1. PICK s \in {"apology", "nack"} : Goto(w, s)
    BY <1>5 DEF Fail, Apologise, Timeout, Cancel, Interrupt
  <2>2. SideEffect(w) /\ attempts' = attempts /\ slot[w] # Idle
    BY <1>5 DEF Fail, Apologise, Timeout, Cancel, Interrupt, Idle, PipelineSteps
  <2>3. s \notin BeforeReply \cup {"photo"}
    BY <2>1 DEF BeforeReply
  <2>4. slot' = [slot EXCEPT ![w] = At(w, s)]
    BY <1>0, <2>1
  <2>5. /\ At(w, s).job = slot[w].job /\ At(w, s).attempt = slot[w].attempt
        /\ At(w, s).step = s
    BY <1>00, <2>2
  <2>6. At(w, s).step \notin BeforeReply \cup {"photo"}
    BY <2>3, <2>5
  <2> QED
    BY ONLY IInv, Counts, w \in Slots, <2>2, <2>4, <2>5, <2>6, InterruptedAwait
<1>6. ASSUME NEW w \in Slots, Ack(w) \/ Nack(w) PROVE Counts'
  BY <1>6, SilentAdvance DEF Ack, Nack, Finish, chat
<1>7. ASSUME NEW w \in Slots, Crash(w) PROVE Counts'
  <2>1. Idle.step \notin BeforeReply \cup {"photo"}
    BY DEF Idle, BeforeReply
  <2>2. SideEffect(w) /\ attempts' = attempts /\ slot' = [slot EXCEPT ![w] = Idle]
    BY <1>7 DEF Crash
  <2> QED
    BY ONLY IInv, Counts, w \in Slots, <2>1, <2>2, InterruptedAwait
<1>8. ASSUME NEW w \in Slots, NEW j \in Jobs, Deliver(w, j) PROVE Counts'
  BY <1>8, DeliverCounts
<1>9. ASSUME UNCHANGED <<slot, stories, pictures, attempts>> PROVE Counts'
  BY <1>9 DEF Counts, Count, ToShow, AtPhoto
<1>10. ASSUME NEW j \in Jobs, Publish(j) \/ LeaseExpires(j) \/ LeaseLost(j) \/ Expire(j)
       PROVE  Counts'
  BY <1>9, <1>10 DEF Publish, LeaseExpires, LeaseLost, Expire, chat
<1>11. ASSUME NEW w \in Slots, Stop(w) \/ Start(w) PROVE Counts'
  BY <1>9, <1>11 DEF Stop, Start, chat
<1>12. CASE UNCHANGED vars
  BY <1>9, <1>12 DEF vars, chat
<1> QED
  BY <1>1, <1>2, <1>3, <1>4, <1>5, <1>6, <1>7, <1>8, <1>10, <1>11, <1>12 DEF Next, SteadyNext, Advance

\* A story is repeated at most once per attempt, and no picture comes without
\* its story, however attempts overlap and whatever is interrupted.
THEOREM RepliesAreBounded == Spec => []RepliesBounded
<1>1. Init => Counts
  BY InitCounts
<1>2. IInv /\ Counts /\ [Next]_vars => Counts'
  BY StepCounts
<1>3. IInv /\ Counts => RepliesBounded
  <2> SUFFICES ASSUME IInv, Counts, NEW j \in Jobs
               PROVE  pictures[j] <= stories[j] /\ stories[j] <= attempts[j]
    BY DEF RepliesBounded
  <2>1. stories[j] \in Nat /\ pictures[j] \in Nat /\ attempts[j] \in Nat
    BY DeliveryAssumption DEF IInv, TypeOK, DeliveryAssumption
  <2>2. ToShow(j) \in SUBSET (1 .. MaxAttempts) /\ AtPhoto(j) \in SUBSET (1 .. MaxAttempts)
    BY DEF ToShow, AtPhoto
  <2>3. Cardinality(ToShow(j)) \in Nat /\ Cardinality(AtPhoto(j)) \in Nat
    BY <2>2, Countable
  <2> QED
    BY <2>1, <2>3 DEF Counts, Count
<1> QED
  BY <1>1, <1>2, <1>3, Invariance, PTL DEF Spec

-----------------------------------------------------------------------------
(* JobDelivery implements the safety part of JobContract.                  *)

LEMMA InitContract == Init => Contract!Init
  BY DEF Init, Contract!Init, status, replied, apologised

\* What a side effect is in the contract, when sub does not change.
LEMMA ChatContract ==
    ASSUME IInv, NEW w \in Slots, Working(w), UNCHANGED sub,
           \/ SideEffect(w)
           \/ /\ stories' \in {stories, [stories EXCEPT ![slot[w].job] = @ + 1]}
              /\ pictures' \in {pictures, [pictures EXCEPT ![slot[w].job] = @ + 1]}
              /\ UNCHANGED apologies
    PROVE  [Contract!Next]_(Contract!vars)
<1> DEFINE j == slot[w].job
<1>1. j \in Jobs /\ sub[j] # "absent"
  BY DEF IInv, TypeOK, Deliveries, Working, Idle
<1>2. status[j] # "absent" /\ status' = status
  BY <1>1 DEF status, IInv, TypeOK
<1>3. CASE UNCHANGED apologies
  <2>1. /\ stories' \in {stories, [stories EXCEPT ![j] = @ + 1]}
        /\ pictures' \in {pictures, [pictures EXCEPT ![j] = @ + 1]}
    BY <1>3 DEF SideEffect
  <2>2. apologised' = apologised
    BY <1>3 DEF apologised
  <2>3. \/ replied' = replied
        \/ j \notin replied /\ replied' = replied \cup {j}
    BY <1>1, <2>1 DEF replied, IInv, TypeOK
  <2>4. Contract!Reply(j) \/ UNCHANGED Contract!vars
    BY <1>2, <2>2, <2>3 DEF Contract!Reply, Contract!vars
  <2> QED
    BY <1>1, <2>4 DEF Contract!Next
<1>4. CASE apologies' = [apologies EXCEPT ![j] = @ + 1] /\ UNCHANGED <<stories, pictures>>
  <2>1. replied' = replied
    BY <1>4 DEF replied
  <2>2. \/ apologised' = apologised
        \/ j \notin apologised /\ apologised' = apologised \cup {j}
    BY <1>1, <1>4 DEF apologised, IInv, TypeOK
  <2>3. Contract!Apologise(j) \/ UNCHANGED Contract!vars
    BY <1>2, <2>1, <2>2 DEF Contract!Apologise, Contract!vars
  <2> QED
    BY <1>1, <2>3 DEF Contract!Next
<1> QED
  BY <1>3, <1>4 DEF SideEffect

\* What a change of sub is in the contract, when the chat does not change.
LEMMA SubContract ==
    ASSUME IInv, NEW j \in Jobs, UNCHANGED <<stories, pictures, apologies>>,
           \/ UNCHANGED sub
           \/ sub[j] = "absent" /\ sub' = [sub EXCEPT ![j] = "ready"]
           \/ sub[j] = "ready" /\ sub' = [sub EXCEPT ![j] = "out"]
           \/ sub[j] = "ready" /\ sub' = [sub EXCEPT ![j] = "expired"]
           \/ sub[j] = "out" /\ Requeue(j)
           \/ /\ sub[j] \in {"ready", "out"} /\ sub' = [sub EXCEPT ![j] = "acked"]
              /\ stories[j] > 0 /\ pictures[j] > 0
    PROVE  [Contract!Next]_(Contract!vars)
<1>1. replied' = replied /\ apologised' = apologised
  BY DEF replied, apologised
<1>2. \/ status' = status
      \/ status[j] = "absent" /\ status' = [status EXCEPT ![j] = "queued"]
      \/ status[j] = "queued" /\ status' = [status EXCEPT ![j] = "lost"]
      \/ /\ status[j] = "queued" /\ status' = [status EXCEPT ![j] = "done"]
         /\ j \in replied
  <2>1. \/ sub' = sub
        \/ sub[j] = "absent" /\ sub' = [sub EXCEPT ![j] = "ready"]
        \/ sub[j] \in {"ready", "out"} /\ \E x \in {"ready", "out", "dead", "expired"} :
                                            sub' = [sub EXCEPT ![j] = x]
        \/ /\ sub[j] \in {"ready", "out"} /\ sub' = [sub EXCEPT ![j] = "acked"]
           /\ j \in replied
    BY DEF Requeue, replied
  <2>2. CASE sub' = sub
    BY <2>2 DEF status
  <2>3. CASE sub[j] = "absent" /\ sub' = [sub EXCEPT ![j] = "ready"]
    BY <2>3 DEF status, IInv, TypeOK
  <2>4. ASSUME sub[j] \in {"ready", "out"}, NEW x \in {"ready", "out", "dead", "expired"},
               sub' = [sub EXCEPT ![j] = x]
        PROVE  \/ status' = status
               \/ status[j] = "queued" /\ status' = [status EXCEPT ![j] = "lost"]
    <3>1. CASE x \in {"ready", "out"}
      BY <2>4, <3>1 DEF status, IInv, TypeOK
    <3>2. CASE x \in {"dead", "expired"}
      BY <2>4, <3>2 DEF status, IInv, TypeOK
    <3> QED
      BY <3>1, <3>2
  <2>5. CASE /\ sub[j] \in {"ready", "out"} /\ sub' = [sub EXCEPT ![j] = "acked"]
             /\ j \in replied
    BY <2>5 DEF status, IInv, TypeOK
  <2> QED
    BY <2>1, <2>2, <2>3, <2>4, <2>5
<1>3. \/ UNCHANGED Contract!vars
      \/ Contract!Accept(j) \/ Contract!GiveUp(j) \/ Contract!Complete(j)
  BY <1>1, <1>2 DEF Contract!vars, Contract!Accept, Contract!GiveUp, Contract!Complete
<1> QED
  BY <1>3 DEF Contract!Next

LEMMA StepContract == IInv /\ [Next]_vars => [Contract!Next]_(Contract!vars)
<1> SUFFICES ASSUME IInv, [Next]_vars PROVE [Contract!Next]_(Contract!vars)
  OBVIOUS
<1>1. ASSUME NEW j \in Jobs, Publish(j) \/ LeaseExpires(j) \/ LeaseLost(j) \/ Expire(j)
      PROVE  [Contract!Next]_(Contract!vars)
  BY <1>1, SubContract DEF Publish, LeaseExpires, LeaseLost, Expire, chat
<1>2. ASSUME NEW w \in Slots, NEW j \in Jobs, Deliver(w, j)
      PROVE  [Contract!Next]_(Contract!vars)
  BY <1>2, SubContract DEF Deliver, chat
<1>3. ASSUME NEW w \in Slots, \/ SendCaptioned(w) \/ SendText(w) \/ SendPhoto(w)
                              \/ Fail(w) \/ Apologise(w) \/ Timeout(w) \/ Cancel(w)
      PROVE  [Contract!Next]_(Contract!vars)
  <2>1. Working(w) /\ UNCHANGED sub
    BY <1>3 DEF Working, PipelineSteps, SendCaptioned, SendText, SendPhoto, Fail,
                Apologise, Timeout, Cancel, Interrupt
  <2>2. \/ SideEffect(w)
        \/ /\ stories' \in {stories, [stories EXCEPT ![slot[w].job] = @ + 1]}
           /\ pictures' \in {pictures, [pictures EXCEPT ![slot[w].job] = @ + 1]}
           /\ UNCHANGED apologies
    BY <1>3 DEF SendCaptioned, SendText, SendPhoto, Fail, Apologise, Timeout, Cancel,
                Interrupt
  <2> QED
    BY <2>1, <2>2, ChatContract
<1>4. ASSUME NEW w \in Slots, Crash(w)
      PROVE  [Contract!Next]_(Contract!vars)
  <2>1. CASE Working(w)
    BY <1>4, <2>1, ChatContract DEF Crash
  <2>2. CASE ~Working(w)
    <3>1. UNCHANGED <<sub, stories, pictures, apologies>>
      BY <1>4, <2>2 DEF Crash, SideEffect, Working
    <3> QED
      BY <3>1 DEF Contract!vars, status, replied, apologised
  <2> QED
    BY <2>1, <2>2
<1>5. ASSUME NEW w \in Slots, Ack(w)
      PROVE  [Contract!Next]_(Contract!vars)
  <2>1. slot[w].job \in Jobs /\ Working(w)
    BY <1>5 DEF Ack, Working, IInv, TypeOK, Idle
  <2>2. stories[slot[w].job] > 0 /\ pictures[slot[w].job] > 0
    BY <1>5, <2>1 DEF Ack, IInv, Progress
  <2>3. \/ UNCHANGED sub
        \/ /\ sub[slot[w].job] \in {"ready", "out"}
           /\ sub' = [sub EXCEPT ![slot[w].job] = "acked"]
    BY <1>5, <2>1 DEF Ack, IInv, TypeOK
  <2> QED
    BY <1>5, <2>1, <2>2, <2>3, SubContract DEF Ack, chat
<1>6. ASSUME NEW w \in Slots, Nack(w)
      PROVE  [Contract!Next]_(Contract!vars)
  <2>1. slot[w].job \in Jobs
    BY <1>6 DEF Nack, IInv, TypeOK, Idle
  <2> QED
    BY <1>6, <2>1, SubContract DEF Nack, chat
<1>7. ASSUME UNCHANGED <<sub, stories, pictures, apologies>>
      PROVE  [Contract!Next]_(Contract!vars)
  BY <1>7 DEF Contract!vars, status, replied, apologised
<1>8. ASSUME NEW w \in Slots, Generate(w) \/ Save(w) \/ Stop(w) \/ Start(w)
      PROVE  [Contract!Next]_(Contract!vars)
  BY <1>7, <1>8 DEF Generate, Save, Stop, Start, chat
<1>9. ASSUME NEW w \in Slots, Advance(w)
      PROVE  [Contract!Next]_(Contract!vars)
  BY <1>3, <1>5, <1>6, <1>8, <1>9 DEF Advance
<1>10. CASE UNCHANGED vars
  BY <1>7, <1>10 DEF vars, chat
<1> QED
  BY <1>1, <1>2, <1>3, <1>4, <1>8, <1>9, <1>10 DEF Next, SteadyNext

\* Every behaviour of the delivery machinery is one the contract allows.
THEOREM Implementation == Spec => Contract!Spec
<1>1. Init => Contract!Init
  BY InitContract
<1>2. IInv /\ [Next]_vars => [Contract!Next]_(Contract!vars)
  BY StepContract
<1> QED
  BY <1>1, <1>2, Invariance, PTL DEF Spec, Contract!Spec

-----------------------------------------------------------------------------
\* A worker's delivery is the current one, and its lease holds.
LeaseHeld ==
    \A w \in Slots : Working(w) =>
        sub[slot[w].job] = "out" /\ slot[w].attempt = attempts[slot[w].job]

LEMMA LeaseHeldStep ==
    ASSUME JobTimeout <= LeaseSeconds, IInv, LeaseHeld, [SteadyNext]_vars
    PROVE  LeaseHeld'
<1> USE DeliveryAssumption
<1>1. ASSUME NEW j \in Jobs, Publish(j) \/ LeaseExpires(j) \/ Expire(j)
      PROVE  LeaseHeld'
  <2>1. \A w \in Slots : Working(w) => slot[w].job \in Jobs
    BY DEF IInv, TypeOK, Working, Idle
  <2>2. \A w \in Slots : Working(w) => slot[w].job # j
    BY <1>1, <2>1 DEF LeaseHeld, Publish, LeaseExpires, WorkedOn, Expire
  <2>3. UNCHANGED <<slot, attempts>> /\ \A i \in Jobs \ {j} : sub'[i] = sub[i]
    BY <1>1 DEF Publish, LeaseExpires, Expire, Requeue, IInv, TypeOK
  <2> QED
    BY <2>1, <2>2, <2>3 DEF LeaseHeld, Working
<1>2. ASSUME NEW w \in Slots, NEW j \in Jobs, Deliver(w, j)
      PROVE  LeaseHeld'
  <2>1. \A v \in Slots : Working(v) => slot[v].job \in Jobs \ {j}
    BY <1>2 DEF Deliver, LeaseHeld, IInv, TypeOK, Working, Idle
  <2>2. \A v \in Slots \ {w} : slot'[v] = slot[v]
    BY <1>2 DEF Deliver, IInv, TypeOK
  <2>3. slot'[w].job = j /\ slot'[w].attempt = attempts'[j] /\ sub'[j] = "out"
    BY <1>2 DEF Deliver, IInv, TypeOK
  <2>4. \A i \in Jobs \ {j} : sub'[i] = sub[i] /\ attempts'[i] = attempts[i]
    BY <1>2 DEF Deliver, IInv, TypeOK
  <2> QED
    BY <2>1, <2>2, <2>3, <2>4 DEF LeaseHeld, Working
<1>3. ASSUME NEW w \in Slots, Ack(w) \/ Nack(w)
      PROVE  LeaseHeld'
  <2>1. Working(w) /\ slot[w].job \in Jobs /\ slot' = [slot EXCEPT ![w] = Idle]
    BY <1>3 DEF Ack, Nack, Finish, Working, IInv, TypeOK, Idle
  <2>2. \A v \in Slots \ {w} : Working(v) => slot[v].job \in Jobs \ {slot[w].job}
    BY <2>1 DEF LeaseHeld, IInv, Deliveries, TypeOK, Working, Idle
  <2>3. attempts' = attempts /\ \A i \in Jobs \ {slot[w].job} : sub'[i] = sub[i]
    BY <1>3, <2>1 DEF Ack, Nack, Requeue, IInv, TypeOK
  <2>4. \A v \in Slots \ {w} : slot'[v] = slot[v]
    BY <2>1 DEF IInv, TypeOK
  <2>5. slot'[w].step = "idle"
    BY <2>1 DEF IInv, TypeOK, Idle
  <2> QED
    BY <2>2, <2>3, <2>4, <2>5 DEF LeaseHeld, Working
<1>4. ASSUME NEW w \in Slots, UNCHANGED <<sub, attempts>>, slot[w].step \in PipelineSteps,
             \E s \in Steps : Goto(w, s)
      PROVE  LeaseHeld'
  <2>1. PICK s \in Steps : Goto(w, s)
    BY <1>4
  <2>2. slot'[w].job = slot[w].job /\ slot'[w].attempt = slot[w].attempt /\ Working(w)
    BY <1>4, <2>1 DEF Goto, IInv, TypeOK, Working, Idle, PipelineSteps
  <2>3. \A v \in Slots \ {w} : slot'[v] = slot[v]
    BY <2>1 DEF Goto, IInv, TypeOK
  <2> QED
    BY <1>4, <2>2, <2>3 DEF LeaseHeld, Working
<1>5. ASSUME NEW w \in Slots, \/ Generate(w) \/ Save(w) \/ SendCaptioned(w) \/ SendText(w)
                              \/ SendPhoto(w) \/ Fail(w) \/ Apologise(w) \/ Timeout(w)
                              \/ Cancel(w)
      PROVE  LeaseHeld'
  <2>1. UNCHANGED <<sub, attempts>> /\ slot[w].step \in PipelineSteps
    BY <1>5 DEF Generate, Save, SendCaptioned, SendText, SendPhoto, Fail, Apologise,
                Timeout, Cancel, Interrupt, PipelineSteps
  <2>2. \E s \in Steps : Goto(w, s)
    BY <1>5 DEF Generate, Save, SendCaptioned, SendText, SendPhoto, Fail, Apologise,
                Timeout, Cancel, Interrupt, Steps, PipelineSteps
  <2> QED
    BY <1>4, <2>1, <2>2
<1>6. ASSUME NEW w \in Slots, Crash(w)
      PROVE  LeaseHeld'
  <2>1. slot'[w].step = "idle" /\ \A v \in Slots \ {w} : slot'[v] = slot[v]
    BY <1>6 DEF Crash, IInv, TypeOK, Idle
  <2> QED
    BY <1>6, <2>1 DEF Crash, LeaseHeld, Working
<1>7. ASSUME UNCHANGED <<sub, attempts, slot>>
      PROVE  LeaseHeld'
  BY <1>7 DEF LeaseHeld, Working
<1>8. ASSUME NEW w \in Slots, Stop(w) \/ Start(w)
      PROVE  LeaseHeld'
  BY <1>7, <1>8 DEF Stop, Start
<1>9. ASSUME NEW w \in Slots, Advance(w)
      PROVE  LeaseHeld'
  BY <1>3, <1>5, <1>9 DEF Advance
<1>10. CASE UNCHANGED vars
  BY <1>7, <1>10 DEF vars
<1> QED
  BY <1>1, <1>2, <1>5, <1>6, <1>8, <1>9, <1>10 DEF SteadyNext

\* While no stream terminates, a lease as long as the time budget is all it
\* takes: no job ever runs twice at the same time, whatever crashes, is lost, is
\* nacked or redelivered. (A stream that terminates is the other cause.)
THEOREM LongLeaseSuffices ==
    ASSUME JobTimeout <= LeaseSeconds
    PROVE  SteadySpec => []NoConcurrentWork
<1>1. Init => LeaseHeld /\ IInv
  BY InitIInv DEF Init, LeaseHeld, Working, Idle
<1>2. LeaseHeld /\ IInv /\ [SteadyNext]_vars => (LeaseHeld /\ IInv)'
  BY LeaseHeldStep, StepIInv DEF Next
<1>3. LeaseHeld /\ IInv => NoConcurrentWork
  <2>1. SUFFICES ASSUME IInv, LeaseHeld, NEW v \in Slots, NEW w \in Slots,
                        v # w, slot[v].job # NoJob, slot[v].job = slot[w].job
                 PROVE  FALSE
    BY DEF NoConcurrentWork
  <2>2. Working(v) /\ Working(w)
    BY <2>1, DeliveryAssumption DEF IInv, TypeOK, Working, Idle, Steps, PipelineSteps
  <2> QED
    BY <2>1, <2>2 DEF LeaseHeld, IInv, Deliveries
<1> QED
  BY <1>1, <1>2, <1>3, PTL DEF SteadySpec
=============================================================================
