--------------------------- MODULE Deployment_proof -------------------------
(***************************************************************************)
(* Proofs about what the charts configure, for all values of it: how pods  *)
(* replace each other (Rollout), how a process ends (Shutdown), and how    *)
(* its probe and its supervisor get along (StreamProbe).                   *)
(***************************************************************************)
EXTENDS Rollout, Shutdown, StreamProbe, FiniteSetTheorems, TLAPS

-----------------------------------------------------------------------------
(* Rollout, for any pods, any number of releases, whichever of them are    *)
(* broken, and any number of crashes: a worker stays attached to the       *)
(* queue, one web pod runs, and no pod keeps an old registry. The          *)
(* inductive invariant follows a release from the templates to the pods.   *)

\* helm's bookkeeping: ConfigMaps and templates change together, to a release
\* never tried before or back to the last good one.
Bookkeeping ==
    /\ config = target
    /\ good <= latest
    /\ \A p \in Pods : image[p] <= latest
    /\ helm \in {"idle", "rollback"} => target = good
    /\ helm = "upgrading" => target = latest /\ good < latest

\* Recreate: one web pod that is not gone.
WebAlone ==
    \A p, q \in WebPods : (state[p] # "gone" /\ state[q] # "gone") => p = q

\* A surge takes place once for a template.
OnePerTemplate ==
    \A T \in Tiers : \A p, q \in Alive(T) : image[p] = image[q] => p = q

\* A pod of the running template, or of the one to return to, has its registry.
CastMatches ==
    \A p \in Pods : (state[p] = "up" /\ image[p] \in {good, target}) => cast[p] = image[p]

\* Nothing is left half done when helm is idle, so that no pod of the last good
\* release can read the ConfigMap of a release in progress.
Settled ==
    /\ helm = "idle" => Complete
    /\ helm = "upgrading" => \A p \in Pods : state[p] = "starting" => image[p] # good

\* As long as no container has died by itself.
Undisturbed == crashes = 0 => CastMatches /\ Settled

IInv ==
    /\ TypeOK
    /\ Bookkeeping
    /\ WebAlone
    /\ OnePerTemplate
    /\ QueueAttended
    /\ Undisturbed

LEMMA InitIInv == Init => IInv
<1> SUFFICES ASSUME Init PROVE IInv
  OBVIOUS
<1> USE RolloutAssumption DEF Init
<1>1. PICK w \in WorkerPods, v \in WebPods :
          state = [p \in Pods |-> IF p \in {w, v} THEN "up" ELSE "gone"]
  OBVIOUS
<1>2. w \in Pods /\ v \in Pods /\ w \notin WebPods /\ v \notin WorkerPods
  BY DEF RolloutAssumption, Pods
<1>3. TypeOK
  BY <1>1 DEF TypeOK, RolloutAssumption
<1>4. Bookkeeping
  BY DEF Bookkeeping
<1>5. /\ \A p \in WorkerPods : state[p] # "gone" <=> p = w
      /\ \A p \in WebPods : state[p] # "gone" <=> p = v
      /\ state[w] = "up" /\ state[v] = "up"
  BY <1>1, <1>2 DEF Pods, RolloutAssumption
<1>6. WebAlone /\ OnePerTemplate
  BY <1>5 DEF WebAlone, OnePerTemplate, Tiers, Alive
<1>7. QueueAttended
  BY <1>5 DEF QueueAttended, Up
<1>8. Undisturbed
  <2>1. CastMatches
    BY DEF CastMatches
  <2>2. Complete
    BY <1>2, <1>5 DEF Complete, Tiers, Up, Alive, FromTemplate, Pods
  <2> QED
    BY <2>1, <2>2 DEF Undisturbed, Settled
<1> QED
  BY <1>3, <1>4, <1>6, <1>7, <1>8 DEF IInv

\* When helm is idle and nothing has died, all pods that are alive are up and of
\* the template.
LEMMA AllUp ==
    ASSUME IInv, helm = "idle", crashes = 0, NEW p \in Pods, state[p] \in {"starting", "up"}
    PROVE  state[p] = "up" /\ image[p] = target
<1>1. PICK T \in Tiers : p \in T
  BY DEF Pods, Tiers
<1>2. Complete
  BY DEF IInv, Undisturbed, Settled
<1>3. Up(T) # {} /\ Alive(T) = FromTemplate(T)
  BY <1>2 DEF Complete
<1>4. PICK q \in T : state[q] = "up"
  BY <1>3 DEF Up
<1>5. p \in Alive(T) /\ q \in Alive(T) /\ image[p] = target /\ image[q] = target
  BY <1>1, <1>3, <1>4 DEF Alive, FromTemplate
<1>6. p = q
  BY <1>5 DEF IInv, OnePerTemplate
<1> QED
  BY <1>4, <1>5, <1>6

LEMMA StartStep == ASSUME IInv, NEW p \in Pods, Start(p) PROVE IInv'
<1> USE RolloutAssumption DEF IInv, Start, release
<1>1. TypeOK'
  BY DEF TypeOK
<1>2. Bookkeeping'
  BY DEF Bookkeeping
<1>3. \A q \in Pods : q # p => state'[q] = state[q] /\ cast'[q] = cast[q]
  BY DEF TypeOK
<1>4. state'[p] = "up" /\ cast'[p] = config
  BY DEF TypeOK
<1>5. WebAlone'
  BY <1>3 DEF WebAlone, Pods
<1>6. \A T \in Tiers : Alive(T)' = Alive(T) /\ Up(T) \subseteq Up(T)'
  BY <1>3, <1>4 DEF Alive, Up, Tiers, Pods
<1>7. OnePerTemplate'
  BY <1>6 DEF OnePerTemplate
<1>8. QueueAttended'
  BY <1>6 DEF QueueAttended, Tiers
<1>9. ASSUME crashes = 0 PROVE CastMatches' /\ Settled'
  <2>1. CastMatches'
    <3> SUFFICES ASSUME NEW q \in Pods, state'[q] = "up", image[q] \in {good, target}
                 PROVE  cast'[q] = image[q]
      BY DEF CastMatches
    <3>1. CASE q # p
      BY <1>3, <1>9, <3>1 DEF Undisturbed, CastMatches
    <3>2. CASE q = p
      <4>1. helm \in {"idle", "rollback"} \/ helm = "upgrading"
        BY DEF TypeOK
      <4>2. image[p] = target
        BY <1>9, <3>2, <4>1 DEF Undisturbed, Settled, Bookkeeping
      <4> QED
        BY <1>4, <3>2, <4>2 DEF Bookkeeping
    <3> QED
      BY <3>1, <3>2
  <2>2. helm = "idle" => Complete'
    <3> SUFFICES ASSUME helm = "idle", NEW T \in Tiers
                 PROVE  Up(T)' # {} /\ Alive(T)' = FromTemplate(T)'
      BY DEF Complete
    <3>1. Up(T) # {} /\ Alive(T) = FromTemplate(T)
      BY <1>9 DEF Undisturbed, Settled, Complete
    <3>2. FromTemplate(T)' = FromTemplate(T)
      BY <1>6 DEF FromTemplate
    <3> QED
      BY <1>6, <3>1, <3>2
  <2>3. \A q \in Pods : state'[q] = "starting" => state[q] = "starting"
    BY <1>3, <1>4
  <2> QED
    BY <1>9, <2>1, <2>2, <2>3 DEF Undisturbed, Settled
<1> QED
  BY <1>1, <1>2, <1>5, <1>7, <1>8, <1>9 DEF Undisturbed

LEMMA CrashStep == ASSUME IInv, NEW p \in Pods, Crash(p) PROVE IInv'
<1> USE RolloutAssumption DEF IInv, Crash, release
<1>1. TypeOK'
  BY DEF TypeOK, RolloutAssumption
<1>2. Bookkeeping'
  BY DEF Bookkeeping
<1>3. crashes' # 0
  BY DEF TypeOK, RolloutAssumption
<1>4. \A q \in Pods : (state'[q] = "gone" <=> state[q] = "gone")
  BY DEF TypeOK
<1>5. WebAlone'
  BY <1>4 DEF WebAlone, Pods
<1>6. \A T \in Tiers : Alive(T)' = Alive(T)
  BY DEF Alive, Tiers, Pods, TypeOK
<1>7. OnePerTemplate'
  BY <1>6 DEF OnePerTemplate
<1> QED
  BY <1>1, <1>2, <1>3, <1>5, <1>7 DEF QueueAttended, Undisturbed

\* A pod is created in a tier that has none of the template, or none at all;
\* that never happens while helm is idle and nothing has died.
LEMMA CreateStep ==
    ASSUME IInv, NEW T \in Tiers, NEW p \in T, state[p] = "gone", Create(p),
           FromTemplate(T) = {},
           T = WebPods => \A q \in WebPods : state[q] = "gone"
    PROVE  IInv'
<1> USE RolloutAssumption DEF IInv, Create, release
<1>0. p \in Pods /\ T \subseteq Pods
  BY DEF Tiers, Pods
<1>1. TypeOK'
  BY <1>0 DEF TypeOK
<1>2. /\ \A q \in Pods : q # p => state'[q] = state[q] /\ image'[q] = image[q]
      /\ state'[p] = "starting" /\ image'[p] = target
  BY <1>0 DEF TypeOK
<1>3. Bookkeeping'
  <2>1. target <= latest
    BY DEF TypeOK, Bookkeeping, RolloutAssumption, Releases
  <2> QED
    BY <1>2, <2>1 DEF Bookkeeping
<1>4. WebAlone'
  <2>1. CASE T = WebPods
    BY <1>2, <2>1 DEF WebAlone, Pods
  <2>2. CASE T = WorkerPods
    BY <1>2, <2>2 DEF WebAlone, Pods, RolloutAssumption
  <2> QED
    BY <2>1, <2>2 DEF Tiers
<1>5. OnePerTemplate'
  <2> SUFFICES ASSUME NEW S \in Tiers, NEW q \in S, NEW r \in S,
                      state'[q] \in {"starting", "up"}, state'[r] \in {"starting", "up"},
                      image'[q] = image'[r]
               PROVE  q = r
    BY DEF OnePerTemplate, Alive
  <2>0. q \in Pods /\ r \in Pods
    BY DEF Tiers, Pods
  <2>1. CASE q # p /\ r # p
    BY <1>2, <2>0, <2>1 DEF OnePerTemplate, Alive
  <2>2. CASE q = p \/ r = p
    <3>1. S = T
      BY <2>2 DEF Tiers, RolloutAssumption
    <3>2. \A o \in T : state[o] \in {"starting", "up"} => image[o] # target
      BY DEF FromTemplate, Alive
    <3> QED
      BY <1>2, <2>0, <2>2, <3>1, <3>2
  <2> QED
    BY <2>1, <2>2
<1>6. QueueAttended'
  <2>1. \A q \in Pods : state[q] = "up" => state'[q] = "up"
    BY <1>0, <1>2
  <2> QED
    BY <2>1 DEF QueueAttended, Up, Pods
<1>7. ASSUME crashes = 0 PROVE CastMatches' /\ Settled'
  <2>1. CastMatches'
    BY <1>2, <1>7 DEF CastMatches, Undisturbed
  <2>2. helm # "idle"
    <3> SUFFICES ASSUME helm = "idle" PROVE FALSE
      OBVIOUS
    <3>1. Up(T) # {} /\ Alive(T) = FromTemplate(T)
      BY <1>7 DEF Undisturbed, Settled, Complete
    <3> QED
      BY <3>1 DEF Up, Alive
  <2>3. helm = "upgrading" => target # good
    BY DEF Bookkeeping, TypeOK, Releases, RolloutAssumption
  <2> QED
    BY <1>2, <1>7, <2>1, <2>2, <2>3 DEF Settled, Undisturbed
<1> QED
  BY <1>1, <1>3, <1>4, <1>5, <1>6, <1>7 DEF Undisturbed

\* A pod that is not of the template terminates. The last worker that is up is
\* never one of those.
LEMMA TerminateStep ==
    ASSUME IInv, NEW T \in Tiers, NEW p \in Alive(T) \ FromTemplate(T), Terminate(p),
           T = WorkerPods => Up(FromTemplate(WorkerPods)) # {}
    PROVE  IInv'
<1> USE RolloutAssumption DEF IInv, Terminate, release
<1>0. p \in T /\ p \in Pods /\ state[p] \in {"starting", "up"} /\ image[p] # target
  BY DEF Alive, FromTemplate, Tiers, Pods
<1>1. TypeOK'
  BY <1>0 DEF TypeOK
<1>2. Bookkeeping'
  BY DEF Bookkeeping
<1>3. /\ \A q \in Pods : q # p => state'[q] = state[q]
      /\ state'[p] = "terminating"
  BY <1>0 DEF TypeOK
<1>4. WebAlone'
  BY <1>0, <1>3 DEF WebAlone, Pods
<1>5. \A S \in Tiers : Alive(S)' \subseteq Alive(S)
  BY <1>0, <1>3 DEF Alive, Tiers, Pods
<1>6. OnePerTemplate'
  BY <1>5 DEF OnePerTemplate
<1>7. QueueAttended'
  <2>1. CASE T = WorkerPods
    <3>1. PICK q \in FromTemplate(WorkerPods) : state[q] = "up"
      BY <2>1 DEF Up
    <3>2. q \in WorkerPods /\ q \in Pods /\ image[q] = target
      BY DEF FromTemplate, Alive, Pods
    <3>3. state'[q] = "up"
      BY <1>0, <1>3, <3>1, <3>2
    <3> QED
      BY <3>2, <3>3 DEF QueueAttended, Up
  <2>2. CASE T = WebPods
    <3>1. p \notin WorkerPods
      BY <1>0, <2>2 DEF RolloutAssumption
    <3> QED
      BY <1>3, <3>1 DEF QueueAttended, Up, Pods
  <2> QED
    BY <2>1, <2>2 DEF Tiers
<1>8. ASSUME crashes = 0 PROVE CastMatches' /\ Settled'
  <2>1. CastMatches'
    BY <1>3, <1>8 DEF CastMatches, Undisturbed
  <2>2. helm # "idle"
    <3> SUFFICES ASSUME helm = "idle" PROVE FALSE
      OBVIOUS
    <3>1. Alive(T) = FromTemplate(T)
      BY <1>8 DEF Undisturbed, Settled, Complete
    <3> QED
      BY <3>1
  <2>3. \A q \in Pods : state'[q] = "starting" => state[q] = "starting"
    BY <1>3
  <2> QED
    BY <1>8, <2>1, <2>2, <2>3 DEF Settled, Undisturbed
<1> QED
  BY <1>1, <1>2, <1>4, <1>6, <1>7, <1>8 DEF Undisturbed

LEMMA GoneStep == ASSUME IInv, NEW p \in Pods, Gone(p) PROVE IInv'
<1> USE RolloutAssumption DEF IInv, Gone, release
<1>1. TypeOK'
  BY DEF TypeOK
<1>2. Bookkeeping'
  BY DEF Bookkeeping
<1>3. /\ \A q \in Pods : q # p => state'[q] = state[q]
      /\ state'[p] = "gone" /\ state[p] = "terminating"
  BY DEF TypeOK
<1>4. WebAlone'
  BY <1>3 DEF WebAlone, Pods
<1>5. \A S \in Tiers : Alive(S)' = Alive(S) /\ Up(S)' = Up(S)
  BY <1>3 DEF Alive, Up, Tiers, Pods
<1>6. OnePerTemplate'
  BY <1>5 DEF OnePerTemplate
<1>7. QueueAttended'
  BY <1>5 DEF QueueAttended, Tiers
<1>8. ASSUME crashes = 0 PROVE CastMatches' /\ Settled'
  <2>1. CastMatches'
    BY <1>3, <1>8 DEF CastMatches, Undisturbed
  <2>2. helm = "idle" => Complete'
    BY <1>5, <1>8 DEF Undisturbed, Settled, Complete, FromTemplate
  <2>3. \A q \in Pods : state'[q] = "starting" => state[q] = "starting"
    BY <1>3
  <2> QED
    BY <1>8, <2>1, <2>2, <2>3 DEF Settled, Undisturbed
<1> QED
  BY <1>1, <1>2, <1>4, <1>6, <1>7, <1>8 DEF Undisturbed

\* A new release: no pod has its template yet, and none is starting.
LEMMA UpgradeStep == ASSUME IInv, Upgrade PROVE IInv'
<1> USE RolloutAssumption DEF Upgrade
<1>1. TypeOK'
  BY DEF IInv, TypeOK
<1>2. latest \in Nat /\ good \in Nat /\ image \in [Pods -> Nat]
  BY DEF IInv, TypeOK, Releases, RolloutAssumption
<1>3. Bookkeeping'
  BY <1>2 DEF IInv, Bookkeeping
<1>4. \A T \in Tiers : Alive(T)' = Alive(T) /\ Up(T)' = Up(T)
  BY DEF Alive, Up
<1>5. WebAlone' /\ OnePerTemplate' /\ QueueAttended'
  BY <1>4 DEF IInv, WebAlone, OnePerTemplate, QueueAttended, Tiers
<1>6. ASSUME crashes = 0 PROVE CastMatches' /\ Settled'
  <2>1. CastMatches'
    BY <1>2, <1>6 DEF IInv, Undisturbed, CastMatches, Bookkeeping
  <2>2. \A p \in Pods : state[p] # "starting"
    BY <1>6, AllUp
  <2> QED
    BY <2>1, <2>2 DEF Settled
<1> QED
  BY <1>1, <1>3, <1>5, <1>6 DEF IInv, Undisturbed

LEMMA FinishedStep == ASSUME IInv, Finished PROVE IInv'
<1> USE RolloutAssumption DEF Finished
<1>1. TypeOK'
  BY DEF IInv, TypeOK
<1>2. Bookkeeping'
  BY DEF IInv, Bookkeeping, TypeOK, Releases, RolloutAssumption
<1>3. \A T \in Tiers : Alive(T)' = Alive(T) /\ Up(T)' = Up(T)
  BY DEF Alive, Up
<1>4. WebAlone' /\ OnePerTemplate' /\ QueueAttended'
  BY <1>3 DEF IInv, WebAlone, OnePerTemplate, QueueAttended, Tiers
<1>5. Complete'
  BY <1>3 DEF Complete, FromTemplate
<1>6. ASSUME crashes = 0 PROVE CastMatches' /\ Settled'
  BY <1>5, <1>6 DEF IInv, Undisturbed, CastMatches, Settled
<1> QED
  BY <1>1, <1>2, <1>4, <1>6 DEF IInv, Undisturbed

LEMMA RollBackStep == ASSUME IInv, RollBack PROVE IInv'
<1> USE RolloutAssumption DEF RollBack
<1>1. TypeOK'
  BY DEF IInv, TypeOK
<1>2. Bookkeeping'
  BY DEF IInv, Bookkeeping
<1>3. \A T \in Tiers : Alive(T)' = Alive(T) /\ Up(T)' = Up(T)
  BY DEF Alive, Up
<1>4. WebAlone' /\ OnePerTemplate' /\ QueueAttended'
  BY <1>3 DEF IInv, WebAlone, OnePerTemplate, QueueAttended, Tiers
<1>5. ASSUME crashes = 0 PROVE CastMatches' /\ Settled'
  BY <1>5 DEF IInv, Undisturbed, CastMatches, Settled
<1> QED
  BY <1>1, <1>2, <1>4, <1>5 DEF IInv, Undisturbed

LEMMA SurgeStep == ASSUME IInv, NEW p \in Pods, Surge(p) PROVE IInv'
<1>1. WorkerPods \in Tiers /\ p \in WorkerPods /\ WorkerPods # WebPods
  BY RolloutAssumption DEF Surge, Tiers, RolloutAssumption
<1>2. state[p] = "gone" /\ FromTemplate(WorkerPods) = {} /\ Create(p)
  BY DEF Surge
<1> QED
  BY <1>1, <1>2, CreateStep

LEMMA RetireStep == ASSUME IInv, NEW p \in Pods, Retire(p) PROVE IInv'
<1>1. /\ p \in Alive(WorkerPods) \ FromTemplate(WorkerPods)
      /\ Up(FromTemplate(WorkerPods)) # {}
      /\ Terminate(p)
      /\ WorkerPods \in Tiers
  BY DEF Retire, Tiers
<1> QED
  BY <1>1, TerminateStep

LEMMA RecreateStep == ASSUME IInv, NEW p \in Pods, Recreate(p) PROVE IInv'
<1>1. WebPods \in Tiers /\ p \in WebPods /\ WebPods # WorkerPods
  BY RolloutAssumption DEF Recreate, Tiers, RolloutAssumption
<1>2. CASE (\A q \in WebPods : state[q] = "gone") /\ Create(p)
  <2>1. state[p] = "gone" /\ FromTemplate(WebPods) = {}
    BY <1>1, <1>2 DEF FromTemplate, Alive
  <2> QED
    BY <1>1, <1>2, <2>1, CreateStep
<1>3. CASE p \in Alive(WebPods) \ FromTemplate(WebPods) /\ Terminate(p)
  BY <1>1, <1>3, TerminateStep
<1> QED
  BY <1>2, <1>3 DEF Recreate

LEMMA NextIInv == IInv /\ [Next]_vars => IInv'
<1> SUFFICES ASSUME IInv, [Next]_vars PROVE IInv'
  OBVIOUS
<1>1. ASSUME NEW p \in Pods, Kubernetes(p) PROVE IInv'
  BY <1>1, StartStep, SurgeStep, RetireStep, RecreateStep, GoneStep DEF Kubernetes
<1>2. ASSUME NEW p \in Pods, Crash(p) PROVE IInv'
  BY <1>2, CrashStep
<1>3. CASE Upgrade
  BY <1>3, UpgradeStep
<1>4. CASE Finished
  BY <1>4, FinishedStep
<1>5. CASE RollBack
  BY <1>5, RollBackStep
<1>6. CASE UNCHANGED vars
  BY <1>6 DEF vars, release, IInv, TypeOK, Bookkeeping, WebAlone, OnePerTemplate,
              QueueAttended, Undisturbed, CastMatches, Settled, Complete, Up, Alive,
                  FromTemplate
<1> QED
  BY <1>1, <1>2, <1>3, <1>4, <1>5, <1>6 DEF Next

\* The inductive invariant holds in every behaviour of the rollout.
THEOREM Invariance == Spec => []IInv
BY InitIInv, NextIInv, PTL DEF Spec

-----------------------------------------------------------------------------
\* Pods and releases keep their types (the model's variables).
THEOREM TypeCorrect == Spec => []TypeOK
<1>1. IInv => TypeOK
  BY DEF IInv
<1> QED
  BY <1>1, Invariance, PTL

\* Whatever is released, a worker is up at every moment until a container dies:
\* the strategy of deployment-worker.yaml.
THEOREM AlwaysAttended == Spec => []QueueAttended
<1>1. IInv => QueueAttended
  BY DEF IInv
<1> QED
  BY <1>1, Invariance, PTL

\* Never two getUpdates consumers, crashes included: the strategy of
\* deployment-web.yaml.
THEOREM SingleConsumer == Spec => []OneUpdateConsumer
<1>1. IInv => OneUpdateConsumer
  <2> SUFFICES ASSUME IInv PROVE OneUpdateConsumer
    OBVIOUS
  <2> DEFINE Present == {p \in WebPods : state[p] # "gone"}
  <2>1. CASE Present = {}
    BY <2>1, FS_EmptySet DEF OneUpdateConsumer
  <2>2. CASE Present # {}
    <3>1. PICK p : Present = {p}
      BY <2>2 DEF IInv, WebAlone
    <3>2. Cardinality(Present) = 1
      BY <3>1, FS_Singleton
    <3> QED
      BY <3>2 DEF OneUpdateConsumer
  <2> QED
    BY <2>1, <2>2
<1> QED
  BY <1>1, Invariance, PTL

\* When a release is over no pod runs with another release's registry: what the
\* checksum annotation of the pod template is for.
THEOREM RegistryIsDeployed == Spec => []NoPodLeftBehind
<1>1. IInv => NoPodLeftBehind
  <2> SUFFICES ASSUME IInv, helm = "idle", crashes = 0, NEW p \in Pods, state[p] = "up"
               PROVE  cast[p] = config
    BY DEF NoPodLeftBehind
  <2>1. image[p] = target
    BY AllUp
  <2> QED
    BY <2>1 DEF IInv, Undisturbed, CastMatches, Bookkeeping
<1> QED
  BY <1>1, Invariance, PTL

-----------------------------------------------------------------------------
(* Shutdown. Its deadlines add up: each stage ends by the sum of the       *)
(* bounds up to its own (Budget), so that a grace period above that sum is *)
(* enough.                                                                 *)

DrainEnd == held + DrainTimeout
JoinEnd == DrainEnd + JoinTimeout
ClientEnd == JoinEnd + CloseTimeout
LastThread == ClientEnd + CallTime

\* When each stage is over at the latest.
Budget ==
    /\ stage = "http" => deadline = held
    /\ stage = "drain" => deadline <= DrainEnd
    /\ stage = "join" => deadline <= JoinEnd
    /\ stage = "client" => deadline <= ClientEnd
    /\ stage \in {"http", "drain", "join", "client"} => now <= deadline
    /\ stage = "executor" => now <= LastThread
    /\ threads <= LastThread

\* No loop runs a job once the drain is over, nor when the process is killed,
\* unless it is killed before that.
Stopped ==
    /\ stage \in {"join", "client", "executor", "exited"} =>
          \A w \in Workers : ~Running(w)
    /\ stage = "killed" =>
          now = Grace /\ (Grace <= DrainEnd \/ \A w \in Workers : ~Running(w))

\* The process is killed only if its stages do not fit into the grace period.
Killed == stage = "killed" => Grace <= LastThread

GraceInv == ShutdownTypeOK /\ Budget /\ Stopped /\ Killed

LEMMA GraceInit == ShutdownInit => GraceInv
BY ShutdownAssumption DEF ShutdownAssumption, ShutdownInit, ShutdownTypeOK, Running, GraceInv,
       Budget, Stopped, Killed, DrainEnd, JoinEnd, ClientEnd, LastThread

\* Every stage keeps to its bound, every thread to the last one's.
LEMMA GraceNext == ASSUME GraceInv, [ShutdownNext]_shutdownVars PROVE GraceInv'
<1> USE ShutdownAssumption DEF ShutdownAssumption, GraceInv, ShutdownTypeOK, Budget, Stopped,
                               Killed,
            Over, Running, DrainEnd, JoinEnd, ClientEnd, LastThread
<1>1. CASE Tick
  BY <1>1 DEF Tick
<1>2. ASSUME NEW w \in Workers, TakeJob(w) PROVE GraceInv'
  BY <1>2 DEF TakeJob
<1>3. ASSUME NEW w \in Workers, EndJob(w) PROVE GraceInv'
  BY <1>3 DEF EndJob, EndOfRound
<1>4. ASSUME NEW w \in Workers, JobTimesOut(w) PROVE GraceInv'
  BY <1>4 DEF JobTimesOut, EndOfRound, LeaveCall
<1>5. CASE StopWorker
  BY <1>5 DEF StopWorker, Enter
<1>6. CASE Drained
  BY <1>6 DEF Drained, Enter
<1>7. CASE CancelPending
  BY <1>7 DEF CancelPending, Enter, LeaveCall
<1>8. CASE Joined
  BY <1>8 DEF Joined, Enter
<1>9. CASE ClientClosed
  BY <1>9 DEF ClientClosed, Enter, LeaveCall
<1>10. CASE Exit
  BY <1>10 DEF Exit
<1>11. CASE Kill
  BY <1>11 DEF Kill
<1>12. CASE UNCHANGED shutdownVars
  BY <1>12 DEF shutdownVars
<1> QED
  BY <1>1, <1>2, <1>3, <1>4, <1>5, <1>6, <1>7, <1>8, <1>9, <1>10, <1>11, <1>12
     DEF ShutdownNext, WorkerStep

\* The invariant holds in every reachable state of a shutdown.
THEOREM GraceInvariant == ShutdownSpec => []GraceInv
<1>1. ShutdownInit => GraceInv
  BY GraceInit
<1>2. GraceInv /\ [ShutdownNext]_shutdownVars => GraceInv'
  BY GraceNext
<1> QED
  BY <1>1, <1>2, PTL DEF ShutdownSpec

\* The clock stops at the grace period and every variable keeps its type.
THEOREM ShutdownTypeCorrect == ShutdownSpec => []ShutdownTypeOK
<1>1. GraceInv => ShutdownTypeOK
  BY DEF GraceInv
<1>2. ShutdownSpec => []GraceInv
  BY GraceInvariant
<1> QED
  BY <1>1, <1>2, PTL

\* Killed only if the request that holds the lifespan back, drain window, stream
\* join, client close and one blocking call reach the grace period together.
THEOREM FitsIntoGrace == ShutdownSpec => []ExitsWithinGrace
<1>1. GraceInv => ExitsWithinGrace
  BY ShutdownAssumption DEF ShutdownAssumption, GraceInv, ShutdownTypeOK, Killed,
                            ExitsWithinGrace,
         DrainEnd, JoinEnd, ClientEnd, LastThread
<1>2. ShutdownSpec => []GraceInv
  BY GraceInvariant
<1> QED
  BY <1>1, <1>2, PTL

\* Killed in the middle of a job only if the request and the drain window alone
\* reach it: the join, the client and the threads do not matter.
THEOREM ReleasesBeforeKill == ShutdownSpec => []ReleasedBeforeKill
<1>1. GraceInv => ReleasedBeforeKill
  BY ShutdownAssumption DEF ShutdownAssumption, GraceInv, ShutdownTypeOK, Stopped,
                            ReleasedBeforeKill,
         DrainEnd
<1>2. ShutdownSpec => []GraceInv
  BY GraceInvariant
<1> QED
  BY <1>1, <1>2, PTL

-----------------------------------------------------------------------------
(* StreamProbe, for any probe that grants a blip enough time, or gives a   *)
(* dead stream up early enough. The invariants say how the backoff and the *)
(* failed probes of one outage measure its time (Patience), and that the   *)
(* probes overtake a backoff that gets long (Impatience).                  *)

Down == process = "up" /\ ~alive

\* The supervisor sleeps exactly when the process is up without a stream.
Flags ==
    /\ outage \in BOOLEAN /\ alive \in BOOLEAN /\ asleep \in BOOLEAN
    /\ process \in {"up", "restarting"}
    /\ Down <=> asleep
    /\ process = "restarting" => ~alive

Clocks ==
    /\ length \in Nat /\ since \in Nat /\ timer \in Nat
    /\ delay \in {1, 2, 4, 8, 16, 30}
    /\ nextProbe \in Nat /\ failures \in Nat

\* The time since the outage is a part of the sleep.
Sleeping ==
    /\ outage => since = 0
    /\ Down => timer <= delay /\ since <= delay - timer

\* The time that n probes cover.
Probes(n) == n * ProbePeriod

\* The sleeps so far, which double, and the probes failed in a row are all of
\* them within the outage and the time since it.
Patience ==
    /\ process = "restarting" => failures = 0
    /\ Down => length + since >= 2 * delay - 1 - timer
    /\ (outage \/ Down) /\ failures >= 1 => length + since >= Probes(failures) - nextProbe

SleepInv == Flags /\ Clocks /\ Sleeping

BlipInv == SleepInv /\ Patience /\ BlipCostsNoRestart

\* The probes that are left overtake the sleeps to come.
Impatience ==
    /\ nextProbe <= ProbePeriod
    /\ failures < FailureThreshold
    /\ Down => delay <= 16 /\ 2 * delay - 1 - timer + nextProbe <= Probes(failures + 1)

\* What is left of a restart and what has passed of it since the outage.
Restarting ==
    process = "restarting" =>
        timer <= RestartTime /\ since + timer <= LongestWait + RestartTime

HasteInv == SleepInv /\ Impatience /\ Restarting

LEMMA ProbesStep ==
    /\ Probes(0) = 0
    /\ \A n \in Nat : Probes(n) \in Nat /\ Probes(n + 1) = Probes(n) + ProbePeriod
    /\ \A n \in Nat : n + 1 <= FailureThreshold => Probes(n + 1) <= Probes(FailureThreshold)
<1> USE ProbeAssumption DEF ProbeAssumption
<1>1. ProbePeriod \in Nat /\ FailureThreshold \in Nat
  OBVIOUS
<1>2. \A n, p \in Nat : n * p \in Nat /\ (n + 1) * p = n * p + p
  OBVIOUS
<1>3. \A n, m, p \in Nat : n <= m => n * p <= m * p
  OBVIOUS
<1>4. Probes(0) = 0
  BY <1>1 DEF Probes
<1>5. \A n \in Nat : n + 1 \in Nat
  OBVIOUS
<1> QED
  BY ONLY <1>1, <1>2, <1>3, <1>4, <1>5 DEF Probes

LEMMA SleepInit == ASSUME ProbeInit PROVE SleepInv
<1> USE DEF ProbeInit
<1>1. Flags
  BY DEF Flags, Down
<1>2. Clocks
  BY ProbeAssumption DEF Clocks, InitialBackoff, ProbeAssumption
<1>3. Sleeping
  BY DEF Sleeping, Down
<1> QED
  BY <1>1, <1>2, <1>3 DEF SleepInv

LEMMA FlagsNext == ASSUME Flags, [ProbeNext]_probeVars PROVE Flags'
<1> USE DEF Flags, Down, Reopened, BackOff, Restart
<1>1. CASE OutageBegins
  BY <1>1 DEF OutageBegins
<1>2. CASE OutageEnds
  BY <1>2 DEF OutageEnds
<1>3. CASE Second
  BY <1>3 DEF Second
<1>4. CASE StreamDies
  BY <1>4 DEF StreamDies, FirstDelay
<1>5. CASE Attempt
  <2>1. CASE Reopened
    BY <1>5, <2>1 DEF Attempt
  <2>2. CASE BackOff
    BY <1>5, <2>2 DEF Attempt
  <2> QED
    BY <1>5, <2>1, <2>2 DEF Attempt
<1>6. CASE Probe
  BY <1>6 DEF Probe
<1>7. CASE StartProcess
  BY <1>7 DEF StartProcess
<1>8. CASE UNCHANGED probeVars
  BY <1>8 DEF probeVars
<1> QED
  BY <1>1, <1>2, <1>3, <1>4, <1>5, <1>6, <1>7, <1>8 DEF ProbeNext

LEMMA ClocksNext == ASSUME Clocks, [ProbeNext]_probeVars PROVE Clocks'
<1> USE ProbeAssumption DEF ProbeAssumption, Clocks, Waiting, Reopened, BackOff,
            Restart, InitialBackoff, MaxBackoff
<1>1. CASE OutageBegins
  BY <1>1 DEF OutageBegins
<1>2. CASE OutageEnds
  BY <1>2 DEF OutageEnds
<1>3. CASE Second
  BY <1>3 DEF Second
<1>4. CASE StreamDies
  BY <1>4 DEF StreamDies, FirstDelay
<1>5. CASE Attempt
  <2>1. CASE Reopened
    BY <1>5, <2>1 DEF Attempt
  <2>2. CASE BackOff
    BY <1>5, <2>2 DEF Attempt
  <2> QED
    BY <1>5, <2>1, <2>2 DEF Attempt
<1>6. CASE Probe
  BY <1>6 DEF Probe
<1>7. CASE StartProcess
  BY <1>7 DEF StartProcess
<1>8. CASE UNCHANGED probeVars
  BY <1>8 DEF probeVars
<1> QED
  BY <1>1, <1>2, <1>3, <1>4, <1>5, <1>6, <1>7, <1>8 DEF ProbeNext

LEMMA SleepNext == ASSUME SleepInv, [ProbeNext]_probeVars PROVE SleepInv'
<1>1. Flags' /\ Clocks'
  BY FlagsNext, ClocksNext DEF SleepInv
<1>2. Sleeping'
  <2> USE <1>1 DEF SleepInv, Flags, Clocks, Sleeping, Down, Waiting, Reopened,
              BackOff, Restart, InitialBackoff, MaxBackoff
  <2>1. CASE OutageBegins
    BY <2>1 DEF OutageBegins
  <2>2. CASE OutageEnds
    BY <2>2 DEF OutageEnds
  <2>3. CASE Second
    BY <2>3 DEF Second
  <2>4. CASE StreamDies
    BY <2>4 DEF StreamDies, FirstDelay
  <2>5. CASE Attempt
    <3>1. CASE Reopened
      BY <2>5, <3>1 DEF Attempt
    <3>2. CASE BackOff
      BY <2>5, <3>2 DEF Attempt
    <3> QED
      BY <2>5, <3>1, <3>2 DEF Attempt
  <2>6. CASE Probe
    BY <2>6 DEF Probe
  <2>7. CASE StartProcess
    BY <2>7 DEF StartProcess
  <2>8. CASE UNCHANGED probeVars
    BY <2>8 DEF probeVars
  <2> QED
    BY <2>1, <2>2, <2>3, <2>4, <2>5, <2>6, <2>7, <2>8 DEF ProbeNext
<1> QED
  BY <1>1, <1>2 DEF SleepInv

\* What a restart by the probe takes.
LEMMA RestartTakesTime ==
    ASSUME (FailureThreshold - 1) * ProbePeriod >= RideOut + 8,
           BlipInv, Probe, process' = "restarting"
    PROVE  length >= RideOut
<1> USE ProbeAssumption DEF BlipInv, SleepInv, Flags, Clocks, ProbeAssumption
<1>1. /\ process = "up" /\ ~alive /\ nextProbe = 0
      /\ failures + 1 = FailureThreshold
  BY DEF Probe, Restart
<1>2. Probes(failures) >= 20 /\ Probes(failures) \in Nat
  <2>1. failures = FailureThreshold - 1
    BY <1>1
  <2> QED
    BY <2>1, ProbesStep DEF Probes, RideOut
<1>3. failures >= 1
  <2>1. failures # 0
    BY <1>2, ProbesStep
  <2> QED
    BY <2>1
<1>4. /\ length + since >= 20
      /\ length + since >= 2 * delay - 1 - timer
      /\ timer <= delay /\ since <= delay - timer
  BY <1>1, <1>2, <1>3 DEF Patience, Sleeping, Down
<1> QED
  BY <1>4 DEF RideOut

LEMMA BlipNext ==
    ASSUME (FailureThreshold - 1) * ProbePeriod >= RideOut + 8,
           BlipInv, [ProbeNext]_probeVars
    PROVE  BlipInv'
<1>1. SleepInv'
  BY SleepNext DEF BlipInv
<1>2. /\ Probes(0) = 0
      /\ \A n \in Nat : Probes(n) \in Nat /\ Probes(n + 1) = Probes(n) + ProbePeriod
  BY ProbesStep
<1>3. BlipCostsNoRestart'
  <2>1. CASE Probe
    BY <2>1, RestartTakesTime DEF Probe, BlipCostsNoRestart, BlipInv
  <2>2. CASE StartProcess
    BY <2>2 DEF StartProcess, BlipCostsNoRestart, BlipInv
  <2>3. CASE Second
    BY <2>3 DEF Second, BlipCostsNoRestart, BlipInv, SleepInv, Flags, Clocks, RideOut
  <2> QED
    BY <2>1, <2>2, <2>3
       DEF ProbeNext, probeVars, OutageBegins, OutageEnds, StreamDies,
           Attempt, BlipCostsNoRestart, BlipInv
<1>4. Patience'
  <2> USE ProbeAssumption, <1>2 DEF ProbeAssumption, BlipInv, SleepInv, Flags, Clocks,
                                    Sleeping, Patience, Down,
              Waiting, Reopened, BackOff, Restart, InitialBackoff,
              MaxBackoff
  <2>1. CASE OutageBegins
    BY <2>1 DEF OutageBegins
  <2>2. CASE OutageEnds
    BY <2>2 DEF OutageEnds
  <2>3. CASE Second
    BY <2>3 DEF Second
  <2>4. CASE StreamDies
    BY <2>4 DEF StreamDies, FirstDelay
  <2>5. CASE Attempt
    <3>1. CASE Reopened
      BY <2>5, <3>1 DEF Attempt
    <3>2. CASE BackOff
      BY <2>5, <3>2 DEF Attempt
    <3> QED
      BY <2>5, <3>1, <3>2 DEF Attempt
  <2>6. CASE Probe
    BY <2>6 DEF Probe
  <2>7. CASE StartProcess
    BY <2>7 DEF StartProcess
  <2>8. CASE UNCHANGED probeVars
    BY <2>8 DEF probeVars
  <2> QED
    BY <2>1, <2>2, <2>3, <2>4, <2>5, <2>6, <2>7, <2>8 DEF ProbeNext
<1> QED
  BY <1>1, <1>3, <1>4 DEF BlipInv

\* If the probes before the fatal one take eight seconds more than the outage to
\* be ridden out, the process is back before it, wherever the probes fall; the
\* three probes ten seconds apart of deployment-worker.yaml do.
THEOREM BlipsAreRiddenOut ==
    ASSUME (FailureThreshold - 1) * ProbePeriod >= RideOut + 8
    PROVE  ProbeSpec => []BlipCostsNoRestart
<1>1. ProbeInit => BlipInv
  BY SleepInit DEF ProbeInit, BlipInv, Patience, Down, BlipCostsNoRestart
<1>2. BlipInv /\ [ProbeNext]_probeVars => BlipInv'
  BY BlipNext
<1>3. BlipInv => BlipCostsNoRestart
  BY DEF BlipInv
<1> QED
  BY <1>1, <1>2, <1>3, PTL DEF ProbeSpec

LEMMA FewProbes ==
    ASSUME FailureThreshold * ProbePeriod <= 2 * LongestWait,
           HasteInv
    PROVE  Probes(failures + 1) <= 30
<1>1. failures + 1 <= FailureThreshold /\ failures \in Nat /\ FailureThreshold \in Nat
  BY ProbeAssumption DEF HasteInv, SleepInv, Clocks, Impatience, ProbeAssumption
<1>2. Probes(failures + 1) <= Probes(FailureThreshold)
  BY <1>1, ProbesStep
<1>3. Probes(FailureThreshold) <= 30
  BY DEF Probes, LongestWait
<1>4. Probes(failures + 1) \in Nat /\ Probes(FailureThreshold) \in Nat
  BY <1>1, ProbesStep
<1> QED
  BY <1>2, <1>3, <1>4

\* Nobody sleeps for long after the outage.
LEMMA ShortWait ==
    ASSUME FailureThreshold * ProbePeriod <= 2 * LongestWait,
           HasteInv, Down
    PROVE  since <= LongestWait
<1>1. /\ delay <= 16 /\ 2 * delay - 1 - timer + nextProbe <= Probes(failures + 1)
      /\ since <= delay - timer
  BY DEF HasteInv, SleepInv, Sleeping, Impatience
<1>2. Probes(failures + 1) <= 30
  BY FewProbes
<1>3. Probes(failures + 1) \in Nat
  BY ProbesStep DEF HasteInv, SleepInv, Clocks
<1> QED
  BY <1>1, <1>2, <1>3 DEF HasteInv, SleepInv, Clocks, LongestWait

LEMMA SumOfBounds == \A a, b, c \in Nat : a <= 15 /\ b <= c => a + b <= 15 + c
  OBVIOUS

LEMMA HasteNext ==
    ASSUME FailureThreshold * ProbePeriod <= 2 * LongestWait,
           ProbeDelay <= ProbePeriod,
           HasteInv, [ProbeNext]_probeVars
    PROVE  HasteInv'
<1>1. SleepInv'
  BY SleepNext DEF HasteInv
<1>2. /\ Probes(0) = 0
      /\ \A n \in Nat : Probes(n) \in Nat /\ Probes(n + 1) = Probes(n) + ProbePeriod
  BY ProbesStep
<1>3. Probes(failures + 1) <= 30
  BY FewProbes
<1>4. Impatience'
  <2> USE ProbeAssumption, <1>2 DEF ProbeAssumption, HasteInv, SleepInv, Flags, Clocks,
                                    Sleeping, Impatience,
              Down, Waiting, Reopened, BackOff, Restart,
              InitialBackoff, MaxBackoff
  <2>1. CASE OutageBegins
    BY <2>1 DEF OutageBegins
  <2>2. CASE OutageEnds
    BY <2>2 DEF OutageEnds
  <2>3. CASE Second
    BY <2>3 DEF Second
  <2>4. CASE StreamDies
    <3>1. ProbePeriod <= Probes(failures + 1)
      <4>1. failures \in Nat /\ ProbePeriod \in Nat
        BY ProbeAssumption DEF HasteInv, SleepInv, Clocks, ProbeAssumption
      <4>2. Probes(failures) \in Nat /\ Probes(failures + 1) = Probes(failures) + ProbePeriod
        BY ONLY <1>2, <4>1
      <4> QED
        BY ONLY <4>1, <4>2
    <3> QED
      BY <2>4, <3>1 DEF StreamDies, FirstDelay
  <2>5. CASE Attempt
    <3>1. CASE Reopened
      BY <1>3, <2>5, <3>1 DEF Attempt
    <3>2. CASE BackOff
      BY <1>3, <2>5, <3>2 DEF Attempt
    <3> QED
      BY <2>5, <3>1, <3>2 DEF Attempt
  <2>6. CASE Probe
    BY <2>6 DEF Probe
  <2>7. CASE StartProcess
    BY <2>7 DEF StartProcess
  <2>8. CASE UNCHANGED probeVars
    BY <2>8 DEF probeVars
  <2> QED
    BY <2>1, <2>2, <2>3, <2>4, <2>5, <2>6, <2>7, <2>8 DEF ProbeNext
<1>5. Restarting'
  <2>1. since' <= LongestWait /\ timer' \in 0 .. RestartTime => Restarting'
    <3>1. SUFFICES ASSUME since' <= LongestWait, timer' \in 0 .. RestartTime
                   PROVE  timer' <= RestartTime /\ since' + timer' <= 15 + RestartTime
      BY DEF Restarting, LongestWait
    <3>2. since' \in Nat /\ since' <= 15
      BY <1>1, <3>1 DEF SleepInv, Clocks, LongestWait
    <3>3. timer' \in Nat /\ timer' <= RestartTime /\ RestartTime \in Nat
      BY <3>1, ProbeAssumption DEF ProbeAssumption
    <3> QED
      BY ONLY <3>2, <3>3, SumOfBounds
  <2>2. CASE Probe
    <3>1. CASE ~alive /\ failures + 1 = FailureThreshold
      <4>1. since <= LongestWait
        BY <2>2, <3>1, ShortWait DEF Probe, Down
      <4> QED
        BY <2>1, <2>2, <3>1, <4>1 DEF Probe, Restart
    <3>2. CASE ~(~alive /\ failures + 1 = FailureThreshold)
      BY <2>2, <3>2 DEF Probe, Restarting
    <3> QED
      BY <3>1, <3>2
  <2>3. CASE StartProcess
    <3>1. CASE process' = "up"
      BY <3>1 DEF Restarting
    <3>2. CASE outage /\ Restart
      <4>1. since' <= LongestWait
        BY <2>3, <3>2 DEF StartProcess, HasteInv, SleepInv, Sleeping, LongestWait
      <4> QED
        BY <2>1, <3>2, <4>1 DEF Restart
    <3> QED
      BY <2>3, <3>1, <3>2 DEF StartProcess
  <2>4. CASE Second
    BY <2>4, ProbeAssumption DEF ProbeAssumption, Second, Waiting, Restarting, HasteInv,
                                 SleepInv, Flags, Clocks, LongestWait
  <2>5. CASE OutageBegins \/ StreamDies \/ Attempt
    BY <2>5 DEF OutageBegins, StreamDies, Attempt, HasteInv, SleepInv, Flags, Down, Restarting
  <2>6. CASE OutageEnds \/ UNCHANGED probeVars
    BY <2>6 DEF OutageEnds, probeVars, HasteInv, Restarting
  <2> QED
    BY <2>2, <2>3, <2>4, <2>5, <2>6 DEF ProbeNext
<1> QED
  BY <1>1, <1>4, <1>5 DEF HasteInv

\* If the probes give a process up within twice the longest wait, its backoff
\* never gets longer than that, however long the outage was, and if they give it
\* up all the same it is consuming one restart later; the probes of
\* deployment-worker.yaml do.
THEOREM BackInTime ==
    ASSUME FailureThreshold * ProbePeriod <= 2 * LongestWait,
           ProbeDelay <= ProbePeriod
    PROVE  ProbeSpec => []RecoversInTime
<1>1. ProbeInit => HasteInv
  <2> SUFFICES ASSUME ProbeInit PROVE Impatience /\ Restarting
    BY SleepInit DEF HasteInv
  <2>1. nextProbe <= ProbePeriod /\ failures < FailureThreshold
    BY ProbeAssumption DEF ProbeInit, ProbeAssumption
  <2> QED
    BY <2>1 DEF ProbeInit, Impatience, Restarting, Down
<1>2. HasteInv /\ [ProbeNext]_probeVars => HasteInv'
  BY HasteNext
<1>3. HasteInv => RecoversInTime
  <2> SUFFICES ASSUME HasteInv, ~alive PROVE RecoversInTime
    BY DEF RecoversInTime
  <2>1. CASE process = "up"
    BY <2>1, ShortWait DEF RecoversInTime, Down, HasteInv, SleepInv, Clocks, LongestWait
  <2>2. CASE process = "restarting"
    BY <2>2, ProbeAssumption DEF ProbeAssumption, RecoversInTime, HasteInv, SleepInv,
                                 Clocks, Restarting, LongestWait
  <2> QED
    BY <2>1, <2>2 DEF HasteInv, SleepInv, Flags
<1> QED
  BY <1>1, <1>2, <1>3, PTL DEF ProbeSpec
=============================================================================
