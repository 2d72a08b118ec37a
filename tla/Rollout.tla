------------------------------ MODULE Rollout ------------------------------
(***************************************************************************)
(* A release reaches the pods: helm replaces the ConfigMaps and both       *)
(* Deployments (deploy/charts), Kubernetes replaces the pods in the way    *)
(* each tier asks for, a container reads settings and registry once when   *)
(* it starts (app.py, factory.py, characters.py) and fails if they are not *)
(* usable, and helm rolls a release back that does not become ready.       *)
(***************************************************************************)
EXTENDS Naturals, FiniteSets

CONSTANTS
    WorkerPods,     \* pods the worker Deployment may create, RollingUpdate
    WebPods,        \* pods the web Deployment may create, Recreate
    LastRelease,    \* bound: releases after the first, which is 0
    BadRegistries,  \* those whose registry does not validate
    BadSettings,    \* those whose settings a constructor rejects
    NewModels,      \* those whose model ids only their own image has prices for
    MaxCrashes      \* bound: containers that die without being asked to

Releases == 1 .. LastRelease

ASSUME RolloutAssumption ==
    /\ WorkerPods \cap WebPods = {}
    /\ LastRelease \in Nat
    /\ BadRegistries \cup BadSettings \cup NewModels \subseteq Releases
    /\ MaxCrashes \in Nat

Pods == WorkerPods \cup WebPods
Tiers == {WorkerPods, WebPods}

VARIABLES
    helm,           \* "idle", "upgrading" or "rollback"
    latest,         \* the newest release tried so far
    good,           \* the release a rollback returns to
    config,         \* the release whose ConfigMaps are in the cluster
    target,         \* the release of the Deployments' pod templates
    state,          \* state[p] of the pod and its container
    image,          \* image[p]: the release p was created from
    cast,           \* cast[p]: the release whose registry p has in memory
    crashes         \* containers that died

release == <<helm, latest, good, config, target>>
vars == <<release, state, image, cast, crashes>>

TypeOK ==
    /\ helm \in {"idle", "upgrading", "rollback"}
    /\ {latest, good, config, target} \subseteq {0} \cup Releases
    /\ state \in [Pods -> {"gone", "starting", "up", "terminating"}]
    /\ image \in [Pods -> {0} \cup Releases]
    /\ cast \in [Pods -> {0} \cup Releases]
    /\ crashes \in 0 .. MaxCrashes

\* The first release runs.
Init ==
    /\ helm = "idle"
    /\ latest = 0 /\ good = 0 /\ config = 0 /\ target = 0
    /\ \E w \in WorkerPods, v \in WebPods :
          state = [p \in Pods |-> IF p \in {w, v} THEN "up" ELSE "gone"]
    /\ image = [p \in Pods |-> 0]
    /\ cast = [p \in Pods |-> 0]
    /\ crashes = 0

Alive(T) == {p \in T : state[p] \in {"starting", "up"}}
Up(T) == {p \in T : state[p] = "up"}
FromTemplate(T) == {p \in Alive(T) : image[p] = target}

-----------------------------------------------------------------------------
(* A container starts.                                                     *)

\* The providers' constructors: a model without a price is refused.
ModelsPriced(i, c) == c \in NewModels => i >= c

\* The factory and the constructors of the other adapters.
AdaptersBuild(c) == c \notin BadSettings

\* load_registry
RegistryLoads(c) == c \notin BadRegistries

\* lifespan: everything is built and loaded before the worker and the poller
\* start, so a container that cannot start takes neither jobs nor updates.
Starts(i, c) == AdaptersBuild(c) /\ ModelsPriced(i, c) /\ RegistryLoads(c)

\* A container of p starts with what the ConfigMaps hold now; one that fails
\* stays "starting", and the kubelet tries again.
Start(p) ==
    /\ state[p] = "starting"
    /\ Starts(image[p], config)
    /\ state' = [state EXCEPT ![p] = "up"]
    /\ cast' = [cast EXCEPT ![p] = config]
    /\ UNCHANGED <<release, image, crashes>>

\* A container dies, or its liveness probe fails: the kubelet restarts it in the
\* same pod.
Crash(p) ==
    /\ state[p] = "up"
    /\ crashes < MaxCrashes
    /\ crashes' = crashes + 1
    /\ state' = [state EXCEPT ![p] = "starting"]
    /\ UNCHANGED <<release, image, cast>>

-----------------------------------------------------------------------------
(* The Deployment controllers.                                             *)

Create(p) ==
    /\ state' = [state EXCEPT ![p] = "starting"]
    /\ image' = [image EXCEPT ![p] = target]
    /\ UNCHANGED <<release, cast, crashes>>

Terminate(p) ==
    /\ state' = [state EXCEPT ![p] = "terminating"]
    /\ UNCHANGED <<release, image, cast, crashes>>

\* maxSurge: 1. A new pod joins the old one.
Surge(p) ==
    /\ p \in WorkerPods /\ state[p] = "gone"
    /\ FromTemplate(WorkerPods) = {}
    /\ Cardinality(Alive(WorkerPods)) <= 1
    /\ Create(p)

\* Mutant: maxUnavailable: 1.
RetireAtOnce(p) ==
    /\ p \in Alive(WorkerPods) \ FromTemplate(WorkerPods)
    /\ Terminate(p)

\* maxUnavailable: 0. An old pod goes when a new one is up.
Retire(p) ==
    /\ p \in Alive(WorkerPods) \ FromTemplate(WorkerPods)
    /\ Up(FromTemplate(WorkerPods)) # {}
    /\ Terminate(p)

\* Mutant: the web tier surges as well.
RecreateEarly(p) ==
    /\ p \in WebPods
    /\ \/ /\ state[p] = "gone"
          /\ FromTemplate(WebPods) = {}
          /\ Create(p)
       \/ p \in Alive(WebPods) \ FromTemplate(WebPods) /\ Terminate(p)

\* Recreate: the old pod goes first, the new one comes when it is gone.
Recreate(p) ==
    /\ p \in WebPods
    /\ \/ /\ \A q \in WebPods : state[q] = "gone"
          /\ Create(p)
       \/ p \in Alive(WebPods) \ FromTemplate(WebPods) /\ Terminate(p)

\* The process ends within the grace period.
Gone(p) ==
    /\ state[p] = "terminating"
    /\ state' = [state EXCEPT ![p] = "gone"]
    /\ UNCHANGED <<release, image, cast, crashes>>

-----------------------------------------------------------------------------
(* helm upgrade --rollback-on-failure --wait.                              *)

\* Every tier runs the template, and nothing else but pods that terminate.
Complete == \A T \in Tiers : Up(T) # {} /\ Alive(T) = FromTemplate(T)

\* Mutant: the pod template has no checksum of the ConfigMaps.
UpgradeConfigOnly ==
    /\ helm = "idle"
    /\ latest + 1 \in Releases
    /\ latest' = latest + 1
    /\ config' = latest'
    /\ helm' = "upgrading"
    /\ UNCHANGED <<good, target, state, image, cast, crashes>>

\* The next release: ConfigMaps and pod templates.
Upgrade ==
    /\ helm = "idle"
    /\ latest + 1 \in Releases
    /\ latest' = latest + 1
    /\ config' = latest' /\ target' = latest'
    /\ helm' = "upgrading"
    /\ UNCHANGED <<good, state, image, cast, crashes>>

Finished ==
    /\ helm # "idle" /\ Complete
    /\ helm' = "idle"
    /\ good' = target
    /\ UNCHANGED <<latest, config, target, state, image, cast, crashes>>

\* Mutant: the ConfigMaps keep the release that failed.
RollBackTemplates ==
    /\ helm = "upgrading" /\ ~Complete
    /\ helm' = "rollback"
    /\ target' = good
    /\ UNCHANGED <<latest, good, config, state, image, cast, crashes>>

\* The release is not ready in time.
RollBack ==
    /\ helm = "upgrading" /\ ~Complete
    /\ helm' = "rollback"
    /\ config' = good /\ target' = good
    /\ UNCHANGED <<latest, good, state, image, cast, crashes>>

Kubernetes(p) == Start(p) \/ Surge(p) \/ Retire(p) \/ Recreate(p) \/ Gone(p)

Next ==
    \/ \E p \in Pods : Kubernetes(p) \/ Crash(p)
    \/ Upgrade
    \/ Finished
    \/ RollBack

\* Kubernetes and helm carry on; nobody has to release anything, and nothing
\* has to crash. A rollout that can still complete may time out all the same.
Fairness ==
    /\ \A p \in Pods : WF_vars(Kubernetes(p))
    /\ WF_vars(Finished)
    /\ WF_vars(RollBack)

Spec == Init /\ [][Next]_vars
FairSpec == Spec /\ Fairness

-----------------------------------------------------------------------------
(* Properties.                                                             *)

\* Whatever is released, a worker is attached to the queue at every moment: the
\* surge pod has to be up before the old one goes. Only a container that dies
\* by itself interrupts it.
QueueAttended == crashes = 0 => Up(WorkerPods) # {}

\* There are never two web pods, not even while one terminates: only one
\* getUpdates consumer may run per token (config.py).
OneUpdateConsumer == Cardinality({p \in WebPods : state[p] # "gone"}) <= 1

\* After a release or a rollback every pod that is up has the registry that is
\* deployed: a change of a ConfigMap alone rolls the pods. A container that
\* crashed during a release that failed may have read that release's.
NoPodLeftBehind ==
    (helm = "idle" /\ crashes = 0) => \A p \in Pods : state[p] = "up" => cast[p] = config

\* A release succeeds or is rolled back, and both tiers are up again.
RolloutEnds == []<>(helm = "idle" /\ \A T \in Tiers : Up(T) # {})
=============================================================================
