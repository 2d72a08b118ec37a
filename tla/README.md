# Verification of the AI Family Media Bot

TLA+ models of the bot in `src/app/family_media_bot` and of the parts of its
deployment that decide its behaviour, the TLC configurations that check them on
small instances, and TLAPS proofs about ten of them. Paths of Python
files are below `src/app/family_media_bot`, those of `docs/`, `infra/`, `deploy/`
and `app/tests/` below `src/`.

## 1. The system

A family writes to a Telegram bot; the bot answers with a story and a picture.
Web pods turn updates into jobs, worker pods turn jobs into replies, a Pub/Sub
subscription lies between them.

    Telegram --webhook/getUpdates--> app.py, poller.py --> dispatch.py
        dispatch.py --publish--> Pub/Sub subscription (infra/gcp/pubsub.tf)
        subscription --streaming pull--> adapters/queue_pubsub.py --> worker.py
        worker.py --> pipeline.py --> story model, image model, storage, Telegram
    helm, kubelet --> pods: settings and registry at start, probes, SIGTERM

### Components

| Component | State it keeps | Operations | What makes it correct |
|---|---|---|---|
| Queue port (`ports/queue.py`) | none, a contract | `enqueue`, `dequeue`, `ack`, `nack`, `close` | a delivery is with one owner until it leaves, and leaves once |
| Pub/Sub adapter, message path (`adapters/queue_pubsub.py`) | `_deliveries`, `_buffered`, `_in_flight`, `_closing`, `_closed` | `_on_message` (library threads), `_accept_message` (loop), `dequeue`, `ack`, `nack`, `close` | each delivery settled once, none stranded, `close()` releases all before it cancels the stream |
| Pub/Sub adapter, supervision (same file) | `_streaming_future`, `_stream_alive`, supervisor tasks | `start`, `_subscribe`, `_on_stream_done` (library thread), `_reconnect_after`, `close`, `is_healthy` | one stream, known to the adapter; unhealthy means recovering; nothing opens after `close()`; a blip costs no restart |
| In-memory queue (`adapters/queue_inmemory.py`) | bounded `asyncio.Queue` | `enqueue`, `dequeue`, `ack`, `nack` | no job lost or doubled; stop ends |
| Worker loop (`worker.py`) | tasks, stop event, the delivery of each loop | `start`, `_run`, `_release`, `stop` | ack only after success; every delivery released; stop ends in time |
| Pipeline (`pipeline.py`, `metrics.py`) | locals of one attempt, counters | `process` | stored before sent; one apology, on the last attempt; a counted success is one |
| Subscription (external, `infra/gcp/pubsub.tf`) | message, attempt count, lease | deliver, redeliver, dead-letter, expire | at least once, at most `max_delivery_attempts` |
| Telegram client (`telegram.py`) | HTTP client | `send_text`, `send_story_and_image`, `get_updates` | no picture without its story |
| Dispatcher (`dispatch.py`, `commands.py`, `i18n.py`) | none | `handle_update` | what is a wish, a query or neither; one language; one job for one command |
| Webhook (`app.py`) and poller (`poller.py`) | poller: `_offset` | `POST /webhook`; `getUpdates` loop | no update confirmed before it was handled |
| Character registry (`characters.py`) | cast of a pod | `load_registry` | complete or refused |
| Prompts, story and image provider (`prompts.py`, `adapters/story_*`, `adapters/image_vertex.py`) | none | compose, generate, split | same cast in story and picture; prompt never cut; the reply is the story |
| Storage (`adapters/storage_*.py`) | objects by job id | `save` | what is archived is what was shown |
| Lifespan, configuration, factory, chart (`app.py`, `config.py`, `factory.py`, `deploy/charts`) | pods, ConfigMaps, pod templates | start, probes, rollout, rollback, SIGTERM | one `getUpdates` consumer; queue attended; no pod with an old registry; exit within the grace period |
| Telemetry, logging, fakes | - | - | not modelled, see section 8 |

### How they interact, and what is hard

- *Threads and the event loop.* `_on_message` and `_on_stream_done` run on
  library threads; everything else runs on one loop and is interrupted only at
  an `await`. One lock protects the hand-off, another the lifecycle; the health
  flag and the future are written without either.
- *Shutdown.* `Worker.stop` drains, cancels, then `close()` runs, while
  callbacks, hand-offs, a `dequeue()` and a sleeping supervisor are under way,
  and calls that were handed to a thread cannot be cancelled at all.
- *Redelivery.* Acks and nacks get lost, leases end under running jobs,
  processes crash between any two awaits; a step that raises may have had its
  effect, an upload that was given up may still have it later.
- *Clocks that do not know each other.* The lease (60 s) and the job budget
  (90 s); the supervisor's backoff and the liveness probe; drain window, join,
  close and the pod's grace period (120 s).
- *Intake.* Telegram repeats posts; a poller confirms by its offset, which a
  restart forgets.
- *Data.* Caption 1024, hint 400, cast 8 x 300, prompt 4000 characters; a
  registry file that changes under running pods; model answers of any form.
- *Rollouts.* ConfigMaps change for all pods at once, pods one by one, and a
  container may restart at any moment in between.

`PROJECT.json` lists each of these hazards at its line, with the properties that
cover it.

## 2. Modules

| Module | Models | Composition |
|---|---|---|
| `QueuePort` | abstract: what `ports/queue.py` promises to the worker | implemented by both adapters |
| `PubSubQueue` | message path of the adapter | implements `QueuePort`; proofs in `PubSubQueue_proof` |
| `InMemoryQueue` | in-memory queue under the worker loop | implements `QueuePort`; proofs in `InMemoryQueue_proof` |
| `PubSubStream` | stream supervision and health, statement by statement | proofs in `PubSubStream_proof` |
| `StreamProbe` | the same supervision with a clock, and the kubelet's probe | coarser steps than `PubSubStream`; proofs in `Deployment_proof` |
| `JobContract` | abstract: what is promised for one accepted job | |
| `JobDelivery` | subscription + worker + pipeline + storage and chat of a job | implements `JobContract`; proofs in `JobDelivery_proof` |
| `JobAttempts` | what the attempts of a job store, pay for and count | finer than `JobDelivery` in its data; proofs in `JobAttempts_proof` |
| `Intake` | Telegram, webhook, poller, dispatcher's failures | proofs in `Intake_proof` |
| `Conversation` | parsing and `handle_update` as a decision on the text | operators used by `StoryMaking` |
| `StoryMaking` | one message from its text to the reply, over a registry that is edited | proofs in `StoryMaking_proof` |
| `Shutdown` | a worker pod from SIGTERM to its end, with a clock | proofs in `Deployment_proof` |
| `Rollout` | helm, Deployments and what a container reads at its start | proofs in `Deployment_proof` |
| `MC...` | instances for TLC | each extends its module |

### QueuePort, PubSubQueue and InMemoryQueue

`QueuePort` knows where a delivery is: waiting in the process, with a worker, or
gone. `PubSubQueue` maps its callbacks, hand-offs and buffer to waiting, a
delivery that `ack`/`nack` still know to working, a settled one to gone. A nack
of the in-memory queue is `PutBack`, one of Pub/Sub `Leave`: the provider
delivers it anew.

In `PubSubQueue` a *receipt* is one delivery of one message. Its way through the
adapter is a chain of sets: `fresh` (with Pub/Sub), `callbacks` (inside
`_on_message`), `handoffs` (scheduled with `call_soon_threadsafe`),
`deliveries`/`buffered`, `got` (the inner `get()` of a `dequeue()` has it, the
caller has not resumed), `inFlight` with `held[w]`. `calls[r]` counts
`ack()`/`nack()` calls on the message. The library is external: flow control is
`leased`, and `LibraryStops` is its dispatcher thread's end, after which nothing
is transmitted. `close()` has the steps `flush` (behind `sleep(0)`; `ahead` is
what the loop runs first), `join` and `closed`. The lifecycle lock shows in
`Subscribe`'s guard. The order inside `_deliveries` is left out: no property
depends on it.

`InMemoryQueue` keeps the exact queue and splits the worker loop where `put()`
waits. A task that is cancelled in its exception handler ends with its job.

### PubSubStream and StreamProbe

Streams are numbered in the order they are opened. `_on_stream_done` is one
action per assignment, since it runs beside the loop; `_subscribe` is split at
`subscribe()`, `add_done_callback` and `_stream_alive = True`, which is where a
library thread gets between. When a stream has ended before
`add_done_callback`, the callback runs in place (`registered = "late"`) and
`_subscribe` goes on after it. A supervisor's sleep is the time between two of
its actions.

`StreamProbe` takes those steps as one and adds seconds: the sleep doubles from
1 s to 30 s with each failed attempt, the kubelet asks `/livez` every 10 s and
restarts the process after three failures in a row. The outage is one that the
library takes for terminal; it retries transient errors by itself.

### JobDelivery, JobContract and JobAttempts

`sub[j]` and `attempts[j]` are the subscription's; `slot[w]` is a worker loop
with its delivery and the await it is in (`story`, `image`, `saveText`,
`saveImage`, `send`, `photo`, `apology`, `ack`, `nack`); `stored`, `stories`,
`pictures`, `apologies` are what the world sees. An await that raises, times out,
is cancelled or dies with its process may have had its effect (`SideEffect`):
uploads go on in threads, requests may have reached Telegram. Acks and nacks
may be lost. A lease with no worker always ends. One under a running job runs out
when `LeaseSeconds < JobTimeout`, which is how the code is configured
(`LeaseExpires`), and ends whatever the constants are when the stream that extends
it terminates (`LeaseLost`; in `PubSubQueue` this is `LibraryStops`). A delivery
starts, in this model, when a worker takes it: the time in the adapter's buffer is
left out, and the lease counts that time too.

`JobContract` says what a family may rely on: an accepted job is finished, or
given up after its deliveries or its day; finished only after a reply.
`JobDelivery` implements it under `status`, `replied`, `apologised`.

`JobAttempts` tells the attempts of one job apart in the data: which attempt's
text and picture the store holds, which uploads still run in a thread that
nobody awaits, which calls were billed, and what the counters say.

### Intake, Conversation and StoryMaking

`Intake` chooses the transport at the start. Telegram posts any unconfirmed
update, in any order, until it gets a 200 that is not lost, or returns to
`getUpdates` what is not below the offset. `Restart` forgets the poller's offset
and whatever handler was running.

`Conversation` represents a text as a sequence of atoms: pieces the parser does
not look into. `Reaction` is `handle_update` with `split_language_token`,
`resolve`, `parse_query`, `parse_text` and `compose_request`.

`StoryMaking` follows one message: `HandleUpdate` and `Enqueue` in the web tier, the
job with its language and mode, the worker's steps of one job, and a registry
file that is replaced at any time and read when a pod starts. A registry file is
its characters' lengths, languages and flags; a prompt is who is in it, by which
name and looks, its language and its length; a model answer is its lines
(`prose`, `blank` and three kinds of illustration line). The worker may fail
after any step and start again, on another pod with another registry.

### Shutdown and Rollout

`Shutdown` has a clock, and a deadline for each thing the process waits for:
open requests (uvicorn runs the lifespan's end after them), drain window, stream
join, client close, and the threads of `asyncio.to_thread`, which `asyncio.run`
joins. `Grace` is the pod's grace period.

`Rollout` has a pod per name with the release its template came from (`image`)
and the release whose registry it read (`cast`). The worker tier surges, the web
tier recreates. A container starts if adapters, prices and registry are all
usable. `helm upgrade --rollback-on-failure --wait` either finishes or puts
ConfigMaps and templates back.

## 3. Runs that pass

Every property has a mutant in `PROJECT.json`: a plausible bug in one mapped
definition that makes TLC find the property violated.

| Run | Bounds | What it shows |
|---|---|---|
| `pubsub_queue` | 4 deliveries (1 malformed), 2 workers, capacity 2 | `SettledAtMostOnce`, `NothingStranded`, `NothingUnsentAfterCancel`, `EventuallySettled`, `CloseCompletes`, `ImplementsPort` |
| `in_memory` | 4 jobs, 2 workers, capacity 2 | `NoJobLost`, `OneCopy`, `StopEndsUnlessFull`, `ImplementsPort` |
| `pubsub_stream` | 4 streams | `OpenStreamIsHeld`, `NoStreamAfterClose`, `UnhealthyRecovers`, `SupervisorsEnd` |
| `stream_probe` | seconds, outages up to 120 s, restart up to 40 s | `BlipCostsNoRestart` (12 s), `RecoversInTime` (15 s; 15 + 40 s for a process that is being restarted) |
| `job_delivery` | 1 job, 2 loops, 3 attempts | `AckImpliesReplied`, `ApologyOnlyWhenExhausted`, `RepliesBounded`, `ImplementsContract` (with its liveness) |
| `job_attempts` | 3 attempts | `ReplyMatchesArchive`, `SuccessIsReal` |
| `intake` | 3 updates (query, command, ignored), 3 restarts | `ConfirmedWasHandled`, `ConfirmedWasEnqueued`, `PollerInOrder`, `PublishedOnlyWhileOwed`, `EveryUpdateHandled`, `WebhookCommandBecomesJob` |
| `story_making` | texts of up to 4 of 12 atoms, 10 registry files, answers of up to 3 lines | `TokenOnlyChoosesLanguage`, `OneLanguage`, `PromptIsNeverCut`, `SameCastInBoth`, `CastIsComplete`, `NoMarkerInChat` |
| `shutdown` | unit of 6 s, 2 workers | `ExitsWithinGrace`, `ReleasedBeforeKill` |
| `rollout` | 3 releases (bad registry, unpriced model, bad setting), 3 + 2 pods, 1 crash | `QueueAttended`, `OneUpdateConsumer`, `NoPodLeftBehind`, `RolloutEnds` |

Why the bounds are enough:

- `pubsub_queue`: two workers and a capacity of two fill the queue while both
  workers are busy, and the two deliveries beyond it arrive on freed leases, so
  `deliveries.full()` happens. The proofs cover every other size.
- `in_memory`: more jobs than queue and workers can hold.
- `pubsub_stream`: a stream, its failed successor, a third one opened by an
  older supervisor and a last one that holds; the properties relate at most
  three of them at a time. `SupervisorsEnd` has no clock: `close()` ends whatever
  the supervisors do, and one that sleeps through it, for up to 30 s where `close()`
  takes about 13 s, is still there afterwards and returns when it wakes.
- `stream_probe`: the chart's numbers, unscaled. Two minutes are several
  restarts long. The limits are tight: with 13 s for the first, 14 s for a process
  that is up or one second less than 15 + 40 s for one that is being restarted TLC
  finds a counterexample. The proofs cover every other probe. One outage follows
  another only after a probe that succeeded; a restart takes any time up to
  `RestartTime`, and the kubelet's own backoff between restarts is left out.
- `job_delivery`: three attempts are a first, a middle and a last one; two loops
  overlap. Jobs do not share state except the loops; the safety proofs cover any
  number of them. `MaxAttempts` is 5 in the deployment.
- `job_attempts`: the same three attempts, of which any two may overlap.
- `intake`: one update before and one after a command, so order, batches and the
  offset matter; three restarts can interrupt the command before and after its job
  is published and once more while it is repeated. `MaxJobs` stops the count of jobs at
  five, which the four starts of a poller do not reach.
- `story_making`: token, command, blank and argument make four atoms, and every
  branch of the parser is reached with fewer; the files are one of each kind that
  `_validate` distinguishes, the largest legal cast among them; three lines put
  an illustration line before, between and after prose. The proofs cover every
  text, file and answer.
- `shutdown`: the deployed 30 s window, 90 s budget, 1 s poll, 11 s join, 2 s
  close, 60 s call and 120 s grace, rounded up to units of 6 s (the poll and the
  close to one unit each). Requests that hold the process for up to 102 s make
  both kinds of end, exit and kill, happen. The proofs cover all numbers. That a
  call in a thread ends within 60 s is an assumption: the timeouts of the clients
  are the libraries'.
- `rollout`: the three ways a release can be broken, each followed by what a
  rollback leaves, plus pods enough for one that terminates, one that runs and one
  that surges.

`CHECK_DEADLOCK FALSE` is set where the system really stops: after `close()`,
after the last update, when a job is over or the last release is out. In
`stream_probe` something can always happen, and deadlock is checked.

## 4. What the code does not keep

Two runs check a statement of a comment that the code violates.

| Run | Statement | Counterexample |
|---|---|---|
| `stream_outage` | `_on_stream_done`'s docstring: a terminated stream makes the process unhealthy and is reopened | A stream ends while `_subscribe` registers it; the callback sets `_stream_alive` to false, `_subscribe` sets it to true, the supervisor returns: healthy for ever with no stream. |
| `job_overlap` | comment on `_MAX_LEASE_SECONDS`: no redelivery of work still being processed | The lease ends after 60 s, the job runs up to 90 s, the second worker gets it. The run takes `SteadySpec`, in which no stream terminates, so the two constants are what it refutes. |

More statements met while modelling do not hold, and no run is spent on them. The
models contain the steps that show them.

- Queue. `docs/design/reliability.md`:212: flow control bounds what the process
  holds. An expired lease frees it while the message is buffered (`Accept` of
  `PubSubQueue` refuses the one too many). `worker.py`:42 and
  `app/tests/test_worker_delivery.py`:54: the in-memory queue never retries. Its
  `nack` puts the job back (`queue_inmemory.py`:33), for ever, and each failure
  apologises (`ports/queue.py`:22 promises one apology). `Worker.stop` may wait for ever on
  that `put` (`StuckOnFullQueue`). `queue_pubsub.py`:131: the supervisor reopens
  "until it holds"; it returns as soon as a stream is open.
- Probe. `app.py`:116: a Google outage must not become a restart loop. It does
  for an outage of the kind that terminates the stream: `StreamProbe` restarts
  again and again while it lasts. `deployment-worker.yaml`:68: the threshold
  rides out a reconnect. It does for outages below 12 s.
- Jobs. `docs/api-contract.md`:128: the chat is told once the retries are
  exhausted. A last attempt that runs out of its time budget, or dies, tells
  nothing (`Timeout`, `Crash`). `docs/api-contract.md`:88: one command, one job.
  Polling may lose the command (publishing fails after the offset has moved; the
  poller logs it, and `ConfirmedWasHandled` takes it as handled), the webhook may double
  it (the acknowledgement fails after publishing, and Telegram repeats).
  `PublishedOnlyWhileOwed` bounds the doubling by the confirmation, and for the poller
  by its restarts.
- Shutdown. `worker.py`:34: a hung job cannot outlive the pod's shutdown budget. Nothing
  bounds the requests that uvicorn answers first (`held`): a probe that hangs longer
  than 17 s may cost the last threads, one that hangs for 90 s the jobs.
- Storage and money. `docs/design/reliability.md`:198: storing again is an
  idempotent overwrite. A cancelled upload goes on in its thread (`LateUpload`) and
  may replace what the next attempt stored; so may an attempt that overlaps. And a
  reply whose ack was lost is told again: the next attempt overwrites its files, or
  only the text if it fails at the image's upload, which leaves text and image of two
  attempts. `ReplyMatchesArchive` names these three kinds of replacement
  (`MayReplace`), and each is needed. `metrics.py`:38 and 48:
  a job's cost observed once, and all costs in total. An attempt that fails after
  paid calls is not counted, a job that is repeated is counted twice.
- Registry. `characters.py`:164: the bot that was running keeps running when a
  registry does not validate. The web tier is recreated, so it is down until the
  rollback. `characters.py`:5: no stale cast. A worker that crashed during a
  release that failed keeps the registry of that release, an edited file is not
  read before the next start.
- Stories. `docs/api-contract.md`:116 and 120: story text plus image, delivered
  only if the model stopped cleanly. An answer without a finish reason passes, and
  one of a single illustration line is delivered as an empty story. `commands.py`:71, 80
  and 98 split at blanks only: a command that a line break follows is not
  recognised.

## 5. Fairness

- `PubSubQueue`: threads and the loop keep running; a worker settles what it
  holds since `wait_for` bounds the job, but owes nothing once `close()` begins,
  because its loop has ended by then; `close()` is not abandoned and each of its
  waits has a timeout. Pub/Sub owes no delivery, no expiry and no failure.
- `PubSubStream`: the loop and callbacks run, sleeps end, and `subscribe()` does
  not raise for ever (it only starts a background stream): weak fairness of
  `Reopen`, none of `ReopenFails`, `StreamEnds` or `BeginClose`.
- `JobDelivery`: each await ends within the budget (weak fairness of the slot's
  step), Kubernetes starts pods again, a lease without worker ends, and Pub/Sub
  offers a deliverable message again and again (strong fairness of delivery, as
  workers come and go). No fairness for commands, stops, crashes and expiry.
- `Intake`: handlers end; Telegram posts again; what is tried for ever (a poll,
  a publish, an answer) gets through some time: strong fairness. Restarts are
  bounded.
- `InMemoryQueue`: every await of a worker returns, is cut off by its budget or
  is cancelled; nothing is assumed of the dispatcher, so a `put()` waits for as
  long as nobody makes room.
- `Rollout`: kubelet and controllers carry on, helm's wait ends. Nobody has to
  release anything, nothing has to crash.
- `StreamProbe` and `Shutdown` bound time instead: a clock that may not pass what
  is due. `StoryMaking` and `JobAttempts`: safety only, no fairness.

## 6. Proofs

Checked by TLAPS for all values of the constants that satisfy the modules' named
assumptions, which TLC evaluates on every run. The assumptions say that numbers
are numbers, that "nothing" is no delivery, that the two tiers have different
pods; `DeliveryAssumption` does not relate lease and budget.

`PubSubQueue_proof`. The properties are not inductive: that a worker's
acknowledgement settles a message for the first time depends on where the
receipt has been before. The invariant `IInv` therefore says that the stages
`fresh`, `callbacks`, `handoffs`, `buffered` and `inFlight` are disjoint and
that a receipt has been settled no time while it is in one of them and at most once
after all; that `deliveries`, `got` and `held` name each receipt at most once and
fit `buffered` and `inFlight`; and, for `close()`, that every hand-off still
scheduled while it flushes is one the loop runs `ahead` of it. `TypeCorrect`,
`SettledOnce`, `HolderIsUnique`, `NoneStranded`, `CloseReleasesAll` and
`NacksAreSent` follow from it, `CloseStopsHandOffs` is an action property from
the same invariant, and `PortImplemented` maps each step to one of `QueuePort`
or to a stutter.

`InMemoryQueue_proof`. `OneCopy` and `NoJobLost` together are almost inductive;
`IInv` adds which steps of a worker hold a delivery. `PortImplemented` is the
second implementation of the port. `PutBackWaitsForFullQueue` bounds what
`StuckOnFullQueue` needs: since no job is queued twice and the worker's own is not
queued, its `put()` has room while the jobs that are not done are at most `Capacity`.

`PubSubStream_proof`. `OneAfterAnother`: when a stream is opened, the callback of
every earlier one has returned, and the supervisor that opens it was the last. From that the future can only be the newest stream's, which gives
`OpenIsHeld`; `CloseIsFinal` needs that after `close()` has the lock no
`_subscribe` is under way; `RecoveryUnderWay` says that a process that reports
unhealthy has somebody who will reopen the stream. `OnlySubscribingIsBlind` is
about the violation of `stream_outage`: under `EndsAfterSubscribe`, no stream ends
between `subscribe()` and `_stream_alive = True`, the flag stands for an open stream
with its callback registered or for a callback that is about to take it back
(`FlagIsBacked`). So the window in `_subscribe` is all there is to repair.

`JobDelivery_proof`. `IInv` ties the step a slot is in to what has happened: from
`send` on both files are stored, from `photo` on the story is shown, at `ack`
story and picture are; a slot's attempt is at most `attempts[j]`, and two slots
have different attempts of one job, so only one can be the last, which bounds
apologies. `TypeCorrect`, `AckedIsReplied`, `ShownWasStored` and `ApologyIsLast`
follow. `RepliesAreBounded` needs a count: the stories shown and the attempts that
can still show one (`ToShow`) are together at most the attempts, and likewise
the pictures and the attempts that owe one (`AtPhoto`) at most the stories; each
step moves an attempt from one side to the other. `Implementation` shows that `Init`
maps to the contract's `Init` and that every step maps to a step of the contract
or a stutter. `LongLeaseSuffices` is about the violation of `job_overlap`: with
`JobTimeout <= LeaseSeconds`, and while no stream terminates (`SteadySpec`), every
worker's delivery is the current one under a lease that holds (`LeaseHeld`), so
`NoConcurrentWork` holds for any number of jobs, loops and attempts.
`docs/design/reliability.md`:214 recommends such a lease (`JOB_TIMEOUT + 30`, the
rest for the time in the buffer). It does not end all overlap: a stream that
terminates under a running job (`LeaseLost`) causes it with any constants, which is
why the other theorems about jobs are of `Spec`.

`Intake_proof`. `BatchIsRest`: the poller's offset and its batch pass over nothing
that has not been handed to the dispatcher; besides, updates are sent in order, and
a handler that says "enqueued" has a job. `NothingUnhandledIsConfirmed`,
`ConfirmedCommandHasJob` and `PollingKeepsOrder` follow. `PolledOncePerStart` bounds
how often one command costs a job: `BegunIsBehindOffset` says that a process has
the offset past whatever it has begun, so only a later process can publish a
command again. The webhook has no such bound: Telegram repeats a post for as long
as its answer is an error. For both, `RepeatsAreBounded` says that a command is
published only before its confirmation: what is handled or waits in the batch is
not confirmed (`OwedInv`), since the poller asks again only when it has nothing
left and the webhook's answer is the last step of its handler.

`JobAttempts_proof`. `Progress` says what a step presupposes (both calls billed
before the first upload, the text stored before the image). For `ArchiveIsReply`,
`Owned` says of every file an attempt has stored, from the upload on, that it is
still there or that its replacement is one of the three `MayReplace` names, and
`Serial` that an older attempt is over or noted as overlapping; who writes next is
then a later attempt that has paid for both files, an older one that overlaps, or a
cut upload. The theorem is about every reply at every time, not only the newest.

`Deployment_proof`, about `Shutdown`. `Budget`: each stage ends by the sum of the bounds up to its own.
`FitsIntoGrace` and `ReleasesBeforeKill` turn that into the inequality the
configured numbers have to satisfy: 30 + 11 + 2 + 60 s and what the open requests
take must stay below 120 s, which leaves 17 s for requests.

`Deployment_proof`, about `Rollout`. `NoPodLeftBehind` fails to be inductive because a container reads
the ConfigMap when it starts, not when its pod is made. `IInv` adds that while helm
is idle every pod is up and of the template, and that while a release is in progress no
pod of the last good release is starting: none of them can read the wrong registry.
That needs `OnePerTemplate` (one surge per template) and helm's numbering of
releases. `AlwaysAttended`, `SingleConsumer` and `RegistryIsDeployed` follow.

`Deployment_proof`, about `StreamProbe`. The chart's numbers become hypotheses.
`BlipsAreRiddenOut` needs `(FailureThreshold - 1) * ProbePeriod >= RideOut + 8`:
the failed probes before the last one take at least as long as the outage and the
sleep that begins in it, of at most 8 s (`Patience`: the sleeps so far, which
double, and the probes failed in a row fit into the outage and the time since it).
`BackInTime` needs `FailureThreshold *
ProbePeriod <= 2 * LongestWait`, 30 and 30 here, and a first probe no later than
one period after the start: the probes that are left come before the end of the
sleeps to come (`Impatience`), and a process that starts anew begins with the
shortest one. A restart decided within that wait of the outage's end, or before it,
has at most `RestartTime` to go (`Restarting`: the time since the outage and the rest of
the restart are together at most `LongestWait + RestartTime`). The configured 10 s and 3 failures
satisfy both with equality, which is why the limits are tight.

`StoryMaking_proof`. `StoryInvariant` says what each stage has settled: what is
answered is `Reaction` of what was read; from the job on there is one language,
the job's; a pod's registry and an attempt's cast are a whole valid file or
nobody; both prompts of an attempt are composed of that one cast; a story has no
marker. No pod works before there is a job, which TLC never needs to be told and
the induction does. Most of the work is in the operators: `strip()`,
`partition()`, the loop of `split_illustration_hint` and the sum in the prompt's
length are treated for all inputs. Where they recurse, the prover's lack of
induction is replaced by a smallest counterexample: `SmallestOf` gives the first
line, or the smallest set of characters, at which a claim would fail, and the
step before it refutes that. (`StoryLines` is written as this loop for that
reason, and not with `SelectSeq`.) `PromptFits` adds up 44 + 400 + 142 + 57 + 7 +
8 * 345 = 3410 characters, below the cap of 4000. `WholeStoryIsRead` is more than
`NoMarkerInChat`: there is a map from the lines sent to those of the answer
(`IsWithout`) that keeps their order and misses no prose.

Model-checked only: every liveness property (`EventuallySettled`,
`CloseCompletes`, the supervision's, the intake's, `StopEndsUnlessFull`,
`RolloutEnds`, the fairness part of `ImplementsContract`), since liveness under
fairness is beyond the prover. Each safety property of a run that passes is
proved. `PlainTextIsTheScene` is proved only (`PlainTextIsKept`): what one pure
operator returns needs no run.

## 7. How the plan stands

Done, in the order of their importance: message path, delivery, supervision,
intake, in-memory queue, the data of a story, the queue port, versions of stored files,
the clocks of shutdown and probe, rollouts, and the proofs above.

Left out on purpose: a composition of `PubSubQueue` and `JobDelivery` in one
state space, which both port and contract make unnecessary for safety (each module
assumes of the other only what the port says); symmetry, which the liveness
properties rule out.

## 8. Not modelled

- Which adapter a setting names: read once at start, no state afterwards.
  `Rollout` has what a start refuses.
- Telemetry, logging, token redaction, gauges: observation only.
- Fake providers and the Telegram client's disabled mode: stand-ins for development.
- Readiness, the webhook's secret check, the info endpoints: no state.
- Wording of prompts and replies, prices and token counts.
- Services, accounts, resources and the Terraform files besides the
  subscription's numbers: declarative.
- Deletion and eviction of pods outside a rollout, which their ReplicaSet replaces at
  once: `Rollout` has releases, rollbacks and containers that die in their pod.
- Retry backoff of the subscription and the poller: the models without a clock allow
  any delay.
- The dead-letter subscription's own retention: nothing consumes it.
