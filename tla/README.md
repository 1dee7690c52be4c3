# A TLA+ development for vision-forge

vision-forge serves computer-vision models: a FastAPI service and a browser
page in front of a cache of lazily loaded backends, with circuit breakers, rate
limits and background video jobs, and a CenterNet detector that is trained,
decoded and evaluated by its own code. This directory holds TLA+ modules of the
parts whose correctness depends on who does what in which order, and of the
detector's algorithms as they meet in evaluation and inference, TLC
configurations that check them on small instances, and TLAPS proofs of the
properties that matter most for instances of any size.

The modules are translated from the Python (and JavaScript) source, one action
per handler, or per assignment where threads share a field without a lock.
`PROJECT.json` says for every definition which lines it stands for.

    tlc -workers 2 -config MCJobManager.cfg MCJobManager.tla
    tlapm JobManagerProofs.tla

## 1. The system

| part | source | state | operations | talks to |
|---|---|---|---|---|
| circuit breaker | `reliability.py` 19-89 | `_state`, `_failures`, `_opened_at`, a lock | `state`, `allow`, `record_success`, `record_failure`, `call` | owned by the model manager |
| retry | `reliability.py` 92-136 | none (an attempt counter) | `retry_call` | model loads |
| model manager | `models/manager.py` | `_cache` (LRU), `_breakers`, `_warmed`, a lock | `get_backend`, `infer`, `infer_batch`, `warmup`, `is_ready`, `shutdown` | registry, breakers, metrics |
| registry | `models/registry.py` | `_cache` of built backends | `resolve`, `default_backend`, `available`, `get` | backends |
| backends | `models/*_backend.py`, `models/centernet/infer.py` | model or session, loaded lazily, no lock | `load`, `infer`, `track` | torch, onnxruntime, ultralytics |
| job manager | `worker/jobs.py` | `_jobs`, `_futures`, `_executor`, `_shutdown`, one lock; a `JobState` per job, unlocked | `submit`, `_run`, `get`, `list_jobs`, `cancel`, `shutdown` | thread pool, model manager, gauge |
| arq worker | `worker/arq_worker.py` | none | `process_video_job`, startup, shutdown | job manager, redis |
| rate limiter | `security/ratelimit.py` | `_buckets`, a lock; a lock per bucket | `check`, `reset`, `clear` | `require_api_key` in `api/deps.py` |
| authentication | `security/auth.py`, `api/deps.py` | none; keys in the environment or the database | `authenticate`, `require_api_key` | repository, rate limiter |
| validation | `security/validation.py` | none | size, type and magic-number checks | server |
| HTTP server | `api/server.py`, `api/middleware.py`, `errors.py` | `app.state`, the metrics | lifespan, `/infer`, `/batch`, `/jobs`, `/ready`, ... | all of the above |
| stream | `api/server.py` `ws_stream`, `api/web/app.js` | a connection; `sendBusy`, `ws`, `stream` in the page | frames one way, results the other | model manager |
| training loop | `models/centernet/engine.py` | weights, optimizer, `best_map`; `last.pt`, `best.pt`, `best_slim.pt` | `train`, `evaluate`, `save_checkpoint`, `load_checkpoint` | the file system |
| detector algorithms | `models/centernet/{postprocess,metrics,targets,infer}.py`, `core/schema.py`, `models/onnx_backend.py` | the metric's scores and counts | targets, peak finding, top-k, NMS, decoding, letterbox, AP, boxes | backends, training |
| network, data set | `models/centernet/{model,losses,dataset}.py` | weights | `forward`, the losses, `__getitem__` | training, evaluation |
| persistence | `db/` | the tables `jobs` and `api_keys` | `JobRepository`, `ApiKeyRepository` | auth; the job repository is used by tests only |
| frame sources | `core/video.py`, `pipeline.py` | a capture device | `iter_frames` | jobs, pipeline |

Logging, drawing, encoding, the command line and the scripts carry no control
that a model checker would add anything to.

### Where it is hard, and what must hold

* **Threads.** Jobs run in a pool and warmup in a thread of its own, beside the
  event loop, in whose handlers inference is a plain synchronous call. So
  managers, breakers, buckets, backends and `JobState`s are shared. Locks are
  short: nearly every method takes one twice, or reads after it let go. What
  must hold: callers of a backend share one breaker, a polled job makes sense, a
  limit is a limit.
* **Awaits.** Requests interleave wherever a handler awaits, and keys are
  revoked, databases fail and processes restart in between. What must hold: a
  revoked key stays revoked, a good one works, a refused request has done
  nothing, counters tell the truth.
* **Geometry.** Boxes pass through a resize, a stride, clipping, rounding and
  suppression, twice: as targets and as results. What must hold: what is encoded
  can be decoded, boxes stay ordered and inside, both implementations of a step
  agree, the number that chooses the best model is what it is called.
* **Order.** Calls let through by a closed breaker come back when it is open;
  a cancellation is accepted after the job has ended; frames and uploads are
  answered out of order. What must hold: the breaker backs off after the last
  failure, a finished job stays finished.
* **Failure half way.** Loads, frames, writes and submits raise in the middle
  of a method. What must hold: every call and every job comes to an end, and
  counts itself out once, unless a shutdown has stranded it (see the list in 3).
* **Time.** Breakers recover, buckets fill, `retry_after` is promised. What
  must hold: nobody waits too short or too long, nobody waits for ever.
* **Crashes.** Training is killed and resumed. What must hold: no epoch is
  lost or run twice, there is something to resume from, the best model stays.

## 2. The modules

| module | models | status |
|---|---|---|
| `Breaker` | the `CircuitBreaker` object: its methods as operators on a record | complete |
| `CircuitBreaker` | threads calling through one breaker | complete |
| `CircuitBreakerProofs` | theorems about it | 4 theorems |
| `JobLifecycle` | abstract: what a client may rely on about a job's status | complete |
| `JobManager` | `submit`, `_run`, `get`/`to_dict`, `cancel`, `shutdown` | complete |
| `MCJobManager` | the bound TLC needs for it | |
| `JobManagerProofs` | theorems about it | 6 theorems |
| `ArqWorker` | the arq task on top of `JobManager` | polling loop |
| `ModelManager` | cache, breakers and registry, any number of threads (extends `Breaker`) | complete |
| `MCModelManager` | the callers the service has | |
| `ModelManagerProofs` | theorems about it | 3 theorems |
| `RateLimiter` | `check`, `reset`, `clear`, with real token arithmetic | complete |
| `RateLimiterProofs` | theorems about it | 4 theorems |
| `Training` | `train` with its checkpoints, crashes and resumes | complete |
| `TrainingProofs` | theorems about it | 4 theorems |
| `WebStream` | the page's webcam stream against the `ws_stream` handler | without uploads |
| `WebStreamProofs` | theorems about it | 3 theorems |
| `Boxes` | clamping, ordering, IoU, ranking, greedy suppression | operators |
| `Network` | the shapes of CenterNet's feature maps | operators |
| `Targets` | Gaussian radius, splats, `build_targets` (extends `Boxes`) | operators |
| `Decode` | peaks, top-k, boxes from heads, in torch and in NumPy (extends `Targets`) | operators |
| `MeanAP` | `update` and `compute` of the metric (extends `Boxes`) | operators |
| `Evaluation`, `MCEvaluation` | `evaluate` over a data set: composes the five above | complete |
| `Inference`, `MCInference` | the six backends from an image to JSON (extends `Decode`, `Network`) | without concurrent loads |
| `DetectorProofs` | theorems about `Boxes`, `Network`, `Inference` and `Evaluation` | 14 theorems |
| `Registry` | which backend serves which task | operators |
| `Service`, `MCService` | requests, streams, keys, limits, errors, restarts (extends `Registry`) | without read-only routes |
| `ServiceProofs` | theorems about `Service` and `Registry` | 5 theorems |

### Breaker, CircuitBreaker

A breaker is a record `[state, failures, openFor]`. `_opened_at` is an absolute
time in the code and only ever compared with the clock, so the model keeps the
time since, in ticks, saturated at `RecoveryTimeout`; failures saturate at
`FailureThreshold`, the only number they are compared with. Every method is
atomic because the code holds the lock through it. `call` is not: `Admit` (or
`Reject`), then `Succeed` or `Fail`, and any number of callers are in between.
`Flip` breaks and repairs the dependency; `Probe` is a look at `state` or
`allow` without a call, as `is_ready` does. `streak` and `quiet` are histories
of what callers saw.

### JobLifecycle, JobManager

`JobManager` has one step per statement that another thread can tell apart. A
job's `pc` goes through `submit` (`new`, `registered`, `counted`, then `queued`
or `raised`), through `_run` (`frame`, `infer`, `count`, `progress`, `total`,
`full`, `succeed`, or `fail` and `error`) and out through its `finally`
(`leave`, `done`). `dropped` is what `cancel_futures` leaves. Polling reads one
field per step in the order of `to_dict`; `cancel` is a check and an
assignment; `shutdown` is its flag, the pool's shutdown and the wait. The
executor is external: a FIFO queue with `MaxWorkers` threads, whose `submit`
raises once it is shut down. Pools have numbers because `_ensure_executor`
makes new ones. Frames and results are counted; what is in them is abstracted.
`JobManager` is shown to implement `JobLifecycle` with `status` the status of a
visible job and `asked` the set of flagged ones.

`list_jobs` and `result` only read, like `get`. The `_futures` dictionary is
written and never read.

### ArqWorker

Adds a task per job that polls the status through `str()`, as the code does.
`StrOf` gives what `str` gives for a `JobStatus(str, Enum)`: class and member
name.

### ModelManager

A thread that calls `infer` goes from `idle` through `loading` and `loaded`, or
by a hit, to `fetched` (it has its breaker) and `inferring`; `warmup` ends when
its key is loaded. Loading is outside the lock, so two threads may load one
key. Breakers are objects on a heap, named by key and number, since an evicted
or shut-down key's breaker lives on in the threads that fetched it.
`IsReady` has the side effect the code has: `allow` may half-open breakers.
`overtaken` and `recency` are histories. The retries of a load are inside one
step: an attempt changes nothing modelled here.

### RateLimiter

One token is `Minute` units and one tick the `Minute`-th part of a minute, so
a bucket of rate `r` gains exactly `r` units a tick: fractions of tokens without
fractions. `check` is `GetBucket` under the global lock, then `Allow` or `Deny`
under the bucket's; a bucket dropped by `reset` in between lives on in the
thread that holds it. Its cost is 1, the only value the service passes. A
bucket keeps the rate of the call that made it. `hits` counts what was let
through, tick by tick. `require_api_key` rounds `retry_after` to hundredths of a
second: `Grain` is that many ticks, and `RetryAfter` the nearest multiples of it,
either one of two that are equally near. `wait` counts down, in half ticks, what
is left of the time told and half a `Grain` more.

### Training

One process works on an output directory; `Stop` kills it anywhere. An epoch is
`BeginEpoch`, its batches, `Evaluate` (any mAP), then one, or three, files.
`torch.save` is two steps, `Open` and `Close`: the file is torn in between.
`StartFresh` and `Resume` are the two ways into `train`; a torn file raises in
`torch.load`, and a path that is not there is a fresh start, as in the code. A
checkpoint records epoch, mAP of its weights, steps its weights have taken and
`best_map`. `target`, `won` and `champion` are histories of the mAPs seen.

### WebStream

The page's script is one thread, so an action is one callback up to its next
`await`: `startWebcam` is `ClickStart`, `GotMedia`, `OpenSocket`, `Opened`, and
may fail at each (`StartFails`, `ConnectFails`). The n'th start names its camera,
socket and animation loop n, because the globals `stream`, `ws` and `rafId` may
be overwritten by a later start while the earlier objects live on: Start is not
disabled until a socket is open. `onmessage` comes only from an open socket (a
browser delivers nothing after `close()`); `onclose` of any socket writes the
label. The handler infers on the event loop, so a frame is taken and answered in
one step, `Answer`; `Break` is an exception or a broken connection,
`Disconnected` the page's own close. What frames show is abstracted. `lost` and
`careless` are histories: a socket went down with a frame or its answer under
way; a start was clicked during another. A start that was refused the camera or
the socket is `failed` from then on. `beforeunload` ends the page and is left out.

### Boxes, Network, Targets, Decode, MeanAP

Pure operators, each in the exact arithmetic its code approximates. A module
names its unit: `Targets` and `Decode` count in eighths of an output cell, so
that centers, halves and offsets of whole-pixel boxes are whole, and the product
with the stride is in the choice of the unit. A threshold on an IoU is compared
by cross-multiplication, which the code's `1e-9` does not change. Heat is
abstracted to its order: `exp` of the splat is monotonic, so two splats compare
as their distances over their squared diameters do, which `Spread`, a common
multiple of those, makes whole. There is one for any `MaxRadius`, and
`RadiusAssumption` says that no box has a larger radius. Square roots of
`gaussian_radius` are solved for and squared. Orders that `argsort` may choose
between equal scores are all there (`Rankings`). `Network` follows the side and
the channels of a square feature map through every layer.

`Decode` declares the constants that `Evaluation` and `Inference` share (`Size`,
`NumClasses`, `TopK`), and the two name their initial predicates and next-state
relations differently, so that one module can extend both and prove things about
them from the same lemmas. What is computed by a loop (splats, suppression,
running sums, the envelope) is a recursive function, for the same reason.

### Evaluation

One image at a time: `RenderShapes` or `ReadAnnotated`, `Augment` (a flip or
none), `Encode`, `Predict`, `DecodeImage`, `Update`, and at last `Compute`.
`Predict` is the external network: it gives back its targets, for a center that
two objects share either's size and offset; or it misses one object, or sees one
of `Ghosts`. `flawless` is a history: the network was right, and the image was
one that targets can express, which is what `PerfectNetworkScoresOne` is about.

### Inference

`Receive` is an image with what an ideal network sees in it: `blobs` in the
heads of CenterNet, `seen` objects for the others, `stray` rows of an imperfect
one. Each backend answers once, from the same image, so that answers can be
compared; `Send` is `to_dict`. `CannotLoad` is a load that raises. Result
coordinates are in parts of a pixel such that both resizes divide; the only
rounding is that of `to_dict`, and it is there.

### Registry, Service

A slot holds a request between two awaits: `Arrive`, then the gate (`Refuse`,
`Limit` or `Enter`, which is `require_api_key` with the limiter's `check`, and
the handler up to its first await), `ReadFile` for each upload, with the
inference after the last, and on the way out `Handle` for an error of the
project's, `Count` or `CountException` in the middleware, `Rescue` for an
exception of someone else's, which Starlette answers outside all middleware. The
dependency runs before the form is complained about, as in FastAPI. Streams look
at the key once, before `accept`; `Outcomes` says what each kind of message can
come to. `CreateKey` and `Deactivate` are the operator's, in sessions that
commit; `DbFails` makes sessions raise. `Down` ends the process with everything
it held, `Start` is a new one with `validate_startup` and a database that may
not open. A bucket has whole tokens here. `issued`, `revoked`, `answered`,
`drawn`, `ran` and `made` are histories: what the operator and the clients were
told, and what a request has done.

## 3. What is checked

Every property below has a mutant, a plausible bug in a mapped definition,
which TLC finds by that property; they stand in the modules, marked
"Mutant".

| run | what it asks | bounds | states |
|---|---|---|---|
| `breaker` | stragglers: `BackoffRespected`, `NeverRejectsWithoutCause`, `EventuallyWilling`, `RecoversWhenHealthy`, `BreakerInv` | 3 callers, threshold 2, timeout 2 ticks | 286 |
| `jobs` | all interleavings: `SnapshotCoherent`, `GaugeOffByStranded`, `CancelStopsWork`, `RefinesLifecycle`, `EndsUnlessDropped`, `ShutdownComesBack`, `JobInv` | 2 jobs, 1 worker, 2 frames, caps 1 and 2, 1 shutdown, `Bounded` | 232 thousand |
| `jobs_rebuild` | is the pool usable after a shutdown? No: finding 1 | 2 jobs, 2 shutdowns | |
| `arq_poll` | does the task return? No: finding 2 | 1 job | |
| `models` | `CacheIsMostRecent`, `OneBreakerPerKey`, `BecomesReady`, `CallsReturn` | 2 threads, 3 keys, 2 cached | 152 thousand |
| `ratelimit` | `NeverTooMany`, `NeverTooFew`, `RetryAfterClose`, `NobodyStarves` | 1 key, 2 threads, rates 1, 2 and 4, minute of 3 ticks, waits in units of 2 | 231 thousand |
| `training` | `ScheduleInStep`, `BestOfRun`, `SurvivesOneStop`, `RunEnds` | 3 epochs of 2 batches, 3 mAPs, 2 stops | 31 thousand |
| `stream` | `OneFrameOut`, `NothingLeaks`, `StreamsUnlessLost` | 3 clicks on Start | 321 thousand |
| `training_best` | is the best model kept? No: finding 3 | 3 epochs of 1 batch, 1 stop | |
| `evaluation` | `RadiusKeepsOverlap`, `TargetsAreLearnable`, `PerfectNetworkScoresOne`, `ObjectsFoundOnce`, `ApIsArea` | 2 images of 128 pixels, 1 or 2 of 5 shapes or one of 3 annotations each, 3 ghosts, top 3 | 66 thousand |
| `inference` | `ResultsWellFormed`, `PathsAgree`, `SeenWhereItIs`, `SuppressionJustified` | 4 image shapes, up to 3 of 9 blobs, of 6 objects, 2 stray rows, top 2 | 39 thousand |
| `service` | `GateIsFair`, `RejectedLeavesNoTrace`, `CountersBalance`, `EveryoneAnswered` | 2 requests of 12 forms, 4 kinds of key, 3 settings, 1 stream, 1 token | 138 thousand |

Why these bounds are enough:

* *breaker*: with three callers two can fail and open it while a third is still
  in flight, which is every kind of straggler; the timeout of two ticks tells "not yet"
  from "now" and from "long ago".
* *jobs*: jobs share the queue, the pools, the gauge and nothing else, so two of
  them meet in every way with one worker. Two frames are a first, a last and a
  cancellation between them. `MCJobManager!Bounded` cuts combinations that
  cannot influence one another: a poll reads one job, so it is explored for a
  job alone and without shutdowns; a cancellation is explored for a job that is
  alone or has others waiting; one job at most has a cap above one frame. The
  theorems of `JobManagerProofs` hold without any of these cuts.
* *models*: with room for two of three keys there are evictions; the third key
  is needed so that a key can be evicted, and come back, while another stays.
  The first thread uses every key, the second one key: a straggler with a
  breaker in hand for the others to overtake. `warmup` is called at startup only.
  One failure opens a breaker; counting is `CircuitBreaker`'s matter.
* *ratelimit*: keys share nothing. Minute 3 with rates 1, 2 and 4 gives a
  third, two thirds and four thirds of a token per tick, so remainders, caps and
  exact hits all occur; rate 0 is the default. With a grain of 2 ticks waits are
  rounded up, down and, from the middle, either way. Two threads are what it takes to
  draw from a bucket that a reset has dropped.
* *training*: the second epoch has both a past and a future; three mAPs give
  rise, fall and tie; two stops are one more than `SurvivesOneStop` forgives.
* *evaluation*: the shapes and annotations are picked so that centers are
  shared, splats meet, the border clips a box to nothing, an image has more
  objects than slots and one of an unknown class, a side has its radius decided
  by each of the quadratics, and a ghost is half an object. Two images are what it
  takes to interleave scores of several images in one ranking.
* *inference*: three things are a chain (one suppresses a second that would have
  suppressed a third); blobs lie at opposite borders, share a cell, have no area,
  or miss the threshold. The images are square, tall, flat enough to round to
  nothing, and of a shape where both sides round.
* *service*: two requests at once or in a row, with everything else in between,
  meet in the buckets, the counters and the keys, which is all they share. A
  form for each route and each way to fail. `MCService!Apart` explores
  streams only while no request is in progress: they share nothing but the keys.
* *stream*: two sessions may overlap or follow one another, and the third tells
  what either leaves behind.

The type invariants are not among the runs' properties. Those of
`CircuitBreaker`, `JobManager`, `Training`, `WebStream`, `ModelManager`,
`RateLimiter` and `Service` are proved; of `Evaluation` and `Inference` the
proofs have the parts they need.

The configurations of `JobManager`, `ArqWorker`, `WebStream`, `Evaluation` and
`Inference` say `CHECK_DEADLOCK FALSE`: when all jobs are done and the shutdowns
used up, the clicks are and the page is idle, the metric is computed or every
backend has answered, the model stops, by its bounds. The others never stop.

### Fairness

Weak fairness only, of steps that a running thread takes by itself: a submit
that has begun goes on, a worker goes on with its job, a call that was let
through comes back, a load ends, a training process that is not killed goes on,
the clock ticks, a visible page runs its callbacks, sockets open or fail and
deliver, and a request that has come in is served up to its answer, each
slot by itself, because an event loop runs whatever can run. The code justifies
each: sources are capped, and no lock is held while waiting. Nobody is obliged to start anything: no fairness for new
calls, submits, cancellations, polls, shutdowns, starts of training, or stops.
The properties that need callers (`RecoversWhenHealthy`, `NobodyStarves`) say
so in their hypothesis.

Two assumptions come from outside: an inference ends, with an answer or an
exception (a hanging backend would hold up its job and a waiting shutdown), and
a load ends.

### Findings

1. `worker/jobs.py:154`. `shutdown` is not locked; a submit between its two
   statements leaves a manager whose pool is closed and whose flag is down, and
   every later submit raises.
2. `worker/arq_worker.py:49`. `str(status)` never ends in "succeeded"; the task
   polls for ever.
3. `models/centernet/engine.py:266`. `last.pt` carries the `best_map` of the
   epochs before; after a resume a worse model overwrites `best.pt`.

Things the models show as they are, without a run of their own:

* `active_jobs` is too high for good after a shutdown, though `metrics.py:126` calls
  it the "Number of in-flight background jobs.": `cancel_futures` drops queued jobs
  (`jobs.py:155`), and a submit whose pool is down by then raises after it has
  counted (`jobs.py:91`); neither job is ever counted out, and both stay PENDING.
  `GaugeOffByStranded` says that the gauge is off by these and by nothing else.
* `cancel` may tell a client `cancelled` of a job that has just ended
  (`jobs.py:140`); the job stays as it ended.
* `retry_after` is rounded to the nearest hundredth (`deps.py:102`), so it may be
  up to 5 ms short: a client that waits exactly that long can be refused once more.
  `RetryAfterClose` is about what it can rely on.
* A bucket keeps the rate it was made with (`ratelimit.py:48`): a new
  `rate_limit_per_min` counts from the next restart on.
* A start that fails after the camera was granted leaves it running: the alert of
  `startWebcam` (`app.js:282`) closes nothing, Stop stays disabled, and the next
  start overwrites `stream`, so that nobody stops that camera any more. Two starts
  that overlap do the same, and leave a socket too. `NothingLeaks` excepts both.
* `reliability.py:65` lets every caller through while half-open, where the
  docstring (33-34) says one trial call; `BreakerInv` and the liveness properties
  hold with any number of them.
* `models/manager.py:142`: a call under way can register the breaker of an
  evicted key again, and `is_ready` may then be true because of a model that is
  not loaded (122 says otherwise).
* When Stop, or the network, closes a socket with a frame under way, `sendBusy`
  stays up for good (`app.js:235` is the only reset), and no later Start sends
  anything until the page is reloaded. This is the `lost` in
  `StreamsUnlessLost`. Resetting `sendBusy` in `stopWebcam` alone is not the
  cure: the mutant `StopWebcamResets` lets two frames out when a start overlapped.
* `np.roll` (`infer.py:106`) joins opposite borders, and the ONNX backend always
  has the names of the shapes, so the "interchangeable" backends (`infer.py:3`)
  agree under the conditions that `PathsAgree` spells out. `torch.topk` raises
  when `topk` exceeds the cells of the map (`postprocess.py:35`); the NumPy path
  does not.
* `model.py:202` speaks of stride 4 for any input, which holds when 32 divides the
  side (`Network!HeadSide`); other sizes end in a loss that raises.
* A letterboxed side may round to 0, and `cv2.resize` raises (`onnx_backend.py:127`).
* The metric takes the nearest object first and asks afterwards whether it is
  matched (`metrics.py:86`): a second row of a matched object is false even if
  another object is near enough too.
* All keys of the environment share one bucket, `key:0:env`; a presented key that
  nobody knows is refused even where none is needed; a database that fails turns
  good keys away with 401. These are the exceptions `GateIsFair` names.
* An open breaker raises a `RuntimeError`, which is `inference_failed` (500) for one
  image and `internal_error` for a batch, and so is an unknown backend.
  FastAPI's own 422 has no `error` envelope (`server.py:17`), and an unexpected
  500 bypasses the security headers (`middleware.py:70`, "every response").
* A stream message that is no object, or whose `frame_index` is no number, closes
  the socket (`server.py:426`), where README.md:331 of the repository promises an
  error message; streams draw no tokens and keep going after their key is
  revoked.
* A default detector nobody knows is found out by the first request.

## 4. What is proved

TLAPS checks these for every value of the constants. Where a theorem states a
property of a run, TLC checks it on the small instance as well.

**CircuitBreakerProofs**, for any set of callers, any timeout and any threshold of
at least 1. `TypeCorrect`; `BreakerInvariant`: the failure count is the streak,
the state is a function of it outside the transition to half-open, and
`_opened_at` is the time of the last failure. This invariant is inductive with
`TypeOK`. `Backoff` (an action property) and `RejectsWithCause` follow from it:
both are about what callers saw, `streak` and `quiet`, while the code decides by
`failures` and `openFor`, so the equation of the two is the whole argument.

**JobManagerProofs**, for any jobs, workers, frames and shutdowns. `TypeCorrect`
needs `PoolInv` (a pool is built only after a flag went up) to bound the pools.
`JobInvariant` is the inductive invariant `JobInv`, in named parts: `StageInv`
(status and program point), `CountInv` (results, processed and total follow one
another), `PollInv` (what each field read so far still says about the job),
`PoolInv`, `LateInv`. The lemma `JobAdvances` is the heart of it: a job's
counters only grow, and nothing moves once it has succeeded, so what was read
stays true. `SnapshotsCohere` and `CancelStops` follow. `Refinement`: a step of
`JobManager` is a step of `JobLifecycle` or a stutter. `GaugeIsOffByStranded` rests on
`GaugeInv`: the gauge is the cardinality of the jobs counted in and not out,
which are finitely many even if the ids are not; a step either moves one job
over that line and the gauge by one, or neither. These are the jobs in flight and
the stranded ones, and by `StrandedInv` nothing is stranded, and no pool is down,
before the first shutdown.

**TrainingProofs**, for any epochs, batches (none included), mAPs and stops.
`TypeCorrect`. `Schedule`: `ScheduleInStep` is inductive with the types; its
arithmetic is one lemma, `NextEpoch`. `Best` rests on `BestInv`, which follows
`best_map`, the mAP at hand and `best.pt` through the points of an epoch.
`OneStop` rests on `SafeInv`: only the file being written is torn before the
first stop, and `best.pt` is written only while `last.pt` is whole.

**WebStreamProofs**, for any number of starts. `TypeCorrect`. `OneFrame`:
`OneFrameOut` is inductive with the types; the lemma `LoopSendsOne` is the step
that sends, `FewerIsFine` the steps that lose something.

`CarefulUseIsTidy` needs `CarefulInv`, since `NothingLeaks` does not say what is
about to happen: while starts do not overlap at most one is pending, the buttons are in
opposite states, a socket that connects is the global one, and behind an enabled
Start nothing runs but cameras of failed starts and of the pending one.

**ServiceProofs**, for any number of requests at once, any forms, keys, hosts,
limits and uploads. `ResolvedServes` is about `Registry`: what is resolved is no
alias and supports the task. `RejectionsAreClean` rests on `TraceInv`, an
invariant of each request by itself: nothing has happened for it before its last
file is read, and the files read so far are the first ones of the form and sound
(`ReadOneMore` moves that boundary). `TheGateIsFair` is an action property about
histories; the code looks at rows and buckets. `GateInv` equates them: the active
rows are the keys issued and not revoked, and what a bucket is short of is what its
one client has drawn. The bucket of the environment's keys has many clients and
is excepted, as in the property.

`MetricsTellTheTruth` is about sums over the counters of `/metrics`, which a step
changes in one place, while what it must equal is a history of what was answered.
`CountsInv` says so, and that every counter is a natural number; lemmas on sums
over finite sets (adding one to one entry adds one to the sum) do the rest. `TypesHold` puts the types those three
invariants speak of together with those of the jobs and the process.

**ModelManagerProofs**, for any threads, keys and size of the cache. `OneBreaker`
is inductive with `ManagerInv`: who holds a breaker is where in `infer`, and refers
to one that exists. That the fresh breaker of a key is nobody's is a pigeonhole
argument: there is one number more than there are threads.
`MostRecentAreCached` rests on `RecencyOK`: the history of uses without its
repetitions begins with the cache. Moving a key to the front of both, or putting
a new one in front and cutting the cache, keeps that; the lemmas are about
filtering a sequence. `TypesHold` adds what the heap of breakers holds.

**RateLimiterProofs**, for any threads, keys, rates and resolution of time.
`RetryAfterIsClose` rests on `RetryInv`: with `w` half ticks to go the bucket has
its token by then, and lacks it until a whole grain before (`Due`). `DenyIsDue` is
the rounding, `TickIsDue` keeps it; the cap on a bucket cannot interfere, because
a rate is at least one token.
`TheLimitHolds` and `NothingIsLost` share an invariant, `FlowInv`, a potential with
two sides: for each age in ticks, what was let through since, and what is in the
bucket now, together are at most a full bucket and what has come in, and at
least that if the bucket has not been full meanwhile. A call moves a token from
one term to the other, a tick shifts every age by one.
`TypesHold` comes out of the same induction.

**DetectorProofs** is about what the detector computes. For boxes and inputs of any
size:

* `NormalizedIsWellFormed`: `normalize_bbox` gives an ordered box inside the image,
  once is enough, and a good box is left alone. `IouIsARatio`: symmetric and at
  most 1, for reversed and empty boxes too. `HeadsFitTargets`: the heads of every
  variant have the side of the targets exactly when 32 divides the input's
  (`HeadSideIs`: eight cells for every 32 pixels begun). `ResidualsAdd`: the
  shortcut of a `BasicBlock` has the shape of its main path.
* `RadiusIsSafe`: the radius that the three quadratics let pass is safe for every
  corner that moves by at most that much, not only for the three cases the
  quadratics are drawn from. Each quadratic is turned into the product it was
  multiplied out of, and the overlap into products of sides.

About `Inference`, for any images, networks and objects:

* `SuppressionIsJustified`: greedy suppression is characterised by what it
  keeps (`Greedy`: a row stays exactly when no better one that stays overlaps it too
  much), which one set only satisfies. The loop of each implementation computes it.
* `PathsDoAgree`: the two decoders of CenterNet find the same peaks when no peaks
  wrap around, choose the same ones when nothing ties, and make the same boxes.
* `BoxesAreWellFormed`: by provenance. Every row that is kept, filtered, sorted or
  sent was made by one of the constructors, and each of these clamps.
* `LetterboxIsUndone`: the resized sides are rounded and so is the padding; the
  errors are bounded by one pixel of the canvas.

About `Evaluation`, for any images, networks and orders of equal scores:

* `RadiiAreSafe` takes `RadiusIsSafe` to every object that is given targets.
* `FoundOnce`: a row counts as true only when it matches an object no row before it
  has, so the rows of one image add as many as there are objects found (`TpGrows`
  is the step of the loop).
* `ApIsTheArea`: `compute` walks the ranking from the end for the envelope, and sums
  rectangles. `EnvelopeIs` is the first loop, `AreaIs` the second; `NoneInvented` is
  the invariant it needs of the rows: recall never exceeds 1, because the rows that
  are true are no more than the objects counted.
* `TargetsCanBeLearned`: `Encoded` says what the splats drawn so far show. Heat is
  the largest of the splats, every splat falls off away from its center, so heat is
  `Top` at the centers and nowhere else, and from any other cell it rises
  towards one (`Shows`): peaks, centers and positives are the same cells. The loss
  is a sum of terms none of which is negative, so it is nil exactly when all are,
  which is when objects that share a center agree.
* `PerfectScoresOne`, as long as a decoder keeps as many rows as an image may have
  objects, which the defaults of the code do (`topk` 100, `max_objects` 50). `Perfect`
  is its inductive invariant: while the network has been right, every row so far is
  true and every object counted has its row. One update keeps it because decoding
  gives back the slots and no others (`PerfectRows`), an overlap of 1 is nearest
  (`AllFound`), and the rows of different objects are different boxes. `WholeArea`
  is `ApIsTheArea` for such a ranking: every precision is whole, so the area is.

The five rest on `LoopTyped`, the types along the loop of `evaluate`, and on lemmas
that say what each stage makes (`BuildTargetsIs`, `PredictIs`, `PeakRowsAre`,
`DecodedIs`, `MatchesIs`, `UpdateIs`, `EntriesAre`).

Induction over data (the length of a sequence, the size of a set) is done with an
induction theorem about sets of numbers, `SetInduction`: the set of those lengths
for which the claim holds has 0 and the successor of each member.

Only model-checked is liveness (`EventuallyWilling`, `RecoversWhenHealthy`,
`EndsUnlessDropped`, `ShutdownComesBack`, `BecomesReady`, `CallsReturn`,
`NobodyStarves`, `RunEnds`, `StreamsUnlessLost`, `EveryoneAnswered`): fairness and
ENABLED are out of the prover's reach. Every invariant and action property of the
passing runs is a theorem, with the bounds of the runs gone; `Bounded`, `Apart` and
the like are cuts of the runs, not hypotheses.

Assumptions are the named ASSUMEs of each module: constants are finite sets or
natural numbers, positive where the configuration is (`failure_threshold`,
`max_workers`, `max_frames_per_job`, the rates); shapes, annotations and ghosts are
what the data set and a network can give, and the heads have the targets' side,
or the model could not have been trained. `Epochs` is the same for every
start of one training, and `max_frames` is not negative: the endpoint does not
check that, see the hazards.

## 5. Not modelled

* `retry_call`: attempts change nothing but time, and a load with its retries is
  one step of `ModelManager`. (An `ImportError` out of the function itself is
  taken for a missing tenacity, and the attempts start over, `reliability.py:125`.)
* Two threads in one unlocked `load`: `_session` is published before `_input_name`
  (`infer.py:311`), and what another thread sees in between is up to the
  libraries. The tracker all streams share is ultralytics' own state.
* `JobRepository` and `JobRecord`: only tests use them; the service keeps jobs in
  memory and loses them in a restart (`Service!Down`).
* The page's uploads: answers to two uploads may overtake one another, and the
  earlier file overwrites the later (`app.js:180`).
* arq and redis; torch, onnxruntime, ultralytics, transformers; uvicorn beyond
  "an event loop runs what can run".
* The answers to CORS preflights, which no handler of the project sees; NaN or
  infinite numbers in JSON; a stream's annotated images.
* Numbers: weights, gradients, the learning rate, floating-point error, pixels.
* Drawing, encoding, export, logging, the command line, the scripts.

## 6. Plan

1. The full types of `Evaluation` and `Inference` as theorems; the proofs have
   most of them in `LoopTyped`, `RowsTyped` and `Provenance`.
2. An abstract specification of the model manager, the state of a breaker and
   the models in memory as a client of `/ready` sees them, and its refinement.
