# A verification development for AvatarForge

TLA+ models, TLC configurations and TLAPS proofs for the AvatarForge backend (`src/backend`,
with the model servers in `src/sadtalker` and `src/hunyuan`). Paths below are relative to
`src/backend` unless they start with `src/`.

## The system

AvatarForge turns a topic into a talking-avatar video. One FastAPI process serves requests and
SSE streams; one Celery worker (one child process, `--concurrency=1`) runs the video pipeline;
Postgres holds the rows, Redis is both the Celery broker and the dead-letter list. Around the
avatar pipeline the newer code adds a "studio": chat with a memory, reusable characters, films
directed by a language model and rendered scene by scene, and a quality loop over takes.

| Component | State it keeps | Operations | What is hard about it | What makes it correct |
|---|---|---|---|---|
| Video jobs: `api/v1/videos.py`, `workers/`, `agents/`, `services/jobs` | job row (status, stage, outputs, error), task message, execution in the child, dead letters | submit, deliver, mark running, run a node, retry a node, complete, fail, dead-letter, acknowledge, stream the row | late acknowledgement and redelivery, child or worker lost, soft and hard time limits, a failure handler that can fail, two executions of one job | every accepted job settles; outcomes are final; outputs are all or nothing; dead letters mean failures; paid renders are bounded; streams end and tell the truth |
| Provider resilience: `services/common/circuit_breaker.py`, `services/llm`, `services/tts` | one breaker per provider (failures in a row, opening time), shared by all requests of a process | generate_script, complete_json_raw, synthesize | requests interleave at each await and report to a breaker that changed meanwhile; exceptions no clause names | a dead provider costs little; the fallback is exhaustive and ordered; a recovered provider is used again; voices are not swapped |
| Voice facade and resolver: `services/voice` | none | speak, resolve | a language model's answer is checked against a catalogue | always a voice that exists |
| Avatar engines: `services/avatar`, `src/sadtalker`, `src/hunyuan` | render in progress on a model server or in a remote queue | resolve engine, generate, infer, poll | client timeout against a render that goes on; polling against a deadline | a render is used or reported failed, never silently paid twice |
| Scene engines: `services/scene`, `services/style` | remote render jobs | route, create with retry, poll, download | 429 with Retry-After, deadlines, a job that fails without saying so | bounded attempts, terminal answers are recognised |
| Film studio: `services/film_session`, `api/v1/studio_film.py` | session row: status, storyboard, clips, cast | create, stream a production, edit, list | load, work for minutes, merge back whole; dropped connections; edits before or during a production | the stored session agrees with the film that was shown |
| Composition, director, interpretation, cast: `services/{composition,director,interpretation,cast}`, `api/v1/film.py` | none (values passed along) | interpret, storyboard, bind, render, stitch | one failing scene of many; durations from a language model | every shot has a clip in order; durations within limits |
| Quality loop: `services/quality` | best take, cost so far | render, judge, refine | judge or engine fails after a good take | cost cap; the best take is returned |
| Studio chat and memory: `services/{memory,planner}`, `api/v1/studio.py` | thread messages, preferences | chat, remember, recall, forget | two turns of one thread; a thread that outgrows its loader; one active value per kind | latest context is used; one active preference per kind |
| Characters: `services/character`, `api/v1/characters.py` | character rows and images | create, restyle, lip-sync, delete | deletion while a film uses the character | ownership and references stay valid |
| Accounts: `services/auth`, `api/v1/auth.py` | user rows | register, login | check, then insert | one user per email (unique index) |
| Storage and media; traces, usage and metrics; front ends; evaluation; configuration; schema and deployment | files, audit rows | read and append | nothing that other parts wait for | - |

How they interact: the API process creates a job row and publishes a task message (the only
message between processes); the worker reads and writes the row; SSE streams poll the row. The
pipeline calls the LLM chain (script), the TTS chain (speech) and an avatar engine (video), whose
failures reach it as exceptions, transient or not. The studio calls the same chains from the API
process, which has its own service objects, hence its own breakers.

## What is modelled now

### `VideoJobs.tla`: the job pipeline

| In the module | In the code |
|---|---|
| `CreateJob`, `EnqueueJob`, `EnqueueFails` | `submit_video_job` and `_create_and_enqueue`: the row is committed, then `.delay` publishes or raises |
| `Deliver`, `BrokerLost`, `WorkerCrash`, `ChildLost`, `HardLimit`, `SoftLimit` | Celery and Redis (external) as configured in `workers/celery_app.py` |
| `MarkRunning`, `LoadJob`, `StartFails` | `generate_video_task`, the head of `run_pipeline` |
| `EnterNode`, `NodeSucceeds`, `NodeRaises`, `Complete`, `Report` | the nodes, their `RetryPolicy`, `store_node`, `notify_node` |
| `RecordFailure`, `RecordFails`, `PushDeadLetter`, `Acknowledge` | the central handler of `run_pipeline`, the dead-letter list, the end of the task |
| `OpenStream`, `Poll`, `DropStream` | `job_events` |

`row` is the database, `queue` the broker, `run` the execution in each worker, `dlq` the Redis
list, `stream` the generators; `renders`, `redelivered` and `orphaned` are history variables that
only properties read. Abstractions, and why they lose nothing the properties see:

- Every repository call is its own transaction, and one step. It selects the row, assigns and commits,
  and the UPDATE names the columns whose value changed: a column that changed takes effect at the commit,
  one that did not is left to whoever wrote it since, as if the call had taken place when it selected.
  The handler's `get` and `fail` are one step because only the diagnostic stage comes from the `get`.
- A submission is accepted when its message reaches the broker, whether `.delay` then returns or raises:
  `EnqueueJob` stands for both, and `EnqueueFails` for a message that never arrives.
- Rows are never deleted, so the branches for a job that disappeared cannot run.
- Validation and the image upload come before the row exists and leave nothing behind.
- Time limits strike at any point of an execution; durations are not modelled.
- A soft limit either is caught like any other exception (pipeline code was running) or passes the
  handler as `CancelledError` (the event loop was waiting). After the store node committed, the
  first case turns a completed job into a failed one: `LateFailure` in the properties.
- A stream remembers the status it sent last; jobs influence each other only through the workers
  they occupy, so that one job and two workers show every overlap of two executions.

`JobLifecycle.tla` is the abstract specification: a status written only by executions that are due, open,
may record an outcome and close. One that ends without an outcome leaves its job due again or abandoned, so a
job that says "running" is being worked on, is due, or was abandoned (`RunningIsAccountedFor`).
`VideoJobs` implements it with "due" for a job with a message in the broker or a delivery that has still to
mark the job running, and "open" from then on.

### `CircuitBreaker.tla` and `ProviderChain.tla`: breakers and fallback

`CircuitBreaker` is the breaker as a value. Time enters only through the recovery timeout, which
an open breaker has or has not outlasted. The failure count stops at the threshold, which is exact:
the code compares it with the threshold and resets it, nothing else.

`ProviderChain` extends it with the loop that `generate_script`, `complete_json_raw` and
`synthesize` share. Providers are numbered in the order of the list. The kinds of request differ
as the code does: `"raw"` does not look whether a provider is configured and goes on without
awaiting a usage row; `"speech"` and `"cloned"` filter by `chatterbox_fal`. A step is what runs
between two awaits, so looking for the next provider belongs to the step before it (`Seek`).
`Cut` is an exception that no clause names: cancellation, and for speech also a failed
normalisation or storage. `wasted`, `tried` and `barred` are history.

### `FilmSession.tla`: a conversational film

| In the module | In the code |
|---|---|
| `Create` | `create_film` |
| `Begin` | `_load_owned` at the head of `stream_film` and `edit_film`; an edit adds its message to the copy |
| `Interpreted`, `Storyboarded`, `Planned`, `Rendered` | the stages of `produce` |
| `ChangeTheme`, `ChangeVoice`, `Rerender`, `Clarify`, then `Storyboarded`, `Rendered` | `apply_edit` and `_rerender` |
| `ServiceFails` | the exceptions the service names: status `failed`, checkpoint, end |
| `Select`, `Commit` | `_persist`: the SELECT of `session.merge`, and the UPDATE of the columns that differed |
| `Break`, `Unsaved`, `Drop` | an exception nobody names, a checkpoint the database refuses, a client that goes away |

`row` is the database row; `req[r].fs` the detached object a request works on for minutes; `films`
what each stored file was rendered from. A merge is two steps because the two statements have an
await between them, so the columns of two requests can mix. `latest`, `alone` and `disturbed` say
which requests had the session to themselves. Abstractions:

- A theme, a cast with its voices and a storyboard are values; a film is what its render was
  asked for. Title and interpretation are written with `ready_to_render` and read by nobody.
- Binding the cast and asking the director are one step, as are rendering and saving the file:
  between the two calls of each pair nothing but the request's own variables changes.
- Sessions share no state, so there is one. Requests are numbered in the order they begin.

### `RenderEngines.tla`: renders by remote engines

| In the module | In the code |
|---|---|
| `Post`, `GiveUp`, `Reply` | `SadTalkerClient.infer`: one blocking POST to a model server |
| `Starts`, `Declines`, `Newest`, `Exits`, `Overdue`, `Killed`, `Free` | `src/sadtalker/server.py` and `src/hunyuan/server.py`: one inference at a time, a limit on it, the newest file of the job's directory |
| `Begin`, `StrictSubmit`, `StrictPoll`, `StrictFetch` | the fal avatar client and Chatterbox, which read status code and status |
| `SoraSubmit`, `Wake`, `RetryWait`, `SoraPoll`, `SoraFetch` | `Sora2SceneClient`: rate limits, polls and download under one deadline |
| `LenientSubmit`, `LenientPoll`, `LenientFetch` | Kling, lip-sync and style, which are alike |
| `MayBegin`, `Packaged`, `Unpackaged`, `Cut` | `AvatarService.generate`, the retry of the avatar node, cancellation |
| `EngineEnds`, `Answers`, `Waited` | the remote queues and the clock (external) |

A *try* is one call of a client together with its job at the engine. A client that gives up tells
nobody: the job goes on, and the node's second try meets it. Time is counted in ticks, of which a
request takes at most one; `wait` is what is left of a timeout or a sleep. `shared` is history.
A clip is the try that rendered it, which is all that `ClipIsOwn` needs.

`RenderContract.tla` is the abstract specification: tries of callers that are under way, refused, lost,
dropped or delivered, and which of them the engine billed. A try follows only one that was refused or
lost; a refused one is never billed. `RenderEngines` implements it with "billed" read off the engine's job.
Its clients raise one kind of error for a render that was refused or failed ("failed") and for one that was
completed, billed and then could not be had ("lost": an error status for the result or the download, no url); the
node retries both, and the two are told apart only so that the properties can be stated. "broken" is an
exception of another kind (a body without the JSON that is read, no handle at a strict submission), after
which nobody tries again and the job may have been accepted; it ends a try at a model server too, whose error
answer is parsed. What follows of the contract
alone, `PaidTwiceOnlyIfLost`, then holds of every client.

### `SceneRouting`, `Voices`, `QualityLoop` and `FilmProduction`: one-shot films

`SceneRouting` is the registry of scene engines as operators: default, override, the policy for real
faces, reference frames and the lengths an engine has. `Voices` is the way from the words of a cast to a
voice: `LooksLikeId`, `Resolve`, `FallbackRole`, and what each TTS provider makes of the result.
`QualityLoop` has the state and steps of `POST /scene/refine`; money is in tenths of a cent and a
score one of a few values, for only their order matters.

`FilmProduction` extends them with the requests of `api/v1/film.py` and the scene preview:

| In the module | In the code |
|---|---|
| `Storyboard`, `Compose`, `Preview`, `CastCompose` | the routes, with what their request models clamp |
| `Bind` | `CastService.bind`, one member (one database read) at a time |
| `Direct`, `Drafts`, `Clamp`, `Kept`, `Known` | `DirectorService.storyboard_with_cast`: any draft, clamped; one more attempt if nothing parses |
| `Render`, `Take`, `Reference`, `Face`, `SceneEngine` | `CompositionService.render_with_cast`: route, frame, generate |
| `Voice`, `Voiced` | `_voice_and_sync`: a new clip, the lip-sync of the speech with the member's raw frame or with a frame of the rendered scene; the silent clip on any failure |
| `Stitch`, `FilmBreaks` | `_stitch`, storage, and exceptions no route catches |
| `DeleteCharacter` | `CharacterService.delete` by any request, between any two of these steps |

A clip is what a viewer can tell: its length, whose look it shows, whose voice text it speaks and whose face
talks. Lip-sync makes a video of the speech's length (`SpeechSeconds`) from one picture, so what the engine
rendered of a voiced scene is gone but for that picture.

A request of the loop and a film exclude each other in the model because they share only the
registry and the characters. `Runtime` is a recursive function, so that it can be reasoned about.

### `StudioChat`, `Characters` and `Studio`: the studio's database

`StudioChat` has a step for every database session of `POST /studio/chat`: preferences, the switch,
memories, the thread, the question, the planner, the answer, then for each kind of memory the
switch again, the UPDATE and the INSERT with its commit. Two turns interleave in every way, and the
user switches memory, chooses defaults or forgets in between. A memory's value is the turn it was
learned in. `before`, `raced` and `late` are history. A message gets its id at the INSERT and is seen from the
COMMIT on, which `Say` takes for one step: `ThreadKept` says which messages a turn has, not in which order two
that were written at the same time come. `Context` is what the planner puts into its prompt of the history.

`Characters` has registration (the look-up and the insert, with the unique index between), login,
tokens, uploads stored frame by frame, deletion, restyling and lip-sync. `Studio` puts both beside
each other. They share no table and no request: the chat takes the client's word for who the user is.
So each is explored with the other at rest, which loses no behaviour of either.

## Runs

| Run | Instance | What it shows |
|---|---|---|
| `video_jobs` | 1 job, 2 workers, 1 stream, 2 attempts, 1 redelivery; 271,276 states | every property of `VideoJobs`, and that it implements `JobLifecycle` |
| `job_outcome_is_final` | same, one property | counterexample: a redelivery takes a finished job back to running (`models/job.py:3` says otherwise) |
| `lost_job_still_running` | same, one property | counterexample: a lost child leaves its job running for ever (`workers/celery_app.py:30` says otherwise) |
| `provider_chain` | 2 requests to an LLM service or to a TTS service (preset and cloned voices), threshold 2; 123,975 states | cost bound, exhaustive fallback within a kind of voice, open circuits, termination, recovery |
| `film_session` | 3 requests, the second may overlap the first; 357,043 states | told, stored and shown outcomes agree; the conversation only grows; a session is recoverable |
| `film_failure_recorded` | same, one property | counterexample: no model answers, the client is told "failed", the row is not (`models/film_session.py:38` says otherwise) |
| `film_full_conversation` | same, one property | counterexample: an overlapping request puts an older conversation back (`models/film_session.py:5` says otherwise) |
| `render_engines` | an avatar node with 2 tries, a rival at the model servers, 5 kinds of engine; 290,631 states | whose clip arrives, what has become of a failed try's job, deadlines, every try ends, and that it implements `RenderContract` |
| `film_production` | 3 characters (one a real person, one somebody else's), every set of engines, casts of 2, drafts of 3 scenes; 1,298,788 states | policy for real faces, a delivered film is complete, plans are within limits, the loop's cap and its best take |
| `film_described_voice` | casts of 1, drafts of 1 scene, one property | counterexample: a described voice is heard as the default one (`voice/service.py:33` says otherwise) |
| `studio` | 2 turns, 2 kinds of memory, 2 acts of the user; 2 registrations, 2 uploads, 1 restyle; 3,149,265 states | what is learned and shown, and what a character stands on |
| `studio_thread_context` | 3 turns, one after the other, one property | counterexample: in a thread beyond the loader's limit a follow-up is planned without the answer it follows (`planner/service.py:88` says otherwise) |

**Bounds.** `MaxRedeliveries` (how often the broker takes one job's message back) is the only bound
on behaviours of `VideoJobs`; with one redelivery and two workers two executions of a job overlap
in every way, including an execution that outlives the loss of its delivery. `MaxAttempts` is 2
as in the code. `Threshold` is 3 in the code and 2 or 1 in the runs: what matters is a count
below, at and beyond it. Two requests are enough for a call that reports to a breaker that another
has changed. The theorems lift all these bounds for the safety properties.

`FilmSession`: `MaxRequests` is 3 and `Joiners` lets the second request overlap the first in every
way; the third finds whatever the two have left, cut or mixed. One theme besides the empty one, one
cast and one plan: an edit can change what a film is made from, and the columns a production has
not written yet differ from those it has.

`RenderEngines`: the timeout is 2 ticks, SadTalker's limit (1) below it and Hunyuan's (3) above it, as
a deployment may set them; `Retry-After` (3) is beyond both the cap (1) and the deadline. Two tries are
what the code has, and one rival suffices for a server that is busy with somebody else. Queues are
not shared, so only model servers have rivals.

`FilmProduction`: drafts (`MaxDraft`, 3) go beyond `MaxScenes` (2), and their lengths (1, 7 and 12
seconds) lie below, within and beyond the limits (2 and 10); two scenes may exceed the total
(15). Three lengths to refine lie below, between and beyond Sora's; with `MaxCost` of 2 dollars the
short one meets the iterations first, the others the cap, before their third and their second render. Casts
of 2 (`MaxCast`) have distinct and repeated roles.

Speech lasts 1 or 25 seconds, shorter and longer than any scene.

`StudioChat`: `Limit` is 3, so that two turns (four messages) exceed it; the code has 40. `Window` is 2, below
`Limit` as 12 is in the code. `MaxActs`
bounds the user. `Learned` starts with nothing or with two active memories, which earlier races can
leave. `Characters`: `MaxExtracted` (3) is beyond `MaxFrames` (2).

`VideoJobs.cfg`, `FilmSession.cfg`, `RenderEngines.cfg`, the film and studio configurations and their violation runs switch deadlock checking off: once every job and stream is
done and no fault is left to happen, the system rests; so does a session when all requests have
ended.

**Fairness.** `VideoJobs`: the submitting request finishes, an idle worker takes a waiting
message, each call of an execution returns (HTTP clients have timeouts, database and Redis calls
return or raise), and the stream keeps polling. `ProviderChain`: calls return and time passes.
`FilmSession`: the same for the calls of a request; that a service answers with an error is one
of its ways to return. `RenderEngines`: time passes, each caller's client goes on (one of its steps is
enabled until it ends, by a deadline if by nothing else), and a model server starts what waits and
kills what is overdue; that an engine ever finishes a render is not assumed. `FilmProduction`
and `Studio` state no fairness and no liveness: each request ends after a fixed number of steps.
Faults, cancellations and clients have no fairness. `PrimaryRecovers` states what it needs of the
environment in its premise: requests keep coming, and the primary answers them.

## Proofs

TLAPS checks these for every value of the constants, from the named assumptions
`ConstantsAssumption`, `ThresholdAssumption`, `ChainAssumption`, `SessionAssumption`,
`EngineAssumption`, `LoopAssumption`, `VoiceAssumption`, `FilmAssumption`, `ChatAssumption` and `CharacterAssumption` only (`Complete` has one
more hypothesis of its own).

| Module | Theorems |
|---|---|
| `VideoJobsProofs` | `TypeCorrect`, `AcceptedSettles`, `OutputsTogether`, `RenderBudgetHolds`, `ExecutionsRunDown` |
| `VideoJobsDeliveredOnce` | `OutcomeFinal`, `DeadLettersFailed`, `StreamsReport` |
| `VideoJobsRefinement` | `Refinement` (implements `JobLifecycle`), `RunningAccounted` |
| `ProviderChainProofs` | `TypeCorrect`, `WasteBounded`, `OpenDrains`, `Exhaustive`, `RequestsRunDown` |
| `FilmSessionProofs` | `TypeCorrect`, `ClipStored`, `OutcomesStand`, `FilmMatches`, `HistoryKept`, `FilmsAreKept`, `RequestsRunDown` |
| `RenderEnginesProofs` | `TypeCorrect`, `ClipOwn`, `FailureOver`, `AnswersFirst`, `Deadline`, `ContractKept` (implements `RenderContract`), `PaidTwice` |
| `FilmProductionProofs` | `TypeCorrect`, `Policy`, `Achievable`, `Complete`, `Capped`, `Best`, `RequestsRunDown` |
| `StudioProofs` | `TypeCorrect`, `Supersedes`, `ThreadStays`, `OffIsOff`, `Stand`, `TurnsRunDown` |

*Video jobs.* None of the properties is inductive. The invariant is
`Shape /\ Settling /\ Outputs /\ Delivery`, built up along the modules:

- `Shape`: types, and a worker that is not idle works on a job.
- `Settling`: an execution past the failure handler has recorded; an accepted job is waiting, in
  work, settled or orphaned. A redelivery is why this cannot be said of the row alone: the row of
  a job in work may be overwritten, but then someone in work owes an outcome.
- `Outputs`: a pipeline state at a node has exactly the outputs of the nodes before it, so that
  the store node has all three.
- `Delivery`: a job that was never taken back by the broker has at most one copy of its message or
  one execution, which is what makes outcomes final and streams truthful. The refinement adds
  `Tracked`: an idle worker has no job, and only accepted jobs are delivered.

`Refinement` maps each of the steps to `Create`, `Publish`, `Open`, `Record`, `Close`, `CutShort`, `GiveUp` or
a stutter; the lemmas `SameDue`, `Requeueing`, `SameOpen`, `Opening`, `Recording` and their like say what a
step does to the mapped variables. A worker that dies with a message it holds is a `CutShort` (or `Close`) that leaves
the job due, every other end without an outcome one that leaves it abandoned. `RunningAccounted` is the
invariant of the abstract specification (`AccountedStep`), carried over.

`RenderBudgetHolds` counts what is still owed: `Spent` says that the renders of a job, those its executions
may still order (`Future`, one element each, at most `Left` for each execution), and `MaxAttempts` for every
copy of its message in the queue stay within `MaxAttempts` for every time the message was published.
Delivering a message turns its share into elements of `Future`, entering the avatar node takes one of them, and
only the broker taking the message back adds to what may be spent.

*Bounds on steps.* Five theorems (`ExecutionsRunDown`, three `RequestsRunDown`, `TurnsRunDown`) give a number
of steps that is left to an execution or a request: it lies within a bound made of the constants, every step of its own makes it
smaller, and nothing anyone else does makes it larger. That is the half of the liveness properties that
needs no fairness: what remains to be assumed is that the next step is taken. The render clients have no
such number, because a poll takes no time the model counts: `Deadline` bounds them instead.

*Provider chain.* `Counted` relates a breaker to what its provider has cost: a closed circuit
counts the failures exactly, and behind an open one failures plus calls in flight stay within
`Threshold - 1 + Cardinality(Requests)` because nobody new is admitted. `Accounted` says of each
request why it has come as far as it has. `SeekGoesOnward` carries both over a search.

*Film session.* `Inv` is `TypeOK /\ Order /\ Work /\ Told`. `Told` is the three invariants of the
run, which say nothing of a request still at work. `Order` says that a request which is alone is
the latest and the only one. `Work` says of each copy where it stands (`Copy`: "done" is only ever
on its way to be told, a film only after the file) and, if the request is alone, how the copy
relates to the row (`Faithful`: it continues the row's conversation, and its pending UPDATE names
exactly the columns that differ, so that the commit makes the row equal to the copy:
`MergedExactly`). Steps that only move one request on share one proof (`Works`); storing a film,
committing, being cut, beginning and creating have their own.

*Render engines.* `IInv` says of each try where its client may stand given its engine and job
(`Placed`), how its age, its wait and the deadline relate (`Timed`: for Sora a sleep may reach `Cap`
beyond the deadline, for the others a request is bounded by its own timeout), and how long the server
has run its process (`Served`: a limit is overrun only in silence, and without company a client has waited as
long as its process has run). Between tries it says that
a later one begins only after the failure of the earlier (`Ordered`), and that a queued request without
company is the only one at its server (`Undisturbed`), which is what makes `ServerAnswersFirst` inductive.
One lemma per kind of change (`Going`, `Arriving`, `Refusing`, `Working` ...) is used by all the clients.
`ContractKept` maps a step of a client or an engine to one of `RenderContract` or a stutter: `Placed` supplies that a
refused try has no completed job and that a clip has one, `Ordered` that the try before a new one was refused or
lost. `PaidTwice` is proved of the abstract specification and carried over.

*One-shot films.* `IInv` is `LoopInv /\ FilmInv`. `LoopInv` adds to `LoopCapped` and `BestDelivered`
what they owe their truth to: what was billed is at most what was estimated (`Billed`; `ChargeEstimated`
compares the two prices), and every take before the last is below the threshold and the best leads
(`Verdicts`). `FilmInv` says of each rendered scene what it was rendered from (`Shot`) while the cast and
the board stay as they are, that roles are distinct and on the board only if cast, and where a
request of each kind may be, and of each clip whether it is the rendered one or a talking one. `Complete` needs scenes of 2 to 13 seconds (the code allows 2
to 10): the engines' lengths are no farther than 3 seconds from those. `KeptFits` shows that the CHOOSE in
`Kept` has a solution; for that the total of a prefix must be known to be an integer, which is proved by
induction on the prefix: the least counterexample, from the well-foundedness of `<` on the naturals
(`FirstOf`), after the recursive function was shown to exist (`SumsExist`, `SumsAgree`, `TotalExists`).

*Studio.* `IInv` is `ChatInv /\ CharacterInv`, each kept by its own steps and by the other's. `ChatInv` says of each turn
(`Kept`) five things: `Counted` (what was learned since the switch went off is at most what was being written),
`Prepared` (its pending UPDATE names every active row of the kind unless it was overtaken), `Learning`, `Held` (its history has
the first messages of the turns before it) and `Said` (who has spoken, given where it stands). A turn may wait at each
step while others append and commit; `Past`, that turns recorded as done stay done, is why its history
lacks nothing. `CommitKeeps` is the step that touches other turns. `CharacterInv` says of an upload what it has stored so far
and of each character what it stands on; accounts and files only grow, so `CharactersGo` serves every step.

Superseded and forgotten memories stay so because the UPDATE names active rows only (`Becomes`, `RowsStay`).

**Model-checked only:** the liveness properties (`AcceptedJobRests`, `StreamEnds`, `RequestEnds`,
`PrimaryRecovers`, `Recoverable`, `Settles`), which the prover cannot do under fairness. Every safety and
action property that a passing run checks is a theorem.

## Where the code and its text disagree

Shown by a run:

1. A redelivered message takes a finished job back to `running` (`TerminalIsFinal`).
2. A job whose child is lost stays `running`; nothing marks it failed (`LostJobIsNotRunning`).
3. The planner's context of a long thread is its oldest messages: beyond 40 a follow-up never sees the plan it is
   about (`FollowUpRevises`).
4. An exception outside the three the film service names is told to the client as "failed" and
   leaves the session as it was checkpointed last: `ready_to_render`, `rendering`, or, in an edit,
   `done` with a new theme and the old film (`FailureIsRecorded`).
5. Requests that overlap on one session take each other's messages out of its conversation
   (`FullConversation`).
6. A described voice, "narrator" and an explicit voice id are all heard as `professional_female`: providers look
   up preset names, and the resolver returns Azure's ids (`VoiceAsCast`).

Noticed while modelling, and kept in the models as they are; the properties state what does hold:

- `services/quality/loop.py:7` says the best attempt is always returned. A judge that raises
  (`LoopBreaks`) takes it along.
- SadTalker's server looks at its limit only when the process prints a line (`Overdue`, `silent`): one that hangs in
  silence holds the lock, hence the premises of `ServerAnswersFirst` and `Settles`.
- `services/common/circuit_breaker.py:4` allows one trial call; a half-open circuit admits every caller until
  one of them reports back. What that costs is in `WasteIsBounded`.
- The engines' clients raise the same error for a render that failed and for a completed, billed one whose result
  they could not get; the avatar node retries both, and so pays twice in the second case (`FailureIsOver`).
  Kling, lip-sync and style do not read the status code of a result, so their error says even less.
- A strict client that gets no handle raises a `KeyError`: no second try, though the job may have been accepted.
- A packaging failure is no `AvatarEngineError`: the paid clip is dropped without a second try.
- Sora's create can succeed up to one `Retry-After` cap after the deadline and is then abandoned.
- Where no engine accepts real faces, `compose` and `cast-compose` answer 500: the `SceneEngineError` of
  `route` leaves by no handler (`Render`, "lost").
- `preview`, `compose` and `refine` pass no frame, so Kling, whether by policy, override or default, takes
  none of their scenes.
- A film can be longer than `MAX_TOTAL_SECONDS`, because the engines round lengths (8 scenes of 7 seconds
  become 64 on Sora); the limit holds of the plan.
- A plain `speak` falls back to Chatterbox, the one voice it clones, where `services/tts/service.py` keeps cloned
  and preset voices apart.
- `api/v1/film.py:145` says the theme overrides every avatar's style for the whole film; `render_with_cast` uses
  the member's own style in every scene with one, and `api/v1/film.py:154` says so too. The models have the latter.
- The length in a composed film's answer is the storyboard's; a talking clip is as long as its speech.
- With two active memories of a kind the older is applied until the kind is learned again.
- A registration that loses the race answers 500; frames of deleted characters stay in storage.

## Plan

Done: the pipeline with its life cycle and proofs; provider chains with proofs; the conversational film
with proofs; render engines with proofs; one-shot films, routing, voices and the quality loop with proofs; the
studio's chat, memory, characters and accounts with proofs.

Left: the rendering inside `FilmSession` as an instance of `FilmProduction`. The storyboard of a session is stored by a
production and not by an edit, and read by nobody.

## Not modelled

- Front ends: presentation; they keep nothing that the backend reads.
- Traces, usage rows and the metrics summary: append-only rows whose writers swallow their errors, and reads.
- Synchronous endpoints, health, configuration, start-up: one request, one call of a modelled service.
- Evaluation: offline arithmetic over texts.
- Schema, migrations and deployment: declarative; what matters of them (one child process, the unique
  index) is part of the models.
- Media downloads, and the interior of a provider's SDK with its own attempts.

The wording of prompts, error texts and logs is left out of every model. Each component's status and
reason are listed in `PROJECT.json`.
