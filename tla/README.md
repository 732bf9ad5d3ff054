# A TLA+ verification of the LIFX command engine

The engine turns spoken or typed requests into LIFX command plans. It is a
sidecar: a host starts it through a Go client and speaks JSON lines over its
standard input and output, and the engine in turn drives up to two slow
runtimes of its own, a language model over JSON lines and `whisper-server` over
HTTP. Most of what can go wrong is in the seams between these processes, and
that is what the modules here are about. Paths below are relative to `src/`.

## 1. Inventory

| part | code | state it keeps | operations | hard behaviour |
|---|---|---|---|---|
| Go sidecar client | `client/client.go` | current process, pending calls by id, closed flag, id counter; per process `stdin`, `done`, `once` | `Start`, the calls, `TranscribeAndInterpret`, `Close`; a reader and a waiter goroutine per process | concurrent calls share one pipe; cancellation, crash, restart, late responses, grace period |
| JSONL server | `internal/jsonl/server.go` | none between requests | read, dispatch and answer one line at a time | oversized and undecodable lines are answered without an id; a slow request blocks all that follow |
| persistent model process | `internal/model/persistent_process.go` | the child and its pipes under one mutex | `Generate`, `Close` | answers carry no id, so one unread answer shifts all later ones; cancellation discards the child |
| FunctionGemma runner | `runtimes/functiongemma/runner.py` | loaded model | handshake, one line per request; inventory of selectors, explicit targets, action policy, merge of calls | loads slowly, may hang, may crash; the order of calls, overlapping targets, shared labels |
| persistent whisper transcriber | `internal/speech/whispercpp/persistent.go` | the server process, an inference token, a mutex, a lifetime context | `Start`, `Transcribe`, `Close` | two overlapping locks, start-up attempts, discard against restart, Close against start-up |
| one-shot model and whisper | `internal/model/process.go`, `internal/speech/whispercpp/transcriber.go` | none | one child per request | the child must be gone when the request ends |
| stream probe | `internal/streamprobe/probe.go` | captured audio, the partial in flight, counters | `Run`, one goroutine per partial | partial against release, cancellation, temporary files |
| interpreters | `internal/interpreter`, `internal/confidence`, `internal/adapters/lifxlancommand` | none | `Interpret`: rules, model, hybrid; scoring; validation | power inferred from the snapshot, float thresholds, serials by case, labels that are not unique |
| evaluation | `internal/evaluation/evaluation.go`, `cmd/lifx-command-engine-eval` | a report | `Load`, `Run` | counters that must add up while a deadline passes, rules asked twice, a percentile index |
| engine main | `cmd/lifx-command-engine/main.go` | deferred shutdown | `runServe` | order of start-up and shutdown; a killed engine and its children; a host that dies |
| configuration, schema, doctor, model tools, examples, scripts | the rest | none | | straight-line code |

How they interact: a host goroutine calls the client, which writes a line to the
sidecar's stdin; `Server.Serve` answers lines in order and calls the
interpreters (and through them the model process) or the transcriber
synchronously. The end of the sidecar's stdin ends `Serve`, and the deferred
calls of `main` then close the model process and the whisper server.

What makes each correct:

- *client*: a response reaches the call it answers; a call that waits is
  answered or failed; no send to a result channel blocks; no sidecar is left
  behind; after `Close` nothing starts; a request is never sent twice.
- *model process*: a request is answered by its own line; an idle child is in
  step; one model is loaded at a time; a cancelled request ends.
- *whisper transcriber*: no server is left behind or outlives `Close`; a late
  discard does not hit a new server; an audio file is transcribed once per call.
- *stream probe*: one inference at a time; every attempt is counted once;
  temporary files disappear.
- *engine*: every request is answered, in order, whatever becomes of the
  runtimes; when it returns it holds no runtime; it ends with its host.
- *interpreters, runner*: a plan names only devices of the snapshot, by their
  trusted serials and labels; it needs confirmation exactly when the request was
  not clear; merge and power inference keep what the calls do to each device.
- *evaluation*: the counters of a report add up; the exit code speaks of all.

## 2. The modules

| module | what it is |
|---|---|
| `AtMostOnce` | abstract: what the engine promises of a request that crosses a process boundary |
| `SidecarClient` | the client, with the sidecar reduced to its request loop; implements `AtMostOnce` |
| `SidecarClientSafety`, `SidecarClientAnswers` | theorems about `SidecarClient` |
| `ModelProcess` | `PersistentProcessGenerator` with the runner's serve loop; implements `AtMostOnce` |
| `ModelProcessSafety` | theorems about `ModelProcess` |
| `WhisperServer` | `PersistentTranscriber` with `whisper-server`; implements `AtMostOnce` |
| `WhisperServerSafety` | theorems about `WhisperServer` |
| `StreamProbe` | `streamprobe.Run` with the goroutines of its partials |
| `StreamProbeSafety` | theorems about `StreamProbe` |
| `Engine` | the engine process: options, start-up, request loop, both runtimes in short form, deferred shutdown, its host |
| `EngineSafety` | theorems about `Engine` |
| `Runner` | operators: what the FunctionGemma runner makes of a request and of its model's calls |
| `Interpreter` | rules, score, hybrid choice and validation over `Runner`, other runtimes and failures |
| `InterpreterSafety` | theorems about `Interpreter` and the operators of `Runner` |
| `Evaluation` | `Evaluator.Run` and the exit code of the evaluation command |
| `EvaluationCounts` | theorems about `Evaluation` |
| `MC...` | small instances of these for TLC |

An operator `X_Variant` that stands before `X` is a faulty form of `X`: a
dropped guard, a missing reset, a swapped order. No specification uses it. It is
there to test the properties: with `X_Variant` for `X`, the property that
`PROJECT.json` names for it is violated.

Conventions. `pc` names the statement a goroutine executes next. A section
under a mutex that does not block is one step; where the code blocks while it
holds a mutex (model process, whisper start-up), the mutex is held by whoever
stands at one of the points named in the module. A pipe is a sequence of lines,
an HTTP exchange the stage it has reached. `Process.Kill` sets a flag, and the
process dies later. Crashes are actions of the environment, enabled at any time.
Bounds on calls and launches are constants (`MaxCalls`, `MaxProcs`, `PipeCap`,
`Chunks`, `MaxRequests`, `Attempts`, `MaxCases`) and appear in guards only;
`Attempts` is also a constant of the code.

### SidecarClient

Variables map one to one to fields: `process`, `closed`, `nextID`, `pending`
(its keys; the channel under `i` belongs to the call whose `id` is `i`), `chan`
(a call's result channel of capacity one), `once` (of a process: idle, running,
complete; `done` is closed from "running" on). `stdin`/`stdout` are the pipes
of a process, `hand` the response the reader has taken out of `pending` under
`mu` and not yet sent. Requests and responses carry a ghost field `req`, the
call they were made for.

| action | code |
|---|---|
| `Begin`, `AfterEnsure`, `ReturnResult`, `ReturnError` | the exported calls, `Start`, the two stages of `TranscribeAndInterpret` |
| `EnsureCurrent`, `EnsureLaunch`, `EnsureFails` | `ensureProcess` |
| `AllocateID`, `Register`, `LockWrite`, `Write`, `WriteFails`, `Receive`, `CtxDone`, `Unpend`, `Unwait` | `call`, statement by statement |
| `FailFirst`, `FailAgain`, `FailLocked` | `failProcess`: `once.Do`, the kill, the section under `mu` |
| `ReadResponse`, `Deliver`, `ReadError`, `ReadEOF`, `WaitReturns` | the reader and the waiter |
| `Close`, `StopProcess`, `StopStdin`, `StopTimer`, `StopDone` | `Close`, `stopProcess`, `stop` |
| `Serve`, `ExitAtEOF`, `Die`, `Crash` | the sidecar |

### ModelProcess

`cmd` is the child with its pipes. `p.mu` is held from `Lock` to the return, so
the points in `Inside` belong to one caller at a time; they interleave with the
child, with contexts that end and with callers that queue. `Handshake`, `Serve`
and `ExitAtEOF` are the runner's loop. `Drain` is the second select of
`readLine`: the context is done, the child was killed, the reading goroutine is
awaited, and what it may have read is dropped with the child.

### WhisperServer

`MuPoints` are the points at which a caller holds `t.mu` across steps (a whole
start-up, a discard), `TokenPoints` those at which a transcription holds the
inference token. `startLocked` is `Launch`, `ProbeReady`/`ProbeFails`,
`KillLocked`, `Reap`, up to three times; `infer` is `Send`, `Headers`, `Body`
with `TransportError` and `BodyFails` as its failures; `discardProcess` is
`Discard`, `KillLocked`, `DiscardReap`. `exchange` is the HTTP exchange of a
caller: requested, headers sent, complete, or reset.

### StreamProbe

Audio is counted in chunks. `Run` is `Capture`, the poll of the partial in
flight, `StartPartial`, and after the last chunk `Release`, `Preempt` or
collection, and the final transcription. A partial's goroutine is
`PartialReturns`, `SendResult`, `RemoveFile`. `early` records, for each partial,
whether its `completedAt` lies before `released`.

### Engine

`Engine` composes what the other modules have in detail. It keeps the control
of `runServe` and `Server.Serve`, and of each runtime only what the engine sees:
`child` is none, loading, idle, busy or killed. That is enough because the loop
uses one runtime at a time and under `context.Background()`. `cmd` is
`PersistentProcessGenerator.cmd`, which may be set although the child has ended.
`stray` says that a whisper-server is left which was killed and which the engine
waits for no longer: `stopProcessLocked` gives up after two seconds, and its
callers forget the server. A request of kind `anonymous` is a line whose id the
engine cannot know: oversized, undecodable, or without an id. Blank lines, which
`Serve` skips, are left out.

| action | code |
|---|---|
| `Configure` | flag parsing, `validate`, `runServe` up to `Start` |
| `Launch`, `Ready`, `StartFails`, `StartExpires` | `startLocked` at the start and inside a transcription; the two minutes of `startupCtx` |
| `GiveUp` | `stopProcessLocked` after two seconds, with `startLocked` and `discardProcess` clearing `t.process` |
| `Read`, `End`, `Reply` | the loop of `Serve`, `handle`, `readLine` |
| `LoadModel`, `LoadModelFails`, `ModelReady`, `ModelAnswers`, `ModelGone` | `Generate` of both generators, and the hybrid interpreter that falls back to the rules |
| `WhisperAnswers`, `WhisperLost` | both transcribers, and `discardProcess` |
| `Stop`, `Stopped` | the deferred `Close` of the transcriber, then of the generator |
| `Ask`, `HostCloses`, `Kill`, `HostDies` | the host: requests, `Close`, the kill after the grace period, its death |
| `Loaded`, `Crash`, `KillArrives`, `StrayGone`, `Orphaned` | the child processes |

A host that dies closes both pipes: the engine reads the end of its input, and
the next write to its stdout ends it by SIGPIPE (the Go runtime does so for
descriptor 1). `Orphaned` is what a child does whose parent has died: the
runner's loop ends with its input, a process at work ends with the first line it
writes to a pipe that nobody reads, and an idle `whisper-server` notices nothing.

### Runner and Interpreter

A text is the set of names and the set of words that occur in it, and the set of
names and serials that occur in it at least as parts of words (`parts`), since
`request_is_relevant` looks for substrings and `explicit_device_targets` for
whole names. An action is a function from some fields to values: low, high, `out`
of the range that the tool declares, or `huge`, a duration that this range allows
and the `*uint32` of the wire does not. A list of targets is a set. A confidence is in hundred-thousandths, because the float64 value
of .95 - .25 - .2 lies below .5 and the level depends on it.

`Runner` follows `runner.py` from `tool_schemas` to `generate`: `Inventory` is
what is offered to the model, `ExplicitTargets` the devices whose label the text
contains (the longest labels only), `Policy` what the wording allows of a
proposal, `Merged` the commands of all calls, those with equal targets made one.

`Interpreter` is one request: `Interpret` is the rule interpreter with the
adapter's validation and `confidence.Score`, and the choice of the hybrid
interpreter; `RunnerAnswers`, `RuntimeAnswers` and `ModelFails` are what may come
of the model, through `validateModelPlan` and `inferModelPower`. The parser of
`lifxlan-go`, other runtimes and the language model are outside the repository:
what they return is any member of the constants `Parses`, `RawPlans`, `CallSeqs`.
The module states what the code takes for granted of them: a host lists a device
once, a parsed command has targets and values in range, and what has been decoded
has the form of a plan.

### Evaluation

`StartCase` is the loop's body up to the subject, `EndCase` the subject's answer
and its score, `Expire` the deadline, which may pass between the two calls of the
rules. `count` holds the counters of the report and of its ratios, `cases` the
report's cases with ghost fields for the fixture and the outcome. The thresholds
of the evaluator and of the hybrid interpreter are one (`sure`): both are fields
with the default .8, and no command sets either.

## 3. What TLC checks

| run | instance | shows |
|---|---|---|
| `client_core` | two callers: `TranscribeAndInterpret` (two requests) and Close; a call or a `Start`, and cancellation; undecodable lines, one restart | `OwnAnswer`, `NoBlockedSend`, `NoLeakedProcess`, `ClosedIsQuiet`; `FailureIsOwn`: a call is failed by its own process, or after a `Start` dropped that one, and never by an old process; `NeverReplayed`: the client implements `AtMostOnce` |
| `client_live` | two callers with one operation each: call, cancellation; call, Close; undecodable lines, one restart | `NoLostCall`, `CancelReturns`, `CloseReturns` whatever the sidecar does; `EveryOpReturns` if it answers |
| `model_core` | two callers with three requests, cancellation, Close, two restarts, all kinds of lines | `OwnLine`, `InStep`, `OneRuntime`, `NeverReplayed`; `CancelReturns` whatever the child does; `EveryOpReturns` if it answers |
| `whisper_core` | two callers, cancellation, Close, three servers | `NoOrphan`, `ClosedIsFinal`, `WorksOnCurrent`, `NeverReplayed`; `CancelReturns` whatever the server does; `EveryOpReturns` if it loads and answers |
| `probe_core` | six chunks, a partial every two | `OneInference`, `Accounted`, `BeforeRelease`; `EndsClean` although partials hang until cancelled |
| `engine_core` | every combination of flags, three requests, three start-up attempts, a host that closes, kills or dies, runtimes that crash, fail and reset connections, a killed server that outlives the wait for it | `RuntimesReaped`, `AllAnswered`; `RequestsAnswered` and `EndsWithHost` if the runtimes load and come to an end |
| `interpret_core` | 47 texts over 11 snapshots, every parse, up to three calls, sound and unsound plans of other runtimes, failure | `Grounded`, `Cautious`, `EffectKept`, `RunnerPlansPass` |
| `evaluation_core` | two fixtures, three modes, every outcome, a deadline | `ReportAddsUp` |
| `client_start_loses`, `model_idle_crash`, `engine_orphan`, `interpret_off` | | refuted, see section 4 |

`EffectKept` is the reference definition of the interpreters: what a plan does to
a device is what the calls that reach it say, later over earlier, with the power
to show it. It is stated over the calls as they were made, and the plan went
through the policy, the merge, the validation and the split by power. Devices are
compared by their lower-cased serials, as the validation compares them: the calls
of an old trace give serials instead of selectors, and may write one in another
case than the snapshot does.

*Bounds.* Two goroutines are enough for every pairwise race. Three can do more:
a call, a `Start` that drops its process, and the launch of the next one whose
failure reaches the call (`OnlyOwnFailure`, section 4). The safety of the client
is therefore proved for every number of goroutines. Two processes are one
restart, which gives every "old against new" race; the whisper start-up makes up
to three attempts, so it gets three servers. In `client_core` and `model_core`
one caller makes two requests, so that the second follows another one, which may
have been cancelled or have failed in `model_core`; in `client_core` they are the
two stages of one `TranscribeAndInterpret`. The operations are a function of the caller (`Ops`): a
caller that ends its own call, or starts, runs against one that speaks or
closes. `client_core` looks at no deadlock, because a call that a `Start` has
lost waits for ever (`client_start_loses`). A pipe of one line makes a second
write wait. Three requests to the engine give a restart of either runtime
between two uses, or one of each. Three calls of a model give the order A-B-A,
in which a merge could move a later field before an earlier one (with two
selectors of one device each, and a text that names none), and two devices are
enough for a shared label, a label inside another, and targets in different
states of power. Of the snapshot's serials one is in upper case and one call
gives it in lower case; the other combinations of case add nothing that the
properties tell apart. Two fixtures tell a counter of all from a counter of the
last, with the deadline before, between or after.

*Fairness.* Weak fairness on the steps of goroutines: the Go scheduler runs
whatever can run, and timers (grace period, `Start`'s timeout, chunk timers)
fire. Strong fairness on taking a mutex or the token, because Go's mutex hands
over to a waiter it has starved and a channel serves receivers in order. Kills
are carried out. A host's context is never assumed to end. Nothing is assumed
of the partner in `FairSpec`; where a property needs a partner that answers,
that fairness is its antecedent (`SidecarFairness => ...`, `RuntimesAnswer =>
...`). For the engine, `startupCtx` and the client's grace period expire. A host
never has to close it; `EndsWithHost` starts from one that did. `PatientSpec` adds
to this that the host stays alive and that its grace period outlasts what the
engine does by itself, so that `engine_orphan` is refuted by an engine that waits
for a runtime and not by one that was killed at once.

## 4. Where the code does not do what it says

Each is a run with one property, taken from a sentence of the repository, that
TLC refutes. The lines and the sentences are in `PROJECT.json`.

- `client_start_loses`: a `Start` whose context ends drops the process of
  another goroutine's call (`stopProcess` sets `Client.process` to nil) without
  failing that call; `failProcess` then sees that the process is not the current
  one and does not fail it either. The call waits for ever, or until a third
  goroutine launches the next process and that one fails (`OnlyOwnFailure`, which
  takes three goroutines to refute). Without `Start` neither happens:
  `NoCallIsLost`, `FailedByOwnProcess`.
- `model_idle_crash`: a child that ended while idle is taken for a running one,
  because `ensureStarted` looks at `p.cmd` only; the next request fails before a
  clean runtime is started.
- `engine_orphan`: a host closes an engine that waits for its model, and kills
  it after the grace period. No deferred call runs; the model process notices the
  end of its input, the idle `whisper-server` notices nothing and stays.
- `interpret_off`: README.md:47 says "Explicit `off` always wins". The action
  policy of the runner returns the profile of a style word, which has the power
  on, before it looks for "off" (`runner.py:184`): a plan for "turn the cozy lamp
  off" switches it on. Without a style word "off" does win (`EffectIsKept`).

More behaviours that a maintainer may not expect, which no run keeps. The
modules hold the property where there is one of its own (under "what the code
does not guarantee"); elsewhere a change of a configuration shows it. Where a
theorem says how far such a property reaches, it is named.

- A request over 1 MiB is answered without an id, and the client drops the
  answer (`client_live` with `Sizes = {"large"}`: `EveryOpReturns` fails).
- A write to a full pipe does not read the context. `CancelReturns` of the client
  therefore speaks of calls that have written, and that of `ModelProcess` of
  reads: the write of `Generate` is the same.
- `cmd.Wait` closes the stdout pipe under the client's reader, and an answer
  written just before the exit may be lost (`AnswerSurvivesExit`).
- A write that meets the stdin closed by `Close` kills the sidecar before the
  grace period is over (`GraceBeforeKill`). Nothing else does, except a line that
  cannot be decoded: `KilledWhenAsked`.
- The guard of `RestartOnCrash` reads the id counter, so a crash inside `Start`
  leads to a restart although it is off (`NoUnwantedRestart`). From the first
  request on there is none: `OneSidecarServes`.
- A server that stays up and never becomes ready is polled as long as the
  context lasts, and the engine's has no end (`StartupReturns`).
- A server that ends within a response body is not discarded, and a second
  transcription may fail on it (`FailsOnce`).
- `Close` of the transcriber waits for the mutex that a start-up holds, so its
  `lifetimeCancel` cannot interrupt the start-up, and the branch "transcriber
  closed" of `waitReadyLocked` is never taken (`CloseReturns` of `WhisperServer`).
- A killed `whisper-server` that takes more than two seconds to die is forgotten:
  the engine starts another one beside it, and may return before it is gone
  (`stray`; `RuntimesReaped` speaks of what the engine holds). The final `Close`
  of a server that is still held waits for it without a bound.
- An engine whose runtime hangs ends by the kill of its host only: when the host
  has died, nobody ends it (`EndsWithHungRuntime`).
- The tool declares a duration without a maximum, and the wire has thirty-two
  bits: one call with a longer duration, under a text that asks for one, makes the
  whole plan undecodable (`ToolRangePasses`). `RunnerIsValid` therefore assumes
  durations that fit.
- Of several devices whose labels a text contains, the runner keeps those with
  the longest label, and gives them every call, also one that selects another
  of the devices (`NamedAreReached`). With labels of equal length none is lost:
  `NamedReachedIfAlike`.
- A runtime may give the reason "model fallback unavailable" itself, and its plan
  then passes for one of the rules, with a host and in a report
  (`UnavailableIsTold` of `Interpreter`, `UsedIsOfModel` of `Evaluation`). Only
  such a runtime can do it: `UnavailableOfRules`.
- A request the rules refuse counts as eligible for the fallback in a report,
  although the model is never asked for it (`EligibleIsAsked`).
- A plan of another runtime that switches a device off and in a later command
  sets its color gets an inferred "on" in that command if the snapshot has the
  device off: `inferModelPower` looks at one command and at the snapshot, not at
  the commands before (README.md:47: "Explicit off always wins"). The runner
  does not make such plans, since its policy puts the power into every command;
  that is the last conjunct of `EffectKept`, for texts without a style word.
- `merge_commands` joins commands with equal targets at the place of the first.
  Where the targets of two calls overlap without being equal, a later field may
  end up before an earlier one; `EffectKept` leaves those out, and is a theorem
  for all others.

## 5. What is proved

TLAPS proves, for every set of callers, every budget of calls and launches,
every pipe capacity, every subset of operations, every number of audio chunks,
requests and fixtures, and every snapshot, text and sequence of calls:

| theorem | module | of |
|---|---|---|
| `TypeCorrect` | `SidecarClientSafety` | `[]TypeOK` |
| `SendsNeverBlock` | `SidecarClientSafety` | `[]NoBlockedSend` |
| `CloseIsFinal` | `SidecarClientSafety` | `[]ClosedIsQuiet` |
| `NoSidecarLeaks` | `SidecarClientSafety` | `[]NoLeakedProcess` |
| `AnswersAreOwn` | `SidecarClientAnswers` | `[]OwnAnswer` |
| `FailuresAreOwn` | `SidecarClientAnswers` | `[]FailureIsOwn` |
| `NoCallIsLost` | `SidecarClientAnswers` | `[]NoLostCall`, where no `Start` gives up and no request is too large |
| `CallOnce` | `SidecarClientAnswers` | `NeverReplayed`: the client implements `AtMostOnce` |
| `FailedByOwnProcess` | `SidecarClientAnswers` | `[]OnlyOwnFailure`, where `Start` is not used |
| `KilledWhenAsked` | `SidecarClientAnswers` | `[][AskedFirst]_vars`, where every line can be decoded: a running sidecar is killed only after a stop closed its stdin |
| `OneSidecarServes` | `SidecarClientAnswers` | `[]OneServes` and no launch after the first request, where `RestartOnCrash` is off |
| `TypeCorrect` | `ModelProcessSafety` | `[]TypeOK` |
| `OneModelAtATime` | `ModelProcessSafety` | `[]OneRuntime` |
| `ChildInStep` | `ModelProcessSafety` | `[]InStep` |
| `AnswersAreOwn` | `ModelProcessSafety` | `[]OwnLine` |
| `GenerateOnce` | `ModelProcessSafety` | `NeverReplayed`: the generator implements `AtMostOnce` |
| `TypesKept` | `WhisperServerSafety` | `[]TypeOK` |
| `NoServerLeftBehind` | `WhisperServerSafety` | `[]NoOrphan` |
| `CloseIsFinal` | `WhisperServerSafety` | `[]ClosedIsFinal` |
| `CurrentIsKept` | `WhisperServerSafety` | `[]WorksOnCurrent` |
| `TranscribeOnce` | `WhisperServerSafety` | `NeverReplayed`: the transcriber implements `AtMostOnce` |
| `TypesKept` | `StreamProbeSafety` | `[]TypeOK` |
| `OneAtATime` | `StreamProbeSafety` | `[]OneInference` |
| `NoAttemptLost` | `StreamProbeSafety` | `[]Accounted` |
| `ReleaseIsTold` | `StreamProbeSafety` | `[]BeforeRelease` |
| `TypesKept` | `EngineSafety` | `[]TypeOK` |
| `NothingLeftRunning` | `EngineSafety` | `[]RuntimesReaped`: the runtimes the engine holds |
| `EveryRequestOnce` | `EngineSafety` | `[]AllAnswered` |
| `PlansAreGrounded` | `InterpreterSafety` | `[]Grounded` |
| `DoubtIsConfirmed` | `InterpreterSafety` | `[]Cautious` |
| `RunnerIsValid` | `InterpreterSafety` | `[]RunnerPlansPass`: calls in the tool's ranges, durations of thirty-two bits |
| `EffectIsKept` | `InterpreterSafety` | `[]EffectKept`: calls that do not partly overlap; the power of "off" without a style word |
| `UnavailableOfRules` | `InterpreterSafety` | `[]UnavailableIsTold`, where no other runtime gives the reason |
| `NamedReachedIfAlike` | `InterpreterSafety` | `[]NamedAreReached` for texts with labels of equal length |
| `PercentileIndex` | `EvaluationCounts` | the index of the 95th percentile, for every number of latencies |
| `CountsEveryFixture` | `EvaluationCounts` | `[]EveryFixtureCounted`, a conjunct of `ReportAddsUp` |
| `ReportIsRight` | `EvaluationCounts` | `[]ReportAddsUp` |

Assumptions: the ones the modules state about their constants, that is, callers
of the client are not named like its reader and waiter goroutines, bounds are
numbers, the inputs are among the kinds the modules know, and what `Interpreter`
takes for granted of its inputs (section 2). `NoCallIsLost` has two hypotheses
of its own, `NobodyStarts` and `"large" \notin Sizes`. Neither can go: a
`Start` that gives up loses the calls of others (`client_start_loses`), and the
answer to a request over 1 MiB has no id (section 4). The theorems that say how
far a refuted property reaches have the hypothesis the table names, each a value
of a constant or a kind of input that the code meets: a host that never calls
`Start`, a sidecar that is this engine, the default of `RestartOnCrash`, the
runner as the only runtime, two labels of equal length. TLC refutes the property
without it.

*The client.* `TypeOK` alone is not inductive: a process index is only known
to be one where `pc` says that a target has been set, and the number of launches
bounds it. `TypeInv` adds `Equipped` (who stands at a point that uses a target
or an id has one) and `Budgeted` (who is in a call has not used up its requests).

`NoBlockedSend` needs to know who may send to a channel. `ChannelInv` adds that
ids are unique and below the counter (`IdsUnique`), that a response in a
reader's hand has left `pending`, and that no two readers hold the same id
(`TakenOnce`), and that a call has an empty channel before it registers
(`FreshChannels`). A channel is then written at most once between registration
and the return: by the reader that took the id, or by `failPendingLocked`,
which clears `pending` in the same locked section.

`NoLeakedProcess` needs `DoneMeansKilled` (the first failure of a process kills
it before anyone sees `done`) for the paths on which a process stops being the
current one: `failProcess` has killed it, `stopProcess` and `Close` take over
its stop, and `ensureProcess` replaces only one that is done.

`OwnAnswer` is about ids, which are the only thing that tells answers apart.
`LinesFit` says of every line in a pipe and of every response in a reader's hand
that its id was given out, and that it is about the call that has this id as long
as one has it. A response that comes after its call was cancelled carries an id
nobody has any more, since the counter never goes back.

`FailureIsOwn` needs to know whose calls a process takes along when it fails:
a registered call belongs to the current process, or to one that has failed or
that a `Start` is stopping (`PendingOwned`). `NoLostCall` is the other direction:
without a `Start` that gives up, a call that waits is registered with the current
process until somebody takes its id, who then sends to its channel
(`Registered`), and a call that has written its request has it, or its answer, on
the way, or its process about to fail (`UnderWay`).

Three theorems draw the line of a property that the code does not keep.
`FailedByOwnProcess` is `FailureInv` where nobody abandons a process.
`KilledWhenAsked` follows a process to its end (`AskedInv`): a reader or a waiter
that fails it has seen it exit (`EndedBefore`), every line can be decoded
(`Readable`), and a write or a stop that kills it found its stdin closed
(`ClosedBefore`). `OneSidecarServes` needs that a call which may write has an id,
so that the id counter is past zero, and that it registered with the last process
launched (`SoleInv`).

*The model process.* `OneRuntime` needs three more facts: one caller at a time
stands inside `p.mu` (`Mutex`), it stands at `launch` exactly when there is no
child (`Equipped`), and the processes not yet launched are untouched (`Fresh`).
The number of the next process is then free, and the one before it has been
waited for.

`OwnLine` is about an order that no message carries, so the invariant says at
each statement what the holder may rely on (`At`): before the readiness line is
read the pipes hold at most that line, before a request is written they are
empty, until it is answered they hold the request or its answer, and when it is
decoded they are empty again. Between two operations nobody holds `p.mu`, and
`InStep` says the same of the idle child, which hands the fact from one holder
to the next. On the paths that give an answer up (`drain`, `stop`, `reap`)
nothing can be relied on, and nothing needs to be: they end with no child. So
`InStep` and `OwnLine` are proved together (`AnswerInv`).

*The whisper server.* The mutex admits one caller (`Mutex`), and nobody once the
transcriber is closed (`Quiet`); the next server is fresh, and one that was waited
for has ended (`Fresh`). A start-up begins where there is no server, and
`t.process` is cleared only after its server was killed or had ended (`Holder`).
`NoOrphan` and `ClosedIsFinal` follow. `WorksOnCurrent` is inductive beside them:
the holder of the token is the only one to discard a server, and it discards its
own.

*The stream probe.* `OneInference` needs that only Run's active partial has not
sent its result (`OneActive`). For `Accounted` the attempts are exactly the
partials in the counters and the active one, and no partial is in two counters
(`Ledger`). `BeforeRelease` needs which partial completed first (`FirstKept`) and
that only the last attempt can return after the release (`Late`).

*The engine.* `Waited`: a runtime works or dies only at the statements where the
engine waits for it, and elsewhere it is gone, given up on, or idle, in which case
a deferred call meets it and waits for it without a bound; so none is held when
`runServe` has returned (`RuntimesReaped`).
`InOrder`: while the loop serves, it has read one request more than it has
answered, and it leaves only at the end of its input (`AllAnswered`).

*The refinements.* The three `NeverReplayed` are step simulations: every step of
the component is a step of `AtMostOnce` for one request, the loss of some, or a
stutter. The client's needs that a request is in one place at a time, a pipe or a
hand (`OnePlace`), that only requests that were written are there (`Written`), and
that no answer reaches a call before it has written (`NoEarly`); the other two the
same about their single request.

*The interpreters.* Texts, snapshots and calls are of any size, so what the
recursive functions `Merged` and `FlattenSeq` return needs induction. The
library's induction theorems take an operator as a parameter, which the provers
cannot instantiate. `EveryNumber` is a form of induction over sets of numbers
without one, from the well-founded order of finite sets. With it `MergedMade`
shows that each command of the runner has the targets of one of the calls and
values in range, `LongestExists` that one of the labels named is the longest, and
`Flattened` that the split commands are those of the parts. The invariant `Inv`
says that the score of the rules separates clear requests from the others
(`Scored`) and is low exactly with two doubts or no command, that only unclear ones reach a model, and of a result what the
properties say.

`EffectIsKept` carries the effect on one device through each stage. `EffectSteps`
makes `Effect` a recursion over the number of commands. `MergeOneEffect` is the
step of the merge: a call whose devices do not partly overlap with those before
changes the effect on its own devices as if it had been appended; `MergedEffect`
sums this up over all calls. `SplitShows` says of a command split by power that
what reaches one of its devices is its action with the power to show it, and
`AcceptedShows` the same of all the commands of a plan; a device that several
calls reached has them in one command by then. `RunnerKeeps` puts these
together, `EffectOfOff` adds that a plan which says "off" in every command leaves
"off"; `RunnerStep` says that only such a plan becomes a result of the runner.
The proof is why the property compares serials by lower case: with serials
as they are written it is false for calls of an old trace, which TLC shows on the
call that `MCInterpreter` adds for it.

*The evaluation.* `CountsEveryFixture` rests on `ScoreInv`: each case in the
report has raised exactly one of "passed" and "failed" (`OneVerdict`), and the
command exits only with as many cases as fixtures. The invariant needs the types
of the cases (`CaseTypes`), which `OutcomeIsResult` gives for every mode.
`ReportIsRight` says of each counter at every point of the loop how many cases of
which kind it counts (`ToldApart`, `Fallbacks`, `Accuracies`, `Verdict`), and of
the case under evaluation that between the two calls of the rules only the
deadline may pass (`AskedTwice`).
`PercentileIndex` is about integer arithmetic; that `math.Ceil(.95*float64(n))`
agrees with it was computed for n up to 200000.

Only model-checked: liveness, since fairness and `ENABLED` are out of the
prover's reach. These are `EveryOpReturns`, `CloseReturns` and `CancelReturns` of
the processes, `EndsClean`, `RequestsAnswered` and `EndsWithHost`.

## 6. What is not modelled

- Payloads: DTOs, JSON, multipart uploads, WAV data, diagnostics.
- The port of `whisper-server`, chosen and released before the server binds it.
- The order in which `net/http` drains an upload.
- The temporary directory and the output files of a one-shot `whisper-cli`.
- The words of a text one by one: normalization, the regular expressions of the
  runner's policy and those that cut calls out of generated text, the parser
  (`lifxlan-go`, outside the repository) and the conversion of its messages.
  What they decide is a member of a set.
- Numbers other than low, high, out of range and too long a duration: a NaN the runner might write
  is no JSON, and has its child discarded as any undecodable line has.
- The decoding of fixtures (`Load` refuses a file before `Run` begins), and the
  averages of a report.
- Configuration, doctor, model tools, example client, scripts: straight-line code
  without state between calls.

## 7. Plan

Done: the modules of section 2, and a theorem for each safety property of a
passing run.

Left:

1. The refuted properties that no constant of a module decides: `FailsOnce` where
   no server ends within a body, and `UsedIsOfModel` where no model gives the
   reason of the hybrid. Their modules would need the environment as a parameter.
2. `Engine` as a refinement: its one-step runtimes stand for `ModelProcess` and
   `WhisperServer` under one caller. Their starts, retries and kills are several
   steps there, and the mapping needs history variables.
