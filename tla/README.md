# TLA+ models of the streaming voice agent

This directory holds TLA+ modules, TLC configurations and TLAPS proofs for the
streaming side of the voice agent in `src/nemo/collections/speechlm2`: the
full-duplex session, function calling while the conversation goes on, turn
taking, the requests in the inference engines, the life cycle of streams on the
server and what its clients receive. Paths below are relative to the
repository; the letters stand for

| short | file |
|---|---|
| S  | `nemo/collections/speechlm2/models/streaming_fc_session.py` |
| P  | `nemo/collections/speechlm2/inference/pipelines/streaming_s2s_pipeline.py` |
| W  | `nemo/collections/speechlm2/inference/model_wrappers/nemotron_voicechat_inference_wrapper.py` |
| CM | `nemo/collections/speechlm2/inference/streaming/state/s2s_context_manager.py` |
| VE | `nemo/collections/speechlm2/inference/vllm/streaming_llm_engine.py` |
| MF | `nemo/collections/speechlm2/inference/model_wrappers/model_factory.py` |
| TR | `examples/speechlm2/nemo_inference_pipelines/triton/model_repo_s2s/voicechat/1/infer_streaming.py` |

## 1. The system and its parts

A language model steps over a timeline of 80 ms positions. At each position it
takes the user's audio frame and its own last tokens, and emits a text token
(what the agent says), an ASR token and a *function* token. The function
channel carries calls: `<SOTC> call <EOTC>`; the driver answers by writing the
response into the positions that follow.

There are two drivers. `StreamingFCSession` (S) is the stepwise session that a
client embeds: it stalls the audio while a call is unanswered. The Triton
pipeline (TR, P, W) serves streams in real time; it hands a stream to a
background thread while a call is written, executed and answered.

| part | state | operations | who calls it |
|---|---|---|---|
| stepwise session (S) | two clocks `t_lm`, `t_audio`; residual audio; injection queue; call list; awaiting flag; function timeline | `start`, `push_audio`, `push_tool_result` | one client thread |
| background function calling (P, W) | context (`frame_idx`), `fc_state` shared by reference, `_fc_async_bg` entry with thread, queue, quit event and result | `inner_generate_step` per chunk; `_fc_async_thread_fn`; `_run_fc_async_steps` | execute() of the server; a thread per call; an executor for the tool |
| context slots (CM, P) | two maps, queue of free slots, a context per slot; `_stream_has_prompt` | prefill, chunk, last chunk, reset | execute() of the server; command line client |
| engine requests (VE, MF) | record per request (status, tokens, iterator); requests inside vLLM; `_loop_lock` | start, next token, abort, restart, shutdown | both threads |
| turn taking (W) | RNNT hypotheses, silence and speech counters, agent-EOS flag, tool-call exemption | one call per frame | the decoding step |
| server delivery (TR, `s2s_state.py`) | text positions per stream, output strings, audio buffer | one response per request | the server |
| perception, TTS, codec | tensors and CUDA graphs | per frame | the decoding step |
| data sets, training, evaluation scripts, the other NeMo collections | - | - | offline |

Interactions: `execute()` calls the pipeline, which takes a context from the
slots, steps wrapper and engine, and updates the context. `<SOTC>` makes it start
the thread, which shares `fc_state`, the token tensors' clones, the engine
request and the lock with it. Turn taking writes `_agent_eos_just_fired`, which the
pipeline reads one or many chunks later to stop a thread. The thread hands its
step count back through `bg_result` once it is dead.

What makes it hard: two threads on one stream with no lock around `fc_state`;
events read in one chunk and used in a later one; limits (context, budget,
maximal steps) that cut a call or a response in two; a last chunk, a failure or a
disconnect in the middle of a call; a tool that is late, refuses or raises.

What makes it correct, part by part:

* session: no audio lost, each position is audio or an injected token and never
  both, a response comes before the next audio, is not put into a call that is
  being written, and fits its budget; each call is answered exactly once;
* background calling: one thread at a time works on the stream; frame index and
  KV cache agree after a hand-over; an interrupted response does not leak into
  the next turn; the slot is neither released under the thread nor leaked; every
  call ends;
* slots: maps and queue agree, a served stream keeps its context, an ended one
  leaves nothing;
* engine: what an engine answers from is the end of the conversation under way,
  without gaps, and a stream that ended leaves no record and no request;
* turn taking: the driver's record of who talks follows what was written, a pause
  is answered once and in time, a barge-in is heard, no rule opens a turn in a
  turn, a turn keeps to its maximal length;
* delivery: audio and texts reach the client once and in order, the shown
  utterance is the transcript, an ended stream leaves nothing to the next one
  with its id.

The components and hazards in `PROJECT.json` list all of this at its lines.

## 2. Modules

| module | content |
|---|---|
| `FunctionChannel` | abstract protocol of the function channel: listening, calling, awaiting, responding |
| `StreamingFCSession` | the session of S, with the refinement to `FunctionChannel` |
| `StreamingFCSession_proofs` | its proofs |
| `MCStreamingFCSession` | tick sizes and response lengths for TLC |
| `CallLifeCycle` | abstract life cycle of a call beside a conversation, without threads and hand-overs |
| `FCAsync` | background function calling of P and W, with the refinement to `CallLifeCycle` |
| `FCAsync_proofs` | its proofs |
| `ContextStore` | abstract store that keeps the context of the served stream |
| `ContextSlots` | the slots of CM and the streams' life cycle in P, with the refinement to `ContextStore` |
| `ContextSlots_proofs` | its proofs |
| `MCContextSlots` | symmetry of the streams for TLC |
| `TurnTaking` | forced turn taking and the RNNT rules of W |
| `TurnTaking_proofs` | its proofs |
| `MCTurnTaking` | redirect tokens and settings for TLC |
| `StreamEngine` | the requests of a stream id in the two engines (VE, MF) |
| `StreamEngine_proofs` | its proofs |
| `Delivery` | what the clients of a stream id receive (TR, `s2s_state.py`, P) |
| `Delivery_proofs` | its proofs: types, audio, texts, the end of a stream |
| `DeliveryTranscript_proofs` | its proofs about the transcript |

Definitions preceded by a `Mutant of` comment are used by no specification.
Each is a wrong version of the definition that follows it; substituting it makes
a named property fail, which shows that the property depends on that code.

### StreamingFCSession

The client calls the session from one thread, so an action may be as big as a
call; but each model step inside `push_audio` has an outcome of its own, so
`push_audio` is split at its loops. `pc` says where it is: `PushAudio` (entry),
`DrainToken` (one queued token), `DrainDone` (end of the drain; the early return
of a stalled session), `AudioFrame` (one frame), `HorizonExhausted`, `ReturnTick`.
The model is free: any text token at each step, and any function token where the
driver left PAD. Calls are numbers, a response is a length, samples are counted. `push_tool_result`
does not look whether a call is open; that the client answers each call once, which
`PushToolResult` asks for, is an assumption about the client.
`MaxBuffered` bounds the samples a client may leave in `_residual`; the code has
no such bound. `FunctionChannel` is reached by the mapping at the end of the
module: `phase` from `_in_call`, `_awaiting_result` and the queue.

### FCAsync

One stream, three actors. The main thread (`pcM`) handles a chunk: normal
(`BeginChunk`, `StepFrame` per frame, then `EndChunk` or `StartThread`; a raise is
`ChunkFails` or, after `update_context`, `ChunkFailsUpdated`), during a
call (`ForwardAudio`, `ReturnDuringCall`), or the chunk that finds the thread dead
(`TakeResult`, which continues as a normal one). The background thread (`pcB`) runs
the loop twice, around the tool: `AsyncStep`, `StepFails`, `StopLoop`, `SubmitTool`,
`FinalWait`, `TimeOut`, `AfterTool`, `Publish` or `ThreadFails`, `ThreadDies`. The
executor's tool is `ToolReturns`. An execute() call during a call is two steps
because the thread may do anything between its look at the thread and its look
at the flag. `kv` counts the positions the engine was stepped over. What the
configuration cannot reach (`abort_event`, `natural_interrupt`) has no action. A
*refused* tool is one for which `_execute_tool_call` returns None; *raised* is the
exception that escapes it. `lost` counts what a failure costs: the steps of a call
whose thread failed, which its except clause does not report, whether the tool raised
or a step (`StepFails`, with the engine having taken the position or not), and the
frames of a chunk that raised before they were persisted. Nothing checks for room
before a chunk: a frame past the end of the context raises, so there is no action
that steps one and `ChunkFails` is what is left. After a last chunk that raised the
client has gone (`pcM` is `lost`). `MaxLost` bounds the frames lost in chunks.
Audio, TTS, on-hold messages and token texts are left out.

`CallLifeCycle` is reached by the mapping at the end of the module: `callPhase` from
`tracked`, `pcB`, `response` and `tool`, the positions from `kv`, those of a run
from `steps`. It has no threads: a stream talks, a call is written, executed,
answered and over, and only then does the stream talk again.

### ContextSlots

The manager is a record, and its methods are operators from managers to managers.
The actions are the pipeline's entries: `Prefill` (a zero-length first frame),
`PrefillFails`, `Chunk`, `ChunkFails` (an exception after `get_context`),
`ChunkFailsUpdated` (one after `update_context`),
`Disconnect` (the client stops; the server forgets it, the pipeline is not
told), `ResetSession`. The server's sequence batcher is external: one stream is
served at a time. `_abort_stream_request` is taken to succeed; it only logs a
warning otherwise. `warmup` ends where `Init` starts. The early returns of a
last chunk during a call are in `FCAsync`, not here. `ContextStore` forgets the
slots: it knows which streams have a context and how long it is. A stream's actions
may drop the contexts of others, as a replaced manager and the clean-up do, but write
to none.

### TurnTaking

One step is one frame. The model's token is free, and so are the ASR channel and
whether the RNNT hears speech. `Frame` is `infer_one_step` with no call in
progress: `Forced` (forced turn taking on the ASR channel), `Listen` (who talks,
from a look back over the text), `Rule` (the eight rules in their order, the first
one wins), `Apply`. `RedirectFrame` is a frame that writes a queued token,
`SilencedFrame` a position of a call, `InterruptCall` the EOS the pipeline writes
after an interrupted call, `NewStream` the change of streams, with or without the
prefill that empties the redirect queue. The two text windows are kept as the
distances to the last BOS and EOS, the ASR window as its last run of PADs; no rule
compares a counter with more than `Cap`, so they stop there. `opt` is a choice of
the three settings that may be off; the server has all three off. Self-play
suppression is switched off where the wrapper is built (W:543), so its branch has
no definition. `called`, `openFor` and `forcedHere` are there for the properties.

### StreamEngine

One stream id, two engines, `llm` and `tts`. vLLM is external: given an input it
may answer, finish, have no token yet, fail with the request alive or not, or
refuse the input; it refuses a second request with a live id, and it may lose a
request by itself (`EngineDrops`). The event loop's lock is held for a whole
inference and the pipeline gives a stream to one thread at a time, so an inference
is one step; a frame is two (`FrameText`, `FrameSpeech`), because the second may
raise after the first was done. `Started` is the silent restart of a finished
request (MF:458). `marred` says why an engine is excused: *skipped*, an input came
before the request's first token and is not appended (VE:272); *undead*, the record
is marked finished while the request lives; *notAborted*, an abort failed, or the
code that aborts was not reached. `restart_request` has no caller, `abort_event` is
never set, and neither has an action.

### Delivery

One stream id, used by one stream after another. `Decode` is a chunk with its
audio, agent text, function text and transcript; `DuringCall` and `TakeResult` are
the chunks that meet or end a call; `ReadTexts` and `Send` are the two halves of the
response, between which the background thread may write (`ThreadWrites`) or queue
audio and transcripts (`ThreadSpeaks`, `ThreadHears`). Pieces are numbers that
count up, so an order is visible. `marred` collects what the properties excuse:
*leftover* (the end was not reached, or a call outlived the stream), *interrupted*
(a call's audio was thrown away on purpose), *repeated* (an utterance equal to the
last one is not shown), *rewritten* (the transcript was replaced by one that does
not extend it, as after the stripping of full stops), *cut* (a transcript emptied
in the chunk that completed it). Each of these is a line of the code, section 6.

## 3. Runs

| run | question | bounds |
|---|---|---|
| `fc_session_stall` | the default session: types, clocks, audio, turn end, budget, and the refinement to `FunctionChannel` | 3 frames, 2 function tokens, 2 samples a frame, ticks of 0, 1 and 3 samples, responses of 0, 1 and 3 tokens |
| `fc_session_nostall` | what remains without the stall: calls, response before audio | 4 frames of one sample, ticks of 0, 1 and 3 frames, `<EOTR>` forced |
| `fc_async` | one writer, slot held as long as it is needed, no leftover response, agreement of frame index and KV cache, interruption, the refinement to `CallLifeCycle`; every call winds down and ends; a written call is executed | 2 frames a chunk, context of 9 positions, 4 steps, 2 response tokens, all tool outcomes, failing steps, chunks that raise after up to 2 frames |
| `context_slots` | maps and queue, own context, nothing left, the refinement to `ContextStore` | 4 streams, 1 slot, 2 chunks a context |
| `turn_taking` | the driver follows the text; answers, barge-ins, pauses, the maximal response | windows and counters of 1 and 2 frames, three settings, a redirect of three tokens |
| `stream_engine` | what an engine answers from; what a stream leaves | 3 inputs a conversation, 2 conversations |
| `delivery` | audio, texts and transcript of a stream id; reuse of the id | one word, 2 silent frames empty the transcript, 4 pieces, 2 transcript tokens |
| `fc_session_budget`, `fc_async_stale_eos`, `fc_async_timeout`, `fc_async_last_chunk`, `turn_taking_ratio_cap` | divergences, section 6 | smaller |

`fc_session_stall` and `fc_async` also check liveness: the first that a stall ends and
a queued response is injected, the second that calls end and are executed. `context_slots` uses the symmetry of the streams; all it
checks is safety, and neither the properties nor `ContextStore` name a stream.

Why these bounds are enough for the cases that matter. Session: half frames leave
a residue; a tick of three samples brings a frame and a half, and the buffer two
whole frames, so a call can close with a frame still to come in the same tick;
without the stall a tick of three frames closes two calls; four frames are two
calls, the second with the budget spent by the first; a
response of three tokens exceeds the budget of two; the horizon can end in
a drain and in a tick. FCAsync: nine positions are enough for a call with two
response tokens and a chunk before it, and odd, so that a chunk of two frames can
meet the end of the context in its middle; two lost frames are a whole chunk that
raised, or two that raised in their first frame; the step limit of four is
reached inside phase 1 and inside phase 2; two frames a chunk let `<SOTC>` come in
the first or the second. Slots: the emergency clean-up needs more streams in one
manager than it has slots; since the manager is replaced at every prefill and
every unprefilled start, it can only be reached with one slot, which is also what the
configuration has (`batch_size: 1`); four streams allow two disasters in a row.
Turn taking: the rules compare counters with thresholds and with each other, so
what matters is which threshold is reached first; one frame for a first turn and
two for the others keeps them apart, and a window of two frames is longer and
shorter than the runs of counters that can be under way. Engine: two
conversations are one that leaves something and one that finds it, three inputs are a
beginning, a middle and an end. Delivery: two transcript tokens are a word and
its full stop, or an utterance and its equal; four pieces fill a response and leave
one in the queue of a call.

`CHECK_DEADLOCK FALSE` is set for FCAsync, slots, engine and delivery because they
stop: a stream ends, a context is full, all streams are gone, or the bound on inputs
or pieces is used up. The session never stops, a client may always tick again, and
neither does turn taking.

Fairness. Session: the client keeps ticking (a tick may be empty) and
`push_audio` runs to its end, weak fairness; a reported call can only be answered
between two ticks and is answered there, strong fairness: that is what `drive()`
in `scripts/check_streaming_driver.py` does. FCAsync: the server keeps calling
execute() until the last chunk, the thread is scheduled, and each tool returns
(the clients in `tool_clients.py` have time-outs of 5 and 10 s): weak fairness for
each of the three. Nothing is assumed of the model: it may talk without an end.
That a call ends all the same rests on the limit `max_async_steps`.

## 4. What is proved

TLAPS proves the following for every value of the constants the ASSUMEs allow.

**StreamingFCSession** (`SessionTypes`, `NoAudioLost`, `ClocksAgree`,
`ResponseFirst`, `TurnEndNotLost`, `EveryCallAccounted` with and without the stall;
`BudgetKept`, `CallsNotInterrupted`, `NoAudioDuringCall`,
`SessionImplementsProtocol` if `StallAfterEotc`). The
properties are not inductive. `Base` adds to the types that nothing has happened
before `start`, that the future of the function channel is PAD, that the loop
never asks for more frames than are buffered, and that audio starts only when the
queue is drained or the horizon spent. `Clocks` adds to `TwoClocks` that every recorded
span and the drain under way end before the next position. `CallOrder` says that the
pending calls are the newest ones, in order, that all others were handed to the
client and are open or answered but not both, and that calls are pending only in the
frames of a tick: so a tick that closes several calls reports each of them once.
`Stall` locates the call: while one is
unanswered it is the only one, all before it are answered, nothing is queued and no
call is open. That is why the budget
check, which ignores the queue, is right: the queue is empty whenever a result
may be pushed. Without the stall it fails (run `fc_session_budget`). The early return
does not report `turn_ended`, and hides none: with the stall nothing is queued then, so
the drain before it has stepped nothing; without the stall it is never taken.

**FCAsync** (`TypeCorrect`, `OneThreadAtWork`, `ThreadKeepsItsSlot`,
`CallStartsClean`, `InterruptDropsResponse`, `QuitStopsThread`, `HandBackAligned`,
`EndKeepsOnlyCalls`, `ThreadsImplementCall`, `CallsWindDown`,
for every way a tool may end and a thread or a chunk may fail). `HandOver` says where the
hand-over is: a live thread is tracked, and a
tracked stream's main thread is not in a frame. The slot follows from it. For the
alignment two equations are carried through every state: the engine's position
against the loop's, and the loop's step counts against the frame index, which is
frozen while the thread is alive. A failing thread reports no steps, and a chunk that
raises persists none; the equation
then holds with `lost` added, which is how far the rest of the stream is off. That
no position passes the end of the context (`TypeCorrect`) follows from the
alignment and from the raise of a frame that would: what a result reports is where
the loop stopped. `Release` says that a
chunk forwarded to a thread is still tracked when it is answered, so that what
remains at the end of a stream is just the calls that were never taken back.

`ThreadsImplementCall` is the refinement of `CallLifeCycle`, one step of the
abstract call or none for each step of the main thread, the background thread and the
tool. It needs `Stage`, which ties the tool to the place of the thread: the first
loop runs before the tool is submitted, the second after it has returned, a call
waits for its tool only between the loop and the executor, and the thread never
leaves a tool running. The last of these is the shutdown of the executor that makes
`fc_async_timeout` fail: the wait that the time-out does not end is what keeps a
tool from returning into a later call. `CallsWindDown` proves the variant behind
`FcEnds`: `Remaining` is a natural number, the main thread cannot raise it while a
call is tracked, and each step of the thread and the tool lowers it. What is left to
TLC is that fair threads take these steps.

**ContextSlots** (`SlotsInvariant`, `TypeCorrect`, `SlotsAgree`, `ContextKept`,
`EndedIsReleased`, `PipelineImplementsStore`, for any number of streams and slots).
One lemma per operator
of the manager says what it makes of a manager whose maps and queue agree; the
clean-up is covered because it leaves what a new manager is. The strengthening is
`NotBegun`: a stream without audio so far has at most an unused context.
The refinement to `ContextStore` shows for each entry of the pipeline that the
acting stream gets what the store says and that the others' contexts stay or go
(`OthersKept`); that a served stream's context has as many chunks as were processed
comes from `OwnContext` and `NotBegun`; that there are never more contexts than slots,
because the map from streams with a slot to their slots is an injection.

**TurnTaking** (`TypeCorrect`, `DriverFollowsTheText`, `AnswersInTime`,
`OpensOnlyIdleTurns`, `HearsBargeIn`, `ForcesOneTurnPerPause`,
`EouIsNeverSuppressed`, for any windows and thresholds; `LimitsResponses` under
`CapSettings`). The driver does not keep
who talks, it infers it from a window of text, so the invariant relates three
things: the text (`idle`), the window (`Windows`: a BOS in it that is newer than the
last EOS means an open turn, and an open turn has its BOS before the EOS unless
that has left the window) and the record (`Aware`: an open turn is known or its EOS
is still in the window). `FirstTurn` says where an open turn can come from while the
driver still waits for the first one: only from the redirect queue, which ends with an
EOS; `Pause` that a forced turn of
a pause leaves its BOS in the window for as long as the pause could be answered
again. `Pause` needs `WindowAssumption`, which the server's settings satisfy
(38 - 10 <= 40). `OpenBound` splits an open turn's frames into those the counter of the
maximal response has counted and those it has not: the frames in which the last turn's
EOS was still in the window, or the redirect tokens so far. `CapSettings` says when that
adds up: no rule after a forced EOS, whose PADs hide an open turn from the driver, and
redirect tokens that are not longer than the cap. That the EOU branch for a BOS in the window is dead is a corollary.

**StreamEngine** (`TypeCorrect`, `HearsTheEnd`, `ReleasesAtTheEnd`, for any number
of inputs and streams). `LiveTracked` says which requests may live: those with an
active record, and those some excuse covers; `Order` that a stream is open whenever a
frame or a prefill is under way; `CacheIsSuffix` and `EndReleases` are inductive with
these two. `AppendedSuffix` and `SkippedSuffix` say what an input that is appended, or
is not, makes of a cache that is in order.

**Delivery** (`TypeCorrect`, `TextReachesOnce`, `AudioReachesOnce`,
`EndedStreamIsForgotten`, for any vocabulary and any number of pieces). `Life` says
what may be there at all: a chunk only of an open stream, no thread during a chunk,
nothing between two streams unless it is excused. `Cursor` says that the positions
lie inside the texts and that what a response read of the function text is a prefix
of what it is by now: this is why a delta cut from the read text and a position
taken from it fit together while the thread writes. `TextOnce` and `AudioOnce` are
carried along; audio needs in addition that no piece is newer than the newest.

For the transcript (`ClientShowsTranscript`, `TranscriptIsComplete`) five
conjuncts are carried together. `Utterance`: as long as the shown utterance is as
long as the position, it is that beginning of the transcript. `Complete`: what was
sent and the delta that would be sent now make up what was recognised. `InStep`:
the transcript is the recogniser's, the thread's being in its queue while a call runs.
`NotYetSilent`: a transcript of a call that still waits for its response is not
emptied in that chunk. `QueueOfCall`: the queue has transcripts of a call only. They
rest on lemmas about sequences that are cut and joined and about the text after the
last separator, whose place is the minimal element of a well-founded order
(`WFMin`), so that no induction over a sequence is needed.

The assumptions are the ASSUMEs of the modules (naturals, positive frame sizes,
`NoStream` is not a stream, the redirect ends with an EOS) and those named in the
theorems. Some theorems state properties that no run checks by themselves, because
another one covers them: no injection into an open call (`CallsNotInterrupted`) and no
audio while a call is unanswered (`NoAudioDuringCall`) are part of the refinement to
`FunctionChannel` in `fc_session_stall`; that an interrupted thread takes no further
step (`QuitStopsThread`) is part of the refinement to `CallLifeCycle`, and that a
thread keeps its slot (`ThreadKeepsItsSlot`) of `HeldWhileNeeded`; the types of
`ContextSlots` (`TypeCorrect`) are what `SlotsPartition` is about. `EouIsNeverSuppressed`
is a corollary.

Only model-checked: the liveness properties `CallReachesAnswer`, `ResponseInjected`,
`FcEnds` and `CallExecuted`, because the prover does neither fairness nor ENABLED. Every
invariant, action property and refinement of the passing runs is a theorem.

## 5. Order of the work, and what is left

Written in this order: the session with its abstract protocol, background function
calling, slots, engine requests, turn taking, delivery. Not done:

1. Composition: `ContextSlots` with `FCAsync`'s early returns, so that streams that
   end during a call meet the next stream's prefill.
2. The blocking function-calling mode (P:1924-2155) as a second implementation of
   `CallLifeCycle`.
3. Abstract specifications for `StreamEngine` (a conversation that is answered from
   its end) and `Delivery` (a stream of pieces that is received once).
4. Variants, as `CallWindsDown` for a call, behind the session's liveness.

## 6. Where code and documentation part

### Shown by a run

* `fc_session_budget` (S:698): two results pushed between two ticks are each held
  against the same budget. Only without the stall.
* `fc_async_stale_eos` (P:1277): an agent EOS of an earlier turn stops a call that
  was started after it.
* `fc_async_timeout` (P:1773): after the tool's time-out the thread still waits for
  the tool, in the `with` block of the executor.
* `fc_async_last_chunk` (P:1922): a last chunk that starts or meets a call returns
  before the clean-up. The next stream's new manager takes the slot back; bufferer
  and engine request stay.
* `turn_taking_ratio_cap` (W:3234): the cap on silent frames per spoken token never
  fires under the server's settings, because its frame counter is only advanced by
  the rule for maximal responses, which `s2s_streaming.yaml` switches off.

### Met while reading

These have no run: they follow from one or two lines, or concern what the models
leave out. Where a model contains the behaviour, its properties excuse it, and say
what holds in spite of it.

Session:

* audio past `max_audio_seconds` is accepted and takes the positions reserved for
  function tokens, where the docstring says that such ticks raise (S:540, S:202). No
  property covers this: `ResponseInjected` is content with a session that is finished;
* text predicted while a response is injected is dropped if a BOS follows in the
  same tick (S:608), against the comment at S:733.

Function calling:

* a thread that fails, in a step or because its tool raised, reports no steps although
  it stepped the engine (P:1836); `FCAsync` counts them as `lost`;
* user speech does not stop a call: `bou_frames_elapsed` stays 0 and
  `rnnt_fc_interrupt_ms` is never used after it was read (W:932, P:1907-1913);
* a call cut off by a limit leaves `fc_state["active"]` set, although P:1231 calls
  the state clean;
* a second call written in phase 2 is answered with the response of the first
  (W:1607);
* of a 160 ms chunk only the newest 80 ms are forwarded during a call (P:1002), and
  of the queued frames only the newest is decoded (W:1410).

Turn taking:

* the rule for a window of PADs fires only in the one frame in which the run of PADs
  is exactly as long as the window, because it asks that the token before it is none
  (W:2829); a turn it misses then is left to the RNNT rules;
* as long as an EOS is in the window `speech_confirmed` is reset in each frame, so a
  short utterance right after the agent stopped is forgotten; an agent BOS in that
  time leaves `agent_speaking` false, and a tool call in between hides it for good;
* the rule after a forced EOS may overwrite an EOS of the same frame, and with
  `post_eos_pad` the driver may think the agent silent, so that neither a barge-in nor
  the maximal response ends the turn. The properties are stated or checked for
  `opt.postEos = 0`, the server's setting;
* frames of the fallback and of an EOU skip the check for a barge-in; the barge-in's
  cancelling of the redirect queue never runs, since redirect frames skip it too; the
  queue survives into a next stream that is not prefilled;
* the EOU branch for a BOS in the window is dead (`EouIsNeverSuppressed`).

Delivery:

* `_last_sent_asr_text` is not reset with the transcript, so an utterance whose
  recognised text is that of the last one is not shown until it grows (P:1454, against
  the comment at P:1448). `TranscriptComplete` excuses it; `ShowsTranscript` does not,
  so what the client shows stays in step with the transcript all the same;
* a final hypothesis that is drained at the end of a call is cleared in the same step;
* `lstrip('. ')` may shorten the transcript that the client's cut counts on (P:1076,
  1338);
* a `generate_step` that raises on the last chunk keeps the stream's text positions
  and its state (TR:323);
* after a last chunk during a call the thread creates the stream's state anew;
* a thread that fails puts an old transcript back.

Engine and slots:

* input for a request that is active but has no token yet is skipped (VE:272, against
  the comment at VE:271). There is a gap then; `CacheIsSuffix` still says that the engine
  hears this conversation only, in order and nothing twice;
* a record marked finished is dropped without an abort, also if the request still lives
  (VE:352-356, comment "no need to abort"). The request stays in the engine;
  `CacheIsSuffix` says that no later stream is answered from it, `EndReleases` that its
  record goes all the same;
* `restart_request` is never called, and no code sets `abort_event`;
* `_stream_has_prompt` outlives a stream that was prefilled and then gone, so a
  following stream without a prefill starts without its BOS (P:884-895);
* the bufferer, state and engine request of a stream that disappeared are kept by
  the emergency clean-up (CM:175).

Training: with `delay_text_channel_by`, `label_prep.py` moves an EOS of the last
`delay_by` frames to index `T - delay_by` (`parts/label_prep.py:177-180`); the shift that
follows keeps `[:, :-delay_by]` and cuts off just that index, so these EOS labels are lost.

## 7. What is not modelled

Tensors, sampling, audio quality, TTS and codec, the perception cache and its CUDA
graphs: their correctness is numerical. The blocking function-calling mode, on-hold
audio, and the command line client's padding: control around the modelled steps.
Label preparation and fusion: pure tensor shifts of training. The training loops, data
sets, evaluation scripts and the framework collections have no protocol of their own;
they are most of the repository's lines, so that the modelled parts, which carry the
streaming agent's protocols, are a small share of them.
