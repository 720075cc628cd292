------------------------------- MODULE FCAsync -------------------------------
(***************************************************************************)
(* Non-blocking function calling of one stream of the Triton server        *)
(* (inference/pipelines/streaming_s2s_pipeline.py, inner_generate_step,    *)
(* and the FC loops of nemotron_voicechat_inference_wrapper.py).           *)
(*                                                                         *)
(* The main thread handles one execute() call per audio chunk.  When the   *)
(* model writes <SOTC>, a background thread takes the stream over: it runs *)
(* the model alone to <EOTC> (phase 1), executes the tool while on-hold    *)
(* messages play, runs the model again over the forced response (phase 2), *)
(* publishes a result and dies.  Meanwhile execute() forwards live audio   *)
(* and watches for an agent EOS; the first call that finds the thread dead *)
(* takes its result and goes on frame by frame.                            *)
(*                                                                         *)
(* The configuration modelled is the server's: fc_async_enabled and        *)
(* fc_async_two_phase on, no prepared tool response, audio decoded.  The   *)
(* model may pick any token; the tool may answer, fail or answer late; a   *)
(* step of the thread or of the main thread may raise.                     *)
(* No code sets abort_event, and no step leaves a text token other than    *)
(* PAD at an FC position, so the aborted and natural_interrupt branches    *)
(* are not reachable and have no action.                                   *)
(***************************************************************************)
EXTENDS Integers

CONSTANTS
  FramesPerChunk,   \* num_frames_per_chunk
  MaxLen,           \* streaming.max_len, positions of the context
  MaxAsyncSteps,    \* max_async_steps
  ResponseLen,      \* forced tokens of a tool response
  ToolOutcomes,     \* how _execute_tool_call() may end
  MaxLost           \* bound: positions of chunks that raise

ASSUME FCAsyncAssumption ==
  /\ FramesPerChunk \in Nat \ {0}
  /\ MaxLen \in Nat
  /\ MaxAsyncSteps \in Nat
  /\ ResponseLen \in Nat \ {0}
  /\ ToolOutcomes \subseteq {"answered", "refused", "raised"}
  /\ MaxLost \in Nat

VARIABLES
  \* The main thread.
  pcM,          \* between calls, in the frames of a chunk, thread alive, or
                \* without a client, whose last chunk raised
  offset,       \* frame_offset
  last,         \* is_last of the chunk under way
  frameIdx,     \* context.frame_idx
  eosFlag,      \* _agent_eos_just_fired
  tracked,      \* stream_id in _fc_async_bg
  held,         \* the stream's slot, bufferer and engine request
  ended,        \* the last chunk was answered
  \* fc_state, shared by reference between the threads.
  active, forced, injecting, awaiting, trigger,
  \* The background thread.
  pcB,          \* none, steps, onhold, wait, shutdown, publish, dying, dead
  t,            \* the position its loop is at
  steps,        \* async_steps of the loop under way
  total,        \* async_steps of the loop before it
  response,     \* whether the loop was given a tool_response_text
  tool,         \* none, running, answered, refused, raised
  quit,         \* quit_async_event
  result,       \* bg_result
  \* The model, and what the properties remember.
  kv,           \* positions the language model was stepped over
  eosInCall,    \* an agent EOS was fired since the thread was started
  lost          \* positions stepped in calls and chunks that failed

main     == <<pcM, offset, last, frameIdx, eosFlag, tracked, held, ended>>
fcState  == <<active, forced, injecting, awaiting, trigger>>
loop     == <<t, steps, total, response>>
thread   == <<pcB, loop, tool, quit, result>>
past == <<eosInCall, lost>>
vars == <<main, fcState, thread, kv, past>>

ModelFunction == {"PAD", "SOTC", "EOTC", "TOK"}

NoResult == [steps |-> 0, quit |-> FALSE]

FcInProgress == active \/ forced > 0 \/ injecting

\* Mutant of ThreadAlive: the thread is taken for dead while its tool runs.
ThreadAliveWhileStepping == pcB \in {"steps", "publish", "dying"}

ThreadAlive == pcB \notin {"none", "dead"}

-----------------------------------------------------------------------------
Init ==
  /\ pcM = "idle" /\ offset = 0 /\ last = FALSE /\ frameIdx = 0
  /\ eosFlag = FALSE /\ tracked = FALSE
  /\ held = TRUE /\ ended = FALSE
  /\ active = FALSE /\ forced = 0 /\ injecting = FALSE /\ awaiting = FALSE
  /\ trigger = FALSE
  /\ pcB = "none" /\ t = 0 /\ steps = 0 /\ total = 0 /\ response = FALSE
  /\ tool = "none" /\ quit = FALSE /\ result = NoResult
  /\ kv = 0 /\ eosInCall = FALSE /\ lost = 0

-----------------------------------------------------------------------------
(* execute() of a stream without a function call under way.                *)
BeginChunk(isLast) ==
  /\ pcM = "idle" /\ ~ended /\ ~tracked
  /\ pcM' = "chunk" /\ offset' = 0 /\ last' = isLast
  /\ UNCHANGED <<frameIdx, eosFlag, tracked, held, ended, fcState,
                 thread, kv, past>>

\* Mutant of FcStateMachine: the model's token is looked at first.
FcStateMachineWatchFirst(f) ==
  \/ /\ f = "SOTC"
     /\ active' = TRUE /\ trigger' = TRUE
     /\ UNCHANGED <<forced, injecting>>
  \/ /\ f # "SOTC"
     /\ forced' = (IF forced > 0 THEN forced - 1 ELSE 0)
     /\ injecting' = (forced > 0)
     /\ active' = (active /\ f # "EOTC")
     /\ UNCHANGED trigger

(* _apply_fc_state_machine() on the function token f of one frame.         *)
FcStateMachine(f) ==
  \/ /\ forced > 0
     /\ forced' = forced - 1 /\ injecting' = TRUE
     /\ UNCHANGED <<active, trigger>>
  \/ /\ forced = 0
     /\ injecting' = FALSE
     /\ \/ /\ f = "SOTC"
           /\ active' = TRUE /\ trigger' = TRUE
        \/ /\ f = "EOTC" /\ active
           /\ active' = FALSE
           /\ UNCHANGED trigger
        \/ /\ f # "SOTC" /\ ~(f = "EOTC" /\ active)
           /\ UNCHANGED <<active, trigger>>
     /\ UNCHANGED forced

(* One frame of infer_one_step(): the model, whose tokens are written into *)
(* the context, the state machine, then turn taking, which may end the     *)
(* agent's turn when no call is in progress.                               *)
StepFrame(f, eos) ==
  /\ pcM = "chunk" /\ offset < FramesPerChunk
  /\ frameIdx + offset < MaxLen
  /\ kv' = kv + 1
  /\ offset' = offset + 1
  /\ FcStateMachine(f)
  /\ eos => ~FcInProgress'
  /\ eosFlag' = (eosFlag \/ eos)
  /\ eosInCall' = (eosInCall \/ eos)
  /\ UNCHANGED <<pcM, last, frameIdx, tracked, held, ended, awaiting,
                 thread, lost>>

(* reset_slots(), rm_bufferer() and abort of a stream whose chunk was last.*)
ReleaseAtEnd == held' = (held /\ ~last)

(* get_generations() has answered.                                         *)
Answered ==
  /\ pcM' = "idle"
  /\ ended' = last

(* fc_state.pop("trigger_async")                                           *)
TakenOver == trigger' = FALSE

(* update_context(); no <SOTC> in this chunk.                              *)
EndChunk ==
  /\ pcM = "chunk" /\ offset = FramesPerChunk /\ ~trigger
  /\ frameIdx' = frameIdx + FramesPerChunk
  /\ ReleaseAtEnd
  /\ Answered
  /\ UNCHANGED <<offset, last, eosFlag, tracked, fcState, thread, kv,
                 past>>

(* update_context(); <SOTC>: the thread is started, and the call returns   *)
(* without looking at is_last.                                             *)
StartThread ==
  /\ pcM = "chunk" /\ offset = FramesPerChunk /\ trigger
  /\ frameIdx' = frameIdx + FramesPerChunk
  /\ TakenOver
  /\ tracked' = TRUE
  /\ pcB' = "steps" /\ t' = frameIdx' /\ steps' = 0 /\ total' = 0
  /\ response' = FALSE /\ tool' = "none" /\ quit' = FALSE /\ result' = NoResult
  /\ eosInCall' = FALSE
  /\ Answered
  /\ UNCHANGED <<offset, last, eosFlag, held, active, forced, injecting,
                 awaiting, kv, lost>>

(* The exception leaves execute(), and the last chunk is never answered.   *)
Raised == pcM' = IF last THEN "lost" ELSE "idle"

(* infer_one_step() raises between two frames or in one, with the engine   *)
(* having taken the position or not, as it does at the end of the context: *)
(* nothing of the chunk is persisted but what is changed in place.         *)
ChunkFails(taken) ==
  /\ pcM = "chunk" /\ (offset < FramesPerChunk \/ taken = 0)
  /\ kv' = kv + taken
  /\ lost' = lost + offset + taken /\ lost' <= MaxLost
  /\ Raised
  /\ UNCHANGED <<offset, last, frameIdx, eosFlag, tracked, held, ended,
                 fcState, thread, eosInCall>>

(* A raise after update_context(), with the trigger popped or not.         *)
ChunkFailsUpdated ==
  /\ pcM = "chunk" /\ offset = FramesPerChunk
  /\ frameIdx' = frameIdx + FramesPerChunk
  /\ TakenOver \/ UNCHANGED trigger
  /\ Raised
  /\ UNCHANGED <<offset, last, eosFlag, tracked, held, ended, active, forced,
                 injecting, awaiting, thread, kv, past>>

(* execute() during a call: its audio is forwarded to the thread.          *)
ForwardAudio(isLast) ==
  /\ pcM = "idle" /\ ~ended /\ tracked /\ ThreadAlive
  /\ pcM' = "alive" /\ last' = isLast
  /\ UNCHANGED <<offset, frameIdx, eosFlag, tracked, held, ended, fcState,
                 thread, kv, past>>

(* An agent EOS, whenever it was fired, stops the thread.                  *)
WatchAgentEos ==
  IF eosFlag /\ ~quit THEN quit' = TRUE /\ eosFlag' = FALSE
                      ELSE UNCHANGED <<quit, eosFlag>>

\* Mutant of ReturnDuringCall: the stream is cleaned up before it returns.
ReturnDuringCallReleases ==
  /\ pcM = "alive"
  /\ WatchAgentEos
  /\ Answered
  /\ held' = (held /\ ~last)
  /\ UNCHANGED <<offset, last, frameIdx, tracked, fcState, pcB, loop, tool,
                 result, kv, past>>

(* The rest of that execute(); it returns before any clean-up.             *)
ReturnDuringCall ==
  /\ pcM = "alive"
  /\ WatchAgentEos
  /\ Answered
  /\ UNCHANGED <<offset, last, frameIdx, tracked, held, fcState, pcB, loop,
                 tool, result, kv, past>>

\* Mutant of StepsTaken: the steps of an interrupted call are not counted.
StepsTakenUnlessQuit == IF result.quit THEN 0 ELSE result.steps

StepsTaken == result.steps

\* Mutant of ResetAfterQuit: the forced tokens that are left are forgotten.
ResetAfterQuitKeepsForced ==
  /\ active' = FALSE /\ injecting' = FALSE /\ eosFlag' = FALSE
  /\ UNCHANGED forced

(* quit_to_normal: fc_state and the turn-taking state start afresh.        *)
ResetAfterQuit ==
  /\ active' = FALSE /\ forced' = 0 /\ injecting' = FALSE
  /\ eosFlag' = FALSE

\* Mutant of Untrack: the entry of the finished call stays.
UntrackNever == UNCHANGED tracked

(* del self._fc_async_bg[stream_id]                                        *)
Untrack == tracked' = FALSE

(* execute() finds the thread dead: its result is applied, and the chunk   *)
(* goes the normal way.                                                    *)
TakeResult(isLast) ==
  /\ pcM = "idle" /\ ~ended /\ tracked /\ ~ThreadAlive
  /\ Untrack
  /\ frameIdx' = frameIdx + StepsTaken
  /\ \/ result.quit /\ ResetAfterQuit
     \/ ~result.quit /\ UNCHANGED <<active, forced, injecting, eosFlag>>
  /\ pcM' = "chunk" /\ offset' = 0 /\ last' = isLast
  /\ UNCHANGED <<held, ended, awaiting, trigger, thread, kv,
                 past>>

-----------------------------------------------------------------------------
(* The background thread: _run_fc_async_steps().                           *)

\* Mutant of LoopBound: the limits on steps are not looked at.
LoopBoundNone == TRUE

\* Mutant of LoopBound: only the end of the context is looked at.
LoopBoundOfContext == t < MaxLen

LoopBound == steps < MaxAsyncSteps /\ t < MaxLen

LoopMayStep == LoopBound /\ ~quit

(* The function channel in one step of the loop.  <EOTC> ends phase 1; in  *)
(* phase 2 it queues the response the loop was given once more.            *)
AsyncToken(f) ==
  \/ /\ forced > 0
     /\ forced' = forced - 1 /\ injecting' = TRUE
     /\ UNCHANGED <<active, awaiting>>
  \/ /\ forced = 0 /\ f = "SOTC"
     /\ injecting' = FALSE /\ active' = TRUE
     /\ UNCHANGED <<forced, awaiting>>
  \/ /\ forced = 0 /\ f = "EOTC" /\ active
     /\ injecting' = FALSE /\ active' = FALSE
     /\ IF response
        THEN forced' = ResponseLen /\ UNCHANGED awaiting
        ELSE awaiting' = TRUE /\ UNCHANGED forced
  \/ /\ forced = 0 /\ f # "SOTC" /\ ~(f = "EOTC" /\ active)
     /\ injecting' = FALSE
     /\ UNCHANGED <<active, forced, awaiting>>

\* Mutant of AfterLoop: a call that was just written is not executed.
AfterLoopPublish == pcB' = "publish"

(* After the first loop the call it waits for is executed, if there is     *)
(* one; otherwise, and after the second loop, the thread is done.          *)
AfterLoop == pcB' = IF awaiting' /\ ~response THEN "onhold" ELSE "publish"

(* The loop is left when nothing is forced, active or being injected.      *)
AsyncStep(f) ==
  /\ pcB = "steps" /\ LoopMayStep
  /\ kv' = kv + 1
  /\ t' = t + 1 /\ steps' = steps + 1
  /\ AsyncToken(f)
  /\ IF FcInProgress' THEN UNCHANGED pcB ELSE AfterLoop
  /\ UNCHANGED <<main, trigger, total, response, tool, quit, result,
                 past>>

(* A step raises before it looks at the function channel, with the engine  *)
(* having taken the position or not: the thread's except clause reports no *)
(* step, those of the first run neither.                                   *)
StepFails(taken) ==
  /\ pcB = "steps" /\ LoopMayStep
  /\ kv' = kv + taken
  /\ pcB' = "dying"
  /\ result' = NoResult
  /\ lost' = lost + total + steps + taken
  /\ UNCHANGED <<main, fcState, loop, tool, quit, eosInCall>>

(* A limit, the quit event, or an engine whose sequence is finished.       *)
StopLoop(finished) ==
  /\ pcB = "steps"
  /\ finished \/ ~LoopMayStep
  /\ UNCHANGED awaiting
  /\ AfterLoop
  /\ UNCHANGED <<main, active, forced, injecting, trigger,
                 loop, tool, quit, result, kv, past>>

(* The call is submitted to the executor; on-hold messages play.           *)
SubmitTool ==
  /\ pcB = "onhold" /\ tool = "none"
  /\ awaiting' = FALSE
  /\ tool' = "running"
  /\ UNCHANGED <<main, active, forced, injecting, trigger,
                 pcB, loop, quit, result, kv, past>>

(* The tool: an answer, None, or an exception out of _execute_tool_call.   *)
ToolReturns(outcome) ==
  /\ tool = "running"
  /\ tool' = outcome
  /\ UNCHANGED <<main, fcState, pcB, loop, quit, result, kv, past>>

(* The messages are over, or the tool was done before them.                *)
FinalWait ==
  /\ pcB = "onhold" /\ tool # "none"
  /\ pcB' = "wait"
  /\ UNCHANGED <<main, fcState, loop, tool, quit, result, kv, past>>

(* _fut.result(timeout) gives up, and the with block of the executor ends. *)
TimeOut ==
  /\ pcB = "wait" /\ tool = "running"
  /\ pcB' = "shutdown"
  /\ UNCHANGED <<main, fcState, loop, tool, quit, result, kv, past>>

\* Mutant of ToolDone: after the time-out the executor is left at once.
ToolDoneOrLate == tool # "running" \/ pcB = "shutdown"

(* The result is there; the shutdown of the executor waits for it, too.    *)
ToolDone == tool # "running"

(* The with block is left once the executor has no running tool.  A        *)
(* response, the canned one included, is injected by a second loop; no     *)
(* response ends the call.                                                 *)
AfterTool ==
  /\ pcB \in {"wait", "shutdown"} /\ ToolDone
  /\ pcB = "wait" => tool # "raised"
  /\ IF pcB = "wait" /\ tool = "refused"
     THEN /\ pcB' = "publish"
          /\ UNCHANGED <<steps, total, response, forced, injecting>>
     ELSE /\ pcB' = "steps"
          /\ total' = total + steps /\ steps' = 0
          /\ response' = TRUE
          /\ forced' = ResponseLen /\ injecting' = TRUE
  /\ UNCHANGED <<main, active, awaiting, trigger, t, tool,
                 quit, result, kv, past>>

(* bg_result is filled in.                                                 *)
Publish ==
  /\ pcB = "publish"
  /\ pcB' = "dying"
  /\ result' = [steps |-> total + steps, quit |-> quit]
  /\ UNCHANGED <<main, fcState, loop, tool, quit, kv, past>>

(* The same except clause, when the tool raised.                           *)
ThreadFails ==
  /\ pcB = "wait" /\ tool = "raised"
  /\ pcB' = "dying"
  /\ result' = NoResult
  /\ lost' = lost + total + steps
  /\ UNCHANGED <<main, fcState, loop, tool, quit, kv, eosInCall>>

ThreadDies ==
  /\ pcB = "dying"
  /\ pcB' = "dead"
  /\ UNCHANGED <<main, fcState, loop, tool, quit, result, kv, past>>

-----------------------------------------------------------------------------
Main ==
  \/ \E isLast \in BOOLEAN :
       BeginChunk(isLast) \/ TakeResult(isLast) \/ ForwardAudio(isLast)
  \/ ReturnDuringCall
  \/ \E f \in ModelFunction, eos \in BOOLEAN : StepFrame(f, eos)
  \/ \E taken \in 0 .. 1 : ChunkFails(taken)
  \/ ChunkFailsUpdated
  \/ EndChunk
  \/ StartThread

Tool == \E outcome \in ToolOutcomes : ToolReturns(outcome)

Thread ==
  \/ \E f \in ModelFunction : AsyncStep(f)
  \/ \E taken \in 0 .. 1 : StepFails(taken)
  \/ \E finished \in BOOLEAN : StopLoop(finished)
  \/ SubmitTool
  \/ FinalWait
  \/ TimeOut
  \/ AfterTool
  \/ Publish
  \/ ThreadFails
  \/ ThreadDies

Next == Main \/ Thread \/ Tool

Spec == Init /\ [][Next]_vars

(* The client keeps sending chunks until its last one, the thread runs, and *)
(* every registered tool returns: its clients have timeouts of their own.  *)
Fairness == WF_vars(Main) /\ WF_vars(Thread) /\ WF_vars(Tool)

FairSpec == Spec /\ Fairness

-----------------------------------------------------------------------------
(* Properties                                                              *)

(* Every variable stays in its type; positions stay within the context.    *)
TypeOK ==
  /\ pcM \in {"idle", "chunk", "alive", "lost"}
  /\ offset \in 0 .. FramesPerChunk /\ last \in BOOLEAN
  /\ frameIdx \in 0 .. MaxLen /\ kv \in Nat
  /\ eosFlag \in BOOLEAN /\ eosInCall \in BOOLEAN /\ lost \in Nat
  /\ tracked \in BOOLEAN /\ held \in BOOLEAN /\ ended \in BOOLEAN
  /\ active \in BOOLEAN /\ injecting \in BOOLEAN /\ awaiting \in BOOLEAN
  /\ trigger \in BOOLEAN
  /\ forced \in 0 .. ResponseLen
  /\ pcB \in {"none", "steps", "onhold", "wait", "shutdown", "publish", "dying",
              "dead"}
  /\ t \in 0 .. MaxLen /\ steps \in Nat /\ total \in Nat /\ response \in BOOLEAN
  /\ tool \in {"none", "running"} \cup ToolOutcomes
  /\ quit \in BOOLEAN
  /\ result \in [steps : Nat, quit : BOOLEAN]

(* fc_state is shared by reference and unlocked, and both threads step the *)
(* same engine request: they never do so at the same time.                 *)
OneWriter == pcM = "chunk" => pcB \in {"none", "dead"}

(* The context's frame index and the engine's KV cache agree on how many   *)
(* positions the stream has, across every hand-over to the thread and back *)
(* and however the call ended; only the steps of calls whose thread failed *)
(* and of chunks that raised are missing from the index, for the rest of   *)
(* the stream.                                                             *)
TimelineAligned ==
  /\ pcM # "chunk" /\ ~tracked => kv = frameIdx + lost
  /\ pcM = "chunk" => kv = frameIdx + offset + lost

(* While the thread runs, the slot, the bufferer and the engine request it *)
(* works on are not released, even if the stream's last chunk has come.    *)
ThreadHoldsSlot == ThreadAlive => held

(* The thread never finds response tokens that an earlier call left, which *)
(* would be written over the call the model is about to make.              *)
NoLeftoverResponse == ThreadAlive /\ tool = "none" => forced = 0

(* Once quit_async_event is set the thread does not step the model again,  *)
(* the second loop included.                                               *)
QuitStopsSteps == [][quit /\ ThreadAlive => kv' = kv]_vars

(* What is left of a response when its call is interrupted is dropped: the *)
(* main thread never injects it after a quit.                              *)
InterruptedResponseDropped ==
  [][pcM = "chunk" /\ forced' < forced => ~result.quit]_vars

(* Steps of the thread and its tool that a call has still ahead of it, at  *)
(* most: two runs of MaxAsyncSteps, and what lies around them.             *)
Remaining ==
  LET run  == MaxAsyncSteps - steps
      call == CASE tool = "none" -> 2 [] tool = "running" -> 1 [] OTHER -> 0
  IN  CASE pcB = "steps" /\ ~response -> MaxAsyncSteps + 9 + run
        [] pcB = "onhold"             -> MaxAsyncSteps + 6 + call
        [] pcB = "wait"               -> MaxAsyncSteps + 5 + call
        [] pcB = "shutdown"           -> MaxAsyncSteps + 4 + call
        [] pcB = "steps" /\ response  -> 3 + run
        [] pcB = "publish"            -> 2
        [] pcB = "dying"              -> 1
        [] OTHER                      -> 0

(* A call winds down: whatever the model writes, the tool returns and the  *)
(* main thread does, neither run passes max_async_steps, every step of the *)
(* thread and of the tool uses up some of what remains, and nothing brings *)
(* any of it back.  This is why a call ends at all.                        *)
CallWindsDown ==
  [][tracked => /\ Remaining' \in 0 .. Remaining
                /\ steps' <= MaxAsyncSteps
                /\ Remaining' = Remaining => UNCHANGED <<pcB, tool, kv>>]_vars

(* A function call ends: the stream goes back to frame-by-frame processing *)
(* unless its last chunk was sent first.                                   *)
FcEnds == tracked ~> (~tracked \/ ended)

(* A call the model has written leaves the thread with its tool executed.  *)
CallExecuted == awaiting ~> tool # "none"

(* The slot, bufferer and request of a stream are held until its last      *)
(* chunk is answered, which one that raises never is, and after that       *)
(* exactly if a call is not taken back: such a call never lets them go,    *)
(* and nothing else keeps them.                                            *)
HeldWhileNeeded == held <=> (~ended \/ tracked)

(* "The wrapper sets _agent_eos_just_fired=True when it inserts agent EOS  *)
(* (BOU barge-in detected). At that point the tool result is no longer     *)
(* needed for the current turn": a call is only stopped by an EOS in it.   *)
QuitNeedsBargeIn == quit => eosInCall

(* fc_tool_timeout_sec bounds the wait: once it is over, the thread does   *)
(* not go on waiting for the tool.                                         *)
TimeoutEndsWait == ~(pcB = "shutdown" /\ tool = "running")

(* "Explicitly clean up bufferer and state for finished streams".          *)
EndedStreamReleased == ended => ~held

-----------------------------------------------------------------------------
(* The two threads implement the life cycle of a call.                     *)

callPhase ==
  IF ~tracked THEN "talking"
  ELSE CASE pcB = "steps" -> IF response THEN "answering" ELSE "writing"
         [] pcB = "onhold" /\ tool = "none" -> "written"
         [] pcB \in {"onhold", "wait", "shutdown"} /\ tool # "none" ->
              IF tool = "running" THEN "executing" ELSE "returned"
         [] OTHER -> "over"

Call == INSTANCE CallLifeCycle WITH
  MaxSteps <- MaxAsyncSteps,
  phase    <- callPhase,
  position <- kv,
  spent    <- steps,
  stopped  <- quit

CallSpec == Call!Spec
=============================================================================
