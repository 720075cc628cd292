---------------------------- MODULE FCAsync_proofs ----------------------------
(***************************************************************************)
(* Proofs about non-blocking function calling, for any chunk size, context *)
(* length, step limit and response length: only one thread works on a      *)
(* stream at a time, the thread's slot is kept, and the context's frame    *)
(* index and the KV cache stay aligned but for calls whose thread failed.  *)
(***************************************************************************)
EXTENDS FCAsync, TLAPS

(* What ties the two threads together.  A stream that is not tracked has no *)
(* live thread; a tracked one is between two chunks.                       *)
HandOver ==
  /\ pcM \in {"idle", "chunk", "alive", "lost"}
  /\ pcB \in {"none", "steps", "onhold", "wait", "shutdown", "publish", "dying", "dead"}
  /\ pcM = "chunk" => ~tracked
  /\ ~tracked => pcB \in {"none", "dead"}
  /\ tracked => pcB # "none"

(* The positions: what the thread's loop has reached, what its result says *)
(* it took, what the main thread's frame index is.                         *)
Count ==
  /\ frameIdx \in Nat /\ offset \in Nat /\ kv \in Nat
  /\ t \in Nat /\ steps \in Nat /\ total \in Nat /\ result.steps \in Nat
  /\ lost \in Nat

Position ==
  /\ pcM = "chunk" => kv = frameIdx + offset + lost
  /\ pcM # "chunk" /\ ~tracked => kv = frameIdx + lost
  /\ tracked /\ pcB \notin {"dying", "dead"} =>
       kv = t + lost /\ t = frameIdx + total + steps
  /\ tracked /\ pcB \in {"dying", "dead"} =>
       kv = frameIdx + result.steps + lost

-----------------------------------------------------------------------------
(* Who runs.                                                               *)

LEMMA HandOverInit == Init => HandOver
  BY DEF Init, HandOver

LEMMA HandOverStep == HandOver /\ [Next]_vars => HandOver'
<1> SUFFICES ASSUME HandOver, [Next]_vars PROVE HandOver'
  OBVIOUS
<1> USE DEF HandOver, ThreadAlive
<1>1. ASSUME NEW isLast \in BOOLEAN, BeginChunk(isLast) PROVE HandOver'
  BY <1>1 DEF BeginChunk, thread
<1>2. ASSUME NEW isLast \in BOOLEAN, TakeResult(isLast) PROVE HandOver'
  BY <1>2 DEF TakeResult, Untrack, thread
<1>3. ASSUME NEW isLast \in BOOLEAN, ForwardAudio(isLast)
      PROVE  HandOver'
  BY <1>3 DEF ForwardAudio, thread
<1>4. CASE ReturnDuringCall
  BY <1>4 DEF ReturnDuringCall, Answered
<1>5. ASSUME NEW f \in ModelFunction, NEW eos \in BOOLEAN, StepFrame(f, eos)
      PROVE  HandOver'
  BY <1>5 DEF StepFrame, thread
<1>6. CASE EndChunk
  BY <1>6 DEF EndChunk, Answered, thread
<1>7. CASE StartThread
  BY <1>7 DEF StartThread, Answered
<1>8. ASSUME NEW f \in ModelFunction, AsyncStep(f)
      PROVE  HandOver'
  BY <1>8 DEF AsyncStep, AfterLoop, main
<1>9. ASSUME NEW finished \in BOOLEAN, StopLoop(finished) PROVE HandOver'
  BY <1>9 DEF StopLoop, AfterLoop, main
<1>10. CASE SubmitTool
  BY <1>10 DEF SubmitTool, main
<1>11. CASE FinalWait
  BY <1>11 DEF FinalWait, main
<1>12. CASE TimeOut
  BY <1>12 DEF TimeOut, main
<1>13. CASE AfterTool
  BY <1>13 DEF AfterTool, main
<1>14. CASE Publish
  BY <1>14 DEF Publish, main
<1>15. CASE ThreadFails
  BY <1>15 DEF ThreadFails, main
<1>16. CASE ThreadDies
  BY <1>16 DEF ThreadDies, main
<1>17. ASSUME NEW outcome \in ToolOutcomes, ToolReturns(outcome)
       PROVE  HandOver'
  BY <1>17 DEF ToolReturns, main
<1>18. CASE UNCHANGED vars
  BY <1>18 DEF vars, main, thread
<1>19. ASSUME NEW taken \in 0 .. 1, StepFails(taken) PROVE HandOver'
  BY <1>19 DEF StepFails, main
<1>20. ASSUME NEW taken \in 0 .. 1, ChunkFails(taken) PROVE HandOver'
  BY <1>20 DEF ChunkFails, Raised, thread
<1>21. CASE ChunkFailsUpdated
  BY <1>21 DEF ChunkFailsUpdated, Raised, thread
<1> QED
  BY <1>1, <1>2, <1>3, <1>4, <1>5, <1>6, <1>7, <1>8, <1>9, <1>10, <1>11, <1>12,
     <1>13, <1>14, <1>15, <1>16, <1>17, <1>18, <1>19, <1>20, <1>21
     DEF Next, Main, Thread, Tool

(* The main thread and the background thread are never both at work on     *)
(* fc_state and on the engine request, whatever the model and the tool do. *)
THEOREM OneThreadAtWork == Spec => []OneWriter
<1>1. HandOver => OneWriter
  BY DEF HandOver, OneWriter
<1> QED
  BY <1>1, HandOverInit, HandOverStep, PTL DEF Spec

-----------------------------------------------------------------------------
(* Whose slot it is.                                                       *)

(* A slot is given back only by a chunk that is the stream's last, so that *)
(* a stream that is not over, or is tracked, holds it.                     *)
Slot ==
  /\ ~ended => held
  /\ tracked => held
  /\ pcM # "idle" => ~ended

LEMMA SlotStep == HandOver /\ Slot /\ [Next]_vars => Slot'
<1> SUFFICES ASSUME HandOver, Slot, [Next]_vars PROVE Slot'
  OBVIOUS
<1> USE DEF HandOver, Slot
<1>1. ASSUME NEW isLast \in BOOLEAN, BeginChunk(isLast) PROVE Slot'
  BY <1>1 DEF BeginChunk
<1>2. ASSUME NEW isLast \in BOOLEAN, TakeResult(isLast) PROVE Slot'
  BY <1>2 DEF TakeResult, Untrack
<1>3. ASSUME NEW isLast \in BOOLEAN, ForwardAudio(isLast)
      PROVE  Slot'
  BY <1>3 DEF ForwardAudio
<1>4. CASE ReturnDuringCall
  BY <1>4 DEF ReturnDuringCall, Answered
<1>5. ASSUME NEW f \in ModelFunction, NEW eos \in BOOLEAN, StepFrame(f, eos)
      PROVE  Slot'
  BY <1>5 DEF StepFrame
<1>6. CASE EndChunk
  BY <1>6 DEF EndChunk, Answered, ReleaseAtEnd
<1>7. CASE StartThread
  BY <1>7 DEF StartThread, Answered
<1>8. CASE Thread \/ Tool
  BY <1>8 DEF Thread, Tool, AsyncStep, StopLoop, SubmitTool, FinalWait, TimeOut,
              AfterTool, Publish, StepFails, ThreadFails, ThreadDies, ToolReturns, main
<1>9. CASE UNCHANGED vars
  BY <1>9 DEF vars, main
<1>10. ASSUME NEW taken \in 0 .. 1, ChunkFails(taken) PROVE Slot'
  BY <1>10 DEF ChunkFails
<1>11. CASE ChunkFailsUpdated
  BY <1>11 DEF ChunkFailsUpdated
<1> QED
  BY <1>1, <1>2, <1>3, <1>4, <1>5, <1>6, <1>7, <1>8, <1>9, <1>10, <1>11
     DEF Next, Main

(* The slot, the bufferer and the engine request of a stream are not       *)
(* released under its thread.                                              *)
THEOREM ThreadKeepsItsSlot == Spec => []ThreadHoldsSlot
<1>1. Init => Slot
  BY DEF Init, Slot
<1>2. HandOver /\ Slot => ThreadHoldsSlot
  BY DEF HandOver, Slot, ThreadHoldsSlot, ThreadAlive
<1> QED
  BY <1>1, <1>2, HandOverInit, HandOverStep, SlotStep, PTL DEF Spec

-----------------------------------------------------------------------------
(* Where the stream is.                                                    *)

Aligned == Count /\ Position

LEMMA AlignedInit == Init => Aligned
  BY DEF Init, Aligned, Count, Position, NoResult

LEMMA MainAligned ==
  ASSUME HandOver, Aligned, Main
  PROVE  Aligned'
<1> USE FCAsyncAssumption DEF HandOver, Aligned, Count, Position, ThreadAlive
<1>1. ASSUME NEW isLast \in BOOLEAN, BeginChunk(isLast) PROVE Aligned'
  BY <1>1 DEF past, BeginChunk, thread, loop
<1>2. ASSUME NEW isLast \in BOOLEAN, TakeResult(isLast) PROVE Aligned'
  BY <1>2 DEF past, TakeResult, Untrack, StepsTaken, thread, loop
<1>3. ASSUME NEW isLast \in BOOLEAN, ForwardAudio(isLast)
      PROVE  Aligned'
  BY <1>3 DEF past, ForwardAudio, thread, loop
<1>4. CASE ReturnDuringCall
  BY <1>4 DEF past, ReturnDuringCall, Answered, loop
<1>5. ASSUME NEW f \in ModelFunction, NEW eos \in BOOLEAN, StepFrame(f, eos)
      PROVE  Aligned'
  BY <1>5 DEF past, StepFrame, thread, loop
<1>6. CASE EndChunk
  BY <1>6 DEF past, EndChunk, Answered, thread, loop
<1>7. CASE StartThread
  BY <1>7 DEF past, StartThread, Answered, NoResult
<1>8. ASSUME NEW taken \in 0 .. 1, ChunkFails(taken) PROVE Aligned'
  BY <1>8 DEF ChunkFails, Raised, thread, loop
<1>9. CASE ChunkFailsUpdated
  BY <1>9 DEF past, ChunkFailsUpdated, Raised, thread, loop
<1> QED
  BY Main, <1>1, <1>2, <1>3, <1>4, <1>5, <1>6, <1>7, <1>8, <1>9 DEF past, Main

LEMMA ThreadAligned ==
  ASSUME HandOver, Aligned, Thread
  PROVE  Aligned'
<1> USE DEF HandOver, Aligned, Count, Position, main
<1>1. ASSUME NEW f \in ModelFunction, AsyncStep(f)
      PROVE  Aligned'
  BY <1>1 DEF past, AsyncStep, AfterLoop
<1>2. ASSUME NEW finished \in BOOLEAN, StopLoop(finished) PROVE Aligned'
  BY <1>2 DEF past, StopLoop, AfterLoop, loop
<1>3. CASE SubmitTool
  BY <1>3 DEF past, SubmitTool, loop
<1>4. CASE FinalWait
  BY <1>4 DEF past, FinalWait, loop
<1>5. CASE TimeOut
  BY <1>5 DEF past, TimeOut, loop
<1>6. CASE AfterTool
  BY <1>6 DEF past, AfterTool
<1>7. CASE Publish
  BY <1>7 DEF past, Publish, loop
<1>8. CASE ThreadFails
  BY <1>8 DEF ThreadFails, NoResult, loop
<1>9. CASE ThreadDies
  BY <1>9 DEF past, ThreadDies, loop
<1>10. ASSUME NEW taken \in 0 .. 1, StepFails(taken) PROVE Aligned'
  BY <1>10 DEF StepFails, NoResult, loop
<1> QED
  BY Thread, <1>1, <1>2, <1>3, <1>4, <1>5, <1>6, <1>7, <1>8, <1>9, <1>10 DEF past, Thread

LEMMA AlignedStep ==
  ASSUME HandOver, Aligned, [Next]_vars
  PROVE  Aligned'
<1>1. CASE Main
  BY <1>1, MainAligned
<1>2. CASE Thread
  BY <1>2, ThreadAligned
<1>3. CASE Tool
  BY <1>3 DEF past, Tool, ToolReturns, HandOver, Aligned, Count, Position, main, loop
<1>4. CASE UNCHANGED vars
  BY <1>4 DEF past, vars, main, thread, loop, HandOver, Aligned, Count, Position
<1> QED
  BY <1>1, <1>2, <1>3, <1>4 DEF past, Next

(* The frame index the main thread goes on from is the number of positions *)
(* the model was stepped over, after any number of calls, interrupted,     *)
(* timed out and cut off ones included; a call whose thread failed and a   *)
(* chunk that raised, and no others, leave their steps out of it.          *)
THEOREM HandBackAligned == Spec => []TimelineAligned
<1>1. HandOver /\ Aligned /\ [Next]_vars => Aligned'
  BY AlignedStep
<1>2. Aligned => TimelineAligned
  BY DEF past, Aligned, Position, TimelineAligned
<1> QED
  BY <1>1, <1>2, AlignedInit, HandOverInit, HandOverStep, PTL DEF past, Spec

-----------------------------------------------------------------------------
(* Types and bounds.                                                       *)

(* Positions and frames; what the bound on the frame index rests on is that *)
(* a frame past the end of the context raises, and that a result never     *)
(* reports more steps than fit.                                            *)
Bounds ==
  /\ frameIdx \in 0 .. MaxLen /\ offset \in 0 .. FramesPerChunk
  /\ t \in 0 .. MaxLen /\ forced \in 0 .. ResponseLen
  /\ pcM = "chunk" => frameIdx + offset <= MaxLen
  /\ tracked => frameIdx + result.steps <= MaxLen

LEMMA BoundsInit == Init => Bounds
  BY FCAsyncAssumption DEF Init, Bounds, NoResult

LEMMA BoundsMain ==
  ASSUME HandOver, Aligned, Bounds, Main
  PROVE  Bounds'
<1> USE FCAsyncAssumption DEF HandOver, Aligned, Count, Position, Bounds, ThreadAlive
<1>1. ASSUME NEW isLast \in BOOLEAN, BeginChunk(isLast)
      PROVE  Bounds'
  BY <1>1 DEF BeginChunk, fcState, thread, loop
<1>2. ASSUME NEW isLast \in BOOLEAN, TakeResult(isLast)
      PROVE  Bounds'
  BY <1>2 DEF TakeResult, StepsTaken, ResetAfterQuit, Untrack, thread, loop
<1>3. ASSUME NEW isLast \in BOOLEAN, ForwardAudio(isLast)
      PROVE  Bounds'
  BY <1>3 DEF ForwardAudio, fcState, thread, loop
<1>4. CASE ReturnDuringCall
  BY <1>4 DEF ReturnDuringCall, WatchAgentEos, Answered, fcState, loop
<1>5. ASSUME NEW f \in ModelFunction, NEW eos \in BOOLEAN, StepFrame(f, eos)
      PROVE  Bounds'
  BY <1>5 DEF StepFrame, FcStateMachine, thread, loop
<1>6. CASE EndChunk
  BY <1>6 DEF EndChunk, ReleaseAtEnd, Answered, fcState, thread, loop
<1>7. CASE StartThread
  BY <1>7 DEF StartThread, TakenOver, Answered, NoResult
<1>8. ASSUME NEW taken \in 0 .. 1, ChunkFails(taken) PROVE Bounds'
  BY <1>8 DEF ChunkFails, Raised, fcState, thread, loop
<1>9. CASE ChunkFailsUpdated
  BY <1>9 DEF ChunkFailsUpdated, Raised, thread, loop
<1> QED
  BY <1>1, <1>2, <1>3, <1>4, <1>5, <1>6, <1>7, <1>8, <1>9 DEF Main

LEMMA BoundsThread ==
  ASSUME HandOver, Aligned, Bounds, Thread
  PROVE  Bounds'
<1> USE FCAsyncAssumption DEF HandOver, Aligned, Count, Position, Bounds, main
<1>1. ASSUME NEW f \in ModelFunction, AsyncStep(f)
      PROVE  Bounds'
  BY <1>1 DEF AsyncStep, AsyncToken, LoopMayStep, LoopBound, AfterLoop
<1>2. ASSUME NEW finished \in BOOLEAN, StopLoop(finished)
      PROVE  Bounds'
  BY <1>2 DEF StopLoop, AfterLoop, loop
<1>3. CASE SubmitTool
  BY <1>3 DEF SubmitTool, loop
<1>4. CASE FinalWait
  BY <1>4 DEF FinalWait, fcState, loop
<1>5. CASE TimeOut
  BY <1>5 DEF TimeOut, fcState, loop
<1>6. CASE AfterTool
  BY <1>6 DEF AfterTool
<1>7. CASE Publish
  BY <1>7 DEF Publish, fcState, loop
<1>8. CASE ThreadFails
  BY <1>8 DEF ThreadFails, NoResult, fcState, loop
<1>9. CASE ThreadDies
  BY <1>9 DEF ThreadDies, fcState, loop
<1>10. ASSUME NEW taken \in 0 .. 1, StepFails(taken) PROVE Bounds'
  BY <1>10 DEF StepFails, NoResult, fcState, loop
<1> QED
  BY <1>1, <1>2, <1>3, <1>4, <1>5, <1>6, <1>7, <1>8, <1>9, <1>10 DEF Thread

LEMMA BoundsStep ==
  ASSUME HandOver, Aligned, Bounds, [Next]_vars
  PROVE  Bounds'
<1>1. CASE Main
  BY <1>1, BoundsMain
<1>2. CASE Thread
  BY <1>2, BoundsThread
<1>3. CASE Tool
  BY <1>3 DEF Tool, ToolReturns, Bounds, main, fcState, loop
<1>4. CASE UNCHANGED vars
  BY <1>4 DEF vars, main, fcState, thread, loop, Bounds
<1> QED
  BY <1>1, <1>2, <1>3, <1>4 DEF Next

(* The flags, and the state of the tool and of the result.                 *)
Flags ==
  /\ last \in BOOLEAN /\ eosFlag \in BOOLEAN /\ eosInCall \in BOOLEAN
  /\ tracked \in BOOLEAN /\ held \in BOOLEAN /\ ended \in BOOLEAN
  /\ active \in BOOLEAN /\ injecting \in BOOLEAN /\ awaiting \in BOOLEAN
  /\ trigger \in BOOLEAN /\ response \in BOOLEAN /\ quit \in BOOLEAN

Outcome ==
  /\ tool \in {"none", "running"} \cup ToolOutcomes
  /\ result \in [steps : Nat, quit : BOOLEAN]

LEMMA FlagsMain ==
  ASSUME Flags, Main
  PROVE  Flags'
<1> USE DEF Flags
<1>1. ASSUME NEW isLast \in BOOLEAN, BeginChunk(isLast)
      PROVE  Flags'
  BY <1>1, Zenon DEF BeginChunk, fcState, thread, loop, past
<1>2. ASSUME NEW isLast \in BOOLEAN, TakeResult(isLast)
      PROVE  Flags'
  BY <1>2, Zenon DEF TakeResult, StepsTaken, ResetAfterQuit, Untrack, thread, loop, past
<1>3. ASSUME NEW isLast \in BOOLEAN, ForwardAudio(isLast)
      PROVE  Flags'
  BY <1>3, Zenon DEF ForwardAudio, fcState, thread, loop, past
<1>4. CASE ReturnDuringCall
  BY <1>4, Zenon DEF ReturnDuringCall, WatchAgentEos, Answered, fcState, loop, past
<1>5. ASSUME NEW f \in ModelFunction, NEW eos \in BOOLEAN, StepFrame(f, eos)
      PROVE  Flags'
  BY <1>5, Zenon DEF StepFrame, FcStateMachine, thread, loop, past
<1>6. CASE EndChunk
  BY <1>6, Zenon DEF EndChunk, ReleaseAtEnd, Answered, fcState, thread, loop, past
<1>7. CASE StartThread
  BY <1>7, Zenon DEF StartThread, TakenOver, Answered, NoResult, past
<1>8. ASSUME NEW taken \in 0 .. 1, ChunkFails(taken) PROVE Flags'
  BY <1>8, Zenon DEF ChunkFails, fcState, thread, loop
<1>9. CASE ChunkFailsUpdated
  BY <1>9, Zenon DEF ChunkFailsUpdated, TakenOver, thread, loop, past
<1> QED
  BY <1>1, <1>2, <1>3, <1>4, <1>5, <1>6, <1>7, <1>8, <1>9 DEF Main

LEMMA FlagsThread ==
  ASSUME Flags, Thread
  PROVE  Flags'
<1> USE DEF Flags, main
<1>1. ASSUME NEW f \in ModelFunction, AsyncStep(f)
      PROVE  Flags'
  BY <1>1, ZenonT(60) DEF AsyncStep, AsyncToken, LoopMayStep, LoopBound, AfterLoop, past
<1>2. ASSUME NEW finished \in BOOLEAN, StopLoop(finished)
      PROVE  Flags'
  BY <1>2, ZenonT(60) DEF StopLoop, AfterLoop, loop, past
<1>3. CASE SubmitTool
  BY <1>3, ZenonT(60) DEF SubmitTool, loop, past
<1>4. CASE FinalWait
  BY <1>4, ZenonT(60) DEF FinalWait, fcState, loop, past
<1>5. CASE TimeOut
  BY <1>5, ZenonT(60) DEF TimeOut, fcState, loop, past
<1>6. CASE AfterTool
  BY <1>6, ZenonT(60) DEF AfterTool, past
<1>7. CASE Publish
  BY <1>7, ZenonT(60) DEF Publish, fcState, loop, past
<1>8. CASE ThreadFails
  BY <1>8, ZenonT(60) DEF ThreadFails, NoResult, fcState, loop, past
<1>9. CASE ThreadDies
  BY <1>9, ZenonT(60) DEF ThreadDies, fcState, loop, past
<1>10. ASSUME NEW taken \in 0 .. 1, StepFails(taken) PROVE Flags'
  BY <1>10, ZenonT(60) DEF StepFails, NoResult, fcState, loop, past
<1> QED
  BY <1>1, <1>2, <1>3, <1>4, <1>5, <1>6, <1>7, <1>8, <1>9, <1>10 DEF Thread

LEMMA FlagsStep ==
  ASSUME Flags, [Next]_vars
  PROVE  Flags'
<1>1. CASE Main
  BY <1>1, FlagsMain
<1>2. CASE Thread
  BY <1>2, FlagsThread
<1>3. CASE Tool
  BY <1>3 DEF Tool, ToolReturns, Flags, main, fcState, loop, past
<1>4. CASE UNCHANGED vars
  BY <1>4 DEF vars, main, fcState, thread, loop, past, Flags
<1> QED
  BY <1>1, <1>2, <1>3, <1>4 DEF Next

LEMMA OutcomeStep ==
  ASSUME Count, Flags, Outcome, [Next]_vars
  PROVE  Outcome'
<1>1. tool' = tool \/ tool' \in {"none", "running"} \cup ToolOutcomes
  BY DEF Next, Main, Thread, Tool, BeginChunk, TakeResult, ForwardAudio,
     ReturnDuringCall, StepFrame, ChunkFails, ChunkFailsUpdated, EndChunk,
     StartThread, AsyncStep, StopLoop,
     SubmitTool, FinalWait, TimeOut, AfterTool, Publish, StepFails, ThreadFails, ThreadDies,
     ToolReturns, vars, thread
<1>2. \/ result' = result
      \/ result' = NoResult
      \/ result' = [steps |-> total + steps, quit |-> quit]
  BY DEF Next, Main, Thread, Tool, BeginChunk, TakeResult, ForwardAudio,
     ReturnDuringCall, StepFrame, ChunkFails, ChunkFailsUpdated, EndChunk,
     StartThread, AsyncStep, StopLoop,
     SubmitTool, FinalWait, TimeOut, AfterTool, Publish, StepFails, ThreadFails, ThreadDies,
     ToolReturns, vars, thread
<1>3. /\ NoResult \in [steps : Nat, quit : BOOLEAN]
      /\ [steps |-> total + steps, quit |-> quit] \in [steps : Nat, quit : BOOLEAN]
  BY DEF NoResult, Count, Flags
<1> QED
  BY <1>1, <1>2, <1>3 DEF Outcome

(* Every variable keeps its type; neither the main thread's frame index    *)
(* nor the position of the thread's loop passes the end of the context,    *)
(* however calls and chunks alternate.                                     *)
THEOREM TypeCorrect == Spec => []TypeOK
<1>1. HandOver /\ Aligned /\ [Next]_vars => Aligned'
  BY AlignedStep
<1>2. HandOver /\ Aligned /\ Bounds /\ [Next]_vars => Bounds'
  BY BoundsStep
<1>3. Flags /\ [Next]_vars => Flags'
  BY FlagsStep
<1>4. Aligned /\ Flags /\ Outcome /\ [Next]_vars => Outcome'
  BY OutcomeStep DEF Aligned
<1>5. Init => Flags /\ Outcome
  <2>1. Init => Flags
    BY Zenon DEF Init, Flags
  <2>2. NoResult \in [steps : Nat, quit : BOOLEAN]
    BY DEF NoResult
  <2>3. Init => Outcome
    BY <2>2 DEF Init, Outcome
  <2> QED
    BY <2>1, <2>3
<1>6. HandOver /\ Aligned /\ Bounds /\ Flags /\ Outcome => TypeOK
  BY DEF HandOver, Aligned, Count, Bounds, Flags, Outcome, TypeOK
<1> QED
  BY <1>1, <1>2, <1>3, <1>4, <1>5, <1>6, AlignedInit, BoundsInit, HandOverInit,
     HandOverStep, PTL DEF Spec

-----------------------------------------------------------------------------
(* What a call leaves to the next one.                                     *)

(* <SOTC> is only seen when nothing is forced, phase 1 forces nothing, and *)
(* an interrupted call has no response left once the main thread goes on.  *)
Leftover ==
  /\ trigger => forced = 0 /\ ~tracked
  /\ ThreadAlive /\ tool = "none" => forced = 0 /\ ~response
  /\ pcB \in {"wait", "shutdown"} => tool # "none"
  /\ ~tracked /\ result.quit => forced = 0

LEMMA LeftoverInit == Init => Leftover
  BY DEF Init, Leftover, NoResult

LEMMA LeftoverMain ==
  ASSUME HandOver, Leftover, Main
  PROVE  Leftover'
<1> USE DEF HandOver, Leftover, ThreadAlive
<1>1. ASSUME NEW isLast \in BOOLEAN, BeginChunk(isLast) PROVE Leftover'
  BY <1>1 DEF BeginChunk, thread, loop, fcState
<1>2. ASSUME NEW isLast \in BOOLEAN, TakeResult(isLast) PROVE Leftover'
  BY <1>2 DEF TakeResult, Untrack, ResetAfterQuit, thread, loop
<1>3. ASSUME NEW isLast \in BOOLEAN, ForwardAudio(isLast)
      PROVE  Leftover'
  BY <1>3 DEF ForwardAudio, thread, loop, fcState
<1>4. CASE ReturnDuringCall
  BY <1>4 DEF ReturnDuringCall, Answered, loop, fcState
<1>5. ASSUME NEW f \in ModelFunction, NEW eos \in BOOLEAN, StepFrame(f, eos)
      PROVE  Leftover'
  BY <1>5 DEF StepFrame, FcStateMachine, thread, loop
<1>6. CASE EndChunk
  BY <1>6 DEF EndChunk, Answered, thread, loop, fcState
<1>7. CASE StartThread
  BY <1>7 DEF StartThread, TakenOver, Answered, NoResult
<1>8. ASSUME NEW taken \in 0 .. 1, ChunkFails(taken) PROVE Leftover'
  BY <1>8 DEF ChunkFails, thread, loop, fcState
<1>9. CASE ChunkFailsUpdated
  BY <1>9 DEF ChunkFailsUpdated, TakenOver, thread, loop
<1> QED
  BY Main, <1>1, <1>2, <1>3, <1>4, <1>5, <1>6, <1>7, <1>8, <1>9 DEF Main

LEMMA LeftoverThread ==
  ASSUME HandOver, Leftover, Thread
  PROVE  Leftover'
<1> USE DEF HandOver, Leftover, ThreadAlive, main
<1>1. ASSUME NEW f \in ModelFunction, AsyncStep(f)
      PROVE  Leftover'
  BY <1>1 DEF AsyncStep, AsyncToken, AfterLoop
<1>2. ASSUME NEW finished \in BOOLEAN, StopLoop(finished) PROVE Leftover'
  BY <1>2 DEF StopLoop, AfterLoop, loop
<1>3. CASE SubmitTool
  BY <1>3 DEF SubmitTool, loop
<1>4. CASE FinalWait
  BY <1>4 DEF FinalWait, loop, fcState
<1>5. CASE TimeOut
  BY <1>5 DEF TimeOut, loop, fcState
<1>6. CASE AfterTool
  BY <1>6 DEF AfterTool
<1>7. CASE Publish
  BY <1>7 DEF Publish, loop, fcState
<1>8. CASE ThreadFails
  BY <1>8 DEF ThreadFails, loop, fcState
<1>9. CASE ThreadDies
  BY <1>9 DEF ThreadDies, loop, fcState
<1>10. ASSUME NEW taken \in 0 .. 1, StepFails(taken) PROVE Leftover'
  BY <1>10 DEF StepFails, loop, fcState
<1> QED
  BY Thread, <1>1, <1>2, <1>3, <1>4, <1>5, <1>6, <1>7, <1>8, <1>9, <1>10 DEF Thread

LEMMA LeftoverStep == HandOver /\ Leftover /\ [Next]_vars => Leftover'
<1> SUFFICES ASSUME HandOver, Leftover, [Next]_vars PROVE Leftover'
  OBVIOUS
<1>1. CASE Main
  BY <1>1, LeftoverMain
<1>2. CASE Thread
  BY <1>2, LeftoverThread
<1>3. CASE Tool
  BY <1>3, FCAsyncAssumption
     DEF Tool, ToolReturns, HandOver, Leftover, ThreadAlive, main, loop, fcState
<1>4. CASE UNCHANGED vars
  BY <1>4 DEF vars, main, thread, loop, fcState, Leftover, ThreadAlive
<1> QED
  BY <1>1, <1>2, <1>3, <1>4 DEF Next

(* A call is never started over the response of an earlier one.            *)
THEOREM CallStartsClean == Spec => []NoLeftoverResponse
<1>1. Leftover => NoLeftoverResponse
  BY DEF Leftover, NoLeftoverResponse
<1> QED
  BY <1>1, LeftoverInit, LeftoverStep, HandOverInit, HandOverStep, PTL DEF Spec

(* After an interruption the main thread injects nothing of the response.  *)
THEOREM InterruptDropsResponse == Spec => InterruptedResponseDropped
<1>1. HandOver /\ Leftover /\ [Next]_vars
        => (pcM = "chunk" /\ forced' < forced => ~result.quit)
  <2> SUFFICES ASSUME HandOver, Leftover, [Next]_vars,
                      pcM = "chunk", forced' < forced, result.quit
               PROVE  FALSE
    OBVIOUS
  <2>1. forced = 0 /\ pcB \in {"none", "dead"}
    BY DEF HandOver, Leftover
  <2>2. forced' = forced
    BY <2>1 DEF Next, Main, Thread, Tool, BeginChunk, TakeResult, ForwardAudio,
       ReturnDuringCall, StepFrame, FcStateMachine, ChunkFails,
       ChunkFailsUpdated, EndChunk, StartThread,
       AsyncStep, StopLoop, SubmitTool, FinalWait, TimeOut, AfterTool, Publish,
       StepFails, ThreadFails, ThreadDies, ToolReturns, vars, fcState
  <2> QED
    BY <2>1, <2>2
<1> QED
  BY <1>1, LeftoverInit, LeftoverStep, HandOverInit, HandOverStep, PTL
     DEF Spec, InterruptedResponseDropped

(* Once the quit event is set, the thread makes no further model step.     *)
THEOREM QuitStopsThread == Spec => QuitStopsSteps
<1>1. HandOver /\ [Next]_vars => (quit /\ ThreadAlive => kv' = kv)
  BY DEF HandOver, ThreadAlive, Next, Main, Thread, Tool, BeginChunk, TakeResult,
     ForwardAudio, ReturnDuringCall, StepFrame, ChunkFails, ChunkFailsUpdated,
     EndChunk, StartThread, AsyncStep,
     LoopMayStep, StopLoop, SubmitTool, FinalWait, TimeOut, AfterTool, Publish,
     StepFails, ThreadFails, ThreadDies, ToolReturns, vars
<1> QED
  BY <1>1, HandOverInit, HandOverStep, PTL DEF Spec, QuitStopsSteps
-----------------------------------------------------------------------------
(* What the end of the stream leaves.                                      *)

(* The call of a chunk that is forwarded is still tracked when the chunk is *)
(* answered, and only the clean-up of an untracked stream releases.        *)
Release ==
  /\ ended => (held <=> tracked)
  /\ pcM = "alive" => tracked

LEMMA ReleaseStep ==
  ASSUME HandOver, Slot, Flags, Release, [Next]_vars
  PROVE  Release'
<1> USE DEF HandOver, Slot, Flags, Release
<1>1. ASSUME NEW isLast \in BOOLEAN, BeginChunk(isLast) PROVE Release'
  BY <1>1 DEF BeginChunk
<1>2. ASSUME NEW isLast \in BOOLEAN, TakeResult(isLast) PROVE Release'
  BY <1>2 DEF TakeResult
<1>3. ASSUME NEW isLast \in BOOLEAN, ForwardAudio(isLast) PROVE Release'
  BY <1>3 DEF ForwardAudio
<1>4. CASE ReturnDuringCall
  BY <1>4 DEF ReturnDuringCall, Answered
<1>5. ASSUME NEW f \in ModelFunction, NEW eos \in BOOLEAN, StepFrame(f, eos)
      PROVE  Release'
  BY <1>5 DEF StepFrame
<1>6. CASE EndChunk
  BY <1>6 DEF EndChunk, Answered, ReleaseAtEnd
<1>7. CASE StartThread
  BY <1>7 DEF StartThread, Answered
<1>8. CASE Thread \/ Tool
  BY <1>8 DEF Thread, Tool, AsyncStep, StopLoop, SubmitTool, FinalWait, TimeOut,
              AfterTool, Publish, StepFails, ThreadFails, ThreadDies, ToolReturns, main
<1>9. CASE UNCHANGED vars
  BY <1>9 DEF vars, main
<1>10. ASSUME NEW taken \in 0 .. 1, ChunkFails(taken) PROVE Release'
  BY <1>10 DEF ChunkFails, Raised
<1>11. CASE ChunkFailsUpdated
  BY <1>11 DEF ChunkFailsUpdated, Raised
<1> QED
  BY <1>1, <1>2, <1>3, <1>4, <1>5, <1>6, <1>7, <1>8, <1>9, <1>10, <1>11
     DEF Next, Main

(* A stream holds its slot, bufferer and request to its end; one that is   *)
(* over has given them back, unless a call of its was not taken back: then *)
(* it keeps all of them.                                                   *)
THEOREM EndKeepsOnlyCalls == Spec => []HeldWhileNeeded
<1>1. Init => Slot /\ Release
  BY DEF Init, Slot, Release
<1>2. Init => Flags
  BY Zenon DEF Init, Flags
<1>3. Flags /\ [Next]_vars => Flags'
  BY FlagsStep
<1>4. HandOver /\ Slot /\ Flags /\ Release /\ [Next]_vars => Release'
  BY ReleaseStep
<1>5. Slot /\ Release => HeldWhileNeeded
  BY DEF Slot, Release, HeldWhileNeeded
<1> QED
  BY <1>1, <1>2, <1>3, <1>4, <1>5, HandOverInit, HandOverStep, SlotStep, PTL DEF Spec

-----------------------------------------------------------------------------
(* The two threads implement the life cycle of a call.                     *)

(* How the state of the tool goes with the place the thread is at: a call  *)
(* waits to be executed only between the loop and the executor, the first  *)
(* loop comes before the tool and the second after it, and the thread does *)
(* not end while the tool runs.                                            *)
Stage ==
  /\ awaiting <=> (pcB = "onhold" /\ tool = "none")
  /\ pcB = "steps" => (response <=> tool # "none")
  /\ pcB \in {"none", "steps", "publish", "dying", "dead"} => tool # "running"

LEMMA StageInit == Init => Stage
  BY DEF Init, Stage

LEMMA StageMain ==
  ASSUME HandOver, Stage, Main
  PROVE  Stage'
<1> USE DEF HandOver, Stage, ThreadAlive
<1>1. ASSUME NEW isLast \in BOOLEAN, BeginChunk(isLast) PROVE Stage'
  BY <1>1 DEF BeginChunk, thread, loop, fcState
<1>2. ASSUME NEW isLast \in BOOLEAN, TakeResult(isLast) PROVE Stage'
  BY <1>2 DEF TakeResult, thread, loop
<1>3. ASSUME NEW isLast \in BOOLEAN, ForwardAudio(isLast) PROVE Stage'
  BY <1>3 DEF ForwardAudio, thread, loop, fcState
<1>4. CASE ReturnDuringCall
  BY <1>4 DEF ReturnDuringCall, loop, fcState
<1>5. ASSUME NEW f \in ModelFunction, NEW eos \in BOOLEAN, StepFrame(f, eos)
      PROVE  Stage'
  BY <1>5 DEF StepFrame, thread, loop
<1>6. CASE EndChunk
  BY <1>6 DEF EndChunk, thread, loop, fcState
<1>7. CASE StartThread
  BY <1>7 DEF StartThread
<1>8. ASSUME NEW taken \in 0 .. 1, ChunkFails(taken) PROVE Stage'
  BY <1>8 DEF ChunkFails, thread, loop, fcState
<1>9. CASE ChunkFailsUpdated
  BY <1>9 DEF ChunkFailsUpdated, thread, loop
<1> QED
  BY <1>1, <1>2, <1>3, <1>4, <1>5, <1>6, <1>7, <1>8, <1>9 DEF Main

(* The step that finds a call written is the last one of the first loop.   *)
LEMMA CallWritten ==
  ASSUME NEW f \in ModelFunction, AsyncToken(f), ~awaiting, awaiting'
  PROVE  ~response /\ ~FcInProgress'
<1>1. /\ forced = 0 /\ ~response
      /\ forced' = forced /\ active' = FALSE /\ injecting' = FALSE
  BY Zenon DEF AsyncToken
<1> QED
  BY <1>1 DEF FcInProgress

LEMMA StageThread ==
  ASSUME HandOver, Leftover, Stage, Thread
  PROVE  Stage'
<1> USE DEF HandOver, Stage
<1>1. ASSUME NEW f \in ModelFunction, AsyncStep(f) PROVE Stage'
  <2>1. ~awaiting /\ tool' = tool /\ response' = response
    BY <1>1 DEF AsyncStep
  <2>2. awaiting' => ~response /\ ~FcInProgress'
    BY <1>1, <2>1, CallWritten DEF AsyncStep
  <2>3. \/ pcB' = "steps" /\ ~awaiting'
        \/ pcB' = (IF awaiting' THEN "onhold" ELSE "publish")
    BY <1>1, <2>2 DEF AsyncStep, AfterLoop
  <2> QED
    BY <1>1, <2>1, <2>2, <2>3 DEF AsyncStep
<1>2. ASSUME NEW finished \in BOOLEAN, StopLoop(finished) PROVE Stage'
  BY <1>2 DEF StopLoop, AfterLoop, loop
<1>3. CASE SubmitTool
  BY <1>3 DEF SubmitTool, loop
<1>4. CASE FinalWait
  BY <1>4 DEF FinalWait, loop, fcState
<1>5. CASE TimeOut
  BY <1>5 DEF TimeOut, loop, fcState
<1>6. CASE AfterTool
  BY <1>6 DEF AfterTool, ToolDone, Leftover
<1>7. CASE Publish
  BY <1>7 DEF Publish, loop, fcState
<1>8. CASE ThreadFails
  BY <1>8 DEF ThreadFails, loop, fcState
<1>9. CASE ThreadDies
  BY <1>9 DEF ThreadDies, loop, fcState
<1>10. ASSUME NEW taken \in 0 .. 1, StepFails(taken) PROVE Stage'
  BY <1>10 DEF StepFails, loop, fcState
<1> QED
  BY <1>1, <1>2, <1>3, <1>4, <1>5, <1>6, <1>7, <1>8, <1>9, <1>10 DEF Thread

LEMMA StageStep == HandOver /\ Leftover /\ Stage /\ [Next]_vars => Stage'
<1> SUFFICES ASSUME HandOver, Leftover, Stage, [Next]_vars PROVE Stage'
  OBVIOUS
<1>1. CASE Main
  BY <1>1, StageMain
<1>2. CASE Thread
  BY <1>2, StageThread
<1>3. CASE Tool
  BY <1>3, FCAsyncAssumption DEF Tool, ToolReturns, Stage, loop, fcState
<1>4. CASE UNCHANGED vars
  BY <1>4 DEF vars, thread, loop, fcState, Stage
<1> QED
  BY <1>1, <1>2, <1>3, <1>4 DEF Next

LEMMA CallInit == Init => Call!Init
  BY DEF Init, Call!Init, callPhase

(* The main thread talks, begins a call, stops it and takes it back.       *)
LEMMA MainImplementsCall ==
  ASSUME HandOver, Aligned, Release, Stage, Main
  PROVE  [Call!Next]_(Call!callvars)
<1> USE DEF HandOver, ThreadAlive
<1>1. ASSUME NEW isLast \in BOOLEAN, BeginChunk(isLast)
      PROVE  UNCHANGED Call!callvars
  BY <1>1 DEF BeginChunk, Call!callvars, callPhase, thread, loop
<1>2. ASSUME NEW isLast \in BOOLEAN, TakeResult(isLast)
      PROVE  Call!TakeBack
  <2>1. callPhase = "over"
    BY <1>2 DEF TakeResult, callPhase
  <2>2. callPhase' = "talking"
    BY <1>2 DEF TakeResult, Untrack, callPhase
  <2> QED
    BY <1>2, <2>1, <2>2 DEF TakeResult, Call!TakeBack, thread, loop
<1>3. ASSUME NEW isLast \in BOOLEAN, ForwardAudio(isLast)
      PROVE  UNCHANGED Call!callvars
  BY <1>3 DEF ForwardAudio, Call!callvars, callPhase, thread, loop
<1>4. CASE ReturnDuringCall
  <2>1. tracked
    BY <1>4 DEF ReturnDuringCall, Release
  <2>2. callPhase' = callPhase /\ kv' = kv /\ steps' = steps
    BY <1>4 DEF ReturnDuringCall, callPhase, loop
  <2>3. callPhase # "talking"
    BY <2>1 DEF callPhase
  <2>4. quit' = TRUE \/ quit' = quit
    BY <1>4 DEF ReturnDuringCall, WatchAgentEos
  <2> QED
    BY <2>2, <2>3, <2>4 DEF Call!Next, Call!Stop, Call!callvars
<1>5. ASSUME NEW f \in ModelFunction, NEW eos \in BOOLEAN, StepFrame(f, eos)
      PROVE  Call!Talk
  BY <1>5 DEF StepFrame, Call!Talk, callPhase, thread, loop
<1>6. CASE EndChunk
  BY <1>6 DEF EndChunk, Call!callvars, callPhase, thread, loop
<1>7. CASE StartThread
  <2>1. callPhase = "talking" /\ callPhase' = "writing"
    BY <1>7 DEF StartThread, callPhase
  <2> QED
    BY <1>7, <2>1 DEF StartThread, Call!Begin, Call!Next
<1>8. ASSUME NEW taken \in 0 .. 1, ChunkFails(taken)
      PROVE  Call!Talk \/ UNCHANGED Call!callvars
  <2>1. callPhase = "talking" /\ callPhase' = "talking"
    BY <1>8 DEF ChunkFails, callPhase
  <2>2. kv' = kv + 1 \/ kv' = kv
    BY <1>8 DEF ChunkFails, Aligned, Count
  <2> QED
    BY <1>8, <2>1, <2>2 DEF ChunkFails, Call!Talk, Call!callvars, thread, loop
<1>9. CASE ChunkFailsUpdated
  BY <1>9 DEF ChunkFailsUpdated, Call!callvars, callPhase, thread, loop
<1> QED
  BY <1>1, <1>2, <1>3, <1>4, <1>5, <1>6, <1>7, <1>8, <1>9 DEF Main, Call!Next

(* The background thread writes the call, has it executed and answers it.  *)
LEMMA ThreadImplementsCall ==
  ASSUME HandOver, Aligned, Leftover, Stage, Thread
  PROVE  [Call!Next]_(Call!callvars)
<1> USE DEF HandOver, Stage
<1>1. ASSUME NEW f \in ModelFunction, AsyncStep(f)
      PROVE  Call!Write \/ Call!Respond
  <2>1. /\ tracked /\ tracked' = tracked /\ pcB = "steps"
        /\ tool' = tool /\ response' = response /\ ~awaiting
    BY <1>1 DEF AsyncStep, main
  <2>2. awaiting' => ~response /\ ~FcInProgress'
    BY <1>1, <2>1, CallWritten DEF AsyncStep
  <2>3. \/ pcB' = "steps"
        \/ ~response /\ pcB' = "onhold"
        \/ pcB' = "publish"
    BY <1>1, <2>2 DEF AsyncStep, AfterLoop
  <2>4. CASE response
    <3>1. callPhase = "answering" /\ callPhase' \in {"answering", "over"}
      BY <2>1, <2>3, <2>4 DEF callPhase
    <3> QED
      BY <1>1, <3>1 DEF AsyncStep, LoopMayStep, LoopBound, Call!Respond, Call!Take
  <2>5. CASE ~response
    <3>1. callPhase = "writing" /\ callPhase' \in {"writing", "written", "over"}
      BY <2>1, <2>3, <2>5 DEF callPhase
    <3> QED
      BY <1>1, <3>1 DEF AsyncStep, LoopMayStep, LoopBound, Call!Write, Call!Take
  <2> QED
    BY <2>4, <2>5
<1>2. ASSUME NEW finished \in BOOLEAN, StopLoop(finished) PROVE Call!GiveUp
  <2>1. tracked /\ tracked' /\ pcB = "steps" /\ pcB' = "publish"
    BY <1>2 DEF StopLoop, AfterLoop, main
  <2>2. callPhase \in {"writing", "answering"} /\ callPhase' = "over"
    BY <2>1 DEF callPhase
  <2> QED
    BY <1>2, <2>2 DEF StopLoop, Call!GiveUp, loop
<1>3. CASE SubmitTool
  <2>1. callPhase = "written" /\ callPhase' = "executing"
    BY <1>3 DEF SubmitTool, callPhase, main
  <2> QED
    BY <1>3, <2>1 DEF SubmitTool, Call!Next, Call!Execute, loop
<1>4. CASE FinalWait
  <2>1. callPhase' = callPhase
    BY <1>4 DEF FinalWait, callPhase, main, loop
  <2> QED
    BY <1>4, <2>1 DEF FinalWait, Call!callvars, loop
<1>5. CASE TimeOut
  <2>1. callPhase' = callPhase
    BY <1>5 DEF TimeOut, callPhase, main, loop
  <2> QED
    BY <1>5, <2>1 DEF TimeOut, Call!callvars, loop
<1>6. CASE AfterTool
  <2>1. tracked /\ tracked' = tracked /\ tool \notin {"none", "running"}
    BY <1>6 DEF AfterTool, ToolDone, Leftover, main
  <2>2. callPhase = "returned"
    BY <1>6, <2>1 DEF AfterTool, callPhase
  <2>3. \/ pcB' = "publish" /\ steps' = steps
        \/ pcB' = "steps" /\ steps' = 0 /\ response' = TRUE
    BY <1>6 DEF AfterTool
  <2>4. \/ callPhase' = "over" /\ steps' = steps
        \/ callPhase' = "answering" /\ steps' = 0
    BY <2>1, <2>3 DEF callPhase
  <2> QED
    BY <1>6, <2>2, <2>4 DEF AfterTool, Call!Next, Call!GiveUp, Call!Answer
<1>7. CASE Publish
  <2>1. callPhase' = callPhase
    BY <1>7 DEF Publish, callPhase, main, loop
  <2> QED
    BY <1>7, <2>1 DEF Publish, Call!callvars, loop
<1>8. CASE ThreadFails
  <2>1. callPhase = "returned" /\ callPhase' = "over"
    BY <1>8 DEF ThreadFails, callPhase, main, loop
  <2> QED
    BY <1>8, <2>1 DEF ThreadFails, Call!Next, Call!GiveUp, loop
<1>9. CASE ThreadDies
  <2>1. callPhase' = callPhase
    BY <1>9 DEF ThreadDies, callPhase, main, loop
  <2> QED
    BY <1>9, <2>1 DEF ThreadDies, Call!callvars, loop
<1>10. ASSUME NEW taken \in 0 .. 1, StepFails(taken) PROVE Call!GiveUp
  <2>1. callPhase \in {"writing", "answering"} /\ callPhase' = "over"
    BY <1>10 DEF StepFails, callPhase, main, loop
  <2>2. ~quit /\ steps < MaxAsyncSteps
    BY <1>10 DEF StepFails, LoopMayStep, LoopBound
  <2>3. kv' = kv \/ kv' = kv + 1
    BY <1>10 DEF StepFails, Aligned, Count
  <2> QED
    BY <1>10, <2>1, <2>2, <2>3 DEF StepFails, Call!GiveUp, loop
<1> QED
  BY <1>1, <1>2, <1>3, <1>4, <1>5, <1>6, <1>7, <1>8, <1>9, <1>10 DEF Thread, Call!Next

(* The tool returns where its call is being executed, and nowhere else.    *)
LEMMA ToolImplementsCall ==
  ASSUME HandOver, Stage, Tool
  PROVE  Call!Execute
<1>1. PICK outcome \in ToolOutcomes : ToolReturns(outcome)
  BY DEF Tool
<1>2. tool = "running" /\ tool' \notin {"none", "running"} /\ pcB' = pcB
      /\ tracked' = tracked
  BY <1>1, FCAsyncAssumption DEF ToolReturns, main
<1>3. tracked /\ pcB \in {"onhold", "wait", "shutdown"}
  BY <1>2 DEF HandOver, Stage
<1>4. callPhase = "executing" /\ callPhase' = "returned"
  BY <1>2, <1>3 DEF callPhase
<1> QED
  BY <1>1, <1>4 DEF ToolReturns, Call!Execute, loop

LEMMA CallStep ==
  HandOver /\ Aligned /\ Leftover /\ Release /\ Stage /\ [Next]_vars
    => [Call!Next]_(Call!callvars)
<1> SUFFICES ASSUME HandOver, Aligned, Leftover, Release, Stage, [Next]_vars
             PROVE  [Call!Next]_(Call!callvars)
  OBVIOUS
<1>1. CASE Main
  BY <1>1, MainImplementsCall
<1>2. CASE Thread
  BY <1>2, ThreadImplementsCall
<1>3. CASE Tool
  BY <1>3, ToolImplementsCall DEF Call!Next
<1>4. CASE UNCHANGED vars
  BY <1>4 DEF vars, main, thread, loop, callPhase, Call!callvars
<1> QED
  BY <1>1, <1>2, <1>3, <1>4 DEF Next

(* Whatever the model writes, the tool does and the client interrupts, the *)
(* main thread and the background thread together run calls by their life  *)
(* cycle: one owner of the positions, one execution, the answer after the  *)
(* tool, two bounded runs, no position after a stop.                       *)
THEOREM ThreadsImplementCall == Spec => CallSpec
<1>1. Init => Slot /\ Release
  BY DEF Init, Slot, Release
<1>2. Init => Flags
  BY Zenon DEF Init, Flags
<1>3. Flags /\ [Next]_vars => Flags'
  BY FlagsStep
<1>4. HandOver /\ Slot /\ Flags /\ Release /\ [Next]_vars => Release'
  BY ReleaseStep
<1>5. HandOver /\ Aligned /\ [Next]_vars => Aligned'
  BY AlignedStep
<1> QED
  BY <1>1, <1>2, <1>3, <1>4, <1>5, HandOverInit, HandOverStep, SlotStep,
     AlignedInit, LeftoverInit, LeftoverStep, StageInit, StageStep, CallInit,
     CallStep, PTL
     DEF Spec, CallSpec, Call!Spec

-----------------------------------------------------------------------------
(* A call winds down.                                                      *)

StepsKept == steps \in 0 .. MaxAsyncSteps

LEMMA StepsKeptStep ==
  ASSUME StepsKept, [Next]_vars
  PROVE  StepsKept'
<1> USE FCAsyncAssumption DEF StepsKept
<1>1. CASE Main
  BY <1>1 DEF Main, BeginChunk, TakeResult, ForwardAudio, ReturnDuringCall,
              StepFrame, ChunkFails, ChunkFailsUpdated, EndChunk, StartThread,
              thread, loop
<1>2. ASSUME NEW f \in ModelFunction, AsyncStep(f) PROVE StepsKept'
  BY <1>2 DEF AsyncStep, LoopMayStep, LoopBound
<1>3. ASSUME NEW finished \in BOOLEAN, StopLoop(finished) PROVE StepsKept'
  BY <1>3 DEF StopLoop, loop
<1>4. CASE SubmitTool \/ FinalWait \/ TimeOut \/ AfterTool \/ Publish
             \/ (\E taken \in 0 .. 1 : StepFails(taken)) \/ ThreadFails \/ ThreadDies
  BY <1>4 DEF SubmitTool, FinalWait, TimeOut, AfterTool, Publish, StepFails,
              ThreadFails, ThreadDies, loop
<1>5. CASE Tool
  BY <1>5 DEF Tool, ToolReturns, loop
<1>6. CASE UNCHANGED vars
  BY <1>6 DEF vars, thread, loop
<1> QED
  BY <1>1, <1>2, <1>3, <1>4, <1>5, <1>6 DEF Next, Thread

(* What one step does to what remains.                                     *)
Spends == Remaining' \in Int /\ Remaining' < Remaining

Waits == Remaining' = Remaining /\ UNCHANGED <<pcB, tool, kv>>

LEMMA RemainingNat ==
  ASSUME HandOver, StepsKept
  PROVE  Remaining \in Nat
  BY FCAsyncAssumption DEF HandOver, StepsKept, Remaining

LEMMA MainWaits ==
  ASSUME HandOver, tracked, Main
  PROVE  Waits
<1>1. \/ \E isLast \in BOOLEAN : TakeResult(isLast) \/ ForwardAudio(isLast)
      \/ ReturnDuringCall
  BY DEF HandOver, Main, BeginChunk, StepFrame, ChunkFails, ChunkFailsUpdated,
     EndChunk, StartThread
<1>2. UNCHANGED <<pcB, tool, kv, steps, response>>
  BY <1>1 DEF TakeResult, ForwardAudio, ReturnDuringCall, thread, loop
<1> QED
  BY <1>2, Zenon DEF Waits, Remaining

LEMMA LoopLeft ==
  ASSUME NEW f \in ModelFunction, AsyncStep(f)
  PROVE  pcB' \in {"steps", "publish"} \/ (pcB' = "onhold" /\ ~response)
<1>1. CASE pcB' = pcB
  BY <1>1 DEF AsyncStep
<1>2. CASE AfterLoop /\ awaiting' /\ ~response
  BY <1>2 DEF AfterLoop
<1>3. CASE AfterLoop /\ ~(awaiting' /\ ~response)
  BY <1>3 DEF AfterLoop
<1> QED
  BY <1>1, <1>2, <1>3 DEF AsyncStep

LEMMA ThreadSpends ==
  ASSUME HandOver, Leftover, Stage, StepsKept, Thread
  PROVE  Spends
<1> USE FCAsyncAssumption DEF HandOver, StepsKept, Spends, Remaining
<1>1. ASSUME NEW f \in ModelFunction, AsyncStep(f) PROVE Spends
  <2>1. /\ pcB = "steps" /\ steps < MaxAsyncSteps /\ steps' = steps + 1
        /\ tool' = tool /\ response' = response
    BY <1>1 DEF AsyncStep, LoopMayStep, LoopBound
  <2>2. pcB' \in {"steps", "publish"} \/ (pcB' = "onhold" /\ ~response)
    BY <1>1, <2>1, LoopLeft
  <2>3. CASE response
    <3>1. Remaining = 3 + (MaxAsyncSteps - steps)
      BY <2>1, <2>3
    <3>2. \/ Remaining' = 3 + (MaxAsyncSteps - steps')
          \/ Remaining' = 2
      BY <2>1, <2>2, <2>3
    <3> HIDE DEF Remaining
    <3> QED
      BY <2>1, <3>1, <3>2
  <2>4. CASE ~response
    <3>1. tool = "none"
      BY <2>1, <2>4 DEF Stage
    <3>2. Remaining = MaxAsyncSteps + 9 + (MaxAsyncSteps - steps)
      BY <2>1, <2>4
    <3>3. \/ Remaining' = MaxAsyncSteps + 9 + (MaxAsyncSteps - steps')
          \/ Remaining' = MaxAsyncSteps + 8
          \/ Remaining' = 2
      BY <2>1, <2>2, <2>4, <3>1
    <3> HIDE DEF Remaining
    <3> QED
      BY <2>1, <3>2, <3>3
  <2> QED
    BY <2>3, <2>4
<1>2. ASSUME NEW finished \in BOOLEAN, StopLoop(finished) PROVE Spends
  BY <1>2 DEF StopLoop, AfterLoop, loop
<1>3. CASE SubmitTool
  BY <1>3 DEF SubmitTool, loop
<1>4. CASE FinalWait
  BY <1>4 DEF FinalWait, loop
<1>5. CASE TimeOut
  BY <1>5 DEF TimeOut, loop
<1>6. CASE AfterTool
  BY <1>6 DEF AfterTool, ToolDone
<1>7. CASE Publish
  BY <1>7 DEF Publish, loop
<1>8. CASE ThreadFails
  BY <1>8 DEF ThreadFails, loop
<1>9. CASE ThreadDies
  BY <1>9 DEF ThreadDies, loop
<1>10. ASSUME NEW taken \in 0 .. 1, StepFails(taken) PROVE Spends
  BY <1>10 DEF StepFails, LoopMayStep, LoopBound, loop
<1> QED
  BY <1>1, <1>2, <1>3, <1>4, <1>5, <1>6, <1>7, <1>8, <1>9, <1>10 DEF Thread

LEMMA ToolSpends ==
  ASSUME HandOver, Leftover, Stage, StepsKept, Tool
  PROVE  Spends
<1>1. PICK outcome \in ToolOutcomes : ToolReturns(outcome)
  BY DEF Tool
<1>2. /\ tool = "running" /\ tool' \notin {"none", "running"}
      /\ UNCHANGED <<pcB, steps, response>>
  BY <1>1, FCAsyncAssumption DEF ToolReturns, loop
<1>3. pcB \in {"onhold", "wait", "shutdown"}
  BY <1>2 DEF HandOver, Stage
<1> QED
  BY <1>2, <1>3, FCAsyncAssumption DEF Spends, Remaining

LEMMA WindsDownStep ==
  ASSUME HandOver, Leftover, Stage, StepsKept, tracked, [Next]_vars,
         HandOver', StepsKept'
  PROVE  /\ Remaining' \in 0 .. Remaining
         /\ steps' <= MaxAsyncSteps
         /\ Remaining' = Remaining => UNCHANGED <<pcB, tool, kv>>
<1>1. Spends \/ Waits
  <2>1. CASE Main
    BY <2>1, MainWaits
  <2>2. CASE Thread
    BY <2>2, ThreadSpends
  <2>3. CASE Tool
    BY <2>3, ToolSpends
  <2>4. CASE UNCHANGED vars
    BY <2>4, Zenon DEF vars, thread, loop, Waits, Remaining
  <2> QED
    BY <2>1, <2>2, <2>3, <2>4 DEF Next
<1>2. Remaining \in Nat
  BY RemainingNat
<1>3. Remaining' \in Nat
  BY FCAsyncAssumption DEF HandOver, StepsKept, Remaining
<1>4. steps' <= MaxAsyncSteps
  BY FCAsyncAssumption DEF StepsKept
<1> HIDE DEF Remaining
<1> QED
  BY <1>1, <1>2, <1>3, <1>4 DEF Spends, Waits

(* From <SOTC> to the end of the thread, what remains of a call is a       *)
(* natural number that each step of the thread and the tool makes smaller  *)
(* and no step makes larger: a call takes at most 2 * MaxAsyncSteps + 9 of *)
(* their steps, so that it ends if the thread and the tool go on at all.   *)
THEOREM CallsWindDown == Spec => CallWindsDown
<1>1. Init => StepsKept
  BY FCAsyncAssumption DEF Init, StepsKept
<1>2. StepsKept /\ [Next]_vars => StepsKept'
  BY StepsKeptStep
<1>3. HandOver /\ Leftover /\ Stage /\ StepsKept /\ [Next]_vars
        /\ HandOver' /\ StepsKept'
        => (tracked => /\ Remaining' \in 0 .. Remaining
                       /\ steps' <= MaxAsyncSteps
                       /\ Remaining' = Remaining => UNCHANGED <<pcB, tool, kv>>)
  BY WindsDownStep
<1> QED
  BY <1>1, <1>2, <1>3, HandOverInit, HandOverStep, LeftoverInit, LeftoverStep,
     StageInit, StageStep, PTL DEF Spec, CallWindsDown
=============================================================================
