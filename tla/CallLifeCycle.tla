---------------------------- MODULE CallLifeCycle ----------------------------
(***************************************************************************)
(* What non-blocking function calling promises of one stream, without its  *)
(* threads, queues and hand-overs.                                         *)
(*                                                                         *)
(*    talking -> writing -> written -> executing -> returned -> answering  *)
(*                                                                         *)
(* The positions of the stream have one owner at a time: the conversation  *)
(* while it is talking, the call while it is written and while its answer  *)
(* is spoken, and nobody from the end of the one to the beginning of the   *)
(* other.  A call is executed at most once, nothing is said to it before   *)
(* its tool has returned, each of its two runs is bounded, and once it is  *)
(* stopped it takes no further position.  However it ends, the             *)
(* conversation goes on only when it is over.                              *)
(***************************************************************************)
EXTENDS Integers

CONSTANT MaxSteps   \* positions one run of a call may take

VARIABLES
  phase,      \* as above, or over
  position,   \* positions of the stream
  spent,      \* positions of the run under way
  stopped     \* the user has interrupted the call

callvars == <<phase, position, spent, stopped>>

Init == phase = "talking" /\ position = 0 /\ spent = 0 /\ stopped = FALSE

(* One frame of conversation.                                              *)
Talk ==
  /\ phase = "talking"
  /\ position' = position + 1
  /\ UNCHANGED <<phase, spent, stopped>>

(* The model has begun to write a call.                                    *)
Begin ==
  /\ phase = "talking"
  /\ phase' = "writing" /\ spent' = 0 /\ stopped' = FALSE
  /\ UNCHANGED position

(* A run takes one position, and goes on or is done with this one.         *)
Take(next) ==
  /\ ~stopped /\ spent < MaxSteps
  /\ position' = position + 1 /\ spent' = spent + 1
  /\ phase' \in {phase, next, "over"}
  /\ UNCHANGED stopped

Write == phase = "writing" /\ Take("written")

Respond == phase = "answering" /\ Take("answering")

(* The call goes to its tool, which returns some time, or is given up.     *)
Execute ==
  /\ \/ phase = "written" /\ phase' = "executing"
     \/ phase = "executing" /\ phase' = "returned"
  /\ UNCHANGED <<position, spent, stopped>>

(* What the tool returned is answered by a second run.                     *)
Answer ==
  /\ phase = "returned"
  /\ phase' = "answering" /\ spent' = 0
  /\ UNCHANGED <<position, stopped>>

(* A run is cut short, or nothing is said to what the tool returned.  A    *)
(* run that fails may have taken one more of the positions it was allowed. *)
GiveUp ==
  /\ phase \in {"writing", "returned", "answering"}
  /\ phase' = "over"
  /\ \/ UNCHANGED position
     \/ /\ phase # "returned" /\ ~stopped /\ spent < MaxSteps
        /\ position' = position + 1
  /\ UNCHANGED <<spent, stopped>>

Stop ==
  /\ phase # "talking"
  /\ stopped' = TRUE
  /\ UNCHANGED <<phase, position, spent>>

(* The conversation goes on.                                               *)
TakeBack ==
  /\ phase = "over"
  /\ phase' = "talking"
  /\ UNCHANGED <<position, spent, stopped>>

Next ==
  \/ Talk \/ Begin \/ Write \/ Execute \/ Answer \/ Respond \/ GiveUp \/ Stop
  \/ TakeBack

Spec == Init /\ [][Next]_callvars
=============================================================================
