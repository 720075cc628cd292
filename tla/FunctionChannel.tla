--------------------------- MODULE FunctionChannel ---------------------------
(***************************************************************************)
(* What the function channel of a live session promises, from the layout   *)
(* the model is trained on:                                                *)
(*                                                                         *)
(*    audio ... <SOTC> call <EOTC> | response | audio ...                  *)
(*                                                                         *)
(* Audio flows while the model listens or writes a call.  Once a call is   *)
(* closed nothing flows until its answer is there; the answer then takes   *)
(* consecutive positions before the next audio frame, and all the answers  *)
(* together stay within a budget.                                          *)
(***************************************************************************)
EXTENDS Integers

CONSTANT Budget     \* positions reserved for responses

VARIABLES
  phase,      \* listening, calling, awaiting or responding
  heard,      \* audio frames consumed
  injected,   \* response tokens stepped over
  closed      \* calls closed

fcvars == <<phase, heard, injected, closed>>

Init == phase = "listening" /\ heard = 0 /\ injected = 0 /\ closed = 0

(* One audio frame: a call may begin, go on, or be closed.                 *)
Hear ==
  /\ phase \in {"listening", "calling"}
  /\ heard' = heard + 1
  /\ \/ /\ phase' \in {phase, "calling"}
        /\ closed' = closed
     \/ /\ phase = "calling"
        /\ phase' = "awaiting"
        /\ closed' = closed + 1
  /\ UNCHANGED injected

(* The tool result arrives; a response cut down to nothing is over at once.*)
Answer ==
  /\ phase = "awaiting"
  /\ phase' \in {"responding", "listening"}
  /\ UNCHANGED <<heard, injected, closed>>

(* One response token takes one position.                                  *)
Inject ==
  /\ phase = "responding"
  /\ injected < Budget
  /\ injected' = injected + 1
  /\ phase' \in {"responding", "listening"}
  /\ UNCHANGED <<heard, closed>>

Next == Hear \/ Answer \/ Inject

Spec == Init /\ [][Next]_fcvars
=============================================================================
