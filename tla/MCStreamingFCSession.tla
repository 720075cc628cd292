------------------------- MODULE MCStreamingFCSession -------------------------
(* Finite values for StreamingFCSession: ticks of nothing, of half a frame *)
(* and of one and a half frames, results that fit the budget and results   *)
(* that do not.                                                            *)
EXTENDS StreamingFCSession

MCTicks == {0, 1, 3}
MCTicksPlain == {0, 2}
MCResponses == {0, 1, 3}
=============================================================================
