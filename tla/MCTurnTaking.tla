---------------------------- MODULE MCTurnTaking ----------------------------
(* Values for TLC: the redirect tokens, the settings that may be off, and  *)
(* those of the server, with all three off (s2s_streaming.yaml:139).       *)
EXTENDS TurnTaking

MCRedirect == <<"bos", "word", "eos">>
MCOff      == [maxResponse |-> 0, forceEos |-> 0, postEos |-> 0]
MCServer   == {MCOff}
MCOptions  == {MCOff, [MCOff EXCEPT !.maxResponse = 2],
               [MCOff EXCEPT !.forceEos = 2, !.postEos = 2]}
=============================================================================
