------------------------------ MODULE MCExecute ------------------------------
(* Two cells one after the other, one stream and rich outputs, one output *)
(* kept at each end.                                                        *)
EXTENDS Execute
============================================================================
