---------------------------- MODULE PipeFramingMC ----------------------------
(* Traces of one and of two bytes, the longer ones as long as PipeBuf allows. *)
EXTENDS PipeFraming

MCTraces == {<<"a">>, <<"b", "b">>}

\* The hypothesis of the theorems.
ASSUME MCPlainTraces == PlainTraces
==============================================================================
