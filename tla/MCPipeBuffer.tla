---------------------------- MODULE MCPipeBuffer ----------------------------
(* Chunks of three bytes and strings of up to five, so that an operation    *)
(* touches up to three chunks.                                              *)
EXTENDS PipeBuffer

MCBytes == {"a", "b", "n"}
MCStrings == {<<"a">>, <<"b", "n">>, <<"n", "a", "b">>, <<"a", "b", "a", "n", "b">>}
MCCounts == {1, 2, 4}
=============================================================================
