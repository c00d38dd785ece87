------------------------------ MODULE MCCTChild ------------------------------
(***************************************************************************)
(* CTChild on small instances.  Clients send anything of up to three       *)
(* pieces, or one of a few sessions: lines behind QUIT, a QUIT that is the  *)
(* second line behind a long one, a line of three buffers, a line behind a  *)
(* zero byte.                                                              *)
(***************************************************************************)
EXTENDS CTChild, TLC

MCSessions == {
    <<"cmd", "nl", "quit", "nl", "cmd">>,
    <<"long", "nl", "cmd", "nl", "quit", "nl">>,
    <<"cmd", "long", "long", "nl", "quit", "nl">>,
    <<"cmd", "nul", "nul", "nl">>}

MCStreams == [1 .. 3 -> Piece] \cup MCSessions
=============================================================================
