--------------------------- MODULE MCTcpTransport ---------------------------
(* Streams for TLC: a keepalive in front of, between or inside the pauses of *)
(* messages without a body, with one that looks like a keepalive, and with   *)
(* one that looks like the end of a header.                                  *)
EXTENDS TcpTransport

NoBody == <<"h0">> \o Blank
PingBody == <<"h2">> \o Blank \o Crlf
BlankBody == <<"h4">> \o Blank \o Blank
MCStreams == {<<Blank, BlankBody, NoBody>>, <<NoBody, Crlf, PingBody>>}
MCOwn == 1..2
=============================================================================
