------------------------------ MODULE MCStreams -----------------------------
(***************************************************************************)
(* A small instance of Streams.                                            *)
(***************************************************************************)
EXTENDS Streams
=============================================================================
