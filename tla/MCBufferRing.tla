---------------------------- MODULE MCBufferRing ----------------------------
(***************************************************************************)
(* BufferRing on a small ring.  Four buffers let the ring be empty, partly *)
(* full and full, with the writer searching for room while the reader      *)
(* releases buffers.                                                       *)
(***************************************************************************)
EXTENDS BufferRing

MCNone == NBuf

=============================================================================
