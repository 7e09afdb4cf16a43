---------------------------- MODULE MCSmsChunkRun ----------------------------
(***************************************************************************)
(* Five candidates in three chunks, each of which may be split down to     *)
(* single candidates, on two workers.                                      *)
(***************************************************************************)
EXTENDS SmsChunkRun
=============================================================================
