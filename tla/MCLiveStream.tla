---------------------------- MODULE MCLiveStream ----------------------------
(***************************************************************************)
(* Two streams of one session, a short timeout, a clock that may be set    *)
(* back by one.                                                            *)
(***************************************************************************)
EXTENDS LiveStream

CONSTANTS l1, l2
=============================================================================
