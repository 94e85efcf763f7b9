---------------------------- MODULE MCSegmentLog ----------------------------
(* SegmentLog on small instances.                                          *)
EXTENDS SegmentLog
=============================================================================
