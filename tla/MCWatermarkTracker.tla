------------------------- MODULE MCWatermarkTracker -------------------------
(* Small instances of WatermarkTracker. *)
EXTENDS WatermarkTracker

MCSeqs == 0 .. (MaxU64 - 1)
=============================================================================
