-------------------------- MODULE MCQualityChannel --------------------------
(* Small instances of QualityChannel. *)
EXTENDS QualityChannel

\* Records and ranges carry the numbers up to the end of the last window.
CONSTANT MaxSeq
MCSeqs == 0 .. MaxSeq
=============================================================================
