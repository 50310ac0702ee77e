----------------------------- MODULE MCOpStream -----------------------------
(* An instance of OpStream for TLC.                                        *)
EXTENDS OpStream

(* Two messages, each one byte longer than a header.                       *)
MCMessageLens == <<HeaderLen + 1, HeaderLen + 1>>

=============================================================================
