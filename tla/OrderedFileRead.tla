--------------------------- MODULE OrderedFileRead ---------------------------
(***************************************************************************)
(* What one pass over a playback file promises to its caller, whatever     *)
(* number of goroutines parse it: the documents come out one at a time in  *)
(* file order, and the pass ends with exactly one outcome.                 *)
(*                                                                         *)
(* A file is a number of complete documents (numbered 1, 2, ...), some of  *)
(* which do not unmarshal into a RecordedOp ("bad"), and the way the bytes *)
(* end after them:                                                         *)
(*   "clean"   the file ends after a document;                             *)
(*   "header"  the file is cut right after a document's 4 length bytes;    *)
(*   "error"   reading fails (a cut elsewhere, a bad length, an I/O error).*)
(* The outcome "EOF" is io.EOF, "readErr" the reader's error, "parseErr"   *)
(* the error of unmarshalling a bad document.                              *)
(***************************************************************************)
EXTENDS Naturals, Sequences

CONSTANT MaxDocs  \* Bound: the largest number of documents in a file.

VARIABLES input, delivered, outcome

Ends == {"clean", "header", "error"}

Inputs ==
    { f \in [n : 0..MaxDocs, end : Ends, bad : SUBSET (1..MaxDocs)] :
        f.bad \subseteq 1..f.n }

Outcomes == {"none", "EOF", "readErr", "parseErr"}

absVars == <<input, delivered, outcome>>

Init ==
    /\ input \in Inputs
    /\ delivered = <<>>
    /\ outcome = "none"

NextDoc == Len(delivered) + 1

(* The caller receives the next document of the file.                      *)
Deliver ==
    /\ outcome = "none"
    /\ NextDoc \in 1..input.n \ input.bad
    /\ delivered' = Append(delivered, NextDoc)
    /\ UNCHANGED <<input, outcome>>

(* The pass ends because the next document of the file does not unmarshal. *)
FailParse ==
    /\ outcome = "none"
    /\ NextDoc \in input.bad
    /\ outcome' = "parseErr"
    /\ UNCHANGED <<input, delivered>>

(* The pass ends with io.EOF.  After a file that did not fail everything   *)
(* has been delivered by then; after a failing read io.EOF may come in     *)
(* place of the error, after any number of documents.                      *)
Finish ==
    /\ outcome = "none"
    /\ input.end = "error" \/ Len(delivered) = input.n
    /\ outcome' = "EOF"
    /\ UNCHANGED <<input, delivered>>

(* The pass ends with the error of the read, after any number of documents.*)
FailRead ==
    /\ outcome = "none"
    /\ input.end = "error"
    /\ outcome' = "readErr"
    /\ UNCHANGED <<input, delivered>>

Next == Deliver \/ FailParse \/ Finish \/ FailRead

Spec == Init /\ [][Next]_absVars

=============================================================================
