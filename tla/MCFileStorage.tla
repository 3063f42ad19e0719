--------------------------- MODULE MCFileStorage ---------------------------
(* Instances of FileStorage for TLC: a name without an extension and one   *)
(* that begins with it.                                                    *)
EXTENDS FileStreams, TLC

CONSTANTS report, report_pdf

MCLongerNames == [n \in Names |-> IF n = report THEN {report, report_pdf} ELSE {}]

MCSymmetry == Permutations(Calls)
=============================================================================
