------------------------------ MODULE MCArchive -----------------------------
\* Two films of one package: one made from an original of its own and one they share.
EXTENDS Archive

CONSTANTS f1, f2, own, shared

MCInputs == [f \in {f1, f2} |-> IF f = f1 THEN {own, shared} ELSE {shared}]

\* The film with two targets may be confirmed again.
MCConfirm == [f \in {f1, f2} |-> IF f = f1 THEN 1 ELSE 2]
=============================================================================
