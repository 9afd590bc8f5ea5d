------------------------------- MODULE MCPage -------------------------------
(* Two filters, one of which matches more rows than a batch takes. *)
EXTENDS Page

CONSTANTS few, many

MCFilters == {few, many}
MCMatches == [f \in MCFilters |-> IF f = few THEN {1} ELSE {1, 2}]
=============================================================================
