----------------------------- MODULE MCKebabScan -----------------------------
(***************************************************************************)
(* The two loops of the code.                                              *)
(***************************************************************************)
EXTENDS KebabScan

RequireCode == [separators |-> {"-"}, lengthFirst |-> FALSE]
IsValidTypeName == [separators |-> {".", "-"}, lengthFirst |-> TRUE]

MCLoops == {RequireCode, IsValidTypeName}
=============================================================================
