----------------------------- MODULE MCFileReport -----------------------------
(* Two lists, the version info and one plugin with up to two results, all of  *)
(* which share a bound on the nodes.                                          *)
EXTENDS FileReport

MCCategories == <<"Sections", "Imports">>
\* "a" and "a (#2)".
MCEntryName == {Plain("a"), [base |-> "a", index |-> 0, dup |-> <<2>>]}
===============================================================================
