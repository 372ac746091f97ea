------------------------------ MODULE MCManalyze ------------------------------
(* Small instances of Manalyze for TLC.                                     *)
EXTENDS Manalyze

MCCategory == <<"Summary", "Sections">>
MCStaticId == <<"s">>
===============================================================================
