------------------------------ MODULE FileBounds ------------------------------
(***************************************************************************)
(* What the parsers of the tables of a PE know of their input: the file    *)
(* ends somewhere, and the sizes in it are claims that may be wrong.       *)
(***************************************************************************)
EXTENDS Integers, Sequences

CONSTANTS
    Wrap,       \* 2^32: sizes are unsigned int
    TableSize,  \* what the Size of a data directory may be
    Available   \* bytes between the start of a table and the end of the file

ASSUME WrapAssumption == Wrap \in Nat /\ Wrap > 8
ASSUME TableAssumption == TableSize \subseteq 0..(Wrap - 1)
ASSUME AvailableAssumption == Available \in Nat
===============================================================================
