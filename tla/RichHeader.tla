------------------------------ MODULE RichHeader ------------------------------
(***************************************************************************)
(* PE::_parse_rich_header: a forward search for the word "Rich" between    *)
(* the start of the file and the PE header, followed by a walk backwards,  *)
(* two words at a time, to the word "DanS".                                *)
(*                                                                         *)
(* The file is a sequence of 32-bit words, as the function only reads at   *)
(* multiples of 4.  "DanS" stands for the word that is the marker once it  *)
(* is XORed with the key that follows "Rich".                              *)
(***************************************************************************)
EXTENDS Integers, Sequences

CONSTANTS
    Word,      \* the words a file is made of: "Rich", "DanS" and others
    MaxWords,  \* bound on the length of the file
    Lfanew     \* the values of e_lfanew

VARIABLES
    file,        \* the words of the file
    lfanew,      \* e_lfanew, as an int
    pc,          \* "search", "key", "back", or "done"
    cursor,      \* the words before the file cursor
    bytes_left,  \* bytes of the search before the PE header
    read,        \* the word read last
    values,      \* the pairs of words collected, in file order
    header       \* _rich_header: none or one [offset, values]

vars == <<file, lfanew, pc, cursor, bytes_left, read, values, header>>

Init ==
    /\ file \in UNION {[1..n -> Word] : n \in 1..MaxWords}
    /\ lfanew \in Lfanew
    /\ pc = "search"
    /\ cursor = 0
    /\ bytes_left = lfanew
    /\ read = "none"
    /\ values = <<>>
    /\ header = <<>>

\* The do ... while loop: a word is read; the search goes on unless it is
\* "Rich" or the PE header is reached.
Search ==
    /\ pc = "search" /\ cursor < Len(file)
    /\ read' = file[cursor + 1]
    /\ cursor' = cursor + 1
    /\ bytes_left' = bytes_left - 4
    /\ pc' = IF read' = "Rich" THEN "key"
             ELSE IF bytes_left' > 0 THEN "search" ELSE "done"
    /\ UNCHANGED <<file, lfanew, values, header>>

\* fread fails at the end of the file: no "Rich" was found.
SearchFails ==
    /\ pc = "search" /\ cursor = Len(file)
    /\ pc' = "done"
    /\ UNCHANGED <<file, lfanew, cursor, bytes_left, read, values, header>>

\* The key is read, if there is one.
ReadKey ==
    /\ pc = "key"
    /\ IF cursor < Len(file)
       THEN cursor' = cursor + 1 /\ pc' = "back"
       ELSE UNCHANGED cursor /\ pc' = "done"
    /\ UNCHANGED <<file, lfanew, bytes_left, read, values, header>>

\* fseek(-16, SEEK_CUR) fails before the start of the file.
SeekFails ==
    /\ pc = "back" /\ cursor < 4
    /\ pc' = "done"
    /\ UNCHANGED <<file, lfanew, cursor, bytes_left, read, values, header>>

\* The cursor after fseek(-16, SEEK_CUR) and the fread of 8 bytes.
Back == cursor - 2

\* Mutant: the pairs are added at the end.
CollectBackwards ==
    /\ pc = "back" /\ cursor >= 4
    /\ file[Back - 1] # "DanS"
    /\ values' = Append(values, <<file[Back - 1], file[Back]>>)
    /\ cursor' = Back
    /\ UNCHANGED <<file, lfanew, pc, bytes_left, read, header>>

Collect ==
    /\ pc = "back" /\ cursor >= 4
    /\ file[Back - 1] # "DanS"
    /\ values' = <<<<file[Back - 1], file[Back]>>>> \o values
    /\ cursor' = Back
    /\ UNCHANGED <<file, lfanew, pc, bytes_left, read, header>>

\* The marker: its offset is kept along with the values.
StartMarker ==
    /\ pc = "back" /\ cursor >= 4
    /\ file[Back - 1] = "DanS"
    /\ cursor' = Back
    /\ header' = <<[offset |-> 4 * Back - 8, values |-> values]>>
    /\ pc' = "done"
    /\ UNCHANGED <<file, lfanew, bytes_left, read, values>>

Returned ==
    /\ pc = "done"
    /\ UNCHANGED vars

Step == Search \/ SearchFails \/ ReadKey \/ SeekFails \/ Collect \/ StartMarker

Next == Step \/ Returned

Spec == Init /\ [][Next]_vars

-------------------------------------------------------------------------------
(* Properties.                                                             *)

\* The types; the file cursor stays within the file (pe.cpp:1081-1142).
TypeOK ==
    /\ pc \in {"search", "key", "back", "done"}
    /\ cursor \in 0..Len(file)
    /\ bytes_left \in Int
    /\ read \in Word \cup {"none"}
    /\ values \in Seq(Word \X Word)
    /\ Len(header) <= 1

\* The places a rich header can end at: the first "Rich" of the file, if it
\* starts before the PE header (the first word is always looked at) and a key
\* follows.
RichAt(w) ==
    /\ file[w] = "Rich"
    /\ \A v \in 1..(w - 1) : file[v] # "Rich"
    /\ w = 1 \/ 4 * (w - 1) < lfanew
    /\ w < Len(file)

\* The start markers that belong to a "Rich" at w: a whole number of pairs
\* before it.
StartsOf(w) == {v \in 1..(w - 2) : (w - v) % 2 = 0 /\ file[v] = "DanS"}

\* The last of them.
LastStartOf(w) == CHOOSE v \in StartsOf(w) : \A u \in StartsOf(w) : u <= v

\* The words between the marker at v and the "Rich" at w, in pairs and in file order.
HeaderBetween(v, w) ==
    [offset |-> 4 * (v - 1),
     values |-> [k \in 1..((w - v) \div 2 - 1) |-> <<file[v + 2 * k], file[v + 2 * k + 1]>>]]

\* A reference definition of the result.
Expected ==
    IF ~\E w \in DOMAIN file : RichAt(w) /\ StartsOf(w) # {}
    THEN <<>>
    ELSE LET w == CHOOSE w \in DOMAIN file : RichAt(w)
         IN  <<HeaderBetween(LastStartOf(w), w)>>

\* When the function returns, the header it has stored is the one that the
\* layout of the file defines: no pair is lost, duplicated or out of order, and
\* the offset is that of the marker (pe.cpp:1081-1142).
RichHeaderIsRight == pc = "done" => header = Expected
===============================================================================
