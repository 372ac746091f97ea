--------------------------------- MODULE Tls ----------------------------------
(***************************************************************************)
(* PE::_parse_tls: the TLS directory, then the callbacks up to the null    *)
(* one.  The table of the callbacks has a place of its own in the file.    *)
(***************************************************************************)
EXTENDS Integers, Sequences

CONSTANTS
    TlsEnds,       \* bytes from the start of the directory to the end of the file
    CallbackEnds   \* bytes from the start of the callbacks to the end of the file

VARIABLES
    pc,         \* "directory", "callbacks", or "done"
    width,      \* of an address: 4, or 8 in a PE32+
    end,        \* bytes of the table that is read that are in the file
    callbacks,  \* the number of tls.Callbacks, a local
    tls         \* _tls: none, or the number of its callbacks

vars == <<pc, width, end, callbacks, tls>>

Init ==
    /\ pc = "directory"
    /\ width \in {4, 8}
    /\ end \in TlsEnds
    /\ callbacks = 0 /\ tls = <<>>

DirectorySize == 4 * width + 8

\* The directory is read as a whole and the table of the callbacks is reached.
ReadDirectory ==
    /\ pc = "directory" /\ end >= DirectorySize
    /\ end' \in CallbackEnds
    /\ pc' = "callbacks"
    /\ UNCHANGED <<width, callbacks, tls>>

\* The file ends within the directory, or the table of the callbacks has no place
\* in the file: the file has no TLS information.
DirectoryFails ==
    /\ pc = "directory"
    /\ pc' = "done"
    /\ UNCHANGED <<width, end, callbacks, tls>>

ReadCallback ==
    /\ pc = "callbacks" /\ width * (callbacks + 1) <= end
    /\ callbacks' = callbacks + 1
    /\ UNCHANGED <<pc, width, end, tls>>

\* The null callback, or the end of the file: the directory is published.
EndCallbacks ==
    /\ pc = "callbacks"
    /\ tls' = <<callbacks>>
    /\ pc' = "done"
    /\ UNCHANGED <<width, end, callbacks>>

Step == ReadDirectory \/ DirectoryFails \/ ReadCallback \/ EndCallbacks

-------------------------------------------------------------------------------
(* Properties.                                                             *)

\* The types; the callbacks fit in the file (pe.cpp:830-882).
TypeOK ==
    /\ pc \in {"directory", "callbacks", "done"}
    /\ width * callbacks <= end
    /\ tls # <<>> => pc = "done" /\ tls = <<callbacks>>
===============================================================================
