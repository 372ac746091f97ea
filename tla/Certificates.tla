----------------------------- MODULE Certificates -----------------------------
(***************************************************************************)
(* PE::_parse_certificates: the loop over the WIN_CERTIFICATE entries of   *)
(* the security directory.  An entry starts with its length; entries are   *)
(* padded to a multiple of 8 bytes in the file.                            *)
(*                                                                         *)
(* What the file contains is whatever a read returns: a Length may be any  *)
(* 32-bit number.                                                          *)
(***************************************************************************)
EXTENDS FileBounds

HeaderSize == 8   \* Length, Revision and CertificateType
Alignment  == 8

VARIABLES
    table,      \* the Size of the directory
    pc,         \* "header", "data", or how the function returned
    left,       \* bytes between the file cursor and the end of the file
    remaining,  \* remaining_bytes
    len,        \* Length of the certificate being read
    certs       \* _certificates: the length of each

vars == <<table, pc, left, remaining, len, certs>>

Init ==
    /\ pc = "header"
    /\ left = Available
    /\ table \in TableSize
    /\ remaining = table
    /\ len = 0
    /\ certs = <<>>

\* while (remaining_bytes > header_size)
More == remaining > HeaderSize

\* The header is read and the vector for the data resized.
ReadHeader ==
    /\ pc = "header" /\ More
    /\ left >= HeaderSize
    /\ left' = left - HeaderSize
    /\ len' \in 0..(Wrap - 1)
    /\ pc' = "data"
    /\ UNCHANGED <<table, remaining, certs>>

\* The end of the file, or a header of which neither the type nor the revision
\* is known: recoverable, the function returns true.
GiveUp ==
    /\ pc = "header" /\ More
    /\ left' = IF left < HeaderSize THEN 0 ELSE left - HeaderSize
    /\ pc' = "done"
    /\ UNCHANGED <<table, remaining, len, certs>>

\* Certificate.resize(Length) throws.
AllocationFails ==
    /\ pc = "data"
    /\ pc' = "failed"
    /\ UNCHANGED <<table, left, remaining, len, certs>>

\* Mutant: the header is subtracted twice.
DataSizeShort == (len - 2 * HeaderSize) % Wrap

\* The number of bytes of data to read, in 32 bits.
DataSize == (len - HeaderSize) % Wrap

\* Mutant: a certificate shorter than the rest of the table is accepted.
RejectedTooLong == DataSize > left

\* The data is only read when the certificate is not shorter than the rest of
\* the table.
Rejected == len < remaining \/ DataSize > left

DataFails ==
    /\ pc = "data" /\ Rejected
    /\ left' = IF len < remaining THEN left ELSE 0
    /\ pc' = "failed"
    /\ UNCHANGED <<table, remaining, len, certs>>

Padding == len % Alignment

\* The certificate is kept, and the padding skipped unless the table ends here.
ReadData ==
    /\ pc = "data" /\ ~Rejected
    /\ certs' = Append(certs, len)
    /\ LET rest == (remaining - len) % Wrap
           rem  == left - DataSize
       IN  IF Padding # 0 /\ rest # 0
           THEN /\ remaining' = (rest - Padding) % Wrap
                /\ left' = IF rem < Padding THEN 0 ELSE rem - Padding
           ELSE /\ remaining' = rest
                /\ left' = rem
    /\ pc' = "header"
    /\ UNCHANGED <<table, len>>

EndTable ==
    /\ pc = "header" /\ ~More
    /\ pc' = "done"
    /\ UNCHANGED <<table, left, remaining, len, certs>>

Returned ==
    /\ pc \in {"done", "failed"}
    /\ UNCHANGED vars

Step == ReadHeader \/ GiveUp \/ AllocationFails \/ DataFails \/ ReadData \/ EndTable

Next == Step \/ Returned

Spec == Init /\ [][Next]_vars

-------------------------------------------------------------------------------
(* Properties.                                                             *)

\* The types: remaining_bytes stays a 32-bit number although it is decremented
\* unchecked, and no kept certificate is shorter than its own header
\* (pe.cpp:1017-1073).
TypeOK ==
    /\ table \in TableSize
    /\ pc \in {"header", "data", "done", "failed"}
    /\ left \in 0..Available
    /\ remaining \in 0..(Wrap - 1)
    /\ len \in 0..(Wrap - 1)
    /\ certs \in Seq(HeaderSize..(Wrap - 1))

\* A file of less than 4 GB.
SmallFile == Available <= Wrap - Alignment

\* Of a file of less than 4 GB at most one certificate is ever read: a shorter
\* one than the table is an error, and after a longer one remaining_bytes has
\* wrapped to a number that no later Length reaches (pe.cpp:1057-1073).
OneCertificate == SmallFile => Len(certs) <= 1

\* The certificate that is kept lies within the file: its data was read in
\* full, whatever the directory says about the size of the table.
WithinFile == SmallFile /\ certs # <<>> => certs[1] <= Available

\* A certificate that lies within the table and within the file is read, so
\* that the next one can be looked for at the next aligned address
\* (pe.cpp:1067-1073).
FittingCertificateIsRead ==
    pc = "data" /\ len \in HeaderSize..remaining /\ DataSize <= left => ~Rejected
===============================================================================
