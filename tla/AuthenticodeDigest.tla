-------------------------- MODULE AuthenticodeDigest --------------------------
(***************************************************************************)
(* get_authenticode_hash: the file, opened once more, is hashed up to its  *)
(* certificate, without the two fields that signing changes.  It is called *)
(* for a file whose certificate has been read, so that the headers and the *)
(* bytes before the certificate were there.                                *)
(***************************************************************************)
EXTENDS Integers, Sequences, FiniteSets

CONSTANTS
    HeaderOffsets,     \* e_lfanew
    SecurityOffsets,   \* where the certificate is
    Chunk              \* 4096: the most that is read at once

VARIABLES
    pc,          \* the part that is hashed next, or "done"
    lfanew,      \* e_lfanew
    x64,         \* the file is a PE32+
    security,    \* VirtualAddress of the SECURITY directory, a file offset
    cursor,      \* the cursor of the handle
    remaining,   \* bytes up to the certificate
    hashed,      \* what the hash was given: ranges of the file, joined where they meet
    handles      \* handles that are open

vars == <<pc, lfanew, x64, security, cursor, remaining, hashed, handles>>

Init ==
    /\ pc = "start"
    /\ lfanew \in HeaderOffsets /\ x64 \in BOOLEAN /\ security \in SecurityOffsets
    /\ cursor = 0 /\ remaining = 0
    /\ hashed = <<>> /\ handles = 0

OptionalHeader == lfanew + 24

\* n bytes are read at the cursor and given to the hash.
Add(n) ==
    IF hashed # <<>> /\ hashed[Len(hashed)].end = cursor
    THEN [hashed EXCEPT ![Len(hashed)].end = cursor + n]
    ELSE Append(hashed, [first |-> cursor, end |-> cursor + n])

\* The algorithm of the certificate is not known: there is nothing to compare.
Unsupported ==
    /\ pc = "start"
    /\ pc' = "done"
    /\ UNCHANGED <<lfanew, x64, security, cursor, remaining, hashed, handles>>

\* Everything up to the checksum, which is skipped.
HashToChecksum ==
    /\ pc = "start"
    /\ LET size == OptionalHeader + 64
       IN  hashed' = Add(size) /\ cursor' = cursor + size + 4
    /\ handles' = 1
    /\ pc' = "security"
    /\ UNCHANGED <<lfanew, x64, security, remaining>>

\* Mutant: the longer header of a PE32+ is not considered.
HashToSecurityPE32 ==
    /\ pc = "security"
    /\ hashed' = Add(60) /\ cursor' = cursor + 60 + 8
    /\ pc' = "compare"
    /\ UNCHANGED <<lfanew, x64, security, remaining, handles>>

\* Everything up to the entry of the SECURITY directory, which is skipped.
HashToSecurity ==
    /\ pc = "security"
    /\ LET size == 60 + (IF x64 THEN 16 ELSE 0)
       IN  hashed' = Add(size) /\ cursor' = cursor + size + 8
    /\ pc' = "compare"
    /\ UNCHANGED <<lfanew, x64, security, remaining, handles>>

\* The certificate is in the header: what has been hashed so far is returned, and
\* the file is not closed.
CertificateInHeader ==
    /\ pc = "compare" /\ security < cursor
    /\ pc' = "done"
    /\ UNCHANGED <<lfanew, x64, security, cursor, remaining, hashed, handles>>

StartRest ==
    /\ pc = "compare" /\ security >= cursor
    /\ remaining' = security - cursor
    /\ pc' = "rest"
    /\ UNCHANGED <<lfanew, x64, security, cursor, hashed, handles>>

\* Mutant: the whole chunk is counted, whatever was read.
HashChunkWhole ==
    /\ pc = "rest" /\ remaining > 0
    /\ LET chunk == IF remaining < Chunk THEN remaining ELSE Chunk
       IN  \E n \in 1..chunk :
               hashed' = Add(n) /\ cursor' = cursor + n /\ remaining' = remaining - chunk
    /\ UNCHANGED <<pc, lfanew, x64, security, handles>>

\* A chunk, or as much of it as the read returns.
HashChunk ==
    /\ pc = "rest" /\ remaining > 0
    /\ \E n \in 1..(IF remaining < Chunk THEN remaining ELSE Chunk) :
           hashed' = Add(n) /\ cursor' = cursor + n /\ remaining' = remaining - n
    /\ UNCHANGED <<pc, lfanew, x64, security, handles>>

\* A read returns nothing: the file has become shorter, or cannot be read.
ReadFails ==
    /\ pc = "rest" /\ remaining > 0
    /\ handles' = 0
    /\ pc' = "done"
    /\ UNCHANGED <<lfanew, x64, security, cursor, remaining, hashed>>

EndRest ==
    /\ pc = "rest" /\ remaining = 0
    /\ handles' = 0
    /\ pc' = "done"
    /\ UNCHANGED <<lfanew, x64, security, cursor, remaining, hashed>>

Step ==
    \/ Unsupported \/ HashToChecksum \/ HashToSecurity
    \/ CertificateInHeader \/ StartRest \/ HashChunk \/ ReadFails \/ EndRest

-------------------------------------------------------------------------------
(* Properties.                                                             *)

\* The types (pe_authenticode_digest.cpp:22-89).
TypeOK ==
    /\ pc \in {"start", "security", "compare", "rest", "done"}
    /\ cursor \in Nat /\ remaining \in Nat
    /\ handles \in 0..1

\* The Checksum and the fifth entry of the directories, by the layout of a PE32
\* and of a PE32+.
Excluded ==
    LET entry == OptionalHeader + (IF x64 THEN 112 ELSE 96) + 4 * 8
    IN  (OptionalHeader + 64)..(OptionalHeader + 67) \cup entry..(entry + 7)

\* The directories up to SECURITY end here.
HeaderEnd == OptionalHeader + (IF x64 THEN 112 ELSE 96) + 5 * 8

\* Every byte before the certificate is hashed once, in the order of the file,
\* but for the Checksum and the entry of the SECURITY directory, and nothing of
\* the certificate is, wherever the certificate and the headers are and however
\* the reads are cut; the handle is closed unless the certificate is in the
\* headers (pe_authenticode_digest.cpp:41-84).
DigestCoversFile ==
    /\ pc = "done" /\ remaining = 0 /\ hashed # <<>> /\ security >= HeaderEnd =>
           \A b \in 0..(hashed[Len(hashed)].end + security) :
               Cardinality({k \in DOMAIN hashed : b \in hashed[k].first..(hashed[k].end - 1)})
                   = IF b < security /\ b \notin Excluded THEN 1 ELSE 0
    /\ \A k \in 1..(Len(hashed) - 1) : hashed[k].end < hashed[k + 1].first
    /\ pc = "done" /\ handles # 0 => security < HeaderEnd
===============================================================================
