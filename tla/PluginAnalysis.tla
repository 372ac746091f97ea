---------------------------- MODULE PluginAnalysis ----------------------------
(***************************************************************************)
(* The analysis of one valid PE: perform_analysis() in src/main.cpp, the   *)
(* threads that handle_plugins_option() starts, and the stdio handle of    *)
(* the PE that the main thread and all plugin threads share.               *)
(*                                                                         *)
(* Thread 0 is the main thread; thread i \in 1..N runs analyze() of the    *)
(* i-th registered plugin.  A thread reads the file through one of         *)
(* PE::get_raw_bytes, PE::get_overlay_bytes or Section::get_raw_data, each *)
(* an fseek followed by an fread on the same FILE*.  stdio locks the       *)
(* handle for the duration of one call, so the two calls are two steps.    *)
(*                                                                         *)
(* The bytes of the file are abstracted to their offsets: a buffer is      *)
(* described by the offset its bytes come from, how many were read, and    *)
(* the length of the vector (what fread did not fill stays zero).          *)
(***************************************************************************)
EXTENDS Integers, Sequences

CONSTANTS
    N,          \* number of registered plugins
    FileSize,   \* PE::_file_size
    Wrap,       \* 2^32: section offsets and sizes are boost::uint32_t
    Requests,   \* Requests[t]: the reads thread t performs, in order
    HasConf     \* plugins with a section in manalyze.conf

Instance == 1..N
Thread   == 0..N

\* The three ways to read the shared handle.  A "section" read fails on a
\* short count; the two others ignore the count.
Request ==
    [kind : {"raw"}, off : {0}, len : Nat] \cup
    [kind : {"overlay"}, off : Nat, len : Nat] \cup
    [kind : {"section"}, off : 0..(Wrap - 1), len : 0..(Wrap - 1)]

Buffer  == [from : Nat, count : Nat, len : Nat]

ASSUME NAssumption == N \in Nat
ASSUME FileSizeAssumption == FileSize \in Nat
ASSUME WrapAssumption == Wrap \in Nat \ {0}
ASSUME RequestsAssumption == Requests \in [Thread -> Seq(Request)]
ASSUME HasConfAssumption == HasConf \subseteq Instance

VARIABLES
    cursor,      \* the position of the shared FILE*
    sought,      \* sought[t]: t has done the fseek of its next read, not the fread
    got,         \* got[t]: the buffers t's reads have returned so far
    starved,     \* the reads that found no memory: their thread and place in got
    selected,    \* vm["plugins"]: the plugins selected ("all" selects Instance)
    pc,          \* where perform_analysis() is
    it,          \* the plugin the loop over get_plugins() looks at next
    configured,  \* plugins whose set_config() was called
    jobs,        \* the vector of plugin_job, as plugin numbers
    joined,      \* how many jobs the second loop has dealt with
    thread,      \* state of each plugin's std::thread
    future,      \* the shared_future of each plugin
    plugins_node,\* children of the "Plugins" node, as plugin numbers
    aborted      \* std::terminate was called

fileVars   == <<cursor, sought, got, starved>>
mainVars   == <<selected, pc, it, configured, jobs, joined, plugins_node>>
threadVars == <<thread, future>>
vars == <<fileVars, mainVars, threadVars, aborted>>

-------------------------------------------------------------------------------
(* Reading through the shared handle.                                      *)

Smaller(a, b) == IF a < b THEN a ELSE b

\* What fread(ptr, 1, n, handle) returns with the cursor at c.
ReadCount(c, n) == IF c >= FileSize THEN 0 ELSE Smaller(n, FileSize - c)

\* The size get_raw_bytes / get_overlay_bytes clamp to; a section is read whole.
Clamped(r) ==
    IF r.kind = "section" THEN r.len ELSE Smaller(r.len, FileSize - r.off)

EmptyBuffer == [from |-> 0, count |-> 0, len |-> 0]

\* Requests that return before touching the handle: an empty section or one
\* that ends after the file (the sum is taken in 32 bits), an overlay that
\* starts at or after the end of the file.
Refused(r) ==
    \/ r.kind = "section" /\ (r.len = 0 \/ (r.off + r.len) % Wrap > FileSize)
    \/ r.kind = "overlay" /\ (r.len = 0 \/ r.off >= FileSize)

\* Mutant: the count that fread returns is not looked at.
DeliveredUnchecked(r, c) ==
    [from |-> c, count |-> ReadCount(c, Clamped(r)), len |-> Clamped(r)]

\* The buffer a read returns when its fread runs with the cursor at c.
Delivered(r, c) ==
    LET n == ReadCount(c, Clamped(r))
    IN  IF r.kind = "section" /\ n # r.len
        THEN EmptyBuffer
        ELSE [from |-> c, count |-> n, len |-> Clamped(r)]

\* What the documentation of the three functions promises the caller: the
\* bytes of the section, all of them or none; the first bytes of the file; the
\* bytes after the image, if there are any.
Wanted(r) ==
    LET none == \/ r.kind = "section" /\ (r.len = 0 \/ r.off + r.len > FileSize)
                \/ r.kind = "overlay" /\ (r.len = 0 \/ r.off >= FileSize)
    IN  IF none THEN EmptyBuffer
        ELSE [from |-> r.off, count |-> Clamped(r), len |-> Clamped(r)]

Pending(t) == Len(got[t]) < Len(Requests[t])
NextRequest(t) == Requests[t][Len(got[t]) + 1]

\* The threads that may be executing code that reads the file.
MayRead(t) ==
    /\ ~aborted
    /\ IF t = 0 THEN pc = "dump" ELSE thread[t] = "running"

Refuse(t) ==
    /\ MayRead(t) /\ Pending(t) /\ Refused(NextRequest(t))
    /\ got' = [got EXCEPT ![t] = Append(@, EmptyBuffer)]
    /\ UNCHANGED <<cursor, sought, starved, mainVars, threadVars, aborted>>

Seek(t) ==
    /\ MayRead(t) /\ Pending(t) /\ ~Refused(NextRequest(t))
    /\ ~sought[t]
    /\ cursor' = NextRequest(t).off
    /\ sought' = [sought EXCEPT ![t] = TRUE]
    /\ UNCHANGED <<got, starved, mainVars, threadVars, aborted>>

Read(t) ==
    /\ MayRead(t) /\ Pending(t)
    /\ sought[t]
    /\ LET r == NextRequest(t)
       IN  /\ got' = [got EXCEPT ![t] = Append(@, Delivered(r, cursor))]
           /\ cursor' = cursor + ReadCount(cursor, Clamped(r))
    /\ sought' = [sought EXCEPT ![t] = FALSE]
    /\ UNCHANGED <<starved, mainVars, threadVars, aborted>>

\* There is no memory for the bytes of a section: get_raw_data catches that and
\* returns an empty vector, with the cursor where fseek has moved it.
AllocationFails(t) ==
    /\ MayRead(t) /\ Pending(t)
    /\ sought[t] /\ NextRequest(t).kind = "section"
    /\ got' = [got EXCEPT ![t] = Append(@, EmptyBuffer)]
    /\ starved' = starved \cup {<<t, Len(got[t]) + 1>>}
    /\ sought' = [sought EXCEPT ![t] = FALSE]
    /\ UNCHANGED <<cursor, mainVars, threadVars, aborted>>

-------------------------------------------------------------------------------
(* The plugin threads.                                                     *)

Outcome == {"null", "empty", "info"}

\* analyze() returned and r.set_value() made the result visible.
SetValue(i) ==
    /\ ~aborted
    /\ thread[i] = "running" /\ ~Pending(i)
    /\ future[i] = "unset"
    /\ \E o \in Outcome : future' = [future EXCEPT ![i] = o]
    /\ UNCHANGED <<fileVars, mainVars, thread, aborted>>

\* The thread function returns.
Exit(i) ==
    /\ ~aborted
    /\ thread[i] = "running" /\ future[i] # "unset"
    /\ thread' = [thread EXCEPT ![i] = "exited"]
    /\ UNCHANGED <<fileVars, mainVars, future, aborted>>

\* analyze() throws; nothing on the thread's stack catches.
Throw(i) ==
    /\ ~aborted
    /\ thread[i] = "running" /\ future[i] = "unset"
    /\ aborted' = TRUE
    /\ UNCHANGED <<fileVars, mainVars, threadVars>>

-------------------------------------------------------------------------------
(* The main thread: dump, then the two loops of handle_plugins_option().   *)

\* dump_sections and dump_hashes read the file before any plugin runs.
EndDump ==
    /\ ~aborted
    /\ pc = "dump" /\ ~Pending(0)
    /\ pc' = "start"
    /\ UNCHANGED <<fileVars, selected, it, configured, jobs, joined,
                   plugins_node, threadVars, aborted>>

\* Mutant: the loop over the plugins goes one too far.
SkipPluginPastEnd ==
    /\ ~aborted
    /\ pc = "start" /\ it <= N + 1
    /\ it \notin selected
    /\ it' = it + 1
    /\ UNCHANGED <<fileVars, selected, pc, configured, jobs, joined,
                   plugins_node, threadVars, aborted>>

\* Mutant: a plugin that was not selected is looked at again and again.
SkipPluginStuck ==
    /\ ~aborted
    /\ pc = "start" /\ it <= N
    /\ it \notin selected
    /\ UNCHANGED vars

SkipPlugin ==
    /\ ~aborted
    /\ pc = "start" /\ it <= N
    /\ it \notin selected
    /\ it' = it + 1
    /\ UNCHANGED <<fileVars, selected, pc, configured, jobs, joined,
                   plugins_node, threadVars, aborted>>

\* Mutant: the plugin is started without looking at the selection.
StartPluginUnselected ==
    /\ ~aborted
    /\ pc = "start" /\ it <= N
    /\ configured' = IF it \in HasConf THEN configured \cup {it} ELSE configured
    /\ thread' = [thread EXCEPT ![it] = "running"]
    /\ jobs' = Append(jobs, it)
    /\ it' = it + 1
    /\ UNCHANGED <<fileVars, selected, pc, joined, plugins_node, future, aborted>>

StartPlugin ==
    /\ ~aborted
    /\ pc = "start" /\ it <= N
    /\ it \in selected
    /\ configured' = IF it \in HasConf THEN configured \cup {it} ELSE configured
    /\ thread' = [thread EXCEPT ![it] = "running"]
    /\ jobs' = Append(jobs, it)
    /\ it' = it + 1
    /\ UNCHANGED <<fileVars, selected, pc, joined, plugins_node, future, aborted>>

\* The std::thread constructor throws std::system_error out of main().
StartFails ==
    /\ ~aborted
    /\ pc = "start" /\ it \in selected
    /\ aborted' = TRUE
    /\ UNCHANGED <<fileVars, mainVars, threadVars>>

EndStart ==
    /\ ~aborted
    /\ pc = "start" /\ it > N
    /\ pc' = "join"
    /\ UNCHANGED <<fileVars, selected, it, configured, jobs, joined,
                   plugins_node, threadVars, aborted>>

\* Mutant: results are collected as the threads finish.
JoinAnyFinished ==
    /\ ~aborted
    /\ pc = "join" /\ joined < Len(jobs)
    /\ \E l \in DOMAIN jobs :
           /\ thread[jobs[l]] = "exited"
           /\ plugins_node' = IF future[jobs[l]] = "info"
                              THEN Append(plugins_node, jobs[l])
                              ELSE plugins_node
    /\ joined' = joined + 1
    /\ UNCHANGED <<fileVars, selected, pc, it, configured, jobs, threadVars, aborted>>

\* join(), get(), and the output appended unless the result is NULL or empty.
JoinPlugin ==
    /\ ~aborted
    /\ pc = "join" /\ joined < Len(jobs)
    /\ LET i == jobs[joined + 1]
       IN  /\ thread[i] = "exited"
           /\ plugins_node' = IF future[i] = "info"
                              THEN Append(plugins_node, i)
                              ELSE plugins_node
    /\ joined' = joined + 1
    /\ UNCHANGED <<fileVars, selected, pc, it, configured, jobs, threadVars, aborted>>

\* Mutant: the node is published without joining the threads.
AddDataUnjoined ==
    /\ ~aborted
    /\ pc = "join"
    /\ pc' = "returned"
    /\ UNCHANGED <<fileVars, selected, it, configured, jobs, joined,
                   plugins_node, threadVars, aborted>>

\* formatter.add_data(plugins_node, path); the PE is destroyed on return.
AddData ==
    /\ ~aborted
    /\ pc = "join" /\ joined = Len(jobs)
    /\ pc' = "returned"
    /\ UNCHANGED <<fileVars, selected, it, configured, jobs, joined,
                   plugins_node, threadVars, aborted>>

-------------------------------------------------------------------------------

Init ==
    /\ cursor \in 0..FileSize        \* wherever the parser left it
    /\ sought = [t \in Thread |-> FALSE]
    /\ got = [t \in Thread |-> <<>>]
    /\ starved = {}
    /\ selected \in SUBSET Instance
    /\ pc = "dump"
    /\ it = 1
    /\ configured = {}
    /\ jobs = <<>>
    /\ joined = 0
    /\ thread = [i \in Instance |-> "none"]
    /\ future = [i \in Instance |-> "unset"]
    /\ plugins_node = <<>>
    /\ aborted = FALSE

ThreadStep(t) == Refuse(t) \/ Seek(t) \/ Read(t) \/ AllocationFails(t)

PluginStep(i) == ThreadStep(i) \/ SetValue(i) \/ Exit(i)

MainStep ==
    ThreadStep(0) \/ EndDump \/ SkipPlugin \/ StartPlugin \/ EndStart
                  \/ JoinPlugin \/ AddData

\* perform_analysis() has returned, or the process is gone.
Finished ==
    /\ aborted \/ pc = "returned"
    /\ UNCHANGED vars

Next ==
    \/ MainStep
    \/ StartFails
    \/ \E i \in Instance : PluginStep(i) \/ Throw(i)
    \/ Finished

Spec == Init /\ [][Next]_vars

\* The operating system schedules every thread, and every analyze() returns.
Fairness == WF_vars(MainStep) /\ \A i \in Instance : WF_vars(PluginStep(i))

FairSpec == Spec /\ Fairness

-------------------------------------------------------------------------------
(* Properties.                                                             *)

\* The types: the iterators of handle_plugins_option stay within its lists, and
\* a thread only ever gets whole buffers (main.cpp:350-401, pe.cpp:98-156).
TypeOK ==
    /\ cursor \in Nat
    /\ sought \in [Thread -> BOOLEAN]
    /\ got \in [Thread -> Seq(Buffer)]
    /\ starved \subseteq Thread \X Nat
    /\ selected \in SUBSET Instance
    /\ pc \in {"dump", "start", "join", "returned"}
    /\ it \in 1..(N + 1)
    /\ configured \in SUBSET Instance
    /\ jobs \in Seq(Instance)
    /\ joined \in Nat
    /\ thread \in [Instance -> {"none", "running", "exited"}]
    /\ future \in [Instance -> Outcome \cup {"unset"}]
    /\ plugins_node \in Seq(Instance)
    /\ aborted \in BOOLEAN

\* Every buffer returned by get_raw_bytes, get_overlay_bytes or get_raw_data
\* holds the bytes its caller asked for, or none if there was no memory for them
\* (section.h:73-74), whatever the other threads do with the handle they all
\* share (pe.cpp:98-156, section.cpp:69-107).
BytesAreRight ==
    \A t \in Thread : \A k \in DOMAIN got[t] :
        got[t][k] = IF <<t, k>> \in starved THEN EmptyBuffer ELSE Wanted(Requests[t][k])

\* At most one of the selected plugins reads the shared handle.
SoleReader ==
    \A i, j \in selected : Requests[i] # <<>> /\ Requests[j] # <<>> => i = j

\* With a single reader among the selected plugins, every buffer is right: the
\* main thread's own reads are over before the first thread starts, and the
\* section bound check that wraps at 2^32 is made good by the count check.
SoleReaderBytesAreRight == SoleReader => BytesAreRight

\* The "Plugins" node holds, at every moment, the output of exactly those
\* joined plugins that found something, in registration order: neither the
\* order in which threads finish nor a NULL result shifts or drops an entry.
ReportInRegistrationOrder ==
    /\ \A k \in DOMAIN plugins_node :
           \E l \in 1..joined : /\ plugins_node[k] = jobs[l]
                                /\ future[jobs[l]] = "info"
    /\ \A l \in 1..joined :
           future[jobs[l]] = "info" =>
               \E k \in DOMAIN plugins_node : plugins_node[k] = jobs[l]
    /\ \A k, l \in DOMAIN plugins_node :
           k < l => plugins_node[k] < plugins_node[l]

\* When perform_analysis() returns and its PE is destroyed, no plugin thread
\* is left that still holds the raw pointer to that PE (main.cpp:376-385).
NoThreadOutlivesPE ==
    pc = "returned" => \A i \in Instance : thread[i] # "running"

\* Unless a plugin throws, the analysis of the file comes to an end.
AnalysisEnds == <>(aborted \/ pc = "returned")

\* Refinement: seen from the report, the threads do not exist.
Report == INSTANCE PluginReport WITH
              outcome <- future,
              node    <- IF pc = "returned" THEN plugins_node ELSE <<>>,
              status  <- IF aborted THEN "aborted"
                         ELSE IF pc = "returned" THEN "published" ELSE "running"

\* Whatever the schedule of the plugin threads, handle_plugins_option publishes
\* the report that running the selected plugins one by one would have given.
ImplementsReport == Report!Spec
===============================================================================
