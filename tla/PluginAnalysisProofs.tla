------------------------- MODULE PluginAnalysisProofs -------------------------
(***************************************************************************)
(* Proofs about PluginAnalysis, for every number of plugins, every file    *)
(* size and every list of reads.                                           *)
(***************************************************************************)
EXTENDS PluginAnalysis, FiniteSetTheorems, TLAPS

USE NAssumption, FileSizeAssumption, WrapAssumption, RequestsAssumption,
    HasConfAssumption

\* A request is a record with a kind and two natural numbers.
LEMMA RequestFields ==
    ASSUME NEW r \in Request
    PROVE  /\ r.kind \in {"raw", "overlay", "section"}
           /\ r.off \in Nat
           /\ r.len \in Nat
           /\ r.kind = "raw" => r.off = 0
  BY DEF Request

\* The next request of a thread that has one is one of its requests.
LEMMA NextRequestType ==
    ASSUME TypeOK, NEW t \in Thread, Pending(t)
    PROVE  /\ NextRequest(t) \in Request
           /\ Len(got[t]) + 1 \in DOMAIN Requests[t]
  BY DEF TypeOK, Pending, NextRequest

\* What one read delivers is a buffer, and it moves the cursor forward.
LEMMA ReadTypes ==
    ASSUME NEW r \in Request, NEW c \in Nat, ~Refused(r)
    PROVE  /\ Clamped(r) \in Nat
           /\ ReadCount(c, Clamped(r)) \in Nat
           /\ Delivered(r, c) \in Buffer
  <1>1. Clamped(r) \in Nat
    BY RequestFields DEF Clamped, Smaller, Refused
  <1>2. ReadCount(c, Clamped(r)) \in Nat
    BY <1>1 DEF ReadCount, Smaller
  <1> QED
    BY <1>1, <1>2 DEF Delivered, Buffer, EmptyBuffer

\* When nobody moved the cursor between the fseek and the fread, the read
\* delivers what was asked for.  The section check that wraps at 2^32 lets
\* some sections through that end after the file: the count check stops them.
LEMMA UndisturbedRead ==
    ASSUME NEW r \in Request, ~Refused(r)
    PROVE  Delivered(r, r.off) = Wanted(r)
  <1> USE RequestFields
  <1>1. CASE r.kind = "section"
    <2>1. Clamped(r) = r.len
      BY <1>1 DEF Clamped
    <2>2. r.len # 0
      BY <1>1 DEF Refused
    <2>3. CASE r.off + r.len > FileSize
      <3>1. ReadCount(r.off, r.len) # r.len
        BY <2>2, <2>3 DEF ReadCount, Smaller
      <3> QED
        BY <1>1, <2>1, <2>3, <3>1 DEF Delivered, Wanted
    <2>4. CASE ~(r.off + r.len > FileSize)
      <3>1. ReadCount(r.off, r.len) = r.len
        BY <2>2, <2>4 DEF ReadCount, Smaller
      <3> QED
        BY <1>1, <2>1, <2>2, <2>4, <3>1 DEF Delivered, Wanted
    <2> QED
      BY <2>3, <2>4
  <1>2. CASE r.kind = "overlay"
    <2>1. r.len # 0 /\ r.off < FileSize
      BY <1>2 DEF Refused
    <2>2. ReadCount(r.off, Clamped(r)) = Clamped(r)
      BY <1>2, <2>1 DEF ReadCount, Clamped, Smaller
    <2> QED
      BY <1>2, <2>1, <2>2 DEF Delivered, Wanted
  <1>3. CASE r.kind = "raw"
    <2>1. ReadCount(r.off, Clamped(r)) = Clamped(r)
      BY <1>3 DEF ReadCount, Clamped, Smaller
    <2> QED
      BY <1>3, <2>1 DEF Delivered, Wanted
  <1> QED
    BY <1>1, <1>2, <1>3

\* The 32-bit sum of offset and size never exceeds the real sum.
LEMMA ModBound ==
    ASSUME NEW a \in Nat, NEW m \in Nat \ {0}
    PROVE  a % m <= a /\ a % m \in Nat
  OBVIOUS

\* A request that is refused is one for which the caller is promised nothing.
LEMMA RefusedRead ==
    ASSUME NEW r \in Request, Refused(r)
    PROVE  Wanted(r) = EmptyBuffer
  <1>1. CASE r.kind = "section" /\ r.len # 0
    <2>1. r.off + r.len \in Nat
      BY RequestFields
    <2>2. (r.off + r.len) % Wrap <= r.off + r.len /\ (r.off + r.len) % Wrap \in Nat
      BY <2>1, ModBound
    <2>3. (r.off + r.len) % Wrap > FileSize
      BY <1>1 DEF Refused
    <2>4. r.off + r.len > FileSize
      BY <2>1, <2>2, <2>3
    <2> QED
      BY <1>1, <2>4 DEF Wanted
  <1>2. CASE ~(r.kind = "section" /\ r.len # 0)
    BY <1>2 DEF Refused, Wanted
  <1> QED
    BY <1>1, <1>2

-------------------------------------------------------------------------------
(* Type correctness.  The length of a clamped read is only a natural number *)
(* for a request that was not refused, so the type invariant needs to know  *)
(* that an fseek is never followed by the fread of a refused request.       *)

SoughtInv ==
    \A t \in Thread : sought[t] => Pending(t) /\ ~Refused(NextRequest(t))

\* When perform_analysis starts, the state is well typed and no thread is
\* between its fseek and its fread.
LEMMA InitTypes == Init => TypeOK /\ SoughtInv
  <1> SUFFICES ASSUME Init PROVE TypeOK /\ SoughtInv
    OBVIOUS
  <1>1. SoughtInv
    BY DEF Init, SoughtInv
  <1>2. /\ cursor \in Nat
        /\ sought \in [Thread -> BOOLEAN]
        /\ got \in [Thread -> Seq(Buffer)] /\ starved \subseteq Thread \X Nat
        /\ jobs \in Seq(Instance)
        /\ plugins_node \in Seq(Instance)
        /\ joined \in Nat
    BY DEF Init
  <1>3. /\ selected \in SUBSET Instance
        /\ pc \in {"dump", "start", "join", "returned"}
        /\ it \in 1..(N + 1)
        /\ configured \in SUBSET Instance
    BY DEF Init
  <1>4. /\ thread \in [Instance -> {"none", "running", "exited"}]
        /\ future \in [Instance -> Outcome \cup {"unset"}]
    BY DEF Init
  <1>5. aborted \in BOOLEAN
    BY DEF Init
  <1> QED
    BY <1>1, <1>2, <1>3, <1>4, <1>5 DEF TypeOK

\* Every step of the main thread or of a plugin thread keeps the types, and a
\* thread between fseek and fread has a request that was not refused.
LEMMA NextTypes == TypeOK /\ SoughtInv /\ [Next]_vars => TypeOK' /\ SoughtInv'
  <1> SUFFICES ASSUME TypeOK, SoughtInv, [Next]_vars
               PROVE  TypeOK' /\ SoughtInv'
    OBVIOUS
  <1>0. Instance \subseteq Thread /\ 0 \in Thread
    BY DEF Instance, Thread
  <1>1. ASSUME NEW t \in Thread, ThreadStep(t)
        PROVE  TypeOK' /\ SoughtInv'
    <2>1. CASE Refuse(t)
      <3>1. got' \in [Thread -> Seq(Buffer)]
        BY <2>1 DEF Refuse, TypeOK, Buffer, EmptyBuffer
      <3>2. ~sought[t]
        BY <2>1 DEF Refuse, SoughtInv
      <3>3. SoughtInv'
        BY <2>1, <3>2 DEF Refuse, SoughtInv, Pending, NextRequest, TypeOK
      <3> QED
        BY <2>1, <3>1, <3>3 DEF Refuse, TypeOK, mainVars, threadVars
    <2>2. CASE Seek(t)
      <3>1. NextRequest(t) \in Request
        BY <2>2, NextRequestType DEF Seek
      <3>2. SoughtInv'
        BY <2>2 DEF Seek, SoughtInv, Pending, NextRequest, TypeOK
      <3> QED
        BY <2>2, <3>1, <3>2, RequestFields DEF Seek, TypeOK, mainVars, threadVars
    <2>3. CASE Read(t)
      <3> DEFINE r == NextRequest(t)
      <3>1. r \in Request /\ ~Refused(r)
        BY <2>3, NextRequestType DEF Read, SoughtInv
      <3>2. cursor' \in Nat
        <4>1. cursor \in Nat
          BY DEF TypeOK
        <4>2. ReadCount(cursor, Clamped(r)) \in Nat
          BY <3>1, <4>1, ReadTypes
        <4>3. cursor' = cursor + ReadCount(cursor, Clamped(r))
          BY <2>3 DEF Read
        <4> QED
          BY <4>1, <4>2, <4>3
      <3>3. Delivered(r, cursor) \in Buffer
        BY <3>1, ReadTypes DEF TypeOK
      <3>4. got' \in [Thread -> Seq(Buffer)]
        BY <2>3, <3>3 DEF Read, TypeOK
      <3>5. SoughtInv'
        BY <2>3 DEF Read, SoughtInv, Pending, NextRequest, TypeOK
      <3> QED
        BY <2>3, <3>2, <3>4, <3>5 DEF Read, TypeOK, mainVars, threadVars
    <2>4. CASE AllocationFails(t)
      <3>1. got' \in [Thread -> Seq(Buffer)]
        BY <2>4 DEF AllocationFails, TypeOK, Buffer, EmptyBuffer
      <3>2. starved' \subseteq Thread \X Nat
        <4>1. Len(got[t]) + 1 \in Nat
          BY DEF TypeOK
        <4> QED
          BY <2>4, <4>1 DEF AllocationFails, TypeOK
      <3>3. SoughtInv'
        BY <2>4 DEF AllocationFails, SoughtInv, Pending, NextRequest, TypeOK
      <3> QED
        BY <2>4, <3>1, <3>2, <3>3 DEF AllocationFails, TypeOK, mainVars, threadVars
    <2> QED
      BY <1>1, <2>1, <2>2, <2>3, <2>4 DEF ThreadStep
  <1>2. ASSUME UNCHANGED fileVars PROVE SoughtInv'
    BY <1>2 DEF fileVars, SoughtInv, Pending, NextRequest
  <1>3. ASSUME NEW i \in Instance, SetValue(i) \/ Exit(i) \/ Throw(i)
        PROVE  TypeOK' /\ SoughtInv'
    BY <1>2, <1>3 DEF SetValue, Exit, Throw, TypeOK, fileVars, mainVars, threadVars
  <1>4. CASE EndDump \/ EndStart \/ AddData
    BY <1>2, <1>4 DEF EndDump, EndStart, AddData, TypeOK, fileVars, threadVars
  <1>5. CASE SkipPlugin
    BY <1>2, <1>5 DEF SkipPlugin, TypeOK, fileVars, threadVars
  <1>6. CASE StartPlugin
    <2>1. it \in Instance
      BY <1>6 DEF StartPlugin, TypeOK, Instance
    <2> QED
      BY <1>2, <1>6, <2>1 DEF StartPlugin, TypeOK, fileVars
  <1>7. CASE StartFails
    BY <1>2, <1>7 DEF StartFails, TypeOK, fileVars, mainVars, threadVars
  <1>8. CASE JoinPlugin
    <2>1. jobs[joined + 1] \in Instance
      BY <1>8 DEF JoinPlugin, TypeOK
    <2> QED
      BY <1>2, <1>8, <2>1 DEF JoinPlugin, TypeOK, fileVars, threadVars
  <1>9. CASE UNCHANGED vars
    BY <1>2, <1>9 DEF vars, TypeOK, fileVars, mainVars, threadVars
  <1> QED
    BY <1>0, <1>1, <1>3, <1>4, <1>5, <1>6, <1>7, <1>8, <1>9
       DEF Next, MainStep, PluginStep, Finished

\* Every variable keeps its type in every reachable state of an analysis.
THEOREM TypeCorrect == Spec => []TypeOK
  <1>1. Init => TypeOK /\ SoughtInv
    BY InitTypes
  <1>2. TypeOK /\ SoughtInv /\ [Next]_vars => (TypeOK /\ SoughtInv)'
    BY NextTypes
  <1> QED
    BY <1>1, <1>2, PTL DEF Spec

-------------------------------------------------------------------------------
(* The report.  The order of plugins_node follows from the order of jobs,   *)
(* and that order from the loop that starts the threads.                    *)

\* jobs lists the selected plugins the first loop has passed, in order, and
\* those are the plugins that have a thread.
JobsInv ==
    /\ \A k \in DOMAIN jobs : jobs[k] \in selected /\ jobs[k] < it
    /\ \A i \in selected : i < it => \E k \in DOMAIN jobs : jobs[k] = i
    /\ \A k, l \in DOMAIN jobs : k < l => jobs[k] < jobs[l]
    /\ \A i \in Instance : thread[i] # "none" => \E k \in DOMAIN jobs : jobs[k] = i
    /\ \A k \in DOMAIN jobs : thread[jobs[k]] # "none"

\* A thread has exited only after setting its future; the second loop has
\* passed exactly the first `joined' jobs, and their threads have exited.
JoinInv ==
    /\ joined <= Len(jobs)
    /\ \A i \in Instance : thread[i] = "exited" => future[i] # "unset"
    /\ \A i \in Instance : future[i] # "unset" => thread[i] # "none"
    /\ \A k \in 1..joined : thread[jobs[k]] = "exited"

\* How far the main thread has got.
PcInv ==
    /\ pc = "dump" => it = 1
    /\ pc \in {"dump", "start"} => joined = 0
    /\ pc \in {"join", "returned"} => it = N + 1
    /\ pc = "returned" => joined = Len(jobs)

\* A plugin that has set its future has no read left to do.
DoneInv == \A i \in Instance : future[i] # "unset" => ~Pending(i)

ReportInv ==
    /\ TypeOK /\ SoughtInv /\ DoneInv
    /\ JobsInv /\ JoinInv /\ PcInv /\ ReportInRegistrationOrder

\* A plugin only has a result when it has made all its reads: every step keeps
\* this.
LEMMA NextDone == TypeOK /\ DoneInv /\ [Next]_vars => DoneInv'
  <1> SUFFICES ASSUME TypeOK, DoneInv, [Next]_vars PROVE DoneInv'
    OBVIOUS
  <1>1. ASSUME NEW t \in Thread, ThreadStep(t) PROVE DoneInv'
    <2>1. /\ Pending(t) /\ UNCHANGED future
          /\ \A u \in Thread \ {t} : got'[u] = got[u]
      BY <1>1 DEF ThreadStep, Refuse, Seek, Read, AllocationFails, threadVars, TypeOK
    <2>2. ASSUME NEW i \in Instance, future'[i] # "unset" PROVE ~Pending(i)'
      <3>1. i \in Thread /\ ~Pending(i)
        BY <2>1, <2>2 DEF DoneInv, Instance, Thread
      <3>2. got'[i] = got[i]
        BY <2>1, <3>1
      <3> QED
        BY <3>1, <3>2 DEF Pending
    <2> QED
      BY <2>2 DEF DoneInv
  <1>2. ASSUME NEW i \in Instance, SetValue(i) PROVE DoneInv'
    BY <1>2 DEF SetValue, DoneInv, Pending, fileVars, TypeOK
  <1>3. ASSUME UNCHANGED <<got, future>> PROVE DoneInv'
    BY <1>3 DEF DoneInv, Pending
  <1>4. ASSUME NEW i \in Instance, Exit(i) \/ Throw(i) PROVE DoneInv'
    BY <1>3, <1>4 DEF Exit, Throw, fileVars, threadVars
  <1>5. CASE EndDump \/ SkipPlugin \/ StartPlugin \/ StartFails \/ EndStart
             \/ JoinPlugin \/ AddData \/ UNCHANGED vars
    BY <1>3, <1>5 DEF EndDump, SkipPlugin, StartPlugin, StartFails, EndStart,
                      JoinPlugin, AddData, vars, fileVars, threadVars
  <1> QED
    BY <1>1, <1>2, <1>4, <1>5 DEF Next, MainStep, PluginStep, Finished, Thread, Instance

\* The invariant of the report holds when handle_plugins_option is entered.
LEMMA InitReport == Init => ReportInv
  <1> SUFFICES ASSUME Init PROVE ReportInv
    OBVIOUS
  <1>1. DoneInv /\ JobsInv /\ JoinInv /\ PcInv /\ ReportInRegistrationOrder
    BY DEF Init, DoneInv, JobsInv, JoinInv, PcInv, ReportInRegistrationOrder, Instance
  <1> QED
    BY <1>1, InitTypes DEF ReportInv

\* The three invariants depend on these variables only.
LEMMA DataUnchanged ==
    ASSUME JobsInv, JoinInv, ReportInRegistrationOrder,
           UNCHANGED <<selected, it, jobs, joined, plugins_node, thread, future>>
    PROVE  JobsInv' /\ JoinInv' /\ ReportInRegistrationOrder'
  <1>1. JobsInv'
    BY DEF JobsInv
  <1>2. JoinInv'
    BY DEF JoinInv
  <1>3. ReportInRegistrationOrder'
    BY DEF ReportInRegistrationOrder
  <1> QED
    BY <1>1, <1>2, <1>3

\* A plugin that sets its future is not joined yet, so that what was already
\* appended to plugins_node stays right.
LEMMA SetValueKeepsReport ==
    ASSUME ReportInv, NEW i \in Instance, SetValue(i)
    PROVE  JobsInv' /\ JoinInv' /\ ReportInRegistrationOrder'
  <1>0. joined \in Nat /\ jobs \in Seq(Instance) /\ joined <= Len(jobs)
    BY DEF ReportInv, TypeOK, JoinInv
  <1>1. /\ UNCHANGED <<jobs, joined, it, selected, plugins_node, thread>>
        /\ thread[i] = "running"
        /\ \A j \in Instance \ {i} : future'[j] = future[j]
        /\ future'[i] # "unset"
    BY DEF SetValue, mainVars, Outcome, ReportInv, TypeOK
  <1>2. JobsInv'
    BY <1>1 DEF ReportInv, JobsInv
  <1>3. JoinInv'
    BY <1>1 DEF ReportInv, JoinInv
  <1>4. \A k \in 1..joined : jobs[k] \in Instance \ {i}
    BY <1>0, <1>1 DEF ReportInv, JoinInv
  <1>5. ReportInRegistrationOrder'
    BY <1>1, <1>4 DEF ReportInv, ReportInRegistrationOrder
  <1> QED
    BY <1>2, <1>3, <1>5

\* A thread that exits changes nothing that was joined before.
LEMMA ExitKeepsReport ==
    ASSUME ReportInv, NEW i \in Instance, Exit(i)
    PROVE  JobsInv' /\ JoinInv' /\ ReportInRegistrationOrder'
  <1>0. joined \in Nat /\ jobs \in Seq(Instance) /\ joined <= Len(jobs)
    BY DEF ReportInv, TypeOK, JoinInv
  <1>1. /\ UNCHANGED <<jobs, joined, it, selected, plugins_node, future>>
        /\ thread[i] = "running" /\ future[i] # "unset"
        /\ thread'[i] = "exited"
        /\ \A j \in Instance \ {i} : thread'[j] = thread[j]
    BY DEF Exit, mainVars, ReportInv, TypeOK
  <1>2. JobsInv'
    <2>1. \A k \in DOMAIN jobs : jobs[k] \in Instance
      BY <1>0
    <2> QED
      BY <1>1, <2>1 DEF ReportInv, JobsInv
  <1>3. JoinInv'
    <2>1. \A k \in 1..joined : jobs[k] \in Instance
      BY <1>0
    <2> QED
      BY <1>1, <2>1 DEF ReportInv, JoinInv
  <1>4. ReportInRegistrationOrder'
    BY <1>1 DEF ReportInv, ReportInRegistrationOrder
  <1> QED
    BY <1>2, <1>3, <1>4

\* Every step keeps the invariant of the report.
LEMMA NextReport == ReportInv /\ [Next]_vars => ReportInv'
  <1> SUFFICES ASSUME ReportInv, [Next]_vars PROVE ReportInv'
    OBVIOUS
  <1> DEFINE Goal == JobsInv' /\ JoinInv' /\ PcInv' /\ ReportInRegistrationOrder'
  <1>0. TypeOK' /\ SoughtInv' /\ DoneInv'
    BY NextTypes, NextDone DEF ReportInv
  <1> SUFFICES Goal
    BY <1>0 DEF ReportInv
  <1>1. ASSUME UNCHANGED mainVars PROVE PcInv'
    BY <1>1 DEF ReportInv, PcInv, mainVars
  <1>2. ASSUME UNCHANGED <<mainVars, threadVars>> PROVE Goal
    BY <1>1, <1>2, DataUnchanged DEF ReportInv, mainVars, threadVars
  <1>3. ASSUME NEW t \in Thread, ThreadStep(t) PROVE Goal
    BY <1>2, <1>3 DEF ThreadStep, Refuse, Seek, Read, AllocationFails
  <1>4. ASSUME NEW i \in Instance, SetValue(i) \/ Exit(i) \/ Throw(i) PROVE Goal
    BY <1>1, <1>2, <1>4, SetValueKeepsReport, ExitKeepsReport
       DEF SetValue, Exit, Throw
  <1>5. CASE StartFails \/ UNCHANGED vars
    BY <1>2, <1>5 DEF StartFails, vars
  <1>6. CASE EndDump \/ AddData \/ EndStart
    <2>1. UNCHANGED <<selected, it, jobs, joined, plugins_node, thread, future>>
      BY <1>6 DEF EndDump, AddData, EndStart, threadVars
    <2>2. PcInv'
      BY <1>6, <2>1 DEF EndDump, AddData, EndStart, ReportInv, TypeOK, PcInv
    <2> QED
      BY <2>1, <2>2, DataUnchanged DEF ReportInv
  <1>8. CASE SkipPlugin
    <2>1. /\ UNCHANGED <<selected, pc, jobs, joined, plugins_node, thread, future>>
          /\ pc = "start" /\ it \notin selected /\ it' = it + 1
          /\ it \in Nat /\ selected \subseteq Nat
      BY <1>8 DEF SkipPlugin, threadVars, ReportInv, TypeOK, Instance
    <2>2. \A k \in DOMAIN jobs : jobs[k] \in Nat
      BY DEF ReportInv, TypeOK, Instance
    <2>3. JobsInv'
      BY <2>1, <2>2 DEF ReportInv, JobsInv
    <2>4. JoinInv' /\ ReportInRegistrationOrder'
      BY <2>1 DEF ReportInv, JoinInv, ReportInRegistrationOrder
    <2>5. PcInv'
      BY <2>1 DEF ReportInv, PcInv
    <2> QED
      BY <2>3, <2>4, <2>5
  <1>9. CASE StartPlugin
    <2>0. jobs \in Seq(Instance) /\ it \in Nat /\ Instance \subseteq Nat
      BY DEF ReportInv, TypeOK, Instance
    <2>1. /\ pc = "start" /\ joined = 0 /\ it \in selected /\ it \in Instance
          /\ jobs' = Append(jobs, it) /\ it' = it + 1
          /\ thread' = [thread EXCEPT ![it] = "running"]
          /\ UNCHANGED <<selected, pc, joined, plugins_node, future>>
      BY <1>9 DEF StartPlugin, PcInv, ReportInv, TypeOK, Instance
    <2>2. /\ Len(jobs') = Len(jobs) + 1
          /\ DOMAIN jobs' = DOMAIN jobs \cup {Len(jobs) + 1}
          /\ \A k \in DOMAIN jobs : jobs'[k] = jobs[k]
          /\ jobs'[Len(jobs) + 1] = it
      BY <2>0, <2>1
    <2>3. thread[it] = "none" /\ future[it] = "unset"
      BY <2>1 DEF ReportInv, TypeOK, JobsInv, JoinInv
    <2>4. JobsInv'
      <3>0. \A k \in DOMAIN jobs : jobs[k] \in selected /\ jobs[k] < it
        <4>1. JobsInv
          BY DEF ReportInv
        <4> QED
          BY <4>1, Zenon DEF JobsInv
      <3>00. \A k \in DOMAIN jobs : jobs[k] \in Nat
        <4>1. \A k \in DOMAIN jobs : jobs[k] \in Instance
          BY <2>0
        <4> QED
          BY <2>0, <4>1
      <3>1. \A k \in DOMAIN jobs' : jobs'[k] \in selected' /\ jobs'[k] < it'
        <4> TAKE k \in DOMAIN jobs'
        <4>1. CASE k \in DOMAIN jobs
          BY <2>0, <2>1, <2>2, <3>0, <3>00, <4>1
        <4>2. CASE k = Len(jobs) + 1
          BY <2>0, <2>1, <2>2, <4>2
        <4> QED
          BY <2>2, <4>1, <4>2
      <3>2. \A i \in selected' : i < it' => \E k \in DOMAIN jobs' : jobs'[k] = i
        BY <2>1, <2>2 DEF ReportInv, TypeOK, JobsInv, Instance
      <3>3. \A k, l \in DOMAIN jobs' : k < l => jobs'[k] < jobs'[l]
        BY <2>1, <2>2 DEF ReportInv, TypeOK, JobsInv
      <3>4. \A i \in Instance : thread'[i] # "none" => \E k \in DOMAIN jobs' : jobs'[k] = i
        BY <2>1, <2>2 DEF ReportInv, TypeOK, JobsInv
      <3>5. \A k \in DOMAIN jobs' : thread'[jobs'[k]] # "none"
        BY <2>1, <2>2 DEF ReportInv, TypeOK, JobsInv
      <3> QED
        BY <3>1, <3>2, <3>3, <3>4, <3>5 DEF ReportInv, TypeOK, JobsInv
    <2>5. JoinInv'
      BY <2>1, <2>2, <2>3 DEF ReportInv, TypeOK, JoinInv
    <2>6. PcInv' /\ ReportInRegistrationOrder'
      BY <2>1 DEF ReportInv, PcInv, ReportInRegistrationOrder
    <2> QED
      BY <2>4, <2>5, <2>6
  <1>10. CASE JoinPlugin
    <2> DEFINE i == jobs[joined + 1]
    <2>0. joined \in Nat /\ jobs \in Seq(Instance) /\ plugins_node \in Seq(Instance)
          /\ Instance \subseteq Nat
      BY DEF ReportInv, TypeOK, Instance
    <2>1. /\ pc = "join" /\ joined < Len(jobs) /\ i \in Instance
          /\ thread[i] = "exited"
          /\ joined' = joined + 1
          /\ plugins_node' = IF future[i] = "info" THEN Append(plugins_node, i)
                                                   ELSE plugins_node
          /\ UNCHANGED <<selected, pc, it, jobs, thread, future>>
      BY <1>10, <2>0 DEF JoinPlugin, threadVars
    <2>2. JobsInv' /\ PcInv'
      BY <2>1 DEF ReportInv, JobsInv, PcInv
    <2>3. JoinInv'
      BY <2>1 DEF ReportInv, TypeOK, JoinInv
    <2>4. \A k \in DOMAIN plugins_node : plugins_node[k] < i
      <3>1. \A k \in DOMAIN plugins_node : \E l \in 1..joined : plugins_node[k] = jobs[l]
        BY DEF ReportInv, ReportInRegistrationOrder
      <3>2. \A l \in 1..joined : jobs[l] < i
        BY <2>0, <2>1 DEF ReportInv, JobsInv
      <3> QED
        BY <3>1, <3>2
    <2>5. CASE future[i] = "info"
      <3>1. /\ DOMAIN plugins_node' = DOMAIN plugins_node \cup {Len(plugins_node) + 1}
            /\ \A k \in DOMAIN plugins_node : plugins_node'[k] = plugins_node[k]
            /\ plugins_node'[Len(plugins_node) + 1] = i
        BY <2>1, <2>5
      <3>2. 1..joined' = (1..joined) \cup {joined + 1}
        BY <2>1, <2>0
      <3>3. \A k \in DOMAIN plugins_node' :
                \E l \in 1..joined' : /\ plugins_node'[k] = jobs'[l]
                                      /\ future'[jobs'[l]] = "info"
        <4> TAKE k \in DOMAIN plugins_node'
        <4>1. CASE k \in DOMAIN plugins_node
          <5>1. PICK l \in 1..joined : plugins_node[k] = jobs[l] /\ future[jobs[l]] = "info"
            BY <4>1 DEF ReportInv, ReportInRegistrationOrder
          <5> QED
            BY <2>1, <3>1, <3>2, <4>1, <5>1
        <4>2. CASE k = Len(plugins_node) + 1
          BY <2>1, <2>5, <3>1, <3>2, <4>2
        <4> QED
          BY <3>1, <4>1, <4>2
      <3>4. \A l \in 1..joined' :
                future'[jobs'[l]] = "info" =>
                    \E k \in DOMAIN plugins_node' : plugins_node'[k] = jobs'[l]
        BY <2>1, <2>5, <3>1, <3>2 DEF ReportInv, ReportInRegistrationOrder
      <3>5. \A k, l \in DOMAIN plugins_node' :
                k < l => plugins_node'[k] < plugins_node'[l]
        BY <2>0, <2>4, <3>1 DEF ReportInv, ReportInRegistrationOrder
      <3> QED
        BY <2>2, <2>3, <3>3, <3>4, <3>5 DEF ReportInv, ReportInRegistrationOrder
    <2>6. CASE future[i] # "info"
      <3>1. 1..joined' = (1..joined) \cup {joined + 1}
        BY <2>1, <2>0
      <3>2. plugins_node' = plugins_node
        BY <2>1, <2>6
      <3> QED
        BY <2>1, <2>2, <2>3, <2>6, <3>1, <3>2 DEF ReportInv, ReportInRegistrationOrder
    <2> QED
      BY <2>5, <2>6
  <1>11. Instance \subseteq Thread /\ 0 \in Thread
    BY DEF Instance, Thread
  <1> QED
    BY <1>3, <1>4, <1>5, <1>6, <1>8, <1>9, <1>10, <1>11
       DEF Next, MainStep, PluginStep, Finished

\* For any number of plugins, any selection and any schedule of the threads
\* started by handle_plugins_option, the "Plugins" node lists exactly the
\* joined plugins that found something, in registration order.
THEOREM ReportOrder == Spec => []ReportInRegistrationOrder
  <1>1. ReportInv => ReportInRegistrationOrder
    BY DEF ReportInv
  <1> QED
    BY <1>1, InitReport, NextReport, PTL DEF Spec

\* No plugin thread is running when perform_analysis() returns and destroys
\* the PE whose address the threads were given.
THEOREM PEOutlivesThreads == Spec => []NoThreadOutlivesPE
  <1>1. ReportInv => NoThreadOutlivesPE
    <2> SUFFICES ASSUME ReportInv, pc = "returned", NEW i \in Instance
                 PROVE  thread[i] # "running"
      BY DEF NoThreadOutlivesPE
    <2>1. joined = Len(jobs)
      BY DEF ReportInv, PcInv
    <2>2. 1..joined = DOMAIN jobs
      BY <2>1 DEF ReportInv, TypeOK
    <2> QED
      BY <2>2 DEF ReportInv, JobsInv, JoinInv
  <1> QED
    BY <1>1, InitReport, NextReport, PTL DEF Spec

-------------------------------------------------------------------------------
(* The shared handle.  Between the fseek and the fread of a thread nobody   *)
(* else may move the cursor: the main thread reads only before the first    *)
(* plugin thread exists, and among those only one reads.                    *)

\* Whoever has sought is inside a read function, and the cursor is where it
\* was put; what was read so far is what was asked for.
HandleInv ==
    /\ sought[0] => pc = "dump"
    /\ \A i \in Instance : sought[i] => thread[i] = "running"
    /\ \A t \in Thread : sought[t] => cursor = NextRequest(t).off
    /\ \A t \in Thread : Len(got[t]) <= Len(Requests[t])
    /\ \A t \in Thread, k \in Nat : <<t, k>> \in starved => k <= Len(got[t])
    /\ BytesAreRight

\* A thread that may read and has something to read is the main thread during
\* the dump, or the one selected plugin that reads.
LEMMA OneReaderAtATime ==
    ASSUME ReportInv, SoleReader, NEW t \in Thread, NEW u \in Thread,
           MayRead(t), Pending(t), MayRead(u), Pending(u)
    PROVE  t = u
  <1>1. \A i \in Instance : thread[i] = "running" => i \in selected /\ pc # "dump"
    <2> SUFFICES ASSUME NEW i \in Instance, thread[i] = "running"
                 PROVE  i \in selected /\ pc # "dump"
      OBVIOUS
    <2>1. PICK k \in DOMAIN jobs : jobs[k] = i
      BY DEF ReportInv, JobsInv
    <2>2. i \in selected /\ i < it
      BY <2>1 DEF ReportInv, JobsInv
    <2> QED
      BY <2>2 DEF ReportInv, PcInv, Instance
  <1>2. \A v \in Thread : v # 0 => v \in Instance
    BY DEF Thread, Instance
  <1>3. \A v \in Thread : Pending(v) => Requests[v] # <<>>
    <2> SUFFICES ASSUME NEW v \in Thread, Pending(v), Requests[v] = <<>>
                 PROVE  FALSE
      OBVIOUS
    <2>1. Len(got[v]) \in Nat
      BY DEF ReportInv, TypeOK
    <2> QED
      BY <2>1 DEF Pending
  <1> QED
    BY <1>1, <1>2, <1>3 DEF MayRead, SoleReader

\* No thread has read anything when perform_analysis starts.
LEMMA InitHandle == Init => HandleInv
  BY DEF Init, HandleInv, BytesAreRight, Thread, Instance

\* Steps that leave the handle alone do not stop a thread inside a read.
LEMMA OthersKeepHandle ==
    ASSUME ReportInv, HandleInv, UNCHANGED fileVars,
           sought[0] => pc' = pc,
           \A i \in Instance : sought[i] => thread'[i] = thread[i]
    PROVE  HandleInv'
  BY DEF HandleInv, BytesAreRight, fileVars, NextRequest

\* While one selected plugin at most reads, every step keeps the cursor where
\* the thread between its fseek and its fread left it.
LEMMA NextHandle ==
    ReportInv /\ SoleReader /\ HandleInv /\ [Next]_vars => HandleInv'
  <1> SUFFICES ASSUME ReportInv, SoleReader, HandleInv, [Next]_vars
               PROVE  HandleInv'
    OBVIOUS
  <1> USE DEF ReportInv
  <1>1. ASSUME NEW t \in Thread, ThreadStep(t) PROVE HandleInv'
    <2> DEFINE r == NextRequest(t)
    <2>1. /\ MayRead(t) /\ Pending(t) /\ r \in Request
          /\ UNCHANGED <<pc, thread, aborted>>
      BY <1>1, NextRequestType DEF ThreadStep, Refuse, Seek, Read, AllocationFails,
                                       mainVars, threadVars
    <2>2. \A u \in Thread : sought[u] => u = t
      <3> SUFFICES ASSUME NEW u \in Thread, sought[u] PROVE u = t
        OBVIOUS
      <3>1. Pending(u)
        BY DEF SoughtInv
      <3>2. MayRead(u)
        BY <2>1 DEF HandleInv, MayRead, Thread, Instance
      <3> QED
        BY <2>1, <3>1, <3>2, OneReaderAtATime
    <2>3. /\ Len(got[t]) < Len(Requests[t])
          /\ r = Requests[t][Len(got[t]) + 1]
          /\ got \in [Thread -> Seq(Buffer)]
          /\ Len(got[t]) \in Nat
      BY <2>1 DEF TypeOK, Pending, NextRequest
    <2>4. ASSUME NEW b \in Buffer,
                 \/ b = Wanted(r) /\ starved' = starved
                 \/ b = EmptyBuffer /\ starved' = starved \cup {<<t, Len(got[t]) + 1>>},
                 got' = [got EXCEPT ![t] = Append(@, b)],
                 ~sought'[t], \A u \in Thread \ {t} : sought'[u] = sought[u]
          PROVE  HandleInv'
      <3>1. \A u \in Thread : ~sought'[u]
        BY <2>2, <2>4
      <3>2. \A u \in Thread : Len(got'[u]) <= Len(Requests[u])
        BY <2>3, <2>4 DEF HandleInv
      <3>3. BytesAreRight'
        <4> SUFFICES ASSUME NEW u \in Thread, NEW k \in DOMAIN got'[u]
                     PROVE  got'[u][k] = IF <<u, k>> \in starved' THEN EmptyBuffer
                                         ELSE Wanted(Requests[u][k])
          BY DEF BytesAreRight
        <4>1. CASE u # t
          <5>1. <<u, k>> \in starved' <=> <<u, k>> \in starved
            BY <2>4, <4>1
          <5> QED
            BY <2>3, <2>4, <4>1, <5>1 DEF HandleInv, BytesAreRight
        <4>2. CASE u = t /\ k \in DOMAIN got[t]
          <5>1. k # Len(got[t]) + 1
            BY <2>3, <4>2
          <5>2. <<u, k>> \in starved' <=> <<u, k>> \in starved
            BY <2>4, <4>2, <5>1
          <5> QED
            BY <2>3, <2>4, <4>2, <5>2 DEF HandleInv, BytesAreRight
        <4>3. CASE u = t /\ k = Len(got[t]) + 1
          <5>1. <<u, k>> \notin starved
            BY <2>3, <4>3 DEF HandleInv
          <5>2. got'[u][k] = b
            BY <2>3, <2>4, <4>3
          <5> QED
            BY <2>3, <2>4, <4>3, <5>1, <5>2
        <4> QED
          BY <2>3, <2>4, <4>1, <4>2, <4>3
      <3>a. \A u \in Thread, k \in Nat : <<u, k>> \in starved' => k <= Len(got'[u])
        <4>1. Len(got'[t]) = Len(got[t]) + 1 /\ \A u \in Thread \ {t} : got'[u] = got[u]
          BY <2>3, <2>4
        <4>2. \A u \in Thread, k \in Nat : <<u, k>> \in starved => k <= Len(got[u])
          BY DEF HandleInv
        <4>3. ASSUME NEW u \in Thread, NEW k \in Nat, <<u, k>> \in starved' PROVE k <= Len(got'[u])
          <5>1. CASE <<u, k>> \in starved
            BY <2>3, <4>1, <4>2, <5>1, SMTT(30)
          <5>2. CASE u = t /\ k = Len(got[t]) + 1
            BY <2>3, <4>1, <5>2
          <5> QED
            BY <2>4, <4>3, <5>1, <5>2
        <4> QED
          BY <4>3
      <3>4. 0 \in Thread /\ Instance \subseteq Thread
        BY DEF Thread, Instance
      <3> QED
        BY <3>1, <3>2, <3>3, <3>a, <3>4 DEF HandleInv
    <2>5. CASE Refuse(t)
      <3>1. EmptyBuffer = Wanted(r) /\ EmptyBuffer \in Buffer
        BY <2>1, <2>5, RefusedRead DEF Refuse, EmptyBuffer, Buffer
      <3>2. ~sought[t]
        BY <2>5 DEF Refuse, SoughtInv
      <3> QED
        BY <2>4, <2>5, <3>1, <3>2 DEF Refuse
    <2>6. CASE Read(t)
      <3>1. ~Refused(r) /\ sought[t]
        BY <2>6 DEF Read, SoughtInv
      <3>2. cursor = r.off
        BY <3>1 DEF HandleInv
      <3>3. Delivered(r, cursor) = Wanted(r)
        BY <2>1, <3>1, <3>2, UndisturbedRead
      <3>4. Delivered(r, cursor) \in Buffer
        BY <2>1, <3>1, ReadTypes DEF TypeOK
      <3>5. ~sought'[t] /\ \A u \in Thread \ {t} : sought'[u] = sought[u]
        BY <2>6 DEF Read, TypeOK
      <3> QED
        BY <2>4, <2>6, <3>3, <3>4, <3>5 DEF Read
    <2>7. CASE Seek(t)
      <3>1. /\ got' = got /\ cursor' = r.off
            /\ sought' = [sought EXCEPT ![t] = TRUE]
            /\ UNCHANGED <<pc, thread, starved>>
        BY <2>1, <2>7 DEF Seek
      <3>2. \A u \in Thread : sought'[u] => u = t
        BY <2>2, <3>1 DEF TypeOK
      <3>3. \A u \in Thread : NextRequest(u)' = NextRequest(u)
        BY <3>1 DEF NextRequest
      <3>4. /\ BytesAreRight' /\ \A u \in Thread : Len(got'[u]) <= Len(Requests[u])
            /\ \A u \in Thread, k \in Nat : <<u, k>> \in starved' => k <= Len(got'[u])
        BY <3>1 DEF HandleInv, BytesAreRight
      <3>5. sought'[0] => pc' = "dump"
        BY <2>1, <3>1, <3>2 DEF MayRead, Thread
      <3>6. \A i \in Instance : sought'[i] => thread'[i] = "running"
        BY <2>1, <3>1, <3>2 DEF MayRead, Thread, Instance
      <3> QED
        BY <3>1, <3>2, <3>3, <3>4, <3>5, <3>6 DEF HandleInv
    <2>8. CASE AllocationFails(t)
      <3>1. EmptyBuffer \in Buffer
        BY DEF EmptyBuffer, Buffer
      <3>2. ~sought'[t] /\ \A u \in Thread \ {t} : sought'[u] = sought[u]
        BY <2>8 DEF AllocationFails, TypeOK
      <3> QED
        BY <2>4, <2>8, <3>1, <3>2 DEF AllocationFails
    <2> QED
      BY <1>1, <2>5, <2>6, <2>7, <2>8 DEF ThreadStep
  <1>2. ASSUME NEW i \in Instance, SetValue(i) \/ Throw(i) PROVE HandleInv'
    BY <1>2, OthersKeepHandle DEF SetValue, Throw, mainVars, threadVars
  <1>3. ASSUME NEW i \in Instance, Exit(i) PROVE HandleInv'
    <2>1. ~Pending(i)
      BY <1>3 DEF Exit, DoneInv
    <2>2. ~sought[i]
      BY <2>1 DEF SoughtInv, Instance, Thread
    <2> QED
      BY <1>3, <2>2, OthersKeepHandle DEF Exit, mainVars, TypeOK
  <1>4. CASE EndDump
    <2>1. ~sought[0]
      BY <1>4 DEF EndDump, SoughtInv, Thread
    <2> QED
      BY <1>4, <2>1, OthersKeepHandle DEF EndDump, threadVars
  <1>5. CASE EndStart \/ AddData
    <2>1. ~sought[0]
      BY <1>5 DEF EndStart, AddData, HandleInv
    <2> QED
      BY <1>5, <2>1, OthersKeepHandle DEF EndStart, AddData, threadVars
  <1>6. CASE SkipPlugin \/ JoinPlugin \/ StartFails
    BY <1>6, OthersKeepHandle DEF SkipPlugin, JoinPlugin, StartFails, mainVars, threadVars
  <1>7. CASE StartPlugin
    <2>1. it \in Instance /\ thread[it] = "none"
      BY <1>7 DEF StartPlugin, TypeOK, Instance, JobsInv
    <2>2. \A i \in Instance : sought[i] => i # it
      BY <2>1 DEF HandleInv
    <2> QED
      BY <1>7, <2>1, <2>2, OthersKeepHandle DEF StartPlugin, TypeOK
  <1>8. CASE UNCHANGED vars
    BY <1>8, OthersKeepHandle DEF vars, mainVars, threadVars
  <1>9. Instance \subseteq Thread /\ 0 \in Thread
    BY DEF Instance, Thread
  <1> QED
    BY <1>1, <1>2, <1>3, <1>4, <1>5, <1>6, <1>7, <1>8, <1>9
       DEF Next, MainStep, PluginStep, Finished

\* The selection does not change during an analysis.
LEMMA SelectionFixed == [Next]_vars => UNCHANGED selected
  BY DEF Next, MainStep, PluginStep, ThreadStep, Refuse, Seek, Read, AllocationFails,
         SetValue, Exit, Throw, EndDump, SkipPlugin, StartPlugin, StartFails, EndStart, JoinPlugin,
         AddData, Finished, vars, mainVars

\* Whatever the file, the reads and the schedule: with at most one reader of
\* the shared handle among the selected plugins, get_raw_bytes,
\* get_overlay_bytes and get_raw_data return the bytes they document.
THEOREM SoleReaderIsSafe == Spec => []SoleReaderBytesAreRight
  <1> DEFINE IInv == ReportInv /\ (SoleReader => HandleInv)
  <1>1. Init => IInv
    BY InitReport, InitHandle
  <1>2. IInv /\ [Next]_vars => IInv'
    <2> SUFFICES ASSUME IInv, [Next]_vars PROVE IInv'
      OBVIOUS
    <2>1. SoleReader' => SoleReader
      BY SelectionFixed DEF SoleReader
    <2> QED
      BY <2>1, NextReport, NextHandle
  <1>3. IInv => SoleReaderBytesAreRight
    BY DEF SoleReaderBytesAreRight, HandleInv
  <1> QED
    BY <1>1, <1>2, <1>3, PTL DEF Spec
-------------------------------------------------------------------------------
(* The report is that of PluginReport, which knows nothing of threads.      *)

\* The variables of PluginReport.
NodeSeen == IF pc = "returned" THEN plugins_node ELSE <<>>
StatusSeen ==
    IF aborted THEN "aborted" ELSE IF pc = "returned" THEN "published" ELSE "running"

\* The size of 1..m.
LEMMA IntervalSize ==
    ASSUME NEW m \in Nat
    PROVE  IsFiniteSet(1..m) /\ Cardinality(1..m) = m
  <1>1. IsFiniteSet(1..m) /\ Cardinality(1..m) = (IF 1 > m THEN 0 ELSE m - 1 + 1)
    BY FS_Interval
  <1> QED
    BY <1>1

\* A list of plugins in registration order has at most as many entries as there are
\* plugins.
LEMMA RisingIsShort ==
    ASSUME NEW s \in Seq(Instance), \A k, l \in DOMAIN s : k < l => s[k] < s[l]
    PROVE  s \in UNION {[1..n -> Instance] : n \in 0..N}
  <1>1. PICK n \in Nat : n = Len(s) /\ DOMAIN s = 1..n
    OBVIOUS
  <1>2. s \in [1..n -> 1..N]
    BY <1>1 DEF Instance
  <1>3. \A a, b \in 1..n : s[a] = s[b] => a = b
    <2>1. SUFFICES ASSUME NEW a \in 1..n, NEW b \in 1..n, s[a] = s[b], a # b PROVE FALSE
      OBVIOUS
    <2>2. a < b \/ b < a
      BY <2>1
    <2>3. s[a] \in 1..N /\ s[b] \in 1..N
      BY <1>2
    <2>4. s[a] < s[b] \/ s[b] < s[a]
      BY <1>1, <2>2
    <2> QED
      BY <2>1, <2>3, <2>4
  <1>4. s \in Injection(1..n, 1..N)
    BY <1>1, <1>2, <1>3 DEF Injection, IsInjective
  <1>5. IsFiniteSet(1..N) /\ Cardinality(1..N) = N /\ Cardinality(1..n) = n
    BY IntervalSize
  <1>6. n <= N
    <2>1. Cardinality(1..n) <= Cardinality(1..N)
      BY <1>4, <1>5, FS_Injection, Zenon
    <2> QED
      BY <1>5, <2>1
  <1>7. n \in 0..N
    BY <1>6
  <1> QED
    BY <1>2, <1>7 DEF Instance

\* A plugin whose thread runs was selected, and nothing has been published.
LEMMA RunningIsSelected ==
    ASSUME ReportInv, NEW i \in Instance, thread[i] = "running"
    PROVE  i \in selected /\ pc # "returned"
  <1>1. PICK k \in DOMAIN jobs : jobs[k] = i
    BY DEF ReportInv, JobsInv
  <1>2. i \in selected
    BY <1>1 DEF ReportInv, JobsInv
  <1>3. pc # "returned"
    <2>1. SUFFICES ASSUME pc = "returned" PROVE FALSE
      OBVIOUS
    <2>2. joined = Len(jobs)
      BY <2>1 DEF ReportInv, PcInv
    <2>3. k \in 1..joined
      BY <1>1, <2>2 DEF ReportInv, TypeOK
    <2> QED
      BY <1>1, <2>3 DEF ReportInv, JoinInv
  <1> QED
    BY <1>2, <1>3

\* What add_data is given: every selected plugin has an outcome, and the node lists
\* those that found something.
LEMMA AllAreJoined ==
    ASSUME ReportInv, pc = "join", joined = Len(jobs)
    PROVE  /\ \A i \in selected : future[i] # "unset"
           /\ {plugins_node[k] : k \in DOMAIN plugins_node} = {i \in selected : future[i] = "info"}
           /\ \A k, l \in DOMAIN plugins_node : k < l => plugins_node[k] < plugins_node[l]
  <1>1. it = N + 1 /\ selected \subseteq 1..N
    BY DEF ReportInv, PcInv, TypeOK, Instance
  <1>2. DOMAIN jobs = 1..joined
    BY DEF ReportInv, TypeOK
  <1>3. \A i \in selected : \E k \in 1..joined : jobs[k] = i
    BY <1>1, <1>2 DEF ReportInv, JobsInv
  <1>4. \A k \in 1..joined : thread[jobs[k]] = "exited" /\ jobs[k] \in selected
    BY <1>2 DEF ReportInv, JoinInv, JobsInv
  <1>5. \A i \in selected : future[i] # "unset"
    BY <1>1, <1>3, <1>4 DEF ReportInv, JoinInv, Instance
  <1>6. ReportInRegistrationOrder
    BY DEF ReportInv
  <1>7. \A k \in DOMAIN plugins_node : plugins_node[k] \in selected /\ future[plugins_node[k]] = "info"
    BY <1>4, <1>6 DEF ReportInRegistrationOrder
  <1>8. \A i \in selected : future[i] = "info" => \E k \in DOMAIN plugins_node : plugins_node[k] = i
    BY <1>3, <1>6 DEF ReportInRegistrationOrder
  <1>9. {plugins_node[k] : k \in DOMAIN plugins_node} = {i \in selected : future[i] = "info"}
    BY <1>7, <1>8
  <1> QED
    BY <1>5, <1>6, <1>9 DEF ReportInRegistrationOrder

\* A step that PluginReport does not see.
LEMMA Unseen ==
    ASSUME UNCHANGED <<selected, future, aborted>>, NodeSeen' = NodeSeen,
           (pc = "returned") <=> (pc' = "returned")
    PROVE  UNCHANGED Report!vars
  <1>1. StatusSeen' = StatusSeen
    BY DEF StatusSeen
  <1> QED
    BY <1>1 DEF Report!vars, NodeSeen, StatusSeen

\* Every step of the threads is one of PluginReport, or one that it does not see.
LEMMA StepIsReported ==
    ASSUME ReportInv, [Next]_vars
    PROVE  [Report!Next]_(Report!vars)
  <1>0. Instance \subseteq Thread /\ 0 \in Thread
    BY DEF Instance, Thread
  <1>1. ASSUME NEW t \in Thread, ThreadStep(t) PROVE UNCHANGED Report!vars
    <2>1. UNCHANGED <<mainVars, threadVars, aborted>>
      BY <1>1 DEF ThreadStep, Refuse, Seek, Read, AllocationFails
    <2>2. UNCHANGED <<selected, pc, plugins_node, future, aborted>>
      BY <2>1 DEF mainVars, threadVars
    <2>3. NodeSeen' = NodeSeen
      BY <2>2 DEF NodeSeen
    <2> QED
      BY <2>2, <2>3, Unseen
  <1>2. ASSUME NEW i \in Instance, Exit(i) PROVE UNCHANGED Report!vars
    <2>1. UNCHANGED <<selected, pc, plugins_node, future, aborted>>
      BY <1>2 DEF Exit, mainVars
    <2>2. NodeSeen' = NodeSeen
      BY <2>1 DEF NodeSeen
    <2> QED
      BY <2>1, <2>2, Unseen
  <1>3. CASE EndDump \/ SkipPlugin \/ StartPlugin \/ EndStart \/ JoinPlugin
    <2>1. /\ UNCHANGED <<selected, future, aborted>>
          /\ pc # "returned" /\ pc' # "returned"
      BY <1>3 DEF EndDump, SkipPlugin, StartPlugin, EndStart, JoinPlugin, threadVars
    <2>2. NodeSeen' = NodeSeen
      BY <2>1 DEF NodeSeen
    <2> QED
      BY <2>1, <2>2, Unseen
  <1>4. CASE Finished \/ UNCHANGED vars
    <2>1. UNCHANGED <<selected, pc, plugins_node, future, aborted>>
      BY <1>4 DEF Finished, vars, mainVars, threadVars
    <2>2. NodeSeen' = NodeSeen
      BY <2>1 DEF NodeSeen
    <2> QED
      BY <2>1, <2>2, Unseen
  <1>5. ASSUME NEW i \in Instance, SetValue(i) PROVE Report!Analyse(i)
    <2>1. /\ ~aborted /\ thread[i] = "running" /\ future[i] = "unset"
          /\ \E o \in Outcome : future' = [future EXCEPT ![i] = o]
          /\ UNCHANGED <<selected, pc, plugins_node, aborted>>
      BY <1>5 DEF SetValue, mainVars
    <2>2. i \in selected /\ pc # "returned"
      BY <2>1, RunningIsSelected
    <2>3. Outcome = Report!Outcome
      BY DEF Outcome, Report!Outcome
    <2> QED
      BY <2>1, <2>2, <2>3 DEF Report!Analyse
  <1>6. ASSUME NEW i \in Instance, Throw(i) PROVE Report!Abort
    <2>1. /\ ~aborted /\ aborted' = TRUE /\ thread[i] = "running"
          /\ UNCHANGED <<selected, pc, plugins_node, future>>
      BY <1>6 DEF Throw, mainVars, threadVars
    <2>2. pc # "returned"
      BY <2>1, RunningIsSelected
    <2> QED
      BY <2>1, <2>2 DEF Report!Abort
  <1>7. CASE StartFails
    <2>1. /\ ~aborted /\ aborted' = TRUE /\ pc = "start"
          /\ UNCHANGED <<selected, pc, plugins_node, future>>
      BY <1>7 DEF StartFails, mainVars, threadVars
    <2>2. Report!Abort
      BY <2>1 DEF Report!Abort
    <2> QED
      BY <2>2 DEF Report!Next
  <1>8. CASE AddData
    <2>1. /\ ~aborted /\ pc = "join" /\ joined = Len(jobs) /\ pc' = "returned"
          /\ UNCHANGED <<selected, plugins_node, future, aborted>>
      BY <1>8 DEF AddData, threadVars
    <2>2. /\ \A i \in selected : future[i] # "unset"
          /\ {plugins_node[k] : k \in DOMAIN plugins_node} = {i \in selected : future[i] = "info"}
          /\ \A k, l \in DOMAIN plugins_node : k < l => plugins_node[k] < plugins_node[l]
      BY <2>1, AllAreJoined
    <2>3. plugins_node \in UNION {[1..n -> Instance] : n \in 0..N}
      BY <2>2, RisingIsShort DEF ReportInv, TypeOK
    <2>4. NodeSeen' = plugins_node
      BY <2>1 DEF NodeSeen
    <2>5. Report!InOrder(NodeSeen', Report!Informative)
      BY <2>2, <2>4 DEF Report!InOrder, Report!Informative
    <2>6. NodeSeen' \in UNION {[1..n -> Report!Instance] : n \in 0..N}
      BY <2>3, <2>4 DEF Instance, Report!Instance
    <2>7. Report!Publish
      BY <2>1, <2>2, <2>5, <2>6 DEF Report!Publish, NodeSeen
    <2> QED
      BY <2>7 DEF Report!Next
  <1>9. (\E i \in Instance : Report!Analyse(i)) => Report!Next
    BY DEF Report!Next, Report!Instance, Instance
  <1>10. Report!Abort => Report!Next
    BY DEF Report!Next
  <1> QED
    BY <1>0, <1>1, <1>2, <1>3, <1>4, <1>5, <1>6, <1>7, <1>8, <1>9, <1>10
       DEF Next, MainStep, PluginStep

\* handle_plugins_option (main.cpp:350-401) for any number of plugins, any selection and
\* any schedule of their threads: what becomes of a file is what running the selected
\* plugins one after the other, in registration order, could have given.
THEOREM ThreadsAreInvisible == Spec => ImplementsReport
  <1>1. Init => Report!Init
    <2>1. SUFFICES ASSUME Init PROVE Report!Init
      OBVIOUS
    <2>2. /\ selected \in SUBSET Instance /\ pc = "dump" /\ ~aborted
          /\ future = [i \in Instance |-> "unset"]
      BY <2>1 DEF Init
    <2> QED
      BY <2>2 DEF Report!Init, Instance, Report!Instance
  <1>2. ReportInv /\ [Next]_vars => [Report!Next]_(Report!vars)
    BY StepIsReported
  <1> QED
    BY <1>1, <1>2, InitReport, NextReport, PTL DEF Spec, ImplementsReport, Report!Spec
===============================================================================
