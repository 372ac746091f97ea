---------------------------- MODULE VerdictsProofs ----------------------------
(***************************************************************************)
(* That the opinion of a plugin reaches the report, and that its summary   *)
(* is about what was found, whatever the checks of the fourteen plugins    *)
(* come out as and however often they are made.                            *)
(*                                                                         *)
(* Both are about the result a plugin returns.  The invariants say what    *)
(* every check on the way there leaves behind: TellsAll, that a result     *)
(* without information has nothing to tell, and SumsUp, what each plugin   *)
(* may rely on when it makes its summary.                                  *)
(***************************************************************************)
EXTENDS Verdicts, TLAPS

\* A result with nothing to tell.
Bare(r) == r.level = NO_OPINION /\ r.summary = "none"

\* A result whose summary is about the finding, if there is one.
Summed(r) == r.level > NO_OPINION => r.summary = "finding"

\* What the plugins may conclude without information.
Excused ==
    \/ plugin = "packer" /\ res.level = SUSPICIOUS
    \/ plugin = "virustotal" /\ pc \in {"done", "joined"} /\ res.level \in {SUSPICIOUS, MALICIOUS}
    \/ plugin = "authenticode" /\ res.level = NO_OPINION

TellsAll ==
    /\ res.info \/ Bare(res) \/ (quiet /\ Excused)
    /\ other.info \/ Bare(other)
    /\ pc = "joined" => (shown = res.info)

\* What the plugins have concluded when they return.
Concluded ==
    pc \in {"done", "joined"} =>
        \/ Summed(res)
        \/ net /\ plugin = "packer" /\ res.summary = "none"
        \/ plugin \in {"icon_analyze", "virustotal"} /\ res.level = SUSPICIOUS
              /\ res.summary = "neutral"

\* What they rely on before.
Underway ==
    /\ plugin = "packer" => res.summary \in {"none", "finding"}
    /\ plugin = "resources" /\ pc = "start" => res.summary = "none"
    /\ plugin \in {"virustotal", "mitigation", "icon_analyze", "authenticode"} /\ pc = "start"
           => res.level = NO_OPINION
    /\ plugin = "findcrypt" => res.level = NO_OPINION
    /\ plugin \in TwoScans => Summed(res) /\ Summed(other)
    /\ plugin = "strings" => other.level = NO_OPINION
    /\ plugin = "authenticode" /\ pc = "certificates" => Summed(res) /\ left = 0

SumsUp == Concluded /\ Underway /\ left <= 1

Typed ==
    /\ res \in Result /\ other \in Result
    /\ left \in Nat
    /\ quiet \in BOOLEAN /\ net \in BOOLEAN /\ shown \in BOOLEAN
-------------------------------------------------------------------------------
(* The operations of a Result.                                             *)

\* What raise_level, add_information and set_summary leave of a result.
LEMMA OperationTypes ==
    ASSUME NEW r \in Result, NEW l \in SAFE..MALICIOUS, NEW s \in Summary
    PROVE  /\ Raise(r, l) \in Result
           /\ Inform(r) \in Result
           /\ Summarise(r, s) \in Result
           /\ Report(r, l) \in Result
           /\ IfNone(r, s) \in Result
  BY DEF Result, Raise, Inform, Summarise, Report, IfNone

LEMMA RaiseFields ==
    ASSUME NEW r \in Result, NEW l \in SAFE..MALICIOUS
    PROVE  /\ Raise(r, l).level = IF l > r.level THEN l ELSE r.level
           /\ Raise(r, l).summary = r.summary
           /\ Raise(r, l).info = r.info
  BY DEF Result, Raise

LEMMA ReportFields ==
    ASSUME NEW r \in Result, NEW l \in SAFE..MALICIOUS
    PROVE  /\ Report(r, l).level = IF l > r.level THEN l ELSE r.level
           /\ Report(r, l).summary = r.summary
           /\ Report(r, l).info
  BY DEF Result, Raise, Inform, Report

LEMMA InformFields ==
    ASSUME NEW r \in Result
    PROVE  /\ Inform(r).level = r.level
           /\ Inform(r).summary = r.summary
           /\ Inform(r).info
  BY DEF Result, Inform

LEMMA SummariseFields ==
    ASSUME NEW r \in Result, NEW s \in Summary
    PROVE  /\ Summarise(r, s).level = r.level
           /\ Summarise(r, s).summary = s
           /\ Summarise(r, s).info = r.info
  BY DEF Result, Summarise

-------------------------------------------------------------------------------
(* Types.                                                                  *)

LEMMA TypedInit == Init => Typed
  <1>1. Empty \in Result
    BY DEF Empty, Result, Summary, SAFE, MALICIOUS, NO_OPINION
  <1>2. Init => left \in Nat
    BY CertificatesAssumption DEF Init
  <1> QED
    BY <1>1, <1>2 DEF Init, Typed

LEMMA TypedNext == Typed /\ [Next]_vars => Typed'
  <1> SUFFICES ASSUME Typed, [Next]_vars PROVE Typed'
    OBVIOUS
  <1> USE DEF Typed, Check, When
  <1>a. SUSPICIOUS \in SAFE..MALICIOUS /\ MALICIOUS \in SAFE..MALICIOUS
    BY DEF SAFE, SUSPICIOUS, MALICIOUS
  <1>b. "finding" \in Summary /\ "neutral" \in Summary
    BY DEF Summary
  <1>c. \A r \in Result : /\ Report(r, SUSPICIOUS) \in Result
                          /\ Report(r, MALICIOUS) \in Result
                          /\ Raise(r, SUSPICIOUS) \in Result
                          /\ Raise(r, MALICIOUS) \in Result
                          /\ Inform(r) \in Result
                          /\ Summarise(r, "finding") \in Result
                          /\ Summarise(r, "neutral") \in Result
                          /\ IfNone(r, "finding") \in Result
                          /\ IfNone(r, "neutral") \in Result
    BY <1>a, <1>b, OperationTypes
  <1>d. \A r \in Result, l \in NO_OPINION..MALICIOUS : Report(r, l) \in Result
    BY <1>b, OperationTypes DEF NO_OPINION, SAFE, MALICIOUS
  <1>e. \A r \in Result, l \in SAFE..MALICIOUS : [r EXCEPT !.level = l] \in Result
    BY DEF Result
  <1>1. CASE PackerSection
    BY <1>1, <1>c DEF PackerSection
  <1>2. CASE PackerDotNet
    BY <1>2 DEF PackerDotNet
  <1>3. CASE PackerImports
    BY <1>3, <1>c DEF PackerImports
  <1>4. CASE PackerResources
    BY <1>4, <1>c DEF PackerResources
  <1>5. CASE PackerRich
    BY <1>5, <1>c DEF PackerRich
  <1>6. CASE PackerSummary
    BY <1>6, <1>c DEF PackerSummary
  <1>7. CASE PackerThrows
    BY <1>7 DEF PackerThrows
  <1>8. CASE ImportsCheck
    BY <1>8, <1>d DEF ImportsCheck
  <1>9. CASE ImportsSummary
    BY <1>9, <1>c DEF ImportsSummary
  <1>10. CASE ResourcesCheck
    BY <1>10, <1>d DEF ResourcesCheck
  <1>11. CASE ResourcesSummary
    BY <1>11, <1>c DEF ResourcesSummary
  <1>12. CASE OverlayFound
    BY <1>12, <1>c DEF OverlayFound
  <1>13. CASE MitigationFound
    BY <1>13, <1>c DEF MitigationFound
  <1>14. CASE NothingToSay
    BY <1>14 DEF NothingToSay
  <1>15. CASE VirusTotalScan
    BY <1>15, <1>c DEF VirusTotalScan
  <1>16. CASE VirusTotalNoScore
    <2>1. PICK level \in {SUSPICIOUS, NO_OPINION} :
              res' = Inform(Summarise([res EXCEPT !.level =
                         IF level = SUSPICIOUS THEN level ELSE @], "neutral"))
      BY <1>16 DEF VirusTotalNoScore
    <2>2. [res EXCEPT !.level = IF level = SUSPICIOUS THEN level ELSE @] \in Result
      BY <1>a DEF Result
    <2> QED
      BY <1>16, <2>1, <2>2, <1>c DEF VirusTotalNoScore
  <1>17. CASE VirusTotalScore
    <2>1. \A level \in {SAFE, SUSPICIOUS, MALICIOUS} : level \in SAFE..MALICIOUS
      BY DEF SAFE, SUSPICIOUS, MALICIOUS
    <2>2. \A level \in {SAFE, SUSPICIOUS, MALICIOUS} :
              [Summarise(res, IF level = SAFE THEN "neutral" ELSE "finding")
                  EXCEPT !.level = level] \in Result
      BY <2>1, <1>c, <1>e
    <2>3. res' \in Result
      BY <1>17, <2>2, <1>c DEF VirusTotalScore
    <2>4. quiet' \in BOOLEAN
      BY <1>17 DEF VirusTotalScore
    <2> QED
      BY <1>17, <2>3, <2>4 DEF VirusTotalScore
  <1>18. CASE VirusTotalThrows
    BY <1>18 DEF VirusTotalThrows
  <1>f. /\ Empty \in Result
        /\ \A l \in SAFE..MALICIOUS : Scanned(l) \in Result
    BY DEF Empty, Scanned, Result, Summary, SAFE, MALICIOUS, NO_OPINION
  <1>g. \A p \in Yara : ScanLevel(p) \in SAFE..MALICIOUS
    BY DEF Yara, ScanLevel, SAFE, MALICIOUS, NO_OPINION, SUSPICIOUS
  <1>19. CASE Scan
    BY <1>19, <1>f, <1>g DEF Scan
  <1>20. CASE SecondScan
    BY <1>20, <1>f, <1>a DEF SecondScan, SAFE, MALICIOUS, NO_OPINION
  <1>21. CASE Merge
    <2>1. \A r, s \in Result : Merged(r, s) \in Result
      BY DEF Merged, Result, Raise
    <2>2. Chosen \in Result
      BY <2>1, <1>c DEF Chosen
    <2> QED
      BY <1>21, <2>2 DEF Merge
  <1>22. CASE FindCryptLibraries
    BY <1>22, <1>c DEF FindCryptLibraries
  <1>23. CASE SsimThrows \/ SsimProblem
    BY <1>23, <1>c DEF SsimThrows, SsimProblem
  <1>24. CASE SsimCompared
    BY <1>24, <1>c, <1>e, <1>a DEF SsimCompared
  <1>25. CASE AuthenticodeUnsigned
    BY <1>25, <1>c DEF AuthenticodeUnsigned
  <1>26. CASE AuthenticodeCertificate
    BY <1>26, <1>c DEF AuthenticodeCertificate
  <1>27. CASE AuthenticodeEnd
    BY <1>27 DEF AuthenticodeEnd
  <1>28. CASE Join
    BY <1>28 DEF Join, Result
  <1>29. CASE Ended \/ UNCHANGED vars
    BY <1>29 DEF Ended, vars
  <1> QED
    BY <1>1, <1>2, <1>3, <1>4, <1>5, <1>6, <1>7, <1>8, <1>9, <1>10, <1>11, <1>12, <1>13,
       <1>14, <1>15, <1>16, <1>17, <1>18, <1>19, <1>20, <1>21, <1>22, <1>23, <1>24, <1>25,
       <1>26, <1>27, <1>28, <1>29, Zenon DEF Next
-------------------------------------------------------------------------------
(* Nothing is kept back.                                                   *)

LEMMA TellsInit == Init => TellsAll
  BY DEF Init, TellsAll, Bare, Empty

\* A check that leaves information behind keeps nothing back.
LEMMA InformedTells ==
    ASSUME TellsAll, res'.info, UNCHANGED other, pc' # "joined"
    PROVE  TellsAll'
  BY DEF TellsAll

\* Neither does a step that leaves the result as it was.
LEMMA SameTells ==
    ASSUME TellsAll, UNCHANGED <<plugin, res, other, quiet>>, pc' # "joined", pc # "joined",
           plugin = "virustotal" => pc # "done"
    PROVE  TellsAll'
  BY DEF TellsAll, Bare, Excused

LEMMA TellsNext == Typed /\ TellsAll /\ [Next]_vars => TellsAll'
  <1> SUFFICES ASSUME Typed, TellsAll, [Next]_vars PROVE TellsAll'
    OBVIOUS
  <1> USE DEF Check, When
  <1>a. SUSPICIOUS \in SAFE..MALICIOUS /\ MALICIOUS \in SAFE..MALICIOUS
    BY DEF SAFE, SUSPICIOUS, MALICIOUS
  <1>b. res \in Result /\ other \in Result
    BY DEF Typed
  <1>1. CASE PackerSection
    <2>1. \/ res'.info
          \/ res' = res /\ UNCHANGED quiet
          \/ res' = Raise(res, SUSPICIOUS) /\ quiet'
      <3>1. PICK name \in {"common", "unusual", "packer"}, wx \in BOOLEAN, entropy \in BOOLEAN :
                LET named == When(name = "packer", Summarise(res, "finding"), res)
                    r1 == When(name # "common", Report(named, SUSPICIOUS), res)
                    r2 == When(wx, Report(r1, SUSPICIOUS), r1)
                IN  /\ res' = When(entropy, Raise(r2, SUSPICIOUS), r2)
                    /\ quiet' = (quiet \/ entropy)
        BY <1>1 DEF PackerSection
      <3>2. CASE name # "common" \/ wx
        BY <3>1, <3>2, <1>b DEF Result, Raise, Report, Inform, Summarise
      <3>3. CASE name = "common" /\ ~wx /\ entropy
        BY <3>1, <3>3
      <3>4. CASE name = "common" /\ ~wx /\ ~entropy
        BY <3>1, <3>4 DEF Typed
      <3> QED
        BY <3>2, <3>3, <3>4
    <2>2. plugin = "packer" /\ UNCHANGED <<plugin, other>> /\ pc = "start" /\ pc' = "start"
      BY <1>1 DEF PackerSection
    <2>3. CASE res'.info
      BY <2>2, <2>3, InformedTells
    <2>4. CASE res' = res /\ UNCHANGED quiet
      BY <2>2, <2>4, SameTells
    <2>5. CASE res' = Raise(res, SUSPICIOUS) /\ quiet'
      BY <2>2, <2>5, <1>b
         DEF TellsAll, Bare, Excused, Result, Raise, NO_OPINION, SUSPICIOUS, SAFE, MALICIOUS
    <2> QED
      BY <2>1, <2>3, <2>4, <2>5
  <1>2. CASE PackerDotNet
    BY <1>2, SameTells DEF PackerDotNet
  <1>3. CASE PackerImports
    BY <1>3, <1>a, <1>b, ReportFields, InformedTells, SameTells DEF PackerImports
  <1>4. CASE PackerResources
    BY <1>4, <1>a, <1>b, ReportFields, InformedTells, SameTells DEF PackerResources
  <1>5. CASE PackerRich
    BY <1>5, <1>b, InformedTells, SameTells
       DEF PackerRich, Report, Inform, IfNone, Raise, Summarise, Result
  <1>6. CASE PackerSummary
    BY <1>6, <1>b DEF PackerSummary, TellsAll, IfNone, Summarise, Bare, Excused, Result
  <1>7. CASE PackerThrows
    BY <1>7, SameTells DEF PackerThrows
  <1>8. CASE ImportsCheck
    BY <1>8, <1>b, InformedTells DEF ImportsCheck, Report, Inform, Raise, Result
  <1>9. CASE ImportsSummary
    BY <1>9, <1>b DEF ImportsSummary, TellsAll, Summarise, Bare, Excused, Result
  <1>10. CASE ResourcesCheck
    BY <1>10, <1>b, InformedTells DEF ResourcesCheck, Report, Inform, Raise, Result
  <1>11. CASE ResourcesSummary
    BY <1>11, <1>b
       DEF ResourcesSummary, TellsAll, Report, Inform, Raise, IfNone, Summarise, Bare, Excused,
           Result, NO_OPINION
  <1>12. CASE OverlayFound
    BY <1>12, <1>b, InformedTells DEF OverlayFound, Report, Inform, Raise, Summarise, Result
  <1>13. CASE MitigationFound
    BY <1>13, <1>b, InformedTells DEF MitigationFound, Inform, Summarise, Result
  <1>14. CASE NothingToSay
    BY <1>14, SameTells DEF NothingToSay
  <1>15. CASE VirusTotalScan
    BY <1>15, <1>b, InformedTells DEF VirusTotalScan, Inform, Result
  <1>16. CASE VirusTotalNoScore
    BY <1>16, <1>b, InformedTells DEF VirusTotalNoScore, Inform, Summarise, Result
  <1>17. CASE VirusTotalScore
    BY <1>17, <1>b
       DEF VirusTotalScore, TellsAll, Bare, Excused, Inform, Summarise, Result
  <1>18. CASE VirusTotalThrows
    BY <1>18, SameTells DEF VirusTotalThrows
  <1>19. CASE Scan
    BY <1>19 DEF Scan, TellsAll, Scanned, Empty, Bare
  <1>20. CASE SecondScan
    BY <1>20 DEF SecondScan, TwoScans, TellsAll, Scanned, Empty, Bare, Excused
  <1>21. CASE Merge
    BY <1>21, <1>b
       DEF Merge, Chosen, Merged, IsEmpty, TwoScans, TellsAll, Summarise, Raise, Bare, Excused, Result
  <1>22. CASE FindCryptLibraries
    BY <1>22, <1>b
       DEF FindCryptLibraries, TellsAll, Inform, IfNone, Summarise, Bare, Excused, Result
  <1>23. CASE SsimThrows \/ SsimProblem
    BY <1>23, <1>b, InformedTells, SameTells DEF SsimThrows, SsimProblem, Inform, Summarise, Result
  <1>24. CASE SsimCompared
    BY <1>24, <1>b, InformedTells DEF SsimCompared, Inform, Summarise, Result
  <1>25. CASE AuthenticodeUnsigned
    BY <1>25, <1>b, InformedTells, SameTells
       DEF AuthenticodeUnsigned, Report, Inform, Raise, Summarise, Result
  <1>26. CASE AuthenticodeCertificate
    BY <1>26, <1>b, ZenonT(40)
       DEF AuthenticodeCertificate, TellsAll, Bare, Excused, Inform, Raise, Summarise, Result,
           NO_OPINION, MALICIOUS
  <1>27. CASE AuthenticodeEnd
    BY <1>27, SameTells DEF AuthenticodeEnd
  <1>28. CASE Join
    BY <1>28, <1>b DEF Join, TellsAll, Bare, Excused, Result
  <1>29. CASE Ended \/ UNCHANGED vars
    BY <1>29 DEF Ended, vars, TellsAll, Bare, Excused
  <1> QED
    BY <1>1, <1>2, <1>3, <1>4, <1>5, <1>6, <1>7, <1>8, <1>9, <1>10, <1>11, <1>12, <1>13,
       <1>14, <1>15, <1>16, <1>17, <1>18, <1>19, <1>20, <1>21, <1>22, <1>23, <1>24, <1>25,
       <1>26, <1>27, <1>28, <1>29, Zenon DEF Next

\* Whatever a plugin concludes reaches the report, with the three exceptions that
\* OpinionIsShown names, for every number of sections, resources, engines, scans and
\* certificates that the checks of the fourteen plugins go through (main.cpp:394).
THEOREM OpinionsAreShown == Spec => []OpinionIsShown
  <1>1. Typed /\ TellsAll => OpinionIsShown
    BY DEF Typed, TellsAll, Bare, Excused, OpinionIsShown
  <1> QED
    BY <1>1, TypedInit, TypedNext, TellsInit, TellsNext, PTL DEF Spec

-------------------------------------------------------------------------------
(* The summary is about what was found.                                    *)

LEMMA SumsUpInit == MaxCertificates <= 1 /\ Init => SumsUp
  <1> SUFFICES ASSUME MaxCertificates <= 1, Init PROVE SumsUp
    OBVIOUS
  <1>1. left <= 1
    BY CertificatesAssumption DEF Init
  <1>2. Summed(Empty)
    BY DEF Summed, Empty, NO_OPINION
  <1> QED
    BY <1>1, <1>2 DEF Init, SumsUp, Concluded, Underway, Empty

LEMMA SumsUpNext == Typed /\ SumsUp /\ [Next]_vars => SumsUp'
  <1> SUFFICES ASSUME Typed, SumsUp, [Next]_vars PROVE SumsUp'
    OBVIOUS
  <1> USE DEF Check, When, SumsUp, Concluded, Underway, TwoScans
  <1>a. SUSPICIOUS \in SAFE..MALICIOUS /\ MALICIOUS \in SAFE..MALICIOUS
    BY DEF SAFE, SUSPICIOUS, MALICIOUS
  <1>b. res \in Result /\ other \in Result
    BY DEF Typed
  <1>1. CASE PackerSection
    BY <1>1, <1>b DEF PackerSection, Report, Inform, Raise, Summarise, Result
  <1>2. CASE PackerDotNet
    BY <1>2 DEF PackerDotNet, Summed
  <1>3. CASE PackerImports
    BY <1>3, <1>a, <1>b, ReportFields DEF PackerImports
  <1>4. CASE PackerResources
    BY <1>4, <1>a, <1>b, ReportFields DEF PackerResources
  <1>5. CASE PackerRich
    BY <1>5, <1>b DEF PackerRich, Report, Inform, IfNone, Raise, Summarise, Result
  <1>6. CASE PackerSummary
    BY <1>6, <1>b DEF PackerSummary, IfNone, Summarise, Summed, Result, NO_OPINION
  <1>7. CASE PackerThrows
    BY <1>7 DEF PackerThrows
  <1>8. CASE ImportsCheck
    BY <1>8 DEF ImportsCheck
  <1>9. CASE ImportsSummary
    BY <1>9, <1>b DEF ImportsSummary, Summarise, Summed, Result, NO_OPINION
  <1>10. CASE ResourcesCheck
    BY <1>10, <1>b DEF ResourcesCheck, Report, Inform, Raise, Result
  <1>11. CASE ResourcesSummary
    BY <1>11, <1>b
       DEF ResourcesSummary, Report, Inform, Raise, IfNone, Summarise, Summed, Result, NO_OPINION
  <1>12. CASE OverlayFound
    BY <1>12, <1>b DEF OverlayFound, Report, Inform, Raise, Summarise, Summed, Result
  <1>13. CASE MitigationFound
    BY <1>13, <1>b DEF MitigationFound, Inform, Summarise, Summed, Result, NO_OPINION
  <1>14. CASE NothingToSay
    BY <1>14 DEF NothingToSay, Empty, Summed, NO_OPINION
  <1>15. CASE VirusTotalScan
    BY <1>15, <1>b DEF VirusTotalScan, Inform, Result
  <1>16. CASE VirusTotalNoScore
    BY <1>16, <1>b DEF VirusTotalNoScore, Inform, Summarise, Summed, Result, NO_OPINION
  <1>17. CASE VirusTotalScore
    BY <1>17, <1>b DEF VirusTotalScore, Inform, Summarise, Summed, Result, NO_OPINION, SAFE
  <1>18. CASE VirusTotalThrows
    BY <1>18 DEF VirusTotalThrows
  <1>19. CASE Scan
    BY <1>19 DEF Scan, Yara, ScanLevel, Scanned, Empty, Summed, NO_OPINION
  <1>20. CASE SecondScan
    BY <1>20 DEF SecondScan, Scanned, Empty, Summed, NO_OPINION, MALICIOUS
  <1>21. CASE Merge
    BY <1>21, <1>b DEF Merge, Chosen, Merged, Summarise, Raise, Summed, Result, NO_OPINION, SAFE, MALICIOUS
  <1>22. CASE FindCryptLibraries
    BY <1>22, <1>b DEF FindCryptLibraries, Inform, IfNone, Summarise, Summed, Result, NO_OPINION
  <1>23. CASE SsimThrows \/ SsimProblem
    <2>1. CASE SsimThrows
      BY <2>1 DEF SsimThrows
    <2>2. CASE SsimProblem
      BY <2>2, <1>b DEF SsimProblem, Inform, Summarise, Summed, Result, NO_OPINION
    <2> QED
      BY <1>23, <2>1, <2>2
  <1>24. CASE SsimCompared
    BY <1>24, <1>b DEF SsimCompared, Inform, Summarise, Summed, Result
  <1>25. CASE AuthenticodeUnsigned
    BY <1>25, <1>b
       DEF AuthenticodeUnsigned, Report, Inform, Raise, Summarise, Summed, Result, NO_OPINION
  <1>26. CASE AuthenticodeCertificate
    BY <1>26, <1>b
       DEF AuthenticodeCertificate, Inform, Raise, Summarise, Summed, Result, Typed,
           NO_OPINION, MALICIOUS
  <1>27. CASE AuthenticodeEnd
    BY <1>27 DEF AuthenticodeEnd
  <1>28. CASE Join
    BY <1>28 DEF Join
  <1>29. CASE Ended \/ UNCHANGED vars
    BY <1>29 DEF Ended, vars
  <1> QED
    BY <1>1, <1>2, <1>3, <1>4, <1>5, <1>6, <1>7, <1>8, <1>9, <1>10, <1>11, <1>12, <1>13,
       <1>14, <1>15, <1>16, <1>17, <1>18, <1>19, <1>20, <1>21, <1>22, <1>23, <1>24, <1>25,
       <1>26, <1>27, <1>28, <1>29, Zenon DEF Next

\* A result that raises suspicion has a summary that speaks of a finding, with the
\* exceptions that OpinionIsSummarised names, however many checks set the summary in
\* turn.  A second certificate could replace the summary of the first
\* (plugin_authenticode_openssl.cpp:213-226); the parser never finds a second one
\* (pe.cpp:1057, AtMostOneCertificate of DirectoriesProofs), which is the hypothesis.
THEOREM OpinionsAreSummarised ==
    ASSUME MaxCertificates <= 1
    PROVE  Spec => []OpinionIsSummarised
  <1>1. SumsUp => OpinionIsSummarised
    BY DEF SumsUp, Concluded, Summed, OpinionIsSummarised
  <1>2. Init => SumsUp
    BY SumsUpInit
  <1> QED
    BY <1>1, <1>2, TypedInit, TypedNext, SumsUpNext, PTL DEF Spec
===============================================================================
