------------------------------- MODULE Verdicts -------------------------------
(***************************************************************************)
(* What the plugins conclude.  Every plugin's analyze() makes a Result and *)
(* calls raise_level, set_level, set_summary and add_information on it as  *)
(* its checks come out; handle_plugins_option shows the result if it has   *)
(* information.  The checks themselves are heuristics over the bytes of    *)
(* the file: here they may come out either way.                            *)
(*                                                                         *)
(* A result is reduced to its level, to whether it has information, and to *)
(* whether its summary speaks of a finding or is neutral, that is, given   *)
(* to files without any finding too.  How a Result keeps them is the       *)
(* subject of PluginResult.  The authenticode plugin is that for OpenSSL.  *)
(***************************************************************************)
EXTENDS Integers, FiniteSets

CONSTANTS
    Plugin,           \* the plugins, by their ids
    MaxCertificates   \* the certificates of a PE, see Certificates

ASSUME PluginAssumption ==
    Plugin \subseteq {"packer", "imports", "resources", "overlay", "mitigation",
                      "virustotal", "clamav", "compilers", "peid", "strings",
                      "findcrypt", "cryptoaddress", "icon_analyze", "authenticode"}
ASSUME CertificatesAssumption == MaxCertificates \in Nat

VARIABLES
    plugin,   \* the plugin that runs
    pc,       \* the check it is at
    res,      \* its result
    other,    \* the result of a second scan
    left,     \* the certificates still to be looked at
    quiet,    \* history: a check raised the level, or summed up, without information
    net,      \* history: the file was taken for a .NET executable
    shown     \* the result is in the report

vars == <<plugin, pc, res, other, left, quiet, net, shown>>

SAFE == 0
NO_OPINION == 1
SUSPICIOUS == 2
MALICIOUS == 3

Summary == {"none", "neutral", "finding"}
Result == [level : SAFE..MALICIOUS, summary : Summary, info : BOOLEAN]
Empty == [level |-> NO_OPINION, summary |-> "none", info |-> FALSE]

\* raise_level, add_information and set_summary.
Raise(r, level) == [r EXCEPT !.level = IF level > @ THEN level ELSE @]
Inform(r) == [r EXCEPT !.info = TRUE]
Summarise(r, s) == [r EXCEPT !.summary = s]

\* The checks that do several of them.
Report(r, level) == Inform(Raise(r, level))
IfNone(r, s) == IF r.summary = "none" THEN Summarise(r, s) ELSE r
When(b, r, s) == IF b THEN r ELSE s

IsEmpty(r) == r.summary = "none" /\ ~r.info

Init ==
    /\ plugin \in Plugin
    /\ pc = "start"
    /\ res = Empty /\ other = Empty
    /\ left \in 0..(IF plugin = "authenticode" THEN MaxCertificates ELSE 0)
    /\ quiet = FALSE /\ net = FALSE
    /\ shown = FALSE

\* A check of plugin p at place a that leaves its result at r and goes on at b.
Check(p, a, r, b) ==
    /\ plugin = p /\ pc = a
    /\ res' = r
    /\ pc' = b
    /\ UNCHANGED <<plugin, other, left, net, shown>>

-------------------------------------------------------------------------------
(* plugin_packer_detection.cpp                                             *)

\* One section: its name, its characteristics, its entropy.
PackerSection ==
    \E name \in {"common", "unusual", "packer"}, wx, entropy \in BOOLEAN :
        LET named == When(name = "packer", Summarise(res, "finding"), res)
            r1 == When(name # "common", Report(named, SUSPICIOUS), res)
            r2 == When(wx, Report(r1, SUSPICIOUS), r1)
        IN  /\ Check("packer", "start", When(entropy, Raise(r2, SUSPICIOUS), r2), "start")
            /\ quiet' = (quiet \/ entropy)

\* A .NET executable: there is nothing more to say of it.
PackerDotNet ==
    /\ plugin = "packer" /\ pc = "start"
    /\ net' = TRUE
    /\ pc' = "done"
    /\ UNCHANGED <<plugin, res, other, left, quiet, shown>>

PackerImports ==
    \E few \in BOOLEAN :
        /\ Check("packer", "start", When(few, Report(res, SUSPICIOUS), res), "sizes")
        /\ UNCHANGED quiet

\* min_imports is no int: only text that is no number at all is caught.
PackerThrows ==
    /\ Check("packer", "start", res, "terminated")
    /\ UNCHANGED quiet

\* Mutant: the sizes of the resources raise the level without a word.
PackerResourcesSilent ==
    \E large \in BOOLEAN :
        /\ Check("packer", "sizes", When(large, Raise(res, SUSPICIOUS), res), "rich")
        /\ UNCHANGED quiet

PackerResources ==
    \E large \in BOOLEAN :
        /\ Check("packer", "sizes", When(large, Report(res, SUSPICIOUS), res), "rich")
        /\ UNCHANGED quiet

\* rich_header_tests: nothing, if there is no such header.
PackerRich ==
    \E tampered, inconsistent \in BOOLEAN :
        LET r == When(tampered, Report(IfNone(res, "finding"), MALICIOUS), res)
        IN  /\ Check("packer", "rich",
                     When(inconsistent, Report(IfNone(r, "finding"), SUSPICIOUS), r),
                     "default")
            /\ UNCHANGED quiet

PackerSummary ==
    /\ Check("packer", "default",
             When(res.level # NO_OPINION, IfNone(res, "finding"), res), "done")
    /\ UNCHANGED quiet

-------------------------------------------------------------------------------
(* plugin_imports.cpp, plugin_resources.cpp, plugin_overlay.cpp and        *)
(* plugin_mitigation.cpp                                                   *)

\* check_functions and check_dlls.
ImportsCheck ==
    \E level \in NO_OPINION..MALICIOUS :
        /\ Check("imports", "start", Report(res, level), "start")
        /\ UNCHANGED quiet

ImportsSummary ==
    /\ Check("imports", "start",
             IF res.level # NO_OPINION THEN Summarise(res, "finding")
             ELSE When(res.info, Summarise(res, "neutral"), res),
             "done")
    /\ UNCHANGED quiet

\* One resource: a type that is recognised, or a high entropy.
ResourcesCheck ==
    \E level \in NO_OPINION..MALICIOUS :
        /\ Check("resources", "start", Report(res, level), "start")
        /\ UNCHANGED quiet

\* check_resource_timestamps, the ratio, and the summary.
ResourcesSummary ==
    \E timezone, differ, ratio \in BOOLEAN :
        LET r1 == When(timezone, Inform(res), res)
            r2 == When(differ, Report(Summarise(r1, "finding"), SUSPICIOUS), r1)
            r3 == When(ratio, Report(r2, SUSPICIOUS), r2)
        IN  /\ Check("resources", "start",
                     IF r3.level > NO_OPINION THEN IfNone(r3, "finding")
                     ELSE When(r3.info, IfNone(r3, "neutral"), r3),
                     "done")
            /\ UNCHANGED quiet

\* There is overlay data.  It is looked at if the rules can be loaded.
OverlayFound ==
    \E level \in {SUSPICIOUS, MALICIOUS} :
        /\ Check("overlay", "start",
                 Report(Report(Summarise(res, "finding"), SUSPICIOUS), level), "done")
        /\ UNCHANGED quiet

MitigationFound ==
    /\ Check("mitigation", "start", Summarise(Inform(res), "neutral"), "done")
    /\ UNCHANGED quiet

\* There is no overlay, no optional header, no key, no answer; the rules of the
\* resources plugin cannot be loaded.
NothingToSay ==
    \E p \in {"overlay", "mitigation", "virustotal", "resources"} :
        /\ res = Empty
        /\ Check(p, "start", res, "done")
        /\ UNCHANGED quiet

-------------------------------------------------------------------------------
(* plugin_virustotal.cpp                                                   *)

\* The result of an engine that detected something.
VirusTotalScan ==
    /\ Check("virustotal", "start", Inform(res), "start")
    /\ UNCHANGED quiet

\* The file is not known, or waits for a scan.
VirusTotalNoScore ==
    \E level \in {SUSPICIOUS, NO_OPINION} :
        /\ Check("virustotal", "start",
                 Inform(Summarise([res EXCEPT !.level =
                     IF level = SUSPICIOUS THEN level ELSE @], "neutral")),
                 "done")
        /\ UNCHANGED quiet

\* The number of positives, which nothing relates to the scans of the answer.
VirusTotalScore ==
    \E level \in {SAFE, SUSPICIOUS, MALICIOUS} :
        LET r == [Summarise(res, IF level = SAFE THEN "neutral" ELSE "finding")
                     EXCEPT !.level = level]
        IN  /\ Check("virustotal", "start", When(level = SAFE, Inform(r), r), "done")
            /\ quiet' = (level # SAFE /\ ~res.info)

\* A member of the answer has another type than the code takes for granted.
VirusTotalThrows ==
    /\ Check("virustotal", "start", res, "terminated")
    /\ UNCHANGED quiet

-------------------------------------------------------------------------------
(* plugins_yara.cpp                                                        *)

\* The level of the first scan of each plugin.
ScanLevel(p) ==
    CASE p \in {"clamav", "cryptoaddress"}   -> MALICIOUS
      [] p \in {"peid", "strings"}           -> SUSPICIOUS
      [] p \in {"compilers", "findcrypt"}    -> NO_OPINION

Yara == {"clamav", "compilers", "peid", "strings", "findcrypt", "cryptoaddress"}
TwoScans == {"strings", "cryptoaddress"}

\* YaraPlugin::scan: the result, if rules match with strings that are kept.
Scanned(level) ==
    [level |-> level, info |-> TRUE,
     summary |-> IF level = NO_OPINION THEN "neutral" ELSE "finding"]

\* The rules cannot be loaded, nothing matches, or all matches are filtered out.
Scan ==
    \E p \in Yara : \E r \in {Empty, Scanned(ScanLevel(p))} :
        /\ Check(p, "start", r,
                 IF p \in TwoScans THEN "second"
                 ELSE IF p = "findcrypt" THEN "libraries" ELSE "done")
        /\ UNCHANGED quiet

\* The second scan: of domain names, or of addresses of another currency.
SecondScan ==
    /\ plugin \in TwoScans /\ pc = "second"
    /\ other' \in {Empty, Scanned(IF plugin = "strings" THEN NO_OPINION ELSE MALICIOUS)}
    /\ pc' = "merge"
    /\ UNCHANGED <<plugin, res, left, quiet, net, shown>>

\* Result::merge: the summary stays.
Merged(r, s) == [Raise(r, s.level) EXCEPT !.info = @ \/ s.info]

\* Mutant: the first result is merged into the second.
ChosenSecond == IF IsEmpty(res) THEN other ELSE IF IsEmpty(other) THEN res ELSE Merged(other, res)

\* What analyze returns.
Chosen ==
    IF IsEmpty(res) THEN other
    ELSE IF IsEmpty(other) THEN res
    ELSE Merged(When(plugin = "cryptoaddress", Summarise(res, "finding"), res), other)

Merge ==
    \E p \in TwoScans : Check(p, "merge", Chosen, "done") /\ UNCHANGED quiet

\* The libraries findcrypt looks for.
FindCryptLibraries ==
    \E found \in BOOLEAN :
        LET r == When(found, Inform(res), res)
        IN  /\ Check("findcrypt", "libraries", When(r.info, IfNone(r, "neutral"), r), "done")
            /\ UNCHANGED quiet

-------------------------------------------------------------------------------
(* plugin_ssim.cpp                                                         *)

\* No group of icons, or a last one that cannot be reconstructed: buffer is null
\* when it is asked whether it is empty.  Or the directory of the database is
\* missing, and the iterator over it throws.
SsimThrows ==
    /\ Check("icon_analyze", "start", res, "terminated")
    /\ UNCHANGED quiet

\* The icon or the database cannot be used.
SsimProblem ==
    /\ Check("icon_analyze", "start", Inform(Summarise(res, "neutral")), "done")
    /\ UNCHANGED quiet

\* The icon is compared: the level does not depend on how similar it is.
SsimCompared ==
    \E s \in {"finding", "neutral"} :
        /\ Check("icon_analyze", "start",
                 Inform(Summarise([res EXCEPT !.level = SUSPICIOUS], s)), "done")
        /\ UNCHANGED quiet

-------------------------------------------------------------------------------
(* plugin_authenticode_openssl.cpp and commons.cpp                         *)

\* No signature: check_version_info.
AuthenticodeUnsigned ==
    /\ left = 0 /\ IsEmpty(res)
    /\ \E misleading \in BOOLEAN :
           Check("authenticode", "start",
                 When(misleading, Report(Summarise(res, "finding"), MALICIOUS), res), "done")
    /\ UNCHANGED quiet

\* The next certificate: one that cannot be used is skipped; the signers are
\* listed, if they are found; then the digest is compared.
AuthenticodeCertificate ==
    /\ plugin = "authenticode" /\ pc \in {"start", "certificates"} /\ left > 0
    /\ left' = left - 1
    /\ pc' = "certificates"
    /\ \E usable, signers, valid \in BOOLEAN :
           LET r == When(signers, Inform(res), res)
           IN  /\ res' = IF ~usable THEN res
                         ELSE When(valid, Summarise(r, "neutral"),
                                   Inform(Summarise(Raise(r, MALICIOUS), "finding")))
               /\ quiet' = (quiet \/ (usable /\ valid /\ ~signers))
    /\ UNCHANGED <<plugin, other, net, shown>>

AuthenticodeEnd ==
    /\ left = 0
    /\ Check("authenticode", "certificates", res, "done")
    /\ UNCHANGED quiet

-------------------------------------------------------------------------------
(* handle_plugins_option                                                   *)

\* The result of the plugin is appended to the report if it has information.
Join ==
    /\ pc = "done"
    /\ shown' = res.info
    /\ pc' = "joined"
    /\ UNCHANGED <<plugin, res, other, left, quiet, net>>

Ended ==
    /\ pc \in {"joined", "terminated"}
    /\ UNCHANGED vars

Next ==
    \/ PackerSection \/ PackerDotNet \/ PackerImports \/ PackerResources
    \/ PackerRich \/ PackerSummary \/ PackerThrows
    \/ ImportsCheck \/ ImportsSummary \/ ResourcesCheck \/ ResourcesSummary
    \/ OverlayFound \/ MitigationFound \/ NothingToSay
    \/ VirusTotalScan \/ VirusTotalNoScore \/ VirusTotalScore \/ VirusTotalThrows
    \/ Scan \/ SecondScan \/ Merge \/ FindCryptLibraries
    \/ SsimThrows \/ SsimProblem \/ SsimCompared
    \/ AuthenticodeUnsigned \/ AuthenticodeCertificate \/ AuthenticodeEnd
    \/ Join \/ Ended

Spec == Init /\ [][Next]_vars

-------------------------------------------------------------------------------
(* Properties.                                                             *)

\* Whatever a plugin concludes reaches the report, with three exceptions: the
\* packer plugin, if the only finding is the entropy of a section; VirusTotal, if
\* the answer has a score but no results; and a valid signature without signers
\* (main.cpp:394, plugin_packer_detection.cpp:218-224, plugin_virustotal.cpp:167-180,
\* plugin_authenticode_openssl.cpp:124-131 and 213-226).
OpinionIsShown ==
    (pc = "joined" /\ ~shown) =>
        \/ res.level = NO_OPINION /\ res.summary = "none"
        \/ /\ quiet
           /\ \/ plugin = "packer" /\ res.level = SUSPICIOUS
              \/ plugin = "virustotal" /\ res.level \in {SUSPICIOUS, MALICIOUS}
              \/ plugin = "authenticode" /\ res.level = NO_OPINION

\* A result that raises suspicion has a summary that speaks of a finding, also
\* where two results are merged or several checks set the summary in turn; except
\* a .NET executable, for which the packer plugin returns before its default
\* summary, an icon that is not similar to any other, and a file that VirusTotal
\* does not know (plugin_packer_detection.cpp:231-240 and 285, plugins_yara.cpp:352-372,
\* plugin_ssim.cpp:202-223, plugin_virustotal.cpp:121-128).
OpinionIsSummarised ==
    (pc = "joined" /\ res.level > NO_OPINION) =>
        \/ res.summary = "finding"
        \/ net /\ plugin = "packer" /\ res.summary = "none"
        \/ plugin \in {"icon_analyze", "virustotal"} /\ res.level = SUSPICIOUS
              /\ res.summary = "neutral"

\* A plugin that raises the level adds information, as it must
\* (docs/writing-plugins.rst:210): its opinion is shown.
OpinionNeedsInformation ==
    (pc = "joined" /\ res.level # NO_OPINION) => shown
===============================================================================
