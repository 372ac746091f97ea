-------------------------- MODULE MCPluginAnalysis ---------------------------
(* Small instances of PluginAnalysis for TLC: a file of 5 bytes, 3-bit      *)
(* section headers, and three plugins.                                      *)
EXTENDS PluginAnalysis

Section(o, l) == [kind |-> "section", off |-> o, len |-> l]
Raw(l)        == [kind |-> "raw", off |-> 0, len |-> l]
Overlay(o, l) == [kind |-> "overlay", off |-> o, len |-> l]

\* The main thread dumps a good section and one whose end wraps around; the
\* first plugin reads sections and the headers (packer), the second reads
\* nothing (imports), the third reads the overlay to the end of the file.
MCRequests ==
    [t \in Thread |->
        CASE t = 0 -> <<Section(1, 2), Section(6, 3)>>
          [] t = 1 -> <<Section(4, 4), Section(2, 2), Raw(9)>>
          [] t = 2 -> <<>>
          [] t = 3 -> <<Overlay(3, 9), Overlay(6, 9)>>]
===============================================================================
