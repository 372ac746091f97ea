------------------------------ MODULE MCVerdicts ------------------------------
(* All plugins of the repository, for TLC.                                  *)
EXTENDS Verdicts

MCPlugin ==
    {"packer", "imports", "resources", "overlay", "mitigation", "virustotal",
     "clamav", "compilers", "peid", "strings", "findcrypt", "cryptoaddress",
     "icon_analyze", "authenticode"}
===============================================================================
