----------------------------- MODULE MCWebScan -----------------------------
(* A small instance of WebScan: two programs, one of them run by two checks *)
(* and listed twice in tools_precheck, as golismero and davtest are.        *)
EXTENDS WebScan

CONSTANTS nikto1, nikto2, davtest, nikto, dav

ChecksRun     == [c \in {nikto1, nikto2, davtest} |-> IF c = davtest THEN dav ELSE nikto]
PrecheckOrder == <<nikto, dav, nikto>>
=============================================================================
