-------------------------- MODULE MCPerfController --------------------------
(* Constants for PerfController: a user or an eng build, the installed     *)
(* library complete, lacking userEnable, or missing.                       *)
EXTENDS PerfController

MCSimProps == {<<"", "">>, <<"0", "1">>, <<"1", "">>}

MCLibVersions == {SymbolSet, SymbolSet \ {"userEnable"}, {}}

\* userRegScn() returns -1 when PerfService refuses.
MCFailCodes == {-1}

\* Token counts of the core/freq properties: none, one pair, an odd count,
\* and more than MAX_CLUSTER pairs.
MCTokenCounts == {0, 2, 3, 22}
=============================================================================
