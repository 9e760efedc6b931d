---------------------------- MODULE MCPipelines ----------------------------
(* Every pipeline of four tables whose SQL mentions any of the others; the   *)
(* first may mention itself.  Since every graph is there, one order of the   *)
(* query stands for all.                                                     *)
EXTENDS Pipelines, TLC

CONSTANTS a, b, c, d

MCTable == {a, b, c, d}
MCQueries == {<<a, b, c, d>>}
MCMentions ==
  {f \in [MCTable -> SUBSET MCTable] : \A t \in {b, c, d} : t \notin f[t]}
=============================================================================
