----------------------------- MODULE MCSubgraph -----------------------------
(* TLC's instance of Subgraph: the constants are those of MCTaskEscrow.     *)
EXTENDS Subgraph, MCTaskEscrow
==============================================================================
