---------------------------- MODULE MCWatchtower ----------------------------
(***************************************************************************)
(* Watchtower on the four agents of the deployed service, one of which may *)
(* lose events, answers and its memory.                                    *)
(***************************************************************************)
EXTENDS Watchtower

CONSTANTS c1, o1, o2

MCQuorums ==
  {Q \in SUBSET Agents : 3 * Cardinality(Q) > 2 * Cardinality(Agents)}

\* The two parts of the one conditional order.
MCPart(c, k) == IF k = 0 THEN o1 ELSE o2

=============================================================================
