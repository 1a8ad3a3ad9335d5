--------------------------- MODULE MCLedgerTable ---------------------------
(***************************************************************************)
(* A small LedgerTable: hashes that collide at every capacity it can reach *)
(* and whose probes wrap around the end of the table.                      *)
(***************************************************************************)
EXTENDS LedgerTable

CONSTANTS MaxLines, MaxExtra

Colliding == {1, 7, 15, 23}
ShortFiles == UNION {[1..n -> Hash \cup {Other}] : n \in 0..MaxLines}
FewExtras == 0..MaxExtra
=============================================================================
