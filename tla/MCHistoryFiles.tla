--------------------------- MODULE MCHistoryFiles ----------------------------
(* HistoryFiles for TLC: two commit pairs, of one blob each or none. *)
EXTENDS HistoryFiles

CONSTANTS b1, b2

MCPairs == {1, 2}
MCNames == {SrcdiffXml, ResultsJson}
\* A pair to work and one that changes nothing srcDiff reads.
OneBlob == <<<<b1>>, << >>>>
\* Two pairs that meet the same reader.
TwoBlobs == <<<<b1>>, <<b2>>>>
=============================================================================
