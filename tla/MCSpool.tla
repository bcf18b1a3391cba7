------------------------------ MODULE MCSpool ------------------------------
(* The scanner's spool for TLC.  Two photographs are two pages of one      *)
(* letter, two letters, or a page and the envelope that ends it; two power *)
(* cuts hit every pair of points there is between two renames, so also the *)
(* clearing up after the first.                                            *)
EXTENDS Spool
=============================================================================
