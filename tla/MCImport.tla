------------------------------ MODULE MCImport ------------------------------
(* Instances of ImportRun for TLC. *)
EXTENDS ImportRun

\* A split export that lists one conversation twice, under two creation times.
MCListing == <<<<"c1", 0>>, <<"c2", 0>>, <<"c1", 1>>>>
=============================================================================
