----------------------------- MODULE MCMigration -----------------------------
(* Instances of Migration, with the devices of BlobSync, for TLC. *)
EXTENDS Migration, TLC

TwoScopes == <<"profile", "chat">>
AllChats  == [r \in Rows |-> "chat"]

Symmetry == Permutations(Devices)
=============================================================================
