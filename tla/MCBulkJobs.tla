------------------------------ MODULE MCBulkJobs ------------------------------
(* A small instance of BulkJobs: a job of three items in two chunks.         *)
EXTENDS BulkJobs, TLC

CONSTANTS k1, k2, i1, i2, i3, r1, r2

SmallItemsOf == k1 :> {i1, i2} @@ k2 :> {i3}
===============================================================================
