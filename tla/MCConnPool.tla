----------------------------- MODULE MCConnPool -----------------------------
(* Three requests of which two have the same message ID.                    *)
EXTENDS ConnPool, TLC

CONSTANTS r1, r2, r3

MCId == r1 :> 1 @@ r2 :> 1 @@ r3 :> 2
=============================================================================
