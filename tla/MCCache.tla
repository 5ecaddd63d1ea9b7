------------------------------ MODULE MCCache ------------------------------
(* The write policies the constructor takes, for TLC. *)
EXTENDS CacheLRU

AllPolicies == {"WRITE_BACK", "WRITE_THROUGH"}
                 \X {"WRITE_ALLOCATE", "NO_WRITE_ALLOCATE"}
=============================================================================
