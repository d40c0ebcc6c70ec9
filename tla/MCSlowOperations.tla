--------------------------- MODULE MCSlowOperations ---------------------------
(* Instances of SlowOperations for TLC: one model with encrypted fields and *)
(* one without.                                                            *)
EXTENDS SlowOperations

MCEncryptedFields == [t \in Table |-> IF t = "patient" THEN <<"ssn", "bill">> ELSE <<>>]
=============================================================================
