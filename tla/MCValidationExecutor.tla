------------------------ MODULE MCValidationExecutor ------------------------
(* Four requests compete for three admissions and two workers.               *)
EXTENDS ValidationExecutor

CONSTANTS r1, r2, r3, r4
=============================================================================
