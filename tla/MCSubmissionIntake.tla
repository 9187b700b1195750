------------------------- MODULE MCSubmissionIntake ------------------------
(* Small instances of SubmissionIntake.                                    *)
EXTENDS SubmissionIntake, TLC

CONSTANTS g1, g2, d1, r1, r2, alice, e1

Symmetry == Permutations(Registrations) \cup Permutations(Emails)
            \cup Permutations(Requests)
============================================================================
