--------------------------- MODULE MCStatusBoard ---------------------------
(* Small instances of StatusBoard, with the packages Polygon may serve.    *)
EXTENDS StatusBoard

CONSTANTS i1, s1

Files(count, width) ==
    {[zeros |-> width - Digits(t), test |-> t, answer |-> a] :
        t \in 1..count, a \in BOOLEAN}
Package(testsets, count, files) ==
    [testsets |-> testsets, count |-> count, files |-> files,
     complete |-> TRUE, checkerFile |-> TRUE]

\* Names of two digits, as Polygon makes them; unpadded names; a test too few
\* and one too many; two names that become one; no or two test sets; no tests.
\* A package with an incomplete XML, and one without the file it names.
SomePackages ==
    {Package(1, 2, Files(2, 2)), Package(1, 10, Files(10, 2)),
     Package(1, 2, Files(1, 2)), Package(1, 1, Files(2, 2)),
     Package(1, 1, Files(1, 1) \cup Files(1, 2)),
     Package(1, 2, Files(1, 2) \cup Files(1, 1)),
     Package(0, 2, Files(2, 2)), Package(2, 2, Files(2, 2)),
     Package(1, 0, {}),
     [Package(1, 2, Files(2, 2)) EXCEPT !.complete = FALSE],
     [Package(1, 2, Files(2, 2)) EXCEPT !.checkerFile = FALSE]}
    \cup {Package(1, 10, {[f EXCEPT !.zeros = 0] : f \in Files(10, 2)})}
============================================================================
