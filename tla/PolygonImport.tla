--------------------------- MODULE PolygonImport ---------------------------
(***************************************************************************)
(* The polygon service: importProblem and all it calls                     *)
(* (polygon-service/src/services), and the names under which the engine    *)
(* opens the test files of the package again (models/job.go).              *)
(*                                                                         *)
(* A file name of a test set is [zeros, test, answer]: the leading zeros   *)
(* of the number, the number, and whether ".a" follows. A package is a     *)
(* record [testsets, count, files, complete, checkerFile]: what its XML     *)
(* says and the files it has.                                              *)
(***************************************************************************)
EXTENDS Integers, FiniteSets

CONSTANTS
    Imports,        \* calls of importProblem; each makes an id of its own
    Packages,       \* packages Polygon may serve
    AllowGenerate,  \* env.polygonAllowGenerateTests
    NoZip

VARIABLES
    service,   \* "up", or "down" between a crash and the end of bootstrap
    import,    \* [Imports -> [at, package, files]]
    workDirs,  \* directories under TMP_BASE_DIR
    bucket,    \* S3: [Imports -> the test files in its zip, or NoZip]
    problems   \* rows of the table: ids that were inserted

importVars == <<service, import, workDirs, bucket, problems>>

NewImport == [at |-> "new", package |-> "none", files |-> {}]

ImportInit ==
    /\ service = "up"
    /\ import = [i \in Imports |-> NewImport]
    /\ workDirs = {}
    /\ bucket = [i \in Imports |-> NoZip]
    /\ problems = {}

-----------------------------------------------------------------------------
(* File names.                                                             *)

Names == [zeros : 0..3, test : Nat \ {0}, answer : BOOLEAN]

Digits(n) == IF n < 10 THEN 1 ELSE IF n < 100 THEN 2 ELSE 3

\* Mutant: the names are checked without their padding.
UnpaddedName(count, i, answer) == [zeros |-> 0, test |-> i, answer |-> answer]

\* String(i).padStart(String(testCount).length, '0'), and ".a".
ExpectedName(count, i, answer) ==
    [zeros |-> Digits(count) - Digits(i), test |-> i, answer |-> answer]

\* fixTestCases: leading zeros are stripped; a file that has the name
\* already is overwritten.
Stripped(files) == {[f EXCEPT !.zeros = 0] : f \in files}

Fixed(package) ==
    IF package.count < 10 THEN Stripped(package.files) ELSE package.files

\* A package has a number of tests and named files, and a zip is not no zip.
ASSUME PackagesAssumption ==
    \A p \in Packages :
        /\ p.count \in Nat
        /\ p.files \subseteq Names
        /\ Fixed(p) # NoZip

\* validateTestCases, after the fix.
ValidTests(count, files) ==
    /\ Cardinality(files) = 2 * count
    /\ \A i \in 1..count, answer \in BOOLEAN :
          ExpectedName(count, i, answer) \in files

\* GetTestFileName and GetAnswerFileName of the engine: "%0*d" with the
\* length of the decimal test count.
TestFileName(count, test, answer) ==
    [zeros |-> Digits(count) - Digits(test), test |-> test, answer |-> answer]

-----------------------------------------------------------------------------
(* importProblem, one step per await that something else can come between. *)

At(i, place) == service = "up" /\ import[i].at = place
Goto(i, place) == import' = [import EXCEPT ![i].at = place]

\* The finally block, with the work directory.
End(i, place) ==
    /\ Goto(i, place)
    /\ workDirs' = workDirs \ {i}

Begin(i) ==
    /\ At(i, "new")
    /\ \E p \in Packages : import' = [import EXCEPT ![i].at = "fetch",
                                                    ![i].package = p]
    /\ workDirs' = workDirs \cup {i}
    /\ UNCHANGED <<service, bucket, problems>>

\* fetchProblemZip: the Linux package, which holds its tests, or without it
\* the standard one, if the service may generate tests.
Fetch(i) ==
    /\ \/ At(i, "fetch") /\ Goto(i, "unzipped")
       \/ At(i, "fetch") /\ AllowGenerate /\ Goto(i, "fetchStandard")
       \/ At(i, "fetchStandard") /\ Goto(i, "generate")
    /\ UNCHANGED <<service, workDirs, bucket, problems>>

\* The scripts of the package write the test files.
GenerateTestCases(i) ==
    /\ At(i, "generate")
    /\ Goto(i, "unzipped")
    /\ UNCHANGED <<service, workDirs, bucket, problems>>

\* What the extract functions insist on: a name, one test set with tests, a
\* checker with its language, and no interactor that lacks one.
Parses(package) ==
    /\ package.testsets = 1
    /\ package.count > 0
    /\ package.complete

ParseXML(i) ==
    /\ At(i, "unzipped")
    /\ Parses(import[i].package)
    /\ Goto(i, "parsed")
    /\ UNCHANGED <<service, workDirs, bucket, problems>>

\* Images that are not there are left out; the page itself must be.
ExtractProblemStatement(i) ==
    /\ At(i, "parsed")
    /\ Goto(i, "described")
    /\ UNCHANGED <<service, workDirs, bucket, problems>>

ValidateTestCases(i) ==
    LET fixed == Fixed(import[i].package) IN
    /\ At(i, "described")
    /\ ValidTests(import[i].package.count, fixed)
    /\ import' = [import EXCEPT ![i].at = "valid", ![i].files = fixed]
    /\ UNCHANGED <<service, workDirs, bucket, problems>>

\* A file that the XML names and the package lacks is a warning of the
\* archiver, and that rejects.
ZipProblemFiles(i) ==
    /\ At(i, "valid")
    /\ import[i].package.checkerFile
    /\ Goto(i, "zipped")
    /\ UNCHANGED <<service, workDirs, bucket, problems>>

\* uploadToS3, for the zip and for the images.
Upload(i) ==
    /\ At(i, "zipped")
    /\ bucket' = [bucket EXCEPT ![i] = import[i].files]
    /\ Goto(i, "uploaded")
    /\ UNCHANGED <<service, workDirs, problems>>

\* createProblemRecord, then the finally block.
Insert(i) ==
    /\ At(i, "uploaded")
    /\ problems' = problems \cup {i}
    /\ End(i, "done")
    /\ UNCHANGED <<service, bucket>>

\* Mutant: an error skips the finally block.
FailKeepsDir(i) ==
    /\ service = "up"
    /\ import[i].at \notin {"new", "done", "failed"}
    /\ Goto(i, "failed")
    /\ UNCHANGED <<service, workDirs, bucket, problems>>

\* Any await may throw, and a package that is no good always ends here: a
\* second row for the same contest and problem_index, a network error, a test
\* generation of more than five minutes.
Fail(i) ==
    /\ service = "up"
    /\ import[i].at \notin {"new", "done", "failed"}
    /\ End(i, "failed")
    /\ UNCHANGED <<service, bucket, problems>>

Crash ==
    /\ service = "up"
    /\ service' = "down"
    /\ import' = [i \in Imports |->
                    IF import[i].at \in {"new", "done"} THEN import[i]
                    ELSE [import[i] EXCEPT !.at = "failed"]]
    /\ UNCHANGED <<workDirs, bucket, problems>>

\* bootstrap: initializeTmpDir before the port is opened.
Boot ==
    /\ service = "down"
    /\ service' = "up"
    /\ workDirs' = {}
    /\ UNCHANGED <<import, bucket, problems>>

ImportStep(i) ==
    \/ Begin(i) \/ Fetch(i) \/ GenerateTestCases(i) \/ ParseXML(i)
    \/ ExtractProblemStatement(i) \/ ValidateTestCases(i) \/ ZipProblemFiles(i)
    \/ Upload(i) \/ Insert(i) \/ Fail(i)

ImportNext == (\E i \in Imports : ImportStep(i)) \/ Crash \/ Boot

-----------------------------------------------------------------------------
(* Properties.                                                             *)

\* A row names a package that is in S3 with every file the engine will open:
\* polygon-service strips and pads the names of tests by one rule, the engine
\* computes them by another, and an import may fail or die between its steps.
TestFilesAreThere ==
    \A i \in problems :
        /\ bucket[i] # NoZip
        /\ \A test \in 1..import[i].package.count, answer \in BOOLEAN :
              TestFileName(import[i].package.count, test, answer) \in bucket[i]

\* A running service keeps work directories for the imports under way only,
\* whatever failed or crashed before. The rm of the finally block itself is taken
\* to succeed; when it throws, the directory stays until the next bootstrap.
OnlyActiveWorkDirs ==
    service = "up" =>
        \A i \in workDirs : import[i].at \notin {"new", "done", "failed"}
=============================================================================
