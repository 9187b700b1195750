------------------------- MODULE StatusBoardProofs -------------------------
(* Proofs about PolygonImport, Judging and StatusBoard, for every set of   *)
(* packages, imports and submissions and without the bounds of the run.    *)
EXTENDS StatusBoard, TLAPS

-----------------------------------------------------------------------------
(* The polygon service.                                                    *)

Places == {"new", "fetch", "fetchStandard", "generate", "unzipped", "parsed",
           "described", "valid", "zipped", "uploaded", "done", "failed"}

ImportTypes ==
    [at : Places, package : Packages \cup {"none"}, files : SUBSET Names]

ImportTyped ==
    /\ import \in [Imports -> ImportTypes]
    /\ bucket \in [Imports -> (SUBSET Names) \cup {NoZip}]
    /\ problems \subseteq Imports
    /\ workDirs \subseteq Imports

\* What is known of an import at each of its steps.
Sound(i) ==
    /\ import[i].at # "new" => import[i].package \in Packages
    /\ import[i].at \in {"valid", "zipped", "uploaded", "done"} =>
          /\ import[i].files = Fixed(import[i].package)
          /\ ValidTests(import[i].package.count, import[i].files)
    /\ import[i].at \in {"uploaded", "done"} => bucket[i] = import[i].files
    /\ i \in problems => import[i].at = "done"
    /\ service = "up" /\ i \in workDirs =>
          import[i].at \notin {"new", "done", "failed"}

ImportInv == ImportTyped /\ \A i \in Imports : Sound(i)

\* Stripping a name of its zeros leaves a name.
LEMMA FixedTyped ==
    ASSUME NEW p \in Packages
    PROVE  Fixed(p) \subseteq Names
  <1>1. Stripped(p.files) \subseteq Names
    <2> SUFFICES ASSUME NEW f \in p.files PROVE [f EXCEPT !.zeros = 0] \in Names
      BY DEF Stripped
    <2>1. f \in Names
      BY PackagesAssumption
    <2> QED
      BY <2>1 DEF Names
  <1> QED
    BY <1>1, PackagesAssumption DEF Fixed

LEMMA InitImport == Init => ImportInv
  BY DEF Init, ImportInit, NewImport, ImportInv, ImportTyped, ImportTypes,
         Places, Sound

\* Every step of an import but the validation of its tests keeps its files.
LEMMA ImportStepInv ==
    ASSUME ImportInv, NEW i \in Imports, ImportStep(i)
    PROVE  ImportInv'
  <1> USE DEF ImportInv, ImportTyped, At, Goto
  <1>1. /\ import[i] \in ImportTypes
        /\ Sound(i)
    OBVIOUS
  <1>2. /\ import' \in [Imports -> ImportTypes]
        /\ \A j \in Imports \ {i} : import'[j] = import[j]
    <2>1. CASE Begin(i)
      <3>1. PICK p \in Packages :
                import' = [import EXCEPT ![i].at = "fetch", ![i].package = p]
        BY <2>1 DEF Begin
      <3>2. [import[i] EXCEPT !.at = "fetch", !.package = p] \in ImportTypes
        BY <1>1 DEF ImportTypes, Places
      <3> QED
        BY <3>1, <3>2
    <2>2. CASE Fetch(i)
      BY <2>2 DEF Fetch, ImportTypes, Places
    <2>3. CASE GenerateTestCases(i) \/ ParseXML(i) \/ ExtractProblemStatement(i)
      BY <2>3 DEF GenerateTestCases, ParseXML, ExtractProblemStatement,
                  ImportTypes, Places
    <2>4. CASE ValidateTestCases(i)
      <3>1. Fixed(import[i].package) \subseteq Names
        BY <1>1, <2>4, FixedTyped DEF Sound, ValidateTestCases
      <3> QED
        BY <2>4, <3>1 DEF ValidateTestCases, ImportTypes, Places
    <2>5. CASE ZipProblemFiles(i) \/ Upload(i)
      BY <2>5 DEF ZipProblemFiles, Upload, ImportTypes, Places
    <2>6. CASE Insert(i) \/ Fail(i)
      BY <2>6 DEF Insert, Fail, End, ImportTypes, Places
    <2> QED
      BY <2>1, <2>2, <2>3, <2>4, <2>5, <2>6 DEF ImportStep
  <1>3. /\ bucket' \in [Imports -> (SUBSET Names) \cup {NoZip}]
        /\ problems' \subseteq Imports
        /\ workDirs' \subseteq Imports
        /\ \A j \in Imports \ {i} : /\ bucket'[j] = bucket[j]
                                    /\ j \in problems' => j \in problems
                                    /\ j \in workDirs' => j \in workDirs
        /\ service' = service
    <2>1. CASE Upload(i)
      BY <1>1, <2>1 DEF Upload, ImportTypes
    <2>2. CASE ~Upload(i)
      BY <2>2 DEF ImportStep, Begin, Fetch, GenerateTestCases, ParseXML,
                  ExtractProblemStatement, ValidateTestCases, ZipProblemFiles,
                  Insert, Fail, End
    <2> QED
      BY <2>1, <2>2
  <1>4. ASSUME NEW j \in Imports \ {i} PROVE Sound(j)'
    BY <1>2, <1>3 DEF Sound
  <1>5. Sound(i)'
    <2>1. CASE Begin(i)
      BY <1>1, <2>1 DEF Begin, Sound, ImportTypes
    <2>2. CASE Fetch(i)
      BY <1>1, <2>2 DEF Fetch, Sound, ImportTypes
    <2>3. CASE GenerateTestCases(i) \/ ParseXML(i) \/ ExtractProblemStatement(i)
      BY <1>1, <2>3 DEF GenerateTestCases, ParseXML, ExtractProblemStatement,
                        Sound, ImportTypes
    <2>4. CASE ValidateTestCases(i)
      BY <1>1, <2>4 DEF ValidateTestCases, Sound, ImportTypes
    <2>5. CASE ZipProblemFiles(i)
      BY <1>1, <2>5 DEF ZipProblemFiles, Sound, ImportTypes
    <2>6. CASE Upload(i)
      BY <1>1, <2>6 DEF Upload, Sound, ImportTypes
    <2>7. CASE Insert(i)
      BY <1>1, <2>7 DEF Insert, End, Sound, ImportTypes
    <2>8. CASE Fail(i)
      BY <1>1, <2>8 DEF Fail, End, Sound, ImportTypes
    <2> QED
      BY <2>1, <2>2, <2>3, <2>4, <2>5, <2>6, <2>7, <2>8 DEF ImportStep
  <1> QED
    BY <1>2, <1>3, <1>4, <1>5

LEMMA ImportNextInv == ASSUME ImportInv, ImportNext PROVE ImportInv'
  <1>1. CASE Crash
    BY <1>1 DEF Crash, ImportInv, ImportTyped, ImportTypes, Places, Sound
  <1>2. CASE Boot
    BY <1>2 DEF Boot, ImportInv, ImportTyped, Sound
  <1> QED
    BY <1>1, <1>2, ImportStepInv DEF ImportNext

LEMMA ImportStutters == ASSUME ImportInv, UNCHANGED importVars PROVE ImportInv'
  BY DEF ImportInv, ImportTyped, Sound, importVars

\* Judging and the status hash leave the polygon service alone.
LEMMA NextImport == ImportInv /\ [Next]_vars => ImportInv'
  <1> SUFFICES ASSUME ImportInv, [Next]_vars PROVE ImportInv'
    OBVIOUS
  <1>1. ImportNext \/ UNCHANGED importVars
    BY DEF Next, Receive, Lose, vars
  <1> QED
    BY <1>1, ImportNextInv, ImportStutters

LEMMA ImportInvariance == Spec => []ImportInv
  BY InitImport, NextImport, PTL DEF Spec

\* A row of the table problems names a package in S3 that has every file the
\* engine opens for a test of it, under the name the engine computes.
THEOREM TestFilesAreInS3 == Spec => []TestFilesAreThere
  <1>1. ASSUME ImportInv PROVE TestFilesAreThere
    <2> SUFFICES ASSUME NEW i \in problems
                 PROVE  /\ bucket[i] # NoZip
                        /\ \A test \in 1..import[i].package.count,
                              answer \in BOOLEAN :
                              TestFileName(import[i].package.count, test, answer)
                                  \in bucket[i]
      BY DEF TestFilesAreThere
    <2>1. /\ import[i].package \in Packages
          /\ bucket[i] = Fixed(import[i].package)
          /\ ValidTests(import[i].package.count, bucket[i])
      BY <1>1 DEF ImportInv, ImportTyped, Sound
    <2> QED
      BY <2>1, PackagesAssumption DEF ValidTests, ExpectedName, TestFileName
  <1> QED
    BY <1>1, ImportInvariance, PTL

\* While the service is up, a work directory belongs to an import under way.
THEOREM WorkDirsAreActive == Spec => []OnlyActiveWorkDirs
  <1>1. ImportInv => OnlyActiveWorkDirs
    BY DEF ImportInv, ImportTyped, Sound, OnlyActiveWorkDirs
  <1> QED
    BY <1>1, ImportInvariance, PTL
-----------------------------------------------------------------------------
(* What the sandbox reports, and what becomes of it.                       *)

MetaStatuses == {"", "none", "TO", "XX", "SG", "RE"}

\* Only a run that ended with exit code 0 has an empty status.
LEMMA ReportsTyped ==
    ASSUME NEW meta \in Reports
    PROVE  /\ meta.status \in MetaStatuses
           /\ meta.status = "" <=> meta = Meta("", 0, 0)
           /\ meta.status = "none" <=> meta = NoMeta
  <1>1. CASE meta = Meta("", 0, 0)
    BY <1>1 DEF Meta, NoMeta, MetaStatuses
  <1>2. CASE meta = NoMeta
    BY <1>2 DEF Meta, NoMeta, MetaStatuses
  <1>3. CASE meta = Meta("TO", 0, 0)
    BY <1>3 DEF Meta, NoMeta, MetaStatuses
  <1>4. CASE meta = Meta("XX", 0, 0)
    BY <1>4 DEF Meta, NoMeta, MetaStatuses
  <1>5. ASSUME NEW s \in {6, 8, 9, 11, 25}, meta = Meta("SG", s, 0)
        PROVE  /\ meta.status \in MetaStatuses
               /\ meta.status = "" <=> meta = Meta("", 0, 0)
               /\ meta.status = "none" <=> meta = NoMeta
    BY <1>5 DEF Meta, NoMeta, MetaStatuses
  <1>6. ASSUME NEW c \in {1, 2, 3, 7}, meta = Meta("RE", 0, c)
        PROVE  /\ meta.status \in MetaStatuses
               /\ meta.status = "" <=> meta = Meta("", 0, 0)
               /\ meta.status = "none" <=> meta = NoMeta
    BY <1>6 DEF Meta, NoMeta, MetaStatuses
  <1> QED
    BY <1>1, <1>2, <1>3, <1>4, <1>5, <1>6 DEF Reports, Metas

\* The program's run is accepted exactly if it ended normally, and a status
\* that costs a penalty is the program's own fault.
LEMMA UserStatus ==
    ASSUME NEW meta \in Reports
    PROVE  /\ ExecuteUserCode(meta) \in Verdicts
           /\ ExecuteUserCode(meta) = "AC" <=> meta = Meta("", 0, 0)
           /\ ExecuteUserCode(meta) \in Rules!Penalised => Blamed(meta)
  BY ReportsTyped DEF ExecuteUserCode, FormatIsolateMetadata, SignalStatus,
     MetaStatuses, Verdicts, Rules!Penalised, Blamed

\* The checker accepts exactly if it ended normally, and rejects only if it
\* exited with 1 or 2.
LEMMA CheckerStatus ==
    ASSUME NEW meta \in Reports
    PROVE  /\ ExecuteChecker(meta) \in Verdicts
           /\ ExecuteChecker(meta) = "AC" <=> meta = Meta("", 0, 0)
           /\ ExecuteChecker(meta) \in Rules!Penalised =>
                 meta.status = "RE" /\ meta.code \in {1, 2}
  BY ReportsTyped DEF ExecuteChecker, FormatIsolateMetadata, SignalStatus,
     MetaStatuses, Verdicts, Rules!Penalised

\* A program that does not compile is no one's penalty.
LEMMA CompileStatus ==
    ASSUME NEW meta \in Reports
    PROVE  CompileError(meta) \in {"INT", "CE"}
  BY DEF CompileError

\* The status of a test: the program's, or the checker's if that was fine.
TestStatus(user, checker) ==
    IF ExecuteUserCode(user) # "AC" THEN ExecuteUserCode(user)
    ELSE ExecuteChecker(checker)

Guilty(outcome) ==
    \/ Blamed(outcome[1])
    \/ outcome[2].status = "RE" /\ outcome[2].code \in {1, 2}

LEMMA StatusOfTest ==
    ASSUME NEW user \in Reports, NEW checker \in Reports,
           ExecuteUserCode(user) # "AC" => checker = NoMeta
    PROVE  /\ TestStatus(user, checker) \in Verdicts
           /\ TestStatus(user, checker) = "AC" <=> Passed(<<user, checker>>)
           /\ TestStatus(user, checker) \in Rules!Penalised =>
                 Guilty(<<user, checker>>)
  <1>1. Meta("", 0, 0) # NoMeta
    BY DEF Meta, NoMeta
  <1> QED
    BY <1>1, UserStatus, CheckerStatus DEF TestStatus, Passed, Guilty

-----------------------------------------------------------------------------
(* One judging.                                                            *)

Steps == {"none", "started", "compile", "test", "run", "judged", "saved",
          "acked", "dropped"}
Pairs == Reports \X Reports
Results == Seq(Verdicts)
Outcomes == Seq(Pairs)

Jobs == [at : Steps, problem : Imports \cup {"none"}, test : Nat,
         results : Results, outcomes : Outcomes,
         verdict : Verdicts \cup {"none"}]

\* While the tests run, every one before the current one went well.
AllPassed(j) ==
    /\ Len(j.results) = j.test - 1
    /\ Len(j.outcomes) = j.test - 1
    /\ \A k \in 1..(j.test - 1) : j.results[k] = "AC" /\ Passed(j.outcomes[k])

\* Once they are over, the verdict is the last result; count is the number of
\* the package's tests.
Final(j) == j.results[Len(j.results)]

Fair(j, count) ==
    /\ j.results # <<>>
    /\ \A k \in 1..(Len(j.results) - 1) :
          j.results[k] = "AC" /\ Passed(j.outcomes[k])
    /\ Final(j) = "AC" <=>
          /\ Len(j.outcomes) = count
          /\ count > 0
          /\ \A k \in DOMAIN j.outcomes : Passed(j.outcomes[k])
    /\ Final(j) \in Rules!Penalised =>
          j.outcomes # <<>> /\ Guilty(j.outcomes[Len(j.outcomes)])

JudgeSound(s) ==
    /\ job[s].at \in Steps \ {"none", "acked", "dropped"} =>
          job[s].problem \in problems
    /\ job[s].at \in {"started", "compile"} =>
          job[s].results = <<>> /\ job[s].outcomes = <<>>
    /\ job[s].at \in {"test", "run"} =>
          AllPassed(job[s]) /\ job[s].test \in 1..TestCount(s)
    /\ job[s].at \in {"judged", "saved"} => Fair(job[s], TestCount(s))
    /\ job[s].at = "saved" => job[s].verdict = Final(job[s])

JudgeTyped ==
    /\ job \in [Submissions -> Jobs]
    /\ row \in [Submissions -> Verdicts \cup {"QUEUE"}]

JudgeInv == JudgeTyped /\ \A s \in Submissions : JudgeSound(s)

\* A row's package is fixed, and it has a number of tests.
LEMMA PackageIsFixed ==
    ASSUME ImportInv, ImportNext \/ UNCHANGED importVars, NEW i \in problems
    PROVE  i \in problems' /\ import'[i] = import[i]
  <1>1. i \in Imports /\ import[i].at = "done"
    BY DEF ImportInv, ImportTyped, Sound
  <1>2. ASSUME NEW j \in Imports, ImportStep(j), j # i
        PROVE  i \in problems' /\ import'[i] = import[i]
    BY <1>1, <1>2 DEF ImportStep, Begin, Fetch, GenerateTestCases, ParseXML,
       ExtractProblemStatement, ValidateTestCases, ZipProblemFiles, Upload,
       Insert, Fail, End, Goto, At, ImportInv, ImportTyped
  <1>3. ~ImportStep(i)
    BY <1>1 DEF ImportStep, Begin, Fetch, GenerateTestCases, ParseXML,
       ExtractProblemStatement, ValidateTestCases, ZipProblemFiles, Upload,
       Insert, Fail, At
  <1>4. CASE Crash \/ Boot
    BY <1>1, <1>4 DEF Crash, Boot, ImportInv, ImportTyped
  <1>5. CASE UNCHANGED importVars
    BY <1>5 DEF importVars
  <1> QED
    BY <1>2, <1>3, <1>4, <1>5 DEF ImportNext

LEMMA CountTyped ==
    ASSUME ImportInv, NEW i \in problems
    PROVE  i \in Imports /\ import[i].package.count \in Nat
  BY PackagesAssumption DEF ImportInv, ImportTyped, Sound

\* What is known of a judging survives whatever leaves its job alone.
LEMMA JudgeKept ==
    ASSUME ImportInv, JudgeInv, ImportNext \/ UNCHANGED importVars,
           NEW s \in Submissions, job'[s] = job[s]
    PROVE  JudgeSound(s)'
  <1>1. CASE job[s].at \in Steps \ {"none", "acked", "dropped"}
    <2>1. job[s].problem \in problems
      BY <1>1 DEF JudgeInv, JudgeSound
    <2>2. job[s].problem \in problems' /\ TestCount(s)' = TestCount(s)
      BY <2>1, PackageIsFixed DEF TestCount
    <2> QED
      BY <2>2 DEF JudgeInv, JudgeSound
  <1>2. CASE job[s].at \notin Steps \ {"none", "acked", "dropped"}
    BY <1>2 DEF JudgeInv, JudgeSound, Steps
  <1> QED
    BY <1>1, <1>2
LEMMA InitJudge == Init => JudgeInv
  <1>1. <<>> \in Results /\ <<>> \in Outcomes
    BY DEF Results, Outcomes
  <1> QED
    BY <1>1 DEF Init, JudgeInit, NoJob, JudgeInv, JudgeTyped, Jobs, Steps,
       JudgeSound

\* What the row has after one more test.
ResultsWith(j, user, checker) == Append(j.results, TestStatus(user, checker))
OutcomesWith(j, user, checker) == Append(j.outcomes, <<user, checker>>)

\* The result of a test, put behind those of the tests that went well.
LEMMA TestEnds ==
    ASSUME NEW j \in Jobs, AllPassed(j), NEW count \in Nat, j.test \in 1..count,
           NEW user \in Reports, NEW checker \in Reports,
           ExecuteUserCode(user) # "AC" => checker = NoMeta,
           NEW results, results = ResultsWith(j, user, checker),
           NEW outcomes, outcomes = OutcomesWith(j, user, checker)
    PROVE  /\ results \in Seq(Verdicts) /\ outcomes \in Seq(Pairs)
           /\ Len(results) = j.test /\ Len(outcomes) = j.test
           /\ \A k \in 1..(j.test - 1) : results[k] = "AC" /\ Passed(outcomes[k])
           /\ results[j.test] = TestStatus(user, checker)
           /\ outcomes[j.test] = <<user, checker>>
  <1>1. /\ j.results \in Seq(Verdicts) /\ j.outcomes \in Seq(Pairs)
        /\ TestStatus(user, checker) \in Verdicts
        /\ <<user, checker>> \in Pairs
    BY StatusOfTest DEF Jobs, Pairs, Results, Outcomes
  <1>2. Len(j.results) = j.test - 1 /\ Len(j.outcomes) = j.test - 1
    BY DEF AllPassed
  <1>3. j.test \in Nat \ {0}
    OBVIOUS
  <1>4. /\ results \in Seq(Verdicts) /\ Len(results) = j.test
        /\ \A k \in 1..(j.test - 1) : results[k] = j.results[k]
        /\ results[j.test] = TestStatus(user, checker)
    BY <1>1, <1>2, <1>3 DEF ResultsWith
  <1>5. /\ outcomes \in Seq(Pairs) /\ Len(outcomes) = j.test
        /\ \A k \in 1..(j.test - 1) : outcomes[k] = j.outcomes[k]
        /\ outcomes[j.test] = <<user, checker>>
    BY <1>1, <1>2, <1>3 DEF OutcomesWith
  <1> QED
    BY <1>4, <1>5 DEF AllPassed

\* The loop ends with the last test or with the first that fails, and then
\* the results are fair.
LEMMA LoopEnds ==
    ASSUME NEW j \in Jobs, AllPassed(j), NEW count \in Nat, j.test \in 1..count,
           NEW user \in Reports, NEW checker \in Reports,
           ExecuteUserCode(user) # "AC" => checker = NoMeta,
           NEW results, results = ResultsWith(j, user, checker),
           NEW outcomes, outcomes = OutcomesWith(j, user, checker),
           TestStatus(user, checker) # "AC" \/ j.test = count,
           NEW over, over.results = results, over.outcomes = outcomes
    PROVE  Fair(over, count)
  <1>0. /\ results \in Seq(Verdicts) /\ outcomes \in Seq(Pairs)
        /\ Len(results) = j.test /\ Len(outcomes) = j.test
        /\ \A k \in 1..(j.test - 1) : results[k] = "AC" /\ Passed(outcomes[k])
        /\ results[j.test] = TestStatus(user, checker)
        /\ outcomes[j.test] = <<user, checker>>
    BY TestEnds
  <1> DEFINE n == j.test
             status == TestStatus(user, checker)
  <1>1. /\ results \in Seq(Verdicts) /\ outcomes \in Seq(Pairs)
        /\ Len(results) = n /\ Len(outcomes) = n
        /\ results[n] = status
        /\ outcomes[n] = <<user, checker>>
    BY <1>0
  <1>2. n \in Nat \ {0} /\ n <= count
    OBVIOUS
  <1>8. \A k \in 1..(n - 1) : results[k] = "AC" /\ Passed(outcomes[k])
    BY <1>0
  <1>3. /\ status = "AC" <=> Passed(outcomes[n])
        /\ status \in Rules!Penalised => Guilty(outcomes[n])
    BY <1>1, StatusOfTest
  <1>4. status # "AC" \/ n = count
    OBVIOUS
  <1> HIDE DEF n, status
  <1>5. results # <<>> /\ outcomes # <<>> /\ DOMAIN outcomes = 1..n
    BY <1>1, <1>2
  <1>6. Final(over) = status
    BY <1>1 DEF Final
  <1>7. status = "AC" <=> /\ Len(outcomes) = count
                          /\ count > 0
                          /\ \A k \in DOMAIN outcomes : Passed(outcomes[k])
    <2>1. ASSUME status = "AC", NEW k \in 1..n PROVE Passed(outcomes[k])
      <3>1. k = n \/ k \in 1..(n - 1)
        BY <1>2
      <3> QED
        BY <1>3, <1>8, <2>1, <3>1
    <2>2. ASSUME status = "AC"
          PROVE  /\ Len(outcomes) = count
                 /\ count > 0
                 /\ \A k \in DOMAIN outcomes : Passed(outcomes[k])
      <3>1. n = count
        BY <1>4, <2>2
      <3> QED
        BY <1>1, <1>2, <1>5, <2>1, <2>2, <3>1
    <2>3. ASSUME \A k \in DOMAIN outcomes : Passed(outcomes[k])
          PROVE  status = "AC"
      <3>1. n \in DOMAIN outcomes
        BY <1>2, <1>5
      <3> QED
        BY <1>3, <2>3, <3>1
    <2> QED
      BY <2>2, <2>3
  <1> QED
    BY <1>1, <1>3, <1>5, <1>6, <1>7, <1>8 DEF Fair

\* Without a test that ran the result is INT or CE, and costs nothing.
LEMMA NothingRan ==
    ASSUME NEW count \in Nat, NEW status \in {"INT", "CE"},
           NEW over, over.results = <<status>>, over.outcomes = <<>>
    PROVE  Fair(over, count)
  <1>1. /\ Len(over.results) = 1 /\ over.results # <<>>
        /\ Final(over) = status
        /\ Len(over.outcomes) = 0
    BY DEF Final
  <1> QED
    BY <1>1 DEF Fair, Rules!Penalised

LEMMA JudgeStepInv ==
    ASSUME ImportInv, JudgeInv, UNCHANGED importVars,
           NEW s \in Submissions, JudgeStep(s)
    PROVE  JudgeInv'
  <1> USE DEF JudgeInv, JudgeTyped
  <1>1. job[s] \in Jobs /\ JudgeSound(s)
    OBVIOUS
  <1>2. problems' = problems /\ TestCount(s) = import[job[s].problem].package.count
    BY DEF importVars, TestCount
  <1>3. TestCount(s)' = import[job'[s].problem].package.count
    BY DEF importVars, TestCount
  <1>0. <<>> \in Results /\ <<>> \in Outcomes /\ NoJob \in Jobs
    <2>1. <<>> \in Results /\ <<>> \in Outcomes
      BY DEF Results, Outcomes
    <2> QED
      BY <2>1 DEF NoJob, Jobs, Steps
  <1>4. SUFFICES /\ job' \in [Submissions -> Jobs]
                 /\ \A t \in Submissions \ {s} : job'[t] = job[t]
                 /\ JudgeSound(s)'
                 /\ row' \in [Submissions -> Verdicts \cup {"QUEUE"}]
    BY JudgeKept
  <1>5. CASE Start(s)
    <2>1. PICK p \in problems :
              job' = [job EXCEPT ![s] = [NoJob EXCEPT !.at = "started",
                                                      !.problem = p]]
      BY <1>5 DEF Start
    <2>2. p \in Imports
      BY CountTyped
    <2>3. [NoJob EXCEPT !.at = "started", !.problem = p] \in Jobs
      BY <1>0, <2>2 DEF NoJob, Jobs, Steps
    <2> QED
      BY <1>2, <1>5, <2>1, <2>3 DEF Start, NoJob, JudgeSound
  <1>6. CASE Compile(s)
    BY <1>1, <1>2, <1>3, <1>6 DEF Compile, Jobs, Steps, JudgeSound
  <1>7. ASSUME NEW status \in {"INT", "CE"}, job[s].at = "compile",
               Judged(s, <<status>>, <<>>), UNCHANGED row
        PROVE  /\ job' \in [Submissions -> Jobs]
               /\ \A t \in Submissions \ {s} : job'[t] = job[t]
               /\ JudgeSound(s)'
               /\ row' \in [Submissions -> Verdicts \cup {"QUEUE"}]
    <2>1. job[s].problem \in problems /\ TestCount(s) \in Nat
      BY <1>1, <1>2, <1>7, CountTyped DEF JudgeSound, Steps
    <2>2. /\ job'[s] \in Jobs
          /\ job'[s].at = "judged" /\ job'[s].problem = job[s].problem
          /\ job'[s].results = <<status>> /\ job'[s].outcomes = <<>>
          /\ job' \in [Submissions -> Jobs]
          /\ \A t \in Submissions \ {s} : job'[t] = job[t]
      <3>1. <<status>> \in Results /\ <<>> \in Outcomes
        BY <1>0 DEF Results, Verdicts
      <3> DEFINE results == <<status>>
      <3> HIDE DEF results
      <3> QED
        BY <1>1, <1>7, <3>1 DEF Judged, Jobs, Steps
    <2>3. Fair(job'[s], TestCount(s))
      BY <2>1, <2>2, NothingRan
    <2> QED
      BY <1>2, <1>3, <1>7, <2>1, <2>2, <2>3 DEF JudgeSound, Fair, Final
  <1>8. CASE Compiled(s) /\ TestCount(s) # 0
    <2>1. job[s].problem \in problems /\ TestCount(s) \in Nat \ {0}
      BY <1>1, <1>2, <1>8, CountTyped DEF Compiled, JudgeSound, Steps
    <2>2. /\ job' = [job EXCEPT ![s].at = "test", ![s].test = 1]
          /\ UNCHANGED row
          /\ job[s].results = <<>> /\ job[s].outcomes = <<>>
      BY <1>1, <1>8 DEF Compiled, JudgeSound
    <2>3. job'[s].test \in 1..TestCount(s) /\ AllPassed(job'[s])
      BY <1>1, <2>1, <2>2 DEF AllPassed, Jobs
    <2> QED
      <3>1. /\ job'[s] \in Jobs
            /\ job'[s].at = "test" /\ job'[s].problem = job[s].problem
            /\ job' \in [Submissions -> Jobs]
            /\ \A t \in Submissions \ {s} : job'[t] = job[t]
        BY <1>1, <2>2 DEF Jobs, Steps
      <3> QED
        BY <1>2, <1>3, <2>1, <2>2, <2>3, <3>1 DEF JudgeSound, AllPassed
  <1>9. CASE (Compiled(s) /\ TestCount(s) = 0) \/ CompileFails(s)
    <2>1. PICK status \in {"INT", "CE"} : Judged(s, <<status>>, <<>>)
      BY <1>9, CompileStatus DEF Compiled, CompileFails
    <2> QED
      BY <1>7, <1>9, <2>1 DEF Compiled, CompileFails
  <1>10. CASE Announce(s)
    BY <1>1, <1>2, <1>3, <1>10 DEF Announce, Jobs, Steps, JudgeSound, AllPassed
  <1>11. ASSUME NEW user \in Reports, NEW checker \in Reports,
                ExecuteUserCode(user) # "AC" => checker = NoMeta,
                RunTest(s, user, checker)
         PROVE  /\ job' \in [Submissions -> Jobs]
                /\ \A t \in Submissions \ {s} : job'[t] = job[t]
                /\ JudgeSound(s)'
                /\ row' \in [Submissions -> Verdicts \cup {"QUEUE"}]
    <2> DEFINE status == TestStatus(user, checker)
               results == ResultsWith(job[s], user, checker)
               outcomes == OutcomesWith(job[s], user, checker)
    <2>1. /\ job[s].at = "run" /\ UNCHANGED row
          /\ IF status # "AC" \/ job[s].test = TestCount(s)
             THEN Judged(s, results, outcomes)
             ELSE job' = [job EXCEPT ![s].at = "test", ![s].test = @ + 1,
                                     ![s].results = results,
                                     ![s].outcomes = outcomes]
      BY <1>11 DEF RunTest, TestStatus, ResultsWith, OutcomesWith
    <2>2. /\ job[s].problem \in problems /\ TestCount(s) \in Nat
          /\ AllPassed(job[s]) /\ job[s].test \in 1..TestCount(s)
      BY <1>1, <1>2, <2>1, CountTyped DEF JudgeSound, Steps
    <2>3. /\ results \in Seq(Verdicts) /\ outcomes \in Seq(Pairs)
          /\ Len(results) = job[s].test /\ Len(outcomes) = job[s].test
          /\ \A k \in 1..(job[s].test - 1) :
                results[k] = "AC" /\ Passed(outcomes[k])
          /\ results[job[s].test] = status
          /\ outcomes[job[s].test] = <<user, checker>>
      BY <1>1, <1>11, <2>2, TestEnds
    <2>4. CASE status # "AC" \/ job[s].test = TestCount(s)
      <3>0. results \in Results /\ outcomes \in Outcomes
        BY <2>3 DEF Results, Outcomes
      <3> HIDE DEF results, outcomes
      <3>1. /\ job'[s] \in Jobs
            /\ job'[s].at = "judged" /\ job'[s].problem = job[s].problem
            /\ job'[s].results = results /\ job'[s].outcomes = outcomes
            /\ job' \in [Submissions -> Jobs]
            /\ \A t \in Submissions \ {s} : job'[t] = job[t]
        BY <1>1, <2>1, <2>4, <3>0 DEF Judged, Jobs, Steps
      <3>2. Fair(job'[s], TestCount(s))
        BY <1>1, <1>11, <2>2, <2>4, <3>1, LoopEnds DEF results, outcomes
      <3> QED
        BY <1>2, <1>3, <2>1, <2>2, <3>1, <3>2 DEF JudgeSound, Fair, Final
    <2>5. CASE ~(status # "AC" \/ job[s].test = TestCount(s))
      <3>1. Passed(outcomes[job[s].test]) /\ results[job[s].test] = "AC"
        BY <1>11, <2>3, <2>5, StatusOfTest
      <3>0. results \in Results /\ outcomes \in Outcomes
        BY <2>3 DEF Results, Outcomes
      <3> HIDE DEF results, outcomes, status
      <3>2. /\ job' = [job EXCEPT ![s].at = "test", ![s].test = @ + 1,
                                  ![s].results = results,
                                  ![s].outcomes = outcomes]
            /\ job[s].test \in Nat /\ job[s].test + 1 \in 1..TestCount(s)
        BY <1>1, <2>1, <2>2, <2>5 DEF Jobs
      <3>3. /\ job'[s] \in Jobs
            /\ job'[s].at = "test" /\ job'[s].problem = job[s].problem
            /\ job'[s].results = results /\ job'[s].outcomes = outcomes
            /\ job'[s].test = job[s].test + 1
            /\ job' \in [Submissions -> Jobs]
            /\ \A t \in Submissions \ {s} : job'[t] = job[t]
        BY <1>1, <3>0, <3>2 DEF Jobs, Steps
      <3>5. ASSUME NEW k \in 1..job[s].test
            PROVE  results[k] = "AC" /\ Passed(outcomes[k])
        <4>1. k = job[s].test \/ k \in 1..(job[s].test - 1)
          BY <3>2
        <4> QED
          BY <2>3, <3>1, <4>1
      <3>4. AllPassed(job'[s])
        <4>1. job[s].test + 1 - 1 = job[s].test
          BY <3>2
        <4> QED
          BY <2>3, <3>3, <3>5, <4>1 DEF AllPassed
      <3> QED
        BY <1>2, <1>3, <2>1, <2>2, <3>2, <3>3, <3>4 DEF JudgeSound, AllPassed
    <2> QED
      BY <2>4, <2>5
  <1>12. CASE Save(s)
    <2> DEFINE verdict == job[s].results[Len(job[s].results)]
    <2>1. /\ job[s].at = "judged"
          /\ row' = [row EXCEPT ![s] = verdict]
          /\ job' = [job EXCEPT ![s].at = "saved", ![s].verdict = verdict]
      BY <1>12 DEF Save
    <2>2. Fair(job[s], TestCount(s)) /\ job[s].results \in Seq(Verdicts)
      BY <1>1, <2>1 DEF JudgeSound, Jobs, Results
    <2>3. verdict \in Verdicts /\ verdict = Final(job[s])
      BY <2>2 DEF Fair, Final
    <2> HIDE DEF verdict
    <2>4. /\ job'[s] \in Jobs
          /\ job'[s].at = "saved" /\ job'[s].problem = job[s].problem
          /\ job'[s].results = job[s].results
          /\ job'[s].outcomes = job[s].outcomes
          /\ job'[s].verdict = verdict
          /\ job' \in [Submissions -> Jobs]
          /\ \A t \in Submissions \ {s} : job'[t] = job[t]
      BY <1>1, <2>1, <2>3 DEF Jobs, Steps
    <2>5. Fair(job'[s], TestCount(s)) /\ Final(job'[s]) = verdict
      BY <2>2, <2>3, <2>4 DEF Fair, Final
    <2> QED
      BY <1>1, <1>2, <1>3, <2>1, <2>3, <2>4, <2>5 DEF JudgeSound, Steps, Fair, Final
  <1>13. CASE SaveFails(s) \/ Report(s) \/ EngineCrash(s)
    <2>1. PICK at \in {"none", "acked", "dropped"} :
              job' = [job EXCEPT ![s] = [NoJob EXCEPT !.at = at]]
      BY <1>13 DEF SaveFails, Report, EngineCrash, NoJob
    <2>2. [NoJob EXCEPT !.at = at] \in Jobs
      BY <1>0 DEF Jobs, Steps
    <2>3. job'[s].at = at
      BY <1>0, <2>1 DEF Jobs
    <2> QED
      BY <1>13, <2>1, <2>2, <2>3 DEF SaveFails, Report, EngineCrash, JudgeSound
  <1> QED
    BY <1>5, <1>6, <1>8, <1>9, <1>10, <1>11, <1>12, <1>13 DEF JudgeStep
LEMMA NextJudge == ImportInv /\ JudgeInv /\ [Next]_vars => JudgeInv'
  <1> SUFFICES ASSUME ImportInv, JudgeInv, [Next]_vars PROVE JudgeInv'
    OBVIOUS
  <1>1. CASE \E s \in Submissions : JudgeStep(s) /\ UNCHANGED importVars
    BY <1>1, JudgeStepInv
  <1>2. CASE UNCHANGED <<job, row>> /\ (ImportNext \/ UNCHANGED importVars)
    BY <1>2, JudgeKept DEF JudgeInv, JudgeTyped
  <1> QED
    BY <1>1, <1>2 DEF Next, Receive, Lose, vars, judgeVars

LEMMA JudgeInvariance == Spec => [](ImportInv /\ JudgeInv)
  BY InitImport, NextImport, InitJudge, NextJudge, PTL DEF Spec

\* A submission is accepted exactly if the sandbox saw its program and the
\* checker succeed on every test of the package; otherwise the last result is
\* that of the first test that did not go well, and no test ran after it
\* (ExecuteWorker of worker.go).
THEOREM AcceptedIsEarned == Spec => []AcceptedMeansEveryTest
  <1>1. JudgeInv => AcceptedMeansEveryTest
    BY DEF JudgeInv, JudgeSound, Fair, Final, HasVerdict, Last,
           AcceptedMeansEveryTest
  <1> QED
    BY <1>1, JudgeInvariance, PTL

\* No verdict that the leaderboard penalises comes from the judge's own side:
\* the program's run failed, or the checker exited with 1 or 2.
THEOREM PenaltiesAreEarned == Spec => []JudgeFaultsCostNothing
  <1>1. JudgeInv => JudgeFaultsCostNothing
    BY DEF JudgeInv, JudgeSound, Fair, Final, Guilty, HasVerdict, Last,
           JudgeFaultsCostNothing
  <1> QED
    BY <1>1, JudgeInvariance, PTL

-----------------------------------------------------------------------------
(* The hash of running submissions.                                        *)

Messages == [status : Running \cup Verdicts, test : Nat, running : BOOLEAN]

BoardTyped ==
    /\ inFlight \in [Submissions -> SUBSET Messages]
    /\ active \in [Submissions -> Running \cup {"nil"}]
    /\ final \in [Submissions -> {"none", "applied", "lost"}]
    /\ late \subseteq Submissions

\* Updates that are not of a running submission carry a verdict; the final
\* one is on its way, lost or applied once the submission is acknowledged, and
\* not before; and once it was applied only a late update fills the hash.
Told(s) ==
    /\ \A m \in inFlight[s] :
          IF m.running THEN m.status \in Running ELSE job[s].at = "acked"
    /\ job[s].at = "acked" /\ final[s] = "none" =>
          \E m \in inFlight[s] : ~m.running
    /\ final[s] = "applied" /\ active[s] # "nil" => s \in late
    /\ s \in queue => job[s].at = "none"

BoardInv == BoardTyped /\ \A s \in Submissions : Told(s)

LEMMA InitBoard == Init => BoardInv
  BY DEF Init, JudgeInit, NoJob, BoardInv, BoardTyped, Told

\* Before the last one every update says that the submission is running.
LEMMA UpdateIsRunning ==
    ASSUME BoardInv, NEW s \in Submissions, NEW status \in Running,
           NEW test \in Nat,
           PublishStatusUpdate(s, status, test, "none")
    PROVE  \E m \in Messages :
              /\ m.running /\ m.status \in Running
              /\ inFlight' = [inFlight EXCEPT ![s] = @ \cup {m}]
  <1> DEFINE m == Message(status, test, status # "none")
  <1>1. m \in Messages /\ m.running /\ m.status \in Running
    BY DEF Message, Messages, Running
  <1> QED
    BY <1>1 DEF PublishStatusUpdate

LEMMA TestTyped ==
    ASSUME JudgeInv, NEW s \in Submissions
    PROVE  /\ job[s].test \in Nat
           /\ job[s].at = "saved" => job[s].verdict \in Verdicts
  <1>1. job[s] \in Jobs /\ JudgeSound(s)
    BY DEF JudgeInv, JudgeTyped
  <1>2. job[s].test \in Nat /\ job[s].results \in Seq(Verdicts)
    BY ONLY <1>1 DEF Jobs, Results
  <1>3. ASSUME job[s].at = "saved" PROVE job[s].verdict \in Verdicts
    <2>1. job[s].results # <<>> /\ job[s].verdict = Final(job[s])
      BY <1>1, <1>3 DEF JudgeSound, Fair
    <2>2. Len(job[s].results) \in DOMAIN job[s].results
      BY ONLY <1>2, <2>1
    <2> QED
      BY ONLY <1>2, <2>1, <2>2 DEF Final
  <1> QED
    BY <1>2, <1>3

\* A step of one judging that is not over yet: its job goes on, its updates
\* are the old ones and a new one that fits the job, or none.
LEMMA JudgingMoves ==
    ASSUME BoardInv, NEW s \in Submissions, job[s].at # "acked",
           final' = [final EXCEPT ![s] = IF job'[s].at = "started" THEN "none"
                                         ELSE @],
           late' = IF job'[s].at = "started" THEN late \ {s} ELSE late,
           UNCHANGED active,
           \A t \in Submissions \ {s} : job'[t] = job[t],
           NEW sent \in SUBSET Messages,
           inFlight' = [inFlight EXCEPT ![s] = sent],
           \A m \in sent \ inFlight[s] :
              IF m.running THEN m.status \in Running ELSE job'[s].at = "acked",
           job'[s].at = "acked" => \E m \in sent : ~m.running,
           queue' \subseteq queue \cup {s},
           s \in queue' => job'[s].at = "none"
    PROVE  BoardInv'
  <1>1. Told(s) /\ BoardTyped
    BY DEF BoardInv
  <1>2. /\ inFlight'[s] = sent
        /\ \A t \in Submissions \ {s} :
              inFlight'[t] = inFlight[t] /\ final'[t] = final[t]
        /\ final'[s] = "none" \/ (final'[s] = final[s] /\ late' = late)
        /\ \A t \in Submissions \ {s} : t \in late => t \in late'
    BY <1>1 DEF BoardTyped
  <1>3. BoardTyped'
    BY <1>1 DEF BoardTyped
  <1>4. ASSUME NEW t \in Submissions \ {s} PROVE Told(t)'
    BY <1>2 DEF BoardInv, Told
  <1>5. Told(s)'
    BY <1>1, <1>2 DEF Told
  <1> QED
    BY <1>3, <1>4, <1>5 DEF BoardInv

LEMMA JudgeStepBoard ==
    ASSUME JudgeInv, BoardInv, NEW s \in Submissions, JudgeStep(s),
           final' = [final EXCEPT ![s] = IF job'[s].at = "started" THEN "none"
                                         ELSE @],
           late' = IF job'[s].at = "started" THEN late \ {s} ELSE late,
           UNCHANGED active
    PROVE  BoardInv'
  <1>1. /\ job \in [Submissions -> Jobs] /\ Told(s) /\ BoardTyped
        /\ job[s] \in Jobs
    BY DEF JudgeInv, JudgeTyped, BoardInv
  <1>2. inFlight \in [Submissions -> SUBSET Messages]
    BY <1>1 DEF BoardTyped
  <1>3. ASSUME NEW status \in Running, NEW test \in Nat, NEW at \in Steps,
               PublishStatusUpdate(s, status, test, "none"),
               job[s].at # "acked", at # "acked", job'[s].at = at,
               \A t \in Submissions \ {s} : job'[t] = job[t],
               queue' \subseteq queue, s \notin queue'
        PROVE  BoardInv'
    <2>1. PICK m \in Messages :
              /\ m.running /\ m.status \in Running
              /\ inFlight' = [inFlight EXCEPT ![s] = @ \cup {m}]
      BY <1>3, UpdateIsRunning
    <2> DEFINE sent == inFlight[s] \cup {m}
    <2>2. sent \in SUBSET Messages /\ inFlight' = [inFlight EXCEPT ![s] = sent]
      BY <1>2, <2>1
    <2>3. \A n \in sent \ inFlight[s] : n.running /\ n.status \in Running
      BY <2>1
    <2> HIDE DEF sent
    <2> QED
      BY <1>3, <2>2, <2>3, JudgingMoves
  <1>4. ASSUME NEW at \in Steps, job[s].at \notin {"none", "acked"},
               at # "acked", job'[s].at = at,
               \A t \in Submissions \ {s} : job'[t] = job[t],
               UNCHANGED <<inFlight, queue>>
        PROVE  BoardInv'
    <2>1. inFlight[s] \in SUBSET Messages
          /\ inFlight' = [inFlight EXCEPT ![s] = inFlight[s]]
      BY <1>2, <1>4
    <2>2. s \notin queue
      BY <1>1, <1>4 DEF Told
    <2> QED
      BY <1>4, <2>1, <2>2, JudgingMoves
  <1>5. CASE Start(s)
    <2>1. /\ job[s].at = "none" /\ job'[s].at = "started"
          /\ \A t \in Submissions \ {s} : job'[t] = job[t]
      BY <1>1, <1>5 DEF Start, Told, NoJob
    <2> QED
      BY <1>3, <1>5, <2>1 DEF Start, Running, Steps
  <1>6. CASE Compile(s)
    <2>1. /\ job[s].at = "started" /\ job'[s].at = "compile"
          /\ \A t \in Submissions \ {s} : job'[t] = job[t]
          /\ s \notin queue
      BY <1>1, <1>6 DEF Compile, Told, Jobs
    <2> QED
      BY <1>3, <1>6, <2>1 DEF Compile, Running, Steps
  <1>7. CASE Announce(s)
    <2>1. /\ job[s].at = "test" /\ job'[s].at = "run"
          /\ \A t \in Submissions \ {s} : job'[t] = job[t]
          /\ s \notin queue
      BY <1>1, <1>7 DEF Announce, Told, Jobs
    <2> QED
      BY <1>3, <1>7, <2>1, TestTyped DEF Announce, Running, Steps
  <1>8. CASE Compiled(s) \/ CompileFails(s)
    <2>1. job[s].at = "compile" /\ UNCHANGED <<inFlight, queue>>
      BY <1>8 DEF Compiled, CompileFails
    <2>2. /\ job'[s].at \in {"judged", "test"}
          /\ \A t \in Submissions \ {s} : job'[t] = job[t]
      <3>1. CASE \E results, outcomes : Judged(s, results, outcomes)
        BY <1>1, <3>1 DEF Judged
      <3>2. CASE job' = [job EXCEPT ![s].at = "test", ![s].test = 1]
        BY <1>1, <3>2 DEF Jobs
      <3> QED
        BY <1>8, <3>1, <3>2 DEF Compiled, CompileFails
    <2> QED
      BY <1>4, <2>1, <2>2 DEF Steps
  <1>9. CASE \E user, checker \in Reports : RunTest(s, user, checker)
    <2>1. job[s].at = "run" /\ UNCHANGED <<inFlight, queue>>
      BY <1>9 DEF RunTest
    <2>2. /\ job'[s].at \in {"judged", "test"}
          /\ \A t \in Submissions \ {s} : job'[t] = job[t]
      BY <1>1, <1>9 DEF RunTest, Judged, Jobs
    <2> QED
      BY <1>4, <2>1, <2>2 DEF Steps
  <1>10. CASE Save(s) \/ SaveFails(s)
    <2>1. job[s].at = "judged" /\ UNCHANGED <<inFlight, queue>>
      BY <1>10 DEF Save, SaveFails
    <2>2. /\ job'[s].at \in {"saved", "dropped"}
          /\ \A t \in Submissions \ {s} : job'[t] = job[t]
      BY <1>1, <1>10 DEF Save, SaveFails, NoJob, Jobs
    <2> QED
      BY <1>4, <2>1, <2>2 DEF Steps
  <1>11. CASE Report(s)
    <2> DEFINE m == Message(job[s].verdict, 0, FALSE)
               sent == inFlight[s] \cup {m}
    <2>1. /\ job[s].at = "saved" /\ job'[s].at = "acked"
          /\ \A t \in Submissions \ {s} : job'[t] = job[t]
          /\ s \notin queue /\ UNCHANGED queue
      BY <1>1, <1>11 DEF Report, Told, NoJob
    <2>2. m \in Messages /\ ~m.running
      BY <2>1, TestTyped DEF Message, Messages
    <2>3. inFlight' = [inFlight EXCEPT ![s] = sent]
      BY <1>2, <1>11 DEF Report, PublishStatusUpdate
    <2> HIDE DEF m
    <2>4. sent \in SUBSET Messages /\ m \in sent
          /\ \A n \in sent \ inFlight[s] : n = m
      BY <1>2, <2>2
    <2> HIDE DEF sent
    <2> QED
      BY <2>1, <2>2, <2>3, <2>4, JudgingMoves
  <1>12. CASE EngineCrash(s)
    <2>1. /\ job[s].at # "acked" /\ job'[s].at = "none"
          /\ \A t \in Submissions \ {s} : job'[t] = job[t]
          /\ queue' = queue \cup {s}
          /\ inFlight' = [inFlight EXCEPT ![s] = {}]
      BY <1>1, <1>12 DEF EngineCrash, NoJob
    <2> QED
      BY <2>1, JudgingMoves
  <1> QED
    BY <1>5, <1>6, <1>7, <1>8, <1>9, <1>10, <1>11, <1>12 DEF JudgeStep

\* The subscriber takes an update, or it is lost.
LEMMA ReceiveBoard ==
    ASSUME BoardInv, NEW s \in Submissions, NEW m \in inFlight[s],
           Receive(s, m) \/ Lose(s, m)
    PROVE  BoardInv'
  <1>1. /\ Told(s) /\ BoardTyped
        /\ m \in Messages
    BY DEF BoardInv, BoardTyped
  <1>2. UNCHANGED <<job, queue>> /\ inFlight' = [inFlight EXCEPT ![s] = @ \ {m}]
    BY DEF Receive, Lose
  <1>3. CASE Receive(s, m)
    <2>1. m.running => m.status \in Running
      BY <1>1 DEF Told
    <2>2. BoardTyped'
      BY <1>1, <1>2, <1>3, <2>1 DEF BoardTyped, Receive, Apply
    <2>3. ASSUME NEW t \in Submissions \ {s} PROVE Told(t)'
      BY <1>1, <1>2, <1>3 DEF BoardInv, BoardTyped, Told, Receive, Apply
    <2>4. Told(s)'
      <3>1. CASE m.running
        BY <1>1, <1>2, <1>3, <3>1 DEF BoardTyped, Told, Receive, Apply
      <3>2. CASE ~m.running
        BY <1>1, <1>2, <1>3, <3>2 DEF BoardTyped, Told, Receive, Apply
      <3> QED
        BY <3>1, <3>2
    <2> QED
      BY <2>2, <2>3, <2>4 DEF BoardInv
  <1>4. CASE Lose(s, m)
    <2>1. BoardTyped'
      BY <1>1, <1>2, <1>4 DEF BoardTyped, Lose
    <2>2. ASSUME NEW t \in Submissions PROVE Told(t)'
      BY <1>1, <1>2, <1>4 DEF BoardInv, BoardTyped, Told, Lose
    <2> QED
      BY <2>1, <2>2 DEF BoardInv
  <1> QED
    BY <1>3, <1>4

LEMMA NextBoard == JudgeInv /\ BoardInv /\ [Next]_vars => BoardInv'
  <1> SUFFICES ASSUME JudgeInv, BoardInv, [Next]_vars PROVE BoardInv'
    OBVIOUS
  <1>1. CASE UNCHANGED <<judgeVars, boardVars>>
    BY <1>1 DEF judgeVars, boardVars, BoardInv, BoardTyped, Told
  <1> QED
    BY <1>1, JudgeStepBoard, ReceiveBoard DEF Next, vars

LEMMA Invariance == Spec => [](ImportInv /\ JudgeInv /\ BoardInv)
  BY InitBoard, NextBoard, JudgeInvariance, PTL DEF Spec

\* Every variable keeps its type: packages have proper file names, rows and
\* updates carry statuses of the engine, and the hash only running ones.
THEOREM BoardIsTyped == Spec => []TypeOK
  <1>1. ASSUME ImportInv, JudgeInv, BoardInv PROVE TypeOK
    BY <1>1 DEF TypeOK, ImportInv, ImportTyped, ImportTypes, JudgeInv,
       JudgeTyped, BoardInv, BoardTyped, Messages
  <1> QED
    BY <1>1, Invariance, PTL

\* An acknowledged submission whose updates have all arrived is not in the
\* hash any more, unless the final update was lost or an older one overtook
\* it: the flag the engine computes and the subscriber's two commands fit.
THEOREM FinishedAreGone == Spec => []FinishedLeavesTheHash
  <1>1. ASSUME BoardInv PROVE FinishedLeavesTheHash
    BY <1>1 DEF BoardInv, BoardTyped, Told, FinishedLeavesTheHash
  <1> QED
    BY <1>1, Invariance, PTL
=============================================================================
