SPECIFICATION Spec
CONSTANTS
    i1 = i1  s1 = s1
    Imports = {i1}
    Packages <- SomePackages
    AllowGenerate = TRUE
    NoZip = NoZip
    Submissions = {s1}
    MaxTests = 2
    MaxCrashes = 2
    MaxInFlight = 3
INVARIANTS
    TypeOK
    TestFilesAreThere
    OnlyActiveWorkDirs
    AcceptedMeansEveryTest
    JudgeFaultsCostNothing
    FinishedLeavesTheHash
CHECK_DEADLOCK FALSE
