-------------------------- MODULE SandboxVerdicts --------------------------
(***************************************************************************)
(* From what the sandbox reports of a run to a status: formatter.go,       *)
(* execute.go and compile.go of execution-engine/worker, on the metadata   *)
(* of sandbox/result.go.                                                   *)
(*                                                                         *)
(* Metadata is [status, sig, code]; an empty status means that the program *)
(* ended with exit code 0. NoMeta stands for a nil pointer: the metadata   *)
(* file could not be opened, or the run was never started.                 *)
(***************************************************************************)
EXTENDS Integers

\* The signals with a status of their own and one more, and the exit codes
\* checkers use: 1 and 2 for a wrong answer, 3 for a failure, and another.
Meta(status, sig, code) == [status |-> status, sig |-> sig, code |-> code]
NoMeta == Meta("none", 0, 0)
Metas ==
    {Meta("", 0, 0), Meta("TO", 0, 0), Meta("XX", 0, 0)}
    \cup {Meta("SG", s, 0) : s \in {6, 8, 9, 11, 25}}
    \cup {Meta("RE", 0, c) : c \in {1, 2, 3, 7}}

\* GetParsedMetadata
Reports == Metas \cup {NoMeta}

SignalStatus(sig) ==
    CASE sig = 11 -> "SIGSEGV"
      [] sig = 25 -> "SIGXFSZ"
      [] sig = 8  -> "SIGFPE"
      [] sig = 6  -> "SIGABRT"
      [] OTHER    -> "RE"

FormatIsolateMetadata(meta, isChecker) ==
    CASE meta.status = "TO" -> "TLE"
      [] meta.status = "SG" -> SignalStatus(meta.sig)
      [] meta.status = "RE" -> IF ~isChecker THEN "NZEC"
                               ELSE IF meta.code \in {1, 2} THEN "WA" ELSE "FAIL"
      [] meta.status = "XX" -> "INT"
      [] OTHER              -> "AC"

ExecuteUserCode(meta) ==
    IF meta = NoMeta THEN "INT" ELSE FormatIsolateMetadata(meta, FALSE)

\* Mutant: the status of the checker's own run is taken for a verdict.
ForwardChecker(meta) ==
    IF meta = NoMeta THEN "INT" ELSE FormatIsolateMetadata(meta, TRUE)

ExecuteChecker(meta) ==
    LET status == FormatIsolateMetadata(meta, TRUE) IN
    IF meta = NoMeta THEN "INT"
    ELSE IF status \in {"INT", "AC", "WA"} THEN status
    ELSE "FAIL"

\* CompileUserCode, when CompileCode gave no binary: the compiler's run is
\* read as if it were the user's.
CompileError(meta) ==
    IF meta = NoMeta \/ FormatIsolateMetadata(meta, FALSE) \in {"INT", "AC"}
    THEN "INT"
    ELSE "CE"
=============================================================================
