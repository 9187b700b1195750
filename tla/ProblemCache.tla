---------------------------- MODULE ProblemCache ----------------------------
(***************************************************************************)
(* The problem cache of one execution engine and the part of a worker that *)
(* uses it: engine/cache.go, DownloadZip in engine/s3.go, PreExecute in    *)
(* worker/worker.go and CompileCheckerCode in worker/compile.go.           *)
(*                                                                         *)
(* Locks have no variables of their own: who holds DbCache.mu, S3Cache.mu  *)
(* or the lock of a cache item follows from the program counters, except   *)
(* for the lock that a failed compilation keeps for ever ("broken").       *)
(* An error of the cache releases its locks and leaves the worker          *)
(* "failed": the process goes on until that worker dereferences the        *)
(* Verdict that PreExecute left nil (worker.go:79, after the Nack), or     *)
(* the item that CompileCheckerCode did not get (compile.go:12).           *)
(***************************************************************************)
EXTENDS Integers, FiniteSets

CONSTANTS
    Workers,
    Problems,
    MaxVersion,   \* bound: versions a problem row may reach
    Items,        \* numbers that stand for the addresses of cacheS3Items
    Ttl,          \* DbCache.ttl
    Buffer,       \* CacheCleanupBuffer
    Interval,     \* CacheCleanupInterval
    Threshold,    \* CacheCleanupThreshold
    MaxClock      \* bound on the clock

ASSUME CacheConstants ==
    /\ MaxVersion \in Nat \ {0}
    /\ Items \subseteq Nat \ {0}
    /\ Ttl \in Nat /\ Buffer \in Nat /\ Threshold \in Nat /\ MaxClock \in Nat
    /\ Interval \in Nat \ {0}

Versions == 1..MaxVersion
Keys == Problems \X Versions
NoItem == 0
NoEntry == [version |-> 0, expiresAt |-> 0]

VARIABLES
    clock,    \* time, in ticks
    version,  \* [Problems -> polygon_version of the row in the database]
    db,       \* DbCache.store: [Problems -> entry or NoEntry]
    store,    \* S3Cache.store: [Keys -> item or NoItem]
    heap,     \* [Items -> "empty", "built" (CompiledBin) or "broken"]
    dir,      \* [Keys -> "missing", "partial" or "complete"]: TmpDir + key
    worker,   \* [Workers -> what the worker does]
    cleaner   \* the goroutine of NewCache: [at, due, now]

vars == <<clock, version, db, store, heap, dir, worker, cleaner>>

\* lookedUp is the time of the answer of DbCache.GetOrLoad.
Idle == [at |-> "idle", problem |-> "none", version |-> 0, lookedUp |-> 0,
         item |-> NoItem]
At(w, places) == worker[w].at \in places
KeyOf(w) == <<worker[w].problem, worker[w].version>>

\* The lookups of PreExecute and of CompileCheckerCode are the same code:
\* "download" and "reload" are its time under S3Cache.mu.
Downloading == {"download", "reload"}
DbFree == cleaner.at # "lockS3" /\ \A w \in Workers : ~At(w, {"loadRow"})
Loads(w, k) == At(w, Downloading) /\ KeyOf(w) = k
Abandoned(w, k) == At(w, {"failed"}) /\ KeyOf(w) = k
Compiles(w, i) == At(w, {"compile"}) /\ worker[w].item = i
S3Free == \A w \in Workers : ~At(w, Downloading)
ItemFree(i) ==
    heap[i] # "broken"
    /\ \A w \in Workers : ~Compiles(w, i)
Unused(i) ==
    /\ \A k \in Keys : store[k] # i
    /\ \A w \in Workers : worker[w].item # i

Init ==
    /\ clock = 0
    /\ version = [p \in Problems |-> 1]
    /\ db = [p \in Problems |-> NoEntry]
    /\ store = [k \in Keys |-> NoItem]
    /\ heap = [i \in Items |-> "empty"]
    /\ dir = [k \in Keys |-> "missing"]
    /\ worker = [w \in Workers |-> Idle]
    /\ cleaner = [at |-> "sleep", due |-> Interval, now |-> 0]

-----------------------------------------------------------------------------
(* PreExecute: Cache.GetOrLoad.                                            *)

Goto(w, r) == worker' = [worker EXCEPT ![w] = r]
Enter(w, place) == Goto(w, [worker[w] EXCEPT !.at = place])
FoundRow(w, v) ==
    Goto(w, [worker[w] EXCEPT !.at = "findItem", !.version = v,
                              !.lookedUp = clock])

Valid(p) == db[p] # NoEntry /\ clock < db[p].expiresAt

Take(w, p) ==
    /\ At(w, {"idle"})
    /\ Goto(w, [Idle EXCEPT !.at = "findRow", !.problem = p])
    /\ UNCHANGED <<clock, version, db, store, heap, dir, cleaner>>

\* The read lock; a miss goes on to the write lock.
FindRow(w) ==
    /\ At(w, {"findRow"})
    /\ DbFree
    /\ IF Valid(worker[w].problem)
       THEN FoundRow(w, db[worker[w].problem].version)
       ELSE Enter(w, "lockRow")
    /\ UNCHANGED <<clock, version, db, store, heap, dir, cleaner>>

\* The write lock, and the second look under it.
LockRow(w) ==
    /\ At(w, {"lockRow"})
    /\ DbFree
    /\ IF Valid(worker[w].problem)
       THEN FoundRow(w, db[worker[w].problem].version)
       ELSE Enter(w, "loadRow")
    /\ UNCHANGED <<clock, version, db, store, heap, dir, cleaner>>

\* Mutant: the time to live is subtracted.
LoadExpired(w) ==
    LET p == worker[w].problem IN
    /\ At(w, {"loadRow"})
    /\ db' = [db EXCEPT ![p] = [version |-> version[p],
                                expiresAt |-> clock - Ttl]]
    /\ FoundRow(w, version[p])
    /\ UNCHANGED <<clock, version, store, heap, dir, cleaner>>

\* GetProblemData, still under the write lock.
LoadRow(w) ==
    LET p == worker[w].problem IN
    /\ At(w, {"loadRow"})
    /\ db' = [db EXCEPT ![p] = [version |-> version[p],
                                expiresAt |-> clock + Ttl]]
    /\ FoundRow(w, version[p])
    /\ UNCHANGED <<clock, version, store, heap, dir, cleaner>>

\* GetProblemData returns an error: the write lock is released.
LoadRowFails(w) ==
    /\ At(w, {"loadRow"})
    /\ Enter(w, "failed")
    /\ UNCHANGED <<clock, version, db, store, heap, dir, cleaner>>

\* S3Cache.GetOrLoad with the read lock, called by PreExecute and once more
\* by CompileCheckerCode.
Got(w, i) ==
    Goto(w, [worker[w] EXCEPT
                !.item = IF At(w, {"again", "lockAgain", "reload"}) THEN i
                         ELSE NoItem,
                !.at = IF At(w, {"again", "lockAgain", "reload"})
                       THEN "readBin" ELSE "again"])

FindItem(w) ==
    /\ At(w, {"findItem", "again"})
    /\ S3Free
    /\ IF store[KeyOf(w)] # NoItem
       THEN Got(w, store[KeyOf(w)])
       ELSE Enter(w, IF At(w, {"again"}) THEN "lockAgain" ELSE "lockItem")
    /\ UNCHANGED <<clock, version, db, store, heap, dir, cleaner>>

\* Mutant: no second look under the write lock.
DownloadAnyway(w) ==
    /\ At(w, {"lockItem", "lockAgain"})
    /\ S3Free
    /\ dir' = [dir EXCEPT ![KeyOf(w)] = "partial"]
    /\ Enter(w, IF At(w, {"lockAgain"}) THEN "reload" ELSE "download")
    /\ UNCHANGED <<clock, version, db, store, heap, cleaner>>

\* The write lock: the item by now, or the start of DownloadZip.
LockItem(w) ==
    /\ At(w, {"lockItem", "lockAgain"})
    /\ S3Free
    /\ \/ /\ store[KeyOf(w)] # NoItem
          /\ Got(w, store[KeyOf(w)])
          /\ UNCHANGED dir
       \/ /\ store[KeyOf(w)] = NoItem
          /\ dir' = [dir EXCEPT ![KeyOf(w)] = "partial"]
          /\ Enter(w, IF At(w, {"lockAgain"}) THEN "reload" ELSE "download")
    /\ UNCHANGED <<clock, version, db, store, heap, cleaner>>

\* DownloadZip and Unzip returned: the item enters the store.
Downloaded(w) ==
    /\ At(w, Downloading)
    /\ dir' = [dir EXCEPT ![KeyOf(w)] = "complete"]
    /\ \E i \in Items :
          /\ Unused(i)
          /\ \A j \in Items : Unused(j) => i <= j
          /\ heap' = [heap EXCEPT ![i] = "empty"]
          /\ store' = [store EXCEPT ![KeyOf(w)] = i]
          /\ Got(w, i)
    /\ UNCHANGED <<clock, version, db, cleaner>>

\* DownloadZip returns an error: S3Cache.mu is released, and what was unpacked
\* so far stays where it is.
DownloadFails(w) ==
    /\ At(w, Downloading)
    /\ Enter(w, "failed")
    /\ UNCHANGED <<clock, version, db, store, heap, dir, cleaner>>

-----------------------------------------------------------------------------
(* CompileCheckerCode, and the tests that follow it.                       *)

ReadBin(w) ==
    /\ At(w, {"readBin"})
    /\ ItemFree(worker[w].item)
    /\ Enter(w, IF heap[worker[w].item] = "built" THEN "run" ELSE "lockBin")
    /\ UNCHANGED <<clock, version, db, store, heap, dir, cleaner>>

\* Mutant: no second look under the lock of the item.
CompileAnyway(w) ==
    /\ At(w, {"lockBin"})
    /\ ItemFree(worker[w].item)
    /\ Enter(w, "compile")
    /\ UNCHANGED <<clock, version, db, store, heap, dir, cleaner>>

LockBin(w) ==
    /\ At(w, {"lockBin"})
    /\ ItemFree(worker[w].item)
    /\ Enter(w, IF heap[worker[w].item] = "built" THEN "run" ELSE "compile")
    /\ UNCHANGED <<clock, version, db, store, heap, dir, cleaner>>

\* Without its directory the source is read as empty and does not compile.
CompileChecker(w) ==
    /\ At(w, {"compile"})
    /\ dir[KeyOf(w)] = "complete"
    /\ heap' = [heap EXCEPT ![worker[w].item] = "built"]
    /\ Enter(w, "run")
    /\ UNCHANGED <<clock, version, db, store, dir, cleaner>>

\* The INT verdict returns past the Unlock.
CompileCheckerFails(w) ==
    /\ At(w, {"compile"})
    /\ heap' = [heap EXCEPT ![worker[w].item] = "broken"]
    /\ Goto(w, Idle)
    /\ UNCHANGED <<clock, version, db, store, dir, cleaner>>

\* The tests, which read their files from the directory, and the settlement.
Finish(w) ==
    /\ At(w, {"run"})
    /\ Goto(w, Idle)
    /\ UNCHANGED <<clock, version, db, store, heap, dir, cleaner>>

\* The process ends and starts again with empty maps; initCleanup empties
\* TmpDir.
ProcessRestarts ==
    /\ db' = [p \in Problems |-> NoEntry]
    /\ store' = [k \in Keys |-> NoItem]
    /\ heap' = [i \in Items |-> "empty"]
    /\ dir' = [k \in Keys |-> "missing"]
    /\ worker' = [w \in Workers |-> Idle]
    /\ cleaner' = [at |-> "sleep", due |-> clock + Interval, now |-> 0]
    /\ UNCHANGED <<clock, version>>

\* The nil dereference after a failed query or download.
Panic(w) ==
    /\ At(w, {"failed"})
    /\ ProcessRestarts

Worker(w) ==
    \/ FindRow(w) \/ LockRow(w) \/ LoadRow(w)
    \/ FindItem(w) \/ LockItem(w) \/ Downloaded(w)
    \/ ReadBin(w) \/ LockBin(w) \/ CompileChecker(w) \/ CompileCheckerFails(w)
    \/ Finish(w)
    \/ LoadRowFails(w) \/ DownloadFails(w) \/ Panic(w)

-----------------------------------------------------------------------------
(* cleanCache: the clock and the unlocked length of the map, then both     *)
(* locks, then all of the removal.                                         *)

CleanStart ==
    LET stored == {k \in Keys : store[k] # NoItem} IN
    /\ cleaner.at = "sleep"
    /\ clock >= cleaner.due
    /\ cleaner' = [cleaner EXCEPT
                      !.due = clock + Interval,
                      !.at = IF Cardinality(stored) > Threshold
                             THEN "lockDb" ELSE "sleep",
                      !.now = IF Cardinality(stored) > Threshold
                              THEN clock ELSE 0]
    /\ UNCHANGED <<clock, version, db, store, heap, dir, worker>>

CleanLockDb ==
    /\ cleaner.at = "lockDb"
    /\ DbFree
    /\ cleaner' = [cleaner EXCEPT !.at = "lockS3"]
    /\ UNCHANGED <<clock, version, db, store, heap, dir, worker>>

\* Mutant: the cleanup tests validity as the lookups do, without the buffer.
ExpiredAtTtl(p) == db[p] # NoEntry /\ cleaner.now >= db[p].expiresAt

Expired(p) == db[p] # NoEntry /\ cleaner.now > db[p].expiresAt + Buffer

\* Not in the DbCache any more, or older than another stored version.
Stale(k) ==
    \/ db[k[1]] = NoEntry \/ Expired(k[1])
    \/ \E v \in Versions : v > k[2] /\ store[<<k[1], v>>] # NoItem

\* Mutant: a cleanup that finds nothing to remove keeps its locks.
CleanKeepsLocks ==
    LET removed == {k \in Keys : store[k] # NoItem /\ Stale(k)} IN
    /\ cleaner.at = "lockS3"
    /\ S3Free
    /\ removed # {}
    /\ db' = [p \in Problems |-> IF Expired(p) THEN NoEntry ELSE db[p]]
    /\ store' = [k \in Keys |-> IF k \in removed THEN NoItem ELSE store[k]]
    /\ dir' = [k \in Keys |-> IF k \in removed THEN "missing" ELSE dir[k]]
    /\ cleaner' = [cleaner EXCEPT !.at = "sleep", !.now = 0]
    /\ UNCHANGED <<clock, version, heap, worker>>

CleanRemove ==
    LET removed == {k \in Keys : store[k] # NoItem /\ Stale(k)} IN
    /\ cleaner.at = "lockS3"
    /\ S3Free
    /\ db' = [p \in Problems |-> IF Expired(p) THEN NoEntry ELSE db[p]]
    /\ store' = [k \in Keys |-> IF k \in removed THEN NoItem ELSE store[k]]
    /\ dir' = [k \in Keys |-> IF k \in removed THEN "missing" ELSE dir[k]]
    /\ cleaner' = [cleaner EXCEPT !.at = "sleep", !.now = 0]
    /\ UNCHANGED <<clock, version, heap, worker>>

Clean == CleanStart \/ CleanLockDb \/ CleanRemove

-----------------------------------------------------------------------------
(* The environment.                                                        *)

Tick ==
    /\ clock < MaxClock
    /\ clock' = clock + 1
    /\ UNCHANGED <<version, db, store, heap, dir, worker, cleaner>>

\* The row of a problem gets a newer package; nothing in the repository does
\* this, but the keys of the cache are made for it.
NewVersion(p) ==
    /\ version[p] < MaxVersion
    /\ version' = [version EXCEPT ![p] = @ + 1]
    /\ UNCHANGED <<clock, db, store, heap, dir, worker, cleaner>>

\* Somebody kills the process.
Restart == ProcessRestarts

Next ==
    \/ \E w \in Workers :
          \/ \E p \in Problems : Take(w, p)
          \/ Worker(w)
    \/ Clean
    \/ Tick
    \/ \E p \in Problems : NewVersion(p)
    \/ Restart

\* Go schedules every goroutine, and database, S3 and compiler answer: the
\* steps of a worker go on, whether jobs arrive or time passes or not.
Fairness ==
    /\ \A w \in Workers : WF_vars(Worker(w))
    /\ WF_vars(Clean)

Spec == Init /\ [][Next]_vars /\ Fairness

-----------------------------------------------------------------------------
(* Properties.                                                             *)

Places == {"idle", "findRow", "lockRow", "loadRow", "findItem", "lockItem",
           "download", "again", "lockAgain", "reload", "readBin", "lockBin",
           "compile", "run", "failed"}

\* Every variable keeps its type.
TypeOK ==
    /\ clock \in 0..MaxClock
    /\ version \in [Problems -> Versions]
    /\ db \in [Problems -> [version : 0..MaxVersion, expiresAt : Nat]]
    /\ store \in [Keys -> Items \cup {NoItem}]
    /\ heap \in [Items -> {"empty", "built", "broken"}]
    /\ dir \in [Keys -> {"missing", "partial", "complete"}]
    /\ worker \in [Workers -> [at : Places, problem : Problems \cup {"none"},
                               version : 0..MaxVersion, lookedUp : Nat,
                               item : Items \cup {NoItem}]]
    /\ cleaner \in [at : {"sleep", "lockDb", "lockS3"}, due : Nat, now : Nat]

\* A directory is complete exactly when the store has its item: nobody is
\* handed a half-unpacked package, also not what a failed download left behind
\* and another worker unpacks over (s3.go:64-71, cache.go:197-199), and the
\* cleanup leaves no package behind that the store has forgotten. A partial
\* directory is in the hands of one downloading worker, or it is the rest of a
\* failed download whose worker is about to end the process; two workers never
\* unpack into one directory at once.
DirectoryFollowsStore ==
    \A k \in Keys :
        /\ dir[k] = "complete" <=> store[k] # NoItem
        /\ (\E w \in Workers : Loads(w, k)) => dir[k] = "partial"
        /\ dir[k] = "partial" => \E w \in Workers : Loads(w, k) \/ Abandoned(w, k)
        /\ \A u, w \in Workers : Loads(u, k) /\ Loads(w, k) => u = w

\* From the end of PreExecute to the last test.
Using == {"again", "lockAgain", "reload", "readBin", "lockBin", "compile",
          "run"}

\* What the buffer of the cleanup is for (cache.go:73): a package is taken
\* from a worker that uses it only if the worker looked its row up more than
\* Buffer ago or the problem has a newer version. In particular the lookup of
\* CompileCheckerCode, whose error nobody looks at, finds the item before.
InUseIsKept ==
    \A w \in Workers :
        At(w, Using) =>
            \/ store[KeyOf(w)] # NoItem /\ dir[KeyOf(w)] = "complete"
            \/ clock - worker[w].lookedUp > Buffer
            \/ version[worker[w].problem] > worker[w].version

\* A cached checker is compiled at most once and by one worker at a time: an
\* item has a compiler, a binary or the lock of a failed attempt, never two
\* of them. The double check around the item's lock is there for this.
CheckerCompiledOnce ==
    \A i \in Items, w \in Workers :
        Compiles(w, i) =>
            /\ heap[i] = "empty"
            /\ \A u \in Workers : Compiles(u, i) => u = w

BehindBrokenChecker(w) ==
    /\ At(w, {"readBin", "lockBin"})
    /\ heap[worker[w].item] = "broken"

\* The locks never stop a job for ever, with one exception: a job whose
\* checker failed to compile before waits for a lock nobody holds any more.
JobsLeaveTheCache ==
    \A w \in Workers :
        ~At(w, {"idle"}) ~> (At(w, {"idle"}) \/ BehindBrokenChecker(w))
=============================================================================
