------------------------- MODULE ProblemCacheProofs -------------------------
(* Proofs about ProblemCache, for every number of workers, problems and    *)
(* items, and for every time to live, buffer, interval and threshold.      *)
EXTENDS ProblemCache, TLAPS

-----------------------------------------------------------------------------
(* The inductive invariant.                                                *)

AfterRow == {"findItem", "lockItem", "download"} \cup Using

\* What the place of a worker says of the fields of its record.
WorkersAreSomewhere ==
    \A w \in Workers :
        /\ ~At(w, {"idle"}) => worker[w].problem \in Problems
        /\ At(w, AfterRow) => worker[w].version \in Versions
        /\ At(w, {"readBin", "lockBin", "compile", "run"}) =>
              worker[w].item \in Items

EntriesHaveVersions ==
    \A p \in Problems : db[p] # NoEntry => db[p].version \in Versions

Typed == TypeOK /\ WorkersAreSomewhere /\ EntriesHaveVersions

\* Nothing in the engine is ahead of the database or of the clock.
NothingIsAhead ==
    /\ cleaner.now <= clock
    /\ \A p \in Problems : db[p] # NoEntry => db[p].version <= version[p]
    /\ \A k \in Keys : store[k] # NoItem => k[2] <= version[k[1]]
    /\ \A w \in Workers :
          At(w, AfterRow) =>
              /\ worker[w].lookedUp <= clock
              /\ worker[w].version <= version[worker[w].problem]

\* The entry a worker has looked up did not expire before, and stays until
\* the buffer is over.
LookupsArePending ==
    \A w \in Workers :
        At(w, AfterRow) =>
            \/ /\ db[worker[w].problem] # NoEntry
               /\ db[worker[w].problem].expiresAt >= worker[w].lookedUp
            \/ clock - worker[w].lookedUp > Buffer

IInv ==
    /\ Typed
    /\ DirectoryFollowsStore
    /\ CheckerCompiledOnce
    /\ NothingIsAhead /\ LookupsArePending /\ InUseIsKept

-----------------------------------------------------------------------------
(* Types.                                                                  *)

Records == [at : Places, problem : Problems \cup {"none"},
            version : 0..MaxVersion, lookedUp : Nat,
            item : Items \cup {NoItem}]

\* A worker that moves on is the only one that changes.
LEMMA GotoChangesOne ==
    ASSUME TypeOK, NEW w \in Workers, NEW r \in Records, Goto(w, r)
    PROVE  /\ worker' \in [Workers -> Records]
           /\ worker'[w] = r
           /\ \A u \in Workers : u # w => worker'[u] = worker[u]
  BY DEF TypeOK, Goto, Records

\* Of the invariant, a worker that moves on need only keep its own part.
LEMMA MoverIsSomewhere ==
    ASSUME Typed, NEW w \in Workers, NEW r \in Records, Goto(w, r),
           r.at # "idle" => r.problem \in Problems,
           r.at \in AfterRow => r.version \in Versions,
           r.at \in {"readBin", "lockBin", "compile", "run"} =>
               r.item \in Items
    PROVE  WorkersAreSomewhere'
  BY GotoChangesOne DEF Typed, WorkersAreSomewhere, At

LEMMA KeysAreTyped ==
    ASSUME Typed, NEW w \in Workers
    PROVE  /\ worker[w] \in Records
           /\ At(w, AfterRow) => KeyOf(w) \in Keys
           /\ ~At(w, {"idle"}) => worker[w].problem \in Problems
           /\ At(w, AfterRow) => worker[w].version \in Versions
           /\ At(w, {"readBin", "lockBin", "compile", "run"}) =>
                 worker[w].item \in Items
           /\ At(w, Using) => At(w, AfterRow)
  <1>1. worker[w] \in Records
    BY DEF Typed, TypeOK, Records
  <1>2. At(w, Using) => At(w, AfterRow)
    BY DEF AfterRow, At
  <1>3. At(w, AfterRow) => ~At(w, {"idle"})
    BY DEF AfterRow, Using, At
  <1>4. At(w, AfterRow) => KeyOf(w) \in Keys
    BY <1>3 DEF Typed, WorkersAreSomewhere, KeyOf, Keys
  <1> QED
    BY <1>1, <1>2, <1>4 DEF Typed, WorkersAreSomewhere

LEMMA GotIsTyped ==
    ASSUME Typed, NEW w \in Workers, NEW i \in Items, Got(w, i),
           At(w, {"findItem", "again", "lockItem", "lockAgain", "download",
                  "reload"})
    PROVE  worker' \in [Workers -> Records] /\ WorkersAreSomewhere'
  <1> DEFINE again == At(w, {"again", "lockAgain", "reload"})
             r == [worker[w] EXCEPT
                     !.item = IF again THEN i ELSE NoItem,
                     !.at = IF again THEN "readBin" ELSE "again"]
  <1>1. Goto(w, r)
    BY DEF Got
  <1>2. At(w, AfterRow) /\ ~At(w, {"idle"})
    BY DEF AfterRow, Using, At
  <1>3. /\ worker[w] \in Records /\ worker[w].problem \in Problems
        /\ worker[w].version \in Versions
    BY <1>2, KeysAreTyped
  <1>4. /\ r \in Records /\ r.problem \in Problems /\ r.version \in Versions
        /\ r.at = "readBin" => r.item \in Items
        /\ r.at \in {"again", "readBin"}
    BY <1>3 DEF Records, Places
  <1>5. TypeOK
    BY DEF Typed
  <1> HIDE DEF r
  <1>6. WorkersAreSomewhere'
    BY <1>1, <1>4, MoverIsSomewhere
  <1> QED
    BY <1>1, <1>4, <1>5, <1>6, GotoChangesOne

\* A lookup that ends with version v of the row.
LEMMA FoundRowIsTyped ==
    ASSUME Typed, NEW w \in Workers, NEW v \in Versions, FoundRow(w, v),
           ~At(w, {"idle"})
    PROVE  worker' \in [Workers -> Records] /\ WorkersAreSomewhere'
  <1> DEFINE r == [worker[w] EXCEPT !.at = "findItem", !.version = v,
                                    !.lookedUp = clock]
  <1>1. Goto(w, r)
    BY DEF FoundRow
  <1>2. worker[w] \in Records /\ worker[w].problem \in Problems
    BY KeysAreTyped
  <1>3. clock \in Nat /\ TypeOK
    BY CacheConstants DEF Typed, TypeOK
  <1>4. v \in 0..MaxVersion
    BY CacheConstants DEF Versions
  <1>5. /\ r \in Records /\ r.problem \in Problems /\ r.version \in Versions
        /\ r.at = "findItem"
    BY <1>2, <1>3, <1>4 DEF Records, Places
  <1> HIDE DEF r
  <1>6. WorkersAreSomewhere'
    BY <1>1, <1>5, MoverIsSomewhere
  <1> QED
    BY <1>1, <1>3, <1>5, <1>6, GotoChangesOne

\* A worker that only goes from one place to the next.
LEMMA EnterIsTyped ==
    ASSUME Typed, NEW w \in Workers, NEW place \in Places, Enter(w, place),
           ~At(w, {"idle"}),
           place \in AfterRow => At(w, AfterRow),
           place \in {"readBin", "lockBin", "compile", "run"} =>
               At(w, {"readBin", "lockBin", "compile", "run"})
    PROVE  worker' \in [Workers -> Records] /\ WorkersAreSomewhere'
  <1> DEFINE r == [worker[w] EXCEPT !.at = place]
  <1>1. Goto(w, r)
    BY DEF Enter
  <1>2. /\ worker[w] \in Records /\ worker[w].problem \in Problems
        /\ At(w, AfterRow) => worker[w].version \in Versions
        /\ At(w, {"readBin", "lockBin", "compile", "run"}) =>
              worker[w].item \in Items
    BY KeysAreTyped
  <1>3. r \in Records
    BY <1>2 DEF Records
  <1>4. /\ r.at = place /\ r.problem = worker[w].problem
        /\ r.version = worker[w].version /\ r.item = worker[w].item
    BY <1>2 DEF Records
  <1> HIDE DEF r
  <1>5. WorkersAreSomewhere'
    BY <1>1, <1>2, <1>3, <1>4, MoverIsSomewhere
  <1> QED
    BY <1>1, <1>3, <1>5, GotoChangesOne DEF Typed

LEMMA IdleIsTyped ==
    ASSUME Typed, NEW w \in Workers, Goto(w, Idle)
    PROVE  worker' \in [Workers -> Records] /\ WorkersAreSomewhere'
  <1>1. Idle \in Records /\ Idle.at = "idle"
    BY CacheConstants DEF Idle, Records, Places
  <1>2. Idle.at \notin AfterRow
    BY <1>1 DEF AfterRow, Using
  <1> QED
    BY <1>1, <1>2, GotoChangesOne, MoverIsSomewhere DEF Typed

\* What is left to show of the other variables.
Rest == /\ clock \in 0..MaxClock
        /\ version \in [Problems -> Versions]
        /\ db \in [Problems -> [version : 0..MaxVersion, expiresAt : Nat]]
        /\ store \in [Keys -> Items \cup {NoItem}]
        /\ heap \in [Items -> {"empty", "built", "broken"}]
        /\ dir \in [Keys -> {"missing", "partial", "complete"}]
        /\ cleaner \in [at : {"sleep", "lockDb", "lockS3"},
                        due : Nat, now : Nat]
        /\ EntriesHaveVersions

LEMMA TypedParts ==
    /\ Typed <=> /\ Rest
                 /\ worker \in [Workers -> Records] /\ WorkersAreSomewhere
    /\ Typed' <=> /\ Rest'
                  /\ worker' \in [Workers -> Records] /\ WorkersAreSomewhere'
  BY DEF Typed, TypeOK, Rest, Records

LEMMA RestStays ==
    ASSUME Typed, UNCHANGED <<clock, version, db, store, heap, dir, cleaner>>
    PROVE  Rest'
  BY DEF Typed, TypeOK, Rest, EntriesHaveVersions

LEMMA WorkersStay ==
    ASSUME Typed, UNCHANGED worker
    PROVE  worker' \in [Workers -> Records] /\ WorkersAreSomewhere'
  BY DEF Typed, TypeOK, Records, WorkersAreSomewhere, At

LEMMA TakeIsTyped ==
    ASSUME Typed, NEW w \in Workers, NEW p \in Problems, Take(w, p)
    PROVE  Typed'
  <1> DEFINE r == [Idle EXCEPT !.at = "findRow", !.problem = p]
  <1>1. Goto(w, r) /\ Rest'
    BY RestStays DEF Take
  <1>2. r \in Records /\ r.at = "findRow" /\ r.problem \in Problems
    <2>1. Idle \in Records
      BY CacheConstants DEF Idle, Records, Places
    <2>2. "findRow" \in Places
      BY DEF Places
    <2> QED
      BY <2>1, <2>2 DEF Records
  <1>3. r.at \notin AfterRow
    BY <1>2 DEF AfterRow, Using
  <1> HIDE DEF r
  <1>4. WorkersAreSomewhere'
    BY <1>1, <1>2, <1>3, MoverIsSomewhere
  <1> QED
    BY <1>1, <1>2, <1>4, GotoChangesOne, TypedParts DEF Typed

\* The lookup of the row, under either lock.
LEMMA RowLookupIsTyped ==
    ASSUME Typed, NEW w \in Workers, FindRow(w) \/ LockRow(w)
    PROVE  Typed'
  <1> DEFINE p == worker[w].problem
  <1>1. Rest' /\ ~At(w, {"idle"})
    BY RestStays DEF FindRow, LockRow, At
  <1>2. p \in Problems
    BY <1>1, KeysAreTyped
  <1>3. CASE FoundRow(w, db[p].version) /\ Valid(p)
    <2>1. db[p].version \in Versions
      BY <1>2, <1>3 DEF Valid, Typed, EntriesHaveVersions
    <2> QED
      BY <1>1, <1>3, <2>1, FoundRowIsTyped, TypedParts
  <1>4. CASE Enter(w, "lockRow") \/ Enter(w, "loadRow")
    <2>1. /\ "lockRow" \in Places \ AfterRow
          /\ "loadRow" \in Places \ AfterRow
      BY DEF AfterRow, Using, Places
    <2> QED
      BY <1>1, <1>4, <2>1, EnterIsTyped, TypedParts
  <1> QED
    BY <1>3, <1>4 DEF FindRow, LockRow

LEMMA LoadRowIsTyped ==
    ASSUME Typed, NEW w \in Workers, LoadRow(w)
    PROVE  Typed'
  <1> DEFINE p == worker[w].problem
  <1>1. ~At(w, {"idle"}) /\ FoundRow(w, version[p])
    BY DEF LoadRow, At
  <1>2. p \in Problems
    BY <1>1, KeysAreTyped
  <1>3. version[p] \in Versions /\ clock + Ttl \in Nat
    BY <1>2, CacheConstants DEF Typed, TypeOK
  <1>4. worker' \in [Workers -> Records] /\ WorkersAreSomewhere'
    BY <1>1, <1>3, FoundRowIsTyped
  <1>5. db' = [db EXCEPT ![p] = [version |-> version[p],
                                 expiresAt |-> clock + Ttl]]
    BY DEF LoadRow
  <1>6. Rest'
    <2>1. version[p] \in 0..MaxVersion
      BY <1>3, CacheConstants DEF Versions
    <2>2. db' \in [Problems -> [version : 0..MaxVersion, expiresAt : Nat]]
      BY <1>2, <1>3, <1>5, <2>1 DEF Typed, TypeOK
    <2>3. EntriesHaveVersions'
      BY <1>2, <1>3, <1>5 DEF Typed, TypeOK, EntriesHaveVersions
    <2> QED
      BY <2>2, <2>3 DEF LoadRow, Typed, TypeOK, Rest
  <1> QED
    BY <1>4, <1>6, TypedParts

LEMMA FindItemIsTyped ==
    ASSUME Typed, NEW w \in Workers, FindItem(w)
    PROVE  Typed'
  <1>1. /\ Rest' /\ At(w, {"findItem", "again"})
        /\ At(w, AfterRow) /\ ~At(w, {"idle"})
    BY RestStays DEF FindItem, At, AfterRow, Using
  <1>2. KeyOf(w) \in Keys
    BY <1>1, KeysAreTyped
  <1>3. CASE store[KeyOf(w)] # NoItem /\ Got(w, store[KeyOf(w)])
    <2>1. store[KeyOf(w)] \in Items
      BY <1>2, <1>3 DEF Typed, TypeOK
    <2>2. worker' \in [Workers -> Records] /\ WorkersAreSomewhere'
      BY <1>1, <1>3, <2>1, GotIsTyped DEF At
    <2> QED
      BY <1>1, <2>2, TypedParts
  <1>4. CASE Enter(w, "lockAgain") \/ Enter(w, "lockItem")
    <2>1. "lockAgain" \in Places /\ "lockItem" \in Places
      BY DEF Places
    <2> QED
      BY <1>1, <1>4, <2>1, EnterIsTyped, TypedParts
  <1> QED
    BY <1>3, <1>4 DEF FindItem

LEMMA LockItemIsTyped ==
    ASSUME Typed, NEW w \in Workers, LockItem(w)
    PROVE  Typed'
  <1>1. /\ At(w, {"lockItem", "lockAgain"})
        /\ At(w, AfterRow) /\ ~At(w, {"idle"})
    BY DEF LockItem, At, AfterRow, Using
  <1>2. KeyOf(w) \in Keys
    BY <1>1, KeysAreTyped
  <1>3. Rest'
    <2>1. dir' \in [Keys -> {"missing", "partial", "complete"}]
      BY DEF LockItem, Typed, TypeOK
    <2> QED
      BY <2>1 DEF LockItem, Typed, TypeOK, Rest, EntriesHaveVersions
  <1>4. CASE store[KeyOf(w)] # NoItem /\ Got(w, store[KeyOf(w)])
    <2>1. store[KeyOf(w)] \in Items
      BY <1>2, <1>4 DEF Typed, TypeOK
    <2>2. worker' \in [Workers -> Records] /\ WorkersAreSomewhere'
      BY <1>1, <1>4, <2>1, GotIsTyped DEF At
    <2> QED
      BY <1>3, <2>2, TypedParts
  <1>5. CASE Enter(w, "reload") \/ Enter(w, "download")
    <2>1. "reload" \in Places /\ "download" \in Places
      BY DEF Places
    <2> QED
      BY <1>1, <1>3, <1>5, <2>1, EnterIsTyped, TypedParts
  <1> QED
    BY <1>4, <1>5 DEF LockItem

LEMMA DownloadedIsTyped ==
    ASSUME Typed, NEW w \in Workers, Downloaded(w)
    PROVE  Typed'
  <1>1. PICK i \in Items : /\ heap' = [heap EXCEPT ![i] = "empty"]
                           /\ store' = [store EXCEPT ![KeyOf(w)] = i]
                           /\ Got(w, i)
    BY DEF Downloaded
  <1>2. At(w, {"download", "reload"})
    BY DEF Downloaded, Downloading
  <1>3. worker' \in [Workers -> Records] /\ WorkersAreSomewhere'
    BY <1>1, <1>2, GotIsTyped DEF At
  <1>4. Rest'
    <2>1. /\ dir' \in [Keys -> {"missing", "partial", "complete"}]
          /\ heap' \in [Items -> {"empty", "built", "broken"}]
          /\ store' \in [Keys -> Items \cup {NoItem}]
      BY <1>1 DEF Downloaded, Typed, TypeOK
    <2> QED
      BY <2>1 DEF Downloaded, Typed, TypeOK, Rest, EntriesHaveVersions
  <1> QED
    BY <1>3, <1>4, TypedParts

\* The steps of CompileCheckerCode after the lookup, and the tests.
LEMMA CheckerStepsAreTyped ==
    ASSUME Typed, NEW w \in Workers,
           \/ ReadBin(w) \/ LockBin(w) \/ CompileChecker(w)
           \/ CompileCheckerFails(w) \/ Finish(w)
    PROVE  Typed'
  <1>1. /\ At(w, {"readBin", "lockBin", "compile", "run"})
        /\ At(w, AfterRow) /\ ~At(w, {"idle"})
    BY DEF ReadBin, LockBin, CompileChecker, CompileCheckerFails, Finish,
           At, AfterRow, Using
  <1>2. Rest'
    <2>1. heap' \in [Items -> {"empty", "built", "broken"}]
      BY DEF ReadBin, LockBin, CompileChecker, CompileCheckerFails, Finish,
             Typed, TypeOK
    <2> QED
      BY <2>1 DEF ReadBin, LockBin, CompileChecker, CompileCheckerFails,
                  Finish, Typed, TypeOK, Rest, EntriesHaveVersions
  <1>3. CASE Enter(w, "run") \/ Enter(w, "lockBin") \/ Enter(w, "compile")
    <2>1. "run" \in Places /\ "lockBin" \in Places /\ "compile" \in Places
      BY DEF Places
    <2> QED
      BY <1>1, <1>2, <1>3, <2>1, EnterIsTyped, TypedParts
  <1>4. CASE Goto(w, Idle)
    BY <1>2, <1>4, IdleIsTyped, TypedParts
  <1> QED
    BY <1>3, <1>4 DEF ReadBin, LockBin, CompileChecker, CompileCheckerFails,
                      Finish

\* A failed query or download.
LEMMA FailingIsTyped ==
    ASSUME Typed, NEW w \in Workers, LoadRowFails(w) \/ DownloadFails(w)
    PROVE  Typed'
  <1>1. Rest' /\ ~At(w, {"idle"}) /\ Enter(w, "failed")
    BY RestStays DEF LoadRowFails, DownloadFails, Downloading, At
  <1>2. "failed" \in Places \ AfterRow
    BY DEF AfterRow, Using, Places
  <1> QED
    BY <1>1, <1>2, EnterIsTyped, TypedParts

LEMMA CleanIsTyped ==
    ASSUME Typed, Clean
    PROVE  Typed'
  <1>1. worker' \in [Workers -> Records] /\ WorkersAreSomewhere'
    BY WorkersStay DEF Clean, CleanStart, CleanLockDb, CleanRemove
  <1>2. cleaner' \in [at : {"sleep", "lockDb", "lockS3"}, due : Nat, now : Nat]
    <2>1. clock \in Nat /\ clock + Interval \in Nat
      BY CacheConstants DEF Typed, TypeOK
    <2>2. CASE CleanStart
      BY <2>1, <2>2 DEF CleanStart, Typed, TypeOK
    <2>3. CASE CleanLockDb
      BY <2>3 DEF CleanLockDb, Typed, TypeOK
    <2>4. CASE CleanRemove
      BY <2>4 DEF CleanRemove, Typed, TypeOK
    <2> QED
      BY <2>2, <2>3, <2>4 DEF Clean
  <1>3. CASE CleanStart \/ CleanLockDb
    <2>1. Rest'
      BY <1>2, <1>3 DEF CleanStart, CleanLockDb, Typed, TypeOK, Rest,
                        EntriesHaveVersions
    <2> QED
      BY <1>1, <2>1, TypedParts
  <1>4. CASE CleanRemove
    <2>1. NoEntry \in [version : 0..MaxVersion, expiresAt : Nat]
      BY CacheConstants DEF NoEntry
    <2>2. /\ db' \in [Problems -> [version : 0..MaxVersion, expiresAt : Nat]]
          /\ store' \in [Keys -> Items \cup {NoItem}]
          /\ dir' \in [Keys -> {"missing", "partial", "complete"}]
      BY <1>4, <2>1 DEF CleanRemove, Typed, TypeOK
    <2>3. EntriesHaveVersions'
      BY <1>4 DEF CleanRemove, Typed, EntriesHaveVersions
    <2>4. Rest'
      BY <1>2, <1>4, <2>2, <2>3 DEF CleanRemove, Typed, TypeOK, Rest
    <2> QED
      BY <1>1, <2>4, TypedParts
  <1> QED
    BY <1>3, <1>4 DEF Clean

LEMMA EnvironmentIsTyped ==
    ASSUME Typed, Tick \/ (\E p \in Problems : NewVersion(p)) \/ ProcessRestarts
    PROVE  Typed'
  <1>1. CASE Tick
    <2>1. clock' \in 0..MaxClock
      BY <1>1, CacheConstants DEF Tick, Typed, TypeOK
    <2>2. Rest'
      BY <1>1, <2>1 DEF Tick, Typed, TypeOK, Rest, EntriesHaveVersions
    <2> QED
      BY <1>1, <2>2, WorkersStay, TypedParts DEF Tick
  <1>2. ASSUME NEW p \in Problems, NewVersion(p)
        PROVE  Typed'
    <2>1. version' \in [Problems -> Versions]
      BY <1>2, CacheConstants DEF NewVersion, Typed, TypeOK, Versions
    <2>2. Rest'
      BY <1>2, <2>1 DEF NewVersion, Typed, TypeOK, Rest, EntriesHaveVersions
    <2> QED
      BY <1>2, <2>2, WorkersStay, TypedParts DEF NewVersion
  <1>3. CASE ProcessRestarts
    <2>1. /\ NoEntry \in [version : 0..MaxVersion, expiresAt : Nat]
          /\ clock + Interval \in Nat
          /\ Idle \in Records /\ Idle.at = "idle"
      BY CacheConstants DEF NoEntry, Idle, Records, Places, Typed, TypeOK
    <2>2. "idle" \notin AfterRow
      BY DEF AfterRow, Using
    <2>3. Rest'
      BY <1>3, <2>1 DEF ProcessRestarts, Typed, TypeOK, Rest, EntriesHaveVersions
    <2>4. worker' \in [Workers -> Records] /\ WorkersAreSomewhere'
      BY <1>3, <2>1, <2>2 DEF ProcessRestarts, WorkersAreSomewhere, At
    <2> QED
      BY <2>3, <2>4, TypedParts
  <1> QED
    BY <1>1, <1>2, <1>3

LEMMA TypedIsInductive ==
    ASSUME Typed, [Next]_vars
    PROVE  Typed'
  <1>1. CASE UNCHANGED vars
    <2>1. Rest' /\ worker' \in [Workers -> Records] /\ WorkersAreSomewhere'
      BY <1>1, RestStays, WorkersStay DEF vars
    <2> QED
      BY <2>1, TypedParts
  <1>2. ASSUME NEW w \in Workers, NEW p \in Problems, Take(w, p)
        PROVE  Typed'
    BY <1>2, TakeIsTyped
  <1>3. ASSUME NEW w \in Workers, Worker(w)
        PROVE  Typed'
    BY <1>3, RowLookupIsTyped, LoadRowIsTyped, FindItemIsTyped,
       LockItemIsTyped, DownloadedIsTyped, CheckerStepsAreTyped,
       FailingIsTyped, EnvironmentIsTyped DEF Worker, Panic
  <1> QED
    BY <1>1, <1>2, <1>3, CleanIsTyped, EnvironmentIsTyped DEF Next, Restart

-----------------------------------------------------------------------------
(* What a move of a worker changes, once the types are known.              *)

LEMMA OthersStay ==
    ASSUME Typed, NEW w \in Workers, NEW r, Goto(w, r)
    PROVE  /\ worker'[w] = r
           /\ \A u \in Workers : u # w => worker'[u] = worker[u]
  BY DEF Typed, TypeOK, Goto

SameOthers(w) == \A u \in Workers : u # w => worker'[u] = worker[u]

SameJob(w) ==
    /\ worker'[w].problem = worker[w].problem
    /\ worker'[w].version = worker[w].version
    /\ worker'[w].lookedUp = worker[w].lookedUp

LEMMA EnterMoves ==
    ASSUME Typed, NEW w \in Workers, NEW place, Enter(w, place)
    PROVE  /\ worker'[w].at = place /\ worker'[w].item = worker[w].item
           /\ SameOthers(w) /\ SameJob(w)
  <1>1. worker[w] \in Records
    BY KeysAreTyped
  <1>2. worker'[w] = [worker[w] EXCEPT !.at = place]
    BY OthersStay DEF Enter
  <1>3. SameOthers(w)
    BY OthersStay DEF Enter, SameOthers
  <1> QED
    BY <1>1, <1>2, <1>3 DEF Records, SameJob

LEMMA GotMoves ==
    ASSUME Typed, NEW w \in Workers, NEW i, Got(w, i)
    PROVE  /\ worker'[w].at \in {"readBin", "again"}
           /\ SameOthers(w) /\ SameJob(w)
  <1> DEFINE again == At(w, {"again", "lockAgain", "reload"})
             r == [worker[w] EXCEPT
                     !.item = IF again THEN i ELSE NoItem,
                     !.at = IF again THEN "readBin" ELSE "again"]
  <1>1. worker[w] \in Records
    BY KeysAreTyped
  <1>2. Goto(w, r)
    BY DEF Got
  <1>3. /\ r.at \in {"readBin", "again"}
        /\ r.problem = worker[w].problem /\ r.version = worker[w].version
        /\ r.lookedUp = worker[w].lookedUp
    BY <1>1 DEF Records
  <1> HIDE DEF r
  <1>4. worker'[w] = r /\ SameOthers(w)
    BY <1>2, OthersStay DEF SameOthers
  <1> QED
    BY <1>3, <1>4 DEF SameJob

LEMMA FoundRowMoves ==
    ASSUME Typed, NEW w \in Workers, NEW v, FoundRow(w, v)
    PROVE  /\ worker'[w].at = "findItem" /\ worker'[w].version = v
           /\ worker'[w].lookedUp = clock
           /\ worker'[w].problem = worker[w].problem
           /\ SameOthers(w)
  <1> DEFINE r == [worker[w] EXCEPT !.at = "findItem", !.version = v,
                                    !.lookedUp = clock]
  <1>1. worker[w] \in Records
    BY KeysAreTyped
  <1>2. Goto(w, r)
    BY DEF FoundRow
  <1>3. /\ r.at = "findItem" /\ r.version = v /\ r.lookedUp = clock
        /\ r.problem = worker[w].problem
    BY <1>1 DEF Records
  <1> HIDE DEF r
  <1>4. worker'[w] = r /\ SameOthers(w)
    BY <1>2, OthersStay DEF SameOthers
  <1> QED
    BY <1>3, <1>4

LEMMA FailingMoves ==
    ASSUME Typed, NEW w \in Workers, LoadRowFails(w) \/ DownloadFails(w)
    PROVE  /\ worker'[w].at = "failed" /\ SameOthers(w) /\ SameJob(w)
           /\ UNCHANGED <<clock, version, db, store, heap, dir, cleaner>>
  BY EnterMoves DEF LoadRowFails, DownloadFails

LEMMA IdleMoves ==
    ASSUME Typed, NEW w \in Workers, Goto(w, Idle)
    PROVE  worker'[w].at = "idle" /\ SameOthers(w)
  BY OthersStay DEF Idle, SameOthers

LEMMA TakeMoves ==
    ASSUME Typed, NEW w \in Workers, NEW p \in Problems, Take(w, p)
    PROVE  worker'[w].at = "findRow" /\ SameOthers(w)
  <1> DEFINE r == [Idle EXCEPT !.at = "findRow", !.problem = p]
  <1>1. Goto(w, r)
    BY DEF Take
  <1>2. r.at = "findRow"
    BY DEF Idle
  <1> HIDE DEF r
  <1> QED
    BY <1>1, <1>2, OthersStay DEF SameOthers

-----------------------------------------------------------------------------
(* A directory and its item come and go together.                          *)

\* Nothing happens to directories when a worker moves outside a download.
LEMMA QuietMove ==
    ASSUME DirectoryFollowsStore, dir' = dir, store' = store,
           NEW w \in Workers, SameOthers(w), ~At(w, {"failed"}),
           worker[w].at \notin Downloading, worker'[w].at \notin Downloading
    PROVE  DirectoryFollowsStore'
  <1>1. \A u \in Workers, k \in Keys : Loads(u, k)' <=> Loads(u, k)
    BY DEF Loads, At, KeyOf, SameOthers
  <1>2. \A u \in Workers, k \in Keys : Abandoned(u, k) => Abandoned(u, k)'
    BY DEF Abandoned, At, KeyOf, SameOthers
  <1> QED
    BY <1>1, <1>2 DEF DirectoryFollowsStore

\* While S3Cache.mu is free nobody downloads, and a half-unpacked package is
\* what a failed download left.
LEMMA NobodyLoads ==
    ASSUME DirectoryFollowsStore, S3Free
    PROVE  /\ \A k \in Keys, u \in Workers : ~Loads(u, k)
           /\ \A k \in Keys :
                 dir[k] = "partial" => \E u \in Workers : Abandoned(u, k)
  BY DEF DirectoryFollowsStore, S3Free, Loads

LEMMA LockItemKeepsDirectory ==
    ASSUME Typed, DirectoryFollowsStore, NEW w \in Workers, LockItem(w)
    PROVE  DirectoryFollowsStore'
  <1>1. worker[w].at \notin Downloading /\ ~At(w, {"failed"})
    BY DEF LockItem, At, Downloading
  <1>2. CASE Got(w, store[KeyOf(w)]) /\ UNCHANGED dir
    <2>1. worker'[w].at \notin Downloading /\ SameOthers(w)
      BY <1>2, GotMoves DEF Downloading
    <2> QED
      BY <1>1, <1>2, <2>1, QuietMove DEF LockItem
  <1>3. CASE /\ store[KeyOf(w)] = NoItem
             /\ dir' = [dir EXCEPT ![KeyOf(w)] = "partial"]
             /\ \/ Enter(w, "reload")
                \/ Enter(w, "download")
    <2>1. At(w, AfterRow)
      BY DEF LockItem, At, AfterRow, Using
    <2>2. KeyOf(w) \in Keys
      BY <2>1, KeysAreTyped
    <2>3. /\ worker'[w].at \in Downloading /\ SameOthers(w)
          /\ KeyOf(w)' = KeyOf(w)
      BY <1>3, EnterMoves DEF Downloading, KeyOf, SameJob
    <2>4. \A u \in Workers, k \in Keys :
             Loads(u, k)' <=> u = w /\ k = KeyOf(w)
      <3>1. \A k \in Keys : Loads(w, k)' <=> k = KeyOf(w)
        BY <2>3 DEF Loads, At
      <3>2. \A u \in Workers, k \in Keys : u # w => ~Loads(u, k)'
        BY <2>3 DEF Loads, At, SameOthers, LockItem, S3Free
      <3> QED
        BY <3>1, <3>2
    <2>5. /\ dir' = [k \in Keys |->
                       IF k = KeyOf(w) THEN "partial" ELSE dir[k]]
          /\ store' = store
      BY <1>3, <2>2 DEF LockItem, Typed, TypeOK
    <2>6. \A k \in Keys : dir[k]' = "complete" <=> store[k]' # NoItem
      BY <1>3, <2>5 DEF DirectoryFollowsStore
    <2>7. \A k \in Keys :
             (\E u \in Workers : Loads(u, k)') => dir[k]' = "partial"
      BY <2>4, <2>5
    <2>8. \A u \in Workers, k \in Keys : Abandoned(u, k) => Abandoned(u, k)'
      BY <1>1, <2>3 DEF Abandoned, At, KeyOf, SameOthers
    <2>9. \A k \in Keys : dir[k]' = "partial" =>
             \E u \in Workers : Loads(u, k)' \/ Abandoned(u, k)'
      <3>1. \A k \in Keys : k # KeyOf(w) /\ dir[k]' = "partial" =>
               \E u \in Workers : Abandoned(u, k)
        BY <2>5, NobodyLoads DEF LockItem
      <3> QED
        BY <2>4, <2>8, <3>1
    <2> QED
      BY <2>4, <2>6, <2>7, <2>9 DEF DirectoryFollowsStore
  <1> QED
    BY <1>2, <1>3 DEF LockItem

LEMMA DownloadedKeepsDirectory ==
    ASSUME Typed, DirectoryFollowsStore, NEW w \in Workers, Downloaded(w)
    PROVE  DirectoryFollowsStore'
  <1>1. PICK i \in Items : /\ store' = [store EXCEPT ![KeyOf(w)] = i]
                           /\ Got(w, i)
    BY DEF Downloaded
  <1>2. i # NoItem
    BY CacheConstants DEF NoItem
  <1>3. At(w, AfterRow) /\ At(w, Downloading)
    BY DEF Downloaded, Downloading, At, AfterRow, Using
  <1>4. KeyOf(w) \in Keys /\ Loads(w, KeyOf(w))
    BY <1>3, KeysAreTyped DEF Loads
  <1>5. worker'[w].at \notin Downloading /\ SameOthers(w)
    BY <1>1, GotMoves DEF Downloading
  <1>6. /\ dir' = [k \in Keys |->
                     IF k = KeyOf(w) THEN "complete" ELSE dir[k]]
        /\ store' = [k \in Keys |-> IF k = KeyOf(w) THEN i ELSE store[k]]
    BY <1>1, <1>4 DEF Downloaded, Typed, TypeOK
  <1>7. \A u \in Workers, k \in Keys : Loads(u, k)' <=> u # w /\ Loads(u, k)
    BY <1>5 DEF Loads, At, KeyOf, SameOthers
  <1>8. \A u \in Workers : Loads(u, KeyOf(w)) => u = w
    BY <1>4 DEF DirectoryFollowsStore
  <1>9. \A k \in Keys : k # KeyOf(w) => ~Loads(w, k)
    BY DEF Loads
  <1>10. \A k \in Keys : dir[k]' = "complete" <=> store[k]' # NoItem
    BY <1>2, <1>6 DEF DirectoryFollowsStore
  <1>11. \A k \in Keys :
            (\E u \in Workers : Loads(u, k)') => dir[k]' = "partial"
    BY <1>4, <1>6, <1>7, <1>8 DEF DirectoryFollowsStore
  <1>12. \A u \in Workers, k \in Keys : Abandoned(u, k) => Abandoned(u, k)'
    <2>1. ~At(w, {"failed"})
      BY <1>3 DEF At, Downloading
    <2> QED
      BY <1>5, <2>1 DEF Abandoned, At, KeyOf, SameOthers
  <1>13. \A k \in Keys : dir[k]' = "partial" =>
            \E u \in Workers : Loads(u, k)' \/ Abandoned(u, k)'
    BY <1>6, <1>7, <1>9, <1>12 DEF DirectoryFollowsStore
  <1> QED
    BY <1>7, <1>10, <1>11, <1>13 DEF DirectoryFollowsStore

\* A failed download leaves its directory to a worker that is about to panic.
LEMMA FailingKeepsDirectory ==
    ASSUME Typed, DirectoryFollowsStore, NEW w \in Workers,
           LoadRowFails(w) \/ DownloadFails(w)
    PROVE  DirectoryFollowsStore'
  <1>1. /\ worker'[w].at = "failed" /\ SameOthers(w) /\ SameJob(w)
        /\ dir' = dir /\ store' = store
    BY FailingMoves
  <1>2. ~At(w, {"failed"})
    BY DEF LoadRowFails, DownloadFails, Downloading, At
  <1>3. \A u \in Workers, k \in Keys : Loads(u, k)' <=> u # w /\ Loads(u, k)
    BY <1>1 DEF Loads, At, KeyOf, SameOthers, Downloading
  <1>4. \A k \in Keys : Loads(w, k) => Abandoned(w, k)'
    BY <1>1 DEF Loads, Abandoned, At, KeyOf, SameJob
  <1>5. \A u \in Workers, k \in Keys : Abandoned(u, k) => Abandoned(u, k)'
    BY <1>1, <1>2 DEF Abandoned, At, KeyOf, SameOthers
  <1> QED
    BY <1>1, <1>3, <1>4, <1>5 DEF DirectoryFollowsStore

LEMMA CleanRemoveKeepsDirectory ==
    ASSUME Typed, DirectoryFollowsStore, CleanRemove
    PROVE  DirectoryFollowsStore'
  <1> DEFINE removed == {k \in Keys : store[k] # NoItem /\ Stale(k)}
  <1>1. /\ store' = [k \in Keys |-> IF k \in removed THEN NoItem ELSE store[k]]
        /\ dir' = [k \in Keys |-> IF k \in removed THEN "missing" ELSE dir[k]]
        /\ worker' = worker
    BY DEF CleanRemove
  <1>2. /\ \A k \in Keys, u \in Workers : ~Loads(u, k)
        /\ \A k \in Keys :
              dir[k] = "partial" => \E u \in Workers : Abandoned(u, k)
    BY NobodyLoads DEF CleanRemove
  <1> HIDE DEF removed
  <1>3. \A k \in Keys, u \in Workers :
           ~Loads(u, k)' /\ (Abandoned(u, k) => Abandoned(u, k)')
    BY <1>1, <1>2 DEF Loads, Abandoned, At, KeyOf
  <1>4. \A k \in Keys :
           dir[k]' = "partial" => \E u \in Workers : Abandoned(u, k)'
    BY <1>1, <1>2, <1>3
  <1>5. \A k \in Keys : dir[k]' = "complete" <=> store[k]' # NoItem
    BY <1>1 DEF DirectoryFollowsStore
  <1> QED
    BY <1>3, <1>4, <1>5 DEF DirectoryFollowsStore

LEMMA DirectoryIsInductive ==
    ASSUME Typed, DirectoryFollowsStore, [Next]_vars
    PROVE  DirectoryFollowsStore'
  <1>1. CASE UNCHANGED <<store, dir, worker>>
    BY <1>1 DEF DirectoryFollowsStore, Loads, Abandoned, At, KeyOf
  <1>2. ASSUME NEW w \in Workers, NEW p \in Problems, Take(w, p)
        PROVE  DirectoryFollowsStore'
    <2>1. worker[w].at = "idle" /\ dir' = dir /\ store' = store
      BY <1>2 DEF Take, At
    <2> QED
      BY <1>2, <2>1, TakeMoves, QuietMove DEF Downloading, At
  <1>3. ASSUME NEW w \in Workers, FindRow(w) \/ LockRow(w) \/ LoadRow(w)
        PROVE  DirectoryFollowsStore'
    <2>1. /\ worker[w].at \in {"findRow", "lockRow", "loadRow"}
          /\ dir' = dir /\ store' = store
      BY <1>3 DEF FindRow, LockRow, LoadRow, At
    <2>2. /\ worker'[w].at \in {"findItem", "lockRow", "loadRow"}
          /\ SameOthers(w)
      BY <1>3, FoundRowMoves, EnterMoves DEF FindRow, LockRow, LoadRow
    <2> QED
      BY <2>1, <2>2, QuietMove DEF Downloading, At
  <1>4. ASSUME NEW w \in Workers, FindItem(w)
        PROVE  DirectoryFollowsStore'
    <2>1. /\ worker[w].at \in {"findItem", "again"}
          /\ dir' = dir /\ store' = store
      BY <1>4 DEF FindItem, At
    <2>2. /\ worker'[w].at \in {"again", "readBin", "lockAgain", "lockItem"}
          /\ SameOthers(w)
      BY <1>4, GotMoves, EnterMoves DEF FindItem
    <2> QED
      BY <2>1, <2>2, QuietMove DEF Downloading, At
  <1>5. ASSUME NEW w \in Workers,
               \/ ReadBin(w) \/ LockBin(w) \/ CompileChecker(w)
               \/ CompileCheckerFails(w) \/ Finish(w)
        PROVE  DirectoryFollowsStore'
    <2>1. /\ worker[w].at \in {"readBin", "lockBin", "compile", "run"}
          /\ dir' = dir /\ store' = store
      BY <1>5 DEF ReadBin, LockBin, CompileChecker, CompileCheckerFails,
                  Finish, At
    <2>2. /\ worker'[w].at \in {"run", "lockBin", "compile", "idle"}
          /\ SameOthers(w)
      BY <1>5, IdleMoves, EnterMoves
         DEF ReadBin, LockBin, CompileChecker, CompileCheckerFails, Finish
    <2> QED
      BY <2>1, <2>2, QuietMove DEF Downloading, At
  <1>6. CASE ProcessRestarts
    <2>1. \A w \in Workers : worker'[w].at = "idle"
      BY <1>6 DEF ProcessRestarts, Idle
    <2>2. \A w \in Workers, k \in Keys : ~Loads(w, k)'
      BY <2>1 DEF Loads, At, Downloading
    <2> QED
      BY <1>6, <2>2 DEF ProcessRestarts, DirectoryFollowsStore
  <1>7. CASE CleanStart \/ CleanLockDb \/ Tick
             \/ \E p \in Problems : NewVersion(p)
    BY <1>1, <1>7 DEF CleanStart, CleanLockDb, Tick, NewVersion
  <1>8. CASE UNCHANGED vars
    BY <1>1, <1>8 DEF vars
  <1> QED
    BY <1>2, <1>3, <1>4, <1>5, <1>6, <1>7, <1>8, LockItemKeepsDirectory,
       DownloadedKeepsDirectory, CleanRemoveKeepsDirectory,
       FailingKeepsDirectory
       DEF Next, Worker, Clean, Panic, Restart

-----------------------------------------------------------------------------
(* A checker has one compiler.                                             *)

\* Whoever compiles goes on, and nobody begins.
LEMMA NobodyBegins ==
    ASSUME CheckerCompiledOnce,
           \A i \in Items, u \in Workers : Compiles(u, i)' => Compiles(u, i),
           \A i \in Items, u \in Workers :
               Compiles(u, i)' => heap'[i] = heap[i]
    PROVE  CheckerCompiledOnce'
  BY DEF CheckerCompiledOnce

LEMMA LockBinKeepsOneCompiler ==
    ASSUME Typed, CheckerCompiledOnce, NEW w \in Workers, LockBin(w)
    PROVE  CheckerCompiledOnce'
  <1> DEFINE mine == worker[w].item
  <1>1. /\ mine \in Items /\ heap[mine] # "broken" /\ heap' = heap
        /\ \A u \in Workers : ~Compiles(u, mine)
    BY KeysAreTyped DEF LockBin, ItemFree, At
  <1>2. CASE Enter(w, "run")
    <2>1. worker'[w].at = "run" /\ SameOthers(w)
      BY <1>2, EnterMoves
    <2> QED
      BY <1>1, <2>1, NobodyBegins DEF Compiles, At, SameOthers
  <1>3. CASE heap[mine] # "built" /\ Enter(w, "compile")
    <2>1. /\ worker'[w].at = "compile" /\ worker'[w].item = mine
          /\ SameOthers(w)
      BY <1>3, EnterMoves
    <2>2. heap[mine] = "empty"
      BY <1>1, <1>3 DEF Typed, TypeOK
    <2>3. \A i \in Items, u \in Workers :
             Compiles(u, i)' => (u = w /\ i = mine) \/ (u # w /\ Compiles(u, i))
      BY <2>1 DEF Compiles, At, SameOthers
    <2> QED
      BY <1>1, <2>2, <2>3 DEF CheckerCompiledOnce
  <1> QED
    BY <1>2, <1>3 DEF LockBin

LEMMA CheckerIsInductive ==
    ASSUME Typed, CheckerCompiledOnce, [Next]_vars
    PROVE  CheckerCompiledOnce'
  <1>1. CASE UNCHANGED <<heap, worker>>
    BY <1>1, NobodyBegins DEF Compiles, At
  <1>2. ASSUME NEW w \in Workers,
               SameOthers(w), worker'[w].at # "compile", heap' = heap
        PROVE  CheckerCompiledOnce'
    BY <1>2, NobodyBegins DEF Compiles, At, SameOthers
  <1>3. ASSUME NEW w \in Workers, NEW p \in Problems, Take(w, p)
        PROVE  CheckerCompiledOnce'
    BY <1>2, <1>3, TakeMoves DEF Take
  <1>4. ASSUME NEW w \in Workers, FindRow(w) \/ LockRow(w) \/ LoadRow(w)
        PROVE  CheckerCompiledOnce'
    <2>1. /\ worker'[w].at \in {"findItem", "lockRow", "loadRow"}
          /\ SameOthers(w) /\ heap' = heap
      BY <1>4, FoundRowMoves, EnterMoves DEF FindRow, LockRow, LoadRow
    <2> QED
      BY <1>2, <2>1
  <1>5. ASSUME NEW w \in Workers, FindItem(w) \/ LockItem(w)
        PROVE  CheckerCompiledOnce'
    <2>1. /\ worker'[w].at \in {"again", "readBin", "lockAgain", "lockItem",
                                "download", "reload"}
          /\ SameOthers(w) /\ heap' = heap
      BY <1>5, GotMoves, EnterMoves DEF FindItem, LockItem
    <2> QED
      BY <1>2, <2>1
  <1>6. ASSUME NEW w \in Workers, Downloaded(w)
        PROVE  CheckerCompiledOnce'
    <2>1. PICK i \in Items : /\ Unused(i)
                             /\ heap' = [heap EXCEPT ![i] = "empty"]
                             /\ Got(w, i)
      BY <1>6 DEF Downloaded
    <2>2. worker'[w].at \in {"readBin", "again"} /\ SameOthers(w)
      BY <2>1, GotMoves
    <2>3. \A j \in Items : j # i => heap'[j] = heap[j]
      BY <2>1 DEF Typed, TypeOK
    <2>4. \A u \in Workers : worker[u].item # i
      BY <2>1 DEF Unused
    <2>5. \A j \in Items, u \in Workers :
             Compiles(u, j)' => u # w /\ Compiles(u, j) /\ j # i
      BY <2>2, <2>4 DEF Compiles, At, SameOthers
    <2> QED
      BY <2>3, <2>5, NobodyBegins
  <1>7. ASSUME NEW w \in Workers, ReadBin(w) \/ Finish(w)
        PROVE  CheckerCompiledOnce'
    <2>1. /\ worker'[w].at \in {"run", "lockBin", "idle"}
          /\ SameOthers(w) /\ heap' = heap
      BY <1>7, EnterMoves, IdleMoves DEF ReadBin, Finish
    <2> QED
      BY <1>2, <2>1
  <1>8. ASSUME NEW w \in Workers, CompileChecker(w) \/ CompileCheckerFails(w)
        PROVE  CheckerCompiledOnce'
    <2> DEFINE mine == worker[w].item
    <2>1. Compiles(w, mine) /\ mine \in Items
      BY <1>8, KeysAreTyped
         DEF CompileChecker, CompileCheckerFails, Compiles, At
    <2>2. worker'[w].at \in {"run", "idle"} /\ SameOthers(w)
      BY <1>8, EnterMoves, IdleMoves DEF CompileChecker, CompileCheckerFails
    <2>3. \A j \in Items : j # mine => heap'[j] = heap[j]
      BY <1>8 DEF CompileChecker, CompileCheckerFails, Typed, TypeOK
    <2>4. \A u \in Workers : u # w => ~Compiles(u, mine)
      BY <2>1 DEF CheckerCompiledOnce
    <2>5. \A j \in Items, u \in Workers :
             Compiles(u, j)' => u # w /\ Compiles(u, j) /\ j # mine
      BY <2>2, <2>4 DEF Compiles, At, SameOthers
    <2> QED
      BY <2>3, <2>5, NobodyBegins
  <1>9. CASE ProcessRestarts
    <2>1. \A w \in Workers : worker'[w].at = "idle"
      BY <1>9 DEF ProcessRestarts, Idle
    <2> QED
      BY <2>1 DEF CheckerCompiledOnce, Compiles, At
  <1>10. CASE Clean \/ Tick \/ UNCHANGED vars
              \/ \E p \in Problems : NewVersion(p)
    BY <1>1, <1>10
       DEF Clean, CleanStart, CleanLockDb, CleanRemove, Tick, NewVersion, vars
  <1>11. ASSUME NEW w \in Workers, LoadRowFails(w) \/ DownloadFails(w)
        PROVE  CheckerCompiledOnce'
    <2>1. worker'[w].at = "failed" /\ SameOthers(w) /\ heap' = heap
      BY <1>11, FailingMoves
    <2> QED
      BY <1>2, <2>1
  <1> QED
    BY <1>3, <1>4, <1>5, <1>6, <1>7, <1>8, <1>9, <1>10, <1>11,
       LockBinKeepsOneCompiler DEF Next, Worker, Panic, Restart

-----------------------------------------------------------------------------
(* A package in use stays for the length of the buffer. The three parts    *)
(* are one invariant: a removal leaves what InUseIsKept allows only since  *)
(* the entry looked up is still there or long expired.                     *)

Kept == NothingIsAhead /\ LookupsArePending /\ InUseIsKept

\* The part of a worker.
KeptBy(w) ==
    /\ At(w, AfterRow) =>
          /\ worker[w].lookedUp <= clock
          /\ worker[w].version <= version[worker[w].problem]
          /\ \/ /\ db[worker[w].problem] # NoEntry
                /\ db[worker[w].problem].expiresAt >= worker[w].lookedUp
             \/ clock - worker[w].lookedUp > Buffer
    /\ At(w, Using) =>
          \/ store[KeyOf(w)] # NoItem /\ dir[KeyOf(w)] = "complete"
          \/ clock - worker[w].lookedUp > Buffer
          \/ version[worker[w].problem] > worker[w].version

\* The part of the two caches.
CachesFollow ==
    /\ cleaner.now <= clock
    /\ \A p \in Problems : db[p] # NoEntry => db[p].version <= version[p]
    /\ \A k \in Keys : store[k] # NoItem => k[2] <= version[k[1]]

LEMMA KeptParts ==
    /\ Kept <=> CachesFollow /\ \A w \in Workers : KeptBy(w)
    /\ Kept' <=> CachesFollow' /\ \A w \in Workers : KeptBy(w)'
  BY DEF Kept, NothingIsAhead, LookupsArePending, InUseIsKept, CachesFollow,
         KeptBy

LEMMA Numbers ==
    ASSUME Typed
    PROVE  /\ clock \in Nat /\ cleaner.now \in Nat
           /\ \A p \in Problems : /\ version[p] \in Nat
                                  /\ db[p].expiresAt \in Nat
           /\ \A w \in Workers : /\ worker[w].lookedUp \in Nat
                                 /\ worker[w].version \in Nat
  BY CacheConstants DEF Typed, TypeOK, Versions

\* A worker keeps its part when it stands still and the caches do.
LEMMA OthersKeep ==
    ASSUME Kept, NEW w \in Workers, SameOthers(w),
           UNCHANGED <<clock, version, db, store, dir>>
    PROVE  \A u \in Workers : u # w => KeptBy(u)'
  BY KeptParts DEF KeptBy, At, KeyOf, SameOthers

\* A move of the worker's own, to places where the same is asked of it.
LEMMA MoverKeeps ==
    ASSUME Kept, NEW w \in Workers, SameJob(w),
           UNCHANGED <<clock, version, db, store, dir>>,
           At(w, AfterRow)' => At(w, AfterRow),
           At(w, Using)' => \/ At(w, Using)
                            \/ /\ store[KeyOf(w)] # NoItem
                               /\ dir[KeyOf(w)] = "complete"
    PROVE  KeptBy(w)'
  BY KeptParts DEF KeptBy, At, KeyOf, SameJob

\* Nothing is asked of a worker that has not looked its row up.
LEMMA BeforeRowKeeps ==
    ASSUME NEW w \in Workers, worker'[w].at \in {"idle", "findRow", "lockRow",
                                                 "loadRow", "failed"}
    PROVE  KeptBy(w)'
  BY DEF KeptBy, At, AfterRow, Using

LEMMA RowLookupKeeps ==
    ASSUME Typed, Kept, NEW w \in Workers, FindRow(w) \/ LockRow(w)
    PROVE  Kept'
  <1> DEFINE p == worker[w].problem
  <1>1. /\ UNCHANGED <<clock, version, db, store, dir, cleaner>>
        /\ p \in Problems
    BY KeysAreTyped DEF FindRow, LockRow, At
  <1>2. CachesFollow'
    BY <1>1, KeptParts DEF CachesFollow
  <1>3. CASE Valid(p) /\ FoundRow(w, db[p].version)
    <2>1. /\ worker'[w].at = "findItem" /\ worker'[w].problem = p
          /\ worker'[w].version = db[p].version /\ worker'[w].lookedUp = clock
          /\ SameOthers(w)
      BY <1>3, FoundRowMoves
    <2>2. KeptBy(w)'
      <3>1. ~At(w, Using)'
        BY <2>1 DEF At, Using
      <3>2. db[p] # NoEntry /\ clock < db[p].expiresAt
        BY <1>3 DEF Valid
      <3>3. db[p].version <= version[p]
        BY <1>1, <3>2, KeptParts DEF CachesFollow
      <3>4. db[p].expiresAt >= clock /\ clock <= clock
        BY <1>1, <3>2, Numbers
      <3> QED
        BY <1>1, <2>1, <3>1, <3>2, <3>3, <3>4 DEF KeptBy
    <2> QED
      BY <1>1, <1>2, <2>1, <2>2, OthersKeep, KeptParts
  <1>4. CASE Enter(w, "lockRow") \/ Enter(w, "loadRow")
    <2>1. worker'[w].at \in {"lockRow", "loadRow"} /\ SameOthers(w)
      BY <1>4, EnterMoves
    <2> QED
      BY <1>1, <1>2, <2>1, BeforeRowKeeps, OthersKeep, KeptParts
  <1> QED
    BY <1>3, <1>4 DEF FindRow, LockRow

LEMMA LoadRowKeeps ==
    ASSUME Typed, Kept, NEW w \in Workers, LoadRow(w)
    PROVE  Kept'
  <1> DEFINE p == worker[w].problem
             entry == [version |-> version[p], expiresAt |-> clock + Ttl]
  <1>1. /\ UNCHANGED <<clock, version, store, dir, cleaner>>
        /\ p \in Problems /\ FoundRow(w, version[p])
        /\ db' = [db EXCEPT ![p] = entry]
    BY KeysAreTyped DEF LoadRow, At
  <1>2. /\ db'[p] = entry
        /\ \A q \in Problems : q # p => db'[q] = db[q]
    BY <1>1 DEF Typed, TypeOK
  <1>3. /\ worker'[w].at = "findItem" /\ worker'[w].problem = p
        /\ worker'[w].version = version[p] /\ worker'[w].lookedUp = clock
        /\ SameOthers(w)
    BY <1>1, FoundRowMoves
  <1>4. entry # NoEntry /\ entry.version = version[p]
        /\ entry.expiresAt = clock + Ttl
    <2>1. version[p] # 0
      BY <1>1 DEF Typed, TypeOK, Versions
    <2> QED
      BY <2>1 DEF NoEntry
  <1> HIDE DEF entry
  <1>5. CachesFollow'
    <2>1. \A q \in Problems : db'[q] # NoEntry => db'[q].version <= version[q]
      BY <1>1, <1>2, <1>4, KeptParts, Numbers DEF CachesFollow
    <2> QED
      BY <1>1, <2>1, KeptParts DEF CachesFollow
  <1>6. KeptBy(w)'
    <2>1. ~At(w, Using)'
      BY <1>3 DEF At, Using
    <2>2. clock + Ttl >= clock /\ version[p] <= version[p] /\ clock <= clock
      BY <1>1, Numbers, CacheConstants
    <2> QED
      BY <1>1, <1>2, <1>3, <1>4, <2>1, <2>2 DEF KeptBy
  <1>7. ASSUME NEW u \in Workers, u # w
        PROVE  KeptBy(u)'
    <2>1. worker'[u] = worker[u] /\ KeptBy(u)
      BY <1>3, <1>7, KeptParts DEF SameOthers
    <2>2. CASE At(u, AfterRow) /\ worker[u].problem = p
      <3>1. worker[u].lookedUp <= clock
        BY <2>1, <2>2 DEF KeptBy
      <3>2. clock + Ttl >= worker[u].lookedUp
        BY <3>1, Numbers, CacheConstants
      <3> QED
        BY <1>1, <1>2, <1>4, <2>1, <2>2, <3>2 DEF KeptBy, At, KeyOf
    <2>3. CASE At(u, AfterRow) /\ worker[u].problem # p
      <3>1. worker[u].problem \in Problems
        BY <2>3, KeysAreTyped DEF At, AfterRow, Using
      <3>2. db'[worker[u].problem] = db[worker[u].problem]
        BY <1>2, <2>3, <3>1
      <3> QED
        BY <1>1, <2>1, <2>3, <3>2 DEF KeptBy, At, KeyOf
    <2>4. CASE ~At(u, AfterRow)
      BY <2>1, <2>4, KeysAreTyped DEF KeptBy, At, AfterRow
    <2> QED
      BY <2>2, <2>3, <2>4
  <1> QED
    BY <1>5, <1>6, <1>7, KeptParts

LEMMA FindItemKeeps ==
    ASSUME Typed, Kept, DirectoryFollowsStore, NEW w \in Workers, FindItem(w)
    PROVE  Kept'
  <1>1. /\ UNCHANGED <<clock, version, db, store, dir, cleaner>>
        /\ At(w, AfterRow)
    BY DEF FindItem, At, AfterRow, Using
  <1>2. CachesFollow' /\ KeyOf(w) \in Keys
    BY <1>1, KeptParts, KeysAreTyped DEF CachesFollow
  <1>3. CASE store[KeyOf(w)] # NoItem /\ Got(w, store[KeyOf(w)])
    <2>1. SameOthers(w) /\ SameJob(w)
      BY <1>3, GotMoves
    <2>2. dir[KeyOf(w)] = "complete"
      BY <1>2, <1>3 DEF DirectoryFollowsStore
    <2>3. KeptBy(w)'
      BY <1>1, <1>3, <2>1, <2>2, MoverKeeps
    <2> QED
      BY <1>1, <1>2, <2>1, <2>3, OthersKeep, KeptParts
  <1>4. CASE /\ Enter(w, IF At(w, {"again"}) THEN "lockAgain" ELSE "lockItem")
             /\ store[KeyOf(w)] = NoItem
    <2>1. /\ SameOthers(w) /\ SameJob(w)
          /\ worker'[w].at = IF At(w, {"again"}) THEN "lockAgain"
                             ELSE "lockItem"
      BY <1>4, EnterMoves
    <2>2. At(w, Using)' => At(w, Using)
      BY <2>1 DEF At, Using
    <2>3. KeptBy(w)'
      BY <1>1, <2>1, <2>2, MoverKeeps
    <2> QED
      BY <1>1, <1>2, <2>1, <2>3, OthersKeep, KeptParts
  <1> QED
    BY <1>3, <1>4 DEF FindItem

\* A download does not touch the packages the store has.
LEMMA LockItemKeeps ==
    ASSUME Typed, Kept, DirectoryFollowsStore, NEW w \in Workers, LockItem(w)
    PROVE  Kept'
  <1>1. /\ UNCHANGED <<clock, version, db, store, cleaner>>
        /\ At(w, AfterRow)
    BY DEF LockItem, At, AfterRow, Using
  <1>2. CachesFollow' /\ KeyOf(w) \in Keys
    BY <1>1, KeptParts, KeysAreTyped DEF CachesFollow
  <1>3. CASE store[KeyOf(w)] # NoItem /\ Got(w, store[KeyOf(w)]) /\ dir' = dir
    <2>1. SameOthers(w) /\ SameJob(w)
      BY <1>3, GotMoves
    <2>2. dir[KeyOf(w)] = "complete"
      BY <1>2, <1>3 DEF DirectoryFollowsStore
    <2>3. KeptBy(w)'
      BY <1>1, <1>3, <2>1, <2>2, MoverKeeps
    <2> QED
      BY <1>1, <1>2, <1>3, <2>1, <2>3, OthersKeep, KeptParts
  <1>4. CASE /\ store[KeyOf(w)] = NoItem
             /\ dir' = [dir EXCEPT ![KeyOf(w)] = "partial"]
             /\ Enter(w, IF At(w, {"lockAgain"}) THEN "reload" ELSE "download")
    <2>1. /\ SameOthers(w) /\ SameJob(w)
          /\ worker'[w].at = IF At(w, {"lockAgain"}) THEN "reload"
                             ELSE "download"
      BY <1>4, EnterMoves
    <2>2. \A k \in Keys : store[k] # NoItem => dir'[k] = dir[k]
      BY <1>4 DEF Typed, TypeOK
    <2>3. At(w, Using)' => At(w, Using)
      BY <2>1 DEF At, Using
    <2>4. ASSUME NEW u \in Workers, At(u, AfterRow)
          PROVE  /\ KeyOf(u) \in Keys
                 /\ store[KeyOf(u)] # NoItem => dir'[KeyOf(u)] = dir[KeyOf(u)]
      BY <2>2, <2>4, KeysAreTyped
    <2>5. ASSUME NEW u \in Workers
          PROVE  KeptBy(u)'
      <3>1. /\ worker'[u].problem = worker[u].problem
            /\ worker'[u].version = worker[u].version
            /\ worker'[u].lookedUp = worker[u].lookedUp
            /\ At(u, AfterRow)' => At(u, AfterRow)
            /\ At(u, Using)' => At(u, Using)
            /\ KeptBy(u)
        BY <1>1, <2>1, <2>3, KeptParts DEF SameOthers, SameJob, At
      <3>2. KeyOf(u)' = KeyOf(u)
        BY <3>1 DEF KeyOf
      <3>3. At(u, Using) => At(u, AfterRow)
        BY KeysAreTyped
      <3> QED
        BY <1>1, <2>4, <3>1, <3>2, <3>3 DEF KeptBy
    <2> QED
      BY <1>2, <2>5, KeptParts
  <1> QED
    BY <1>3, <1>4 DEF LockItem

LEMMA DownloadedKeeps ==
    ASSUME Typed, Kept, NEW w \in Workers, Downloaded(w)
    PROVE  Kept'
  <1>1. PICK i \in Items : /\ store' = [store EXCEPT ![KeyOf(w)] = i]
                           /\ Got(w, i)
    BY DEF Downloaded
  <1>2. /\ UNCHANGED <<clock, version, db, cleaner>>
        /\ At(w, AfterRow)
    BY DEF Downloaded, Downloading, At, AfterRow, Using
  <1>3. /\ KeyOf(w) \in Keys /\ i # NoItem
        /\ worker[w].version <= version[worker[w].problem]
    BY <1>2, KeptParts, KeysAreTyped, CacheConstants DEF KeptBy, NoItem
  <1>4. SameOthers(w) /\ SameJob(w)
    BY <1>1, GotMoves
  <1>5. /\ dir' = [k \in Keys |->
                     IF k = KeyOf(w) THEN "complete" ELSE dir[k]]
        /\ store' = [k \in Keys |-> IF k = KeyOf(w) THEN i ELSE store[k]]
    BY <1>1, <1>3 DEF Downloaded, Typed, TypeOK
  <1>6. CachesFollow'
    <2>1. \A k \in Keys : store'[k] # NoItem => k[2] <= version[k[1]]
      BY <1>3, <1>5, KeptParts DEF CachesFollow, KeyOf
    <2> QED
      BY <1>2, <2>1, KeptParts DEF CachesFollow
  <1>7. ASSUME NEW u \in Workers
        PROVE  KeptBy(u)'
    <2>1. /\ worker'[u].problem = worker[u].problem
          /\ worker'[u].version = worker[u].version
          /\ worker'[u].lookedUp = worker[u].lookedUp
          /\ At(u, AfterRow)' => At(u, AfterRow)
          /\ At(u, Using)' => u = w \/ At(u, Using)
          /\ KeptBy(u)
      BY <1>2, <1>4, KeptParts DEF SameOthers, SameJob, At
    <2>2. KeyOf(u)' = KeyOf(u)
      BY <2>1 DEF KeyOf
    <2>3. /\ At(u, Using) => At(u, AfterRow)
          /\ At(u, AfterRow) => KeyOf(u) \in Keys
      BY KeysAreTyped
    <2>4. At(u, AfterRow) =>
             \/ store'[KeyOf(u)] = i /\ dir'[KeyOf(u)] = "complete"
             \/ /\ u # w
                /\ store'[KeyOf(u)] = store[KeyOf(u)]
                /\ dir'[KeyOf(u)] = dir[KeyOf(u)]
      BY <1>3, <1>5, <2>3
    <2> QED
      BY <1>2, <1>3, <2>1, <2>2, <2>3, <2>4 DEF KeptBy
  <1> QED
    BY <1>6, <1>7, KeptParts

LEMMA CheckerStepsKeep ==
    ASSUME Typed, Kept, NEW w \in Workers,
           \/ ReadBin(w) \/ LockBin(w) \/ CompileChecker(w)
           \/ CompileCheckerFails(w) \/ Finish(w)
    PROVE  Kept'
  <1>1. /\ UNCHANGED <<clock, version, db, store, dir, cleaner>>
        /\ At(w, AfterRow) /\ At(w, Using)
    BY DEF ReadBin, LockBin, CompileChecker, CompileCheckerFails, Finish,
           At, AfterRow, Using
  <1>2. CachesFollow'
    BY <1>1, KeptParts DEF CachesFollow
  <1>3. CASE Enter(w, "run") \/ Enter(w, "lockBin") \/ Enter(w, "compile")
    <2>1. SameOthers(w) /\ SameJob(w)
      BY <1>3, EnterMoves
    <2> QED
      BY <1>1, <1>2, <2>1, MoverKeeps, OthersKeep, KeptParts
  <1>4. CASE Goto(w, Idle)
    <2>1. worker'[w].at = "idle" /\ SameOthers(w)
      BY <1>4, IdleMoves
    <2> QED
      BY <1>1, <1>2, <2>1, BeforeRowKeeps, OthersKeep, KeptParts
  <1> QED
    BY <1>3, <1>4 DEF ReadBin, LockBin, CompileChecker, CompileCheckerFails,
                      Finish

LEMMA FailingKeeps ==
    ASSUME Typed, Kept, NEW w \in Workers, LoadRowFails(w) \/ DownloadFails(w)
    PROVE  Kept'
  <1>1. /\ UNCHANGED <<clock, version, db, store, dir, cleaner>>
        /\ worker'[w].at = "failed" /\ SameOthers(w)
    BY FailingMoves
  <1>2. CachesFollow'
    BY <1>1, KeptParts DEF CachesFollow
  <1> QED
    BY <1>1, <1>2, BeforeRowKeeps, OthersKeep, KeptParts

LEMMA CleanRemoveKeeps ==
    ASSUME Typed, Kept, CleanRemove
    PROVE  Kept'
  <1> DEFINE removed == {k \in Keys : store[k] # NoItem /\ Stale(k)}
  <1>1. /\ db' = [p \in Problems |-> IF Expired(p) THEN NoEntry ELSE db[p]]
        /\ store' = [k \in Keys |-> IF k \in removed THEN NoItem ELSE store[k]]
        /\ dir' = [k \in Keys |-> IF k \in removed THEN "missing" ELSE dir[k]]
        /\ UNCHANGED <<clock, version, worker>>
    BY DEF CleanRemove
  <1>2. \A k \in removed : k \in Keys /\ Stale(k)
    OBVIOUS
  <1> HIDE DEF removed
  <1>3. CachesFollow'
    <2>1. cleaner'.now <= clock'
      BY <1>1, Numbers DEF CleanRemove, Typed, TypeOK
    <2>2. /\ \A p \in Problems : db'[p] # NoEntry => db'[p] = db[p]
          /\ \A k \in Keys : store'[k] # NoItem => store'[k] = store[k]
      BY <1>1
    <2> QED
      BY <1>1, <2>1, <2>2, KeptParts DEF CachesFollow
  <1>4. ASSUME NEW w \in Workers, At(w, AfterRow), Expired(worker[w].problem)
        PROVE  clock - worker[w].lookedUp > Buffer
    <2> DEFINE p == worker[w].problem
    <2>1. p \in Problems
      BY <1>4, KeysAreTyped DEF At, AfterRow, Using
    <2>2. cleaner.now > db[p].expiresAt + Buffer /\ cleaner.now <= clock
      BY <1>4, KeptParts DEF Expired, CachesFollow
    <2>3. \/ db[p].expiresAt >= worker[w].lookedUp
          \/ clock - worker[w].lookedUp > Buffer
      BY <1>4, KeptParts DEF KeptBy
    <2>4. /\ db[p].expiresAt \in Nat /\ worker[w].lookedUp \in Nat
          /\ clock \in Nat /\ cleaner.now \in Nat /\ Buffer \in Nat
      BY <2>1, Numbers, CacheConstants
    <2> HIDE DEF p
    <2> QED
      BY <2>2, <2>3, <2>4
  <1>5. ASSUME NEW w \in Workers, At(w, AfterRow), KeyOf(w) \in removed
        PROVE  \/ clock - worker[w].lookedUp > Buffer
               \/ version[worker[w].problem] > worker[w].version
    <2> DEFINE p == worker[w].problem
               v == worker[w].version
    <2>1. Stale(<<p, v>>) /\ p \in Problems /\ v \in Versions
      BY <1>2, <1>5, KeysAreTyped DEF KeyOf, At, AfterRow, Using
    <2>2. CASE db[p] = NoEntry
      BY <1>5, <2>2, KeptParts DEF KeptBy
    <2>3. CASE Expired(p)
      BY <1>4, <1>5, <2>3
    <2>4. CASE \E n \in Versions : n > v /\ store[<<p, n>>] # NoItem
      <3>1. PICK n \in Versions : n > v /\ store[<<p, n>>] # NoItem
        BY <2>4
      <3>2. <<p, n>> \in Keys
        BY <2>1 DEF Keys
      <3>3. n <= version[p]
        BY <3>1, <3>2, KeptParts DEF CachesFollow
      <3>4. n \in Nat /\ v \in Nat /\ version[p] \in Nat
        BY <2>1, Numbers, CacheConstants DEF Versions
      <3> QED
        BY <3>1, <3>3, <3>4
    <2> QED
      BY <2>1, <2>2, <2>3, <2>4 DEF Stale
  <1>6. ASSUME NEW w \in Workers
        PROVE  KeptBy(w)'
    <2>1. KeptBy(w) /\ worker'[w] = worker[w] /\ KeyOf(w)' = KeyOf(w)
      BY <1>1, KeptParts DEF KeyOf
    <2>2. CASE At(w, AfterRow)
      <3>1. worker[w].problem \in Problems /\ KeyOf(w) \in Keys
        BY <2>2, KeysAreTyped DEF At, AfterRow, Using
      <3>2. db'[worker[w].problem] = db[worker[w].problem]
            \/ clock - worker[w].lookedUp > Buffer
        BY <1>1, <1>4, <2>2, <3>1
      <3>3. \/ /\ store'[KeyOf(w)] = store[KeyOf(w)]
               /\ dir'[KeyOf(w)] = dir[KeyOf(w)]
            \/ clock - worker[w].lookedUp > Buffer
            \/ version[worker[w].problem] > worker[w].version
        BY <1>1, <1>5, <2>2, <3>1
      <3> QED
        BY <1>1, <2>1, <3>2, <3>3 DEF KeptBy, At
    <2>3. CASE ~At(w, AfterRow)
      BY <2>1, <2>3, KeysAreTyped DEF KeptBy, At
    <2> QED
      BY <2>2, <2>3
  <1> QED
    BY <1>3, <1>6, KeptParts

LEMMA EnvironmentKeeps ==
    ASSUME Typed, Kept,
           \/ Tick \/ (\E p \in Problems : NewVersion(p)) \/ ProcessRestarts
    PROVE  Kept'
  <1>1. CASE Tick
    <2>1. /\ clock' = clock + 1
          /\ UNCHANGED <<version, db, store, dir, worker, cleaner>>
      BY <1>1 DEF Tick
    <2>2. CachesFollow'
      BY <2>1, KeptParts, Numbers DEF CachesFollow
    <2>3. ASSUME NEW w \in Workers
          PROVE  KeptBy(w)'
      <3>1. KeptBy(w) /\ KeyOf(w)' = KeyOf(w)
        BY <2>1, KeptParts DEF KeyOf
      <3>2. /\ clock \in Nat /\ worker[w].lookedUp \in Nat /\ Buffer \in Nat
        BY Numbers, CacheConstants
      <3>3. /\ worker[w].lookedUp <= clock => worker[w].lookedUp <= clock'
            /\ clock - worker[w].lookedUp > Buffer =>
                  clock' - worker[w].lookedUp > Buffer
        BY <2>1, <3>2
      <3> QED
        BY <2>1, <3>1, <3>3 DEF KeptBy, At
    <2> QED
      BY <2>2, <2>3, KeptParts
  <1>2. ASSUME NEW p \in Problems, NewVersion(p)
        PROVE  Kept'
    <2>1. /\ version' = [version EXCEPT ![p] = @ + 1]
          /\ UNCHANGED <<clock, db, store, dir, worker, cleaner>>
      BY <1>2 DEF NewVersion
    <2>2. \A q \in Problems : version[q] \in Nat /\ version'[q] \in Nat
                              /\ version'[q] >= version[q]
      BY <2>1, Numbers DEF Typed, TypeOK
    <2>3. CachesFollow'
      <3>1. \A q \in Problems :
               db[q] # NoEntry => db[q].version <= version'[q]
        <4>1. \A q \in Problems : db[q] # NoEntry =>
                 db[q].version <= version[q] /\ db[q].version \in Nat
          BY KeptParts, CacheConstants DEF CachesFollow, Typed, TypeOK
        <4> QED
          BY <2>2, <4>1
      <3>2. \A k \in Keys : store[k] # NoItem => k[2] <= version'[k[1]]
        <4>1. \A k \in Keys : k[1] \in Problems /\ k[2] \in Nat
          BY CacheConstants DEF Keys, Versions
        <4> QED
          BY <2>2, <4>1, KeptParts DEF CachesFollow
      <3> QED
        BY <2>1, <3>1, <3>2, KeptParts DEF CachesFollow
    <2>4. ASSUME NEW w \in Workers
          PROVE  KeptBy(w)'
      <3>1. KeptBy(w) /\ KeyOf(w)' = KeyOf(w)
        BY <2>1, KeptParts DEF KeyOf
      <3>2. CASE At(w, AfterRow)
        <4>1. worker[w].problem \in Problems /\ worker[w].version \in Nat
          BY <3>2, KeysAreTyped, Numbers DEF At, AfterRow, Using
        <4>2. /\ worker[w].version <= version[worker[w].problem] =>
                    worker[w].version <= version'[worker[w].problem]
              /\ version[worker[w].problem] > worker[w].version =>
                    version'[worker[w].problem] > worker[w].version
          BY <2>2, <4>1
        <4> QED
          BY <2>1, <3>1, <3>2, <4>2 DEF KeptBy, At
      <3>3. CASE ~At(w, AfterRow)
        BY <2>1, <3>1, <3>3, KeysAreTyped DEF KeptBy, At
      <3> QED
        BY <3>2, <3>3
    <2> QED
      BY <2>3, <2>4, KeptParts
  <1>3. CASE ProcessRestarts
    <2>1. CachesFollow'
      BY <1>3, Numbers DEF ProcessRestarts, CachesFollow
    <2>2. \A w \in Workers : worker'[w].at = "idle"
      BY <1>3 DEF ProcessRestarts, Idle
    <2> QED
      BY <2>1, <2>2, BeforeRowKeeps, KeptParts
  <1> QED
    BY <1>1, <1>2, <1>3

LEMMA KeptIsInductive ==
    ASSUME Typed, DirectoryFollowsStore, Kept, [Next]_vars
    PROVE  Kept'
  <1>1. CASE UNCHANGED vars
    BY <1>1 DEF vars, Kept, NothingIsAhead, LookupsArePending, InUseIsKept,
                At, KeyOf
  <1>2. ASSUME NEW w \in Workers, NEW p \in Problems, Take(w, p)
        PROVE  Kept'
    <2>1. UNCHANGED <<clock, version, db, store, dir, cleaner>>
      BY <1>2 DEF Take
    <2>2. worker'[w].at = "findRow" /\ SameOthers(w)
      BY <1>2, TakeMoves
    <2>3. CachesFollow'
      BY <2>1, KeptParts DEF CachesFollow
    <2> QED
      BY <2>1, <2>2, <2>3, BeforeRowKeeps, OthersKeep, KeptParts
  <1>3. ASSUME NEW w \in Workers, Worker(w)
        PROVE  Kept'
    BY <1>3, RowLookupKeeps, LoadRowKeeps, FindItemKeeps, LockItemKeeps,
       DownloadedKeeps, CheckerStepsKeep, FailingKeeps, EnvironmentKeeps
       DEF Worker, Panic
  <1>4. CASE CleanStart \/ CleanLockDb
    <2>1. UNCHANGED <<clock, version, db, store, dir, worker>>
      BY <1>4 DEF CleanStart, CleanLockDb
    <2>2. cleaner'.now <= clock
      <3>1. CASE CleanStart
        BY <3>1, Numbers DEF CleanStart, Typed, TypeOK
      <3>2. CASE CleanLockDb
        <4>1. cleaner'.now = cleaner.now
          BY <3>2 DEF CleanLockDb, Typed, TypeOK
        <4> QED
          BY <4>1, KeptParts DEF CachesFollow
      <3> QED
        BY <1>4, <3>1, <3>2
    <2> QED
      BY <2>1, <2>2 DEF Kept, NothingIsAhead, LookupsArePending, InUseIsKept,
                        At, KeyOf
  <1> QED
    BY <1>1, <1>2, <1>3, <1>4, CleanRemoveKeeps, EnvironmentKeeps
       DEF Next, Clean, Restart

-----------------------------------------------------------------------------
(* The theorems.                                                           *)

LEMMA InitImpliesIInv == Init => IInv
  <1> SUFFICES ASSUME Init PROVE IInv
    OBVIOUS
  <1>1. /\ 0 \in 0..MaxClock /\ 1 \in Versions
        /\ NoEntry \in [version : 0..MaxVersion, expiresAt : Nat]
        /\ Interval \in Nat
    BY CacheConstants DEF Versions, NoEntry
  <1>2. /\ Idle \in Records /\ Idle.at = "idle"
        /\ "idle" \notin AfterRow /\ "idle" \notin Using
    BY CacheConstants DEF Idle, Records, Places, AfterRow, Using
  <1>3. \A w \in Workers : worker[w] = Idle
    BY DEF Init
  <1>4. Typed
    BY <1>1, <1>2, <1>3 DEF Init, Typed, TypeOK, WorkersAreSomewhere,
                            EntriesHaveVersions, Records, At
  <1>5. DirectoryFollowsStore
    BY <1>2, <1>3 DEF Init, DirectoryFollowsStore, Loads, Abandoned, At,
                      Downloading
  <1>6. CheckerCompiledOnce
    BY <1>2, <1>3 DEF CheckerCompiledOnce, Compiles, At
  <1>7. NothingIsAhead /\ LookupsArePending /\ InUseIsKept
    BY <1>2, <1>3 DEF Init, NothingIsAhead, LookupsArePending, InUseIsKept, At
  <1> QED
    BY <1>4, <1>5, <1>6, <1>7 DEF IInv

\* IInv holds in every reachable state.
THEOREM CacheInvariant == Spec => []IInv
  <1>1. IInv /\ [Next]_vars => IInv'
    BY TypedIsInductive, DirectoryIsInductive, CheckerIsInductive,
       KeptIsInductive DEF IInv, Kept
  <1> QED
    BY InitImpliesIInv, <1>1, PTL DEF Spec

\* Every variable of the caches, of the workers and of the cleanup keeps its
\* type (engine/cache.go).
THEOREM CacheTypeCorrect == Spec => []TypeOK
  <1>1. IInv => TypeOK
    BY DEF IInv, Typed
  <1> QED
    BY CacheInvariant, <1>1, PTL

\* The store and the complete directories agree, no two workers ever unpack into
\* one directory at once, and a partial one is being downloaded or is the rest
\* of a download whose worker is about to panic (S3Cache.GetOrLoad, cleanCache).
THEOREM CacheDirectoriesFollow == Spec => []DirectoryFollowsStore
  <1>1. IInv => DirectoryFollowsStore
    BY DEF IInv
  <1> QED
    BY CacheInvariant, <1>1, PTL

\* A checker never has two compilers, and is not compiled again once its
\* binary is there (CompileCheckerCode).
THEOREM CacheCompilesOnce == Spec => []CheckerCompiledOnce
  <1>1. IInv => CheckerCompiledOnce
    BY DEF IInv
  <1> QED
    BY CacheInvariant, <1>1, PTL

\* The cleanup takes a package from a worker only after the buffer, or for a
\* newer version, whatever the time to live, the buffer and the interval.
THEOREM CacheKeepsWhatIsInUse == Spec => []InUseIsKept
  <1>1. IInv => InUseIsKept
    BY DEF IInv
  <1> QED
    BY CacheInvariant, <1>1, PTL
=============================================================================
