--------------------------- MODULE CacheLifecycle ---------------------------
(***************************************************************************)
(* The debug-information cache on disk: DebugInfo.load / loadcached of    *)
(* cachereader/debuginfo.py and DebugInfo.store / cache of                 *)
(* cachebuilder/debuginfo.py, as seen by one process loading the cache of *)
(* one binary, while the binary is rebuilt between loads.                 *)
(*                                                                         *)
(* A file's contents are abstracted to what a reader can tell apart: no    *)
(* file, an empty database (no tables), or the complete tables built from *)
(* one version of the binary.  sqlite commits executescript's dump as one *)
(* transaction, so a crash during it leaves the previously committed      *)
(* contents (an empty database).  Timestamps come from a clock; with a    *)
(* coarse clock several writes share a timestamp, with a fine one every   *)
(* write gets a later timestamp than the one before.                      *)
(***************************************************************************)
EXTENDS Naturals

CONSTANTS
    MaxVersion,     \* number of versions of the binary that are built
    MaxTime,        \* last tick the clock reaches by itself
    Coarse,         \* TRUE: mtimes have the granularity of a tick
    MaxFailures,    \* builds that raise (an extractor or pyelftools error)
    MaxCrashes      \* times the process is killed while loading

VARIABLES
    clock,      \* the file system's current timestamp
    binary,     \* [version, mtime] of the ELF file
    db,         \* [state, version, mtime] of the file path + '.ac'
    pc,         \* where the loading process is in load
    writer,     \* version of the binary the DebugInfoWriter was built from
    session,    \* the database the last successful load returned
    failures,   \* builds that raised so far
    crashes     \* crashes so far

vars == <<clock, binary, db, pc, writer, session, failures, crashes>>

NoFile    == [state |-> "absent", version |-> 0, mtime |-> 0]
NoSession == [state |-> "none", version |-> 0, current |-> 0]

\* A write stamps the file with the clock; a fine clock moves on.
Stamp     == clock
NextClock == IF Coarse THEN clock ELSE clock + 1

----------------------------------------------------------------------------
\* The binary was written at tick 0; a fine clock has moved on since.
Init ==
    /\ clock = IF Coarse THEN 0 ELSE 1
    /\ binary = [version |-> 1, mtime |-> 0]
    /\ db = NoFile
    /\ pc = "idle"
    /\ writer = 0
    /\ session = NoSession
    /\ failures = 0
    /\ crashes = 0

\* The binary is rebuilt (outside the tool), between two loads.
ModifyBinary ==
    /\ pc = "idle" /\ binary.version < MaxVersion
    /\ binary' = [version |-> binary.version + 1, mtime |-> Stamp]
    /\ clock' = NextClock
    /\ UNCHANGED <<db, pc, writer, session, failures, crashes>>

\* Time passes (up to tick MaxTime).
Tick ==
    /\ clock < MaxTime
    /\ clock' = clock + 1
    /\ UNCHANGED <<binary, db, pc, writer, session, failures, crashes>>

\* Mutant: loadcached without its os.path.isfile(dbpath) test.
LoadCachedHitNoExistenceCheck ==
    /\ pc = "idle"
    /\ ~(db.mtime < binary.mtime)
    /\ session' = [state |-> db.state, version |-> db.version,
                   current |-> binary.version]
    /\ UNCHANGED <<clock, binary, db, pc, writer, failures, crashes>>

\* Mutant: loadcached without the mtime comparison.
LoadCachedHitNoMtimeCheck ==
    /\ pc = "idle"
    /\ db.state # "absent"
    /\ session' = [state |-> db.state, version |-> db.version,
                   current |-> binary.version]
    /\ UNCHANGED <<clock, binary, db, pc, writer, failures, crashes>>

\* loadcached: the cache file exists and is not older than the binary, so
\* a connection to it is returned.
LoadCachedHit ==
    /\ pc = "idle"
    /\ db.state # "absent"
    /\ ~(db.mtime < binary.mtime)
    /\ session' = [state |-> db.state, version |-> db.version,
                   current |-> binary.version]
    /\ UNCHANGED <<clock, binary, db, pc, writer, failures, crashes>>

\* loadcached raised ValueError (no cache, or cache older than binary);
\* load goes on to build a DebugInfoWriter.
LoadCachedMiss ==
    /\ pc = "idle"
    /\ db.state = "absent" \/ db.mtime < binary.mtime
    /\ pc' = "construct"
    /\ UNCHANGED <<clock, binary, db, writer, session, failures, crashes>>

\* DebugInfoWriter(elf) runs every extractor; it may raise, and load with
\* it.  Otherwise load calls store (store=True) or keeps it in memory.
ConstructWriter ==
    /\ pc = "construct"
    /\ \/ /\ writer' = binary.version
          /\ \E store \in BOOLEAN : pc' = IF store THEN "remove" ELSE "inmemory"
          /\ UNCHANGED failures
       \/ /\ failures < MaxFailures
          /\ failures' = failures + 1
          /\ pc' = "idle"
          /\ UNCHANGED writer
    /\ UNCHANGED <<clock, binary, db, session, crashes>>

\* store: os.remove(dbpath), an OSError ignored.
Remove ==
    /\ pc = "remove"
    /\ db' = NoFile
    /\ pc' = "connect"
    /\ UNCHANGED <<clock, binary, writer, session, failures, crashes>>

\* store: sqlite3.connect(dbpath) creates an empty database file.
Connect ==
    /\ pc = "connect"
    /\ db' = [state |-> "empty", version |-> 0, mtime |-> Stamp]
    /\ clock' = NextClock
    /\ pc' = "dump"
    /\ UNCHANGED <<binary, writer, session, failures, crashes>>

\* store: self.cache builds the in-memory database (every extractor's
\* store method) inside the with block; a raise leaves the file as it is.
Dump ==
    /\ pc = "dump"
    /\ \/ pc' = "write" /\ UNCHANGED failures
       \/ /\ failures < MaxFailures
          /\ failures' = failures + 1
          /\ pc' = "idle"
    /\ UNCHANGED <<clock, binary, db, writer, session, crashes>>

\* store: conn.executescript(dump) commits the tables; load returns a
\* DebugInfo over writer.cache.
ExecuteScript ==
    /\ pc = "write"
    /\ db' = [state |-> "complete", version |-> writer, mtime |-> Stamp]
    /\ clock' = NextClock
    /\ session' = [state |-> "complete", version |-> writer, current |-> binary.version]
    /\ pc' = "idle"
    /\ UNCHANGED <<binary, writer, failures, crashes>>

\* load(store=False): return cls(path, writer.cache); building the cache
\* may raise.
InMemory ==
    /\ pc = "inmemory"
    /\ \/ /\ session' = [state |-> "complete", version |-> writer,
                         current |-> binary.version]
          /\ UNCHANGED failures
       \/ /\ failures < MaxFailures
          /\ failures' = failures + 1
          /\ UNCHANGED session
    /\ pc' = "idle"
    /\ UNCHANGED <<clock, binary, db, writer, crashes>>

\* The process is killed during a load; an open sqlite transaction is
\* rolled back, so the file keeps what was last committed.
Crash ==
    /\ pc # "idle" /\ crashes < MaxCrashes
    /\ crashes' = crashes + 1
    /\ pc' = "idle"
    /\ UNCHANGED <<clock, binary, db, writer, session, failures>>

Next ==
    \/ ModifyBinary \/ Tick
    \/ LoadCachedHit \/ LoadCachedMiss \/ ConstructWriter
    \/ Remove \/ Connect \/ Dump \/ ExecuteScript \/ InMemory \/ Crash

Spec == Init /\ [][Next]_vars

----------------------------------------------------------------------------
TypeOK ==
    /\ clock \in Nat /\ failures \in 0..MaxFailures /\ crashes \in 0..MaxCrashes
    /\ binary \in [version : 1..MaxVersion, mtime : Nat]
    /\ db \in [state : {"absent", "empty", "complete"}, version : 0..MaxVersion, mtime : Nat]
    /\ pc \in {"idle", "construct", "remove", "connect", "dump", "write", "inmemory"}
    /\ writer \in 0..MaxVersion
    /\ session \in [state : {"none", "empty", "complete"}, version : 0..MaxVersion,
                    current : 0..MaxVersion]

(***************************************************************************)
(* Every database a load returns holds the complete tables: the spec       *)
(* (section 5) says a failed build yields nothing and no partial cache is  *)
(* ever persisted, so a later load never opens one.                        *)
(***************************************************************************)
LoadedCacheIsComplete ==
    session.state # "none" => session.state = "complete"

(***************************************************************************)
(* A complete database a load returns was built from the binary as it was  *)
(* when the load happened: loadcached's mtime test never lets a cache of  *)
(* an earlier version through.                                            *)
(***************************************************************************)
LoadedCacheIsCurrent ==
    session.state = "complete" => session.version = session.current

=============================================================================
