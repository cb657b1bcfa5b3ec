---------------------------- MODULE WalRecovery ----------------------------
(***************************************************************************)
(* Durability of a single-file database: the write-ahead log, the switch   *)
(* to a second log while a checkpoint runs, and the recovery that          *)
(* reconciles the data file with up to three log files after a crash, also *)
(* a crash in the middle of recovery (storage_manager.cpp,                 *)
(* write_ahead_log.cpp, wal_replay.cpp, checkpoint_manager.cpp, the header *)
(* of single_file_block_manager.cpp).                                      *)
(*                                                                         *)
(* A log is a sequence of entries; a transaction is the number of its      *)
(* commit, so the order of commits is the order of numbers.  What is       *)
(* written and not yet synced survives a crash up to any entry, the next   *)
(* entry possibly torn.  Creating, moving, truncating and removing a file, *)
(* and writing the 4 KB header, are single steps that survive.             *)
(***************************************************************************)
EXTENDS Integers, Sequences, SequencesExt, FiniteSets

CONSTANTS
  Root,            \* metadata pointers a checkpoint may get for its root
  NoRoot,          \* the root of a new database: INVALID_BLOCK
  CheckpointKinds, \* "required": only if the log is not empty; "forced": with
                   \* PRAGMA force_checkpoint; "skip": by a commit that does
                   \* not write its changes to the log
  MaxCommits, MaxCheckpoints, MaxCrashes   \* bounds

ASSUME ConstantsAssumption ==
  /\ NoRoot \notin Root
  /\ CheckpointKinds \subseteq {"required", "forced", "skip"}
  /\ MaxCommits \in Nat /\ MaxCheckpoints \in Nat /\ MaxCrashes \in Nat

Path == {"wal", "wal.checkpoint", "wal.recovery"}
Commit == 1 .. MaxCommits

VARIABLES
  header,      \* on disk: iteration, root, and the commits in the checkpoint
  exists,      \* on disk: the log files there are
  content,     \* their entries
  synced,      \* how many of them are known to be on disk
  mode,        \* "up", "down", "recovering", "refused"
  iteration_count, \* of the block manager
  wal,         \* the WriteAheadLog object: path, init_state, its iteration
  wal_size,    \* of the storage manager
  wal_lock,    \* "free", "commit" or "checkpoint"
  database,    \* the commits applied in memory, in order
  commit,      \* the commit that is writing to the log
  checkpoint,  \* the running checkpoint
  recovery,    \* the running recovery
  attempts,    \* number of the last commit
  acked,       \* commits reported to a client, or seen by one
  failed,      \* commits reported as failed, or seen to be missing
  checkpoints, crashes

diskVars == <<header, exists, content, synced>>
memVars == <<iteration_count, wal, wal_size, wal_lock, database>>
ghostVars == <<attempts, acked, failed>>
vars == <<diskVars, memVars, ghostVars, mode, commit, checkpoint, recovery,
          checkpoints, crashes>>

-----------------------------------------------------------------------------
(* Entries of a log.                                                       *)

Entry(type, of) == [type |-> type, of |-> of]
Version(i) == Entry("WAL_VERSION", i)
Data(c) == Entry("DATA", c)          \* all entries of one transaction
Marker(r) == Entry("CHECKPOINT", r)
Flush == Entry("WAL_FLUSH", 0)
Torn == Entry("TORN", 0)

NoCommit == [c |-> 0, initial |-> 0, flushed |-> FALSE]
NoCheckpoint == [phase |-> "none", kind |-> "required", root |-> NoRoot,
                 snapshot |-> <<>>, has_wal |-> FALSE, c |-> 0]
NoRecovery == [stage |-> "none", state |-> "MAIN_WAL"]

\* a new WriteAheadLog object; iteration -1: that of the data file
NewWAL(path, init_state, iteration) ==
  [path |-> path, init_state |-> init_state, iteration |-> iteration]

\* CreateNewDatabase
Init ==
  /\ header = [iteration |-> 0, root |-> NoRoot, commits |-> <<>>]
  /\ exists = {}
  /\ content = [p \in Path |-> <<>>]
  /\ synced = [p \in Path |-> 0]
  /\ mode = "up"
  /\ iteration_count = 0
  /\ wal = NewWAL("wal", "NO_WAL", -1)
  /\ wal_size = 0 /\ wal_lock = "free" /\ database = <<>>
  /\ commit = NoCommit /\ checkpoint = NoCheckpoint /\ recovery = NoRecovery
  /\ attempts = 0 /\ acked = {} /\ failed = {}
  /\ checkpoints = 0 /\ crashes = 0

-----------------------------------------------------------------------------
(* Writing to the log.                                                     *)

\* Mutant: what is behind the last flush is not cut off.
KeptMutant == content[wal.path]

\* Initialize: the file's entries that a write keeps
Kept == IF wal.init_state = "UNINITIALIZED_REQUIRES_TRUNCATE"
        THEN SubSeq(content[wal.path], 1, wal_size)
        ELSE content[wal.path]

\* and WriteHeader, when the file is empty
Initialized ==
  LET iteration == IF wal.iteration >= 0 THEN wal.iteration ELSE iteration_count
  IN  IF Kept = <<>> THEN <<Version(iteration)>> ELSE Kept

\* append to the log, buffered or written but not synced
WriteEntries(entries) ==
  /\ exists' = exists \union {wal.path}
  /\ content' = [content EXCEPT ![wal.path] = Initialized \o entries]
  /\ synced' = [synced EXCEPT ![wal.path] = IF @ <= Len(Kept) THEN @ ELSE Len(Kept)]
  /\ wal' = [wal EXCEPT !.init_state = "INITIALIZED"]

SyncFile(p) == synced' = [synced EXCEPT ![p] = Len(content[p])]

\* WriteToWAL of the next transaction, under the WAL lock
WriteToWAL ==
  /\ mode = "up" /\ wal_lock = "free" /\ attempts < MaxCommits
  /\ attempts' = attempts + 1
  /\ commit' = [c |-> attempts + 1, initial |-> wal_size, flushed |-> FALSE]
  /\ wal_lock' = "commit"
  /\ WriteEntries(<<Data(attempts + 1)>>)
  /\ UNCHANGED <<header, mode, iteration_count, wal_size, database, checkpoint,
                 recovery, acked, failed, checkpoints, crashes>>

\* FlushCommit: the flush entry, then the sync
FlushCommit ==
  /\ mode = "up" /\ commit.c # 0 /\ ~commit.flushed
  /\ commit' = [commit EXCEPT !.flushed = TRUE]
  /\ WriteEntries(<<Flush>>)
  /\ UNCHANGED <<header, mode, iteration_count, wal_size, wal_lock, database,
                 checkpoint, recovery, ghostVars, checkpoints, crashes>>

SyncCommit ==
  /\ mode = "up" /\ commit.flushed
  /\ SyncFile(wal.path)
  /\ wal_size' = Len(content[wal.path])
  /\ database' = Append(database, commit.c)
  /\ acked' = acked \union {commit.c}
  /\ commit' = NoCommit /\ wal_lock' = "free"
  /\ UNCHANGED <<header, exists, content, mode, iteration_count, wal, checkpoint,
                 recovery, attempts, failed, checkpoints, crashes>>

\* Mutant: nothing is truncated.
TruncateMutant(file, size) == file

\* WriteAheadLog::Truncate on an open log
Truncate(file, size) == SubSeq(file, 1, size)

\* The commit fails before or in its flush: RevertCommit truncates the log.
RevertCommit ==
  /\ mode = "up" /\ commit.c # 0
  /\ content' = [content EXCEPT ![wal.path] = Truncate(@, commit.initial)]
  /\ synced' = [synced EXCEPT ![wal.path] =
                  IF @ <= commit.initial THEN @ ELSE commit.initial]
  /\ wal_size' = commit.initial
  /\ failed' = failed \union {commit.c}
  /\ commit' = NoCommit /\ wal_lock' = "free"
  /\ UNCHANGED <<header, exists, mode, iteration_count, wal, database, checkpoint,
                 recovery, attempts, acked, checkpoints, crashes>>

-----------------------------------------------------------------------------
(* Checkpoints.                                                            *)

\* A commit that skips the log holds the WAL lock until its checkpoint is done.
SkipCommit ==
  /\ mode = "up" /\ wal_lock = "free" /\ attempts < MaxCommits
  /\ "skip" \in CheckpointKinds
  /\ checkpoint.phase = "none" /\ checkpoints < MaxCheckpoints
  /\ attempts' = attempts + 1
  /\ database' = Append(database, attempts + 1)
  /\ wal_lock' = "checkpoint"
  /\ checkpoint' = [NoCheckpoint EXCEPT !.phase = "starting", !.kind = "skip",
                                        !.c = attempts + 1]
  /\ checkpoints' = checkpoints + 1
  /\ UNCHANGED <<diskVars, mode, iteration_count, wal, wal_size, commit, recovery,
                 acked, failed, crashes>>

CreateCheckpoint(kind) ==
  /\ mode = "up" /\ kind \in CheckpointKinds \ {"skip"}
  /\ checkpoint.phase = "none" /\ checkpoints < MaxCheckpoints
  /\ kind = "required" => wal_size > 0
  /\ checkpoint' = [NoCheckpoint EXCEPT !.phase = "starting", !.kind = kind]
  /\ checkpoints' = checkpoints + 1
  /\ UNCHANGED <<diskVars, memVars, ghostVars, mode, commit, recovery, crashes>>

HoldsWalLock == checkpoint.kind = "skip"
WalLockFree == wal_lock = (IF HoldsWalLock THEN "checkpoint" ELSE "free")
ReleaseWalLock == wal_lock' = IF HoldsWalLock THEN "checkpoint" ELSE "free"

\* The checkpoint's transaction starts under the WAL lock; a log with content
\* gets the checkpoint marker, an empty one stays in use.
WALStartCheckpoint(r) ==
  /\ mode = "up" /\ checkpoint.phase = "starting" /\ WalLockFree
  /\ r \in Root \ {header.root}
  /\ checkpoint' = [checkpoint EXCEPT
                      !.phase = IF wal_size = 0 THEN "writing" ELSE "marking",
                      !.root = r, !.snapshot = database, !.has_wal = wal_size > 0]
  /\ IF wal_size = 0
     THEN ReleaseWalLock /\ UNCHANGED <<exists, content, synced, wal>>
     ELSE wal_lock' = "checkpoint" /\ WriteEntries(<<Marker(r), Flush>>)
  /\ UNCHANGED <<header, mode, iteration_count, wal_size, database, ghostVars,
                 commit, recovery, checkpoints, crashes>>

SyncMarker ==
  /\ mode = "up" /\ checkpoint.phase = "marking"
  /\ SyncFile("wal")
  /\ wal_size' = Len(content["wal"])
  /\ checkpoint' = [checkpoint EXCEPT !.phase = "marked"]
  /\ UNCHANGED <<header, exists, content, mode, iteration_count, wal, wal_lock,
                 database, ghostVars, commit, recovery, checkpoints, crashes>>

RemoveFile(p) ==
  /\ exists' = exists \ {p}
  /\ content' = [content EXCEPT ![p] = <<>>]
  /\ synced' = [synced EXCEPT ![p] = 0]

MoveFile(p, q) ==
  /\ exists' = (exists \ {p}) \union {q}
  /\ content' = [content EXCEPT ![q] = content[p], ![p] = <<>>]
  /\ synced' = [synced EXCEPT ![q] = synced[p], ![p] = 0]


\* the constructor of the new WriteAheadLog resets the storage manager's size
NewWALSize == 0

\* A left-over checkpoint log is deleted; commits go to a new one from now on,
\* which belongs to the next iteration.
SwitchWAL ==
  /\ mode = "up" /\ checkpoint.phase = "marked"
  /\ RemoveFile("wal.checkpoint")
  /\ wal' = NewWAL("wal.checkpoint", "NO_WAL", iteration_count + 1)
  /\ wal_size' = NewWALSize
  /\ ReleaseWalLock
  /\ checkpoint' = [checkpoint EXCEPT !.phase = "writing"]
  /\ UNCHANGED <<header, mode, iteration_count, database, ghostVars, commit,
                 recovery, checkpoints, crashes>>

\* Tables, free list and their sync; iteration_count runs ahead of the header.
CountIteration ==
  /\ mode = "up" /\ checkpoint.phase = "writing"
  /\ iteration_count' = iteration_count + 1
  /\ checkpoint' = [checkpoint EXCEPT !.phase = "counted"]
  /\ UNCHANGED <<diskVars, wal, wal_size, wal_lock, database, ghostVars, mode,
                 commit, recovery, checkpoints, crashes>>

\* the commits the checkpoint's transaction sees
Checkpointed == checkpoint.snapshot

WriteHeader ==
  /\ mode = "up" /\ checkpoint.phase = "counted"
  /\ header' = [iteration |-> iteration_count, root |-> checkpoint.root,
                commits |-> Checkpointed]
  /\ checkpoint' = [checkpoint EXCEPT !.phase = "headed"]
  /\ UNCHANGED <<exists, content, synced, memVars, ghostVars, mode, commit,
                 recovery, checkpoints, crashes>>

\* Mutant: the log of concurrent commits is not moved over the old one.
KeepsCheckpointWALMutant == FALSE

\* the checkpoint log has been written to
KeepsCheckpointWAL == wal.init_state = "INITIALIZED"

WALFinishCheckpoint ==
  /\ mode = "up" /\ checkpoint.phase = "headed"
  /\ IF checkpoint.has_wal
     THEN /\ WalLockFree
          /\ IF KeepsCheckpointWAL
             THEN /\ MoveFile("wal.checkpoint", "wal")
                  /\ wal' = NewWAL("wal", "INITIALIZED", -1)
                  /\ wal_size' = Len(content["wal.checkpoint"])
             ELSE /\ RemoveFile("wal")
                  /\ wal' = NewWAL("wal", "NO_WAL", -1)
                  /\ wal_size' = 0
     ELSE UNCHANGED <<exists, content, synced, wal, wal_size>>
  /\ wal_lock' = IF HoldsWalLock THEN "free" ELSE wal_lock
  /\ acked' = acked \union ({checkpoint.c} \ {0})
  /\ checkpoint' = NoCheckpoint
  /\ UNCHANGED <<header, iteration_count, database, attempts, failed, mode,
                 commit, recovery, checkpoints, crashes>>

-----------------------------------------------------------------------------
(* Leaving.                                                                *)

\* memory after the process has ended
Forget ==
  /\ mode' = "down"
  /\ iteration_count' = 0 /\ wal' = NewWAL("wal", "NO_WAL", -1)
  /\ wal_size' = 0 /\ wal_lock' = "free" /\ database' = <<>>
  /\ commit' = NoCommit /\ checkpoint' = NoCheckpoint /\ recovery' = NoRecovery
  /\ UNCHANGED <<ghostVars, checkpoints>>

\* Close without a checkpoint: what was written gets to the disk.
Close ==
  /\ mode = "up" /\ wal_lock = "free" /\ checkpoint.phase = "none"
  /\ synced' = [p \in Path |-> Len(content[p])]
  /\ Forget
  /\ UNCHANGED <<header, exists, content, crashes>>

\* what a crash may leave of a file
Survivors(p) ==
  LET upto(n) == SubSeq(content[p], 1, n)
  IN  {upto(n) : n \in synced[p] .. Len(content[p])}
        \union {Append(upto(n), Torn) : n \in synced[p] .. Len(content[p]) - 1}

\* A crash; also a checkpoint or a revert that throws, which invalidates the
\* database until it is attached again.
Crash ==
  /\ mode \in {"up", "recovering"} /\ crashes < MaxCrashes
  /\ crashes' = crashes + 1
  /\ \E a \in Survivors("wal"), b \in Survivors("wal.checkpoint"),
        c \in Survivors("wal.recovery") :
       /\ content' = [p \in Path |-> IF p = "wal" THEN a
                                     ELSE IF p = "wal.checkpoint" THEN b ELSE c]
       /\ synced' = [p \in Path |-> Len(content'[p])]
  /\ Forget
  /\ UNCHANGED <<header, exists>>

-----------------------------------------------------------------------------
(* Reading a log.                                                          *)

\* entries before the torn one
Readable(s) == LET torn == {i \in 1 .. Len(s) : s[i] = Torn}
               IN  IF torn = {} THEN Len(s) ELSE CHOOSE i \in 0 .. Len(s) : i + 1 \in torn

\* the largest of a set of positions, 0 if there is none
LastOf(S) == CHOOSE i \in S \union {0} : \A j \in S : j <= i

Markers(s) == {i \in 1 .. Readable(s) : s[i].type = "CHECKPOINT"}
FlushEnd(s, before) == LastOf({i \in 1 .. before : s[i] = Flush})
LastFlush(s) == FlushEnd(s, Readable(s))
MarkerAt(s) == LastOf(Markers(s))

\* where the entry starts that the scan tried to read last
ScanEnd(s) ==
  LET n == Readable(s)
  IN  IF n = Len(s) /\ n > 0 /\ s[n] = Flush THEN n ELSE n + 1

\* how many iterations the log is ahead of the data file
Ahead(s) == IF Readable(s) = 0 THEN 0 ELSE s[1].of - header.iteration

\* a checkpoint must have happened: ReplayVersion sets expected_checkpoint_id
ExpectsCheckpoint(s) == Ahead(s) = -1

\* ReplayVersion accepts the log
VersionFits(s, state) ==
  Ahead(s) \in {-1, 0} \union (IF state = "CHECKPOINT_WAL" THEN {1} ELSE {})

\* the first pass over the log throws nothing but a torn entry, and a marker
\* ends the log
WellFormed(s, state) ==
  /\ VersionFits(s, state)
  /\ Cardinality(Markers(s)) <= 1
  /\ Markers(s) # {} => state = "MAIN_WAL" /\ ScanEnd(s) = MarkerAt(s) + 1

\* IsCheckpointClean: the data file has the checkpoint of the marker
CheckpointWasSuccessful(s) ==
  Markers(s) # {} /\ s[MarkerAt(s)].of = header.root

CheckpointFailed(s) == Markers(s) # {} /\ ~CheckpointWasSuccessful(s)

\* what the entries at these positions of a log are about, in order
InOrder(s, positions) ==
  [n \in 1 .. Cardinality(positions) |->
     s[CHOOSE i \in positions : Cardinality({j \in positions : j <= i}) = n].of]

\* the transactions whose entries are followed by a flush, up to position n
Replayed(s, n) == InOrder(s, {i \in 1 .. FlushEnd(s, n) : s[i].type = "DATA"})

-----------------------------------------------------------------------------
(* Opening the database: LoadDatabase and the replay of the log.           *)

MainWAL == content["wal"]
CheckpointWAL == content["wal.checkpoint"]
HasCheckpointWAL == "wal.checkpoint" \in exists
Scanning == mode = "recovering" /\ recovery.stage = "scan" /\ "wal" \in exists
Accepted == Scanning /\ MainWAL # <<>> /\ WellFormed(MainWAL, recovery.state)

OpenDatabase ==
  /\ mode \in {"down", "refused"}
  /\ mode' = "recovering"
  /\ iteration_count' = header.iteration
  /\ recovery' = [stage |-> "scan", state |-> "MAIN_WAL"]
  /\ UNCHANGED <<diskVars, wal, wal_size, wal_lock, database, ghostVars, commit,
                 checkpoint, checkpoints, crashes>>

\* The database is open, with these commits on top of the checkpoint's; from
\* now on clients know which commits there are.
Opened(commits, init_state, size) ==
  LET found == header.commits \o commits
  IN  /\ mode' = "up" /\ recovery' = NoRecovery
      /\ database' = found
      /\ wal' = NewWAL("wal", init_state, -1) /\ wal_size' = size
      /\ acked' = acked \union ToSet(found)
      /\ failed' = failed \union ((1 .. attempts) \ ToSet(found))
      /\ UNCHANGED <<header, iteration_count, wal_lock, commit, checkpoint,
                     attempts, checkpoints, crashes>>

\* There is no log, it is empty, or it is all in the data file: a log that
\* is there is removed.
ReplayNothing ==
  /\ \/ mode = "recovering" /\ recovery.stage = "scan" /\ "wal" \notin exists
     \/ Scanning /\ MainWAL = <<>>
     \/ Accepted /\ CheckpointWasSuccessful(MainWAL) /\ ~HasCheckpointWAL
  /\ RemoveFile("wal")
  /\ Opened(<<>>, "NO_WAL", 0)

\* A log without a marker: what is after the last flush is cut off by the
\* first write.
ReplayWAL ==
  LET end == LastFlush(MainWAL)
  IN  /\ Accepted /\ Markers(MainWAL) = {} /\ ~ExpectsCheckpoint(MainWAL)
      /\ Opened(Replayed(MainWAL, end),
                IF end > 0 /\ end = Len(MainWAL) THEN "UNINITIALIZED"
                ELSE "UNINITIALIZED_REQUIRES_TRUNCATE", end)
      /\ UNCHANGED <<exists, content, synced>>

\* checkpoint_truncate_offset: the last commit before the marker
TruncateOffset(s) == FlushEnd(s, MarkerAt(s))

\* The checkpoint failed before anything was committed during it.
ReplayBeforeMarker ==
  LET end == TruncateOffset(MainWAL)
  IN  /\ Accepted /\ CheckpointFailed(MainWAL) /\ ~HasCheckpointWAL
      /\ ~ExpectsCheckpoint(MainWAL)
      /\ content' = [content EXCEPT !["wal"] = SubSeq(@, 1, end)]
      /\ synced' = [synced EXCEPT !["wal"] = end]
      /\ Opened(Replayed(MainWAL, end),
                IF end = 0 THEN "NO_WAL" ELSE "UNINITIALIZED", end)
      /\ UNCHANGED exists

Rescan == recovery' = [stage |-> "scan", state |-> "CHECKPOINT_WAL"]

recoveryFrame == <<header, memVars, ghostVars, mode, commit, checkpoint,
                   checkpoints, crashes>>

\* The checkpoint is in the data file: finish it as WALFinishCheckpoint would.
ReplayCheckpointWAL ==
  /\ Accepted /\ CheckpointWasSuccessful(MainWAL) /\ HasCheckpointWAL
  /\ MoveFile("wal.checkpoint", "wal")
  /\ Rescan
  /\ UNCHANGED recoveryFrame

\* the version entry of the checkpoint log can be read and is accepted
VersionRead(s) == s = <<>> \/ (Readable(s) > 0 /\ VersionFits(s, "CHECKPOINT_WAL"))

\* the log up to the marker, then the checkpoint log after its version entry
Merged ==
  SubSeq(MainWAL, 1, MarkerAt(MainWAL) - 1)
    \o SubSeq(CheckpointWAL, 2, Len(CheckpointWAL))

\* The checkpoint failed: both logs are merged into a third one, ...
MergeIntoRecoveryWAL ==
  /\ Accepted /\ CheckpointFailed(MainWAL) /\ HasCheckpointWAL
  /\ VersionRead(CheckpointWAL)
  /\ exists' = exists \union {"wal.recovery"}
  /\ content' = [content EXCEPT !["wal.recovery"] = Merged]
  /\ synced' = [synced EXCEPT !["wal.recovery"] = 0]
  /\ recovery' = [recovery EXCEPT !.stage = "merged"]
  /\ UNCHANGED recoveryFrame

\* ... which is synced, ...
SyncRecoveryWAL ==
  /\ mode = "recovering" /\ recovery.stage = "merged"
  /\ SyncFile("wal.recovery")
  /\ recovery' = [recovery EXCEPT !.stage = "synced"]
  /\ UNCHANGED <<recoveryFrame, exists, content>>

\* ... moved over the log ...
MoveRecoveryWAL ==
  /\ mode = "recovering" /\ recovery.stage = "synced"
  /\ MoveFile("wal.recovery", "wal")
  /\ recovery' = [recovery EXCEPT !.stage = "moved"]
  /\ UNCHANGED recoveryFrame

\* ... and replayed once the checkpoint log is deleted.
RemoveCheckpointWAL ==
  /\ mode = "recovering" /\ recovery.stage = "moved"
  /\ RemoveFile("wal.checkpoint")
  /\ Rescan
  /\ UNCHANGED recoveryFrame

\* An exception other than that of a torn entry in the first pass leaves
\* LoadDatabase.
RefuseToOpen ==
  /\ Scanning /\ MainWAL # <<>>
  /\ \/ ~WellFormed(MainWAL, recovery.state)
     \/ ExpectsCheckpoint(MainWAL) /\ Markers(MainWAL) = {}
     \/ ExpectsCheckpoint(MainWAL) /\ CheckpointFailed(MainWAL) /\ ~HasCheckpointWAL
     \/ CheckpointFailed(MainWAL) /\ HasCheckpointWAL /\ ~VersionRead(CheckpointWAL)
  /\ mode' = "refused" /\ recovery' = NoRecovery
  /\ UNCHANGED <<diskVars, memVars, ghostVars, commit, checkpoint, checkpoints,
                 crashes>>

Next ==
  \/ WriteToWAL \/ FlushCommit \/ SyncCommit \/ RevertCommit
  \/ SkipCommit
  \/ \E kind \in CheckpointKinds : CreateCheckpoint(kind)
  \/ \E r \in Root : WALStartCheckpoint(r)
  \/ SyncMarker \/ SwitchWAL \/ CountIteration \/ WriteHeader
  \/ WALFinishCheckpoint
  \/ Close \/ Crash
  \/ OpenDatabase \/ ReplayNothing \/ ReplayWAL \/ ReplayBeforeMarker
  \/ ReplayCheckpointWAL \/ MergeIntoRecoveryWAL \/ SyncRecoveryWAL
  \/ MoveRecoveryWAL \/ RemoveCheckpointWAL \/ RefuseToOpen

Spec == Init /\ [][Next]_vars

-----------------------------------------------------------------------------
(* A read-only connection replays without writing.                         *)

Refused == <<0>>   \* no list of commits starts with 0

\* ReplayLog of the checkpoint log, on top of the given commits
ReadOnlyCheckpointWAL(commits) ==
  IF CheckpointWAL = <<>> THEN commits
  ELSE IF ~WellFormed(CheckpointWAL, "CHECKPOINT_WAL") \/ ExpectsCheckpoint(CheckpointWAL)
  THEN Refused
  ELSE commits \o Replayed(CheckpointWAL, Readable(CheckpointWAL))

\* Mutant: the commits made during a failed checkpoint are left out.
ReadOnlyFailedMutant(commits) == commits

\* After a failed checkpoint: the checkpoint log is replayed if the log could
\* be replayed to its end.
ReadOnlyFailed(commits) ==
  IF HasCheckpointWAL /\ LastFlush(MainWAL) > 0 /\ LastFlush(MainWAL) = Len(MainWAL)
  THEN ReadOnlyCheckpointWAL(commits) ELSE commits

\* what a read-only connection finds, or Refused
ReadOnlyDatabase ==
  LET onMain == header.commits \o Replayed(MainWAL, Readable(MainWAL))
  IN  IF "wal" \notin exists \/ MainWAL = <<>> THEN header.commits
      ELSE IF ~WellFormed(MainWAL, "MAIN_WAL") THEN Refused
      ELSE IF CheckpointWasSuccessful(MainWAL)
      THEN IF HasCheckpointWAL THEN ReadOnlyCheckpointWAL(header.commits)
           ELSE header.commits
      ELSE IF ExpectsCheckpoint(MainWAL) THEN Refused
      ELSE IF CheckpointFailed(MainWAL) THEN ReadOnlyFailed(onMain)
      ELSE onMain

-----------------------------------------------------------------------------
(* Properties.                                                             *)

\* The variables have their types, and the storage manager's idea of the size
\* of the log never exceeds the file (SetWALSize).
TypeOK ==
  /\ header \in [iteration : Nat, root : Root \union {NoRoot}, commits : Seq(Commit)]
  /\ exists \subseteq Path
  /\ \A p \in Path : synced[p] \in 0 .. Len(content[p])
  /\ \A p \in Path \ exists : content[p] = <<>>
  /\ mode \in {"up", "down", "recovering", "refused"}
  /\ wal.path \in {"wal", "wal.checkpoint"}
  /\ wal.init_state \in {"NO_WAL", "UNINITIALIZED",
                         "UNINITIALIZED_REQUIRES_TRUNCATE", "INITIALIZED"}
  /\ wal_size \in 0 .. Len(content[wal.path])
  /\ wal_lock \in {"free", "commit", "checkpoint"}
  /\ database \in Seq(Commit) /\ acked \subseteq Commit /\ failed \subseteq Commit
  /\ recovery.stage \in {"none", "scan", "merged", "synced", "moved"}

\* Whatever crashes there have been, during commits, checkpoints and earlier
\* recoveries, an open database has every commit a client was told of or has
\* seen (FlushCommit, MergeIntoRecoveryWAL, WALFinishCheckpoint).
NothingLost ==
  /\ TypeOK
  /\ mode = "up" => acked \subseteq ToSet(database)

\* A commit that was reverted, or found missing by an earlier open, never comes
\* back, whatever crashes follow: what a failed or torn transaction left in a
\* log is cut off before anything else is flushed behind it (RevertCommit,
\* Initialize, ReplayLog).
NothingRevived == mode = "up" => ToSet(database) \cap failed = {}

\* An open database has exactly what it may and must have: of the commits that
\* were reported, those that succeeded and none that failed.
Durability == NothingLost /\ NothingRevived

IsExactHistory(commits) ==
  /\ \A i, j \in DOMAIN commits : i < j => commits[i] < commits[j]
  /\ ToSet(commits) \cap failed = {}

\* Commits come back once, in the order they were made (ReplayLog).
ReplayedOnce == mode = "up" => IsExactHistory(database)

\* A read-only connection that opens a closed or crashed database finds what
\* a writing one would have to: no commit lost, doubled or resurrected.
ReadOnlyAgrees ==
  (mode = "down" /\ ReadOnlyDatabase # Refused) =>
     acked \subseteq ToSet(ReadOnlyDatabase) /\ IsExactHistory(ReadOnlyDatabase)
=============================================================================
