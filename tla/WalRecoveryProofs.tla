------------------------- MODULE WalRecoveryProofs -------------------------
(***************************************************************************)
(* Durability, for any number of commits, checkpoints and crashes: a       *)
(* database that opens has every commit a client was told of, and none     *)
(* that failed.                                                            *)
(*                                                                         *)
(* Recovery decides by the marker and the header's root which of the log   *)
(* files count.  The invariant says of every state of the disk where the   *)
(* commits are that must be found (Covered), and that what may be found    *)
(* has not failed (Untainted); while the database is up it says it of the  *)
(* part of the log that no crash and no truncation takes away (Safe).      *)
(***************************************************************************)
EXTENDS WalRecovery, TLAPS, FiniteSetTheorems, WellFoundedInduction

LogEntry ==
  {Version(i) : i \in Nat} \cup {Data(c) : c \in Commit}
    \cup {Marker(r) : r \in Root} \cup {Flush, Torn}

\* the commits in the first n entries of a log, and those of them that are
\* followed by a flush there
Logged(s, n) == {c \in Commit : \E i \in 1 .. n : s[i] = Data(c)}
Flushed(s, n) == {c \in Commit : \E i, j \in 1 .. n : i < j /\ s[i] = Data(c) /\ s[j] = Flush}

IsMarker(s, i) == s[i].type = "CHECKPOINT"
Unmarked(s) == \A i \in 1 .. Len(s) : ~IsMarker(s, i)
MarkedAt(s, m) ==
  /\ m \in 2 .. Len(s)
  /\ \A i \in 1 .. Len(s) : IsMarker(s, i) <=> i = m

\* s: what a crash left of the log t, after n entries that are as they were
CutAt(s, t, n) ==
  /\ n \in 0 .. Len(t)
  /\ \A i \in 1 .. n : s[i] = t[i]
  /\ \/ Len(s) = n
     \/ Len(s) = n + 1 /\ n < Len(t) /\ s[n + 1] = Torn

\* a log starts with its version, and only its last entry can be torn
Shaped(s) ==
  \A i \in 1 .. Len(s) :
    /\ s[i] = Torn => i = Len(s)
    /\ i = 1 => s[i].type \in {"WAL_VERSION", "TORN"}

Main == content["wal"]
Second == content["wal.checkpoint"]
Third == content["wal.recovery"]
Log == content[wal.path]
Stored == ToSet(header.commits)
Snapshot == ToSet(checkpoint.snapshot)

\* the entries of the log in use that neither a crash nor a revert takes away
Safe == IF synced[wal.path] <= wal_size THEN synced[wal.path] ELSE wal_size

Headers == [iteration : Nat, root : Root \cup {NoRoot}, commits : Seq(Commit)]
WALs == [path : {"wal", "wal.checkpoint"},
         init_state : {"NO_WAL", "UNINITIALIZED",
                       "UNINITIALIZED_REQUIRES_TRUNCATE", "INITIALIZED"},
         iteration : Nat \cup {-1}]
Commits == [c : Nat, initial : Nat, flushed : BOOLEAN]
Checkpoints == [phase : {"none", "starting", "marking", "marked", "writing",
                         "counted", "headed"},
                kind : {"required", "forced", "skip"},
                root : Root \cup {NoRoot}, snapshot : Seq(Commit),
                has_wal : BOOLEAN, c : Nat]
Recoveries == [stage : {"none", "scan", "merged", "synced", "moved"},
               state : {"MAIN_WAL", "CHECKPOINT_WAL"}]

Files ==
  /\ exists \subseteq Path
  /\ content \in [Path -> Seq(LogEntry)]
  /\ synced \in [Path -> Nat]
  /\ \A p \in Path : synced[p] <= Len(content[p])
  /\ \A p \in Path \ exists : content[p] = <<>>

Types ==
  /\ header \in Headers
  /\ Files
  /\ mode \in {"up", "down", "recovering", "refused"}
  /\ iteration_count \in Nat
  /\ wal \in WALs
  /\ wal_size \in Nat
  /\ wal_size <= Len(content[wal.path])
  /\ wal_lock \in {"free", "commit", "checkpoint"}
  /\ database \in Seq(Commit)
  /\ commit \in Commits
  /\ checkpoint \in Checkpoints
  /\ recovery \in Recoveries
  /\ attempts \in 0 .. MaxCommits
  /\ acked \subseteq Commit /\ failed \subseteq Commit
  /\ checkpoints \in Nat /\ crashes \in Nat

\* Only the log proper ever has a marker, one at most.
Shapes ==
  /\ Shaped(Main) /\ Shaped(Second) /\ Shaped(Third)
  /\ Unmarked(Second) /\ Unmarked(Third)
  /\ Unmarked(Main) \/ \E m \in 2 .. Len(Main) : MarkedAt(Main, m)

\* Locks, the log in use, and the marker of a running checkpoint.
Control ==
  /\ commit.c # 0 <=> wal_lock = "commit"
  /\ commit.flushed => commit.c # 0
  /\ commit.c # 0 => commit.initial = wal_size /\ wal.init_state = "INITIALIZED"
  /\ wal.init_state = "NO_WAL" => Log = <<>>
  /\ wal.path = "wal.checkpoint" => wal.init_state \in {"NO_WAL", "INITIALIZED"}
  /\ \A i \in 1 .. Len(Kept) : Kept[i] # Torn
  /\ checkpoint.phase # "none" /\ checkpoint.kind = "skip" => wal_lock = "checkpoint"
  /\ checkpoint.phase \in {"marking", "marked"} =>
       checkpoint.has_wal /\ wal_lock = "checkpoint" /\ wal.init_state = "INITIALIZED"
  /\ checkpoint.phase = "none" => checkpoint.c = 0
  /\ checkpoint.has_wal => checkpoint.phase \notin {"none", "starting"}
  /\ wal.path = IF checkpoint.has_wal /\ checkpoint.phase \notin {"marking", "marked"}
                THEN "wal.checkpoint" ELSE "wal"

Marking ==
  /\ ~checkpoint.has_wal => Unmarked(Main)
  /\ checkpoint.has_wal =>
       /\ Len(Main) > 2
       /\ MarkedAt(Main, Len(Main) - 1)
       /\ Main[Len(Main) - 1] = Marker(checkpoint.root)
       /\ checkpoint.phase = "marking" => wal_size <= Len(Main) - 2
       /\ checkpoint.phase # "marking" => synced["wal"] = Len(Main)
       /\ checkpoint.phase # "headed" => checkpoint.root # header.root
  /\ checkpoint.phase = "headed" =>
       checkpoint.root = header.root /\ checkpoint.snapshot = header.commits

\* Where the commits are that must be found, while the database is up.
Covered ==
  /\ acked \subseteq ToSet(database)
  /\ ~checkpoint.has_wal \/ checkpoint.phase = "marking" =>
       acked \subseteq Stored \cup Flushed(Main, Safe)
  /\ checkpoint.has_wal /\ checkpoint.phase = "marked" =>
       acked \subseteq Stored \cup Flushed(Main, Len(Main) - 1)
  /\ checkpoint.has_wal /\ checkpoint.phase \in {"writing", "counted"} =>
       acked \subseteq Stored \cup Flushed(Main, Len(Main) - 1) \cup Flushed(Second, Safe)
  /\ checkpoint.has_wal /\ checkpoint.phase = "headed" =>
       acked \subseteq Stored \cup Flushed(Second, Safe)

\* What the header will hold once the checkpoint has written it.
Snapped ==
  /\ checkpoint.phase \in {"marking", "marked"} => acked \subseteq Snapshot
  /\ checkpoint.phase \in {"writing", "counted"} =>
       acked \subseteq Snapshot \cup Flushed(Log, Safe)
  /\ checkpoint.c # 0 => checkpoint.c \in ToSet(database)
  /\ checkpoint.c # 0 /\ checkpoint.phase \notin {"none", "starting"} =>
       checkpoint.c \in Snapshot

\* The commit that is writing to the log.
Writing ==
  commit.c # 0 =>
    /\ commit.c \in 1 .. attempts
    /\ commit.c \in Logged(Log, Len(Log))
    /\ commit.flushed => commit.c \in Flushed(Log, Len(Log))
    /\ commit.c \notin acked \cup failed \cup Stored \cup Snapshot \cup ToSet(database)
    /\ commit.c \notin Logged(Log, wal_size)
    /\ wal.path = "wal" => commit.c \notin Logged(Second, Len(Second))
    /\ wal.path = "wal.checkpoint" => commit.c \notin Logged(Main, Len(Main))

Up ==
  mode = "up" =>
    /\ recovery = NoRecovery
    /\ Control /\ Marking /\ Covered /\ Snapped /\ Writing

\* Where they are on the disk of a database that is not open.
Down ==
  mode # "up" =>
    /\ wal = NewWAL("wal", "NO_WAL", -1) /\ wal_size = 0 /\ wal_lock = "free"
    /\ database = <<>> /\ commit = NoCommit /\ checkpoint = NoCheckpoint
    /\ synced["wal"] = Len(Main) /\ synced["wal.checkpoint"] = Len(Second)
    /\ mode = "recovering" <=> recovery.stage # "none"
    /\ Unmarked(Main) => acked \subseteq Stored \cup Flushed(Main, Len(Main))
    /\ \A m \in 2 .. Len(Main) : MarkedAt(Main, m) =>
         /\ Main[m].of = header.root => acked \subseteq Stored \cup Flushed(Second, Len(Second))
         /\ Main[m].of # header.root =>
              acked \subseteq Stored \cup Flushed(Main, m) \cup Flushed(Second, Len(Second))
    /\ recovery.stage \in {"merged", "synced"} =>
         acked \subseteq Stored \cup Flushed(Third, Len(Third))
    /\ recovery.stage = "synced" => synced["wal.recovery"] = Len(Third)
    /\ recovery.stage = "moved" => Unmarked(Main)

\* What may be found has not failed.
Untainted ==
  /\ acked \cap failed = {}
  /\ Stored \cap failed = {}
  /\ Flushed(Main, Len(Main)) \cap failed = {}
  /\ Flushed(Second, Len(Second)) \cap failed = {}
  /\ \A m \in 2 .. Len(Main) : MarkedAt(Main, m) => Logged(Main, m) \cap failed = {}
  /\ mode = "up" =>
       /\ ToSet(database) \cap failed = {}
       /\ Snapshot \cap failed = {}
       /\ Logged(Kept, Len(Kept)) \cap failed = {}
       /\ ~checkpoint.has_wal \/ checkpoint.phase \in {"marking", "marked"} =>
            Flushed(Second, Len(Second)) \subseteq acked
  /\ mode # "up" /\ Unmarked(Main) =>
       Flushed(Second, Len(Second)) \subseteq Stored \cup Flushed(Main, Len(Main))
  /\ recovery.stage \in {"merged", "synced"} =>
       /\ Flushed(Third, Len(Third)) \cap failed = {}
       /\ Flushed(Second, Len(Second)) \subseteq Flushed(Third, Len(Third))

\* No log has a commit that has not been made yet.
Known ==
  /\ acked \cup failed \cup Stored \cup Snapshot \cup ToSet(database) \subseteq 1 .. attempts
  /\ \A p \in Path : Logged(content[p], Len(content[p])) \subseteq 1 .. attempts

RecoveryInv == Types /\ Shapes /\ Up /\ Down /\ Untainted /\ Known

-----------------------------------------------------------------------------
(* Numbers: a bounded set of naturals has a least and a largest element.   *)

\* The least-number principle, for a set.
LEMMA LeastNatural ==
  ASSUME NEW T, T \subseteq Nat, T # {}
  PROVE  \E x \in T : \A y \in T : x <= y
<1> DEFINE R == OpToRel(<, Nat)
<1>1. IsWellFoundedOn(R, Nat)
  BY NatLessThanWellFounded
<1>2. R = {p \in Nat \X Nat : p[1] < p[2]}
  BY DEF OpToRel
<1> HIDE DEF R
<1>3. \E x \in T : \A y \in T : ~ (<<y, x>> \in R)
  BY <1>1, WFMin
<1>4. \A x, y \in T : ~(<<y, x>> \in R) => x <= y
  BY <1>2, SMT
<1> QED BY <1>3, <1>4

LEMMA LargestNatural ==
  ASSUME NEW n \in Nat, NEW T, T \subseteq 0 .. n, T # {}
  PROVE  \E x \in T : \A y \in T : y <= x
<1> DEFINE D == {n - x : x \in T}
<1>0. \A x \in T : n - x \in Nat
  OBVIOUS
<1>1. D \subseteq Nat /\ D # {}
  BY <1>0
<1>2. PICK d \in D : \A e \in D : d <= e
  <2> HIDE DEF D
  <2> QED BY <1>1, LeastNatural
<1>3. PICK x \in T : d = n - x
  BY <1>2
<1>4. \A y \in T : n - y \in D
  OBVIOUS
<1>5. \A y \in T : y <= x
  BY <1>2, <1>3, <1>4
<1> QED BY <1>5

\* LastOf is the largest of a set of positions.
LEMMA LastOfIs ==
  ASSUME NEW n \in Nat, NEW S, S \subseteq 1 .. n
  PROVE  /\ LastOf(S) \in S \cup {0}
         /\ \A j \in S : j <= LastOf(S)
<1>1. \E i \in S \cup {0} : \A j \in S : j <= i
  <2>1. CASE S = {}
    BY <2>1
  <2>2. CASE S # {}
    <3>1. S \subseteq 0 .. n
      OBVIOUS
    <3>2. PICK i \in S : \A j \in S : j <= i
      BY <2>2, <3>1, LargestNatural
    <3> QED BY <3>2
  <2> QED BY <2>1, <2>2
<1> QED BY <1>1 DEF LastOf

-----------------------------------------------------------------------------
(* Logs.                                                                   *)

LEMMA EntryFacts ==
  ASSUME NEW c, NEW d, NEW r, NEW i
  PROVE  /\ (Data(c) = Data(d)) <=> (c = d)
         /\ Data(c) # Flush /\ Data(c) # Torn /\ Data(c) # Version(i) /\ Data(c) # Marker(r)
         /\ Flush # Torn /\ Version(i) # Flush /\ Version(i) # Torn
         /\ Marker(r) # Flush /\ Marker(r) # Torn /\ Marker(r) # Version(i)
         /\ Data(c).type = "DATA" /\ Data(c).of = c
         /\ Flush.type = "WAL_FLUSH" /\ Torn.type = "TORN"
         /\ Version(i).type = "WAL_VERSION" /\ Version(i).of = i
         /\ Marker(r).type = "CHECKPOINT" /\ Marker(r).of = r
  BY DEF Data, Flush, Torn, Version, Marker, Entry

LEMMA DataEntry ==
  ASSUME NEW e \in LogEntry
  PROVE  /\ e.type = "DATA" => e.of \in Commit /\ e = Data(e.of)
         /\ e.type = "CHECKPOINT" => e.of \in Root /\ e = Marker(e.of)
         /\ e.type = "TORN" <=> e = Torn
  BY DEF LogEntry, Data, Flush, Torn, Version, Marker, Entry

LEMMA MadeEntry ==
  /\ \A i \in Nat : Version(i) \in LogEntry
  /\ \A c \in Commit : Data(c) \in LogEntry
  /\ \A r \in Root : Marker(r) \in LogEntry
  /\ Flush \in LogEntry /\ Torn \in LogEntry
  BY DEF LogEntry

\* More of a log has no fewer commits.
LEMMA MoreIsMore ==
  ASSUME NEW s, NEW n \in Nat, NEW m \in Nat, n <= m
  PROVE  /\ Flushed(s, n) \subseteq Flushed(s, m)
         /\ Logged(s, n) \subseteq Logged(s, m)
         /\ Flushed(s, n) \subseteq Logged(s, n)
         /\ Flushed(s, n) \subseteq Commit /\ Logged(s, n) \subseteq Commit
<1>1. 1 .. n \subseteq 1 .. m
  OBVIOUS
<1> QED BY <1>1, Zenon DEF Flushed, Logged

\* Two logs that agree up to n have the same commits there.
LEMMA SamePrefix ==
  ASSUME NEW s, NEW t, NEW n \in Nat, \A i \in 1 .. n : s[i] = t[i]
  PROVE  Flushed(s, n) = Flushed(t, n) /\ Logged(s, n) = Logged(t, n)
<1>1. \A c \in Commit : c \in Flushed(s, n) <=> c \in Flushed(t, n)
  BY Zenon DEF Flushed
<1>2. \A c \in Commit : c \in Logged(s, n) <=> c \in Logged(t, n)
  BY Zenon DEF Logged
<1> QED BY <1>1, <1>2 DEF Flushed, Logged

LEMMA NothingInNothing ==
  ASSUME NEW s
  PROVE  Flushed(s, 0) = {} /\ Logged(s, 0) = {}
<1>1. 1 .. 0 = {}
  OBVIOUS
<1> QED BY <1>1, Zenon DEF Flushed, Logged

\* What one more entry adds.
LEMMA OneMore ==
  ASSUME NEW s, NEW n \in Nat
  PROVE  /\ s[n + 1] = Flush =>
              Flushed(s, n + 1) = Logged(s, n) /\ Logged(s, n + 1) = Logged(s, n)
         /\ \A c \in Commit : s[n + 1] = Data(c) =>
              /\ Flushed(s, n + 1) = Flushed(s, n)
              /\ Logged(s, n + 1) = Logged(s, n) \cup {c}
         /\ (s[n + 1] # Flush /\ \A c \in Commit : s[n + 1] # Data(c)) =>
              Flushed(s, n + 1) = Flushed(s, n) /\ Logged(s, n + 1) = Logged(s, n)
<1>0. 1 .. (n + 1) = (1 .. n) \cup {n + 1}
  OBVIOUS
<1>1. \A i \in 1 .. n : i < n + 1
  OBVIOUS
<1>2. \A i \in 1 .. n : ~(n + 1 < i)
  OBVIOUS
<1>3. ~(n + 1 < n + 1)
  OBVIOUS
<1>4. ASSUME s[n + 1] = Flush
      PROVE  Flushed(s, n + 1) = Logged(s, n) /\ Logged(s, n + 1) = Logged(s, n)
  <2>1. \A c \in Commit : s[n + 1] # Data(c)
    BY <1>4, EntryFacts
  <2>2. ASSUME NEW c \in Commit PROVE c \in Flushed(s, n + 1) <=> c \in Logged(s, n)
    BY <1>0, <1>1, <1>2, <1>3, <1>4, <2>1, Zenon DEF Flushed, Logged
  <2>3. ASSUME NEW c \in Commit PROVE c \in Logged(s, n + 1) <=> c \in Logged(s, n)
    BY <1>0, <2>1, Zenon DEF Logged
  <2> QED BY <2>2, <2>3 DEF Flushed, Logged
<1>5. ASSUME NEW c \in Commit, s[n + 1] = Data(c)
      PROVE  /\ Flushed(s, n + 1) = Flushed(s, n)
             /\ Logged(s, n + 1) = Logged(s, n) \cup {c}
  <2>1. s[n + 1] # Flush
    BY <1>5, EntryFacts
  <2>2. ASSUME NEW d \in Commit PROVE d \in Flushed(s, n + 1) <=> d \in Flushed(s, n)
    BY <1>0, <1>2, <1>3, <2>1, Zenon DEF Flushed
  <2>3. \A d \in Commit : s[n + 1] = Data(d) <=> d = c
    BY <1>5, EntryFacts
  <2>4. ASSUME NEW d \in Commit PROVE d \in Logged(s, n + 1) <=> d \in Logged(s, n) \cup {c}
    BY <1>0, <2>3, Zenon DEF Logged
  <2> QED BY <2>2, <2>4 DEF Flushed, Logged
<1>6. ASSUME s[n + 1] # Flush, \A c \in Commit : s[n + 1] # Data(c)
      PROVE  Flushed(s, n + 1) = Flushed(s, n) /\ Logged(s, n + 1) = Logged(s, n)
  <2>2. ASSUME NEW d \in Commit PROVE d \in Flushed(s, n + 1) <=> d \in Flushed(s, n)
    BY <1>0, <1>6, Zenon DEF Flushed
  <2>4. ASSUME NEW d \in Commit PROVE d \in Logged(s, n + 1) <=> d \in Logged(s, n)
    BY <1>0, <1>6, Zenon DEF Logged
  <2> QED BY <2>2, <2>4 DEF Flushed, Logged
<1> QED BY <1>4, <1>5, <1>6

LEMMA FlushEndIs ==
  ASSUME NEW s, NEW n \in Nat
  PROVE  /\ FlushEnd(s, n) \in 0 .. n
         /\ FlushEnd(s, n) # 0 => s[FlushEnd(s, n)] = Flush
         /\ \A j \in 1 .. n : s[j] = Flush => j <= FlushEnd(s, n)
<1> DEFINE F == {i \in 1 .. n : s[i] = Flush}
<1>1. F \subseteq 1 .. n
  OBVIOUS
<1>2. FlushEnd(s, n) = LastOf(F)
  BY DEF FlushEnd
<1>3. LastOf(F) \in F \cup {0} /\ \A j \in F : j <= LastOf(F)
  <2> HIDE DEF F
  <2> QED BY <1>1, LastOfIs
<1> QED BY <1>2, <1>3

\* Cutting a log off behind its last flush takes no flushed commit away, and
\* leaves no other.
LEMMA CutBehindFlush ==
  ASSUME NEW s, NEW n \in Nat, NEW e, e = FlushEnd(s, n)
  PROVE  /\ Flushed(s, e) = Flushed(s, n)
         /\ Logged(s, e) = Flushed(s, n)
<1>1. /\ e \in 0 .. n
      /\ e # 0 => s[e] = Flush
      /\ \A j \in 1 .. n : s[j] = Flush => j <= e
  BY FlushEndIs
<1>2. Flushed(s, e) \subseteq Flushed(s, n) /\ Flushed(s, e) \subseteq Logged(s, e)
  BY <1>1, MoreIsMore
<1>3. ASSUME NEW c \in Flushed(s, n) PROVE c \in Flushed(s, e)
  <2>1. c \in Commit
    BY DEF Flushed
  <2>2. PICK i \in 1 .. n, j \in 1 .. n : i < j /\ s[i] = Data(c) /\ s[j] = Flush
    BY <1>3 DEF Flushed
  <2>3. i \in 1 .. e /\ j \in 1 .. e
    BY <1>1, <2>2
  <2> QED BY <2>1, <2>2, <2>3 DEF Flushed
<1>4. ASSUME NEW c \in Logged(s, e) PROVE c \in Flushed(s, e)
  <2>1. c \in Commit
    BY DEF Logged
  <2>2. PICK i \in 1 .. e : s[i] = Data(c)
    BY <1>4 DEF Logged
  <2>3. s[e] = Flush /\ i # e
    <3>1. e # 0
      BY <1>1, <2>2
    <3> QED BY <1>1, <2>2, <3>1, EntryFacts
  <2>4. i < e /\ e \in 1 .. e
    BY <1>1, <2>2, <2>3
  <2> QED BY <2>1, <2>2, <2>3, <2>4 DEF Flushed
<1> QED BY <1>2, <1>3, <1>4

\* InOrder lists every position of a set of positions once.
LEMMA InOrderIs ==
  ASSUME NEW s, NEW n \in Nat, NEW D, D \subseteq 1 .. n
  PROVE  /\ ToSet(InOrder(s, D)) = {s[i].of : i \in D}
         /\ \A T : {s[i].of : i \in D} \subseteq T => InOrder(s, D) \in Seq(T)
<1> DEFINE upto(i) == {j \in D : j <= i}
           rank(i) == Cardinality(upto(i))
<1>1. IsFiniteSet(D) /\ Cardinality(D) \in Nat
  <2>1. IsFiniteSet(1 .. n)
    BY FS_Interval
  <2>2. IsFiniteSet(D)
    BY <2>1, FS_Subset
  <2> QED BY <2>2, FS_CardinalityType
<1>2. ASSUME NEW i \in D PROVE rank(i) \in 1 .. Cardinality(D)
  <2>1. upto(i) \in SUBSET D
    OBVIOUS
  <2>2. i \in upto(i)
    OBVIOUS
  <2>3. IsFiniteSet(upto(i)) /\ rank(i) <= Cardinality(D)
    BY <1>1, <2>1, FS_Subset
  <2>4. rank(i) \in Nat /\ rank(i) # 0
    BY <2>2, <2>3, FS_CardinalityType, FS_EmptySet
  <2> QED BY <1>1, <2>3, <2>4
<1>3. ASSUME NEW i \in D, NEW j \in D, rank(i) = rank(j) PROVE i = j
  <2>1. ASSUME NEW x \in D, NEW y \in D, x < y, rank(x) = rank(y) PROVE FALSE
    <3>1. upto(x) \in SUBSET upto(y)
      <4>1. \A z \in D : z <= x => z <= y
        BY <2>1
      <4> QED BY <4>1, Zenon
    <3>2. y \in upto(y) /\ y \notin upto(x)
      BY <2>1
    <3>3. IsFiniteSet(upto(y))
      <4>1. upto(y) \in SUBSET D
        OBVIOUS
      <4> QED BY <1>1, <4>1, FS_Subset
    <3>4. upto(x) = upto(y)
      BY <2>1, <3>1, <3>3, FS_Subset
    <3> QED BY <3>2, <3>4
  <2>2. i < j \/ j < i \/ i = j
    OBVIOUS
  <2> QED BY <1>3, <2>1, <2>2
<1> DEFINE f == [i \in D |-> rank(i)]
           N == 1 .. Cardinality(D)
<1>4. f \in [D -> N] /\ \A i, j \in D : f[i] = f[j] => i = j
  BY <1>2, <1>3
<1>5. \A k \in N : \E i \in D : f[i] = k
  <2>1. f \in Injection(D, N)
    BY <1>4 DEF Injection, IsInjective
  <2>2. IsFiniteSet(N) /\ Cardinality(N) = Cardinality(D)
    BY <1>1, FS_Interval
  <2>3. f \in Surjection(D, N)
    <3> HIDE DEF f, N
    <3> QED BY <2>1, <2>2, FS_Injection
  <2> QED BY <2>3 DEF Surjection
<1>6. ASSUME NEW k \in N, NEW i \in D, rank(i) = k
      PROVE  InOrder(s, D)[k] = s[i].of
  <2>1. (CHOOSE x \in D : rank(x) = k) = i
    BY <1>3, <1>6
  <2>2. InOrder(s, D)[k] = s[CHOOSE x \in D : rank(x) = k].of
    BY DEF InOrder
  <2> QED BY <2>1, <2>2
<1>7. \A k \in N : \E i \in D : rank(i) = k
  BY <1>5
<1>8. DOMAIN InOrder(s, D) = N
  BY DEF InOrder
<1>9. InOrder(s, D) = [k \in N |-> InOrder(s, D)[k]]
  BY DEF InOrder
<1>10. \A k \in N : InOrder(s, D)[k] \in {s[i].of : i \in D}
  BY <1>6, <1>7
<1>11. \A i \in D : s[i].of \in {InOrder(s, D)[k] : k \in N}
  BY <1>2, <1>6
<1> HIDE DEF N
<1>12. {InOrder(s, D)[k] : k \in N} = {s[i].of : i \in D}
  <2>1. {InOrder(s, D)[k] : k \in N} \subseteq {s[i].of : i \in D}
    BY <1>10
  <2>2. {s[i].of : i \in D} \subseteq {InOrder(s, D)[k] : k \in N}
    BY <1>11
  <2> QED BY <2>1, <2>2
<1>13. ToSet(InOrder(s, D)) = {s[i].of : i \in D}
  BY <1>8, <1>12 DEF ToSet
<1>14. ASSUME NEW T, {s[i].of : i \in D} \subseteq T PROVE InOrder(s, D) \in Seq(T)
  <2>1. \A k \in N : InOrder(s, D)[k] \in T
    BY <1>10, <1>14
  <2>2. InOrder(s, D) \in [N -> T]
    BY <1>9, <2>1
  <2> QED BY <1>1, <2>2 DEF N
<1> QED BY <1>13, <1>14

\* Replaying a log up to position n applies exactly the commits that are
\* followed by a flush up to there.
LEMMA ReplayedIs ==
  ASSUME NEW s \in Seq(LogEntry), NEW n \in 0 .. Len(s)
  PROVE  /\ Replayed(s, n) \in Seq(Commit)
         /\ ToSet(Replayed(s, n)) = Flushed(s, n)
<1> DEFINE e == FlushEnd(s, n)
           D == {i \in 1 .. e : s[i].type = "DATA"}
           R == InOrder(s, D)
<1>1. n \in Nat /\ e \in 0 .. n
  BY FlushEndIs
<1>2. D \subseteq 1 .. n
  BY <1>1
<1>3. /\ ToSet(R) = {s[i].of : i \in D}
      /\ \A T : {s[i].of : i \in D} \subseteq T => R \in Seq(T)
  <2>1. n \in Nat
    OBVIOUS
  <2> HIDE DEF D
  <2> QED BY <1>2, <2>1, InOrderIs
<1>5. \A i \in D : s[i].of \in Commit /\ s[i] = Data(s[i].of)
  <2>1. \A i \in D : s[i] \in LogEntry
    BY <1>1
  <2> QED BY <2>1, DataEntry
<1>6. Replayed(s, n) = R
  BY DEF Replayed
<1>7. R \in Seq(Commit)
  <2>1. {s[i].of : i \in D} \subseteq Commit
    BY <1>5
  <2> HIDE DEF R, D
  <2> QED BY <1>3, <2>1
<1>8. ToSet(R) = {s[i].of : i \in D}
  BY <1>3
<1>9. {s[i].of : i \in D} = Logged(s, e)
  <2>1. ASSUME NEW c \in Commit, NEW i \in 1 .. e, s[i] = Data(c)
        PROVE  i \in D /\ s[i].of = c
    BY <2>1, EntryFacts
  <2>2. \A i \in D : s[i].of \in Logged(s, e)
    BY <1>5 DEF Logged
  <2>3. \A c \in Logged(s, e) : \E i \in D : s[i].of = c
    BY <2>1, Zenon DEF Logged
  <2> QED BY <2>2, <2>3
<1>10. Logged(s, e) = Flushed(s, n)
  BY <1>1, CutBehindFlush
<1> QED BY <1>6, <1>7, <1>8, <1>9, <1>10

\* Everything but a torn entry at the end of a log can be read.
LEMMA ReadableIs ==
  ASSUME NEW s \in Seq(LogEntry), Shaped(s)
  PROVE  /\ Readable(s) \in 0 .. Len(s)
         /\ \A i \in 1 .. Readable(s) : s[i] # Torn
         /\ \A i \in 1 .. Len(s) : s[i] # Torn => i <= Readable(s)
         /\ Flushed(s, Readable(s)) = Flushed(s, Len(s))
         /\ Logged(s, Readable(s)) = Logged(s, Len(s))
<1> DEFINE torn == {i \in 1 .. Len(s) : s[i] = Torn}
<1>1. CASE torn = {}
  <2>1. Readable(s) = Len(s)
    BY <1>1 DEF Readable
  <2>2. \A i \in 1 .. Len(s) : s[i] # Torn
    BY <1>1
  <2> QED BY <2>1, <2>2
<1>2. CASE torn # {}
  <2>1. PICK k \in torn : TRUE
    BY <1>2
  <2>2. k = Len(s) /\ s[k] = Torn /\ k \in 1 .. Len(s)
    BY <2>1 DEF Shaped
  <2>3. torn = {Len(s)}
    BY <2>2 DEF Shaped
  <2>4. (CHOOSE i \in 0 .. Len(s) : i + 1 \in torn) = Len(s) - 1
    <3>1. Len(s) - 1 \in 0 .. Len(s) /\ (Len(s) - 1) + 1 \in torn
      BY <2>2, <2>3
    <3>2. \A i \in 0 .. Len(s) : i + 1 \in torn => i = Len(s) - 1
      BY <2>3
    <3> HIDE DEF torn
    <3> QED BY <3>1, <3>2
  <2>5. Readable(s) = Len(s) - 1
    BY <1>2, <2>4 DEF Readable
  <2> DEFINE n == Len(s) - 1
  <2>6. n \in Nat /\ n + 1 = Len(s) /\ s[n + 1] = Torn
    BY <2>2
  <2>7. s[n + 1] # Flush /\ \A c \in Commit : s[n + 1] # Data(c)
    BY <2>6, EntryFacts
  <2>8. Flushed(s, n + 1) = Flushed(s, n) /\ Logged(s, n + 1) = Logged(s, n)
    <3> HIDE DEF n
    <3> QED BY <2>6, <2>7, OneMore
  <2>9. \A i \in 1 .. Len(s) : s[i] = Torn <=> i = Len(s)
    BY <2>3
  <2>10. Flushed(s, Readable(s)) = Flushed(s, Len(s)) /\ Logged(s, Readable(s)) = Logged(s, Len(s))
    <3>1. Readable(s) = n /\ n + 1 = Len(s)
      BY <2>5, <2>6
    <3> HIDE DEF n
    <3> QED BY <2>8, <3>1
  <2>11. Readable(s) \in 0 .. Len(s)
    BY <2>2, <2>5
  <2>12. \A i \in 1 .. Len(s) : s[i] # Torn => i <= Readable(s)
    BY <2>2, <2>5
  <2>13. \A i \in 1 .. Readable(s) : i \in 1 .. Len(s) /\ i # Len(s)
    BY <2>2, <2>5
  <2>14. \A i \in 1 .. Readable(s) : s[i] # Torn
    BY <2>9, <2>13, Zenon
  <2> QED BY <2>10, <2>11, <2>12, <2>14
<1> QED BY <1>1, <1>2

\* The markers recovery finds are the markers there are.
LEMMA MarkersAre ==
  ASSUME NEW s \in Seq(LogEntry), Shaped(s)
  PROVE  /\ Unmarked(s) <=> Markers(s) = {}
         /\ \A m \in 2 .. Len(s) : MarkedAt(s, m) =>
              Markers(s) = {m} /\ MarkerAt(s) = m
<1>1. Markers(s) = {i \in 1 .. Len(s) : IsMarker(s, i)}
  <2>1. \A i \in 1 .. Len(s) : IsMarker(s, i) => s[i] # Torn
    BY EntryFacts DEF IsMarker
  <2>2. Readable(s) \in 0 .. Len(s) /\ \A i \in 1 .. Len(s) : s[i] # Torn => i <= Readable(s)
    BY ReadableIs
  <2> QED BY <2>1, <2>2 DEF Markers, IsMarker
<1>2. ASSUME NEW m \in 2 .. Len(s), MarkedAt(s, m)
      PROVE  Markers(s) = {m} /\ MarkerAt(s) = m
  <2>1. Markers(s) = {m}
    BY <1>1, <1>2 DEF MarkedAt
  <2>2. {m} \subseteq 1 .. Len(s) /\ Len(s) \in Nat
    OBVIOUS
  <2>3. LastOf({m}) \in {m} \cup {0} /\ m <= LastOf({m})
    BY <2>2, LastOfIs
  <2> QED BY <2>1, <2>3 DEF MarkerAt
<1> QED BY <1>1, <1>2 DEF Unmarked

\* The first n entries of a log.
LEMMA SubLog ==
  ASSUME NEW s \in Seq(LogEntry), NEW n \in 0 .. Len(s), NEW t, t = SubSeq(s, 1, n)
  PROVE  /\ t \in Seq(LogEntry) /\ Len(t) = n
         /\ \A i \in 1 .. n : t[i] = s[i]
         /\ Flushed(t, n) = Flushed(s, n) /\ Logged(t, n) = Logged(s, n)
         /\ Unmarked(s) => Unmarked(t)
         /\ Shaped(s) => Shaped(t)
<1>1. t \in Seq(LogEntry) /\ Len(t) = n /\ \A i \in 1 .. n : t[i] = s[i]
  OBVIOUS
<1>2. Flushed(t, n) = Flushed(s, n) /\ Logged(t, n) = Logged(s, n)
  <2>1. n \in Nat
    OBVIOUS
  <2> QED BY <1>1, <2>1, SamePrefix
<1>3. 1 .. n \subseteq 1 .. Len(s)
  OBVIOUS
<1>4. Unmarked(s) => Unmarked(t)
  BY <1>1, <1>3, Zenon DEF Unmarked, IsMarker
<1>5. Shaped(s) => Shaped(t)
  BY <1>1 DEF Shaped
<1> QED BY <1>1, <1>2, <1>4, <1>5

\* What a crash leaves of a log.
LEMMA CutLog ==
  ASSUME NEW s \in Seq(LogEntry), NEW t \in Seq(LogEntry), NEW n \in 0 .. Len(t),
         CutAt(s, t, n), Shaped(t)
  PROVE  /\ Shaped(s)
         /\ Flushed(s, Len(s)) = Flushed(t, n)
         /\ Logged(s, Len(s)) = Logged(t, n)
         /\ Unmarked(t) => Unmarked(s)
         /\ \A m \in 2 .. Len(t) : MarkedAt(t, m) =>
              IF m <= n THEN MarkedAt(s, m) /\ s[m] = t[m] ELSE Unmarked(s)
         /\ n = Len(t) => s = t
         /\ t = <<>> => s = <<>>
<1>1. \A i \in 1 .. n : s[i] = t[i]
  BY DEF CutAt
<1>2. Flushed(s, n) = Flushed(t, n) /\ Logged(s, n) = Logged(t, n)
  BY <1>1, SamePrefix
<1>3. CASE Len(s) = n
  <2>1. Shaped(s)
    BY <1>1, <1>3 DEF Shaped
  <2>2. Unmarked(t) => Unmarked(s)
    BY <1>1, <1>3 DEF Unmarked, IsMarker
  <2>3. ASSUME NEW m \in 2 .. Len(t), MarkedAt(t, m)
        PROVE  IF m <= n THEN MarkedAt(s, m) /\ s[m] = t[m] ELSE Unmarked(s)
    BY <1>1, <1>3, <2>3 DEF MarkedAt, Unmarked, IsMarker
  <2>4. n = Len(t) => s = t
    BY <1>1, <1>3
  <2> QED BY <1>2, <1>3, <2>1, <2>2, <2>3, <2>4
<1>4. CASE Len(s) = n + 1 /\ n < Len(t) /\ s[n + 1] = Torn
  <2>1. s[n + 1] # Flush /\ (\A c \in Commit : s[n + 1] # Data(c)) /\ s[n + 1].type # "CHECKPOINT"
    BY <1>4, EntryFacts
  <2>2. Flushed(s, n + 1) = Flushed(s, n) /\ Logged(s, n + 1) = Logged(s, n)
    BY <2>1, OneMore
  <2>3. Shaped(s)
    <3>1. \A i \in 1 .. n : s[i] # Torn
      BY <1>1, <1>4 DEF Shaped
    <3>2. s[n + 1].type = "TORN"
      BY <1>4, EntryFacts
    <3>3. \A i \in 1 .. n : i = 1 => s[i].type \in {"WAL_VERSION", "TORN"}
      BY <1>1 DEF Shaped
    <3>4. \A i \in 1 .. Len(s) : i \in 1 .. n \/ i = n + 1
      BY <1>4
    <3> QED BY <1>4, <3>1, <3>2, <3>3, <3>4 DEF Shaped
  <2>4. \A i \in 1 .. Len(s) : i \in 1 .. n \/ i = n + 1
    BY <1>4
  <2>5. Unmarked(t) => Unmarked(s)
    BY <1>1, <2>1, <2>4 DEF Unmarked, IsMarker
  <2>6. ASSUME NEW m \in 2 .. Len(t), MarkedAt(t, m)
        PROVE  IF m <= n THEN MarkedAt(s, m) /\ s[m] = t[m] ELSE Unmarked(s)
    BY <1>1, <1>4, <2>1, <2>4, <2>6 DEF MarkedAt, Unmarked, IsMarker
  <2> QED BY <1>2, <1>4, <2>2, <2>3, <2>5, <2>6
<1> QED BY <1>3, <1>4 DEF CutAt

LEMMA SurvivorIs ==
  ASSUME NEW p \in Path, content[p] \in Seq(LogEntry), synced[p] \in Nat,
         synced[p] <= Len(content[p]), NEW a \in Survivors(p)
  PROVE  /\ a \in Seq(LogEntry)
         /\ \E n \in synced[p] .. Len(content[p]) : CutAt(a, content[p], n)
<1> DEFINE t == content[p]
<1>1. CASE \E n \in synced[p] .. Len(t) : a = SubSeq(t, 1, n)
  <2>1. PICK n \in synced[p] .. Len(t) : a = SubSeq(t, 1, n)
    BY <1>1
  <2>2. n \in 0 .. Len(t) /\ a \in Seq(LogEntry) /\ Len(a) = n /\ \A i \in 1 .. n : a[i] = t[i]
    BY <2>1
  <2>3. CutAt(a, t, n)
    BY <2>2 DEF CutAt
  <2> QED BY <2>2, <2>3
<1>2. CASE \E n \in synced[p] .. (Len(t) - 1) : a = Append(SubSeq(t, 1, n), Torn)
  <2>1. PICK n \in synced[p] .. (Len(t) - 1) : a = Append(SubSeq(t, 1, n), Torn)
    BY <1>2
  <2>2. Torn \in LogEntry
    BY MadeEntry
  <2> DEFINE u == SubSeq(t, 1, n)
  <2>3. n \in 0 .. Len(t) /\ n < Len(t) /\ u \in Seq(LogEntry) /\ Len(u) = n /\ \A i \in 1 .. n : u[i] = t[i]
    BY <2>1
  <2>4. a = Append(u, Torn)
    BY <2>1
  <2>5. a \in Seq(LogEntry) /\ Len(a) = n + 1 /\ a[n + 1] = Torn /\ \A i \in 1 .. n : a[i] = u[i]
    <3> HIDE DEF u
    <3> QED BY <2>2, <2>3, <2>4
  <2>6. CutAt(a, t, n)
    BY <2>3, <2>5 DEF CutAt
  <2> QED BY <2>3, <2>5, <2>6
<1> QED BY <1>1, <1>2 DEF Survivors

-----------------------------------------------------------------------------
(* Writing to the log in use.                                              *)

\* What a write keeps of the log, and what it makes of an empty one.
LEMMA KeptIs ==
  ASSUME Types, Shapes, Control
  PROVE  /\ Log \in Seq(LogEntry) /\ Shaped(Log)
         /\ Kept \in Seq(LogEntry) /\ Len(Kept) \in wal_size .. Len(Log)
         /\ Logged(Kept, Len(Kept)) \subseteq Logged(Log, Len(Log))
         /\ Initialized \in Seq(LogEntry) /\ Len(Initialized) > 0
         /\ Len(Kept) <= Len(Initialized)
         /\ Kept # <<>> => Initialized = Kept
         /\ \A i \in 1 .. Len(Kept) : Initialized[i] = Log[i]
         /\ \A i \in 1 .. Len(Initialized) :
              Initialized[i] # Torn /\ (i = 1 => Initialized[i].type = "WAL_VERSION")
         /\ Logged(Initialized, Len(Initialized)) = Logged(Kept, Len(Kept))
         /\ Unmarked(Log) => Unmarked(Initialized)
<1>1. wal.path \in Path /\ wal.path \in {"wal", "wal.checkpoint"} /\ wal.iteration \in Nat \cup {-1}
  BY DEF Types, Files, WALs, Path
<1>2. Log \in Seq(LogEntry) /\ wal_size \in 0 .. Len(Log)
  BY <1>1 DEF Types, Files, Log
<1>3. Shaped(Log)
  BY <1>1 DEF Shapes, Log, Main, Second
<1>4. Kept = SubSeq(Log, 1, wal_size) \/ Kept = SubSeq(Log, 1, Len(Log))
  <2>1. Kept = SubSeq(Log, 1, wal_size) \/ Kept = Log
    BY DEF Kept, Log
  <2> QED BY <1>2, <2>1
<1>5. PICK k \in wal_size .. Len(Log) : Kept = SubSeq(Log, 1, k)
  BY <1>2, <1>4
<1>6. k \in 0 .. Len(Log)
  BY <1>2
<1>7. /\ Kept \in Seq(LogEntry) /\ Len(Kept) = k
      /\ \A i \in 1 .. k : Kept[i] = Log[i]
      /\ Logged(Kept, k) = Logged(Log, k)
      /\ Unmarked(Log) => Unmarked(Kept)
      /\ Shaped(Kept)
  BY <1>2, <1>3, <1>5, <1>6, SubLog
<1>8. Logged(Kept, k) \subseteq Logged(Log, Len(Log))
  BY <1>2, <1>6, <1>7, MoreIsMore
<1>9. \A i \in 1 .. k : Kept[i] # Torn
  BY <1>7 DEF Control
<1>10. \A i \in 1 .. k : i = 1 => Kept[i].type = "WAL_VERSION"
  <2> SUFFICES ASSUME 1 \in 1 .. k PROVE Kept[1].type = "WAL_VERSION"
    BY Zenon
  <2>1. Kept[1] \in LogEntry /\ Kept[1] # Torn
    BY <1>7, <1>9
  <2>2. Kept[1].type \in {"WAL_VERSION", "TORN"}
    BY <1>7 DEF Shaped
  <2> QED BY <2>1, <2>2, DataEntry
<1>11. CASE Kept # <<>>
  <2>1. Initialized = Kept
    BY <1>11 DEF Initialized
  <2>2. k > 0
    BY <1>7, <1>11, <1>6
  <2> QED BY <1>2, <1>3, <1>5, <1>6, <1>7, <1>8, <1>9, <1>10, <2>1, <2>2
<1>12. CASE Kept = <<>>
  <2>1. PICK i \in Nat : Initialized = <<Version(i)>>
    BY <1>1, <1>12 DEF Initialized, Types, Files
  <2>2. Version(i) \in LogEntry /\ Version(i).type = "WAL_VERSION" /\ Version(i) # Torn
        /\ Version(i) # Flush /\ \A c \in Commit : Version(i) # Data(c)
    BY MadeEntry, EntryFacts
  <2> DEFINE J == Initialized
  <2>3. J \in Seq(LogEntry) /\ Len(J) = 1 /\ J[1] = Version(i) /\ J[0 + 1] = Version(i)
    BY <2>1, <2>2
  <2>4. k = 0
    BY <1>7, <1>12
  <2>5. Logged(J, 0 + 1) = Logged(J, 0)
    <3> HIDE DEF J
    <3> QED BY <2>2, <2>3, OneMore
  <2>6. Logged(J, 1) = {} /\ Logged(Kept, k) = {}
    BY <2>4, <2>5, NothingInNothing
  <2>7. Unmarked(J)
    BY <2>2, <2>3 DEF Unmarked, IsMarker
  <2>8. \A j \in 1 .. Len(J) : j = 1
    BY <2>3
  <2> HIDE DEF J
  <2>9. \A j \in 1 .. Len(J) : J[j] # Torn /\ (j = 1 => J[j].type = "WAL_VERSION")
    BY <2>2, <2>3, <2>8
  <2>10. Len(J) > 0 /\ Len(Kept) <= Len(J) /\ \A j \in 1 .. Len(Kept) : J[j] = Log[j]
    BY <1>7, <2>3, <2>4
  <2> QED BY <1>2, <1>3, <1>5, <1>6, <1>7, <1>8, <1>12, <2>3, <2>6, <2>7, <2>9, <2>10 DEF J
<1> QED BY <1>11, <1>12

\* A write keeps what is safe, and leaves the other files alone.
LEMMA WrittenIs ==
  ASSUME Types, Shapes, Control, NEW entries \in Seq(LogEntry),
         \A i \in 1 .. Len(entries) : entries[i] # Torn,
         WriteEntries(entries), wal_size' = wal_size
  PROVE  /\ Files'
         /\ wal' = NewWAL(wal.path, "INITIALIZED", wal.iteration)
         /\ \A p \in Path \ {wal.path} : content'[p] = content[p] /\ synced'[p] = synced[p]
         /\ Log' = Initialized \o entries
         /\ Shaped(Log') /\ Kept' = Log' /\ \A i \in 1 .. Len(Log') : Log'[i] # Torn
         /\ wal_size <= Len(Log')
         /\ Safe' = Safe /\ Flushed(Log', Safe) = Flushed(Log, Safe)
         /\ Logged(Log', wal_size) = Logged(Log, wal_size)
<1> DEFINE J == Initialized
           k == Len(Kept)
<1>1. wal.path \in Path /\ wal \in WALs
  BY DEF Types, Files, WALs, Path
<1>2. /\ Log \in Seq(LogEntry)
      /\ k \in Nat /\ wal_size <= k
      /\ J \in Seq(LogEntry) /\ Len(J) > 0 /\ k <= Len(J)
      /\ \A i \in 1 .. k : J[i] = Log[i]
      /\ \A i \in 1 .. Len(J) : J[i] # Torn /\ (i = 1 => J[i].type = "WAL_VERSION")
  <2>1. wal_size \in Nat
    BY DEF Types, Files
  <2>2. k \in wal_size .. Len(Log) /\ Kept \in Seq(LogEntry) /\ Log \in Seq(LogEntry)
    BY KeptIs
  <2>3. k \in Nat /\ wal_size <= k
    BY <2>1, <2>2
  <2> QED BY <2>3, KeptIs
<1> HIDE DEF J, k
<1>3. content' = [content EXCEPT ![wal.path] = J \o entries]
  BY DEF WriteEntries, J
<1>4. synced' = [synced EXCEPT ![wal.path] = IF synced[wal.path] <= k THEN synced[wal.path] ELSE k]
  BY DEF WriteEntries, k
<1>5. exists' = exists \cup {wal.path}
  BY DEF WriteEntries
<1>6. wal' = NewWAL(wal.path, "INITIALIZED", wal.iteration)
  BY <1>1 DEF WriteEntries, NewWAL, WALs
<1>7. wal'.path = wal.path /\ wal'.init_state = "INITIALIZED"
  BY <1>6 DEF NewWAL
<1>8. content'[wal.path] = J \o entries
      /\ \A p \in Path \ {wal.path} : content'[p] = content[p]
  BY <1>1, <1>3 DEF Types, Files
<1>9. Log' = J \o entries /\ Kept' = Log'
  BY <1>7, <1>8 DEF Log, Kept
<1>10. J \o entries \in Seq(LogEntry) /\ Len(J \o entries) = Len(J) + Len(entries)
       /\ (\A i \in 1 .. Len(J) : (J \o entries)[i] = J[i])
       /\ (\A i \in 1 .. Len(J) + Len(entries) : i > Len(J) => (J \o entries)[i] = entries[i - Len(J)])
  BY <1>2
<1> DEFINE L == J \o entries
<1> HIDE DEF L
<1>11. L \in Seq(LogEntry) /\ Len(L) = Len(J) + Len(entries) /\ Len(J) \in Nat /\ Len(entries) \in Nat
       /\ (\A i \in 1 .. Len(J) : L[i] = J[i])
       /\ (\A i \in 1 .. Len(L) : i > Len(J) => L[i] = entries[i - Len(J)])
  BY <1>2, <1>10 DEF L
<1>12. \A i \in 1 .. Len(L) : L[i] # Torn
  <2> SUFFICES ASSUME NEW i \in 1 .. Len(L) PROVE L[i] # Torn
    OBVIOUS
  <2>1. CASE i <= Len(J)
    BY <1>2, <1>11, <2>1
  <2>2. CASE i > Len(J)
    <3>1. i - Len(J) \in 1 .. Len(entries)
      BY <1>11, <2>2
    <3> QED BY <1>11, <2>2, <3>1
  <2> QED BY <1>11, <2>1, <2>2
<1>13. Shaped(L)
  <2>1. 1 \in 1 .. Len(J) /\ L[1].type = "WAL_VERSION"
    BY <1>2, <1>11
  <2> QED BY <1>12, <2>1 DEF Shaped
<1>14. synced \in [Path -> Nat] /\ wal_size \in Nat
  BY DEF Types, Files
<1>15. synced'[wal.path] = (IF synced[wal.path] <= k THEN synced[wal.path] ELSE k)
       /\ \A p \in Path \ {wal.path} : synced'[p] = synced[p]
  BY <1>1, <1>4, <1>14
<1>16. Safe' = Safe /\ Safe \in 0 .. wal_size
  BY <1>1, <1>2, <1>7, <1>14, <1>15 DEF Safe
<1>17. \A i \in 1 .. wal_size : L[i] = Log[i]
  <2>1. wal_size \in Nat /\ k \in Nat /\ wal_size <= k /\ k <= Len(J) /\ Len(J) \in Nat
    BY ONLY <1>2, <1>11, <1>14
  <2>2. \A i \in 1 .. wal_size : i \in 1 .. k /\ i \in 1 .. Len(J)
    BY ONLY <2>1
  <2>3. (\A i \in 1 .. k : J[i] = Log[i]) /\ (\A i \in 1 .. Len(J) : L[i] = J[i])
    BY ONLY <1>2, <1>11
  <2> QED BY ONLY <2>2, <2>3
<1>18. Flushed(L, Safe) = Flushed(Log, Safe)
  <2>1. Safe \in Nat /\ \A i \in 1 .. Safe : L[i] = Log[i]
    BY <1>14, <1>16, <1>17
  <2> QED BY <2>1, SamePrefix
<1>19. Logged(L, wal_size) = Logged(Log, wal_size)
  BY <1>14, <1>17, SamePrefix
<1>20. content' \in [Path -> Seq(LogEntry)]
  BY <1>1, <1>3, <1>11 DEF Types, Files, L
<1>21. synced' \in [Path -> Nat]
  BY <1>1, <1>2, <1>4, <1>14
<1>22. \A p \in Path : synced'[p] <= Len(content'[p])
  <2> SUFFICES ASSUME NEW p \in Path PROVE synced'[p] <= Len(content'[p])
    OBVIOUS
  <2>1. CASE p = wal.path
    <3>1. content'[p] = L
      BY <1>8, <2>1 DEF L
    <3>2. synced'[p] <= k
      BY <1>1, <1>2, <1>14, <1>15, <2>1
    <3>3. k <= Len(L)
      BY <1>2, <1>11
    <3> QED BY <1>2, <1>11, <1>21, <3>1, <3>2, <3>3
  <2>2. CASE p # wal.path
    BY <1>8, <1>15, <2>2 DEF Types, Files
  <2> QED BY <2>1, <2>2
<1>23. \A p \in Path \ exists' : content'[p] = <<>>
  BY <1>5, <1>8 DEF Types, Files
<1>24. exists' \subseteq Path
  BY <1>1, <1>5 DEF Types, Files
<1>25. wal_size <= Len(L)
  BY <1>2, <1>11, <1>14
<1>26. Log' = L /\ Log' = Initialized \o entries
  BY <1>9 DEF L, J
<1> QED BY <1>6, <1>8, <1>9, <1>12, <1>13, <1>15, <1>16, <1>18, <1>19, <1>20, <1>21, <1>22,
           <1>23, <1>24, <1>25, <1>26 DEF Files

-----------------------------------------------------------------------------
(* The invariant holds at first, and every step keeps it.                  *)

LEMMA InitRecovery ==
  ASSUME Init
  PROVE  RecoveryInv
<1>1. Main = <<>> /\ Second = <<>> /\ Third = <<>> /\ Log = <<>> /\ Kept = <<>>
  BY DEF Init, Main, Second, Third, Log, Kept, Path, NewWAL
<1>2. Stored = {} /\ Snapshot = {} /\ ToSet(database) = {}
  BY DEF Init, Stored, Snapshot, ToSet, NoCheckpoint
<1>3. Types
  <2>1. content \in [Path -> Seq(LogEntry)] /\ synced \in [Path -> Nat]
        /\ (\A p \in Path : synced[p] = 0 /\ content[p] = <<>>)
    BY DEF Init
  <2>2. wal.path \in Path /\ wal \in WALs
    BY DEF Init, NewWAL, WALs, Path
  <2>3. commit \in Commits
    BY DEF Init, NoCommit, Commits
  <2>4. checkpoint \in Checkpoints
    BY DEF Init, NoCheckpoint, Checkpoints
  <2>5. recovery \in Recoveries
    BY DEF Init, NoRecovery, Recoveries
  <2>6. header \in Headers
    BY DEF Init, Headers
  <2>7. \A p \in Path : synced[p] <= Len(content[p])
    BY <2>1
  <2>8. wal_size <= Len(content[wal.path])
    BY <2>1, <2>2 DEF Init
  <2> QED BY <2>1, <2>2, <2>3, <2>4, <2>5, <2>6, <2>7, <2>8, ConstantsAssumption DEF Init, Types, Files
<1>4. \A s : s = <<>> => Shaped(s) /\ Unmarked(s) /\ Flushed(s, Len(s)) = {} /\ Logged(s, Len(s)) = {}
  BY NothingInNothing DEF Shaped, Unmarked
<1>5. Shapes
  BY <1>1, <1>4 DEF Shapes
<1>6. mode = "up" /\ commit.c = 0 /\ commit.flushed = FALSE /\ wal.path = "wal"
      /\ wal.init_state = "NO_WAL" /\ checkpoint.phase = "none" /\ checkpoint.kind = "required"
      /\ checkpoint.has_wal = FALSE /\ checkpoint.c = 0 /\ wal_lock = "free" /\ recovery = NoRecovery
      /\ acked = {} /\ failed = {} /\ attempts = 0 /\ recovery.stage = "none"
  BY DEF Init, NoCommit, NoCheckpoint, NewWAL, NoRecovery
<1>7. Control /\ Marking /\ Covered /\ Snapped /\ Writing
  BY <1>1, <1>4, <1>6 DEF Control, Marking, Covered, Snapped, Writing
<1>8. Up /\ Down
  BY <1>6, <1>7 DEF Up, Down
<1>9. Untainted
  BY <1>1, <1>2, <1>4, <1>6 DEF Untainted
<1>10. \A p \in Path : Logged(content[p], Len(content[p])) = {}
  BY <1>4 DEF Init
<1>11. Known
  BY <1>2, <1>6, <1>10 DEF Known
<1> QED BY <1>3, <1>5, <1>8, <1>9, <1>11 DEF RecoveryInv

LEMMA CountIterationRecovers ==
  ASSUME RecoveryInv, CountIteration
  PROVE  RecoveryInv'
<1>1. /\ mode = "up" /\ checkpoint.phase = "writing"
      /\ iteration_count' = iteration_count + 1
      /\ checkpoint' = [checkpoint EXCEPT !.phase = "counted"]
      /\ UNCHANGED <<header, exists, content, synced, wal, wal_size, wal_lock, database,
                     attempts, acked, failed, mode, commit, recovery, checkpoints, crashes>>
  BY DEF CountIteration, diskVars, ghostVars
<1>2. Types /\ Shapes /\ Control /\ Marking /\ Covered /\ Snapped /\ Writing /\ Untainted /\ Known
      /\ recovery = NoRecovery
  BY <1>1 DEF RecoveryInv, Up
<1>3. checkpoint'.phase = "counted" /\ checkpoint'.kind = checkpoint.kind
      /\ checkpoint'.root = checkpoint.root /\ checkpoint'.snapshot = checkpoint.snapshot
      /\ checkpoint'.has_wal = checkpoint.has_wal /\ checkpoint'.c = checkpoint.c
      /\ checkpoint' \in Checkpoints
  BY <1>1, <1>2 DEF Types, Files, Checkpoints
<1>4. Main' = Main /\ Second' = Second /\ Third' = Third /\ Log' = Log /\ Kept' = Kept
      /\ Stored' = Stored /\ Snapshot' = Snapshot /\ Safe' = Safe
  BY <1>1, <1>3 DEF Main, Second, Third, Log, Kept, Stored, Snapshot, Safe
<1>5. Types'
  BY <1>1, <1>2, <1>3 DEF Types, Files
<1>6. Shapes'
  BY <1>2, <1>4 DEF Shapes
<1>7. Control'
  BY <1>1, <1>2, <1>3, <1>4 DEF Control
<1>8. Marking'
  BY <1>1, <1>2, <1>3, <1>4 DEF Marking
<1>9. Covered'
  BY <1>1, <1>2, <1>3, <1>4 DEF Covered
<1>10. Snapped'
  BY <1>1, <1>2, <1>3, <1>4 DEF Snapped
<1>11. Writing'
  BY <1>1, <1>2, <1>3, <1>4 DEF Writing
<1>12. Up' /\ Down'
  BY <1>1, <1>2, <1>7, <1>8, <1>9, <1>10, <1>11 DEF Up, Down
<1>13. Untainted'
  BY <1>1, <1>2, <1>3, <1>4 DEF Untainted
<1>14. Known'
  BY <1>1, <1>2, <1>3, <1>4 DEF Known
<1> QED BY <1>5, <1>6, <1>12, <1>13, <1>14 DEF RecoveryInv

LEMMA WriteHeaderRecovers ==
  ASSUME RecoveryInv, WriteHeader
  PROVE  RecoveryInv'
<1>1. /\ mode = "up" /\ checkpoint.phase = "counted"
      /\ header' = [iteration |-> iteration_count, root |-> checkpoint.root,
                    commits |-> checkpoint.snapshot]
      /\ checkpoint' = [checkpoint EXCEPT !.phase = "headed"]
      /\ UNCHANGED <<exists, content, synced, iteration_count, wal, wal_size, wal_lock, database,
                     attempts, acked, failed, mode, commit, recovery, checkpoints, crashes>>
  BY DEF WriteHeader, Checkpointed, memVars, ghostVars
<1>2. Types /\ Shapes /\ Control /\ Marking /\ Covered /\ Snapped /\ Writing /\ Untainted /\ Known
      /\ recovery = NoRecovery
  BY <1>1 DEF RecoveryInv, Up
<1>3. checkpoint'.phase = "headed" /\ checkpoint'.kind = checkpoint.kind
      /\ checkpoint'.root = checkpoint.root /\ checkpoint'.snapshot = checkpoint.snapshot
      /\ checkpoint'.has_wal = checkpoint.has_wal /\ checkpoint'.c = checkpoint.c
      /\ checkpoint' \in Checkpoints
  BY <1>1, <1>2 DEF Types, Files, Checkpoints
<1>4. header'.root = checkpoint.root /\ header'.commits = checkpoint.snapshot /\ header' \in Headers
  BY <1>1, <1>2 DEF Types, Files, Checkpoints, Headers
<1>5. Main' = Main /\ Second' = Second /\ Third' = Third /\ Log' = Log /\ Kept' = Kept
      /\ Stored' = Snapshot /\ Snapshot' = Snapshot /\ Safe' = Safe
  BY <1>1, <1>3, <1>4 DEF Main, Second, Third, Log, Kept, Stored, Snapshot, Safe
<1>6. Types'
  BY <1>1, <1>2, <1>3, <1>4 DEF Types, Files
<1>7. Shapes'
  BY <1>2, <1>5 DEF Shapes
<1>8. Control'
  BY <1>1, <1>2, <1>3, <1>5 DEF Control
<1>9. Marking'
  BY <1>1, <1>2, <1>3, <1>4, <1>5 DEF Marking
<1>10. Log = IF checkpoint.has_wal THEN Second ELSE Main
  BY <1>1, <1>2 DEF Control, Log, Main, Second
<1>11. Covered'
  BY <1>1, <1>2, <1>3, <1>5, <1>10 DEF Covered, Snapped
<1>12. Snapped'
  BY <1>1, <1>2, <1>3, <1>5 DEF Snapped
<1>13. Writing'
  BY <1>1, <1>2, <1>3, <1>5 DEF Writing
<1>14. Up' /\ Down'
  BY <1>1, <1>2, <1>8, <1>9, <1>11, <1>12, <1>13 DEF Up, Down
<1>15. Untainted'
  BY <1>1, <1>2, <1>3, <1>5 DEF Untainted
<1>16. Known'
  BY <1>1, <1>2, <1>3, <1>5 DEF Known
<1> QED BY <1>6, <1>7, <1>14, <1>15, <1>16 DEF RecoveryInv

LEMMA CreateCheckpointRecovers ==
  ASSUME RecoveryInv, NEW kind \in CheckpointKinds, CreateCheckpoint(kind)
  PROVE  RecoveryInv'
<1>1. /\ mode = "up" /\ checkpoint.phase = "none" /\ kind \in {"required", "forced"}
      /\ checkpoint' = [NoCheckpoint EXCEPT !.phase = "starting", !.kind = kind]
      /\ checkpoints' = checkpoints + 1
      /\ UNCHANGED <<header, exists, content, synced, iteration_count, wal, wal_size, wal_lock,
                     database, attempts, acked, failed, mode, commit, recovery, crashes>>
  BY ConstantsAssumption DEF CreateCheckpoint, diskVars, memVars, ghostVars
<1>2. Types /\ Shapes /\ Control /\ Marking /\ Covered /\ Snapped /\ Writing /\ Untainted /\ Known
      /\ recovery = NoRecovery /\ ~checkpoint.has_wal
  BY <1>1 DEF RecoveryInv, Up, Control
<1>3. checkpoint'.phase = "starting" /\ checkpoint'.kind = kind /\ checkpoint'.snapshot = <<>>
      /\ checkpoint'.has_wal = FALSE /\ checkpoint'.c = 0
      /\ checkpoint' \in Checkpoints
  <2>1. checkpoint' = [phase |-> "starting", kind |-> kind, root |-> NoRoot,
                       snapshot |-> <<>>, has_wal |-> FALSE, c |-> 0]
    BY <1>1 DEF NoCheckpoint
  <2>2. <<>> \in Seq(Commit) /\ kind \in {"required", "forced", "skip"}
    BY <1>1
  <2> QED BY <2>1, <2>2 DEF Checkpoints
<1>4. Main' = Main /\ Second' = Second /\ Third' = Third /\ Log' = Log /\ Kept' = Kept
      /\ Stored' = Stored /\ Snapshot' = {} /\ Safe' = Safe
  BY <1>1, <1>3 DEF Main, Second, Third, Log, Kept, Stored, Snapshot, Safe, ToSet
<1>5. Types'
  BY <1>1, <1>2, <1>3 DEF Types, Files
<1>6. Shapes'
  BY <1>2, <1>4 DEF Shapes
<1>7. Control'
  BY <1>1, <1>2, <1>3, <1>4 DEF Control
<1>8. Marking'
  BY <1>1, <1>2, <1>3, <1>4 DEF Marking
<1>9. Covered'
  BY <1>1, <1>2, <1>3, <1>4 DEF Covered
<1>10. Snapped'
  BY <1>1, <1>2, <1>3, <1>4 DEF Snapped
<1>11. Writing'
  BY <1>1, <1>2, <1>3, <1>4 DEF Writing
<1>12. Up' /\ Down'
  BY <1>1, <1>2, <1>7, <1>8, <1>9, <1>10, <1>11 DEF Up, Down
<1>13. Untainted'
  BY <1>1, <1>2, <1>3, <1>4 DEF Untainted
<1>14. Known'
  BY <1>1, <1>2, <1>3, <1>4 DEF Known
<1> QED BY <1>5, <1>6, <1>12, <1>13, <1>14 DEF RecoveryInv

\* Appending to a list of commits.
LEMMA OneMoreCommit ==
  ASSUME NEW d \in Seq(Commit), NEW c \in Commit
  PROVE  Append(d, c) \in Seq(Commit) /\ ToSet(Append(d, c)) = ToSet(d) \cup {c}
<1> DEFINE e == Append(d, c)
<1>1. e \in Seq(Commit) /\ Len(e) = Len(d) + 1 /\ e[Len(d) + 1] = c /\ \A i \in 1 .. Len(d) : e[i] = d[i]
  OBVIOUS
<1> HIDE DEF e
<1>2. DOMAIN e = 1 .. (Len(d) + 1) /\ DOMAIN d = 1 .. Len(d)
  BY <1>1
<1>3. 1 .. (Len(d) + 1) = (1 .. Len(d)) \cup {Len(d) + 1}
  OBVIOUS
<1>4. ToSet(e) = ToSet(d) \cup {c}
  <2>1. ToSet(e) \subseteq ToSet(d) \cup {c}
    BY <1>1, <1>2, <1>3 DEF ToSet
  <2>2. ToSet(d) \subseteq ToSet(e)
    BY <1>1, <1>2, <1>3 DEF ToSet
  <2>3. c \in ToSet(e)
    BY <1>1, <1>2, <1>3 DEF ToSet
  <2> QED BY <2>1, <2>2, <2>3
<1> QED BY <1>1, <1>4 DEF e

LEMMA SkipCommitRecovers ==
  ASSUME RecoveryInv, SkipCommit
  PROVE  RecoveryInv'
<1>1. /\ mode = "up" /\ wal_lock = "free" /\ attempts < MaxCommits /\ checkpoint.phase = "none"
      /\ attempts' = attempts + 1
      /\ database' = Append(database, attempts + 1)
      /\ wal_lock' = "checkpoint"
      /\ checkpoint' = [NoCheckpoint EXCEPT !.phase = "starting", !.kind = "skip", !.c = attempts + 1]
      /\ checkpoints' = checkpoints + 1
      /\ UNCHANGED <<header, exists, content, synced, iteration_count, wal, wal_size,
                     acked, failed, mode, commit, recovery, crashes>>
  BY DEF SkipCommit, diskVars
<1>2. Types /\ Shapes /\ Control /\ Marking /\ Covered /\ Snapped /\ Writing /\ Untainted /\ Known
      /\ recovery = NoRecovery /\ ~checkpoint.has_wal
  BY <1>1 DEF RecoveryInv, Up, Control
<1>3. attempts \in Nat /\ attempts + 1 \in Commit /\ attempts + 1 \in Nat /\ attempts + 1 # 0
      /\ attempts' \in 0 .. MaxCommits /\ attempts + 1 \notin 1 .. attempts
      /\ 1 .. attempts \subseteq 1 .. attempts' /\ attempts + 1 \in 1 .. attempts'
  BY SMTT(40), <1>1, <1>2, ConstantsAssumption DEF Types, Files, Commit
<1>4. checkpoint'.phase = "starting" /\ checkpoint'.kind = "skip" /\ checkpoint'.snapshot = <<>>
      /\ checkpoint'.has_wal = FALSE /\ checkpoint'.c = attempts + 1
      /\ checkpoint' \in Checkpoints
  <2>1. checkpoint' = [phase |-> "starting", kind |-> "skip", root |-> NoRoot,
                       snapshot |-> <<>>, has_wal |-> FALSE, c |-> attempts + 1]
    BY <1>1 DEF NoCheckpoint
  <2>2. <<>> \in Seq(Commit) /\ attempts + 1 \in Nat
    BY <1>3
  <2> QED BY <2>1, <2>2 DEF Checkpoints
<1>5. Main' = Main /\ Second' = Second /\ Third' = Third /\ Log' = Log /\ Kept' = Kept
      /\ Stored' = Stored /\ Snapshot' = {} /\ Safe' = Safe
  BY <1>1, <1>4 DEF Main, Second, Third, Log, Kept, Stored, Snapshot, Safe, ToSet
<1>6. database' \in Seq(Commit) /\ ToSet(database') = ToSet(database) \cup {attempts + 1}
  BY <1>1, <1>2, <1>3, OneMoreCommit DEF Types, Files
<1>7. Types'
  BY <1>1, <1>2, <1>3, <1>4, <1>6 DEF Types, Files
<1>8. Shapes'
  BY <1>2, <1>5 DEF Shapes
<1>9. Control'
  BY <1>1, <1>2, <1>4, <1>5 DEF Control
<1>10. Marking'
  BY <1>1, <1>2, <1>4, <1>5 DEF Marking
<1>11. Covered'
  BY <1>1, <1>2, <1>4, <1>5, <1>6 DEF Covered
<1>12. Snapped'
  BY <1>1, <1>2, <1>4, <1>5, <1>6 DEF Snapped
<1>13. Writing'
  BY <1>1, <1>2 DEF Writing, Control
<1>14. Up' /\ Down'
  BY <1>1, <1>2, <1>9, <1>10, <1>11, <1>12, <1>13 DEF Up, Down
<1>15. Untainted'
  BY <1>1, <1>2, <1>3, <1>4, <1>5, <1>6 DEF Untainted, Known
<1>16. Known'
  BY <1>1, <1>2, <1>3, <1>4, <1>5, <1>6 DEF Known
<1> QED BY <1>7, <1>8, <1>14, <1>15, <1>16 DEF RecoveryInv

LEMMA SyncMarkerRecovers ==
  ASSUME RecoveryInv, SyncMarker
  PROVE  RecoveryInv'
<1>1. /\ mode = "up" /\ checkpoint.phase = "marking"
      /\ synced' = [synced EXCEPT !["wal"] = Len(Main)]
      /\ wal_size' = Len(Main)
      /\ checkpoint' = [checkpoint EXCEPT !.phase = "marked"]
      /\ UNCHANGED <<header, exists, content, iteration_count, wal, wal_lock, database,
                     attempts, acked, failed, mode, commit, recovery, checkpoints, crashes>>
  BY DEF SyncMarker, SyncFile, Main, ghostVars
<1>2. Types /\ Shapes /\ Control /\ Marking /\ Covered /\ Snapped /\ Writing /\ Untainted /\ Known
      /\ recovery = NoRecovery
  BY <1>1 DEF RecoveryInv, Up
<1>3. checkpoint'.phase = "marked" /\ checkpoint'.kind = checkpoint.kind
      /\ checkpoint'.root = checkpoint.root /\ checkpoint'.snapshot = checkpoint.snapshot
      /\ checkpoint'.has_wal = checkpoint.has_wal /\ checkpoint'.c = checkpoint.c
      /\ checkpoint' \in Checkpoints
  BY <1>1, <1>2 DEF Types, Files, Checkpoints
<1>4. wal.path = "wal" /\ checkpoint.has_wal /\ commit.c = 0 /\ wal.init_state # "UNINITIALIZED_REQUIRES_TRUNCATE"
      /\ Log = Main
  BY <1>1, <1>2 DEF Control, Log, Main
<1>5. Main' = Main /\ Second' = Second /\ Third' = Third /\ Log' = Log /\ Kept' = Kept
      /\ Stored' = Stored /\ Snapshot' = Snapshot
  BY <1>1, <1>3, <1>4 DEF Main, Second, Third, Log, Kept, Stored, Snapshot
<1>6. Main \in Seq(LogEntry) /\ Len(Main) \in Nat
  BY <1>2 DEF Types, Files, Path, Main
<1>7. synced' \in [Path -> Nat] /\ synced'["wal"] = Len(Main)
      /\ \A p \in Path \ {"wal"} : synced'[p] = synced[p]
  BY <1>1, <1>2, <1>6 DEF Types, Files, Path
<1>8. Types'
  <2>1. \A p \in Path : synced'[p] <= Len(content'[p])
    BY <1>1, <1>2, <1>6, <1>7 DEF Types, Files, Main
  <2>2. wal_size' <= Len(content'[wal'.path])
    BY <1>1, <1>4, <1>6 DEF Main
  <2> QED BY <1>1, <1>2, <1>3, <1>6, <1>7, <2>1, <2>2 DEF Types, Files
<1>9. Shapes'
  BY <1>2, <1>5 DEF Shapes
<1>10. Control'
  BY <1>1, <1>2, <1>3, <1>4, <1>5 DEF Control
<1>11. Marking'
  BY <1>1, <1>2, <1>3, <1>4, <1>5, <1>7 DEF Marking
<1>12. Flushed(Main, Safe) \subseteq Flushed(Main, Len(Main) - 1)
  <2>1. Safe \in Nat /\ Safe <= Len(Main) - 1 /\ Len(Main) - 1 \in Nat
    BY SMTT(40), <1>1, <1>2, <1>4, <1>6 DEF Safe, Marking, Types, Files, Path
  <2> QED BY <2>1, MoreIsMore
<1>13. Covered'
  BY <1>1, <1>2, <1>3, <1>4, <1>5, <1>12 DEF Covered
<1>14. Snapped'
  BY <1>1, <1>2, <1>3, <1>4, <1>5 DEF Snapped
<1>15. Writing'
  BY <1>1, <1>4 DEF Writing
<1>16. Up' /\ Down'
  BY <1>1, <1>2, <1>10, <1>11, <1>13, <1>14, <1>15 DEF Up, Down
<1>17. Untainted'
  BY <1>1, <1>2, <1>3, <1>4, <1>5 DEF Untainted
<1>18. Known'
  BY <1>1, <1>2, <1>3, <1>5 DEF Known
<1> QED BY <1>8, <1>9, <1>16, <1>17, <1>18 DEF RecoveryInv

\* Removing and moving a file.
LEMMA RemovedFile ==
  ASSUME Files, NEW p \in Path, RemoveFile(p)
  PROVE  /\ Files' /\ content'[p] = <<>> /\ synced'[p] = 0
         /\ \A q \in Path \ {p} : content'[q] = content[q] /\ synced'[q] = synced[q]
<1>1. exists' \subseteq Path /\ content' \in [Path -> Seq(LogEntry)] /\ synced' \in [Path -> Nat]
  BY DEF RemoveFile, Files
<1>2. content'[p] = <<>> /\ synced'[p] = 0
      /\ \A q \in Path \ {p} : content'[q] = content[q] /\ synced'[q] = synced[q]
  BY DEF RemoveFile, Files
<1>3. \A q \in Path : synced'[q] <= Len(content'[q])
  <2> SUFFICES ASSUME NEW q \in Path PROVE synced'[q] <= Len(content'[q])
    OBVIOUS
  <2>1. CASE q = p
    BY <1>2, <2>1
  <2>2. CASE q # p
    BY <1>2, <2>2 DEF Files
  <2> QED BY <2>1, <2>2
<1>4. \A q \in Path \ exists' : content'[q] = <<>>
  BY <1>2 DEF RemoveFile, Files
<1> QED BY <1>1, <1>2, <1>3, <1>4 DEF Files

LEMMA MovedFile ==
  ASSUME Files, NEW p \in Path, NEW q \in Path \ {p}, MoveFile(p, q)
  PROVE  /\ Files' /\ content'[p] = <<>> /\ synced'[p] = 0
         /\ content'[q] = content[p] /\ synced'[q] = synced[p]
         /\ \A r \in Path \ {p, q} : content'[r] = content[r] /\ synced'[r] = synced[r]
<1>1. exists' \subseteq Path /\ content' \in [Path -> Seq(LogEntry)] /\ synced' \in [Path -> Nat]
  <2>1. content' = [r \in Path |-> IF r = p THEN <<>> ELSE IF r = q THEN content[p] ELSE content[r]]
    BY DEF MoveFile, Files
  <2>2. synced' = [r \in Path |-> IF r = p THEN 0 ELSE IF r = q THEN synced[p] ELSE synced[r]]
    BY DEF MoveFile, Files
  <2>3. \A r \in Path : content[r] \in Seq(LogEntry) /\ synced[r] \in Nat
    BY DEF Files
  <2>4. <<>> \in Seq(LogEntry)
    OBVIOUS
  <2>5. content' \in [Path -> Seq(LogEntry)]
    BY <2>1, <2>3, <2>4, Zenon
  <2>6. synced' \in [Path -> Nat]
    BY <2>2, <2>3
  <2>7. exists' \subseteq Path
    BY DEF MoveFile, Files
  <2> QED BY <2>5, <2>6, <2>7
<1>2. content'[p] = <<>> /\ synced'[p] = 0
      /\ content'[q] = content[p] /\ synced'[q] = synced[p]
      /\ \A r \in Path \ {p, q} : content'[r] = content[r] /\ synced'[r] = synced[r]
  BY DEF MoveFile, Files
<1>3. \A r \in Path : synced'[r] <= Len(content'[r])
  <2> SUFFICES ASSUME NEW r \in Path PROVE synced'[r] <= Len(content'[r])
    OBVIOUS
  <2>1. CASE r = p
    BY <1>2, <2>1
  <2>2. CASE r = q
    BY <1>2, <2>2 DEF Files
  <2>3. CASE r \notin {p, q}
    BY <1>2, <2>3 DEF Files
  <2> QED BY <2>1, <2>2, <2>3
<1>4. \A r \in Path \ exists' : content'[r] = <<>>
  BY <1>2 DEF MoveFile, Files
<1> QED BY <1>1, <1>2, <1>3, <1>4 DEF Files

\* An empty log has nothing.
LEMMA EmptyLog ==
  ASSUME NEW s, s = <<>>
  PROVE  /\ Len(s) = 0 /\ Shaped(s) /\ Unmarked(s)
         /\ Flushed(s, Len(s)) = {} /\ Logged(s, Len(s)) = {}
         /\ Flushed(s, 0) = {} /\ Logged(s, 0) = {}
         /\ \A i \in 1 .. Len(s) : s[i] # Torn
<1>1. Len(s) = 0
  OBVIOUS
<1> QED BY <1>1, NothingInNothing DEF Shaped, Unmarked

\* A log without a marker is not marked anywhere.
LEMMA NotMarked ==
  ASSUME NEW s, Unmarked(s)
  PROVE  \A m \in 2 .. Len(s) : ~MarkedAt(s, m)
<1>1. \A m \in 2 .. Len(s) : MarkedAt(s, m) => m \in 1 .. Len(s) /\ IsMarker(s, m)
  BY DEF MarkedAt
<1> QED BY <1>1 DEF Unmarked

LEMMA SwitchWALRecovers ==
  ASSUME RecoveryInv, SwitchWAL
  PROVE  RecoveryInv'
<1>1. /\ mode = "up" /\ checkpoint.phase = "marked"
      /\ RemoveFile("wal.checkpoint")
      /\ wal' = NewWAL("wal.checkpoint", "NO_WAL", iteration_count + 1)
      /\ wal_size' = 0
      /\ wal_lock' = IF checkpoint.kind = "skip" THEN "checkpoint" ELSE "free"
      /\ checkpoint' = [checkpoint EXCEPT !.phase = "writing"]
      /\ UNCHANGED <<header, iteration_count, database,
                     attempts, acked, failed, mode, commit, recovery, checkpoints, crashes>>
  BY DEF SwitchWAL, ReleaseWalLock, HoldsWalLock, NewWALSize, ghostVars
<1>2. Types /\ Files /\ Shapes /\ Control /\ Marking /\ Covered /\ Snapped /\ Writing /\ Untainted /\ Known
      /\ recovery = NoRecovery
  BY <1>1 DEF RecoveryInv, Up, Types
<1>3. checkpoint'.phase = "writing" /\ checkpoint'.kind = checkpoint.kind
      /\ checkpoint'.root = checkpoint.root /\ checkpoint'.snapshot = checkpoint.snapshot
      /\ checkpoint'.has_wal = checkpoint.has_wal /\ checkpoint'.c = checkpoint.c
      /\ checkpoint' \in Checkpoints
  BY <1>1, <1>2 DEF Types, Checkpoints
<1>4. wal' \in WALs /\ wal'.path = "wal.checkpoint" /\ wal'.init_state = "NO_WAL"
  <2>1. iteration_count + 1 \in Nat
    BY <1>2 DEF Types
  <2> QED BY <1>1, <2>1 DEF NewWAL, WALs
<1>5. Files' /\ content'["wal.checkpoint"] = <<>> /\ synced'["wal.checkpoint"] = 0
      /\ \A q \in Path \ {"wal.checkpoint"} : content'[q] = content[q] /\ synced'[q] = synced[q]
  BY <1>1, <1>2, RemovedFile DEF Path
<1>6. Main' = Main /\ Second' = <<>> /\ Third' = Third /\ Log' = Second' /\ Kept' = Second'
      /\ Stored' = Stored /\ Snapshot' = Snapshot /\ Safe' = 0 /\ synced'["wal"] = synced["wal"]
  BY <1>1, <1>3, <1>4, <1>5 DEF Main, Second, Third, Log, Kept, Stored, Snapshot, Safe, Path
<1>7. checkpoint.has_wal /\ commit.c = 0 /\ ~commit.flushed
  BY <1>1, <1>2 DEF Control
<1>8. Types'
  <2>1. wal_size' <= Len(content'[wal'.path])
    BY <1>1, <1>4, <1>5
  <2> QED BY <1>1, <1>2, <1>3, <1>4, <1>5, <2>1 DEF Types
<1>9. Len(Second') = 0 /\ Shaped(Second') /\ Unmarked(Second')
      /\ Flushed(Second', Len(Second')) = {} /\ Logged(Second', Len(Second')) = {}
      /\ Flushed(Second', 0) = {} /\ \A i \in 1 .. Len(Second') : Second'[i] # Torn
  BY <1>6, EmptyLog
<1>10. Shapes'
  BY <1>2, <1>6, <1>9 DEF Shapes
<1>11. Control'
  BY <1>1, <1>2, <1>3, <1>4, <1>6, <1>7, <1>9 DEF Control
<1>12. Marking'
  BY <1>1, <1>2, <1>3, <1>6 DEF Marking
<1>13. Covered'
  BY <1>1, <1>2, <1>3, <1>6, <1>7, <1>9 DEF Covered
<1>14. Snapped'
  BY <1>1, <1>2, <1>3, <1>6 DEF Snapped
<1>15. Writing'
  BY <1>1, <1>7 DEF Writing
<1>16. Up' /\ Down'
  BY <1>1, <1>2, <1>11, <1>12, <1>13, <1>14, <1>15 DEF Up, Down
<1>17. Untainted'
  BY <1>1, <1>2, <1>3, <1>6, <1>7, <1>9 DEF Untainted, NoRecovery
<1>18. Known'
  <2>1. \A p \in Path : Logged(content'[p], Len(content'[p])) \subseteq 1 .. attempts
    BY <1>2, <1>5, <1>9 DEF Known, Second
  <2> QED BY <1>1, <1>2, <1>6, <2>1 DEF Known
<1> QED BY <1>8, <1>10, <1>16, <1>17, <1>18 DEF RecoveryInv

LEMMA WALFinishCheckpointRecovers ==
  ASSUME RecoveryInv, WALFinishCheckpoint
  PROVE  RecoveryInv'
<1>1. /\ mode = "up" /\ checkpoint.phase = "headed"
      /\ wal_lock' = IF checkpoint.kind = "skip" THEN "free" ELSE wal_lock
      /\ acked' = acked \cup ({checkpoint.c} \ {0})
      /\ checkpoint' = NoCheckpoint
      /\ UNCHANGED <<header, iteration_count, database,
                     attempts, failed, mode, commit, recovery, checkpoints, crashes>>
  BY DEF WALFinishCheckpoint, HoldsWalLock
<1>2. Types /\ Files /\ Shapes /\ Control /\ Marking /\ Covered /\ Snapped /\ Writing /\ Untainted /\ Known
      /\ recovery = NoRecovery
  BY <1>1 DEF RecoveryInv, Up, Types
<1>3. checkpoint'.phase = "none" /\ checkpoint'.kind = "required" /\ checkpoint'.snapshot = <<>>
      /\ checkpoint'.has_wal = FALSE /\ checkpoint'.c = 0 /\ checkpoint' \in Checkpoints
  <2>1. <<>> \in Seq(Commit)
    OBVIOUS
  <2> QED BY <1>1, <2>1 DEF NoCheckpoint, Checkpoints
<1>4. Stored' = Stored /\ Snapshot' = {}
  BY <1>1, <1>3 DEF Stored, Snapshot, ToSet
<1>5. ({checkpoint.c} \ {0}) \subseteq Stored /\ ({checkpoint.c} \ {0}) \subseteq ToSet(database)
      /\ Stored = Snapshot
  BY <1>1, <1>2 DEF Snapped, Marking, Stored, Snapshot
<1>6. acked' \subseteq Commit /\ acked' \subseteq ToSet(database) /\ acked' \cap failed = {}
      /\ acked \subseteq acked' /\ acked' \subseteq acked \cup Stored /\ acked' \subseteq 1 .. attempts
  <2>1. Stored \subseteq Commit
    BY <1>2 DEF Types, Headers, Stored, ToSet
  <2> QED BY <1>1, <1>2, <1>5, <2>1 DEF Covered, Types, Untainted, Known
<1>7. SUFFICES /\ Files' /\ wal' \in WALs /\ wal_size' \in Nat /\ wal_size' <= Len(Log')
               /\ Shapes' /\ Control' /\ Unmarked(Main')
               /\ acked' \subseteq Stored \cup Flushed(Main', Safe')
               /\ Writing'
               /\ Flushed(Main', Len(Main')) \cap failed = {}
               /\ Flushed(Second', Len(Second')) \cap failed = {}
               /\ Logged(Kept', Len(Kept')) \cap failed = {}
               /\ Flushed(Second', Len(Second')) \subseteq acked'
               /\ \A p \in Path : Logged(content'[p], Len(content'[p])) \subseteq 1 .. attempts
  <2>1. wal_lock' \in {"free", "commit", "checkpoint"}
    BY <1>1, <1>2 DEF Types
  <2>2. Types'
    BY <1>1, <1>2, <1>3, <1>6, <1>7, <2>1 DEF Types, Log
  <2>3. Marking'
    BY <1>3, <1>7 DEF Marking
  <2>4. Covered'
    BY <1>1, <1>3, <1>4, <1>6, <1>7 DEF Covered
  <2>5. Snapped'
    BY <1>3 DEF Snapped
  <2>6. Up' /\ Down'
    BY <1>1, <1>2, <1>7, <2>3, <2>4, <2>5 DEF Up, Down
  <2>7. \A m \in 2 .. Len(Main') : ~MarkedAt(Main', m)
    BY <1>7, NotMarked
  <2>8. Untainted'
    BY <1>1, <1>2, <1>3, <1>4, <1>6, <1>7, <2>7 DEF Untainted, NoRecovery
  <2>9. Known'
    BY <1>1, <1>2, <1>3, <1>4, <1>6, <1>7 DEF Known
  <2> QED BY <1>7, <2>2, <2>6, <2>8, <2>9 DEF RecoveryInv
<1>8. CASE ~checkpoint.has_wal
  <2>1. UNCHANGED <<exists, content, synced, wal, wal_size>>
    BY <1>8 DEF WALFinishCheckpoint
  <2>2. Main' = Main /\ Second' = Second /\ Third' = Third /\ Log' = Log /\ Kept' = Kept /\ Safe' = Safe
    BY <2>1 DEF Main, Second, Third, Log, Kept, Safe
  <2>3. Files' /\ wal' \in WALs /\ wal_size' \in Nat /\ wal_size' <= Len(Log')
    BY <1>2, <2>1 DEF Types, Files, Log
  <2>4. Shapes'
    BY <1>2, <2>2 DEF Shapes
  <2>5. Control'
    BY <1>1, <1>2, <1>3, <1>8, <2>1, <2>2 DEF Control
  <2>6. Unmarked(Main')
    BY <1>2, <1>8, <2>2 DEF Marking
  <2>7. acked' \subseteq Stored \cup Flushed(Main', Safe')
    BY <1>2, <1>6, <1>8, <2>2 DEF Covered
  <2>8. commit.c # 0 => commit.c \notin acked'
    BY <1>2, <1>6 DEF Writing
  <2>9. Writing'
    BY <1>1, <1>2, <1>4, <2>1, <2>2, <2>8 DEF Writing
  <2>10. \A p \in Path : Logged(content'[p], Len(content'[p])) \subseteq 1 .. attempts
    BY <1>2, <2>1 DEF Known
  <2> QED BY <1>1, <1>2, <1>6, <1>8, <2>2, <2>3, <2>4, <2>5, <2>6, <2>7, <2>9, <2>10 DEF Untainted
<1>9. CASE checkpoint.has_wal /\ wal.init_state = "INITIALIZED"
  <2>1. MoveFile("wal.checkpoint", "wal") /\ wal' = NewWAL("wal", "INITIALIZED", -1)
        /\ wal_size' = Len(Second) /\ WalLockFree
    BY <1>9 DEF WALFinishCheckpoint, KeepsCheckpointWAL, Second
  <2>2. wal.path = "wal.checkpoint" /\ commit.c = 0 /\ ~commit.flushed /\ wal_lock' = "free"
        /\ Log = Second /\ Kept = Second
    BY <1>1, <1>2, <1>9, <2>1 DEF Control, WalLockFree, HoldsWalLock, Log, Kept, Second
  <2>3. Files' /\ content'["wal.checkpoint"] = <<>>
        /\ content'["wal"] = Second /\ synced'["wal"] = synced["wal.checkpoint"]
        /\ content'["wal.recovery"] = Third
    BY <1>2, <2>1, MovedFile DEF Path, Second, Third
  <2>4. wal' \in WALs /\ wal'.path = "wal" /\ wal'.init_state = "INITIALIZED"
    BY <2>1 DEF NewWAL, WALs
  <2>5. Main' = Second /\ Second' = <<>> /\ Third' = Third /\ Log' = Second /\ Kept' = Second
    BY <2>3, <2>4 DEF Main, Second, Third, Log, Kept
  <2>6. Second \in Seq(LogEntry) /\ Len(Second) \in Nat /\ synced["wal.checkpoint"] \in 0 .. Len(Second)
    BY <1>2 DEF Files, Path, Second
  <2>7. Safe' = synced["wal.checkpoint"] /\ Safe \in Nat /\ Safe <= Safe' /\ Safe' \in Nat
    BY <1>2, <2>1, <2>2, <2>3, <2>4, <2>6 DEF Safe, Types
  <2>8. Flushed(Second, Safe) \subseteq Flushed(Main', Safe')
    BY <2>5, <2>7, MoreIsMore
  <2>9. Len(Second') = 0 /\ Shaped(Second') /\ Unmarked(Second')
      /\ Flushed(Second', Len(Second')) = {} /\ Logged(Second', Len(Second')) = {}
    BY <2>5, EmptyLog
  <2>10. Shapes' /\ Unmarked(Main')
    BY <1>2, <2>5, <2>9 DEF Shapes
  <2>11. Control'
    BY <1>1, <1>2, <1>3, <2>2, <2>4, <2>5 DEF Control
  <2>12. acked' \subseteq Stored \cup Flushed(Main', Safe')
    BY <1>1, <1>2, <1>6, <1>9, <2>8 DEF Covered
  <2>13. Writing'
    BY <1>1, <2>2 DEF Writing
  <2>14. \A p \in Path : Logged(content'[p], Len(content'[p])) \subseteq 1 .. attempts
    BY <1>2, <2>3, <2>5, <2>9 DEF Known, Path, Main, Second, Third
  <2> QED BY <1>1, <1>2, <2>1, <2>2, <2>3, <2>4, <2>5, <2>6, <2>9, <2>10, <2>11, <2>12, <2>13, <2>14
          DEF Untainted
<1>10. CASE checkpoint.has_wal /\ wal.init_state # "INITIALIZED"
  <2>1. RemoveFile("wal") /\ wal' = NewWAL("wal", "NO_WAL", -1) /\ wal_size' = 0 /\ WalLockFree
    BY <1>10 DEF WALFinishCheckpoint, KeepsCheckpointWAL
  <2>2. wal.path = "wal.checkpoint" /\ commit.c = 0 /\ ~commit.flushed /\ wal_lock' = "free"
        /\ Log = Second /\ Second = <<>>
    BY <1>1, <1>2, <1>10, <2>1 DEF Control, WalLockFree, HoldsWalLock, Log, Second
  <2>3. Files' /\ content'["wal"] = <<>> /\ synced'["wal"] = 0
        /\ content'["wal.checkpoint"] = Second /\ content'["wal.recovery"] = Third
    BY <1>2, <2>1, RemovedFile DEF Path, Second, Third
  <2>4. wal' \in WALs /\ wal'.path = "wal" /\ wal'.init_state = "NO_WAL"
    BY <2>1 DEF NewWAL, WALs
  <2>5. Main' = <<>> /\ Second' = <<>> /\ Third' = Third /\ Log' = <<>> /\ Kept' = <<>> /\ Safe' = 0
    BY <2>1, <2>2, <2>3, <2>4 DEF Main, Second, Third, Log, Kept, Safe
  <2>6. \A s : s = <<>> =>
           Len(s) = 0 /\ Shaped(s) /\ Unmarked(s) /\ Flushed(s, Len(s)) = {} /\ Logged(s, Len(s)) = {}
    BY EmptyLog
  <2>7. Safe = 0
    <3>1. wal_size = 0
      BY <1>2, <2>2 DEF Types, Second
    <3> QED BY <1>2, <2>2, <3>1 DEF Safe, Files, Path
  <2>8. Flushed(Second, Safe) = {}
    BY <2>7, NothingInNothing
  <2>9. Shapes' /\ Unmarked(Main')
    BY <1>2, <2>5, <2>6 DEF Shapes
  <2>10. Control'
    BY <1>1, <1>2, <1>3, <2>2, <2>4, <2>5 DEF Control
  <2>11. acked' \subseteq Stored \cup Flushed(Main', Safe')
    BY <1>1, <1>2, <1>6, <1>10, <2>8 DEF Covered
  <2>12. Writing'
    BY <1>1, <2>2 DEF Writing
  <2>13. \A p \in Path : Logged(content'[p], Len(content'[p])) \subseteq 1 .. attempts
    BY <1>2, <2>3, <2>5, <2>6 DEF Known, Path, Main, Second, Third
  <2> QED BY <1>1, <1>2, <2>1, <2>3, <2>4, <2>5, <2>6, <2>9, <2>10, <2>11, <2>12, <2>13
<1> QED BY <1>8, <1>9, <1>10

LEMMA WALStartCheckpointRecovers ==
  ASSUME RecoveryInv, NEW r \in Root, WALStartCheckpoint(r)
  PROVE  RecoveryInv'
<1>1. /\ mode = "up" /\ checkpoint.phase = "starting" /\ r # header.root
      /\ checkpoint' = [checkpoint EXCEPT
                          !.phase = IF wal_size = 0 THEN "writing" ELSE "marking",
                          !.root = r, !.snapshot = database, !.has_wal = wal_size > 0]
      /\ UNCHANGED <<header, iteration_count, wal_size, database,
                     attempts, acked, failed, mode, commit, recovery, checkpoints, crashes>>
  BY DEF WALStartCheckpoint, ghostVars
<1>2. Types /\ Files /\ Shapes /\ Control /\ Marking /\ Covered /\ Snapped /\ Writing /\ Untainted /\ Known
      /\ recovery = NoRecovery
  BY <1>1 DEF RecoveryInv, Up, Types
<1>3. ~checkpoint.has_wal /\ commit.c = 0 /\ ~commit.flushed /\ wal.path = "wal" /\ Log = Main
      /\ Unmarked(Main)
  BY <1>1, <1>2 DEF WALStartCheckpoint, WalLockFree, HoldsWalLock, Control, Marking, Log, Main
<1>4. checkpoint'.kind = checkpoint.kind /\ checkpoint'.c = checkpoint.c
      /\ checkpoint'.phase = (IF wal_size = 0 THEN "writing" ELSE "marking")
      /\ checkpoint'.root = r /\ checkpoint'.snapshot = database
      /\ checkpoint'.has_wal = (wal_size > 0)
      /\ checkpoint' \in Checkpoints
  <2>1. checkpoint \in Checkpoints /\ database \in Seq(Commit)
    BY <1>2 DEF Types
  <2>2. CASE wal_size = 0
    <3>1. (wal_size > 0) = FALSE
      BY <2>2, SMT
    <3>2. checkpoint' = [checkpoint EXCEPT !.phase = "writing", !.root = r,
                                           !.snapshot = database, !.has_wal = FALSE]
      BY <1>1, <2>2, <3>1, Zenon
    <3>3. checkpoint' = [phase |-> "writing", kind |-> checkpoint.kind, root |-> r,
                         snapshot |-> database, has_wal |-> FALSE, c |-> checkpoint.c]
      BY <2>1, <3>2 DEF Checkpoints
    <3>4. /\ checkpoint'.kind = checkpoint.kind /\ checkpoint'.c = checkpoint.c
          /\ checkpoint'.phase = "writing" /\ checkpoint'.root = r
          /\ checkpoint'.snapshot = database /\ checkpoint'.has_wal = FALSE
          /\ checkpoint' \in Checkpoints
      <4>1. checkpoint.kind \in {"required", "forced", "skip"} /\ checkpoint.c \in Nat
        BY <2>1 DEF Checkpoints
      <4> QED BY <2>1, <3>3, <4>1 DEF Checkpoints
    <3> QED BY <2>2, <3>1, <3>4, Zenon
  <2>3. CASE wal_size # 0
    <3>1. (wal_size > 0) = TRUE
      BY <1>2, <2>3, SMT DEF Types
    <3>2. checkpoint' = [checkpoint EXCEPT !.phase = "marking", !.root = r,
                                           !.snapshot = database, !.has_wal = TRUE]
      BY <1>1, <2>3, <3>1, Zenon
    <3>3. checkpoint' = [phase |-> "marking", kind |-> checkpoint.kind, root |-> r,
                         snapshot |-> database, has_wal |-> TRUE, c |-> checkpoint.c]
      BY <2>1, <3>2 DEF Checkpoints
    <3>4. /\ checkpoint'.kind = checkpoint.kind /\ checkpoint'.c = checkpoint.c
          /\ checkpoint'.phase = "marking" /\ checkpoint'.root = r
          /\ checkpoint'.snapshot = database /\ checkpoint'.has_wal = TRUE
          /\ checkpoint' \in Checkpoints
      <4>1. checkpoint.kind \in {"required", "forced", "skip"} /\ checkpoint.c \in Nat
        BY <2>1 DEF Checkpoints
      <4> QED BY <2>1, <3>3, <4>1 DEF Checkpoints
    <3> QED BY <2>3, <3>1, <3>4, Zenon
  <2> QED BY <2>2, <2>3
<1>5. Stored' = Stored /\ Snapshot' = ToSet(database) /\ ToSet(database') = ToSet(database)
  BY <1>1, <1>4 DEF Stored, Snapshot
<1>6. CASE wal_size = 0
  <2>1. wal_lock' = (IF checkpoint.kind = "skip" THEN "checkpoint" ELSE "free")
        /\ UNCHANGED <<exists, content, synced, wal>>
    BY <1>6 DEF WALStartCheckpoint, ReleaseWalLock, HoldsWalLock
  <2>2. checkpoint'.phase = "writing" /\ checkpoint'.has_wal = FALSE
    <3>1. (wal_size > 0) = FALSE
      BY <1>6, SMT
    <3> QED BY <1>4, <1>6, <3>1, Zenon
  <2>3. Main' = Main /\ Second' = Second /\ Third' = Third /\ Log' = Log /\ Kept' = Kept /\ Safe' = Safe
    BY <1>1, <2>1 DEF Main, Second, Third, Log, Kept, Safe
  <2>4. Types'
    BY <1>1, <1>2, <1>4, <2>1 DEF Types, Files
  <2>5. Shapes'
    BY <1>2, <2>3 DEF Shapes
  <2>6. Control'
    BY <1>1, <1>2, <1>3, <1>4, <2>1, <2>2, <2>3 DEF Control
  <2>7. Marking'
    BY <1>1, <1>2, <1>3, <2>2, <2>3 DEF Marking
  <2>8. Covered'
    BY <1>1, <1>2, <1>3, <1>5, <2>2, <2>3 DEF Covered
  <2>9. Snapped'
    BY <1>1, <1>2, <1>4, <1>5, <2>2, <2>3 DEF Snapped, Covered
  <2>10. Writing'
    BY <1>1, <1>3 DEF Writing
  <2>11. Up' /\ Down'
    BY <1>1, <1>2, <2>6, <2>7, <2>8, <2>9, <2>10 DEF Up, Down
  <2>12. Untainted'
    BY <1>1, <1>2, <1>3, <1>5, <2>2, <2>3 DEF Untainted, NoRecovery
  <2>13. Known'
    BY <1>1, <1>2, <1>5, <2>1 DEF Known
  <2> QED BY <2>4, <2>5, <2>11, <2>12, <2>13 DEF RecoveryInv
<1>7. CASE wal_size # 0
  <2> DEFINE entries == <<Marker(r), Flush>>
             J == Initialized
             k == Len(J)
  <2>1. wal_lock' = "checkpoint" /\ WriteEntries(entries)
    BY <1>7 DEF WALStartCheckpoint
  <2>2. checkpoint'.phase = "marking" /\ checkpoint'.has_wal = TRUE
    <3>1. wal_size > 0
      BY <1>2, <1>7 DEF Types
    <3> QED BY <1>4, <1>7, <3>1, Zenon
  <2>3. Marker(r) \in LogEntry /\ Flush \in LogEntry /\ Marker(r) # Torn /\ Flush # Torn
        /\ Marker(r).type = "CHECKPOINT" /\ Flush.type = "WAL_FLUSH" /\ Marker(r) # Flush
        /\ \A c \in Commit : Marker(r) # Data(c)
    BY MadeEntry, EntryFacts
  <2>4. entries \in Seq(LogEntry) /\ Len(entries) = 2 /\ entries[1] = Marker(r) /\ entries[2] = Flush
    BY <2>3
  <2>5. \A i \in 1 .. Len(entries) : entries[i] # Torn
    BY <2>3, <2>4
  <2> HIDE DEF entries
  <2>6. /\ Files'
        /\ wal' = NewWAL(wal.path, "INITIALIZED", wal.iteration)
        /\ \A p \in Path \ {wal.path} : content'[p] = content[p] /\ synced'[p] = synced[p]
        /\ Log' = J \o entries
        /\ Shaped(Log') /\ Kept' = Log' /\ \A i \in 1 .. Len(Log') : Log'[i] # Torn
        /\ wal_size <= Len(Log')
        /\ Safe' = Safe /\ Flushed(Log', Safe) = Flushed(Log, Safe)
    BY <1>1, <1>2, <2>1, <2>4, <2>5, WrittenIs
  <2>7. /\ Kept \in Seq(LogEntry) /\ Len(Kept) \in wal_size .. Len(Log)
        /\ J \in Seq(LogEntry) /\ k > 0
        /\ Kept # <<>> => J = Kept
        /\ Logged(J, k) = Logged(Kept, Len(Kept))
        /\ Logged(Kept, Len(Kept)) \subseteq Logged(Log, Len(Log))
        /\ Unmarked(Log) => Unmarked(J)
    BY <1>2, KeptIs
  <2>8. wal_size \in Nat /\ k \in Nat /\ wal_size <= k
    BY <1>2, <1>7, <2>7 DEF Types
  <2> HIDE DEF J, k
  <2>9. wal'.path = "wal" /\ wal'.init_state = "INITIALIZED" /\ wal' \in WALs
    <3>1. wal.iteration \in Nat \cup {-1}
      BY <1>2 DEF Types, WALs
    <3> QED BY <1>3, <2>6, <3>1 DEF NewWAL, WALs
  <2>10. Main' = J \o entries /\ Main' = Log' /\ Second' = Second /\ Third' = Third /\ Main' = Kept'
    BY <1>3, <2>6, <2>9 DEF Main, Second, Third, Log, Path
  <2>11. J \o entries \in Seq(LogEntry) /\ Len(J \o entries) = k + 2
         /\ (\A i \in 1 .. k : (J \o entries)[i] = J[i])
         /\ (J \o entries)[k + 1] = Marker(r) /\ (J \o entries)[(k + 1) + 1] = Flush
    <3> DEFINE u == J \o entries
    <3>1. u = J \o entries
      OBVIOUS
    <3> HIDE DEF u
    <3>2. /\ u \in Seq(LogEntry) /\ Len(u) = k + Len(entries)
          /\ \A i \in 1 .. k : u[i] = J[i]
          /\ \A i \in 1 .. k + Len(entries) : i > k => u[i] = entries[i - k]
      <4>1. J \in Seq(LogEntry) /\ entries \in Seq(LogEntry)
        BY <2>4, <2>7
      <4> QED BY <3>1, <4>1 DEF k
    <3>3. u[k + 1] = Marker(r) /\ u[k + 2] = Flush /\ k + 2 = (k + 1) + 1 /\ Len(u) = k + 2
      BY <2>4, <2>8, <3>2
    <3> QED BY <3>1, <3>2, <3>3
  <2> DEFINE M == J \o entries
  <2>12. M = Main' /\ M \in Seq(LogEntry) /\ Len(M) = k + 2 /\ (\A i \in 1 .. k : M[i] = J[i])
         /\ M[k + 1] = Marker(r) /\ M[(k + 1) + 1] = Flush
    BY <2>10, <2>11
  <2> HIDE DEF M
  <2>13. Logged(M, k) = Logged(J, k) /\ Flushed(M, k) = Flushed(J, k)
    BY <2>8, <2>12, SamePrefix
  <2>14. Logged(M, k + 1) = Logged(M, k)
    BY <2>3, <2>8, <2>12, OneMore
  <2>15. Flushed(M, k + 2) = Logged(M, k) /\ Logged(M, k + 2) = Logged(M, k)
    <3>1. k + 1 \in Nat /\ (k + 1) + 1 = k + 2
      BY <2>8
    <3>2. Flushed(M, (k + 1) + 1) = Logged(M, k + 1) /\ Logged(M, (k + 1) + 1) = Logged(M, k + 1)
      BY <2>12, <3>1, OneMore
    <3> QED BY <2>14, <3>1, <3>2
  <2>16. MarkedAt(M, k + 1)
    <3>1. \A i \in 1 .. k : ~IsMarker(M, i)
      BY <1>3, <2>7, <2>12 DEF Unmarked, IsMarker, k
    <3>2. IsMarker(M, k + 1) /\ ~IsMarker(M, k + 2)
      <4>1. (k + 1) + 1 = k + 2
        BY <2>8
      <4> QED BY <2>3, <2>12, <4>1 DEF IsMarker
    <3>3. \A i \in 1 .. Len(M) : i \in 1 .. k \/ i = k + 1 \/ i = k + 2
      BY <2>8, <2>12
    <3>4. k + 1 \notin 1 .. k /\ k + 1 # k + 2 /\ k + 1 \in 2 .. Len(M)
      BY <2>8, <2>7, <2>12
    <3> QED BY <3>1, <3>2, <3>3, <3>4 DEF MarkedAt
  <2>17. Len(Main') = k + 2 /\ Len(Main') - 1 = k + 1 /\ Len(Main') > 2 /\ wal_size <= Len(Main') - 2
         /\ k + 1 \in 2 .. Len(Main')
    BY <2>7, <2>8, <2>12
  <2>18. Types'
    BY <1>1, <1>2, <1>3, <1>4, <2>1, <2>6, <2>9 DEF Types, Log
  <2>19. Shapes'
    <3>1. \E m \in 2 .. Len(Main') : MarkedAt(Main', m)
      BY <2>12, <2>16, <2>17
    <3> QED BY <1>2, <2>6, <2>10, <3>1 DEF Shapes
  <2>20. Control'
    BY <1>1, <1>2, <1>3, <1>4, <2>1, <2>2, <2>6, <2>9, <2>10 DEF Control
  <2>21. Marking'
    BY <1>1, <1>4, <2>2, <2>12, <2>16, <2>17 DEF Marking
  <2>22. Covered'
    BY <1>1, <1>2, <1>3, <1>5, <2>2, <2>6, <2>10 DEF Covered
  <2>23. Snapped'
    BY <1>1, <1>2, <1>4, <1>5, <2>2 DEF Snapped, Covered
  <2>24. Writing'
    BY <1>1, <1>3 DEF Writing
  <2>25. Up' /\ Down'
    BY <1>1, <1>2, <2>20, <2>21, <2>22, <2>23, <2>24 DEF Up, Down
  <2>26. Flushed(M, Len(M)) \cap failed = {} /\ Logged(M, Len(M)) \cap failed = {}
         /\ Logged(M, k + 1) \cap failed = {}
    BY <1>1, <1>2, <2>7, <2>12, <2>13, <2>14, <2>15 DEF Untainted
  <2>27. \A m \in 2 .. Len(M) : MarkedAt(M, m) => m = k + 1
    BY <2>16 DEF MarkedAt
  <2>28. Untainted'
    BY <1>1, <1>2, <1>3, <1>5, <2>2, <2>10, <2>12, <2>26, <2>27 DEF Untainted, NoRecovery
  <2>29. Known'
    <3>1. Logged(M, Len(M)) \subseteq 1 .. attempts
      <4>1. Logged(Main, Len(Main)) \subseteq 1 .. attempts
        BY <1>2 DEF Known, Main, Path
      <4> QED BY <1>3, <2>7, <2>12, <2>13, <2>15, <4>1
    <3>2. \A p \in Path : Logged(content'[p], Len(content'[p])) \subseteq 1 .. attempts
      BY <1>2, <1>3, <2>6, <2>12, <3>1 DEF Known, Main
    <3> QED BY <1>1, <1>2, <1>5, <3>2 DEF Known
  <2> QED BY <2>18, <2>19, <2>25, <2>28, <2>29 DEF RecoveryInv
<1> QED BY <1>6, <1>7

\* What one more entry, not a marker, makes of the log in use.
LEMMA AppendedIs ==
  ASSUME Types, Shapes, Control, NEW e \in LogEntry, e # Torn, e.type # "CHECKPOINT",
         Log' = Initialized \o <<e>>
  PROVE  /\ Log' \in Seq(LogEntry)
         /\ e = Flush => /\ Flushed(Log', Len(Log')) = Logged(Kept, Len(Kept))
                         /\ Logged(Log', Len(Log')) = Logged(Kept, Len(Kept))
         /\ \A c \in Commit : e = Data(c) =>
              Logged(Log', Len(Log')) = Logged(Kept, Len(Kept)) \cup {c}
         /\ Flushed(Log', Len(Log')) \subseteq Logged(Log', Len(Log'))
         /\ Unmarked(Log) => Unmarked(Log')
<1> DEFINE J == Initialized
           k == Len(J)
           M == J \o <<e>>
<1>1. J \in Seq(LogEntry) /\ k \in Nat /\ Logged(J, k) = Logged(Kept, Len(Kept))
      /\ (Unmarked(Log) => Unmarked(J))
  BY KeptIs
<1> HIDE DEF J
<1>2. M \in Seq(LogEntry) /\ Len(M) = k + 1 /\ (\A i \in 1 .. k : M[i] = J[i]) /\ M[k + 1] = e
  BY <1>1
<1>3. Log' = M
  BY DEF J
<1> HIDE DEF M
<1>4. Logged(M, k) = Logged(J, k)
  BY <1>1, <1>2, SamePrefix DEF k
<1>5. e = Flush => Flushed(M, k + 1) = Logged(M, k) /\ Logged(M, k + 1) = Logged(M, k)
  BY <1>1, <1>2, OneMore
<1>6. \A c \in Commit : e = Data(c) => Logged(M, k + 1) = Logged(M, k) \cup {c}
  BY <1>1, <1>2, OneMore
<1>7. Flushed(M, k + 1) \subseteq Logged(M, k + 1)
  BY <1>1, MoreIsMore
<1>8. Unmarked(J) => Unmarked(M)
  <2>1. \A i \in 1 .. Len(M) : i \in 1 .. k \/ i = k + 1
    BY <1>1, <1>2
  <2> QED BY <1>2, <2>1 DEF Unmarked, IsMarker
<1> QED BY <1>1, <1>2, <1>3, <1>4, <1>5, <1>6, <1>7, <1>8

\* A commit in progress: no marker is being written, and the log in use has none.
LEMMA LogInUse ==
  ASSUME Types, Shapes, Control, Marking, wal_lock # "checkpoint"
  PROVE  /\ checkpoint.phase \notin {"marking", "marked"}
         /\ checkpoint.kind = "skip" => checkpoint.phase = "none"
         /\ IF checkpoint.has_wal THEN wal.path = "wal.checkpoint" /\ Log = Second
                                  ELSE wal.path = "wal" /\ Log = Main
         /\ Unmarked(Log)
<1>1. checkpoint.phase \notin {"marking", "marked"} /\ (checkpoint.kind = "skip" => checkpoint.phase = "none")
  BY DEF Control
<1>2. wal.path = IF checkpoint.has_wal THEN "wal.checkpoint" ELSE "wal"
  BY <1>1 DEF Control
<1>3. IF checkpoint.has_wal THEN Log = Second ELSE Log = Main
  BY <1>2 DEF Log, Main, Second
<1>4. Unmarked(Log)
  BY <1>3 DEF Shapes, Marking
<1> QED BY <1>1, <1>2, <1>3, <1>4

\* A write by a commit: the log in use has one more entry, nothing is lost
\* and nothing becomes visible that has failed.
LEMMA CommitWrites ==
  ASSUME RecoveryInv, mode = "up", wal_lock # "checkpoint",
         NEW e \in LogEntry, e # Torn, e.type # "CHECKPOINT", WriteEntries(<<e>>),
         UNCHANGED <<header, mode, iteration_count, wal_size, database, checkpoint,
                     recovery, acked, failed, checkpoints, crashes>>,
         wal_lock' = "commit", attempts' \in 0 .. MaxCommits, attempts <= attempts',
         commit' \in Commits, commit'.c # 0, commit'.initial = wal_size,
         Logged(Log', Len(Log')) \cap failed = {},
         Logged(Log', Len(Log')) \subseteq 1 .. attempts',
         Writing'
  PROVE  RecoveryInv'
<1>2. Types /\ Files /\ Shapes /\ Control /\ Marking /\ Covered /\ Snapped /\ Writing /\ Untainted /\ Known
      /\ recovery = NoRecovery
  BY DEF RecoveryInv, Up, Types
<1>3. <<e>> \in Seq(LogEntry) /\ \A i \in 1 .. Len(<<e>>) : <<e>>[i] # Torn
  OBVIOUS
<1>4. /\ Files'
      /\ wal' = NewWAL(wal.path, "INITIALIZED", wal.iteration)
      /\ \A p \in Path \ {wal.path} : content'[p] = content[p] /\ synced'[p] = synced[p]
      /\ Log' = Initialized \o <<e>>
      /\ Shaped(Log') /\ Kept' = Log' /\ \A i \in 1 .. Len(Log') : Log'[i] # Torn
      /\ wal_size <= Len(Log')
      /\ Safe' = Safe /\ Flushed(Log', Safe) = Flushed(Log, Safe)
      /\ Logged(Log', wal_size) = Logged(Log, wal_size)
  BY <1>2, <1>3, WrittenIs
<1>5. wal'.path = wal.path /\ wal'.init_state = "INITIALIZED" /\ wal' \in WALs
  <2>1. wal.iteration \in Nat \cup {-1} /\ wal.path \in {"wal", "wal.checkpoint"}
    BY <1>2 DEF Types, WALs
  <2> QED BY <1>4, <2>1 DEF NewWAL, WALs
<1>6. /\ checkpoint.phase \notin {"marking", "marked"}
      /\ checkpoint.kind = "skip" => checkpoint.phase = "none"
      /\ IF checkpoint.has_wal THEN wal.path = "wal.checkpoint" /\ Log = Second
                               ELSE wal.path = "wal" /\ Log = Main
      /\ Unmarked(Log)
  BY <1>2, LogInUse
<1>7. /\ Third' = Third /\ Stored' = Stored /\ Snapshot' = Snapshot
      /\ IF checkpoint.has_wal THEN Main' = Main /\ Second' = Log'
                               ELSE Main' = Log' /\ Second' = Second
      /\ checkpoint.has_wal => synced'["wal"] = synced["wal"]
  BY <1>4, <1>5, <1>6 DEF Main, Second, Third, Stored, Snapshot, Log, Path
<1>8. /\ Flushed(Log', Len(Log')) \subseteq Logged(Log', Len(Log'))
      /\ Unmarked(Log')
  BY <1>2, <1>4, <1>6, AppendedIs
<1>9. Types'
  BY <1>2, <1>4, <1>5 DEF Types, Log
<1>10. Shapes'
  BY <1>2, <1>4, <1>6, <1>7, <1>8 DEF Shapes
<1>11. Control'
  BY <1>2, <1>4, <1>5, <1>6 DEF Control
<1>12. Marking'
  BY <1>2, <1>6, <1>7, <1>8 DEF Marking
<1>13. Covered'
  <2>1. acked' \subseteq ToSet(database')
    BY <1>2 DEF Covered
  <2>2. CASE checkpoint.has_wal
    BY <1>2, <1>4, <1>6, <1>7, <2>1, <2>2 DEF Covered
  <2>3. CASE ~checkpoint.has_wal
    BY <1>2, <1>4, <1>6, <1>7, <2>1, <2>3 DEF Covered
  <2> QED BY <2>2, <2>3
<1>14. Snapped'
  BY <1>2, <1>4, <1>6, <1>7 DEF Snapped
<1>15. Up' /\ Down'
  BY <1>2, <1>11, <1>12, <1>13, <1>14 DEF Up, Down
<1>16. Untainted'
  <2>1. Flushed(Log', Len(Log')) \cap failed = {}
    BY <1>8
  <2>2. CASE checkpoint.has_wal
    BY <1>2, <1>4, <1>6, <1>7, <2>1, <2>2 DEF Untainted, NoRecovery
  <2>3. CASE ~checkpoint.has_wal
    <3>1. \A m \in 2 .. Len(Main') : ~MarkedAt(Main', m)
      BY <1>7, <1>8, <2>3, NotMarked
    <3> QED BY <1>2, <1>4, <1>6, <1>7, <2>1, <2>3, <3>1 DEF Untainted, NoRecovery
  <2> QED BY <2>2, <2>3
<1>17. Known'
  <2>1. 1 .. attempts \subseteq 1 .. attempts'
    BY <1>2 DEF Types
  <2>2. \A p \in Path : Logged(content'[p], Len(content'[p])) \subseteq 1 .. attempts'
    BY <1>2, <1>4, <1>5, <2>1 DEF Known, Log
  <2> QED BY <1>2, <1>7, <2>1, <2>2 DEF Known
<1> QED BY <1>9, <1>10, <1>15, <1>16, <1>17 DEF RecoveryInv

LEMMA WriteToWALRecovers ==
  ASSUME RecoveryInv, WriteToWAL
  PROVE  RecoveryInv'
<1> DEFINE c == attempts + 1
<1>1. /\ mode = "up" /\ wal_lock = "free" /\ attempts < MaxCommits /\ attempts' = c
      /\ commit' = [c |-> c, initial |-> wal_size, flushed |-> FALSE]
      /\ wal_lock' = "commit" /\ WriteEntries(<<Data(c)>>)
      /\ UNCHANGED <<header, mode, iteration_count, wal_size, database, checkpoint,
                     recovery, acked, failed, checkpoints, crashes>>
  BY DEF WriteToWAL
<1>2. Types /\ Files /\ Shapes /\ Control /\ Marking /\ Untainted /\ Known
  BY <1>1 DEF RecoveryInv, Up, Types
<1>3. attempts \in Nat /\ c \in Commit /\ c \in Nat /\ c # 0 /\ attempts' \in 0 .. MaxCommits
      /\ c \notin 1 .. attempts /\ c \in 1 .. attempts' /\ attempts <= attempts'
      /\ 1 .. attempts \subseteq 1 .. attempts'
  BY <1>1, <1>2, ConstantsAssumption DEF Types, Commit
<1> HIDE DEF c
<1>4. Data(c) \in LogEntry /\ Data(c) # Torn /\ Data(c).type # "CHECKPOINT"
  BY <1>3, MadeEntry, EntryFacts
<1>5. commit' \in Commits /\ commit'.c = c /\ commit'.initial = wal_size /\ commit'.flushed = FALSE
  <2>1. wal_size \in Nat
    BY <1>2 DEF Types
  <2> QED BY <1>1, <1>3, <2>1 DEF Commits
<1>6. <<Data(c)>> \in Seq(LogEntry) /\ \A i \in 1 .. Len(<<Data(c)>>) : <<Data(c)>>[i] # Torn
  BY <1>4
<1>7. /\ wal' = NewWAL(wal.path, "INITIALIZED", wal.iteration)
      /\ \A p \in Path \ {wal.path} : content'[p] = content[p]
      /\ Log' = Initialized \o <<Data(c)>>
      /\ Logged(Log', wal_size) = Logged(Log, wal_size)
  BY <1>1, <1>2, <1>6, WrittenIs
<1>8. Logged(Log', Len(Log')) = Logged(Kept, Len(Kept)) \cup {c}
  BY <1>2, <1>3, <1>4, <1>7, AppendedIs
<1>9. Logged(Kept, Len(Kept)) \subseteq Logged(Log, Len(Log)) /\ wal_size \in 0 .. Len(Log)
      /\ Len(Log) \in Nat
  BY <1>2, KeptIs DEF Types, Log
<1>10. wal.path \in Path
  BY <1>2 DEF Types, WALs, Path
<1>11. \A p \in Path : Logged(content[p], Len(content[p])) \subseteq 1 .. attempts
  BY <1>2 DEF Known
<1>12. Logged(Log, Len(Log)) \subseteq 1 .. attempts
  BY <1>10, <1>11 DEF Log
<1>13. c \notin failed \cup acked \cup Stored \cup Snapshot \cup ToSet(database)
  BY <1>2, <1>3 DEF Known
<1>14. Logged(Log', Len(Log')) \cap failed = {} /\ Logged(Log', Len(Log')) \subseteq 1 .. attempts'
  BY <1>1, <1>2, <1>3, <1>8, <1>9, <1>12, <1>13 DEF Untainted
<1>15. Stored' = Stored /\ Snapshot' = Snapshot /\ wal'.path = wal.path
  BY <1>1, <1>7 DEF Stored, Snapshot, NewWAL
<1>16. c \notin Logged(Log', wal_size)
  <2>1. Logged(Log, wal_size) \subseteq Logged(Log, Len(Log))
    BY <1>9, MoreIsMore
  <2> QED BY <1>3, <1>7, <1>12, <2>1
<1>17. wal.path = "wal" => c \notin Logged(Second', Len(Second'))
  BY <1>3, <1>7, <1>11 DEF Second, Path
<1>18. wal.path = "wal.checkpoint" => c \notin Logged(Main', Len(Main'))
  BY <1>3, <1>7, <1>11 DEF Main, Path
<1>19. Writing'
  BY <1>1, <1>3, <1>5, <1>8, <1>13, <1>15, <1>16, <1>17, <1>18 DEF Writing
<1> QED BY <1>1, <1>3, <1>4, <1>5, <1>14, <1>19, CommitWrites

LEMMA FlushCommitRecovers ==
  ASSUME RecoveryInv, FlushCommit
  PROVE  RecoveryInv'
<1>1. /\ mode = "up" /\ commit.c # 0 /\ ~commit.flushed
      /\ commit' = [commit EXCEPT !.flushed = TRUE]
      /\ WriteEntries(<<Flush>>)
      /\ UNCHANGED <<header, mode, iteration_count, wal_size, wal_lock, database, checkpoint,
                     recovery, attempts, acked, failed, checkpoints, crashes>>
  BY DEF FlushCommit, ghostVars
<1>2. Types /\ Files /\ Shapes /\ Control /\ Marking /\ Writing /\ Untainted /\ Known
  BY <1>1 DEF RecoveryInv, Up, Types
<1>3. wal_lock = "commit" /\ wal.init_state = "INITIALIZED" /\ Kept = Log
      /\ commit.initial = wal_size
  BY <1>1, <1>2 DEF Control, Kept, Log
<1>4. Flush \in LogEntry /\ Flush # Torn /\ Flush.type # "CHECKPOINT"
  BY MadeEntry, EntryFacts
<1>5. commit' \in Commits /\ commit'.c = commit.c /\ commit'.initial = commit.initial
  BY <1>1, <1>2 DEF Types, Commits
<1>6. <<Flush>> \in Seq(LogEntry) /\ \A i \in 1 .. Len(<<Flush>>) : <<Flush>>[i] # Torn
  BY <1>4
<1>7. /\ wal' = NewWAL(wal.path, "INITIALIZED", wal.iteration)
      /\ \A p \in Path \ {wal.path} : content'[p] = content[p]
      /\ Log' = Initialized \o <<Flush>>
      /\ Logged(Log', wal_size) = Logged(Log, wal_size)
  BY <1>1, <1>2, <1>6, WrittenIs
<1>8. /\ Flushed(Log', Len(Log')) = Logged(Log, Len(Log))
      /\ Logged(Log', Len(Log')) = Logged(Log, Len(Log))
  BY <1>2, <1>3, <1>4, <1>7, AppendedIs
<1>9. wal.path \in Path
  BY <1>2 DEF Types, WALs, Path
<1>10. Logged(Log', Len(Log')) \cap failed = {} /\ Logged(Log', Len(Log')) \subseteq 1 .. attempts
  BY <1>1, <1>2, <1>3, <1>8, <1>9 DEF Untainted, Known, Log
<1>11. Stored' = Stored /\ Snapshot' = Snapshot /\ wal'.path = wal.path
  BY <1>1, <1>7 DEF Stored, Snapshot, NewWAL
<1>12. wal.path = "wal" => Second' = Second
  BY <1>7 DEF Second, Path
<1>13. wal.path = "wal.checkpoint" => Main' = Main
  BY <1>7 DEF Main, Path
<1>14. Writing'
  BY <1>1, <1>2, <1>5, <1>7, <1>8, <1>11, <1>12, <1>13 DEF Writing
<1>15. attempts' \in 0 .. MaxCommits /\ attempts <= attempts'
  BY <1>1, <1>2, ConstantsAssumption DEF Types
<1> QED BY <1>1, <1>3, <1>4, <1>5, <1>10, <1>14, <1>15, CommitWrites

LEMMA SyncCommitRecovers ==
  ASSUME RecoveryInv, SyncCommit
  PROVE  RecoveryInv'
<1>1. /\ mode = "up" /\ commit.flushed
      /\ synced' = [synced EXCEPT ![wal.path] = Len(Log)]
      /\ wal_size' = Len(Log)
      /\ database' = Append(database, commit.c)
      /\ acked' = acked \cup {commit.c}
      /\ commit' = NoCommit /\ wal_lock' = "free"
      /\ UNCHANGED <<header, exists, content, mode, iteration_count, wal, checkpoint,
                     recovery, attempts, failed, checkpoints, crashes>>
  BY DEF SyncCommit, SyncFile, Log
<1>2. Types /\ Files /\ Shapes /\ Control /\ Marking /\ Covered /\ Snapped /\ Writing /\ Untainted /\ Known
      /\ recovery = NoRecovery
  BY <1>1 DEF RecoveryInv, Up, Types
<1>3. commit.c # 0 /\ wal_lock = "commit" /\ wal.init_state = "INITIALIZED"
  BY <1>1, <1>2 DEF Control
<1>4. commit.c \in 1 .. attempts /\ commit.c \in Flushed(Log, Len(Log)) /\ commit.c \notin failed
  BY <1>1, <1>2, <1>3 DEF Writing
<1>5. commit.c \in Commit
  BY <1>4 DEF Flushed
<1>6. database' \in Seq(Commit) /\ ToSet(database') = ToSet(database) \cup {commit.c}
  BY <1>1, <1>2, <1>5, OneMoreCommit DEF Types
<1>7. commit' \in Commits /\ commit'.c = 0 /\ commit'.flushed = FALSE
  BY <1>1 DEF NoCommit, Commits
<1>8. Main' = Main /\ Second' = Second /\ Third' = Third /\ Log' = Log /\ Kept' = Kept
      /\ Stored' = Stored /\ Snapshot' = Snapshot
  BY <1>1, <1>3 DEF Main, Second, Third, Log, Kept, Stored, Snapshot
<1>9. wal.path \in Path /\ Log \in Seq(LogEntry) /\ Len(Log) \in Nat /\ wal_size \in Nat /\ wal_size <= Len(Log)
  BY <1>2 DEF Types, Files, WALs, Path, Log
<1>10. synced'[wal.path] = Len(Log) /\ synced' \in [Path -> Nat]
       /\ \A p \in Path \ {wal.path} : synced'[p] = synced[p]
  BY <1>1, <1>2, <1>9 DEF Files
<1>11. Files'
  <2>1. \A p \in Path : synced'[p] <= Len(content'[p])
    BY <1>1, <1>2, <1>9, <1>10 DEF Files, Log
  <2> QED BY <1>1, <1>2, <1>10, <2>1 DEF Files
<1>12. Safe' = Len(Log) /\ Safe \in Nat /\ Safe <= Len(Log)
  <2>1. synced[wal.path] \in Nat
    BY <1>2, <1>9 DEF Files
  <2> QED BY <1>1, <1>9, <1>10, <2>1 DEF Safe
<1>13. Flushed(Log, Safe) \subseteq Flushed(Log, Safe')
  BY <1>9, <1>12, MoreIsMore
<1>14. /\ checkpoint.phase \notin {"marking", "marked"}
       /\ checkpoint.kind = "skip" => checkpoint.phase = "none"
       /\ IF checkpoint.has_wal THEN wal.path = "wal.checkpoint" /\ Log = Second
                                ELSE wal.path = "wal" /\ Log = Main
  BY <1>2, <1>3, LogInUse
<1>15. Types'
  BY <1>1, <1>2, <1>5, <1>6, <1>7, <1>9, <1>11 DEF Types, Log
<1>16. Shapes'
  BY <1>2, <1>8 DEF Shapes
<1>17. Control'
  BY <1>1, <1>2, <1>7, <1>8, <1>14 DEF Control
<1>18. Marking'
  BY <1>1, <1>2, <1>8, <1>10, <1>14 DEF Marking, Path
<1>19. Covered'
  <2>1. acked' \subseteq ToSet(database')
    BY <1>1, <1>2, <1>6 DEF Covered
  <2>2. CASE checkpoint.has_wal
    BY <1>1, <1>2, <1>4, <1>8, <1>12, <1>13, <1>14, <2>1, <2>2 DEF Covered
  <2>3. CASE ~checkpoint.has_wal
    BY <1>1, <1>2, <1>4, <1>8, <1>12, <1>13, <1>14, <2>1, <2>3 DEF Covered
  <2> QED BY <2>2, <2>3
<1>20. Snapped'
  BY <1>1, <1>2, <1>4, <1>6, <1>8, <1>12, <1>13, <1>14 DEF Snapped
<1>21. Writing'
  BY <1>7 DEF Writing
<1>22. Up' /\ Down'
  BY <1>1, <1>2, <1>17, <1>18, <1>19, <1>20, <1>21 DEF Up, Down
<1>23. Untainted'
  BY <1>1, <1>2, <1>4, <1>6, <1>8 DEF Untainted, NoRecovery
<1>24. Known'
  BY <1>1, <1>2, <1>4, <1>6, <1>8 DEF Known
<1> QED BY <1>15, <1>16, <1>22, <1>23, <1>24 DEF RecoveryInv

LEMMA RevertCommitRecovers ==
  ASSUME RecoveryInv, RevertCommit
  PROVE  RecoveryInv'
<1>1. /\ mode = "up" /\ commit.c # 0
      /\ content' = [content EXCEPT ![wal.path] = SubSeq(content[wal.path], 1, commit.initial)]
      /\ synced' = [synced EXCEPT ![wal.path] =
                      IF synced[wal.path] <= commit.initial THEN synced[wal.path] ELSE commit.initial]
      /\ wal_size' = commit.initial
      /\ failed' = failed \cup {commit.c}
      /\ commit' = NoCommit /\ wal_lock' = "free"
      /\ UNCHANGED <<header, exists, mode, iteration_count, wal, database, checkpoint,
                     recovery, attempts, acked, checkpoints, crashes>>
  BY DEF RevertCommit, Truncate
<1>2. Types /\ Files /\ Shapes /\ Control /\ Marking /\ Covered /\ Snapped /\ Writing /\ Untainted /\ Known
      /\ recovery = NoRecovery
  BY <1>1 DEF RecoveryInv, Up, Types
<1>3. wal_lock = "commit" /\ wal.init_state = "INITIALIZED" /\ commit.initial = wal_size /\ Kept = Log
  BY <1>1, <1>2 DEF Control, Kept, Log
<1>4. wal.path \in Path /\ Log \in Seq(LogEntry) /\ Len(Log) \in Nat /\ wal_size \in 0 .. Len(Log)
      /\ wal_size \in Nat
  BY <1>2 DEF Types, Files, WALs, Path, Log
<1> DEFINE T == SubSeq(Log, 1, wal_size)
<1>5. Shaped(Log)
  BY <1>2, KeptIs
<1>6. /\ T \in Seq(LogEntry) /\ Len(T) = wal_size
      /\ \A i \in 1 .. wal_size : T[i] = Log[i]
      /\ Logged(T, wal_size) = Logged(Log, wal_size)
      /\ Unmarked(Log) => Unmarked(T)
      /\ Shaped(T)
  BY <1>4, <1>5, SubLog
<1>7. content' = [content EXCEPT ![wal.path] = T]
  BY <1>1, <1>3 DEF Log
<1> HIDE DEF T
<1>8. content' \in [Path -> Seq(LogEntry)] /\ content'[wal.path] = T
      /\ \A p \in Path \ {wal.path} : content'[p] = content[p]
  BY <1>2, <1>4, <1>6, <1>7 DEF Files
<1>9. synced[wal.path] \in Nat
  BY <1>2, <1>4 DEF Files
<1>10. synced' \in [Path -> Nat]
       /\ synced'[wal.path] = (IF synced[wal.path] <= wal_size THEN synced[wal.path] ELSE wal_size)
       /\ \A p \in Path \ {wal.path} : synced'[p] = synced[p]
  BY <1>1, <1>2, <1>3, <1>4, <1>9 DEF Files
<1>11. Files'
  <2>1. \A p \in Path : synced'[p] <= Len(content'[p])
    <3>1. synced'[wal.path] <= Len(content'[wal.path])
      BY <1>4, <1>6, <1>8, <1>9, <1>10
    <3>2. \A p \in Path \ {wal.path} : synced'[p] <= Len(content'[p])
      BY <1>2, <1>8, <1>10 DEF Files
    <3> QED BY <3>1, <3>2
  <2>2. \A p \in Path \ exists' : content'[p] = <<>>
    <3>1. wal.path \notin exists => T = <<>>
      BY <1>2, <1>4, <1>6 DEF Files, Log
    <3> QED BY <1>1, <1>2, <1>8, <3>1 DEF Files
  <2> QED BY <1>1, <1>2, <1>8, <1>10, <2>1, <2>2 DEF Files
<1>12. Safe' = Safe /\ Safe \in 0 .. wal_size
  BY <1>1, <1>3, <1>4, <1>9, <1>10 DEF Safe
<1>13. Log' = T /\ Kept' = T
  BY <1>1, <1>3, <1>8 DEF Log, Kept
<1>14. Flushed(T, Safe) = Flushed(Log, Safe)
  <2>1. Safe \in Nat /\ \A i \in 1 .. Safe : T[i] = Log[i]
    BY <1>4, <1>6, <1>12
  <2> QED BY <2>1, SamePrefix
<1>15. Logged(T, Len(T)) \subseteq Logged(Log, Len(Log)) /\ Flushed(T, Len(T)) \subseteq Logged(T, Len(T))
       /\ commit.c \notin Logged(T, Len(T)) /\ Logged(T, Len(T)) = Logged(Log, wal_size)
  <2>1. Logged(Log, wal_size) \subseteq Logged(Log, Len(Log)) /\ Flushed(T, wal_size) \subseteq Logged(T, wal_size)
    BY <1>4, MoreIsMore
  <2> QED BY <1>1, <1>2, <1>6, <2>1 DEF Writing
<1>16. /\ checkpoint.phase \notin {"marking", "marked"}
       /\ checkpoint.kind = "skip" => checkpoint.phase = "none"
       /\ IF checkpoint.has_wal THEN wal.path = "wal.checkpoint" /\ Log = Second
                                ELSE wal.path = "wal" /\ Log = Main
       /\ Unmarked(Log)
  BY <1>2, <1>3, LogInUse
<1>17. /\ Third' = Third /\ Stored' = Stored /\ Snapshot' = Snapshot
       /\ IF checkpoint.has_wal THEN Main' = Main /\ Second' = T
                                ELSE Main' = T /\ Second' = Second
       /\ checkpoint.has_wal => synced'["wal"] = synced["wal"]
  BY <1>1, <1>8, <1>10, <1>16 DEF Main, Second, Third, Stored, Snapshot, Path
<1>18. commit' \in Commits /\ commit'.c = 0 /\ commit'.flushed = FALSE
  BY <1>1 DEF NoCommit, Commits
<1>19. commit.c \in 1 .. attempts /\ commit.c \in Commit
       /\ commit.c \notin acked \cup Stored \cup Snapshot \cup ToSet(database)
  BY <1>1, <1>2 DEF Writing, Logged
<1>20. Types'
  BY <1>1, <1>2, <1>3, <1>4, <1>6, <1>11, <1>13, <1>18, <1>19 DEF Types, Log
<1>21. Shapes'
  BY <1>2, <1>6, <1>16, <1>17 DEF Shapes
<1>22. Control'
  <2>1. \A i \in 1 .. Len(T) : T[i] # Torn
    BY <1>2, <1>3, <1>4, <1>6 DEF Control
  <2> QED BY <1>1, <1>2, <1>3, <1>13, <1>16, <1>18, <2>1 DEF Control
<1>23. Marking'
  BY <1>1, <1>2, <1>6, <1>16, <1>17 DEF Marking
<1>24. Covered'
  BY <1>1, <1>2, <1>12, <1>14, <1>16, <1>17 DEF Covered
<1>25. Snapped'
  BY <1>1, <1>2, <1>12, <1>13, <1>14, <1>16, <1>17 DEF Snapped
<1>26. Writing'
  BY <1>18 DEF Writing
<1>27. Up' /\ Down'
  BY <1>1, <1>2, <1>22, <1>23, <1>24, <1>25, <1>26 DEF Up, Down
<1>28. Logged(T, Len(T)) \cap failed' = {} /\ Flushed(T, Len(T)) \cap failed' = {}
  BY <1>1, <1>2, <1>3, <1>15 DEF Untainted
<1>29. Untainted'
  <2>1. acked' \cap failed' = {} /\ Stored' \cap failed' = {} /\ ToSet(database') \cap failed' = {}
        /\ Snapshot' \cap failed' = {}
    BY <1>1, <1>2, <1>17, <1>19 DEF Untainted
  <2>2. CASE checkpoint.has_wal
    <3>1. commit.c \notin Logged(Main, Len(Main))
      BY <1>1, <1>2, <1>16, <2>2 DEF Writing
    <3>2. Len(Main) \in Nat
      BY <1>2 DEF Files, Main, Path
    <3>3. \A m \in 2 .. Len(Main) : Logged(Main, m) \subseteq Logged(Main, Len(Main))
      BY <3>2, MoreIsMore
    <3>4. Flushed(Main, Len(Main)) \subseteq Logged(Main, Len(Main))
      BY <3>2, MoreIsMore
    <3>5. \A m \in 2 .. Len(Main') : MarkedAt(Main', m) => Logged(Main', m) \cap failed' = {}
      BY <1>1, <1>2, <1>17, <2>2, <3>1, <3>3 DEF Untainted
    <3>6. Flushed(Main', Len(Main')) \cap failed' = {}
      BY <1>1, <1>2, <1>17, <2>2, <3>1, <3>4 DEF Untainted
    <3> QED BY <1>1, <1>2, <1>13, <1>16, <1>17, <1>28, <2>1, <2>2, <3>5, <3>6 DEF Untainted, NoRecovery
  <2>3. CASE ~checkpoint.has_wal
    <3>1. commit.c \notin Logged(Second, Len(Second))
      BY <1>1, <1>2, <1>16, <2>3 DEF Writing
    <3>2. Len(Second) \in Nat
      BY <1>2 DEF Files, Second, Path
    <3>3. Flushed(Second, Len(Second)) \subseteq Logged(Second, Len(Second))
      BY <3>2, MoreIsMore
    <3>4. Flushed(Second', Len(Second')) \cap failed' = {}
      BY <1>1, <1>2, <1>17, <2>3, <3>1, <3>3 DEF Untainted
    <3>5. \A m \in 2 .. Len(Main') : ~MarkedAt(Main', m)
      BY <1>6, <1>16, <1>17, <2>3, NotMarked
    <3> QED BY <1>1, <1>2, <1>13, <1>16, <1>17, <1>28, <2>1, <2>3, <3>4, <3>5 DEF Untainted, NoRecovery
  <2> QED BY <2>2, <2>3
<1>30. Known'
  <2>1. \A p \in Path : Logged(content'[p], Len(content'[p])) \subseteq 1 .. attempts
    BY <1>2, <1>4, <1>8, <1>15 DEF Known, Log
  <2> QED BY <1>1, <1>2, <1>17, <1>19, <2>1 DEF Known
<1> QED BY <1>20, <1>21, <1>27, <1>29, <1>30 DEF RecoveryInv

\* The process has ended.
LEMMA Forgotten ==
  ASSUME Forget
  PROVE  /\ mode' = "down" /\ iteration_count' = 0
         /\ wal' = NewWAL("wal", "NO_WAL", -1) /\ wal_size' = 0 /\ wal_lock' = "free"
         /\ database' = <<>> /\ commit' = NoCommit /\ checkpoint' = NoCheckpoint
         /\ recovery' = NoRecovery /\ recovery'.stage = "none"
         /\ Snapshot' = {} /\ ToSet(database') = {}
         /\ UNCHANGED <<attempts, acked, failed, checkpoints>>
         /\ wal'.path = "wal"
         /\ wal' \in WALs /\ commit' \in Commits /\ checkpoint' \in Checkpoints
         /\ recovery' \in Recoveries /\ database' \in Seq(Commit)
<1>1. <<>> \in Seq(Commit)
  OBVIOUS
<1>2. wal' \in WALs /\ wal'.path = "wal"
  BY DEF Forget, NewWAL, WALs
<1>3. commit' \in Commits
  BY DEF Forget, NoCommit, Commits
<1>4. checkpoint' \in Checkpoints
  BY <1>1 DEF Forget, NoCheckpoint, Checkpoints
<1>5. recovery' \in Recoveries /\ recovery'.stage = "none"
  BY DEF Forget, NoRecovery, Recoveries
<1>6. Snapshot' = {} /\ ToSet(database') = {}
  BY DEF Forget, NoCheckpoint, Snapshot, ToSet
<1> QED BY <1>1, <1>2, <1>3, <1>4, <1>5, <1>6 DEF Forget, ghostVars

\* What must hold of the disk when the process has ended.
LEMMA GoesDown ==
  ASSUME RecoveryInv, Forget, header' = header, crashes' \in Nat,
         Files', Shapes', synced' = [p \in Path |-> Len(content'[p])],
         Unmarked(Main') => acked \subseteq Stored \cup Flushed(Main', Len(Main')),
         \A m \in 2 .. Len(Main') : MarkedAt(Main', m) =>
           /\ Main'[m].of = header.root => acked \subseteq Stored \cup Flushed(Second', Len(Second'))
           /\ Main'[m].of # header.root =>
                acked \subseteq Stored \cup Flushed(Main', m) \cup Flushed(Second', Len(Second'))
           /\ Logged(Main', m) \cap failed = {},
         Unmarked(Main') =>
           Flushed(Second', Len(Second')) \subseteq Stored \cup Flushed(Main', Len(Main')),
         Flushed(Main', Len(Main')) \cap failed = {},
         Flushed(Second', Len(Second')) \cap failed = {},
         \A p \in Path : Logged(content'[p], Len(content'[p])) \subseteq 1 .. attempts
  PROVE  RecoveryInv'
<1>1. Types /\ Untainted /\ Known
  BY DEF RecoveryInv
<1>2. /\ mode' = "down" /\ iteration_count' = 0
      /\ wal' = NewWAL("wal", "NO_WAL", -1) /\ wal_size' = 0 /\ wal_lock' = "free"
      /\ database' = <<>> /\ commit' = NoCommit /\ checkpoint' = NoCheckpoint
      /\ recovery' = NoRecovery /\ recovery'.stage = "none"
      /\ Snapshot' = {} /\ ToSet(database') = {}
      /\ UNCHANGED <<attempts, acked, failed, checkpoints>>
      /\ wal'.path = "wal"
      /\ wal' \in WALs /\ commit' \in Commits /\ checkpoint' \in Checkpoints
      /\ recovery' \in Recoveries /\ database' \in Seq(Commit)
  BY Forgotten
<1>3. Stored' = Stored
  BY DEF Stored
<1>4. synced'["wal"] = Len(Main') /\ synced'["wal.checkpoint"] = Len(Second')
  BY DEF Main, Second, Path
<1>5. Types'
  <2>1. wal_size' <= Len(content'[wal'.path])
    BY <1>2 DEF Files, Path
  <2> QED BY <1>1, <1>2, <2>1 DEF Types
<1>6. Up' /\ Down'
  BY <1>2, <1>3, <1>4 DEF Up, Down
<1>7. Untainted'
  BY <1>1, <1>2, <1>3 DEF Untainted
<1>8. Known'
  BY <1>1, <1>2, <1>3 DEF Known
<1> QED BY <1>5, <1>6, <1>7, <1>8 DEF RecoveryInv

LEMMA CloseRecovers ==
  ASSUME RecoveryInv, Close
  PROVE  RecoveryInv'
<1>1. /\ mode = "up" /\ wal_lock = "free" /\ checkpoint.phase = "none"
      /\ synced' = [p \in Path |-> Len(content[p])]
      /\ Forget
      /\ UNCHANGED <<header, exists, content, crashes>>
  BY DEF Close
<1>2. Types /\ Files /\ Shapes /\ Control /\ Marking /\ Covered /\ Untainted /\ Known
  BY <1>1 DEF RecoveryInv, Up, Types
<1>3. ~checkpoint.has_wal /\ wal.path = "wal" /\ Unmarked(Main)
  BY <1>1, <1>2 DEF Control, Marking
<1>4. Main' = Main /\ Second' = Second /\ Third' = Third
  BY <1>1 DEF Main, Second, Third
<1>5. \A p \in Path : Len(content[p]) \in Nat
  BY <1>2 DEF Files
<1>6. Files'
  BY <1>1, <1>2, <1>5 DEF Files
<1>7. Shapes'
  BY <1>2, <1>4 DEF Shapes
<1>8. Flushed(Main, Safe) \subseteq Flushed(Main, Len(Main))
  <2>1. Safe \in Nat /\ Safe <= Len(Main) /\ Len(Main) \in Nat
    BY <1>2, <1>3, <1>5 DEF Safe, Types, Files, Main, Path
  <2> QED BY <2>1, MoreIsMore
<1>9. acked \subseteq Stored \cup Flushed(Main', Len(Main'))
  BY <1>2, <1>3, <1>4, <1>8 DEF Covered
<1>10. \A m \in 2 .. Len(Main') : ~MarkedAt(Main', m)
  BY <1>3, <1>4, NotMarked
<1>11. Flushed(Second', Len(Second')) \subseteq Stored \cup Flushed(Main', Len(Main'))
  BY <1>1, <1>2, <1>3, <1>4, <1>9 DEF Untainted
<1>12. Flushed(Main', Len(Main')) \cap failed = {} /\ Flushed(Second', Len(Second')) \cap failed = {}
  BY <1>2, <1>4 DEF Untainted
<1>13. \A p \in Path : Logged(content'[p], Len(content'[p])) \subseteq 1 .. attempts
  BY <1>1, <1>2 DEF Known
<1>14. crashes' \in Nat /\ synced' = [p \in Path |-> Len(content'[p])] /\ header' = header /\ Forget
  BY <1>1, <1>2 DEF Types
<1> QED BY <1>6, <1>7, <1>9, <1>10, <1>11, <1>12, <1>13, <1>14, GoesDown

LEMMA CrashRecovers ==
  ASSUME RecoveryInv, Crash
  PROVE  RecoveryInv'
<1>1. mode \in {"up", "recovering"} /\ crashes' = crashes + 1 /\ Forget /\ UNCHANGED <<header, exists>>
  BY DEF Crash
<1>2. PICK a \in Survivors("wal"), b \in Survivors("wal.checkpoint"), c \in Survivors("wal.recovery") :
        /\ content' = [p \in Path |-> IF p = "wal" THEN a
                                      ELSE IF p = "wal.checkpoint" THEN b ELSE c]
        /\ synced' = [p \in Path |-> Len(content'[p])]
  BY DEF Crash
<1>3. Types /\ Files /\ Shapes /\ Untainted /\ Known /\ Up /\ Down
  BY DEF RecoveryInv, Types
<1>4. \A p \in Path : content[p] \in Seq(LogEntry) /\ synced[p] \in Nat /\ synced[p] <= Len(content[p])
        /\ Len(content[p]) \in Nat
  BY <1>3 DEF Files
<1>5. "wal" \in Path /\ "wal.checkpoint" \in Path /\ "wal.recovery" \in Path
  BY DEF Path
<1>6. /\ a \in Seq(LogEntry) /\ b \in Seq(LogEntry) /\ c \in Seq(LogEntry)
      /\ \E n \in synced["wal"] .. Len(Main) : CutAt(a, Main, n)
      /\ \E n \in synced["wal.checkpoint"] .. Len(Second) : CutAt(b, Second, n)
      /\ \E n \in synced["wal.recovery"] .. Len(Third) : CutAt(c, Third, n)
  <2>1. a \in Seq(LogEntry) /\ \E n \in synced["wal"] .. Len(Main) : CutAt(a, Main, n)
    BY <1>4, <1>5, SurvivorIs DEF Main
  <2>2. b \in Seq(LogEntry) /\ \E n \in synced["wal.checkpoint"] .. Len(Second) : CutAt(b, Second, n)
    BY <1>4, <1>5, SurvivorIs DEF Second
  <2>3. c \in Seq(LogEntry) /\ \E n \in synced["wal.recovery"] .. Len(Third) : CutAt(c, Third, n)
    BY <1>4, <1>5, SurvivorIs DEF Third
  <2> QED BY <2>1, <2>2, <2>3
<1>7. PICK x \in synced["wal"] .. Len(Main) : CutAt(a, Main, x)
  BY <1>6
<1>8. PICK y \in synced["wal.checkpoint"] .. Len(Second) : CutAt(b, Second, y)
  BY <1>6
<1>9. PICK z \in synced["wal.recovery"] .. Len(Third) : CutAt(c, Third, z)
  BY <1>6
<1>10. /\ Main \in Seq(LogEntry) /\ Second \in Seq(LogEntry) /\ Third \in Seq(LogEntry)
       /\ Len(Main) \in Nat /\ Len(Second) \in Nat /\ Len(Third) \in Nat
       /\ synced["wal"] \in Nat /\ synced["wal.checkpoint"] \in Nat
       /\ x \in 0 .. Len(Main) /\ y \in 0 .. Len(Second) /\ z \in 0 .. Len(Third)
       /\ synced["wal"] <= x /\ synced["wal.checkpoint"] <= y
       /\ x \in Nat /\ y \in Nat /\ z \in Nat
  BY <1>4, <1>5 DEF Main, Second, Third
<1>11. /\ Shaped(a)
       /\ Flushed(a, Len(a)) = Flushed(Main, x)
       /\ Logged(a, Len(a)) = Logged(Main, x)
       /\ Unmarked(Main) => Unmarked(a)
       /\ \A m \in 2 .. Len(Main) : MarkedAt(Main, m) =>
            IF m <= x THEN MarkedAt(a, m) /\ a[m] = Main[m] ELSE Unmarked(a)
       /\ x = Len(Main) => a = Main
       /\ Main = <<>> => a = <<>>
  BY <1>3, <1>6, <1>7, <1>10, CutLog DEF Shapes
<1>12. /\ Shaped(b)
       /\ Flushed(b, Len(b)) = Flushed(Second, y)
       /\ Logged(b, Len(b)) = Logged(Second, y)
       /\ Unmarked(b)
       /\ y = Len(Second) => b = Second
       /\ Second = <<>> => b = <<>>
  BY <1>3, <1>6, <1>8, <1>10, CutLog DEF Shapes
<1>13. /\ Shaped(c)
       /\ Logged(c, Len(c)) = Logged(Third, z)
       /\ Unmarked(c)
       /\ Third = <<>> => c = <<>>
  BY <1>3, <1>6, <1>9, <1>10, CutLog DEF Shapes
<1>14. Main' = a /\ Second' = b /\ Third' = c
  BY <1>2, <1>5 DEF Main, Second, Third
<1>15. Files'
  <2>1. content' \in [Path -> Seq(LogEntry)]
    BY <1>2, <1>6
  <2>2. \A p \in Path : Len(content'[p]) \in Nat
    BY <2>1
  <2>3. \A p \in Path \ exists' : content'[p] = <<>>
    BY <1>1, <1>3, <1>11, <1>12, <1>13, <1>14 DEF Files, Path, Main, Second, Third
  <2> QED BY <1>1, <1>2, <1>3, <2>1, <2>2, <2>3 DEF Files
<1>16. Flushed(Main, x) \subseteq Flushed(Main, Len(Main)) /\ Logged(Main, x) \subseteq Logged(Main, Len(Main))
       /\ Flushed(Second, y) \subseteq Flushed(Second, Len(Second))
       /\ Logged(Second, y) \subseteq Logged(Second, Len(Second))
       /\ Logged(Third, z) \subseteq Logged(Third, Len(Third))
  BY <1>10, MoreIsMore
<1>17. Unmarked(Main) \/ \E m \in 2 .. Len(Main) : MarkedAt(Main, m)
  BY <1>3 DEF Shapes
<1>18. Shapes'
  <2>1. Unmarked(a) \/ \E m \in 2 .. Len(a) : MarkedAt(a, m)
    <3>1. \A m : MarkedAt(a, m) => m \in 2 .. Len(a)
      BY DEF MarkedAt
    <3> QED BY <1>11, <1>17, <3>1
  <2> QED BY <1>11, <1>12, <1>13, <1>14, <2>1 DEF Shapes
<1>19. Flushed(a, Len(a)) \cap failed = {} /\ Flushed(b, Len(b)) \cap failed = {}
  BY <1>3, <1>11, <1>12, <1>16 DEF Untainted
<1>20. \A p \in Path : Logged(content'[p], Len(content'[p])) \subseteq 1 .. attempts
  <2>1. \A p \in Path : Logged(content[p], Len(content[p])) \subseteq 1 .. attempts
    BY <1>3 DEF Known
  <2>2. Logged(a, Len(a)) \subseteq 1 .. attempts /\ Logged(b, Len(b)) \subseteq 1 .. attempts
        /\ Logged(c, Len(c)) \subseteq 1 .. attempts
    BY <1>5, <1>11, <1>12, <1>13, <1>16, <2>1 DEF Main, Second, Third
  <2> QED BY <1>2, <2>2
\* a marker that is left is the marker that was there
<1>21. ASSUME NEW m \in 2 .. Len(a), MarkedAt(a, m)
       PROVE  /\ m \in 2 .. Len(Main) /\ MarkedAt(Main, m) /\ m <= x /\ a[m] = Main[m]
              /\ Flushed(a, m) = Flushed(Main, m) /\ Logged(a, m) = Logged(Main, m)
              /\ Logged(a, m) \cap failed = {}
  <2>1. ~Unmarked(a)
    BY <1>21, NotMarked
  <2>2. PICK k \in 2 .. Len(Main) : MarkedAt(Main, k)
    BY <1>11, <1>17, <2>1
  <2>3. k <= x /\ MarkedAt(a, k) /\ a[k] = Main[k]
    BY <1>11, <2>1, <2>2
  <2>4. m = k
    BY <1>21, <2>3 DEF MarkedAt
  <2>5. m \in Nat /\ \A i \in 1 .. m : a[i] = Main[i]
    BY <1>7, <1>10, <2>3, <2>4 DEF CutAt
  <2>6. Flushed(a, m) = Flushed(Main, m) /\ Logged(a, m) = Logged(Main, m)
    BY <2>5, SamePrefix
  <2> QED BY <1>3, <2>2, <2>3, <2>4, <2>6 DEF Untainted
<1>22. crashes' \in Nat
  BY <1>1, <1>3 DEF Types
<1>23. SUFFICES /\ Unmarked(a) => acked \subseteq Stored \cup Flushed(a, Len(a))
                /\ Unmarked(a) => Flushed(b, Len(b)) \subseteq Stored \cup Flushed(a, Len(a))
                /\ \A m \in 2 .. Len(a) : MarkedAt(a, m) =>
                     /\ a[m].of = header.root => acked \subseteq Stored \cup Flushed(b, Len(b))
                     /\ a[m].of # header.root =>
                          acked \subseteq Stored \cup Flushed(a, m) \cup Flushed(b, Len(b))
  BY <1>1, <1>2, <1>14, <1>15, <1>18, <1>19, <1>20, <1>21, <1>22, <1>23, GoesDown
<1>24. CASE mode = "recovering"
  <2>1. synced["wal"] = Len(Main) /\ synced["wal.checkpoint"] = Len(Second)
    BY <1>3, <1>24 DEF Down
  <2>2. a = Main /\ b = Second
    BY <1>10, <1>11, <1>12, <2>1
  <2> QED BY <1>3, <1>24, <2>2 DEF Down, Untainted
<1>25. CASE mode = "up"
  <2>1. Control /\ Marking /\ Covered
    BY <1>3, <1>25 DEF Up
  <2>2. CASE ~checkpoint.has_wal \/ checkpoint.phase = "marking"
    <3>1. wal.path = "wal" /\ Safe \in Nat /\ Safe <= x
      BY <1>3, <1>10, <2>1, <2>2 DEF Control, Safe, Types
    <3>2. Flushed(Main, Safe) \subseteq Flushed(a, Len(a))
      BY <1>10, <1>11, <3>1, MoreIsMore
    <3>3. acked \subseteq Stored \cup Flushed(a, Len(a))
      BY <2>1, <2>2, <3>2 DEF Covered
    <3>4. Flushed(b, Len(b)) \subseteq acked
      BY <1>3, <1>12, <1>16, <1>25, <2>2 DEF Untainted
    <3>5. ASSUME NEW m \in 2 .. Len(a), MarkedAt(a, m)
          PROVE  /\ a[m].of = header.root => acked \subseteq Stored \cup Flushed(b, Len(b))
                 /\ a[m].of # header.root =>
                      acked \subseteq Stored \cup Flushed(a, m) \cup Flushed(b, Len(b))
      <4>1. m \in 2 .. Len(Main) /\ MarkedAt(Main, m) /\ a[m] = Main[m] /\ Flushed(a, m) = Flushed(Main, m)
        BY <1>21, <3>5
      <4>2. ~Unmarked(Main)
        BY <4>1, NotMarked
      <4>3. checkpoint.has_wal /\ checkpoint.phase = "marking"
        BY <2>1, <2>2, <4>2 DEF Marking
      <4>4. m = Len(Main) - 1 /\ Main[m] = Marker(checkpoint.root) /\ checkpoint.root # header.root
            /\ wal_size <= Len(Main) - 2
        <5>1. MarkedAt(Main, Len(Main) - 1) /\ Len(Main) > 2
          BY <2>1, <4>3 DEF Marking
        <5>2. m = Len(Main) - 1
          BY <1>10, <4>1, <5>1 DEF MarkedAt
        <5> QED BY <2>1, <4>3, <5>2 DEF Marking
      <4>5. Main[m].of = checkpoint.root
        BY <4>4, EntryFacts
      <4>6. Safe <= m /\ m \in Nat
        <5>1. Safe <= wal_size /\ wal_size \in Nat
          BY <1>3, <1>10, <3>1 DEF Safe, Types
        <5> QED BY <1>10, <3>1, <4>1, <4>4, <5>1
      <4>7. Flushed(Main, Safe) \subseteq Flushed(Main, m)
        BY <3>1, <4>6, MoreIsMore
      <4> QED BY <2>1, <2>2, <4>1, <4>4, <4>5, <4>7 DEF Covered
    <3> QED BY <3>3, <3>4, <3>5
  <2>3. CASE checkpoint.has_wal /\ checkpoint.phase # "marking"
    <3>1. synced["wal"] = Len(Main) /\ MarkedAt(Main, Len(Main) - 1)
          /\ Main[Len(Main) - 1] = Marker(checkpoint.root) /\ Len(Main) > 2
      BY <2>1, <2>3 DEF Marking
    <3>2. a = Main
      BY <1>10, <1>11, <3>1
    <3>3. ~Unmarked(a)
      <4>1. Len(Main) - 1 \in 2 .. Len(Main)
        BY <1>10, <3>1
      <4> QED BY <3>1, <3>2, <4>1, NotMarked
    <3>4. \A m \in 2 .. Len(a) : MarkedAt(a, m) => m = Len(Main) - 1
      BY <1>10, <3>1, <3>2 DEF MarkedAt
    <3>5. Main[Len(Main) - 1].of = checkpoint.root
      BY <3>1, EntryFacts
    <3>6. checkpoint.phase \in {"marked", "writing", "counted", "headed"}
      <4>1. checkpoint.phase \in {"none", "starting", "marking", "marked", "writing", "counted", "headed"}
        BY <1>3 DEF Types, Checkpoints
      <4> QED BY <2>1, <2>3, <4>1 DEF Control
    <3>7. checkpoint.phase # "marked" => Flushed(Second, Safe) \subseteq Flushed(b, Len(b))
      <4> SUFFICES ASSUME checkpoint.phase # "marked"
                   PROVE  Flushed(Second, Safe) \subseteq Flushed(b, Len(b))
        OBVIOUS
      <4>1. wal.path = "wal.checkpoint"
        BY <2>1, <2>3 DEF Control
      <4>2. Safe \in Nat /\ Safe <= y
        BY <1>3, <1>10, <4>1 DEF Safe, Types
      <4> QED BY <1>10, <1>12, <4>2, MoreIsMore
    <3>8. checkpoint.phase = "headed" => checkpoint.root = header.root
      BY <2>1 DEF Marking
    <3>9. checkpoint.phase # "headed" => checkpoint.root # header.root
      BY <2>1, <2>3 DEF Marking
    <3>10. checkpoint.phase = "headed" => acked \subseteq Stored \cup Flushed(b, Len(b))
      BY <2>1, <2>3, <3>7 DEF Covered
    <3>11. checkpoint.phase # "headed" =>
             acked \subseteq Stored \cup Flushed(a, Len(Main) - 1) \cup Flushed(b, Len(b))
      BY <2>1, <2>3, <3>2, <3>6, <3>7 DEF Covered
    <3> QED BY <3>2, <3>3, <3>4, <3>5, <3>8, <3>9, <3>10, <3>11
  <2> QED BY <2>2, <2>3
<1> QED BY <1>1, <1>24, <1>25

\* A step of recovery that leaves memory alone.
LEMMA RecoveryStep ==
  ASSUME RecoveryInv, mode = "recovering", UNCHANGED recoveryFrame,
         Files', Shapes', recovery' \in Recoveries, recovery'.stage # "none",
         synced'["wal"] = Len(Main'), synced'["wal.checkpoint"] = Len(Second'),
         Unmarked(Main') =>
           /\ acked \subseteq Stored \cup Flushed(Main', Len(Main'))
           /\ Flushed(Second', Len(Second')) \subseteq Stored \cup Flushed(Main', Len(Main')),
         \A m \in 2 .. Len(Main') : MarkedAt(Main', m) =>
           /\ Main'[m].of = header.root => acked \subseteq Stored \cup Flushed(Second', Len(Second'))
           /\ Main'[m].of # header.root =>
                acked \subseteq Stored \cup Flushed(Main', m) \cup Flushed(Second', Len(Second'))
           /\ Logged(Main', m) \cap failed = {},
         recovery'.stage \in {"merged", "synced"} =>
           /\ acked \subseteq Stored \cup Flushed(Third', Len(Third'))
           /\ Flushed(Third', Len(Third')) \cap failed = {}
           /\ Flushed(Second', Len(Second')) \subseteq Flushed(Third', Len(Third')),
         recovery'.stage = "synced" => synced'["wal.recovery"] = Len(Third'),
         recovery'.stage = "moved" => Unmarked(Main'),
         Flushed(Main', Len(Main')) \cap failed = {},
         Flushed(Second', Len(Second')) \cap failed = {},
         \A p \in Path : Logged(content'[p], Len(content'[p])) \subseteq 1 .. attempts
  PROVE  RecoveryInv'
<1>1. Types /\ Down /\ Untainted /\ Known
  BY DEF RecoveryInv
<1>2. UNCHANGED <<header, iteration_count, wal, wal_size, wal_lock, database, attempts, acked,
                  failed, mode, commit, checkpoint, checkpoints, crashes>>
  BY DEF recoveryFrame, memVars, ghostVars
<1>3. Stored' = Stored /\ Snapshot' = Snapshot
  BY <1>2 DEF Stored, Snapshot
<1>4. Types'
  <2>1. wal.path = "wal" /\ wal_size = 0
    BY <1>1 DEF Down, NewWAL
  <2>2. wal_size' <= Len(content'[wal'.path])
    BY <1>2, <2>1 DEF Files, Path
  <2> QED BY <1>1, <1>2, <2>2 DEF Types
<1>5. Up' /\ Down'
  BY <1>1, <1>2, <1>3 DEF Up, Down
<1>6. Untainted'
  BY <1>1, <1>2, <1>3 DEF Untainted
<1>7. Known'
  BY <1>1, <1>2, <1>3 DEF Known
<1> QED BY <1>4, <1>5, <1>6, <1>7 DEF RecoveryInv

\* What a log says to recovery.
LEMMA MainLog ==
  ASSUME RecoveryInv
  PROVE  /\ Main \in Seq(LogEntry) /\ Second \in Seq(LogEntry) /\ Third \in Seq(LogEntry)
         /\ Len(Main) \in Nat /\ Len(Second) \in Nat /\ Len(Third) \in Nat
         /\ Shaped(Main) /\ Shaped(Second) /\ Shaped(Third)
         /\ Unmarked(Main) <=> Markers(Main) = {}
         /\ Markers(Main) # {} =>
              /\ MarkerAt(Main) \in 2 .. Len(Main)
              /\ MarkedAt(Main, MarkerAt(Main))
<1>1. Files /\ Shapes
  BY DEF RecoveryInv, Types
<1>2. /\ Main \in Seq(LogEntry) /\ Second \in Seq(LogEntry) /\ Third \in Seq(LogEntry)
      /\ Len(Main) \in Nat /\ Len(Second) \in Nat /\ Len(Third) \in Nat
  BY <1>1 DEF Files, Path, Main, Second, Third
<1>3. Shaped(Main) /\ Shaped(Second) /\ Shaped(Third)
  BY <1>1 DEF Shapes
<1>4. /\ Unmarked(Main) <=> Markers(Main) = {}
      /\ \A m \in 2 .. Len(Main) : MarkedAt(Main, m) => Markers(Main) = {m} /\ MarkerAt(Main) = m
  BY <1>2, <1>3, MarkersAre
<1>5. ASSUME Markers(Main) # {}
      PROVE  MarkerAt(Main) \in 2 .. Len(Main) /\ MarkedAt(Main, MarkerAt(Main))
  <2>1. PICK m \in 2 .. Len(Main) : MarkedAt(Main, m)
    BY <1>1, <1>4, <1>5 DEF Shapes
  <2> QED BY <1>4, <2>1
<1> QED BY <1>2, <1>3, <1>4, <1>5

LEMMA OpenDatabaseRecovers ==
  ASSUME RecoveryInv, OpenDatabase
  PROVE  RecoveryInv'
<1>1. /\ mode # "up" /\ mode # "recovering" /\ mode' = "recovering"
      /\ iteration_count' = header.iteration
      /\ recovery' = [stage |-> "scan", state |-> "MAIN_WAL"]
      /\ UNCHANGED <<header, exists, content, synced, wal, wal_size, wal_lock, database,
                     attempts, acked, failed, commit, checkpoint, checkpoints, crashes>>
  BY DEF OpenDatabase, diskVars, ghostVars
<1>2. Types /\ Files /\ Shapes /\ Down /\ Untainted /\ Known
  BY DEF RecoveryInv, Types
<1>3. recovery'.stage = "scan" /\ recovery' \in Recoveries
  BY <1>1 DEF Recoveries
<1>4. Main' = Main /\ Second' = Second /\ Third' = Third /\ Stored' = Stored /\ Snapshot' = Snapshot
  BY <1>1 DEF Main, Second, Third, Stored, Snapshot
<1>5. Types'
  <2>1. iteration_count' \in Nat
    BY <1>1, <1>2 DEF Types, Headers
  <2> QED BY <1>1, <1>2, <1>3, <2>1 DEF Types, Files
<1>6. Shapes'
  BY <1>2, <1>4 DEF Shapes
<1>7. Up' /\ Down'
  BY <1>1, <1>2, <1>3, <1>4 DEF Up, Down
<1>8. Untainted'
  BY <1>1, <1>2, <1>3, <1>4 DEF Untainted
<1>9. Known'
  BY <1>1, <1>2, <1>4 DEF Known
<1> QED BY <1>5, <1>6, <1>7, <1>8, <1>9 DEF RecoveryInv

LEMMA RefuseToOpenRecovers ==
  ASSUME RecoveryInv, RefuseToOpen
  PROVE  RecoveryInv'
<1>1. /\ mode = "recovering" /\ mode' = "refused" /\ recovery' = NoRecovery
      /\ UNCHANGED <<header, exists, content, synced, iteration_count, wal, wal_size, wal_lock, database,
                     attempts, acked, failed, commit, checkpoint, checkpoints, crashes>>
  BY DEF RefuseToOpen, Scanning, diskVars, memVars, ghostVars
<1>2. Types /\ Files /\ Shapes /\ Down /\ Untainted /\ Known
  BY DEF RecoveryInv, Types
<1>3. recovery'.stage = "none" /\ recovery' \in Recoveries
  BY <1>1 DEF NoRecovery, Recoveries
<1>4. Main' = Main /\ Second' = Second /\ Third' = Third /\ Stored' = Stored /\ Snapshot' = Snapshot
  BY <1>1 DEF Main, Second, Third, Stored, Snapshot
<1>5. Types'
  BY <1>1, <1>2, <1>3 DEF Types, Files
<1>6. Shapes'
  BY <1>2, <1>4 DEF Shapes
<1>7. Up' /\ Down'
  BY <1>1, <1>2, <1>3, <1>4 DEF Up, Down
<1>8. Untainted'
  BY <1>1, <1>2, <1>3, <1>4 DEF Untainted
<1>9. Known'
  BY <1>1, <1>2, <1>4 DEF Known
<1> QED BY <1>5, <1>6, <1>7, <1>8, <1>9 DEF RecoveryInv

LEMMA ReplayCheckpointWALRecovers ==
  ASSUME RecoveryInv, ReplayCheckpointWAL
  PROVE  RecoveryInv'
<1>1. /\ mode = "recovering" /\ Markers(Main) # {} /\ Main[MarkerAt(Main)].of = header.root
      /\ MoveFile("wal.checkpoint", "wal")
      /\ recovery' = [stage |-> "scan", state |-> "CHECKPOINT_WAL"]
      /\ UNCHANGED recoveryFrame
  BY DEF ReplayCheckpointWAL, Accepted, Scanning, CheckpointWasSuccessful, Rescan, MainWAL, Main
<1>2. Types /\ Files /\ Shapes /\ Down /\ Untainted /\ Known
  BY DEF RecoveryInv, Types
<1>3. recovery'.stage = "scan" /\ recovery' \in Recoveries
  BY <1>1 DEF Recoveries
<1>4. Files' /\ content'["wal.checkpoint"] = <<>> /\ synced'["wal.checkpoint"] = 0
      /\ content'["wal"] = Second /\ synced'["wal"] = synced["wal.checkpoint"]
      /\ content'["wal.recovery"] = Third
  BY <1>1, <1>2, MovedFile DEF Path, Second, Third
<1>5. Main' = Second /\ Second' = <<>> /\ Third' = Third
  BY <1>4 DEF Main, Second, Third
<1>6. Len(Second') = 0 /\ Shaped(Second') /\ Unmarked(Second')
      /\ Flushed(Second', Len(Second')) = {} /\ Logged(Second', Len(Second')) = {}
  BY <1>5, EmptyLog
<1>7. Shapes' /\ Unmarked(Main')
  BY <1>2, <1>5, <1>6 DEF Shapes
<1>8. synced'["wal"] = Len(Main') /\ synced'["wal.checkpoint"] = Len(Second')
  BY <1>1, <1>2, <1>4, <1>5, <1>6 DEF Down
<1>9. MarkerAt(Main) \in 2 .. Len(Main) /\ MarkedAt(Main, MarkerAt(Main))
  BY <1>1, MainLog
<1>10. acked \subseteq Stored \cup Flushed(Main', Len(Main'))
  BY <1>1, <1>2, <1>5, <1>9 DEF Down
<1>11. \A m \in 2 .. Len(Main') : ~MarkedAt(Main', m)
  BY <1>7, NotMarked
<1>12. Flushed(Main', Len(Main')) \cap failed = {}
  BY <1>2, <1>5 DEF Untainted
<1>13. \A p \in Path : Logged(content'[p], Len(content'[p])) \subseteq 1 .. attempts
  BY <1>2, <1>4, <1>5, <1>6 DEF Known, Path, Main, Second, Third
<1> QED BY <1>1, <1>3, <1>4, <1>6, <1>7, <1>8, <1>10, <1>11, <1>12, <1>13, RecoveryStep

LEMMA SyncRecoveryWALRecovers ==
  ASSUME RecoveryInv, SyncRecoveryWAL
  PROVE  RecoveryInv'
<1>1. /\ mode = "recovering" /\ recovery.stage = "merged"
      /\ synced' = [synced EXCEPT !["wal.recovery"] = Len(Third)]
      /\ recovery' = [recovery EXCEPT !.stage = "synced"]
      /\ UNCHANGED recoveryFrame /\ UNCHANGED <<exists, content>>
  BY DEF SyncRecoveryWAL, SyncFile, Third
<1>2. Types /\ Files /\ Shapes /\ Down /\ Untainted /\ Known
  BY DEF RecoveryInv, Types
<1>3. recovery'.stage = "synced" /\ recovery' \in Recoveries
  BY <1>1, <1>2 DEF Types, Recoveries
<1>4. Main' = Main /\ Second' = Second /\ Third' = Third
  BY <1>1 DEF Main, Second, Third
<1>5. Len(Third) \in Nat /\ synced' \in [Path -> Nat] /\ synced'["wal.recovery"] = Len(Third)
      /\ synced'["wal"] = synced["wal"] /\ synced'["wal.checkpoint"] = synced["wal.checkpoint"]
  BY <1>1, <1>2 DEF Files, Path, Third
<1>6. Files'
  <2>1. \A p \in Path : synced'[p] <= Len(content'[p])
    BY <1>1, <1>2, <1>5 DEF Files, Path, Third
  <2> QED BY <1>1, <1>2, <1>5, <2>1 DEF Files
<1>7. Shapes'
  BY <1>2, <1>4 DEF Shapes
<1>8. \A p \in Path : Logged(content'[p], Len(content'[p])) \subseteq 1 .. attempts
  BY <1>1, <1>2 DEF Known
<1>9. synced'["wal"] = Len(Main') /\ synced'["wal.checkpoint"] = Len(Second')
  BY <1>1, <1>2, <1>4, <1>5 DEF Down
<1>10. \A m \in 2 .. Len(Main') : MarkedAt(Main', m) =>
           /\ Main'[m].of = header.root => acked \subseteq Stored \cup Flushed(Second', Len(Second'))
           /\ Main'[m].of # header.root =>
                acked \subseteq Stored \cup Flushed(Main', m) \cup Flushed(Second', Len(Second'))
           /\ Logged(Main', m) \cap failed = {}
  BY <1>1, <1>2, <1>4 DEF Down, Untainted
<1>11. Unmarked(Main') =>
           /\ acked \subseteq Stored \cup Flushed(Main', Len(Main'))
           /\ Flushed(Second', Len(Second')) \subseteq Stored \cup Flushed(Main', Len(Main'))
  BY <1>1, <1>2, <1>4 DEF Down, Untainted
<1>12. /\ acked \subseteq Stored \cup Flushed(Third', Len(Third'))
       /\ Flushed(Third', Len(Third')) \cap failed = {}
       /\ Flushed(Second', Len(Second')) \subseteq Flushed(Third', Len(Third'))
       /\ Flushed(Main', Len(Main')) \cap failed = {}
       /\ Flushed(Second', Len(Second')) \cap failed = {}
  BY <1>1, <1>2, <1>4 DEF Down, Untainted
<1> QED BY <1>1, <1>3, <1>4, <1>5, <1>6, <1>7, <1>8, <1>9, <1>10, <1>11, <1>12, RecoveryStep

LEMMA MoveRecoveryWALRecovers ==
  ASSUME RecoveryInv, MoveRecoveryWAL
  PROVE  RecoveryInv'
<1>1. /\ mode = "recovering" /\ recovery.stage = "synced"
      /\ MoveFile("wal.recovery", "wal")
      /\ recovery' = [recovery EXCEPT !.stage = "moved"]
      /\ UNCHANGED recoveryFrame
  BY DEF MoveRecoveryWAL
<1>2. Types /\ Files /\ Shapes /\ Down /\ Untainted /\ Known
  BY DEF RecoveryInv, Types
<1>3. recovery'.stage = "moved" /\ recovery' \in Recoveries
  BY <1>1, <1>2 DEF Types, Recoveries
<1>4. Files' /\ content'["wal.recovery"] = <<>>
      /\ content'["wal"] = Third /\ synced'["wal"] = synced["wal.recovery"]
      /\ content'["wal.checkpoint"] = Second /\ synced'["wal.checkpoint"] = synced["wal.checkpoint"]
  BY <1>1, <1>2, MovedFile DEF Path, Second, Third
<1>5. Main' = Third /\ Second' = Second /\ Third' = <<>>
  BY <1>4 DEF Main, Second, Third
<1>6. Len(Third') = 0 /\ Shaped(Third') /\ Unmarked(Third') /\ Logged(Third', Len(Third')) = {}
  BY <1>5, EmptyLog
<1>7. Shapes' /\ Unmarked(Main')
  BY <1>2, <1>5, <1>6 DEF Shapes
<1>8. synced'["wal"] = Len(Main') /\ synced'["wal.checkpoint"] = Len(Second')
  BY <1>1, <1>2, <1>4, <1>5 DEF Down
<1>9. /\ acked \subseteq Stored \cup Flushed(Main', Len(Main'))
      /\ Flushed(Second', Len(Second')) \subseteq Stored \cup Flushed(Main', Len(Main'))
      /\ Flushed(Main', Len(Main')) \cap failed = {}
      /\ Flushed(Second', Len(Second')) \cap failed = {}
  BY <1>1, <1>2, <1>5 DEF Down, Untainted
<1>10. \A m \in 2 .. Len(Main') : ~MarkedAt(Main', m)
  BY <1>7, NotMarked
<1>11. \A p \in Path : Logged(content'[p], Len(content'[p])) \subseteq 1 .. attempts
  BY <1>2, <1>4, <1>5, <1>6 DEF Known, Path, Main, Second, Third
<1> QED BY <1>1, <1>3, <1>4, <1>7, <1>8, <1>9, <1>10, <1>11, RecoveryStep

LEMMA RemoveCheckpointWALRecovers ==
  ASSUME RecoveryInv, RemoveCheckpointWAL
  PROVE  RecoveryInv'
<1>1. /\ mode = "recovering" /\ recovery.stage = "moved"
      /\ RemoveFile("wal.checkpoint")
      /\ recovery' = [stage |-> "scan", state |-> "CHECKPOINT_WAL"]
      /\ UNCHANGED recoveryFrame
  BY DEF RemoveCheckpointWAL, Rescan
<1>2. Types /\ Files /\ Shapes /\ Down /\ Untainted /\ Known
  BY DEF RecoveryInv, Types
<1>3. recovery'.stage = "scan" /\ recovery' \in Recoveries
  BY <1>1 DEF Recoveries
<1>4. Files' /\ content'["wal.checkpoint"] = <<>> /\ synced'["wal.checkpoint"] = 0
      /\ content'["wal"] = Main /\ synced'["wal"] = synced["wal"]
      /\ content'["wal.recovery"] = Third
  BY <1>1, <1>2, RemovedFile DEF Path, Main, Third
<1>5. Main' = Main /\ Second' = <<>> /\ Third' = Third
  BY <1>4 DEF Main, Second, Third
<1>6. Len(Second') = 0 /\ Shaped(Second') /\ Unmarked(Second')
      /\ Flushed(Second', Len(Second')) = {} /\ Logged(Second', Len(Second')) = {}
  BY <1>5, EmptyLog
<1>7. Shapes' /\ Unmarked(Main')
  BY <1>1, <1>2, <1>5, <1>6 DEF Shapes, Down
<1>8. synced'["wal"] = Len(Main') /\ synced'["wal.checkpoint"] = Len(Second')
  BY <1>1, <1>2, <1>4, <1>5, <1>6 DEF Down
<1>9. /\ acked \subseteq Stored \cup Flushed(Main', Len(Main'))
      /\ Flushed(Main', Len(Main')) \cap failed = {}
  BY <1>1, <1>2, <1>5, <1>7 DEF Down, Untainted
<1>10. \A m \in 2 .. Len(Main') : ~MarkedAt(Main', m)
  BY <1>7, NotMarked
<1>11. \A p \in Path : Logged(content'[p], Len(content'[p])) \subseteq 1 .. attempts
  BY <1>2, <1>4, <1>5, <1>6 DEF Known, Path, Main, Second, Third
<1> QED BY <1>1, <1>3, <1>4, <1>6, <1>7, <1>8, <1>9, <1>10, <1>11, RecoveryStep

\* The merged log, entry by entry.
LEMMA MergedEntries ==
  ASSUME NEW s \in Seq(LogEntry), NEW t \in Seq(LogEntry), NEW m \in 2 .. Len(s),
         NEW u, u = SubSeq(s, 1, m - 1) \o SubSeq(t, 2, Len(t))
  PROVE  /\ u \in Seq(LogEntry)
         /\ Len(t) = 0 => Len(u) = m - 1
         /\ Len(t) # 0 => Len(u) = (m - 2) + Len(t)
         /\ \A i \in 1 .. (m - 1) : u[i] = s[i]
         /\ \A j \in 2 .. Len(t) : u[(m - 2) + j] = t[j]
<1> DEFINE A == SubSeq(s, 1, m - 1)
           B == SubSeq(t, 2, Len(t))
<1>1. A \in Seq(LogEntry) /\ Len(A) = m - 1 /\ \A i \in 1 .. (m - 1) : A[i] = s[i]
  OBVIOUS
<1>2. B \in Seq(LogEntry) /\ Len(B) = (IF Len(t) = 0 THEN 0 ELSE Len(t) - 1)
      /\ \A i \in 1 .. Len(B) : B[i] = t[i + 1]
  OBVIOUS
<1>3. u = A \o B
  OBVIOUS
<1> HIDE DEF A, B
<1>4. u \in Seq(LogEntry) /\ Len(u) = Len(A) + Len(B)
      /\ (\A i \in 1 .. Len(A) : u[i] = A[i])
      /\ (\A i \in 1 .. Len(A) + Len(B) : i > Len(A) => u[i] = B[i - Len(A)])
  <2>1. A \in Seq(LogEntry) /\ B \in Seq(LogEntry)
    BY <1>1, <1>2
  <2> QED BY ONLY <1>3, <2>1
<1>5. Len(t) \in Nat /\ Len(A) \in Nat /\ Len(B) \in Nat /\ m \in Nat
  BY <1>1, <1>2
<1>6. ASSUME NEW j \in 2 .. Len(t) PROVE u[(m - 2) + j] = t[j]
  <2>1. Len(B) = Len(t) - 1
    BY <1>2, <1>5
  <2>2. (m - 2) + j \in 1 .. Len(A) + Len(B) /\ (m - 2) + j > Len(A)
        /\ ((m - 2) + j) - Len(A) = j - 1 /\ j - 1 \in 1 .. Len(B) /\ (j - 1) + 1 = j
    BY <1>1, <1>5, <2>1
  <2>3. u[(m - 2) + j] = B[j - 1]
    BY <1>4, <2>2
  <2> QED BY <1>2, <2>2, <2>3
<1>7. \A i \in 1 .. (m - 1) : u[i] = s[i]
  BY <1>1, <1>4
<1>8. (Len(t) = 0 => Len(u) = m - 1) /\ (Len(t) # 0 => Len(u) = (m - 2) + Len(t))
  BY <1>1, <1>2, <1>4, <1>5
<1> QED BY <1>4, <1>6, <1>7, <1>8

\* The merged log has what was committed before the marker and what was
\* committed to the checkpoint log, and nothing that neither log had.
LEMMA MergedIs ==
  ASSUME NEW s \in Seq(LogEntry), NEW t \in Seq(LogEntry), NEW m \in 2 .. Len(s),
         Shaped(s), Shaped(t), MarkedAt(s, m), Unmarked(t),
         NEW u \in Seq(LogEntry),
         Len(t) = 0 => Len(u) = m - 1, Len(t) # 0 => Len(u) = (m - 2) + Len(t),
         \A i \in 1 .. (m - 1) : u[i] = s[i],
         \A j \in 2 .. Len(t) : u[(m - 2) + j] = t[j]
  PROVE  /\ Shaped(u) /\ Unmarked(u)
         /\ Flushed(s, m) \subseteq Flushed(u, Len(u))
         /\ Flushed(t, Len(t)) \subseteq Flushed(u, Len(u))
         /\ Flushed(u, Len(u)) \subseteq Logged(s, m) \cup Flushed(t, Len(t))
         /\ Logged(u, Len(u)) \subseteq Logged(s, m) \cup Logged(t, Len(t))
<1> DEFINE k == m - 1
<1>1. k \in Nat /\ k > 0 /\ k + 1 = m /\ m \in Nat /\ Len(t) \in Nat /\ Len(s) \in Nat /\ k < Len(s)
      /\ Len(u) \in Nat /\ k <= Len(u)
  OBVIOUS
<1>5. \A j \in 2 .. Len(t) : u[(m - 2) + j] = t[j]
  OBVIOUS
<1>6. \A i \in 1 .. k : u[i] = s[i]
  OBVIOUS
<1> HIDE DEF k
<1>7. \A i \in 1 .. Len(u) : i > k => (i - k) + 1 \in 2 .. Len(t) /\ u[i] = t[(i - k) + 1]
  <2> SUFFICES ASSUME NEW i \in 1 .. Len(u), i > k
               PROVE  (i - k) + 1 \in 2 .. Len(t) /\ u[i] = t[(i - k) + 1]
    OBVIOUS
  <2> DEFINE j == (i - k) + 1
  <2>1. Len(t) # 0
    BY <1>1 DEF k
  <2>2. Len(u) = (m - 2) + Len(t)
    BY <2>1
  <2>3. j \in 2 .. Len(t) /\ (m - 2) + j = i
    BY <1>1, <2>2 DEF k
  <2> HIDE DEF j
  <2>4. u[i] = t[j]
    BY <1>5, <2>3
  <2> QED BY <2>3, <2>4 DEF j
<1>8. \A j \in 2 .. Len(t) : (j - 1) + k \in 1 .. Len(u) /\ (j - 1) + k > k /\ u[(j - 1) + k] = t[j]
  <2> SUFFICES ASSUME NEW j \in 2 .. Len(t)
               PROVE  (j - 1) + k \in 1 .. Len(u) /\ (j - 1) + k > k /\ u[(j - 1) + k] = t[j]
    OBVIOUS
  <2>1. Len(t) # 0
    BY <1>1
  <2>2. (j - 1) + k \in 1 .. Len(u) /\ (j - 1) + k > k /\ (m - 2) + j = (j - 1) + k
    BY <1>1, <2>1 DEF k
  <2> QED BY <1>5, <2>2
<1>9. \A i \in 1 .. Len(u) : i \in 1 .. k \/ i > k
  BY <1>1
<1>10. Unmarked(u)
  <2>1. \A i \in 1 .. k : s[i].type # "CHECKPOINT"
    BY <1>1 DEF MarkedAt, IsMarker
  <2>2. \A j \in 2 .. Len(t) : t[j].type # "CHECKPOINT"
    BY DEF Unmarked, IsMarker
  <2> QED BY <1>6, <1>7, <1>9, <2>1, <2>2 DEF Unmarked, IsMarker
<1>11. Shaped(u)
  <2>1. \A i \in 1 .. k : u[i] # Torn
    BY <1>1, <1>6 DEF Shaped
  <2>2. \A i \in 1 .. Len(u) : i > k /\ u[i] = Torn => i = Len(u)
    <3> SUFFICES ASSUME NEW i \in 1 .. Len(u), i > k, u[i] = Torn PROVE i = Len(u)
      OBVIOUS
    <3>1. (i - k) + 1 \in 1 .. Len(t) /\ t[(i - k) + 1] = Torn
      BY <1>1, <1>7
    <3>2. (i - k) + 1 = Len(t)
      BY <3>1 DEF Shaped
    <3>3. Len(t) # 0
      BY <1>1, <3>1
    <3>4. Len(u) = (m - 2) + Len(t)
      BY <3>3
    <3> QED BY ONLY <1>1, <3>2, <3>4, i \in 1 .. Len(u)
  <2>3. u[1] = s[1] /\ s[1].type \in {"WAL_VERSION", "TORN"}
    BY <1>1, <1>6 DEF Shaped
  <2> QED BY <1>9, <2>1, <2>2, <2>3 DEF Shaped
<1>12. Flushed(s, m) \subseteq Flushed(u, Len(u))
  <2>1. s[k + 1].type = "CHECKPOINT"
    BY <1>1 DEF MarkedAt, IsMarker
  <2>2. s[k + 1] # Flush /\ \A c \in Commit : s[k + 1] # Data(c)
    BY <2>1, EntryFacts
  <2>3. Flushed(s, k + 1) = Flushed(s, k)
    BY <1>1, <2>2, OneMore
  <2>4. Flushed(u, k) = Flushed(s, k)
    BY <1>1, <1>6, SamePrefix
  <2>5. Flushed(u, k) \subseteq Flushed(u, Len(u))
    BY <1>1, MoreIsMore
  <2> QED BY <1>1, <2>3, <2>4, <2>5
<1>13. \A j \in 1 .. Len(t) : (t[j] = Flush \/ \E c \in Commit : t[j] = Data(c)) => j \in 2 .. Len(t)
  <2> SUFFICES ASSUME NEW j \in 1 .. Len(t), t[j] = Flush \/ \E c \in Commit : t[j] = Data(c)
               PROVE  j # 1
    BY <1>1
  <2>1. t[j].type \notin {"WAL_VERSION", "TORN"}
    BY EntryFacts
  <2> QED BY <2>1 DEF Shaped
<1>14. Flushed(t, Len(t)) \subseteq Flushed(u, Len(u))
  <2> SUFFICES ASSUME NEW c \in Flushed(t, Len(t)) PROVE c \in Flushed(u, Len(u))
    OBVIOUS
  <2>1. c \in Commit
    BY DEF Flushed
  <2>2. PICK i \in 1 .. Len(t), j \in 1 .. Len(t) : i < j /\ t[i] = Data(c) /\ t[j] = Flush
    BY DEF Flushed
  <2>3. i \in 2 .. Len(t) /\ j \in 2 .. Len(t)
    BY <1>13, <2>1, <2>2
  <2>4. (i - 1) + k \in 1 .. Len(u) /\ (j - 1) + k \in 1 .. Len(u)
        /\ u[(i - 1) + k] = Data(c) /\ u[(j - 1) + k] = Flush
    BY <1>8, <2>2, <2>3
  <2>5. (i - 1) + k < (j - 1) + k
    BY <1>1, <2>2
  <2> QED BY <2>1, <2>4, <2>5 DEF Flushed
<1>15. Logged(s, k) \subseteq Logged(s, m)
  BY <1>1, MoreIsMore
<1>16. Flushed(u, Len(u)) \subseteq Logged(s, m) \cup Flushed(t, Len(t))
  <2> SUFFICES ASSUME NEW c \in Flushed(u, Len(u))
               PROVE  c \in Logged(s, k) \/ c \in Flushed(t, Len(t))
    BY <1>15
  <2>1. c \in Commit
    BY DEF Flushed
  <2>2. PICK i \in 1 .. Len(u), j \in 1 .. Len(u) : i < j /\ u[i] = Data(c) /\ u[j] = Flush
    BY DEF Flushed
  <2>3. CASE i \in 1 .. k
    BY <1>6, <2>1, <2>2, <2>3 DEF Logged
  <2>4. CASE i > k
    <3>1. j > k
      BY <1>1, <2>2, <2>4
    <3>2. (i - k) + 1 \in 2 .. Len(t) /\ t[(i - k) + 1] = Data(c)
          /\ (j - k) + 1 \in 2 .. Len(t) /\ t[(j - k) + 1] = Flush
      BY <1>7, <2>2, <2>4, <3>1
    <3>3. (i - k) + 1 \in 1 .. Len(t) /\ (j - k) + 1 \in 1 .. Len(t) /\ (i - k) + 1 < (j - k) + 1
      BY <1>1, <2>2, <3>2
    <3> QED BY <2>1, <3>2, <3>3 DEF Flushed
  <2> QED BY <1>9, <2>3, <2>4
<1>17. Logged(u, Len(u)) \subseteq Logged(s, m) \cup Logged(t, Len(t))
  <2> SUFFICES ASSUME NEW c \in Logged(u, Len(u))
               PROVE  c \in Logged(s, k) \/ c \in Logged(t, Len(t))
    BY <1>15
  <2>1. c \in Commit
    BY DEF Logged
  <2>2. PICK i \in 1 .. Len(u) : u[i] = Data(c)
    BY DEF Logged
  <2>3. CASE i \in 1 .. k
    BY <1>6, <2>1, <2>2, <2>3 DEF Logged
  <2>4. CASE i > k
    <3>1. (i - k) + 1 \in 2 .. Len(t) /\ t[(i - k) + 1] = Data(c)
      BY <1>7, <2>2, <2>4
    <3>2. (i - k) + 1 \in 1 .. Len(t)
      BY <1>1, <3>1
    <3> QED BY <2>1, <3>1, <3>2 DEF Logged
  <2> QED BY <1>9, <2>3, <2>4
<1> QED BY <1>10, <1>11, <1>12, <1>14, <1>16, <1>17

LEMMA MergeIntoRecoveryWALRecovers ==
  ASSUME RecoveryInv, MergeIntoRecoveryWAL
  PROVE  RecoveryInv'
<1> DEFINE m == MarkerAt(Main)
           U == SubSeq(Main, 1, m - 1) \o SubSeq(Second, 2, Len(Second))
<1>1. /\ mode = "recovering" /\ Markers(Main) # {} /\ Main[m].of # header.root
      /\ exists' = exists \cup {"wal.recovery"}
      /\ content' = [content EXCEPT !["wal.recovery"] = U]
      /\ synced' = [synced EXCEPT !["wal.recovery"] = 0]
      /\ recovery' = [recovery EXCEPT !.stage = "merged"]
      /\ UNCHANGED recoveryFrame
  BY DEF MergeIntoRecoveryWAL, Accepted, Scanning, CheckpointFailed, CheckpointWasSuccessful,
         Merged, MainWAL, CheckpointWAL, Main, Second
<1>2. Types /\ Files /\ Shapes /\ Down /\ Untainted /\ Known
  BY DEF RecoveryInv, Types
<1>3. /\ Main \in Seq(LogEntry) /\ Second \in Seq(LogEntry)
      /\ Len(Main) \in Nat /\ Shaped(Main) /\ Shaped(Second) /\ Unmarked(Second)
      /\ m \in 2 .. Len(Main) /\ MarkedAt(Main, m)
  BY <1>1, <1>2, MainLog DEF Shapes
<1>4. /\ U \in Seq(LogEntry) /\ Shaped(U) /\ Unmarked(U)
      /\ Flushed(Main, m) \subseteq Flushed(U, Len(U))
      /\ Flushed(Second, Len(Second)) \subseteq Flushed(U, Len(U))
      /\ Flushed(U, Len(U)) \subseteq Logged(Main, m) \cup Flushed(Second, Len(Second))
      /\ Logged(U, Len(U)) \subseteq Logged(Main, m) \cup Logged(Second, Len(Second))
  <2>1. /\ U \in Seq(LogEntry)
        /\ Len(Second) = 0 => Len(U) = m - 1
        /\ Len(Second) # 0 => Len(U) = (m - 2) + Len(Second)
        /\ \A i \in 1 .. (m - 1) : U[i] = Main[i]
        /\ \A j \in 2 .. Len(Second) : U[(m - 2) + j] = Second[j]
    <3>1. U = SubSeq(Main, 1, m - 1) \o SubSeq(Second, 2, Len(Second))
      OBVIOUS
    <3> HIDE DEF m, U
    <3> QED BY <1>3, <3>1, MergedEntries
  <2> HIDE DEF m, U
  <2> QED BY <1>3, <2>1, MergedIs
<1> HIDE DEF m, U
<1>5. recovery'.stage = "merged" /\ recovery' \in Recoveries
  BY <1>1, <1>2 DEF Types, Recoveries
<1>6. content' \in [Path -> Seq(LogEntry)] /\ synced' \in [Path -> Nat]
      /\ content'["wal.recovery"] = U /\ synced'["wal.recovery"] = 0
      /\ content'["wal"] = content["wal"] /\ content'["wal.checkpoint"] = content["wal.checkpoint"]
      /\ synced'["wal"] = synced["wal"] /\ synced'["wal.checkpoint"] = synced["wal.checkpoint"]
  BY <1>1, <1>2, <1>4 DEF Files, Path
<1>7. Main' = Main /\ Second' = Second /\ Third' = U
  BY <1>6 DEF Main, Second, Third
<1>8. Files'
  <2>1. \A p \in Path : synced'[p] <= Len(content'[p])
    BY <1>2, <1>4, <1>6 DEF Files, Path
  <2>2. \A p \in Path \ exists' : content'[p] = <<>>
    BY <1>1, <1>2, <1>6 DEF Files, Path
  <2>3. exists' \subseteq Path
    BY <1>1, <1>2 DEF Files, Path
  <2> QED BY <1>6, <2>1, <2>2, <2>3 DEF Files
<1>9. Shapes'
  BY <1>2, <1>4, <1>7 DEF Shapes
<1>10. synced'["wal"] = Len(Main') /\ synced'["wal.checkpoint"] = Len(Second')
  BY <1>1, <1>2, <1>6, <1>7 DEF Down
<1>11. acked \subseteq Stored \cup Flushed(Main, m) \cup Flushed(Second, Len(Second))
  BY <1>1, <1>2, <1>3 DEF Down
<1>12. acked \subseteq Stored \cup Flushed(Third', Len(Third'))
  BY <1>4, <1>7, <1>11
<1>13. Logged(Main, m) \cap failed = {} /\ Flushed(Second, Len(Second)) \cap failed = {}
       /\ Flushed(Main, Len(Main)) \cap failed = {}
  BY <1>2, <1>3 DEF Untainted
<1>14. Flushed(Third', Len(Third')) \cap failed = {}
       /\ Flushed(Second', Len(Second')) \subseteq Flushed(Third', Len(Third'))
  BY <1>4, <1>7, <1>13
<1>15. \A i \in 2 .. Len(Main') : MarkedAt(Main', i) =>
           /\ Main'[i].of = header.root => acked \subseteq Stored \cup Flushed(Second', Len(Second'))
           /\ Main'[i].of # header.root =>
                acked \subseteq Stored \cup Flushed(Main', i) \cup Flushed(Second', Len(Second'))
           /\ Logged(Main', i) \cap failed = {}
  BY <1>1, <1>2, <1>7 DEF Down, Untainted
<1>16. ~Unmarked(Main')
  BY <1>3, <1>7, NotMarked
<1>17. \A p \in Path : Logged(content'[p], Len(content'[p])) \subseteq 1 .. attempts
  <2>1. Logged(Main, Len(Main)) \subseteq 1 .. attempts /\ Logged(Second, Len(Second)) \subseteq 1 .. attempts
    BY <1>2 DEF Known, Main, Second, Path
  <2>2. Logged(Main, m) \subseteq Logged(Main, Len(Main))
    BY <1>3, MoreIsMore
  <2> QED BY <1>2, <1>4, <1>6, <2>1, <2>2 DEF Known, Path
<1> QED BY <1>1, <1>5, <1>7, <1>8, <1>9, <1>10, <1>12, <1>13, <1>14, <1>15, <1>16, <1>17, RecoveryStep

\* What an open finds on top of the checkpoint.
LEMMA FoundCommits ==
  ASSUME NEW s \in Seq(Commit), NEW t \in Seq(Commit), NEW u, u = s \o t
  PROVE  u \in Seq(Commit) /\ ToSet(u) = ToSet(s) \cup ToSet(t)
<1>1. u \in Seq(Commit) /\ Len(u) = Len(s) + Len(t) /\ Len(s) \in Nat /\ Len(t) \in Nat
  OBVIOUS
<1>2. \A i \in 1 .. Len(s) : u[i] = s[i]
  OBVIOUS
<1>3. \A i \in 1 .. Len(s) + Len(t) : i > Len(s) => u[i] = t[i - Len(s)]
  OBVIOUS
<1>4. DOMAIN u = 1 .. Len(s) + Len(t) /\ DOMAIN s = 1 .. Len(s) /\ DOMAIN t = 1 .. Len(t)
  BY <1>1
<1>5. ASSUME NEW c \in ToSet(u) PROVE c \in ToSet(s) \cup ToSet(t)
  <2>1. PICK i \in 1 .. Len(s) + Len(t) : c = u[i]
    BY <1>4, <1>5 DEF ToSet
  <2>2. CASE i <= Len(s)
    <3>1. i \in 1 .. Len(s) /\ c = s[i]
      BY <1>1, <1>2, <2>1, <2>2
    <3> QED BY <1>4, <3>1 DEF ToSet
  <2>3. CASE i > Len(s)
    <3>1. i - Len(s) \in 1 .. Len(t) /\ c = t[i - Len(s)]
      BY <1>1, <1>3, <2>1, <2>3
    <3> QED BY <1>4, <3>1 DEF ToSet
  <2> QED BY <1>1, <2>2, <2>3
<1>6. ASSUME NEW c \in ToSet(s) PROVE c \in ToSet(u)
  <2>1. PICK i \in 1 .. Len(s) : c = s[i]
    BY <1>4, <1>6 DEF ToSet
  <2>2. i \in 1 .. Len(s) + Len(t) /\ c = u[i]
    BY <1>1, <1>2, <2>1
  <2> QED BY <1>4, <2>2 DEF ToSet
<1>7. ASSUME NEW c \in ToSet(t) PROVE c \in ToSet(u)
  <2>1. PICK i \in 1 .. Len(t) : c = t[i]
    BY <1>4, <1>7 DEF ToSet
  <2>2. Len(s) + i \in 1 .. Len(s) + Len(t) /\ Len(s) + i > Len(s) /\ (Len(s) + i) - Len(s) = i
    BY <1>1, <2>1
  <2>3. c = u[Len(s) + i]
    BY <1>3, <2>1, <2>2
  <2> QED BY <1>4, <2>2, <2>3 DEF ToSet
<1> QED BY <1>1, <1>5, <1>6, <1>7

\* What must hold of the log when the database is opened.
LEMMA OpenedRecovers ==
  ASSUME RecoveryInv, mode = "recovering",
         NEW commits \in Seq(Commit),
         NEW init_state \in {"NO_WAL", "UNINITIALIZED", "UNINITIALIZED_REQUIRES_TRUNCATE"},
         NEW size \in Nat,
         Opened(commits, init_state, size),
         Files', Shapes', Unmarked(Main'),
         size <= Len(Main'), size <= synced'["wal"],
         ToSet(commits) = Flushed(Main', size),
         init_state = "NO_WAL" => Main' = <<>>,
         \A i \in 1 .. Len(Kept') : Kept'[i] # Torn,
         acked \subseteq Stored \cup Flushed(Main', size),
         Flushed(Main', Len(Main')) \subseteq Stored \cup Flushed(Main', size),
         Flushed(Second', Len(Second')) \subseteq Stored \cup Flushed(Main', size),
         Logged(Kept', Len(Kept')) \subseteq Stored \cup Flushed(Main', size),
         (Stored \cup Flushed(Main', size)) \cap failed = {},
         \A p \in Path : Logged(content'[p], Len(content'[p])) \subseteq 1 .. attempts
  PROVE  RecoveryInv'
<1> DEFINE F == Stored \cup Flushed(Main', size)
<1>1. Types /\ Down /\ Untainted /\ Known
  BY DEF RecoveryInv
<1>2. /\ mode' = "up" /\ recovery' = NoRecovery
      /\ database' = header.commits \o commits
      /\ wal' = NewWAL("wal", init_state, -1) /\ wal_size' = size
      /\ acked' = acked \cup ToSet(database')
      /\ failed' = failed \cup ((1 .. attempts) \ ToSet(database'))
      /\ UNCHANGED <<header, iteration_count, wal_lock, commit, checkpoint,
                     attempts, checkpoints, crashes>>
  BY DEF Opened
<1>3. database' \in Seq(Commit) /\ ToSet(database') = F
  <2>1. header.commits \in Seq(Commit)
    BY <1>1 DEF Types, Headers
  <2> QED BY <1>2, <2>1, FoundCommits DEF Stored
<1>4. Stored' = Stored /\ Snapshot' = {}
  BY <1>1, <1>2 DEF Stored, Snapshot, Down, NoCheckpoint, ToSet
<1>5. acked' = F
  BY <1>2, <1>3
<1>6. F \subseteq 1 .. attempts /\ 1 .. attempts \subseteq Commit
  <2>1. Flushed(Main', size) \subseteq Logged(Main', Len(Main'))
    <3>1. Len(Main') \in Nat
      BY DEF Files, Main, Path
    <3> QED BY <3>1, MoreIsMore
  <2>2. Logged(Main', Len(Main')) \subseteq 1 .. attempts
    BY DEF Main, Path
  <2>3. 1 .. attempts \subseteq Commit
    BY <1>1, ConstantsAssumption DEF Types, Commit
  <2> QED BY <1>1, <2>1, <2>2, <2>3 DEF Known
<1>7. failed' = failed \cup ((1 .. attempts) \ F)
  BY <1>2, <1>3
<1>8. F \cap failed' = {} /\ failed' \subseteq 1 .. attempts
  BY <1>1, <1>7 DEF Known
<1> HIDE DEF F
<1>9. wal' \in WALs /\ wal'.path = "wal" /\ wal'.init_state = init_state
  BY <1>2 DEF NewWAL, WALs
<1>10. Log' = Main' /\ Safe' = size
  <2>1. Log' = Main'
    BY <1>9 DEF Log, Main
  <2>2. synced'["wal"] \in Nat
    BY DEF Files, Path
  <2>3. CASE synced'["wal"] <= size
    BY <1>2, <1>9, <2>1, <2>2, <2>3 DEF Safe
  <2>4. CASE ~(synced'["wal"] <= size)
    BY <1>2, <1>9, <2>1, <2>4 DEF Safe
  <2> QED BY <2>3, <2>4
<1>11. /\ wal_lock' = "free" /\ commit'.c = 0 /\ ~commit'.flushed
       /\ checkpoint'.phase = "none" /\ checkpoint'.c = 0 /\ ~checkpoint'.has_wal
       /\ checkpoint'.kind = "required" /\ recovery'.stage = "none" /\ recovery' \in Recoveries
  BY <1>1, <1>2 DEF Down, NoCommit, NoCheckpoint, NoRecovery, Recoveries
<1>12. Types'
  <2>1. wal_size' <= Len(content'[wal'.path]) /\ wal_size' \in Nat
    BY <1>2, <1>9 DEF Main
  <2>2. acked' \subseteq Commit /\ failed' \subseteq Commit
    BY <1>5, <1>6, <1>8
  <2> QED BY <1>1, <1>2, <1>3, <1>9, <1>11, <2>1, <2>2 DEF Types
<1>13. Control'
  BY <1>9, <1>10, <1>11 DEF Control
<1>14. Marking'
  BY <1>11 DEF Marking
<1>15. Covered'
  <2>1. acked' \subseteq Stored' \cup Flushed(Main', Safe')
    BY <1>4, <1>5, <1>10 DEF F
  <2> QED BY <1>3, <1>5, <1>11, <2>1 DEF Covered
<1>16. Snapped' /\ Writing'
  BY <1>11 DEF Snapped, Writing
<1>17. Up' /\ Down'
  BY <1>2, <1>13, <1>14, <1>15, <1>16 DEF Up, Down
<1>18. \A m \in 2 .. Len(Main') : ~MarkedAt(Main', m)
  BY NotMarked
<1>19. Untainted'
  <2>1. Stored' \cap failed' = {} /\ Flushed(Main', Len(Main')) \cap failed' = {}
        /\ Flushed(Second', Len(Second')) \cap failed' = {}
        /\ Logged(Kept', Len(Kept')) \cap failed' = {}
        /\ Flushed(Second', Len(Second')) \subseteq acked'
    BY <1>4, <1>5, <1>8 DEF F
  <2> QED BY <1>2, <1>3, <1>4, <1>5, <1>8, <1>11, <1>18, <2>1 DEF Untainted
<1>20. Known'
  BY <1>2, <1>3, <1>4, <1>5, <1>6, <1>8 DEF Known, F
<1> QED BY <1>12, <1>17, <1>19, <1>20 DEF RecoveryInv

LEMMA ReplayNothingRecovers ==
  ASSUME RecoveryInv, ReplayNothing
  PROVE  RecoveryInv'
<1>1. /\ mode = "recovering"
      /\ "wal" \notin exists \/ Main = <<>> \/
         (Markers(Main) # {} /\ Main[MarkerAt(Main)].of = header.root /\ "wal.checkpoint" \notin exists)
      /\ RemoveFile("wal") /\ Opened(<<>>, "NO_WAL", 0)
  BY DEF ReplayNothing, Accepted, Scanning, CheckpointWasSuccessful, HasCheckpointWAL, MainWAL, Main
<1>2. Types /\ Files /\ Shapes /\ Down /\ Untainted /\ Known
  BY DEF RecoveryInv, Types
<1>3. acked \subseteq Stored /\ Flushed(Second, Len(Second)) \subseteq Stored
  <2>1. CASE "wal" \notin exists \/ Main = <<>>
    <3>1. Main = <<>>
      BY <1>2, <2>1 DEF Files, Path, Main
    <3>2. Unmarked(Main) /\ Flushed(Main, Len(Main)) = {}
      BY <3>1, EmptyLog
    <3> QED BY <1>1, <1>2, <3>2 DEF Down, Untainted
  <2>2. CASE Markers(Main) # {} /\ Main[MarkerAt(Main)].of = header.root /\ "wal.checkpoint" \notin exists
    <3>1. MarkerAt(Main) \in 2 .. Len(Main) /\ MarkedAt(Main, MarkerAt(Main))
      BY <2>2, MainLog
    <3>2. Second = <<>>
      BY <1>2, <2>2 DEF Files, Path, Second
    <3>3. Flushed(Second, Len(Second)) = {}
      BY <3>2, EmptyLog
    <3> QED BY <1>1, <1>2, <2>2, <3>1, <3>3 DEF Down
  <2> QED BY <1>1, <2>1, <2>2
<1>4. Files' /\ content'["wal"] = <<>> /\ synced'["wal"] = 0
      /\ content'["wal.checkpoint"] = Second /\ content'["wal.recovery"] = Third
  BY <1>1, <1>2, RemovedFile DEF Path, Second, Third
<1>5. Main' = <<>> /\ Second' = Second /\ Third' = Third
  BY <1>4 DEF Main, Second, Third
<1>6. Len(Main') = 0 /\ Shaped(Main') /\ Unmarked(Main') /\ Flushed(Main', Len(Main')) = {}
      /\ Logged(Main', Len(Main')) = {} /\ Flushed(Main', 0) = {}
  BY <1>5, EmptyLog
<1>7. Shapes'
  BY <1>2, <1>5, <1>6 DEF Shapes
<1>8. Kept' = <<>>
  <2>1. wal'.path = "wal" /\ wal'.init_state = "NO_WAL"
    BY <1>1 DEF Opened, NewWAL
  <2> QED BY <1>4, <2>1 DEF Kept
<1>9. Logged(Kept', Len(Kept')) = {} /\ \A i \in 1 .. Len(Kept') : Kept'[i] # Torn
  BY <1>8, EmptyLog
<1>10. <<>> \in Seq(Commit) /\ ToSet(<<>>) = {}
  BY DEF ToSet
<1>11. \A p \in Path : Logged(content'[p], Len(content'[p])) \subseteq 1 .. attempts
  BY <1>2, <1>4, <1>5, <1>6 DEF Known, Path, Main, Second, Third
<1>12. Stored \cap failed = {}
  BY <1>2 DEF Untainted
<1>13. PICK none \in Seq(Commit) : none = <<>>
  BY <1>10
<1>14. Opened(none, "NO_WAL", 0) /\ ToSet(none) = Flushed(Main', 0)
  BY <1>1, <1>6, <1>10, <1>13
<1>15. 0 <= Len(Main') /\ 0 <= synced'["wal"] /\ 0 \in Nat
  BY <1>4, <1>6
<1>16. /\ acked \subseteq Stored \cup Flushed(Main', 0)
       /\ Flushed(Main', Len(Main')) \subseteq Stored \cup Flushed(Main', 0)
       /\ Flushed(Second', Len(Second')) \subseteq Stored \cup Flushed(Main', 0)
       /\ Logged(Kept', Len(Kept')) \subseteq Stored \cup Flushed(Main', 0)
       /\ (Stored \cup Flushed(Main', 0)) \cap failed = {}
  BY <1>3, <1>5, <1>6, <1>9, <1>12
<1> QED BY <1>1, <1>4, <1>5, <1>6, <1>7, <1>9, <1>11, <1>14, <1>15, <1>16, OpenedRecovers

LEMMA ReplayWALRecovers ==
  ASSUME RecoveryInv, ReplayWAL
  PROVE  RecoveryInv'
<1> DEFINE e == LastFlush(Main)
           init == IF e > 0 /\ e = Len(Main) THEN "UNINITIALIZED"
                   ELSE "UNINITIALIZED_REQUIRES_TRUNCATE"
<1>1. /\ mode = "recovering" /\ Markers(Main) = {}
      /\ Opened(Replayed(Main, e), init, e)
      /\ UNCHANGED <<exists, content, synced>>
  BY DEF ReplayWAL, Accepted, Scanning, MainWAL, Main
<1>2. Types /\ Files /\ Shapes /\ Down /\ Untainted /\ Known
  BY DEF RecoveryInv, Types
<1>3. Main \in Seq(LogEntry) /\ Len(Main) \in Nat /\ Shaped(Main) /\ Unmarked(Main)
  BY <1>1, MainLog
<1>4. /\ Readable(Main) \in 0 .. Len(Main)
      /\ \A i \in 1 .. Readable(Main) : Main[i] # Torn
      /\ Flushed(Main, Readable(Main)) = Flushed(Main, Len(Main))
  BY <1>3, ReadableIs
<1>5. /\ e \in 0 .. Readable(Main)
      /\ Flushed(Main, e) = Flushed(Main, Len(Main)) /\ Logged(Main, e) = Flushed(Main, Len(Main))
  <2>1. Readable(Main) \in Nat /\ e = FlushEnd(Main, Readable(Main))
    BY <1>3, <1>4 DEF LastFlush
  <2> HIDE DEF e
  <2> QED BY <1>4, <2>1, FlushEndIs, CutBehindFlush
<1>6. init \in {"UNINITIALIZED", "UNINITIALIZED_REQUIRES_TRUNCATE"}
      /\ (init = "UNINITIALIZED" => e = Len(Main))
  OBVIOUS
<1> HIDE DEF e, init
<1>7. e \in 0 .. Len(Main) /\ e \in Nat
  BY <1>3, <1>4, <1>5
<1>8. Replayed(Main, e) \in Seq(Commit) /\ ToSet(Replayed(Main, e)) = Flushed(Main, e)
  BY <1>3, <1>7, ReplayedIs
<1>9. Main' = Main /\ Second' = Second /\ Third' = Third
  BY <1>1 DEF Main, Second, Third
<1>10. Files' /\ Shapes' /\ synced'["wal"] = Len(Main)
  BY <1>1, <1>2, <1>9 DEF Files, Shapes, Down
<1>11. Kept' = SubSeq(Main, 1, e)
  <2>1. wal'.path = "wal" /\ wal'.init_state = init /\ wal_size' = e
    BY <1>1 DEF Opened, NewWAL
  <2>2. CASE init = "UNINITIALIZED"
    <3>1. Kept' = Main
      BY <1>9, <2>1, <2>2 DEF Kept, Main
    <3> QED BY <1>3, <1>6, <2>2, <3>1
  <2>3. CASE init # "UNINITIALIZED"
    BY <1>6, <1>9, <2>1, <2>3 DEF Kept, Main
  <2> QED BY <2>2, <2>3
<1>12. Kept' \in Seq(LogEntry) /\ Len(Kept') = e /\ (\A i \in 1 .. e : Kept'[i] = Main[i])
       /\ Logged(Kept', e) = Logged(Main, e)
  BY <1>3, <1>7, <1>11, SubLog
<1>13. \A i \in 1 .. Len(Kept') : Kept'[i] # Torn
  BY <1>4, <1>5, <1>7, <1>12
<1>14. acked \subseteq Stored \cup Flushed(Main, Len(Main))
       /\ Flushed(Second, Len(Second)) \subseteq Stored \cup Flushed(Main, Len(Main))
       /\ (Stored \cup Flushed(Main, Len(Main))) \cap failed = {}
  BY <1>1, <1>2, <1>3 DEF Down, Untainted
<1>15. \A p \in Path : Logged(content'[p], Len(content'[p])) \subseteq 1 .. attempts
  BY <1>1, <1>2 DEF Known
<1>16. e <= Len(Main') /\ e <= synced'["wal"] /\ Unmarked(Main') /\ init # "NO_WAL"
  BY <1>3, <1>6, <1>7, <1>9, <1>10
<1>17. /\ ToSet(Replayed(Main, e)) = Flushed(Main', e)
       /\ acked \subseteq Stored \cup Flushed(Main', e)
       /\ Flushed(Main', Len(Main')) \subseteq Stored \cup Flushed(Main', e)
       /\ Flushed(Second', Len(Second')) \subseteq Stored \cup Flushed(Main', e)
       /\ Logged(Kept', Len(Kept')) \subseteq Stored \cup Flushed(Main', e)
       /\ (Stored \cup Flushed(Main', e)) \cap failed = {}
  BY <1>5, <1>8, <1>9, <1>12, <1>14
<1> QED BY <1>1, <1>6, <1>7, <1>8, <1>10, <1>13, <1>15, <1>16, <1>17, OpenedRecovers

LEMMA ReplayBeforeMarkerRecovers ==
  ASSUME RecoveryInv, ReplayBeforeMarker
  PROVE  RecoveryInv'
<1> DEFINE m == MarkerAt(Main)
           e == FlushEnd(Main, m)
           init == IF e = 0 THEN "NO_WAL" ELSE "UNINITIALIZED"
<1>1. /\ mode = "recovering" /\ Markers(Main) # {} /\ Main[m].of # header.root
      /\ "wal.checkpoint" \notin exists
      /\ content' = [content EXCEPT !["wal"] = SubSeq(Main, 1, e)]
      /\ synced' = [synced EXCEPT !["wal"] = e]
      /\ Opened(Replayed(Main, e), init, e)
      /\ UNCHANGED exists
  BY DEF ReplayBeforeMarker, Accepted, Scanning, CheckpointFailed, CheckpointWasSuccessful,
         HasCheckpointWAL, TruncateOffset, MainWAL, Main
<1>2. Types /\ Files /\ Shapes /\ Down /\ Untainted /\ Known
  BY DEF RecoveryInv, Types
<1>3. Main \in Seq(LogEntry) /\ Len(Main) \in Nat /\ Shaped(Main)
      /\ m \in 2 .. Len(Main) /\ MarkedAt(Main, m)
  BY <1>1, MainLog
<1>4. /\ e \in 0 .. m /\ (e # 0 => Main[e] = Flush)
      /\ Flushed(Main, e) = Flushed(Main, m) /\ Logged(Main, e) = Flushed(Main, m)
  <2>1. m \in Nat
    BY <1>3
  <2> HIDE DEF m
  <2>2. e = FlushEnd(Main, m)
    OBVIOUS
  <2>3. e \in 0 .. m /\ (e # 0 => Main[e] = Flush)
    BY <2>1, FlushEndIs
  <2> HIDE DEF e
  <2> QED BY <2>1, <2>2, <2>3, CutBehindFlush
<1>5. init \in {"NO_WAL", "UNINITIALIZED"} /\ (init = "NO_WAL" => e = 0)
  OBVIOUS
<1> HIDE DEF e, m, init
<1>6. e \in 0 .. Len(Main) /\ e \in Nat /\ e < m
  <2>1. e # m
    <3>1. Main[m].type = "CHECKPOINT"
      BY <1>3 DEF MarkedAt, IsMarker
    <3>2. Flush.type = "WAL_FLUSH"
      BY DEF Flush, Entry
    <3> QED BY <1>3, <1>4, <3>1, <3>2
  <2> QED BY <1>3, <1>4, <2>1
<1>7. Replayed(Main, e) \in Seq(Commit) /\ ToSet(Replayed(Main, e)) = Flushed(Main, e)
  BY <1>3, <1>6, ReplayedIs
<1>8. Main' = SubSeq(Main, 1, e) /\ Second' = Second /\ Third' = Third
      /\ content'["wal"] = SubSeq(Main, 1, e)
      /\ content'["wal.checkpoint"] = Second /\ content'["wal.recovery"] = Third
      /\ synced'["wal"] = e /\ synced'["wal.checkpoint"] = synced["wal.checkpoint"]
      /\ synced'["wal.recovery"] = synced["wal.recovery"]
  BY <1>1, <1>2 DEF Files, Path, Main, Second, Third
<1>9. /\ Main' \in Seq(LogEntry) /\ Len(Main') = e /\ (\A i \in 1 .. e : Main'[i] = Main[i])
      /\ Flushed(Main', e) = Flushed(Main, e) /\ Logged(Main', e) = Logged(Main, e)
      /\ Shaped(Main')
  BY <1>3, <1>6, <1>8, SubLog
<1>10. Unmarked(Main')
  <2> SUFFICES ASSUME NEW i \in 1 .. e PROVE ~IsMarker(Main', i)
    BY <1>9 DEF Unmarked
  <2>1. i \in 1 .. Len(Main) /\ i # m /\ Main'[i] = Main[i]
    BY <1>3, <1>6, <1>9
  <2>2. ~IsMarker(Main, i)
    BY <1>3, <2>1 DEF MarkedAt
  <2> QED BY <2>1, <2>2 DEF IsMarker
<1>11. Files'
  <2>1. content' \in [Path -> Seq(LogEntry)]
    BY <1>1, <1>2, <1>8, <1>9 DEF Files, Main
  <2>2. synced' \in [Path -> Nat]
    BY <1>1, <1>2, <1>6 DEF Files
  <2>3. synced'["wal"] <= Len(content'["wal"])
        /\ synced'["wal.checkpoint"] <= Len(content'["wal.checkpoint"])
        /\ synced'["wal.recovery"] <= Len(content'["wal.recovery"])
    <3>1. synced'["wal"] <= Len(content'["wal"])
      BY <1>6, <1>8, <1>9
    <3> QED BY <1>2, <1>8, <3>1 DEF Files, Path, Second, Third
  <2>4. \A p \in Path \ exists' : content'[p] = <<>>
    <3>1. "wal" \in exists
      <4>1. Main # <<>>
        BY <1>3
      <4> QED BY <1>2, <4>1 DEF Files, Path, Main
    <3> QED BY <1>1, <1>2, <1>8, <3>1 DEF Files, Path, Second, Third
  <2>5. \A p \in Path : synced'[p] <= Len(content'[p])
    BY <2>3 DEF Path
  <2> QED BY <1>1, <1>2, <2>1, <2>2, <2>4, <2>5 DEF Files
<1>12. Shapes'
  BY <1>2, <1>8, <1>9, <1>10 DEF Shapes
<1>13. init = "NO_WAL" => Main' = <<>>
  BY <1>5, <1>9
<1>14. Kept' = Main'
  <2>1. wal'.path = "wal" /\ wal'.init_state = init
    BY <1>1 DEF Opened, NewWAL
  <2> QED BY <1>5, <2>1 DEF Kept, Main
<1>15. \A i \in 1 .. Len(Kept') : Kept'[i] # Torn
  <2> SUFFICES ASSUME NEW i \in 1 .. e PROVE Main'[i] # Torn
    BY <1>9, <1>14
  <2>1. i \in 1 .. Len(Main) /\ i # Len(Main) /\ Main'[i] = Main[i]
    BY <1>3, <1>6, <1>9
  <2> QED BY <1>3, <2>1 DEF Shaped
<1>16. Second = <<>>
  BY <1>1, <1>2 DEF Files, Path, Second
<1>17. Flushed(Second', Len(Second')) = {}
  BY <1>8, <1>16, EmptyLog
<1>18. acked \subseteq Stored \cup Flushed(Main, m)
  BY <1>1, <1>2, <1>3, <1>8, <1>17 DEF Down
<1>19. Flushed(Main, m) \cap failed = {} /\ Stored \cap failed = {}
  <2>1. Flushed(Main, m) \subseteq Flushed(Main, Len(Main))
    <3>1. m \in Nat /\ m <= Len(Main) /\ Len(Main) \in Nat
      BY <1>3
    <3> QED BY <3>1, MoreIsMore
  <2> QED BY <1>2, <2>1 DEF Untainted
<1>20. \A p \in Path : Logged(content'[p], Len(content'[p])) \subseteq 1 .. attempts
  <2>1. Logged(Main', e) \subseteq Logged(Main, Len(Main))
    BY <1>3, <1>6, <1>9, MoreIsMore
  <2>2. Logged(content'["wal"], Len(content'["wal"])) \subseteq 1 .. attempts
    BY <1>2, <1>8, <1>9, <2>1 DEF Known, Path, Main
  <2> QED BY <1>2, <1>8, <2>2 DEF Known, Path, Second, Third
<1>21. e <= Len(Main') /\ e <= synced'["wal"]
  BY <1>6, <1>8, <1>9
<1>22. /\ ToSet(Replayed(Main, e)) = Flushed(Main', e)
       /\ acked \subseteq Stored \cup Flushed(Main', e)
       /\ Flushed(Main', Len(Main')) \subseteq Stored \cup Flushed(Main', e)
       /\ Flushed(Second', Len(Second')) \subseteq Stored \cup Flushed(Main', e)
       /\ Logged(Kept', Len(Kept')) \subseteq Stored \cup Flushed(Main', e)
       /\ (Stored \cup Flushed(Main', e)) \cap failed = {}
  <2>1. Len(Kept') = e /\ Logged(Kept', e) = Flushed(Main, m)
    BY <1>4, <1>9, <1>14
  <2>2. Flushed(Main', e) = Flushed(Main, m)
    BY <1>4, <1>9
  <2> QED BY <1>7, <1>9, <1>17, <1>18, <1>19, <2>1, <2>2
<1> QED BY <1>1, <1>5, <1>6, <1>7, <1>10, <1>11, <1>12, <1>13, <1>15, <1>20, <1>21, <1>22,
           OpenedRecovers

-----------------------------------------------------------------------------
(* The invariant, and what clients see of it.                              *)

LEMMA NextRecovers ==
  ASSUME RecoveryInv, [Next]_vars
  PROVE  RecoveryInv'
<1>1. CASE UNCHANGED vars
  <2>1. UNCHANGED <<header, exists, content, synced, mode, iteration_count, wal, wal_size, wal_lock,
                    database, commit, checkpoint, recovery, attempts, acked, failed, checkpoints,
                    crashes>>
    BY <1>1 DEF vars, diskVars, memVars, ghostVars
  <2>2. Main' = Main /\ Second' = Second /\ Third' = Third /\ Log' = Log /\ Kept' = Kept
        /\ Safe' = Safe /\ Stored' = Stored /\ Snapshot' = Snapshot
    BY <2>1 DEF Main, Second, Third, Log, Kept, Safe, Stored, Snapshot
  <2>3. Types'
    BY <2>1 DEF RecoveryInv, Types, Files
  <2>4. Shapes'
    BY <2>2 DEF RecoveryInv, Shapes
  <2>5. Up'
    <3>1. Control' <=> Control
      BY <2>1, <2>2 DEF Control
    <3>2. Marking' <=> Marking
      BY <2>1, <2>2 DEF Marking
    <3>3. (Covered' <=> Covered) /\ (Snapped' <=> Snapped)
      BY <2>1, <2>2 DEF Covered, Snapped
    <3>4. Writing' <=> Writing
      BY <2>1, <2>2 DEF Writing
    <3> QED BY <2>1, <3>1, <3>2, <3>3, <3>4 DEF RecoveryInv, Up
  <2>6. Down'
    BY <2>1, <2>2 DEF RecoveryInv, Down
  <2>7. Untainted' /\ Known'
    BY <2>1, <2>2 DEF RecoveryInv, Untainted, Known
  <2> QED BY <2>3, <2>4, <2>5, <2>6, <2>7 DEF RecoveryInv
<1>2. CASE Next
  <2>1. CASE WriteToWAL \/ FlushCommit \/ SyncCommit \/ RevertCommit
    BY <2>1, WriteToWALRecovers, FlushCommitRecovers, SyncCommitRecovers, RevertCommitRecovers
  <2>2. CASE SkipCommit \/ (\E kind \in CheckpointKinds : CreateCheckpoint(kind))
    BY <2>2, SkipCommitRecovers, CreateCheckpointRecovers
  <2>3. CASE \E r \in Root : WALStartCheckpoint(r)
    BY <2>3, WALStartCheckpointRecovers
  <2>4. CASE SyncMarker \/ SwitchWAL \/ CountIteration \/ WriteHeader \/ WALFinishCheckpoint
    BY <2>4, SyncMarkerRecovers, SwitchWALRecovers, CountIterationRecovers, WriteHeaderRecovers,
       WALFinishCheckpointRecovers
  <2>5. CASE Close \/ Crash \/ OpenDatabase \/ RefuseToOpen
    BY <2>5, CloseRecovers, CrashRecovers, OpenDatabaseRecovers, RefuseToOpenRecovers
  <2>6. CASE ReplayNothing \/ ReplayWAL \/ ReplayBeforeMarker
    BY <2>6, ReplayNothingRecovers, ReplayWALRecovers, ReplayBeforeMarkerRecovers
  <2>7. CASE ReplayCheckpointWAL \/ MergeIntoRecoveryWAL \/ SyncRecoveryWAL
             \/ MoveRecoveryWAL \/ RemoveCheckpointWAL
    BY <2>7, ReplayCheckpointWALRecovers, MergeIntoRecoveryWALRecovers, SyncRecoveryWALRecovers,
       MoveRecoveryWALRecovers, RemoveCheckpointWALRecovers
  <2> QED BY <1>2, <2>1, <2>2, <2>3, <2>4, <2>5, <2>6, <2>7 DEF Next
<1> QED BY <1>1, <1>2

\* Of every state the disk can be in, whatever was interrupted, the invariant
\* says where the commits are that recovery must find, and that nothing it may
\* find has failed (LoadDatabase, ReplayLog, RevertCommit, WALStartCheckpoint,
\* WALFinishCheckpoint).
THEOREM RecoveryCorrect == Spec => []RecoveryInv
<1>1. Init => RecoveryInv
  BY InitRecovery
<1>2. RecoveryInv /\ [Next]_vars => RecoveryInv'
  BY NextRecovers
<1> QED BY <1>1, <1>2, PTL DEF Spec

\* An open database has every commit a client was told of, for any number of
\* commits, checkpoints and crashes, also in the middle of a recovery.
THEOREM NothingIsLost == Spec => []NothingLost
<1>1. RecoveryInv => TypeOK
  <2> SUFFICES ASSUME RecoveryInv PROVE TypeOK
    OBVIOUS
  <2>1. Types /\ Files
    BY DEF RecoveryInv, Types
  <2>2. header \in [iteration : Nat, root : Root \cup {NoRoot}, commits : Seq(Commit)]
    BY <2>1 DEF Types, Headers
  <2>3. \A p \in Path : synced[p] \in 0 .. Len(content[p])
    BY <2>1 DEF Files
  <2>4. wal.path \in Path /\ wal.path \in {"wal", "wal.checkpoint"}
        /\ wal.init_state \in {"NO_WAL", "UNINITIALIZED",
                               "UNINITIALIZED_REQUIRES_TRUNCATE", "INITIALIZED"}
    BY <2>1 DEF Types, WALs, Path
  <2>5. wal_size \in 0 .. Len(content[wal.path])
    <3>1. Len(content[wal.path]) \in Nat
      BY <2>1, <2>4 DEF Files
    <3> QED BY <2>1, <3>1 DEF Types
  <2>6. recovery.stage \in {"none", "scan", "merged", "synced", "moved"}
    BY <2>1 DEF Types, Recoveries
  <2> QED BY <2>1, <2>2, <2>3, <2>4, <2>5, <2>6 DEF TypeOK, Types, Files
<1>2. RecoveryInv => (mode = "up" => acked \subseteq ToSet(database))
  BY DEF RecoveryInv, Up, Covered
<1>3. RecoveryInv => NothingLost
  BY <1>1, <1>2 DEF NothingLost
<1> QED BY <1>3, RecoveryCorrect, PTL

\* A commit that failed, or that an open did not find, never comes back.
THEOREM NothingIsRevived == Spec => []NothingRevived
<1>1. RecoveryInv => NothingRevived
  BY DEF RecoveryInv, Untainted, NothingRevived
<1> QED BY <1>1, RecoveryCorrect, PTL

\* Of the commits that were reported, an open database has those that
\* succeeded and none that failed, after any crashes.
THEOREM CommitsAreDurable == Spec => []Durability
<1>1. NothingLost /\ NothingRevived => Durability
  BY DEF Durability
<1> QED BY <1>1, NothingIsLost, NothingIsRevived, PTL
=============================================================================
