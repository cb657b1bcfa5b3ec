------------------------------- MODULE Catalog -------------------------------
(***************************************************************************)
(* CREATE, ALTER, RENAME and DROP of catalog objects by concurrent         *)
(* transactions: the catalog sets, the dependency manager that keeps who   *)
(* depends on whom in two catalog sets of its own (dependency_manager.cpp),*)
(* and the commit, rollback and clean-up of catalog entries.               *)
(*                                                                         *)
(* A statement first reads, in its own snapshot, what it has to change,    *)
(* and then changes one name after the other; each change takes the        *)
(* catalog's write lock on its own, so that other transactions come in     *)
(* between.                                                                *)
(***************************************************************************)
EXTENDS CatalogSet

CONSTANTS
  Txn,            \* transactions, numbered from 1
  Writer,         \* those that run statements
  Name,           \* names of objects
  Loaded,         \* names that exist at the start, with their dependencies
  Depends,        \* pairs <<d, s>>: an object created as d may depend on s
  Renames,        \* pairs <<from, to>>
  Created,        \* names that CREATE uses
  Blocking,       \* do new dependencies block a DROP without CASCADE?
  MaxStatements   \* bound: statements

ASSUME CatalogAssumption ==
  /\ Txn \subseteq Nat \ {0} /\ IsFiniteSet(Txn) /\ Writer \subseteq Txn
  /\ IsFiniteSet(Name) /\ Loaded \subseteq Name /\ Created \subseteq Name
  /\ Depends \subseteq Name \X Name /\ Renames \subseteq Name \X Name
  /\ Blocking \subseteq BOOLEAN /\ MaxStatements \in Nat

VARIABLES
  chain,      \* the version chain of every key
  clock,      \* current_start_timestamp
  status,     \* of each transaction
  start_time,
  commit_id,
  undo,       \* its undo buffer: key and id of the entry it put another one on
  cleaned,    \* entries of the undo buffer already cleaned up
  todo,       \* changes its statement has still to make
  statements, \* statements run so far
  ending      \* the transaction that holds transaction_lock to end

vars == <<chain, clock, status, start_time, commit_id, undo, cleaned, todo,
          statements, ending>>

Object(n) == <<"object", n, n>>
Dependents(s, d) == <<"dependents", s, d>>    \* d in the dependents of s
Subjects(d, s) == <<"subjects", d, s>>        \* s in the subjects of d
Key == {Object(n) : n \in Name}
       \cup {Dependents(p[2], p[1]) : p \in Depends}
       \cup {Subjects(p[1], p[2]) : p \in Depends}

TransactionId(t) == TRANSACTION_ID_START + t
MAX_TRANSACTION_ID == 2 * TRANSACTION_ID_START + Cardinality(Txn)
Snapshot(t) == [id |-> TransactionId(t), bound |-> start_time[t]]
Before(ts) == [id |-> MAX_TRANSACTION_ID, bound |-> ts]
Through(ts) == Before(ts + 1)

Idle == [txn |-> 0, phase |-> "none", pos |-> 0]
Active(t) == status[t] \in {"active", "failed"}

LoadedId == <<0, 1>>

Init ==
  /\ chain = [k \in Key |->
                IF {k[2], k[3]} \subseteq Loaded
                THEN <<Entry(LoadedId, 1, IF k[1] = "object" THEN "OBJECT" ELSE "DEPENDENCY",
                             LoadedId, TRUE)>>
                ELSE << >>]
  /\ clock = 2
  /\ status = [t \in Txn |-> "new"]
  /\ start_time = [t \in Txn |-> 0]
  /\ commit_id = [t \in Txn |-> 0]
  /\ undo = [t \in Txn |-> << >>]
  /\ cleaned = [t \in Txn |-> 0]
  /\ todo = [t \in Txn |-> << >>]
  /\ statements = 0
  /\ ending = Idle

\* Transaction ids are handed out in the order the transactions start.
Begin(t) ==
  /\ status[t] = "new" /\ ending = Idle
  /\ \A u \in Txn : u < t => status[u] # "new"
  /\ status' = [status EXCEPT ![t] = "active"]
  /\ start_time' = [start_time EXCEPT ![t] = clock]
  /\ clock' = clock + 1
  /\ UNCHANGED <<chain, commit_id, undo, cleaned, todo, statements, ending>>

-----------------------------------------------------------------------------
(* What a statement has to change: a sequence of steps *)

Create(k, type, oid, blocking) ==
  [op |-> "create", key |-> k, to |-> k, type |-> type, oid |-> oid, blocking |-> blocking]
Drop(k) ==
  [op |-> "drop", key |-> k, to |-> k, type |-> "DELETED", oid |-> Nobody, blocking |-> FALSE]
\* The new version is made from the entry that is visible when the statement
\* begins, oid here; the locked part follows later.
Alter(k, to, oid) ==
  [op |-> "alter", key |-> k, to |-> to, type |-> "OBJECT", oid |-> oid, blocking |-> FALSE]
Error ==
  [op |-> "error", key |-> <<"none", "", "">>, to |-> <<"none", "", "">>,
   type |-> "INVALID", oid |-> Nobody, blocking |-> FALSE]

Finds(t, k) == Exists(Snapshot(t), chain[k])
Visible(t, k) == GetEntry(Snapshot(t), chain[k])

\* ScanDependents, ScanSubjects.
DependentsOf(t, n) == {d \in Name : <<d, n>> \in Depends /\ Finds(t, Dependents(n, d))}
SubjectsOf(t, n) == {s \in Name : <<n, s>> \in Depends /\ Finds(t, Subjects(n, s))}

Each(S, Steps(_)) == FlattenSeq([i \in 1 .. Cardinality(S) |-> Steps(SetToSeq(S)[i])])

\* Mutant: only one of the two sides is dropped.
RemoveDependencyMutant(d, s) == <<Drop(Dependents(s, d))>>

RemoveDependency(d, s) == <<Drop(Dependents(s, d)), Drop(Subjects(d, s))>>

\* CreateDependency: an existing pair of entries is dropped first.
CreateDependency(t, d, s, blocking) ==
  LET oid == Visible(t, Object(s)).oid
      existing == SelectSeq(<<Drop(Subjects(d, s)), Drop(Dependents(s, d))>>,
                            LAMBDA step : Finds(t, step.key))
  IN  existing \o <<Create(Dependents(s, d), "DEPENDENCY", oid, blocking),
                    Create(Subjects(d, s), "DEPENDENCY", oid, blocking)>>

\* CleanupDependencies: first what n depends on, then what depends on n.
CleanupDependencies(subjects, n, dependents) ==
  Each(subjects, LAMBDA s : RemoveDependency(n, s))
  \o Each(dependents, LAMBDA d : RemoveDependency(d, n))

CascadeDrop(t, n, d, cascade) == cascade \/ ~Visible(t, Dependents(n, d)).blocking

\* DropEntry: DropDependencies, which drops the dependents in turn, and then
\* the entry.  drop[i, n, over]: n dropped on behalf of over, i levels left.
DropSteps(t, name, cascade) ==
  LET drop[i \in 0 .. Cardinality(Name), n \in Name, over \in Name] ==
        LET dependents == DependentsOf(t, n)
            subjects == SubjectsOf(t, n) \ {over}
        IN  IF i = 0 THEN <<Error>>
            ELSE IF \E d \in dependents : ~CascadeDrop(t, n, d, cascade) THEN <<Error>>
            ELSE CleanupDependencies(subjects, n, dependents)
                 \o Each(dependents, LAMBDA d : drop[i - 1, d, n])
                 \o <<Drop(Object(n))>>
  IN  drop[Cardinality(Name), name, name]

\* AlterObject: the dependents must allow the change (a rename does not), and
\* every dependency is made again, under the new name.
AlterSteps(t, n, to) ==
  LET dependents == DependentsOf(t, n)
      subjects == SubjectsOf(t, n)
      again(d, s, new_d) ==
        CreateDependency(t, new_d, s, Visible(t, Dependents(s, d)).blocking)
  IN  <<Alter(Object(n), Object(to), Visible(t, Object(n)).id)>>
      \o IF to # n /\ dependents # {} THEN <<Error>>
         ELSE (IF to # n THEN CleanupDependencies(subjects, n, {}) ELSE << >>)
              \o Each(dependents, LAMBDA d : again(d, n, d))
              \o Each(subjects, LAMBDA s : again(n, s, to))

Statement(t, steps) ==
  /\ t \in Writer /\ status[t] = "active" /\ todo[t] = << >> /\ ending.txn # t
  /\ statements < MaxStatements
  /\ statements' = statements + 1
  /\ todo' = [todo EXCEPT ![t] = steps]
  /\ UNCHANGED <<chain, clock, status, start_time, commit_id, undo, cleaned, ending>>

\* CREATE: AddObject, then the object itself.
CreateStatement(t) ==
  \E n \in Created, blocking \in Blocking :
    LET subjects == {s \in Name : <<n, s>> \in Depends /\ Finds(t, Object(s))}
    IN  Statement(t,
          Each(subjects, LAMBDA s : CreateDependency(t, n, s, blocking))
          \o <<Create(Object(n), "OBJECT", Nobody, FALSE)>>)

DropStatement(t) ==
  \E n \in Name, cascade \in BOOLEAN :
    /\ Finds(t, Object(n))
    /\ Statement(t, DropSteps(t, n, cascade))

AlterStatement(t) ==
  \E n \in Name : \E to \in {n} \cup {p[2] : p \in {p \in Renames : p[1] = n}} :
    /\ Finds(t, Object(n))
    /\ Statement(t, AlterSteps(t, n, to))
-----------------------------------------------------------------------------
(* The steps, each under the catalog's write lock *)

\* A version on top of a chain; the old one goes into the undo buffer.
Pushed(state, t, k, type, oid, blocking) ==
  LET old == StartChain(state.chain[k])
      id == <<t, Len(state.undo) + 1>>
      new == Entry(id, TransactionId(t), type, IF oid = Nobody THEN id ELSE oid, blocking)
  IN  [chain |-> [state.chain EXCEPT ![k] = <<new>> \o old],
       undo |-> Append(state.undo, <<k, Head(old).id>>)]

Now(t) == [chain |-> chain, undo |-> undo[t]]

Done(t, state) ==
  /\ chain' = state.chain
  /\ undo' = [undo EXCEPT ![t] = state.undo]
  /\ todo' = [todo EXCEPT ![t] = Tail(@)]
  /\ UNCHANGED <<clock, status, start_time, commit_id, cleaned, statements, ending>>

\* An exception: the transaction can only be rolled back.
Throw(t, state) ==
  /\ chain' = state.chain
  /\ undo' = [undo EXCEPT ![t] = state.undo]
  /\ todo' = [todo EXCEPT ![t] = << >>]
  /\ status' = [status EXCEPT ![t] = "failed"]
  /\ UNCHANGED <<clock, start_time, commit_id, cleaned, statements, ending>>

Step(t, op) == todo[t] # << >> /\ Head(todo[t]).op = op

\* CreateEntry.  A dependency that was there has been dropped before.
CreateEntry(t) ==
  /\ Step(t, "create")
  /\ LET x == Head(todo[t])
         vacancy == Vacancy(Snapshot(t), chain[x.key])
     IN  \/ /\ vacancy = "vacant"
            /\ Done(t, Pushed(Now(t), t, x.key, x.type, x.oid, x.blocking))
         \/ /\ vacancy \in {"conflict", "occupied"}
            /\ Throw(t, Now(t))

\* DropEntry; nothing happens to what the transaction does not see.
DropEntry(t) ==
  /\ Step(t, "drop")
  /\ LET k == Head(todo[t]).key
     IN  \/ /\ ~Finds(t, k)
            /\ Done(t, Now(t))
         \/ /\ Finds(t, k) /\ GetEntryInternal(Snapshot(t), chain[k]) = "found"
            /\ Done(t, Pushed(Now(t), t, k, "DELETED", Nobody, FALSE))
         \/ /\ Finds(t, k) /\ GetEntryInternal(Snapshot(t), chain[k]) = "conflict"
            /\ Throw(t, Now(t))

\* RenameEntryInternal: the name the entry leaves.
LeftName(t, k) ==
  Pushed(Pushed(Now(t), t, k, "RENAMED", Nobody, FALSE), t, k, "DELETED", Nobody, FALSE)

\* The locked part of AlterEntry: the entry is fetched again.
AlterEntry(t) ==
  /\ Step(t, "alter")
  /\ LET x == Head(todo[t])
         found == GetEntryInternal(Snapshot(t), chain[x.key])
         oid == Head(chain[x.key]).oid
         renamed == Pushed(LeftName(t, x.key), t, x.to, "RENAMED", Nobody, FALSE)
     IN  \/ /\ found = "conflict"
            /\ Throw(t, Now(t))
         \/ /\ found = "found" /\ x.to = x.key
            /\ Done(t, Pushed(Now(t), t, x.key, "OBJECT", oid, FALSE))
         \/ /\ found = "found" /\ x.to # x.key
            /\ IF Finds(t, x.to) THEN Throw(t, Now(t))
               ELSE IF Vacancy(Snapshot(t), chain[x.to]) # "vacant"
                    THEN Throw(t, LeftName(t, x.key))
                    ELSE Done(t, Pushed(renamed, t, x.to, "OBJECT", oid, FALSE))

DependencyException(t) ==
  /\ Step(t, "error")
  /\ Throw(t, Now(t))

-----------------------------------------------------------------------------
(* Commit, rollback, clean-up *)

StartCommit(t) ==
  /\ status[t] = "active" /\ todo[t] = << >> /\ undo[t] # << >> /\ ending = Idle
  /\ commit_id' = [commit_id EXCEPT ![t] = clock]
  /\ clock' = clock + 1
  /\ ending' = [txn |-> t, phase |-> "commit", pos |-> 1]
  /\ UNCHANGED <<chain, status, start_time, undo, cleaned, todo, statements>>

\* VerifyExistence: the subject of a new dependency has not been dropped, nor
\* dropped and created again, by the commits before this one.
VerifyExistence(t, k, dependency) ==
  LET subject == chain[Object(k[3])]
      reason == FailureReason(Through(commit_id[t]), subject)
  IN  /\ reason # "DELETED"
      /\ reason = "SUCCESS" =>
           GetEntry(Through(commit_id[t]), subject).oid = dependency.oid

\* Mutant: dependents that were created meanwhile do not matter.
VerifyCommitDropMutant(t, n) == TRUE

\* VerifyCommitDrop: no dependent of a dropped object was committed since the
\* transaction started.
VerifyCommitDrop(t, n) ==
  \A d \in Name :
    LET c == IF <<d, n>> \in Depends THEN chain[Dependents(n, d)] ELSE << >>
    IN  Exists(Before(commit_id[t]), c) =>
          GetEntry(Before(commit_id[t]), c).ts < start_time[t]

\* May the change be committed that put another entry on the one with id?
Verified(t, k, id) ==
  LET old == chain[k][PositionOf(chain[k], id)]
      new == ParentOf(chain[k], id)
  IN  /\ new.type = "DEPENDENCY" /\ k[1] = "subjects" => VerifyExistence(t, k, new)
      /\ new.type = "DELETED" /\ old.type = "OBJECT" => VerifyCommitDrop(t, k[2])

\* CommitState::CommitEntry, one undo entry; the commit is done after the last.
CommitEntry(t) ==
  /\ ending.txn = t /\ ending.phase = "commit"
  /\ LET k == undo[t][ending.pos][1]
         id == undo[t][ending.pos][2]
     IN  /\ Verified(t, k, id)
         /\ chain' = [chain EXCEPT ![k] = UpdateTimestamp(@, id, commit_id[t])]
  /\ IF ending.pos < Len(undo[t])
     THEN ending' = [ending EXCEPT !.pos = @ + 1] /\ UNCHANGED status
     ELSE ending' = Idle /\ status' = [status EXCEPT ![t] = "committed"]
  /\ UNCHANGED <<clock, start_time, commit_id, undo, cleaned, todo, statements>>

\* The check fails: the entries before are given the transaction id back, and
\* the transaction is rolled back.
RevertCommit(t) ==
  /\ ending.txn = t /\ ending.phase = "commit"
  /\ ~Verified(t, undo[t][ending.pos][1], undo[t][ending.pos][2])
  /\ chain' = [k \in Key |->
                 [i \in DOMAIN chain[k] |->
                    IF chain[k][i].ts = commit_id[t]
                    THEN [chain[k][i] EXCEPT !.ts = TransactionId(t)] ELSE chain[k][i]]]
  /\ commit_id' = [commit_id EXCEPT ![t] = 0]
  /\ status' = [status EXCEPT ![t] = "failed"]
  /\ ending' = [txn |-> t, phase |-> "rollback", pos |-> Len(undo[t])]
  /\ UNCHANGED <<clock, start_time, undo, cleaned, todo, statements>>

StartRollback(t) ==
  /\ Active(t) /\ todo[t] = << >> /\ undo[t] # << >> /\ ending = Idle
  /\ status' = [status EXCEPT ![t] = "failed"]
  /\ ending' = [txn |-> t, phase |-> "rollback", pos |-> Len(undo[t])]
  /\ UNCHANGED <<chain, clock, start_time, commit_id, undo, cleaned, todo, statements>>

\* RollbackState::RollbackEntry, from the last undo entry to the first.
RollbackEntry(t) ==
  /\ ending.txn = t /\ ending.phase = "rollback"
  /\ LET k == undo[t][ending.pos][1]
     IN  chain' = [chain EXCEPT ![k] = Undo(@, undo[t][ending.pos][2])]
  /\ undo' = [undo EXCEPT ![t] = Front(@)]
  /\ IF ending.pos > 1
     THEN ending' = [ending EXCEPT !.pos = @ - 1] /\ UNCHANGED status
     ELSE ending' = Idle /\ status' = [status EXCEPT ![t] = "ended"]
  /\ UNCHANGED <<clock, start_time, commit_id, cleaned, todo, statements>>

\* A transaction that changed nothing ends.
End(t) ==
  /\ Active(t) /\ todo[t] = << >> /\ undo[t] = << >> /\ ending = Idle
  /\ status' = [status EXCEPT ![t] = "ended"]
  /\ UNCHANGED <<chain, clock, start_time, commit_id, undo, cleaned, todo, statements,
                 ending>>

\* Mutant: commits that somebody does not see are cleaned up as well.
MayCleanMutant(t) == status[t] = "committed"

\* The transaction manager's rule: commits that every active transaction sees,
\* in the order of the commits.
MayClean(t) ==
  /\ status[t] = "committed"
  /\ \A u \in Txn : Active(u) => start_time[u] > commit_id[t]
  /\ \A u \in Txn : status[u] = "committed" /\ commit_id[u] < commit_id[t] =>
       cleaned[u] = Len(undo[u])

\* CleanupState::CleanupEntry, one undo entry.
Cleanup(t) ==
  /\ MayClean(t) /\ cleaned[t] < Len(undo[t])
  /\ LET k == undo[t][cleaned[t] + 1][1]
         id == undo[t][cleaned[t] + 1][2]
     IN  chain' = [chain EXCEPT ![k] = CleanupEntry(@, id)]
  /\ cleaned' = [cleaned EXCEPT ![t] = @ + 1]
  /\ UNCHANGED <<clock, status, start_time, commit_id, undo, todo, statements, ending>>

Next ==
  \E t \in Txn :
    \/ Begin(t) \/ CreateStatement(t) \/ DropStatement(t) \/ AlterStatement(t)
    \/ CreateEntry(t) \/ DropEntry(t) \/ AlterEntry(t) \/ DependencyException(t)
    \/ StartCommit(t) \/ CommitEntry(t) \/ RevertCommit(t)
    \/ StartRollback(t) \/ RollbackEntry(t) \/ End(t) \/ Cleanup(t)

Spec == Init /\ [][Next]_vars

-----------------------------------------------------------------------------
(* Properties *)

TypeOK ==
  /\ DOMAIN chain = Key
  /\ \A k \in Key : \A i \in DOMAIN chain[k] :
       /\ chain[k][i].type \in EntryType
       /\ chain[k][i].ts \in 0 .. MAX_TRANSACTION_ID
       /\ chain[k][i].type = "INVALID" => i = Len(chain[k]) /\ i > 1
  /\ clock \in Nat /\ clock < TRANSACTION_ID_START
  /\ status \in [Txn -> {"new", "active", "failed", "committed", "ended"}]
  /\ ending.txn \in Txn \cup {0}
  /\ \A t \in Txn : cleaned[t] <= Len(undo[t])

\* The entries of a commit that is under way do not count as committed yet.
Settled(c) ==
  IF ending.phase # "commit" THEN c
  ELSE [i \in DOMAIN c |->
          IF c[i].ts = commit_id[ending.txn]
          THEN [c[i] EXCEPT !.ts = TransactionId(ending.txn)] ELSE c[i]]

Absent == Nobody
IdOf(e) == IF Deleted(e) THEN Absent ELSE e.id
Found(snapshot, c) == IF c = << >> THEN Absent ELSE IdOf(GetEntry(snapshot, c))
Committed ==
  [k \in Key |->
     LET c == Settled(chain[k])
     IN  IF c = << >> THEN Absent ELSE IdOf(c[GetCommittedEntry(c)])]
RollingBack(t) == ending.txn = t /\ ending.phase = "rollback"
SeenBy(t) ==
  IF Active(t) /\ ~RollingBack(t)
  THEN [k \in Key |-> Found(Snapshot(t), Settled(chain[k]))]
  ELSE [k \in {} |-> Absent]
Owned(t) ==
  {k \in Key : \E i \in DOMAIN chain[k] :
     \/ chain[k][i].ts = TransactionId(t)
     \/ /\ ending.txn = t /\ ending.phase = "commit"
        /\ chain[k][i].ts = commit_id[t]}

\* The catalog implements snapshots with atomic commits: no statement, commit
\* step, rollback or clean-up of one transaction changes which entry another
\* one finds under a name, and what a transaction has found stays in memory
\* (GetEntryForTransaction, UpdateTimestamp, Undo, CleanupEntry).
Abstract == INSTANCE SnapshotCatalog WITH
  current <- Committed,
  view <- [t \in Txn |-> SeenBy(t)],
  dirty <- [t \in Txn |-> Owned(t)]
SnapshotCatalogSpec == Abstract!Spec

\* The undo buffer holds pointers to entries: until they are rolled back or
\* cleaned up they are in their chain, below the version of the transaction
\* (Undo, CleanupEntry, CommitEntry).
UndoEntriesLive ==
  /\ TypeOK
  /\ \A t \in Txn : \A i \in cleaned[t] + 1 .. Len(undo[t]) :
       LET k == undo[t][i][1]
           id == undo[t][i][2]
       IN  /\ InChain(chain[k], id) /\ PositionOf(chain[k], id) > 1
           /\ ParentOf(chain[k], id).id = <<t, i>>

\* No committed object is left with a dependency on something that is not
\* there any more, or on another object of the same name: whichever of CREATE
\* and DROP commits last finds out (VerifyExistence, VerifyCommitDrop).
NoDanglingDependency ==
  \A p \in Depends :
    LET now == Before(clock)
        dependency == Settled(chain[Subjects(p[1], p[2])])
        subject == Settled(chain[Object(p[2])])
    IN  Exists(now, dependency) =>
          /\ Exists(now, Settled(chain[Object(p[1])]))
          /\ Exists(now, subject)
          /\ GetEntry(now, subject).oid = GetEntry(now, dependency).oid

\* "Every dependency should have a matching dependent in the other set": for
\* the committed state and for every transaction between two statements
\* (ScanSetInternal).
SidesAgree ==
  \A p \in Depends :
    LET here == Dependents(p[2], p[1])
        there == Subjects(p[1], p[2])
    IN  /\ Exists(Before(clock), Settled(chain[here]))
             = Exists(Before(clock), Settled(chain[there]))
        /\ \A t \in Txn : status[t] = "active" /\ todo[t] = << >> /\ ending.txn # t =>
             Finds(t, here) = Finds(t, there)
=============================================================================
