-------------------------- MODULE BufferPoolProofs --------------------------
(***************************************************************************)
(* What the buffer pool keeps whatever is pinned, unpinned, evicted,        *)
(* purged and destroyed around a block, for any set of blocks and threads,  *)
(* any sizes, limits and bounds: the contents of a pinned block and of a    *)
(* temporary block that is still needed (ContentsKept), and the entry by    *)
(* which a block without readers is found for eviction (EvictableQueued).   *)
(***************************************************************************)
EXTENDS BufferPool, FiniteSetTheorems, TLAPS

-----------------------------------------------------------------------------
(* The inductive invariant *)

Lives == {"none", "live", "gone"}
Upons == {"BLOCK", "EVICTION", "UNPIN"}
Nodes == Blocks \X Nat

MemoryType ==
    [life : Lives, loaded : BOOLEAN, readers : Nat, seq : Nat,
     entry : BOOLEAN, charge : Nat, upon : Upons, owned : BOOLEAN]

ThreadType ==
    [pc : Pcs, op : Ops, blk : Blocks \cup {NoBlock}, need : Nat, lim : Nat,
     old : Nat, q : 0..3, res : Nat, node : (Blocks \cup {NoBlock}) \X Nat,
     batch : SUBSET Nodes, alive : SUBSET Nodes, deadCount : Nat, left : Int]

Evicting == {"reserve", "iterate", "visit", "granted"}
Purging == {"purge", "bulk", "judge"}

\* Where in its operation a thread is, and what its fields say there.
WellFormed(s) ==
    /\ s \in ThreadType
    /\ IsFiniteSet(s.batch) /\ IsFiniteSet(s.alive)
    /\ s.op # "none" => s.pc \in Evicting
    /\ s.pc \in Evicting \cup Purging => s.q \in 1..3
    /\ s.pc # "judge" => s.batch = {} /\ s.alive = {}
    /\ s.pc = "visit" => s.node[1] \in Blocks
    /\ s.op \in {"pin", "allocate"} \/ s.pc = "enqueue" => s.blk \in Blocks
    /\ s.pc = "convert" => s.blk \in Temporary /\ s.node[1] \in Persistent

Types ==
    /\ mem \in [Blocks -> MemoryType]
    /\ spilled \subseteq Temporary
    /\ queues \in [1..3 -> SUBSET Nodes]
    /\ \A q \in 1..3 : IsFiniteSet(queues[q])
    /\ limit \in Nat
    /\ pins \in [Threads -> SUBSET Blocks]
    /\ dying \in [Threads -> Blocks \cup {NoBlock}]
    /\ th \in [Threads -> ThreadType]
    /\ \A t \in Threads : WellFormed(th[t])

Pinners(b) == {t \in Threads : b \in pins[t]}

\* A block with an owner lives, is not about to be destroyed, and has as many
\* readers as threads have it pinned; a pinned block has an owner and a buffer.
Owned ==
    /\ \A b \in Blocks : mem[b].owned =>
         /\ mem[b].life = "live"
         /\ mem[b].readers = Cardinality(Pinners(b))
         /\ \A t \in Threads : dying[t] # b
    /\ \A t \in Threads : \A b \in pins[t] : mem[b].owned /\ mem[b].loaded
    /\ \A b \in Blocks : mem[b].life = "none" => mem[b] = Absent

\* One thread runs a block's destructor, once no eviction refers to it.
Dying ==
    /\ \A t \in Threads : dying[t] # NoBlock =>
         mem[dying[t]].life = "live" /\ ~Referenced(dying[t], Threads)
    /\ \A t, u \in Threads : dying[t] # NoBlock /\ dying[t] = dying[u] => t = u
    /\ \A t \in Threads : th[t].pc = "visit" => mem[th[t].node[1]].life = "live"

\* The block a thread works for: it does not exist yet while it is allocated,
\* and keeps its owner while it is pinned or queued.
Wanted ==
    /\ \A t \in Threads : th[t].op = "allocate" =>
         /\ th[t].blk \in Temporary /\ mem[th[t].blk].life = "none"
         /\ \A u \in Threads : 
              th[u].op = "allocate" /\ th[u].blk = th[t].blk => u = t
    /\ \A t \in Threads : th[t].op = "pin" =>
         th[t].blk \in Blocks /\ mem[th[t].blk].owned /\ th[t].blk \notin pins[t]
    /\ \A t \in Threads : th[t].pc = "enqueue" =>
         th[t].blk \in Blocks /\ mem[th[t].blk].owned

\* Contents of temporary blocks.
Spilled ==
    /\ \A b \in Temporary :
         mem[b].owned /\ mem[b].upon = "BLOCK" =>
            (mem[b].loaded <=> b \notin spilled)
    /\ \A b \in spilled : mem[b].life = "live"

ContentsInv == Owned /\ Dying /\ Wanted /\ Spilled

\* A block in conversion is pinned by its thread only and nobody else is about
\* to pin or to queue it; the block it becomes does not exist yet and is nobody
\* else's.
Converting ==
    \A t \in Threads : th[t].pc = "convert" =>
        /\ th[t].blk \in pins[t]
        /\ \A u \in Threads \ {t} :
             /\ th[t].blk \notin pins[u]
             /\ th[u].op = "pin" \/ th[u].pc \in {"enqueue", "convert"} =>
                  th[u].blk # th[t].blk
             /\ th[u].pc = "convert" => th[u].node[1] # th[t].node[1]
        /\ mem[th[t].node[1]].life = "none"
        /\ Size[th[t].blk] = Size[th[t].node[1]]

\* The queue entries in the hands of a thread.
InHand(s) == s.batch \cup s.alive \cup (IF s.pc = "visit" THEN {s.node} ELSE {})

\* An entry is in one place only, and was made for its block.
EntriesApart ==
    /\ \A q, r \in 1..3 : q # r => queues[q] \cap queues[r] = {}
    /\ \A q \in 1..3, t \in Threads : queues[q] \cap InHand(th[t]) = {}
    /\ \A t, u \in Threads : t # u => InHand(th[t]) \cap InHand(th[u]) = {}

Made(n) == mem[n[1]].life # "none" /\ n[2] \in 1..mem[n[1]].seq
EntriesMade ==
    /\ \A q \in 1..3 : \A n \in queues[q] : Made(n)
    /\ \A t \in Threads : \A n \in InHand(th[t]) : Made(n)

QueueInv == EntriesApart /\ EntriesMade /\ EvictableQueued

PoolInv == Types /\ ContentsInv /\ Converting /\ QueueInv

-----------------------------------------------------------------------------
(* What a step does to the thread that takes it *)

\* The limit at start is a number.
LEMMA LimitsHaveMax == Max(Limits) \in Nat
  <1>1. PICK most \in Limits : \A l \in Limits : l <= most
    BY PoolAssumption
  <1>2. \A y \in Limits : most >= y
    BY <1>1, PoolAssumption
  <1>. QED
    BY <1>1, <1>2, PoolAssumption DEF Max

\* An idle thread is well formed and holds nothing.
LEMMA IdleFormed ==
  WellFormed(Idle) /\ Idle.pc = "idle" /\ Idle.op = "none" /\ InHand(Idle) = {}
  BY FS_EmptySet DEF Idle, ThreadType, Pcs, Ops, WellFormed, InHand, Evicting, Purging

\* A thread goes on with what it does, or ends it, with no entry in its hands.
Resumes(t, s) ==
    /\ WellFormed(s)
    /\ th' = [th EXCEPT ![t] = s]
    /\ s.pc \notin {"visit", "enqueue", "convert", "judge"}
    /\ \/ s.op = th[t].op /\ s.blk = th[t].blk
       \/ s.op \in {"none", "limit1", "limit2"}

\* A thread that ends its operation resumes as an idle one.
LEMMA ResumesIdle ==
  ASSUME NEW t \in Threads, th' = [th EXCEPT ![t] = Idle]
  PROVE  Resumes(t, Idle)
  BY IdleFormed DEF Resumes

\* A thread that resumes has no queue entry in its hands.
LEMMA ResumesNothing ==
  ASSUME NEW t, NEW s, Resumes(t, s)
  PROVE  InHand(s) = {}
  BY DEF Resumes, InHand, WellFormed

\* Steps that move the thread on to pc, with another node, reservation or queue.
MovesTo(t, pc, node, res, q) ==
    th' = [th EXCEPT ![t] = [th[t] EXCEPT !.pc = pc, !.node = node, !.res = res,
                                          !.q = q]]

\* An eviction that moves on stays well formed.
LEMMA ResumesAt ==
  ASSUME Types, NEW t \in Threads, th[t].pc \in Evicting,
         NEW pc \in {"reserve", "iterate", "granted"}, NEW node \in (Blocks \cup {NoBlock}) \X Nat,
         NEW res \in Nat, NEW q \in 1..3,
         MovesTo(t, pc, node, res, q)
  PROVE  \E s : Resumes(t, s)
  <1>. DEFINE s == [th[t] EXCEPT !.pc = pc, !.node = node, !.res = res, !.q = q]
  <1>1. th[t] \in ThreadType /\ WellFormed(th[t])
    BY DEF Types
  <1>2. /\ s \in ThreadType /\ s.pc = pc /\ s.op = th[t].op /\ s.q = q
        /\ s.blk = th[t].blk /\ s.batch = th[t].batch /\ s.alive = th[t].alive
    <2>0. pc \in Pcs /\ q \in 0..3
      BY DEF Pcs
    <2>. DEFINE N == (Blocks \cup {NoBlock}) \X Nat
    <2>. HIDE DEF N
    <2>1. node \in N
      BY DEF N
    <2>2. s \in ThreadType
      BY <1>1, <2>0, <2>1 DEF ThreadType, N
    <2>3. /\ s.pc = pc /\ s.op = th[t].op /\ s.q = q
          /\ s.blk = th[t].blk /\ s.batch = th[t].batch /\ s.alive = th[t].alive
      BY <1>1 DEF ThreadType
    <2>. QED BY <2>2, <2>3
  <1>. HIDE DEF s
  <1>3. th[t].batch = {} /\ th[t].alive = {}
    <2>1. th[t].pc # "judge"
      BY DEF Evicting
    <2>. QED BY <2>1, <1>1 DEF WellFormed
  <1>4. pc \in Evicting /\ pc \notin {"visit", "enqueue", "convert", "judge"}
    BY DEF Evicting
  <1>5. WellFormed(s)
    BY <1>1, <1>2, <1>3, <1>4, FS_EmptySet DEF WellFormed
  <1>6. th' = [th EXCEPT ![t] = s]
    BY DEF s, MovesTo
  <1>. QED
    BY <1>2, <1>4, <1>5, <1>6 DEF Resumes

\* The fields of a thread that is evicting.
LEMMA AtEvicting ==
  ASSUME Types, NEW t \in Threads, th[t].pc \in Evicting
  PROVE  /\ th[t] \in ThreadType /\ th[t].q \in 1..3
         /\ th[t].need \in Nat /\ th[t].res \in Nat
         /\ th[t].node \in (Blocks \cup {NoBlock}) \X Nat
         /\ Idle.node \in (Blocks \cup {NoBlock}) \X Nat
  BY DEF Types, WellFormed, ThreadType, Idle

\* The thread is granted its memory.
LEMMA GrantMoves ==
  ASSUME Types, NEW t \in Threads, th[t].pc \in Evicting, Grant(t)
  PROVE  \E s : Resumes(t, s)
  <1>1. MovesTo(t, "granted", Idle.node, th[t].need, th[t].q)
    BY AtEvicting DEF ThreadType, MovesTo, Grant
  <1>. QED BY <1>1, AtEvicting, ResumesAt

\* The thread looks at the next entry, or at the next queue.
LEMMA IterateMoves ==
  ASSUME Types, NEW t \in Threads, th[t].pc \in Evicting,
         th' = [th EXCEPT ![t].pc = "iterate", ![t].node = Idle.node]
  PROVE  \E s : Resumes(t, s)
  <1>1. MovesTo(t, "iterate", Idle.node, th[t].res, th[t].q)
    BY AtEvicting DEF ThreadType, MovesTo
  <1>. QED BY <1>1, AtEvicting, ResumesAt

\* A queue that does not yield enough is left for the next one.
LEMMA NextQueueMoves ==
  ASSUME Types, NEW t \in Threads, th[t].pc \in Evicting, NextQueue(t)
  PROVE  \E s : Resumes(t, s)
  <1>1. th[t].q + 1 \in 1..3
    BY AtEvicting DEF NextQueue, ObjectCache
  <1>2. MovesTo(t, "reserve", Idle.node, 0, th[t].q + 1)
    BY AtEvicting DEF ThreadType, MovesTo, NextQueue
  <1>. QED BY <1>1, <1>2, AtEvicting, ResumesAt

LEMMA ReserveMoves ==
  ASSUME Types, NEW t \in Threads, EvictReserve(t)
  PROVE  \E s : Resumes(t, s)
  <1>1. th[t].pc \in Evicting
    BY DEF EvictReserve, At, Evicting
  <1>2. CASE th' = [th EXCEPT ![t].pc = "iterate", ![t].res = th[t].need]
    <2>1. MovesTo(t, "iterate", th[t].node, th[t].need, th[t].q)
      BY <1>1, <1>2, AtEvicting DEF ThreadType, MovesTo
    <2>. QED BY <1>1, <2>1, AtEvicting, ResumesAt
  <1>3. CASE Grant(t)
    BY <1>1, <1>3, GrantMoves
  <1>. QED
    BY <1>2, <1>3 DEF EvictReserve

LEMMA ExhaustedMoves ==
  ASSUME Types, NEW t \in Threads, EvictExhausted(t)
  PROVE  \E s : Resumes(t, s)
  <1>1. th[t].pc \in Evicting
    BY DEF EvictExhausted, At, Evicting
  <1>2. CASE NextQueue(t)
    BY <1>1, <1>2, NextQueueMoves
  <1>3. CASE GiveUp(t, FALSE)
    BY <1>3, ResumesIdle DEF GiveUp
  <1>. QED
    BY <1>2, <1>3 DEF EvictExhausted

\* After an unload the thread is granted its memory or looks further.
LEMMA AfterUnloadMoves ==
  ASSUME Types, NEW t \in Threads, th[t].pc \in Evicting, NEW b, AfterUnload(t, b)
  PROVE  \E s : Resumes(t, s)
  <1>1. CASE th' = [th EXCEPT ![t].pc = "granted", ![t].node = Idle.node]
    <2>1. MovesTo(t, "granted", Idle.node, th[t].res, th[t].q)
      BY <1>1, AtEvicting DEF ThreadType, MovesTo
    <2>. QED BY <2>1, AtEvicting, ResumesAt
  <1>2. CASE Grant(t)
    BY <1>2, GrantMoves
  <1>3. CASE th' = [th EXCEPT ![t].pc = "iterate", ![t].node = Idle.node]
    BY <1>3, IterateMoves
  <1>. QED
    BY <1>1, <1>2, <1>3 DEF AfterUnload

\* The visit of a block, whatever it comes to.
LEMMA VisitMoves ==
  ASSUME Types, NEW t \in Threads, EvictVisit(t)
  PROVE  \E s : Resumes(t, s)
  <1>. DEFINE b == th[t].node[1]
  <1>1. th[t].pc \in Evicting
    BY DEF EvictVisit, At, Evicting
  <1>2. CASE VisitStale(t, b) \/ VisitUnevictable(t, b)
    BY <1>1, <1>2, IterateMoves DEF VisitStale, VisitUnevictable
  <1>3. CASE VisitNoTempDirectory(t, b)
    BY <1>1, <1>3, NextQueueMoves DEF VisitNoTempDirectory
  <1>4. CASE VisitUnload(t, b)
    BY <1>1, <1>4, AfterUnloadMoves DEF VisitUnload
  <1>5. CASE VisitWriteFails(t, b)
    BY <1>5, ResumesIdle DEF VisitWriteFails, GiveUp
  <1>. QED
    BY <1>2, <1>3, <1>4, <1>5 DEF EvictVisit

\* A new eviction, for a block or for a new limit.
LEMMA StartEvictionMoves ==
  ASSUME NEW t \in Threads, NEW op \in Ops, NEW b \in Blocks \cup {NoBlock},
         NEW need \in Nat, NEW lim \in Nat, NEW old \in Nat,
         op \in {"pin", "allocate"} => b \in Blocks,
         StartEviction(t, op, b, need, lim, old)
  PROVE  \E s : /\ WellFormed(s) /\ th' = [th EXCEPT ![t] = s]
                /\ s.pc = "reserve" /\ s.op = op /\ s.blk = b
  <1>. DEFINE s == [Idle EXCEPT !.pc = "reserve", !.op = op, !.blk = b,
                                !.need = need, !.lim = lim,
                                !.old = old, !.q = BlockQueue]
  <1>1. Idle \in ThreadType /\ Idle.batch = {} /\ Idle.alive = {}
    BY IdleFormed DEF WellFormed, Idle
  <1>2. s \in ThreadType
    <2>1. "reserve" \in Pcs /\ BlockQueue \in 0..3
      BY DEF Pcs, BlockQueue
    <2>. QED BY <1>1, <2>1 DEF ThreadType
  <1>3. /\ s.pc = "reserve" /\ s.op = op /\ s.blk = b /\ s.q = 1
        /\ s.batch = {} /\ s.alive = {}
    BY <1>1 DEF ThreadType, BlockQueue
  <1>4. th' = [th EXCEPT ![t] = s]
    BY DEF StartEviction
  <1>. HIDE DEF s
  <1>5. WellFormed(s)
    BY <1>2, <1>3, FS_EmptySet DEF WellFormed, Evicting
  <1>. QED
    BY <1>3, <1>4, <1>5

LEMMA SetLimitMoves ==
  ASSUME Types, NEW t \in Threads, SetLimit(t) \/ LimitChanged(t)
  PROVE  \E s : Resumes(t, s)
  <1>1. PICK op \in {"limit1", "limit2"}, lim \in Nat, old \in Nat :
          StartEviction(t, op, NoBlock, 0, lim, old)
    <2>1. CASE SetLimit(t)
      BY <2>1, PoolAssumption DEF SetLimit
    <2>2. CASE LimitChanged(t)
      BY <2>2 DEF LimitChanged, Types, ThreadType
    <2>. QED BY <2>1, <2>2
  <1>2. \E s : /\ WellFormed(s) /\ th' = [th EXCEPT ![t] = s]
               /\ s.pc = "reserve" /\ s.op = op
    BY <1>1, StartEvictionMoves DEF Ops
  <1>. QED
    BY <1>2 DEF Resumes

\* An insertion into the eviction queue leaves the thread idle or purging.
LEMMA InsertMoves ==
  ASSUME NEW t \in Threads, NEW b \in Blocks, Insert(t, b)
  PROVE  \E s : Resumes(t, s)
  <1>. DEFINE s == [Idle EXCEPT !.pc = "purge", !.blk = b, !.q = QueueOf(b)]
  <1>1. Idle \in ThreadType /\ Idle.batch = {} /\ Idle.alive = {} /\ Idle.op = "none"
    BY IdleFormed DEF WellFormed, Idle
  <1>2. "purge" \in Pcs /\ QueueOf(b) \in 1..3 /\ QueueOf(b) \in 0..3
    BY DEF Pcs, QueueOf, BlockQueue, ManagedQueue
  <1>3. s \in ThreadType
    BY <1>1, <1>2 DEF ThreadType
  <1>4. /\ s.pc = "purge" /\ s.op = "none" /\ s.q = QueueOf(b)
        /\ s.batch = {} /\ s.alive = {}
    BY <1>1 DEF ThreadType
  <1>5. th' = [th EXCEPT ![t] = s] \/ th' = [th EXCEPT ![t] = Idle]
    BY DEF Insert
  <1>. HIDE DEF s
  <1>6. WellFormed(s)
    BY <1>2, <1>3, <1>4, FS_EmptySet DEF WellFormed, Evicting, Purging
  <1>7. CASE th' = [th EXCEPT ![t] = s]
    BY <1>4, <1>6, <1>7 DEF Resumes
  <1>. QED
    BY <1>5, <1>7, ResumesIdle

LEMMA PurgeMoves ==
  ASSUME Types, NEW t \in Threads, Purge(t)
  PROVE  \E s : Resumes(t, s)
  <1>. DEFINE size == Cardinality(queues[th[t].q])
              s == [th[t] EXCEPT !.pc = "bulk", !.left = size \div PurgeSize]
  <1>1. /\ th[t] \in ThreadType /\ WellFormed(th[t]) /\ th[t].pc = "purge"
    BY DEF Types, Purge, At
  <1>2. th[t].q \in 1..3 /\ th[t].batch = {} /\ th[t].alive = {} /\ th[t].op = "none"
    BY <1>1 DEF WellFormed, Purging, Evicting
  <1>3. size \in Nat
    BY <1>2, FS_CardinalityType DEF Types
  <1>4. PurgeSize \in Nat \ {0}
    BY PoolAssumption DEF PurgeSize
  <1>5. size \div PurgeSize \in Int /\ "bulk" \in Pcs
    BY <1>3, <1>4 DEF Pcs
  <1>6. s \in ThreadType
    BY <1>1, <1>5 DEF ThreadType
  <1>7. /\ s.pc = "bulk" /\ s.op = "none" /\ s.q = th[t].q
        /\ s.batch = {} /\ s.alive = {}
    BY <1>1, <1>2 DEF ThreadType
  <1>8. th' = [th EXCEPT ![t] = s] \/ th' = [th EXCEPT ![t] = Idle]
    BY <1>1 DEF Purge, Types
  <1>. HIDE DEF s
  <1>9. WellFormed(s)
    BY <1>2, <1>6, <1>7, FS_EmptySet DEF WellFormed, Evicting, Purging
  <1>10. CASE th' = [th EXCEPT ![t] = s]
    BY <1>7, <1>9, <1>10 DEF Resumes
  <1>. QED
    BY <1>8, <1>10, ResumesIdle

LEMMA PurgeFinishMoves ==
  ASSUME Types, NEW t \in Threads, PurgeFinish(t)
  PROVE  \E s : Resumes(t, s)
  <1>. DEFINE s == [th[t] EXCEPT !.pc = "bulk", !.left = @ - 1, !.alive = {},
                                 !.deadCount = 0]
  <1>1. /\ th[t] \in ThreadType /\ WellFormed(th[t]) /\ th[t].pc = "judge"
        /\ th[t].batch = {}
    BY DEF Types, PurgeFinish, At
  <1>2. th[t].q \in 1..3 /\ th[t].op = "none"
    BY <1>1 DEF WellFormed, Purging, Evicting
  <1>3. "bulk" \in Pcs /\ th[t].left - 1 \in Int
    BY <1>1 DEF Pcs, ThreadType
  <1>4. s \in ThreadType
    BY <1>1, <1>3 DEF ThreadType
  <1>5. /\ s.pc = "bulk" /\ s.op = "none" /\ s.q = th[t].q
        /\ s.batch = {} /\ s.alive = {}
    BY <1>1, <1>2 DEF ThreadType
  <1>6. \/ th' = [th EXCEPT ![t].pc = "bulk", ![t].left = @ - 1,
                            ![t].alive = {}, ![t].deadCount = 0]
        \/ th' = [th EXCEPT ![t] = Idle]
    BY Zenon DEF PurgeFinish
  <1>7. th' = [th EXCEPT ![t] = s] \/ th' = [th EXCEPT ![t] = Idle]
    BY <1>1, <1>6 DEF Types
  <1>. HIDE DEF s
  <1>8. WellFormed(s)
    BY <1>2, <1>4, <1>5, FS_EmptySet DEF WellFormed, Evicting, Purging
  <1>9. CASE th' = [th EXCEPT ![t] = s]
    BY <1>5, <1>8, <1>9 DEF Resumes
  <1>. QED
    BY <1>7, <1>9, ResumesIdle

\* The thread now has an entry in its hands.
LEMMA VisitStarts ==
  ASSUME Types, NEW t \in Threads, th[t].pc = "iterate", NEW n \in Nodes,
         th' = [th EXCEPT ![t].pc = "visit", ![t].node = n]
  PROVE  \E s : /\ WellFormed(s) /\ th' = [th EXCEPT ![t] = s]
                /\ s.pc = "visit" /\ s.node = n
                /\ s.op = th[t].op /\ s.blk = th[t].blk /\ InHand(s) = {n}
  <1>. DEFINE s == [th[t] EXCEPT !.pc = "visit", !.node = n]
  <1>1. th[t] \in ThreadType /\ WellFormed(th[t])
    BY DEF Types
  <1>2. /\ "visit" \in Pcs /\ n \in (Blocks \cup {NoBlock}) \X Nat
        /\ n[1] \in Blocks
    BY DEF Pcs, Nodes
  <1>3. th[t].q \in 1..3 /\ th[t].batch = {} /\ th[t].alive = {}
    BY <1>1 DEF WellFormed, Purging, Evicting
  <1>4. s \in ThreadType
    BY <1>1, <1>2 DEF ThreadType
  <1>5. /\ s.pc = "visit" /\ s.node = n /\ s.op = th[t].op /\ s.q = th[t].q
        /\ s.blk = th[t].blk /\ s.batch = {} /\ s.alive = {}
    BY <1>1, <1>3 DEF ThreadType
  <1>6. th' = [th EXCEPT ![t] = s]
    BY <1>1 DEF Types
  <1>. HIDE DEF s
  <1>7. WellFormed(s)
    BY <1>1, <1>2, <1>3, <1>4, <1>5, FS_EmptySet DEF WellFormed, Evicting, Purging
  <1>. QED
    BY <1>5, <1>6, <1>7 DEF InHand

\* The thread purges: it holds batch and alive.
Purges(t, batch, alive, count) ==
    th' = [th EXCEPT ![t] = [th[t] EXCEPT !.pc = "judge", !.batch = batch,
                                          !.alive = alive, !.deadCount = count]]

\* A purging thread holds its batch and the live entries it found.
LEMMA PurgeHolds ==
  ASSUME Types, NEW t \in Threads, th[t].pc \in {"bulk", "judge"},
         NEW batch \in SUBSET Nodes, NEW alive \in SUBSET Nodes,
         IsFiniteSet(batch), IsFiniteSet(alive), NEW count \in Nat,
         Purges(t, batch, alive, count)
  PROVE  \E s : /\ WellFormed(s) /\ th' = [th EXCEPT ![t] = s]
                /\ s.pc = "judge" /\ s.op = "none"
                /\ InHand(s) = batch \cup alive
  <1>. DEFINE s == [th[t] EXCEPT !.pc = "judge", !.batch = batch, !.alive = alive,
                                 !.deadCount = count]
  <1>1. th[t] \in ThreadType /\ WellFormed(th[t])
    BY DEF Types
  <1>2. "judge" \in Pcs
    BY DEF Pcs
  <1>3. th[t].q \in 1..3 /\ th[t].op = "none"
    BY <1>1 DEF WellFormed, Purging, Evicting
  <1>4. s \in ThreadType
    BY <1>1, <1>2 DEF ThreadType
  <1>5. /\ s.pc = "judge" /\ s.op = "none" /\ s.q = th[t].q
        /\ s.batch = batch /\ s.alive = alive
    BY <1>1, <1>3 DEF ThreadType
  <1>. HIDE DEF s
  <1>7. WellFormed(s)
    BY <1>3, <1>4, <1>5 DEF WellFormed, Evicting, Purging
  <1>8. th' = [th EXCEPT ![t] = s]
    BY DEF s, Purges
  <1>. QED
    BY <1>5, <1>7, <1>8 DEF InHand

-----------------------------------------------------------------------------
(* Types: <action>Types says that the action keeps Types *)

\* A step that makes t continue as s changes no other thread.
LEMMA ThreadStep ==
  ASSUME Types, NEW t \in Threads, NEW s, WellFormed(s), th' = [th EXCEPT ![t] = s]
  PROVE  /\ th' \in [Threads -> ThreadType]
         /\ \A u \in Threads : WellFormed(th'[u])
         /\ th'[t] = s
         /\ \A u \in Threads \ {t} : th'[u] = th[u]
  <1>1. th \in [Threads -> ThreadType] /\ s \in ThreadType
    BY DEF Types, WellFormed
  <1>2. th'[t] = s /\ \A u \in Threads \ {t} : th'[u] = th[u]
    BY <1>1
  <1>3. th' \in [Threads -> ThreadType]
    BY <1>1
  <1>4. \A u \in Threads : WellFormed(th'[u])
    BY <1>2 DEF Types
  <1>. QED BY <1>2, <1>3, <1>4

LEMMA ResumesStep ==
  ASSUME Types, NEW t \in Threads, NEW s, Resumes(t, s)
  PROVE  /\ th' \in [Threads -> ThreadType]
         /\ \A u \in Threads : WellFormed(th'[u])
         /\ th'[t] = s
         /\ \A u \in Threads \ {t} : th'[u] = th[u]
  BY ThreadStep, Zenon DEF Resumes

\* The threads of a state that a step leaves with the right types.
ThreadTypes ==
    th \in [Threads -> ThreadType] /\ \A u \in Threads : WellFormed(th[u])

LEMMA ResumesTypes ==
  ASSUME Types, NEW t \in Threads, \E s : Resumes(t, s)
  PROVE  ThreadTypes'
  BY ResumesStep DEF ThreadTypes

\* One block's memory changes.
LEMMA MemoryStep ==
  ASSUME Types, NEW b, NEW m \in MemoryType, mem' = [mem EXCEPT ![b] = m]
  PROVE  mem' \in [Blocks -> MemoryType]
  BY DEF Types

\* A step that changes queue q only.
LEMMA QueueStep ==
  ASSUME Types, NEW q \in 1..3, NEW s \in SUBSET Nodes, IsFiniteSet(s),
         queues' = [queues EXCEPT ![q] = s]
  PROVE  /\ queues' \in [1..3 -> SUBSET Nodes]
         /\ \A r \in 1..3 : IsFiniteSet(queues'[r])
         /\ queues'[q] = s /\ \A r \in 1..3 : r # q => queues'[r] = queues[r]
  BY DEF Types

\* The rest of Types, for a step that leaves the queues and the limit alone.
LEMMA RestTypes ==
  ASSUME Types, ThreadTypes', mem' \in [Blocks -> MemoryType],
         spilled' \subseteq Temporary,
         UNCHANGED queues, limit' \in Nat,
         pins' \in [Threads -> SUBSET Blocks],
         dying' \in [Threads -> Blocks \cup {NoBlock}]
  PROVE  Types'
  BY DEF Types, ThreadTypes

\* SetLimit that gives up restores a number.
LEMMA GiveUpLimit ==
  ASSUME Types, NEW t \in Threads, NEW thrown, GiveUp(t, thrown)
  PROVE  limit' \in Nat
  BY DEF GiveUp, Types, ThreadType

LEMMA EvictReserveTypes ==
  ASSUME Types, NEW t \in Threads, EvictReserve(t)
  PROVE  Types'
  BY ReserveMoves, ResumesTypes, RestTypes DEF EvictReserve, Types

LEMMA EvictExhaustedTypes ==
  ASSUME Types, NEW t \in Threads, EvictExhausted(t)
  PROVE  Types'
  <1>1. limit' \in Nat
    BY GiveUpLimit DEF EvictExhausted, NextQueue, Types
  <1>. QED
    BY <1>1, ExhaustedMoves, ResumesTypes, RestTypes DEF EvictExhausted, Types

LEMMA LimitTypes ==
  ASSUME Types, NEW t \in Threads, SetLimit(t) \/ LimitChanged(t) \/ LimitKept(t)
  PROVE  Types'
  <1>1. ThreadTypes'
    BY SetLimitMoves, ResumesIdle, ResumesTypes DEF LimitKept
  <1>2. limit' \in Nat
    BY DEF SetLimit, LimitChanged, LimitKept, Types, ThreadType, poolVars
  <1>. QED
    BY <1>1, <1>2, RestTypes
       DEF SetLimit, LimitChanged, LimitKept, Types, poolVars

\* Taking an entry out of a queue.
LEMMA RemoveTypes ==
  ASSUME Types, NEW q \in 1..3, NEW out,
         queues' = [queues EXCEPT ![q] = @ \ out]
  PROVE  /\ queues' \in [1..3 -> SUBSET Nodes]
         /\ \A r \in 1..3 : IsFiniteSet(queues'[r])
  <1>1. queues[q] \ out \in SUBSET Nodes /\ IsFiniteSet(queues[q] \ out)
    BY FS_Difference DEF Types
  <1>. QED BY <1>1, QueueStep

\* Putting entries into one.
LEMMA PutTypes ==
  ASSUME Types, NEW q \in 1..3, NEW new \in SUBSET Nodes, IsFiniteSet(new),
         queues' = [queues EXCEPT ![q] = @ \cup new]
  PROVE  /\ queues' \in [1..3 -> SUBSET Nodes]
         /\ \A r \in 1..3 : IsFiniteSet(queues'[r])
  <1>1. queues[q] \cup new \in SUBSET Nodes /\ IsFiniteSet(queues[q] \cup new)
    BY FS_Union DEF Types
  <1>. QED BY <1>1, QueueStep

LEMMA PutOneTypes ==
  ASSUME Types, NEW q \in 1..3, NEW n \in Nodes,
         queues' = [queues EXCEPT ![q] = @ \cup {n}]
  PROVE  /\ queues' \in [1..3 -> SUBSET Nodes]
         /\ \A r \in 1..3 : IsFiniteSet(queues'[r])
  <1>1. queues[q] \cup {n} \in SUBSET Nodes
    BY DEF Types
  <1>2. IsFiniteSet(queues[q] \cup {n})
    BY FS_AddElement DEF Types
  <1>. QED BY <1>1, <1>2, QueueStep

\* The rest of Types, for a step of a queue.
LEMMA QueueTypes ==
  ASSUME Types, ThreadTypes', mem' \in [Blocks -> MemoryType],
         spilled' \subseteq Temporary,
         queues' \in [1..3 -> SUBSET Nodes],
         \A r \in 1..3 : IsFiniteSet(queues'[r]), limit' \in Nat,
         pins' \in [Threads -> SUBSET Blocks],
         dying' \in [Threads -> Blocks \cup {NoBlock}]
  PROVE  Types'
  BY DEF Types, ThreadTypes

\* A dequeue: t visits the block of a live entry, or forgets a dead one.
LEMMA DequeueMoves ==
  ASSUME Types, NEW t \in Threads, EvictDequeue(t)
  PROVE  \E n \in queues[th[t].q] :
           /\ th[t].q \in 1..3 /\ n \in Nodes
           /\ queues' = [queues EXCEPT ![th[t].q] = @ \ {n}]
           /\ \/ /\ Alive(n[1])
                 /\ \E s : /\ WellFormed(s) /\ th' = [th EXCEPT ![t] = s]
                           /\ s.pc = "visit" /\ s.node = n
                           /\ s.op = th[t].op /\ s.blk = th[t].blk
                           /\ InHand(s) = {n}
              \/ ~Alive(n[1]) /\ UNCHANGED th
  <1>1. th[t].pc = "iterate" /\ th[t].q \in 1..3
    BY DEF EvictDequeue, At, Types, WellFormed, Evicting
  <1>2. PICK n \in queues[th[t].q] :
          /\ queues' = [queues EXCEPT ![th[t].q] = @ \ {n}]
          /\ \/ Alive(n[1]) /\ th' = [th EXCEPT ![t].pc = "visit", ![t].node = n]
             \/ ~Alive(n[1]) /\ UNCHANGED th
    BY DEF EvictDequeue
  <1>3. n \in Nodes
    BY <1>1 DEF Types
  <1>4. CASE Alive(n[1]) /\ th' = [th EXCEPT ![t].pc = "visit", ![t].node = n]
    <2>1. \E s : /\ WellFormed(s) /\ th' = [th EXCEPT ![t] = s]
                 /\ s.pc = "visit" /\ s.node = n
                 /\ s.op = th[t].op /\ s.blk = th[t].blk
                 /\ InHand(s) = {n}
      BY ZenonT(60), <1>1, <1>3, <1>4, VisitStarts
    <2>. QED BY <1>1, <1>2, <1>3, <1>4, <2>1
  <1>. QED BY <1>1, <1>2, <1>3, <1>4

LEMMA EvictDequeueTypes ==
  ASSUME Types, NEW t \in Threads, EvictDequeue(t)
  PROVE  Types'
  <1>1. PICK n \in queues[th[t].q] :
           /\ th[t].q \in 1..3
           /\ queues' = [queues EXCEPT ![th[t].q] = @ \ {n}]
           /\ \/ \E s : WellFormed(s) /\ th' = [th EXCEPT ![t] = s]
              \/ UNCHANGED th
    BY DequeueMoves
  <1>2. ThreadTypes'
    BY <1>1, ThreadStep DEF ThreadTypes, Types
  <1>3. /\ queues' \in [1..3 -> SUBSET Nodes]
        /\ \A r \in 1..3 : IsFiniteSet(queues'[r])
    BY <1>1, RemoveTypes
  <1>. QED
    BY <1>2, <1>3, QueueTypes DEF EvictDequeue, Types

\* The bulk dequeue of a purge, and the judgement of one of its entries.
LEMMA PurgeDequeueMoves ==
  ASSUME Types, NEW t \in Threads, PurgeDequeue(t)
  PROVE  \E batch \in SUBSET queues[th[t].q] :
           /\ th[t].q \in 1..3 /\ IsFiniteSet(batch)
           /\ queues' = [queues EXCEPT ![th[t].q] = @ \ batch]
           /\ \E s : /\ WellFormed(s) /\ th' = [th EXCEPT ![t] = s]
                     /\ s.pc = "judge" /\ s.op = "none"
                     /\ InHand(s) = batch
  <1>1. /\ th[t].pc = "bulk" /\ th[t].q \in 1..3 /\ th[t].batch = {}
        /\ th[t].alive = {} /\ th[t] \in ThreadType
    BY DEF PurgeDequeue, At, Types, WellFormed, Purging
  <1>2. PICK batch \in SUBSET queues[th[t].q] :
          /\ queues' = [queues EXCEPT ![th[t].q] = @ \ batch]
          /\ th' = [th EXCEPT ![t].pc = "judge", ![t].batch = batch]
    BY DEF PurgeDequeue, kSubset
  <1>3. batch \in SUBSET Nodes /\ IsFiniteSet(batch)
    BY <1>1, <1>2, FS_Subset DEF Types
  <1>4. Purges(t, batch, {}, th[t].deadCount)
    BY <1>1, <1>2 DEF ThreadType, Purges
  <1>5. \E s : /\ WellFormed(s) /\ th' = [th EXCEPT ![t] = s]
               /\ s.pc = "judge" /\ s.op = "none"
               /\ InHand(s) = batch
    <2>1. th[t].deadCount \in Nat /\ th[t].pc \in {"bulk", "judge"}
      BY <1>1 DEF ThreadType
    <2>. DEFINE none == {}
    <2>2. none \in SUBSET Nodes /\ IsFiniteSet(none) /\ batch \cup none = batch
      BY FS_EmptySet
    <2>3. Purges(t, batch, none, th[t].deadCount)
      BY <1>4
    <2>. HIDE DEF none
    <2>4. \E s : /\ WellFormed(s) /\ th' = [th EXCEPT ![t] = s]
                 /\ s.pc = "judge" /\ s.op = "none"
                 /\ InHand(s) = batch \cup none
      BY <1>3, <2>1, <2>2, <2>3, PurgeHolds
    <2>. QED BY <2>2, <2>4
  <1>. QED BY <1>1, <1>2, <1>3, <1>5

LEMMA PurgeDequeueTypes ==
  ASSUME Types, NEW t \in Threads, PurgeDequeue(t)
  PROVE  Types'
  <1>1. PICK batch \in SUBSET queues[th[t].q] :
           /\ th[t].q \in 1..3
           /\ queues' = [queues EXCEPT ![th[t].q] = @ \ batch]
           /\ \E s : WellFormed(s) /\ th' = [th EXCEPT ![t] = s]
    BY PurgeDequeueMoves
  <1>2. ThreadTypes'
    BY <1>1, ThreadStep DEF ThreadTypes
  <1>3. /\ queues' \in [1..3 -> SUBSET Nodes]
        /\ \A r \in 1..3 : IsFiniteSet(queues'[r])
    BY <1>1, RemoveTypes
  <1>. QED
    BY <1>2, <1>3, QueueTypes DEF PurgeDequeue, Types

\* The judgement drops the entry of the batch only if it is dead.
LEMMA JudgeMoves ==
  ASSUME Types, NEW t \in Threads, PurgeJudge(t)
  PROVE  \E n \in InHand(th[t]) :
           \E s : /\ WellFormed(s) /\ th' = [th EXCEPT ![t] = s]
                  /\ s.pc = "judge" /\ s.op = "none"
                  /\ InHand(s) \subseteq InHand(th[t])
                  /\ \A m \in InHand(th[t]) : m \in InHand(s) \/ IsDeadNode(m)
  <1>1. th[t].pc = "judge" /\ th[t] \in ThreadType /\ WellFormed(th[t])
    BY DEF PurgeJudge, At, Types
  <1>2. PICK n \in th[t].batch :
          th' = [th EXCEPT ![t].batch = @ \ {n},
                           ![t].alive = IF IsDeadNode(n) THEN @ ELSE @ \cup {n},
                           ![t].deadCount = IF IsDeadNode(n) THEN @ + 1 ELSE @]
    BY DEF PurgeJudge
  <1>. DEFINE batch == th[t].batch \ {n}
              alive == IF IsDeadNode(n) THEN th[t].alive ELSE th[t].alive \cup {n}
              count == IF IsDeadNode(n) THEN th[t].deadCount + 1 ELSE th[t].deadCount
  <1>3. Purges(t, batch, alive, count)
    BY ZenonT(60), <1>1, <1>2 DEF ThreadType, Purges
  <1>4. batch \in SUBSET Nodes /\ alive \in SUBSET Nodes /\ count \in Nat
    BY <1>1, <1>2 DEF ThreadType
  <1>5. IsFiniteSet(batch) /\ IsFiniteSet(alive)
    BY <1>1, FS_AddElement, FS_RemoveElement DEF WellFormed
  <1>6. InHand(th[t]) = th[t].batch \cup th[t].alive
    BY <1>1 DEF InHand
  <1>7. /\ batch \cup alive \subseteq InHand(th[t]) /\ n \in InHand(th[t])
        /\ \A m \in InHand(th[t]) : m \in batch \cup alive \/ IsDeadNode(m)
    BY <1>2, <1>6
  <1>. HIDE DEF batch, alive, count
  <1>8. \E s : /\ WellFormed(s) /\ th' = [th EXCEPT ![t] = s]
               /\ s.pc = "judge" /\ s.op = "none"
               /\ InHand(s) = batch \cup alive
    <2>1. th[t].pc \in {"bulk", "judge"}
      BY <1>1
    <2>. QED BY <1>3, <1>4, <1>5, <2>1, PurgeHolds
  <1>. QED BY <1>7, <1>8

LEMMA PurgeTypes ==
  ASSUME Types, NEW t \in Threads, Purge(t) \/ PurgeJudge(t)
  PROVE  Types'
  <1>1. ThreadTypes'
    BY PurgeMoves, JudgeMoves, ThreadStep, ResumesTypes DEF ThreadTypes
  <1>. QED
    BY <1>1, RestTypes DEF Purge, PurgeJudge, Types, poolVars

LEMMA PurgeFinishTypes ==
  ASSUME Types, NEW t \in Threads, PurgeFinish(t)
  PROVE  Types'
  <1>1. /\ queues' = [queues EXCEPT ![th[t].q] = @ \cup th[t].alive]
        /\ UNCHANGED <<mem, spilled, limit, pins, dying>>
    BY DEF PurgeFinish
  <1>2. th[t].q \in 1..3 /\ th[t].alive \in SUBSET Nodes /\ IsFiniteSet(th[t].alive)
    BY DEF PurgeFinish, At, Types, WellFormed, Purging, ThreadType
  <1>3. /\ queues' \in [1..3 -> SUBSET Nodes]
        /\ \A r \in 1..3 : IsFiniteSet(queues'[r])
    BY <1>1, <1>2, PutTypes
  <1>4. ThreadTypes'
    BY PurgeFinishMoves, ResumesTypes
  <1>. QED
    BY <1>1, <1>3, <1>4, QueueTypes DEF Types

\* Dropping a reference keeps the type of dying.
LEMMA DropTypes ==
  ASSUME Types, NEW t \in Threads, NEW b \in Blocks, NEW others,
         DropReference(t, b, others)
  PROVE  dying' \in [Threads -> Blocks \cup {NoBlock}]
  BY DEF DropReference, Types

\* The types of the fields of a block.
LEMMA MemoryFields ==
  ASSUME Types, NEW b \in Blocks
  PROVE  /\ mem[b] \in MemoryType
         /\ Unloaded(mem[b]) \in MemoryType
         /\ \A e \in BOOLEAN : [mem[b] EXCEPT !.entry = e] \in MemoryType
         /\ [Unloaded(mem[b]) EXCEPT !.entry = FALSE] \in MemoryType
  BY DEF Types, MemoryType, Unloaded

LEMMA EvictVisitTypes ==
  ASSUME Types, NEW t \in Threads, EvictVisit(t)
  PROVE  Types'
  <1>. DEFINE b == th[t].node[1]
  <1>1. /\ th[t] \in ThreadType /\ b \in Blocks /\ th[t].pc \in Evicting
        /\ th[t].q \in 1..3 /\ th[t].node \in Nodes
    BY DEF EvictVisit, At, Types, WellFormed, Evicting, ThreadType, Nodes
  <1>. HIDE DEF b
  <1>2. ThreadTypes'
    BY VisitMoves, ResumesTypes
  <1>3. dying' \in [Threads -> Blocks \cup {NoBlock}]
    BY <1>1, DropTypes DEF EvictVisit, b
  <1>4. pins' \in [Threads -> SUBSET Blocks]
    BY DEF EvictVisit, Types
  <1>5. CASE VisitStale(t, b)
    BY <1>2, <1>3, <1>4, <1>5, RestTypes DEF VisitStale, Types
  <1>6. CASE VisitUnevictable(t, b)
    <2>1. mem' \in [Blocks -> MemoryType]
      BY <1>1, <1>6, MemoryFields, MemoryStep DEF VisitUnevictable
    <2>. QED
      BY <1>2, <1>3, <1>4, <1>6, <2>1, RestTypes DEF VisitUnevictable, Types
  <1>7. CASE VisitNoTempDirectory(t, b) \/ VisitWriteFails(t, b)
    <2>1. mem' = [mem EXCEPT ![b].entry = TRUE]
      BY <1>7 DEF VisitNoTempDirectory, VisitWriteFails
    <2>2. mem' \in [Blocks -> MemoryType]
      BY <1>1, <2>1, MemoryFields, MemoryStep
    <2>3. queues' = [queues EXCEPT ![th[t].q] = @ \cup {th[t].node}]
      BY <1>7 DEF VisitNoTempDirectory, VisitWriteFails
    <2>4. /\ queues' \in [1..3 -> SUBSET Nodes]
          /\ \A r \in 1..3 : IsFiniteSet(queues'[r])
      BY <1>1, <2>3, PutOneTypes
    <2>5. limit' \in Nat
      BY <1>7, GiveUpLimit DEF VisitNoTempDirectory, VisitWriteFails, NextQueue, Types
    <2>6. spilled' \subseteq Temporary
      BY <1>7 DEF VisitNoTempDirectory, VisitWriteFails, Types
    <2>. QED
      BY <1>2, <1>3, <1>4, <2>2, <2>4, <2>5, <2>6, QueueTypes
  <1>8. CASE VisitUnload(t, b)
    <2>1. mem' \in [Blocks -> MemoryType]
      BY <1>1, <1>8, MemoryFields, MemoryStep DEF VisitUnload
    <2>. QED
      BY <1>2, <1>3, <1>4, <1>8, <2>1, RestTypes DEF VisitUnload, Types
  <1>. QED
    BY <1>5, <1>6, <1>7, <1>8 DEF EvictVisit, b

LEMMA RegisterTypes ==
  ASSUME Types, NEW t \in Threads, NEW b \in Blocks,
         RegisterBlock(t, b) \/ SetDestroyBufferUpon(t, b) \/ DropHandle(t, b)
  PROVE  Types'
  <1>1. mem' \in [Blocks -> MemoryType]
    <2>1. mem[b] \in MemoryType
      BY DEF Types
    <2>2. "live" \in Lives /\ (IF b \in Temporary THEN "UNPIN" ELSE "EVICTION") \in Upons
      BY DEF Lives, Upons
    <2>3. CASE RegisterBlock(t, b)
      <3>1. [mem[b] EXCEPT !.life = "live", !.owned = TRUE] \in MemoryType
        BY <2>1, <2>2 DEF MemoryType
      <3>. QED BY <2>3, <3>1 DEF RegisterBlock, Types
    <2>4. CASE SetDestroyBufferUpon(t, b)
      BY <2>1, <2>2, <2>4, MemoryStep DEF SetDestroyBufferUpon, MemoryType
    <2>5. CASE DropHandle(t, b)
      BY <2>1, <2>5, MemoryStep DEF DropHandle, MemoryType
    <2>. QED BY <2>3, <2>4, <2>5
  <1>2. dying' \in [Threads -> Blocks \cup {NoBlock}]
    BY DropTypes DEF RegisterBlock, SetDestroyBufferUpon, DropHandle, Types
  <1>3. ThreadTypes'
    BY DEF RegisterBlock, SetDestroyBufferUpon, DropHandle, Types, ThreadTypes
  <1>. QED
    BY <1>1, <1>2, <1>3, RestTypes
       DEF RegisterBlock, SetDestroyBufferUpon, DropHandle, Types, poolVars

\* An eviction for a block.
LEMMA BlockEvictionMoves ==
  ASSUME Types, NEW t \in Threads, NEW b \in Blocks, NEW op \in {"pin", "allocate"},
         StartEviction(t, op, b, Size[b], limit, 0)
  PROVE  \E s : /\ WellFormed(s) /\ th' = [th EXCEPT ![t] = s]
                /\ s.pc = "reserve" /\ s.op = op /\ s.blk = b
  <1>1. Size[b] \in Nat /\ limit \in Nat /\ op \in Ops
    BY PoolAssumption DEF Types, Ops
  <1>. QED BY <1>1, StartEvictionMoves

LEMMA AllocateTypes ==
  ASSUME Types, NEW t \in Threads, NEW b \in Blocks, Allocate(t, b)
  PROVE  Types'
  <1>1. StartEviction(t, "allocate", b, Size[b], limit, 0)
    BY DEF Allocate
  <1>2. ThreadTypes'
    BY <1>1, BlockEvictionMoves, ThreadStep DEF ThreadTypes
  <1>. QED
    BY <1>2, RestTypes DEF Allocate, Types, poolVars

\* The thread ends an eviction for a block.
LEMMA PinEndsTypes ==
  ASSUME Types, NEW t \in Threads,
         Allocated(t) \/ PinLoaded(t) \/ PinLoad(t) \/ PinFails(t)
  PROVE  Types'
  <1>1. ThreadTypes'
    BY ResumesIdle, ResumesTypes DEF Allocated, PinLoaded, PinLoad, PinFails
  <1>2. th[t].res \in Nat
    BY DEF Types, ThreadType
  <1>3. mem' \in [Blocks -> MemoryType]
    <2>1. CASE Allocated(t)
      BY <1>2, <2>1, MemoryStep DEF Allocated, MemoryType, Absent, Lives, Upons
    <2>2. CASE PinLoaded(t)
      <3>1. mem[th[t].blk] \in MemoryType
        BY <2>2 DEF PinLoaded, Types, WellFormed
      <3>2. [mem[th[t].blk] EXCEPT !.readers = @ + 1] \in MemoryType
        BY <3>1 DEF MemoryType
      <3>. QED BY <2>2, <3>2, MemoryStep DEF PinLoaded, Pinned
    <2>3. CASE PinLoad(t)
      <3>1. mem[th[t].blk] \in MemoryType
        BY <2>3 DEF PinLoad, Types, WellFormed
      <3>2. [mem[th[t].blk] EXCEPT !.loaded = TRUE, !.readers = 1,
                                   !.charge = th[t].res] \in MemoryType
        BY <1>2, <3>1 DEF MemoryType
      <3>. QED BY <2>3, <3>2 DEF PinLoad, Types
    <2>4. CASE PinFails(t)
      BY <2>4 DEF PinFails, Types
    <2>. QED BY <2>1, <2>2, <2>3, <2>4
  <1>4. pins' \in [Threads -> SUBSET Blocks]
    <2>1. th[t].op \in {"pin", "allocate"} => th[t].blk \in Blocks
      BY DEF Types, WellFormed
    <2>. QED
      BY <2>1 DEF Allocated, PinLoaded, PinLoad, PinFails, Pinned, Types
  <1>5. spilled' \subseteq Temporary
    BY DEF Allocated, PinLoaded, PinLoad, PinFails, Types
  <1>. QED
    BY <1>1, <1>3, <1>4, <1>5, RestTypes
       DEF Allocated, PinLoaded, PinLoad, PinFails, Types, poolVars

LEMMA PinTypes ==
  ASSUME Types, NEW t \in Threads, NEW b \in Blocks, Pin(t, b)
  PROVE  Types'
  <1>1. CASE Pinned(t, b) /\ UNCHANGED th
    <2>1. mem' \in [Blocks -> MemoryType] /\ pins' \in [Threads -> SUBSET Blocks]
      BY <1>1 DEF Pinned, Types, MemoryType
    <2>2. ThreadTypes'
      BY <1>1 DEF ThreadTypes, Types
    <2>. QED
      BY <2>1, <2>2, RestTypes DEF Pin, Types, poolVars
  <1>2. CASE StartEviction(t, "pin", b, Size[b], limit, 0) /\ UNCHANGED <<mem, pins>>
    <2>1. ThreadTypes'
      BY <1>2, BlockEvictionMoves, ThreadStep DEF ThreadTypes
    <2>. QED
      BY <1>2, <2>1, RestTypes DEF Pin, Types, poolVars
  <1>. QED BY <1>1, <1>2 DEF Pin

\* The last unpin: the thread is to queue the block, whose lock it holds.
LEMMA EnqueueStarts ==
  ASSUME Types, NEW t \in Threads, th[t].pc = "idle", NEW b \in Blocks,
         th' = [th EXCEPT ![t].pc = "enqueue", ![t].blk = b]
  PROVE  \E s : /\ WellFormed(s) /\ th' = [th EXCEPT ![t] = s]
                /\ s.pc = "enqueue" /\ s.op = "none" /\ s.blk = b /\ InHand(s) = {}
  <1>. DEFINE s == [th[t] EXCEPT !.pc = "enqueue", !.blk = b]
  <1>1. th[t] \in ThreadType /\ WellFormed(th[t])
    BY DEF Types
  <1>2. "enqueue" \in Pcs
    BY DEF Pcs
  <1>3. th[t].op = "none" /\ th[t].batch = {} /\ th[t].alive = {}
    BY <1>1 DEF WellFormed, Purging, Evicting
  <1>4. s \in ThreadType
    BY <1>1, <1>2 DEF ThreadType
  <1>5. /\ s.pc = "enqueue" /\ s.op = "none" /\ s.blk = b
        /\ s.batch = {} /\ s.alive = {}
    BY <1>1, <1>3 DEF ThreadType
  <1>6. th' = [th EXCEPT ![t] = s]
    BY <1>1 DEF Types
  <1>. HIDE DEF s
  <1>7. WellFormed(s)
    BY <1>4, <1>5, FS_EmptySet DEF WellFormed, Evicting, Purging
  <1>. QED
    BY <1>5, <1>6, <1>7 DEF InHand

LEMMA UnpinTypes ==
  ASSUME Types, NEW t \in Threads, NEW b \in Blocks, Release(t, b)
  PROVE  Types'
  <1>1. ThreadTypes'
    <2>1. CASE th' = [th EXCEPT ![t].pc = "enqueue", ![t].blk = b]
      BY <2>1, EnqueueStarts, ThreadStep DEF Release, At, ThreadTypes
    <2>2. CASE UNCHANGED th
      BY <2>2 DEF Types, ThreadTypes
    <2>. QED BY <2>1, <2>2 DEF Release
  <1>2. mem' \in [Blocks -> MemoryType]
    <2>1. mem[b].readers - 1 \in Nat
      BY DEF Release, Types, MemoryType
    <2>2. CASE mem' = [mem EXCEPT ![b].readers = @ - 1]
      BY <2>1, <2>2 DEF Types, MemoryType
    <2>3. CASE mem' = [[mem EXCEPT ![b].readers = @ - 1] EXCEPT ![b] = Unloaded(@)]
      BY ZenonT(60), <2>1, <2>3 DEF Types, MemoryType, Unloaded
    <2>. QED BY <2>2, <2>3 DEF Release
  <1>3. pins' \in [Threads -> SUBSET Blocks]
    BY DEF Release, Types
  <1>. QED
    BY <1>1, <1>2, <1>3, RestTypes DEF Release, Types

LEMMA InsertTypes ==
  ASSUME Types, NEW t \in Threads, NEW b \in Blocks, Insert(t, b)
  PROVE  /\ ThreadTypes'
         /\ queues' \in [1..3 -> SUBSET Nodes]
         /\ \A r \in 1..3 : IsFiniteSet(queues'[r])
  <1>1. <<b, mem[b].seq + 1>> \in Nodes
    BY DEF Types, MemoryType, Nodes
  <1>2. QueueOf(b) \in 1..3
    BY DEF QueueOf, BlockQueue, ManagedQueue
  <1>3. queues' = [queues EXCEPT ![QueueOf(b)] = @ \cup {<<b, mem[b].seq + 1>>}]
    BY DEF Insert
  <1>4. ThreadTypes'
    BY InsertMoves, ResumesTypes
  <1>. QED BY <1>1, <1>2, <1>3, <1>4, PutOneTypes

LEMMA EnqueueTypes ==
  ASSUME Types, NEW t \in Threads, Enqueue(t)
  PROVE  Types'
  <1>1. th[t].blk \in Blocks
    BY DEF Enqueue, At, Types, WellFormed
  <1>2. mem' \in [Blocks -> MemoryType]
    BY SMTT(40), <1>1 DEF Enqueue, Types, MemoryType
  <1>. QED
    BY <1>1, <1>2, InsertTypes, QueueTypes DEF Enqueue, Types

\* A conversion starts: the thread holds the lock of b.
LEMMA ConvertStarts ==
  ASSUME Types, NEW t \in Threads, NEW b \in Blocks, NEW p \in Persistent,
         ConvertToPersistent(t, b, p)
  PROVE  \E s : /\ WellFormed(s) /\ th' = [th EXCEPT ![t] = s]
                /\ s.pc = "convert" /\ s.op = "none" /\ s.blk = b
                /\ s.node = <<p, 0>> /\ s.res = th[t].res /\ InHand(s) = {}
  <1>. DEFINE s == [th[t] EXCEPT !.pc = "convert", !.blk = b, !.node = <<p, 0>>]
  <1>1. th[t] \in ThreadType /\ WellFormed(th[t]) /\ th[t].pc = "idle"
    BY DEF Types, ConvertToPersistent, Convertible, At
  <1>2. "convert" \in Pcs /\ b \in Temporary
    BY DEF Pcs, ConvertToPersistent, Convertible
  <1>3. th[t].op = "none" /\ th[t].batch = {} /\ th[t].alive = {}
    BY <1>1 DEF WellFormed, Purging, Evicting
  <1>4. s \in ThreadType
    <2>. DEFINE N == (Blocks \cup {NoBlock}) \X Nat
    <2>1. <<p, 0>> \in N
      BY DEF Blocks
    <2>. HIDE DEF N
    <2>. QED BY <1>1, <1>2, <2>1 DEF ThreadType, N
  <1>5. /\ s.pc = "convert" /\ s.op = "none" /\ s.blk = b /\ s.node = <<p, 0>>
        /\ s.batch = {} /\ s.alive = {} /\ s.res = th[t].res
    BY <1>1, <1>3 DEF ThreadType
  <1>6. th' = [th EXCEPT ![t] = s]
    BY <1>1 DEF Types, ConvertToPersistent
  <1>. HIDE DEF s
  <1>7. WellFormed(s)
    BY <1>2, <1>4, <1>5, FS_EmptySet DEF WellFormed, Evicting, Purging
  <1>. QED
    BY <1>5, <1>6, <1>7 DEF InHand

LEMMA ConvertTypes ==
  ASSUME Types, NEW t \in Threads, NEW b \in Blocks, NEW p \in Persistent,
         ConvertToPersistent(t, b, p)
  PROVE  Types'
  <1>1. ThreadTypes'
    BY ConvertStarts, ThreadStep DEF ThreadTypes
  <1>2. mem' \in [Blocks -> MemoryType]
    <2>1. CASE UNCHANGED mem
      BY <2>1 DEF Types
    <2>2. CASE mem' = [mem EXCEPT ![b].charge = 0]
      BY <2>2 DEF Types, MemoryType
    <2>. QED BY <2>1, <2>2 DEF ConvertToPersistent
  <1>. QED
    BY <1>1, <1>2, RestTypes DEF ConvertToPersistent, Types

\* A conversion ends: the thread is to queue the new block.
LEMMA ConvertedMoves ==
  ASSUME Types, NEW t \in Threads, Converted(t)
  PROVE  \E s : /\ WellFormed(s) /\ th' = [th EXCEPT ![t] = s]
                /\ s.pc = "enqueue" /\ s.op = "none" /\ s.blk = th[t].node[1]
                /\ s.res = 0 /\ InHand(s) = {}
  <1>. DEFINE s == [Idle EXCEPT !.pc = "enqueue", !.blk = th[t].node[1]]
  <1>1. th[t].node[1] \in Blocks
    BY DEF Types, WellFormed, Converted, At, Blocks
  <1>2. s \in ThreadType
    BY <1>1, IdleFormed DEF WellFormed, ThreadType, Pcs
  <1>3. /\ s.pc = "enqueue" /\ s.op = "none" /\ s.blk = th[t].node[1]
        /\ s.batch = {} /\ s.alive = {} /\ s.res = 0
    BY DEF Idle
  <1>4. th' = [th EXCEPT ![t] = s]
    BY DEF Converted
  <1>. HIDE DEF s
  <1>5. WellFormed(s)
    BY <1>1, <1>2, <1>3, FS_EmptySet DEF WellFormed, Evicting, Purging
  <1>. QED
    BY <1>3, <1>4, <1>5 DEF InHand

LEMMA ConvertedTypes ==
  ASSUME Types, NEW t \in Threads, Converted(t)
  PROVE  Types'
  <1>. DEFINE b == th[t].blk
              p == th[t].node[1]
              x == [Absent EXCEPT !.life = "live", !.owned = TRUE, !.loaded = TRUE,
                                  !.charge = Size[b]]
              y == [Unloaded(mem[b]) EXCEPT !.owned = FALSE]
  <1>1. p \in Blocks /\ b \in Blocks /\ p # b
    BY PoolAssumption DEF Types, WellFormed, Converted, At, Blocks
  <1>2. x \in MemoryType
    BY <1>1, PoolAssumption DEF MemoryType, Absent, Lives, Upons
  <1>3. y \in MemoryType
    <2>1. mem[b] \in MemoryType
      BY <1>1 DEF Types
    <2>. QED BY <2>1 DEF MemoryType, Unloaded
  <1>4. mem' = [mem EXCEPT ![p] = x, ![b] = [Unloaded(@) EXCEPT !.owned = FALSE]]
    BY DEF Converted
  <1>5. mem' = [mem EXCEPT ![p] = x, ![b] = y]
    BY <1>1, <1>4 DEF Types
  <1>6. DropReference(t, b, Threads) /\ pins' = [pins EXCEPT ![t] = @ \ {b}]
    BY DEF Converted
  <1>. HIDE DEF x, y, b, p
  <1>7. mem' \in [Blocks -> MemoryType]
    BY <1>1, <1>2, <1>3, <1>5 DEF Types
  <1>8. dying' \in [Threads -> Blocks \cup {NoBlock}]
    BY <1>1, <1>6, DropTypes
  <1>9. pins' \in [Threads -> SUBSET Blocks]
    BY <1>6 DEF Types
  <1>10. ThreadTypes'
    BY ConvertedMoves, ThreadStep DEF ThreadTypes
  <1>. QED
    BY <1>7, <1>8, <1>9, <1>10, RestTypes DEF Converted, Types

LEMMA DestroyTypes ==
  ASSUME Types, NEW t \in Threads, Destroy(t)
  PROVE  Types'
  <1>1. dying[t] \in Blocks
    BY DEF Destroy, Types
  <1>2. [Unloaded(mem[dying[t]]) EXCEPT !.life = "gone"] \in MemoryType
    <2>1. mem[dying[t]] \in MemoryType /\ "gone" \in Lives
      BY <1>1 DEF Types, Lives
    <2>. QED BY <2>1 DEF MemoryType, Unloaded
  <1>3. mem' \in [Blocks -> MemoryType]
    BY <1>1, <1>2 DEF Destroy, Types
  <1>4. dying' \in [Threads -> Blocks \cup {NoBlock}] /\ spilled' \subseteq Temporary
    BY DEF Destroy, Types
  <1>5. ThreadTypes'
    BY DEF Destroy, Types, ThreadTypes
  <1>. QED
    BY <1>3, <1>4, <1>5, RestTypes DEF Destroy, Types

\* Type correctness of the pool: every step keeps Types.
LEMMA TypesStep == Types /\ [Next]_vars => Types'
  <1>. SUFFICES ASSUME Types, [Next]_vars PROVE Types'
    OBVIOUS
  <1>1. CASE UNCHANGED vars
    BY <1>1 DEF vars, poolVars, Types
  <1>2. CASE SetTemporaryDirectory
    BY <1>2 DEF SetTemporaryDirectory, poolVars, Types
  <1>3. ASSUME NEW t \in Threads, Evict(t) \/ PinEnds(t) \/ PurgeStep(t) PROVE Types'
    BY <1>3, EvictReserveTypes, EvictDequeueTypes, EvictExhaustedTypes,
       EvictVisitTypes, PinEndsTypes, PurgeTypes, PurgeDequeueTypes,
       PurgeFinishTypes DEF Evict, PinEnds, PurgeStep
  <1>4. ASSUME NEW t \in Threads,
               \/ Allocated(t) \/ Enqueue(t) \/ Destroy(t) \/ Converted(t)
               \/ SetLimit(t) \/ LimitChanged(t) \/ LimitKept(t)
        PROVE  Types'
    BY <1>4, PinEndsTypes, EnqueueTypes, DestroyTypes, ConvertedTypes, LimitTypes
  <1>5. ASSUME NEW t \in Threads, NEW b \in Blocks,
               \/ RegisterBlock(t, b) \/ Allocate(t, b) \/ Pin(t, b)
               \/ Unpin(t, b) \/ SetDestroyBufferUpon(t, b) \/ DropHandle(t, b)
               \/ \E p \in Persistent : \/ ConvertToPersistent(t, b, p)
                                        \/ ConvertFails(t, b, p)
        PROVE  Types'
    BY <1>5, RegisterTypes, AllocateTypes, PinTypes, UnpinTypes, ConvertTypes
       DEF Unpin, ConvertFails
  <1>. QED
    BY <1>1, <1>2, <1>3, <1>4, <1>5 DEF Next

-----------------------------------------------------------------------------
(* Contents: <action>Contents says that the action keeps ContentsInv *)

\* The fields of the blocks that ContentsInv speaks of do not change.
BlocksKept ==
    \A b \in Blocks :
        /\ mem'[b].life = mem[b].life /\ mem'[b].loaded = mem[b].loaded
        /\ mem'[b].readers = mem[b].readers /\ mem'[b].upon = mem[b].upon
        /\ mem'[b].owned = mem[b].owned
        /\ mem[b].life = "none" => mem'[b] = mem[b]

\* Steps that leave the blocks alone: t goes on, or looks at a live block.
LEMMA ContentsPassing ==
  ASSUME Types, ContentsInv, BlocksKept, UNCHANGED <<spilled, pins, dying>>,
         NEW t \in Threads, NEW s, WellFormed(s), th' = [th EXCEPT ![t] = s],
         s.pc # "enqueue", s.pc = "visit" => Alive(s.node[1]),
         \/ s.op = th[t].op /\ s.blk = th[t].blk
         \/ s.op \in {"none", "limit1", "limit2"}
  PROVE  ContentsInv'
  <1>1. th'[t] = s /\ \A u \in Threads \ {t} : th'[u] = th[u]
    BY ThreadStep
  <1>2. \A b \in Blocks : Pinners(b)' = Pinners(b)
    BY DEF Pinners
  <1>3. Owned'
    BY <1>2 DEF ContentsInv, Owned, BlocksKept, Types
  <1>4. s.pc = "visit" => s.node[1] \in Blocks
    BY DEF WellFormed
  <1>5. Dying'
    <2>1. \A u \in Threads : dying[u] # NoBlock => dying[u] \in Blocks
      BY DEF Types
    <2>2. \A u \in Threads : dying[u] # NoBlock => ~Referenced(dying[u], Threads)'
      BY <1>1, <2>1 DEF ContentsInv, Dying, Referenced, Alive
    <2>3. \A u \in Threads : th'[u].pc = "visit" => mem'[th'[u].node[1]].life = "live"
      BY <1>1, <1>4 DEF ContentsInv, Dying, BlocksKept, Alive, Types, WellFormed
    <2>. QED BY <2>1, <2>2, <2>3 DEF ContentsInv, Dying, BlocksKept
  <1>6. Wanted'
    <2>1. \A u \in Threads : th'[u].pc = "enqueue" \/ th'[u].op \in {"allocate", "pin"} =>
            /\ th'[u].blk = th[u].blk /\ th'[u].blk \in Blocks
            /\ th'[u].op = th[u].op
            /\ th'[u].pc = "enqueue" => th[u].pc = "enqueue"
      BY <1>1 DEF Types, WellFormed
    <2>. QED BY <2>1 DEF ContentsInv, Wanted, BlocksKept
  <1>7. Spilled'
    BY DEF ContentsInv, Spilled, BlocksKept, Types, Blocks
  <1>. QED BY <1>3, <1>5, <1>6, <1>7 DEF ContentsInv

LEMMA ContentsResumes ==
  ASSUME Types, ContentsInv, BlocksKept, UNCHANGED <<spilled, pins, dying>>,
         NEW t \in Threads, \E s : Resumes(t, s)
  PROVE  ContentsInv'
  <1>1. PICK s : Resumes(t, s)
    OBVIOUS
  <1>. QED BY <1>1, ContentsPassing DEF Resumes

\* Steps that change nothing ContentsInv speaks of.
LEMMA ContentsUnchanged ==
  ASSUME ContentsInv, UNCHANGED <<mem, spilled, pins, dying, th>>
  PROVE  ContentsInv'
  <1>1. Owned'
    <2>1. \A b \in Blocks : Pinners(b)' = Pinners(b)
      BY DEF Pinners
    <2>. QED BY <2>1 DEF ContentsInv, Owned
  <1>2. Dying'
    BY DEF ContentsInv, Dying, Referenced
  <1>3. Wanted'
    BY DEF ContentsInv, Wanted
  <1>4. Spilled'
    BY DEF ContentsInv, Spilled
  <1>. QED BY <1>1, <1>2, <1>3, <1>4 DEF ContentsInv

\* Evictions without a visit, purges, limits and a pin that fails.
LEMMA ContentsThreadSteps ==
  ASSUME Types, ContentsInv, NEW t \in Threads,
         \/ EvictReserve(t) \/ EvictDequeue(t) \/ EvictExhausted(t)
         \/ PinFails(t) \/ PurgeStep(t)
         \/ SetLimit(t) \/ LimitChanged(t) \/ LimitKept(t)
  PROVE  ContentsInv'
  <1>1. UNCHANGED <<mem, spilled, pins, dying>>
    BY DEF EvictReserve, EvictDequeue, EvictExhausted, PinFails, PurgeStep, Purge,
           PurgeDequeue, PurgeJudge, PurgeFinish, SetLimit, LimitChanged, LimitKept
  <1>2. BlocksKept
    BY <1>1 DEF BlocksKept
  <1>3. CASE \E s : Resumes(t, s)
    BY <1>1, <1>2, <1>3, ContentsResumes
  <1>4. CASE EvictDequeue(t)
    <2>1. CASE UNCHANGED th
      BY <1>1, <2>1, ContentsUnchanged
    <2>. QED BY <1>1, <1>2, <1>4, <2>1, DequeueMoves, ContentsPassing
  <1>5. CASE PurgeDequeue(t)
    BY <1>1, <1>2, <1>5, PurgeDequeueMoves, ContentsPassing
  <1>6. CASE PurgeJudge(t)
    BY <1>1, <1>2, <1>6, JudgeMoves, ContentsPassing
  <1>. QED
    BY <1>3, <1>4, <1>5, <1>6, ReserveMoves, ExhaustedMoves, PurgeMoves,
       PurgeFinishMoves, SetLimitMoves, ResumesIdle
       DEF PinFails, PurgeStep, LimitKept

\* The fields of an entry changed; a reference to b may have been dropped.
LEMMA EnqueueContents ==
  ASSUME Types, ContentsInv, NEW t \in Threads, Enqueue(t)
  PROVE  ContentsInv'
  <1>1. th[t].blk \in Blocks
    BY DEF Enqueue, At, Types, WellFormed
  <1>2. mem[th[t].blk].life # "none"
    BY DEF Enqueue, At, ContentsInv, Wanted, Owned
  <1>3. BlocksKept
    BY <1>1, <1>2 DEF Enqueue, BlocksKept, Types, MemoryType
  <1>. QED
    BY <1>1, <1>3, InsertMoves, ContentsResumes DEF Enqueue

\* The visit of a block keeps everything of ContentsInv but the buffer and the
\* temporary file of that block.
LEMMA VisitEffect ==
  ASSUME Types, ContentsInv, NEW t \in Threads, EvictVisit(t)
  PROVE  LET b == th[t].node[1] IN
         /\ b \in Blocks /\ mem[b].life = "live" /\ \A u \in Threads : dying[u] # b
         /\ \A a \in Blocks :
              /\ mem'[a].life = mem[a].life /\ mem'[a].readers = mem[a].readers
              /\ mem'[a].upon = mem[a].upon /\ mem'[a].owned = mem[a].owned
              /\ mem[a].life = "none" => mem'[a] = mem[a]
              /\ a # b => mem'[a].loaded = mem[a].loaded
         /\ \/ spilled' = spilled /\ mem'[b].loaded = mem[b].loaded
            \/ /\ ~mem'[b].loaded /\ mem[b].loaded /\ mem[b].readers = 0
               /\ spilled' = IF b \in Temporary /\ MustKeep(b)
                             THEN spilled \cup {b} ELSE spilled
  <1>. DEFINE b == th[t].node[1]
  <1>1. b \in Blocks /\ th[t].pc = "visit" /\ mem[b].life = "live"
    BY DEF EvictVisit, At, Types, WellFormed, ContentsInv, Dying
  <1>2. \A u \in Threads : dying[u] # b
    BY <1>1, PoolAssumption DEF ContentsInv, Dying, Referenced
  <1>. HIDE DEF b
  <1>3. mem[b] \in MemoryType /\ mem \in [Blocks -> MemoryType]
    BY <1>1 DEF Types
  <1>4. CASE VisitStale(t, b)
    BY <1>1, <1>2, <1>4 DEF VisitStale, b
  <1>5. CASE /\ \E e \in BOOLEAN : mem' = [mem EXCEPT ![b].entry = e]
             /\ spilled' = spilled
    <2>1. PICK e \in BOOLEAN : mem' = [mem EXCEPT ![b].entry = e]
      BY <1>5
    <2>2. /\ \A a \in Blocks \ {b} : mem'[a] = mem[a]
          /\ mem'[b] = [mem[b] EXCEPT !.entry = e]
      BY <1>1, <1>3, <2>1
    <2>3. /\ mem'[b].life = mem[b].life /\ mem'[b].loaded = mem[b].loaded
          /\ mem'[b].readers = mem[b].readers /\ mem'[b].upon = mem[b].upon
          /\ mem'[b].owned = mem[b].owned
      BY <1>3, <2>2 DEF MemoryType
    <2>. QED BY <1>1, <1>2, <1>5, <2>2, <2>3 DEF b
  <1>6. CASE VisitUnload(t, b)
    <2>1. /\ \A a \in Blocks \ {b} : mem'[a] = mem[a]
          /\ mem'[b] = [Unloaded(mem[b]) EXCEPT !.entry = FALSE]
      BY <1>1, <1>3, <1>6 DEF VisitUnload
    <2>2. /\ mem'[b].life = mem[b].life /\ mem'[b].loaded = FALSE
          /\ mem'[b].readers = mem[b].readers /\ mem'[b].upon = mem[b].upon
          /\ mem'[b].owned = mem[b].owned
      BY <1>3, <2>1 DEF MemoryType, Unloaded
    <2>3. mem[b].loaded /\ mem[b].readers = 0
      BY <1>3, <1>6 DEF VisitUnload, CanUnload, MemoryType
    <2>. QED BY <1>1, <1>2, <1>6, <2>1, <2>2, <2>3 DEF VisitUnload, b
  <1>. QED
    BY <1>4, <1>5, <1>6
       DEF EvictVisit, VisitUnevictable, VisitNoTempDirectory, VisitWriteFails, b

\* The threads that have a block pinned can be counted.
LEMMA PinnersFinite ==
  ASSUME NEW b
  PROVE  IsFiniteSet(Pinners(b)) /\ Cardinality(Pinners(b)) \in Nat
  <1>1. Pinners(b) \in SUBSET Threads
    BY DEF Pinners
  <1>. QED BY <1>1, PoolAssumption, FS_Subset, FS_CardinalityType

\* A block without readers is pinned by nobody.
LEMMA NoReaders ==
  ASSUME Types, Owned, NEW b \in Blocks, mem[b].readers = 0
  PROVE  \A u \in Threads : b \notin pins[u]
  <1>. SUFFICES ASSUME NEW u \in Threads, b \in pins[u] PROVE FALSE
    OBVIOUS
  <1>1. Cardinality(Pinners(b)) = 0
    BY DEF Owned
  <1>2. u \in Pinners(b)
    BY DEF Pinners
  <1>. QED BY <1>1, <1>2, PinnersFinite, FS_EmptySet

\* A block with one reader is pinned by nobody else.
LEMMA OneReader ==
  ASSUME Types, Owned, NEW b \in Blocks, mem[b].readers = 1,
         NEW t \in Threads, b \in pins[t]
  PROVE  Pinners(b) = {t}
  <1>1. Cardinality(Pinners(b)) = 1
    BY DEF Owned
  <1>2. PICK x : Pinners(b) = {x}
    BY <1>1, PinnersFinite, FS_Singleton
  <1>3. t \in Pinners(b)
    BY DEF Pinners
  <1>. QED BY <1>2, <1>3

LEMMA EvictVisitContents ==
  ASSUME Types, ContentsInv, NEW t \in Threads, EvictVisit(t)
  PROVE  ContentsInv'
  <1>. DEFINE b == th[t].node[1]
  <1>1. PICK s : Resumes(t, s)
    BY VisitMoves
  <1>2. th'[t] = s /\ \A u \in Threads \ {t} : th'[u] = th[u]
    BY <1>1, ResumesStep
  <1>3. /\ b \in Blocks /\ mem[b].life = "live" /\ \A u \in Threads : dying[u] # b
        /\ \A a \in Blocks :
             /\ mem'[a].life = mem[a].life /\ mem'[a].readers = mem[a].readers
             /\ mem'[a].upon = mem[a].upon /\ mem'[a].owned = mem[a].owned
             /\ mem[a].life = "none" => mem'[a] = mem[a]
             /\ a # b => mem'[a].loaded = mem[a].loaded
        /\ \/ spilled' = spilled /\ mem'[b].loaded = mem[b].loaded
           \/ /\ ~mem'[b].loaded /\ mem[b].loaded /\ mem[b].readers = 0
              /\ spilled' = IF b \in Temporary /\ MustKeep(b)
                            THEN spilled \cup {b} ELSE spilled
    BY VisitEffect
  <1>4. pins' = pins /\ dying[t] = NoBlock
    BY DEF EvictVisit, At
  <1>5. \/ dying' = dying
        \/ /\ dying' = [dying EXCEPT ![t] = b]
           /\ ~mem[b].owned /\ ~Referenced(b, Threads \ {t})
    BY <1>3 DEF EvictVisit, DropReference
  <1>. HIDE DEF b
  <1>6. Owned'
    <2>1. \A a \in Blocks : Pinners(a)' = Pinners(a)
      BY <1>4 DEF Pinners
    <2>2. \A u \in Threads : \A a \in pins[u] : mem'[a].owned /\ mem'[a].loaded
      <3>1. mem[b].readers = 0 => \A u \in Threads : b \notin pins[u]
        BY <1>3, NoReaders DEF ContentsInv
      <3>2. \A u \in Threads : pins[u] \subseteq Blocks
        BY DEF Types
      <3>. QED BY <1>3, <3>1, <3>2 DEF ContentsInv, Owned
    <2>3. \A a \in Blocks : mem'[a].owned => \A u \in Threads : dying'[u] # a
      BY <1>3, <1>5 DEF ContentsInv, Owned, Types
    <2>. QED BY <1>3, <1>4, <2>1, <2>2, <2>3 DEF ContentsInv, Owned
  <1>7. \A u \in Threads : th'[u].pc = "visit" =>
          u # t /\ th[u].pc = "visit" /\ th'[u].node = th[u].node
    BY <1>1, <1>2 DEF Resumes
  <1>8. Dying'
    <2>1. \A u \in Threads : dying'[u] # NoBlock =>
            dying'[u] \in Blocks /\ mem'[dying'[u]].life = "live"
      BY <1>3, <1>5 DEF Types, ContentsInv, Dying
    <2>2. \A u \in Threads : dying'[u] # NoBlock =>
            ~\E v \in Threads : th'[v].pc = "visit" /\ th'[v].node[1] = dying'[u]
      <3>. SUFFICES ASSUME NEW u \in Threads, dying'[u] # NoBlock, NEW v \in Threads,
                           th'[v].pc = "visit", th'[v].node[1] = dying'[u]
                    PROVE  FALSE
        OBVIOUS
      <3>1. v # t /\ th[v].pc = "visit" /\ th[v].node[1] = dying'[u]
        BY <1>7
      <3>2. CASE dying'[u] = dying[u]
        BY <3>1, <3>2 DEF ContentsInv, Dying, Referenced
      <3>3. CASE dying'[u] = b
        BY <1>3, <1>5, <3>1, <3>3 DEF Types, Referenced
      <3>. QED BY <1>5, <3>2, <3>3 DEF Types
    <2>3. \A u, v \in Threads : dying'[u] # NoBlock /\ dying'[u] = dying'[v] => u = v
      BY <1>3, <1>5 DEF Types, ContentsInv, Dying
    <2>4. \A u \in Threads : th'[u].pc = "visit" => mem'[th'[u].node[1]].life = "live"
      BY <1>3, <1>7 DEF Types, WellFormed, ContentsInv, Dying
    <2>. QED BY <2>1, <2>2, <2>3, <2>4 DEF Dying, Referenced
  <1>9. Wanted'
    <2>1. \A u \in Threads : th'[u].pc = "enqueue" \/ th'[u].op \in {"allocate", "pin"} =>
            /\ th'[u].blk = th[u].blk /\ th'[u].blk \in Blocks
            /\ th'[u].op = th[u].op
            /\ th'[u].pc = "enqueue" => th[u].pc = "enqueue"
      BY <1>1, <1>2 DEF Types, WellFormed, Resumes
    <2>. QED BY <1>3, <1>4, <2>1 DEF ContentsInv, Wanted
  <1>10. Spilled'
    <2>1. Temporary \subseteq Blocks
      BY DEF Blocks
    <2>2. spilled \subseteq Temporary
      BY DEF Types
    <2>. QED BY <1>3, <2>1, <2>2 DEF ContentsInv, Spilled, MustKeep
  <1>. QED BY <1>6, <1>8, <1>9, <1>10 DEF ContentsInv

\* One more thread has b pinned, or one less.
LEMMA PinAdded ==
  ASSUME Types, NEW t \in Threads, NEW b \in Blocks, b \notin pins[t],
         pins' = [pins EXCEPT ![t] = @ \cup {b}]
  PROVE  /\ Cardinality(Pinners(b)') = Cardinality(Pinners(b)) + 1
         /\ \A a \in Blocks \ {b} : Pinners(a)' = Pinners(a)
  <1>1. Pinners(b)' = Pinners(b) \cup {t} /\ t \notin Pinners(b)
    BY DEF Pinners, Types
  <1>2. \A a \in Blocks \ {b} : Pinners(a)' = Pinners(a)
    BY DEF Pinners, Types
  <1>. QED BY <1>1, <1>2, PinnersFinite, FS_AddElement

LEMMA PinRemoved ==
  ASSUME Types, NEW t \in Threads, NEW b \in Blocks, b \in pins[t],
         pins' = [pins EXCEPT ![t] = @ \ {b}]
  PROVE  /\ Cardinality(Pinners(b)') = Cardinality(Pinners(b)) - 1
         /\ \A a \in Blocks \ {b} : Pinners(a)' = Pinners(a)
  <1>1. Pinners(b)' = Pinners(b) \ {t} /\ t \in Pinners(b)
    BY DEF Pinners, Types
  <1>2. \A a \in Blocks \ {b} : Pinners(a)' = Pinners(a)
    BY DEF Pinners, Types
  <1>. QED BY <1>1, <1>2, PinnersFinite, FS_RemoveElement

\* Dying and Wanted survive steps that take no life and no owner.
LEMMA DyingKept ==
  ASSUME Types, ContentsInv, UNCHANGED dying,
         \A b \in Blocks : mem[b].life = "live" => mem'[b].life = "live",
         \A u \in Threads : th'[u].pc = "visit" =>
            th[u].pc = "visit" /\ th'[u].node = th[u].node
  PROVE  Dying'
  <1>1. \A u \in Threads : dying[u] # NoBlock => dying[u] \in Blocks
    BY DEF Types
  <1>2. \A u \in Threads : th[u].pc = "visit" => th[u].node[1] \in Blocks
    BY DEF Types, WellFormed
  <1>. QED BY <1>1, <1>2 DEF ContentsInv, Dying, Referenced

\* Wanted is kept while the blocks threads work for keep their owners.
LEMMA WantedKept ==
  ASSUME Types, ContentsInv, UNCHANGED th,
         \A u \in Threads : pins'[u] \subseteq pins[u] \/ th[u].op # "pin",
         \A u \in Threads : th[u].blk \in Blocks =>
            /\ mem[th[u].blk].owned => mem'[th[u].blk].owned
            /\ th[u].blk \in Temporary /\ mem[th[u].blk].life = "none" =>
                 mem'[th[u].blk].life = "none"
  PROVE  Wanted'
  <1>1. Temporary \subseteq Blocks
    BY DEF Blocks
  <1>. QED BY <1>1 DEF ContentsInv, Wanted

LEMMA RegisterContents ==
  ASSUME Types, ContentsInv, NEW t \in Threads, NEW b \in Blocks, RegisterBlock(t, b)
  PROVE  ContentsInv'
  <1>1. /\ b \in Persistent /\ b \notin Temporary /\ mem[b] = Absent
        /\ UNCHANGED <<spilled, pins, dying, th>>
    BY PoolAssumption DEF RegisterBlock, ContentsInv, Owned
  <1>2. \A a \in Blocks \ {b} : mem'[a] = mem[a]
    BY DEF RegisterBlock, Types
  <1>3. /\ mem'[b].life = "live" /\ mem'[b].owned /\ mem'[b].readers = 0
        /\ ~mem'[b].loaded
    <2>1. mem'[b] = [Absent EXCEPT !.life = "live", !.owned = TRUE]
      BY <1>1 DEF RegisterBlock, Types
    <2>. QED BY <2>1 DEF Absent
  <1>4. mem[b].life = "none" /\ ~mem[b].owned /\ ~mem[b].loaded
    BY <1>1 DEF Absent
  <1>5. \A u \in Threads : dying[u] # b
    BY <1>4, PoolAssumption DEF ContentsInv, Dying
  <1>6. \A a \in Blocks : Pinners(a)' = Pinners(a)
    BY <1>1 DEF Pinners
  <1>7. Pinners(b) = {} /\ Cardinality(Pinners(b)) = 0
    BY <1>4, FS_EmptySet DEF Pinners, ContentsInv, Owned
  <1>8. Owned'
    <2>1. \A u \in Threads : pins[u] \subseteq Blocks /\ b \notin pins[u]
      BY <1>4 DEF Types, ContentsInv, Owned
    <2>2. \A a \in Blocks : mem'[a].owned =>
            /\ mem'[a].life = "live" /\ mem'[a].readers = Cardinality(Pinners(a))
            /\ \A u \in Threads : dying[u] # a
      BY ZenonT(60), <1>2, <1>3, <1>5, <1>7 DEF ContentsInv, Owned
    <2>3. \A a \in Blocks : mem'[a].life = "none" => mem'[a] = Absent
      BY <1>2, <1>3 DEF ContentsInv, Owned
    <2>. QED BY <1>1, <1>2, <1>6, <2>1, <2>2, <2>3 DEF ContentsInv, Owned
  <1>9. Dying'
    BY <1>1, <1>2, <1>3, DyingKept
  <1>10. Wanted'
    <2>1. \A u \in Threads : th[u].blk \in Blocks =>
            /\ mem[th[u].blk].owned => mem'[th[u].blk].owned
            /\ th[u].blk \in Temporary /\ mem[th[u].blk].life = "none" =>
                 mem'[th[u].blk].life = "none"
      BY <1>1, <1>2, <1>3
    <2>. QED BY <1>1, <2>1, WantedKept
  <1>11. Spilled'
    <2>1. spilled \subseteq Temporary /\ Temporary \subseteq Blocks
      BY DEF Types, Blocks
    <2>. QED BY <1>1, <1>2, <2>1 DEF ContentsInv, Spilled
  <1>. QED BY <1>8, <1>9, <1>10, <1>11 DEF ContentsInv

LEMMA SetDestroyContents ==
  ASSUME Types, ContentsInv, NEW t \in Threads, NEW b \in Blocks,
         SetDestroyBufferUpon(t, b)
  PROVE  ContentsInv'
  <1>1. UNCHANGED <<spilled, pins, dying, th>> /\ mem[b].owned
    BY DEF SetDestroyBufferUpon
  <1>2. mem[b] \in MemoryType /\ mem[b].life = "live"
    BY <1>1 DEF Types, ContentsInv, Owned
  <1>3. /\ \A a \in Blocks \ {b} : mem'[a] = mem[a]
        /\ mem'[b] = [mem[b] EXCEPT !.upon = IF b \in Temporary THEN "UNPIN"
                                             ELSE "EVICTION"]
    BY <1>1 DEF SetDestroyBufferUpon, Types
  <1>4. /\ mem'[b].life = mem[b].life /\ mem'[b].loaded = mem[b].loaded
        /\ mem'[b].readers = mem[b].readers /\ mem'[b].owned = mem[b].owned
        /\ mem'[b].upon # "BLOCK"
    BY <1>2, <1>3 DEF MemoryType
  <1>5. \A a \in Blocks : Pinners(a)' = Pinners(a)
    BY <1>1 DEF Pinners
  <1>6. \A a \in Blocks :
          /\ mem'[a].life = mem[a].life /\ mem'[a].loaded = mem[a].loaded
          /\ mem'[a].readers = mem[a].readers /\ mem'[a].owned = mem[a].owned
          /\ mem'[a].upon = "BLOCK" => mem[a].upon = "BLOCK"
          /\ mem[a].life = "none" => mem'[a] = mem[a]
    BY <1>2, <1>3, <1>4
  <1>7. Owned'
    <2>1. \A u \in Threads : pins[u] \subseteq Blocks
      BY DEF Types
    <2>. QED BY <1>1, <1>5, <1>6, <2>1 DEF ContentsInv, Owned
  <1>8. Dying'
    BY <1>1, <1>6, DyingKept
  <1>9. Wanted'
    BY <1>1, <1>6, WantedKept
  <1>10. Spilled'
    <2>1. spilled \subseteq Temporary /\ Temporary \subseteq Blocks
      BY DEF Types, Blocks
    <2>. QED BY <1>1, <1>6, <2>1 DEF ContentsInv, Spilled
  <1>. QED BY <1>7, <1>8, <1>9, <1>10 DEF ContentsInv

LEMMA DropHandleContents ==
  ASSUME Types, ContentsInv, NEW t \in Threads, NEW b \in Blocks, DropHandle(t, b)
  PROVE  ContentsInv'
  <1>1. /\ UNCHANGED <<spilled, pins, th>> /\ mem[b].owned /\ dying[t] = NoBlock
        /\ \A u \in Threads : b \notin pins[u] /\ th[u].blk # b
    BY DEF DropHandle, At
  <1>2. /\ mem[b] \in MemoryType /\ mem[b].life = "live"
        /\ \A u \in Threads : dying[u] # b
    BY <1>1 DEF Types, ContentsInv, Owned
  <1>3. \A a \in Blocks \ {b} : mem'[a] = mem[a]
    BY DEF DropHandle, Types
  <1>4. mem'[b].life = "live" /\ ~mem'[b].owned
    <2>1. mem'[b] = [mem[b] EXCEPT !.owned = FALSE]
      BY DEF DropHandle, Types
    <2>. QED BY <1>2, <2>1 DEF MemoryType
  <1>5. \/ dying' = dying
        \/ dying' = [dying EXCEPT ![t] = b] /\ ~Referenced(b, Threads)
    BY DEF DropHandle, DropReference
  <1>6. \A u \in Threads : dying'[u] = dying[u] \/ (u = t /\ dying'[u] = b /\ ~Referenced(b, Threads))
    BY <1>5 DEF Types
  <1>7. Owned'
    <2>1. \A u \in Threads : pins[u] \subseteq Blocks
      BY DEF Types
    <2>2. \A a \in Blocks : mem'[a].owned =>
            /\ mem'[a].life = "live" /\ mem'[a].readers = Cardinality(Pinners(a))
            /\ \A u \in Threads : dying'[u] # a
      BY <1>3, <1>4, <1>6 DEF ContentsInv, Owned
    <2>3. \A a \in Blocks : mem'[a].life = "none" => mem'[a] = Absent
      BY <1>3, <1>4 DEF ContentsInv, Owned
    <2>4. \A a \in Blocks : Pinners(a)' = Pinners(a)
      BY <1>1 DEF Pinners
    <2>. QED BY <1>1, <1>3, <2>1, <2>2, <2>3, <2>4 DEF ContentsInv, Owned
  <1>8. Dying'
    <2>1. \A u \in Threads : dying'[u] # NoBlock => mem'[dying'[u]].life = "live"
      BY <1>3, <1>4, <1>6 DEF ContentsInv, Dying, Types
    <2>2. \A u \in Threads : dying'[u] # NoBlock => ~Referenced(dying'[u], Threads)
      BY <1>6 DEF ContentsInv, Dying
    <2>3. \A u, v \in Threads : dying'[u] # NoBlock /\ dying'[u] = dying'[v] => u = v
      BY <1>2, <1>6 DEF ContentsInv, Dying
    <2>4. \A u \in Threads : th[u].pc = "visit" => mem'[th[u].node[1]].life = "live"
      BY <1>3, <1>4 DEF Types, WellFormed, ContentsInv, Dying
    <2>. QED BY <1>1, <2>1, <2>2, <2>3, <2>4 DEF Dying, Referenced
  <1>9. Wanted'
    BY <1>1, <1>3, WantedKept
  <1>10. Spilled'
    <2>1. spilled \subseteq Temporary /\ Temporary \subseteq Blocks
      BY DEF Types, Blocks
    <2>. QED BY <1>1, <1>3, <1>4, <2>1 DEF ContentsInv, Spilled
  <1>. QED BY <1>7, <1>8, <1>9, <1>10 DEF ContentsInv

LEMMA DestroyContents ==
  ASSUME Types, ContentsInv, NEW t \in Threads, Destroy(t)
  PROVE  ContentsInv'
  <1>. DEFINE b == dying[t]
  <1>1. /\ UNCHANGED <<pins, th>> /\ b \in Blocks /\ dying[t] # NoBlock
        /\ spilled' = spilled \ {b}
    BY DEF Destroy, Types
  <1>2. /\ mem[b] \in MemoryType /\ mem[b].life = "live" /\ ~mem[b].owned
        /\ ~Referenced(b, Threads) /\ \A u \in Threads \ {t} : dying[u] # b
    BY <1>1 DEF Types, ContentsInv, Owned, Dying, MemoryType
  <1>3. \A a \in Blocks \ {b} : mem'[a] = mem[a]
    BY <1>1 DEF Destroy, Types
  <1>4. mem'[b].life = "gone" /\ ~mem'[b].owned
    <2>1. mem'[b] = [Unloaded(mem[b]) EXCEPT !.life = "gone"]
      BY <1>1 DEF Destroy, Types
    <2>. QED BY <1>2, <2>1 DEF MemoryType, Unloaded
  <1>5. \A u \in Threads : dying'[u] = IF u = t THEN NoBlock ELSE dying[u]
    BY DEF Destroy, Types
  <1>. HIDE DEF b
  <1>6. Owned'
    <2>1. \A u \in Threads : pins[u] \subseteq Blocks /\ b \notin pins[u]
      BY <1>2 DEF Types, ContentsInv, Owned
    <2>2. \A a \in Blocks : mem'[a].owned =>
            /\ mem'[a].life = "live" /\ mem'[a].readers = Cardinality(Pinners(a))
            /\ \A u \in Threads : dying'[u] # a
      BY <1>3, <1>4, <1>5, PoolAssumption DEF ContentsInv, Owned
    <2>3. \A a \in Blocks : mem'[a].life = "none" => mem'[a] = Absent
      BY <1>3, <1>4 DEF ContentsInv, Owned
    <2>4. \A a \in Blocks : Pinners(a)' = Pinners(a)
      BY <1>1 DEF Pinners
    <2>. QED BY <1>1, <1>3, <2>1, <2>2, <2>3, <2>4 DEF ContentsInv, Owned
  <1>7. Dying'
    <2>1. \A u \in Threads : dying'[u] # NoBlock => mem'[dying'[u]].life = "live"
      BY <1>2, <1>3, <1>5 DEF ContentsInv, Dying, Types
    <2>2. \A u \in Threads : dying'[u] # NoBlock => ~Referenced(dying'[u], Threads)
      BY <1>5 DEF ContentsInv, Dying
    <2>3. \A u, v \in Threads : dying'[u] # NoBlock /\ dying'[u] = dying'[v] => u = v
      BY <1>5 DEF ContentsInv, Dying
    <2>4. \A u \in Threads : th[u].pc = "visit" => mem'[th[u].node[1]].life = "live"
      BY <1>2, <1>3 DEF Types, WellFormed, ContentsInv, Dying, Referenced
    <2>. QED BY <1>1, <2>1, <2>2, <2>3, <2>4 DEF Dying, Referenced
  <1>8. Wanted'
    <2>1. \A u \in Threads : th[u].blk \in Blocks =>
            /\ mem[th[u].blk].owned => mem'[th[u].blk].owned
            /\ th[u].blk \in Temporary /\ mem[th[u].blk].life = "none" =>
                 mem'[th[u].blk].life = "none"
      BY <1>2, <1>3
    <2>. QED BY <1>1, <2>1, WantedKept
  <1>9. Spilled'
    <2>1. spilled \subseteq Temporary /\ Temporary \subseteq Blocks
      BY DEF Types, Blocks
    <2>. QED BY <1>1, <1>3, <1>4, <2>1 DEF ContentsInv, Spilled
  <1>. QED BY <1>6, <1>7, <1>8, <1>9 DEF ContentsInv

\* A thread starts to make room for a new block, or for one to be pinned.
LEMMA StartContents ==
  ASSUME Types, ContentsInv, NEW t \in Threads, NEW b \in Blocks,
         NEW op \in {"pin", "allocate"}, UNCHANGED <<mem, spilled, pins, dying>>,
         StartEviction(t, op, b, Size[b], limit, 0),
         op = "allocate" => /\ b \in Temporary /\ mem[b].life = "none"
                            /\ \A u \in Threads : th[u].blk # b,
         op = "pin" => mem[b].owned /\ b \notin pins[t]
  PROVE  ContentsInv'
  <1>1. PICK s : /\ WellFormed(s) /\ th' = [th EXCEPT ![t] = s]
                 /\ s.pc = "reserve" /\ s.op = op /\ s.blk = b
    BY BlockEvictionMoves
  <1>2. th'[t] = s /\ \A u \in Threads \ {t} : th'[u] = th[u]
    BY <1>1, ThreadStep
  <1>3. Owned'
    <2>1. \A a \in Blocks : Pinners(a)' = Pinners(a)
      BY DEF Pinners
    <2>. QED BY <2>1 DEF ContentsInv, Owned
  <1>4. Dying'
    BY <1>1, <1>2, DyingKept
  <1>5. Wanted'
    BY <1>1, <1>2 DEF ContentsInv, Wanted
  <1>6. Spilled'
    BY DEF ContentsInv, Spilled
  <1>. QED BY <1>3, <1>4, <1>5, <1>6 DEF ContentsInv

LEMMA AllocateContents ==
  ASSUME Types, ContentsInv, NEW t \in Threads, NEW b \in Blocks, Allocate(t, b)
  PROVE  ContentsInv'
  BY StartContents DEF Allocate

\* The thread is idle after it changed block b only.
LEMMA DyingIdle ==
  ASSUME Types, ContentsInv, UNCHANGED dying, NEW t \in Threads,
         th' = [th EXCEPT ![t] = Idle],
         \A a \in Blocks : mem[a].life = "live" => mem'[a].life = "live"
  PROVE  Dying'
  <1>1. th'[t] = Idle /\ \A u \in Threads \ {t} : th'[u] = th[u]
    BY ThreadStep, IdleFormed
  <1>. QED BY <1>1, IdleFormed, DyingKept

\* Wanted is kept when t ends its operation.
LEMMA WantedIdle ==
  ASSUME Types, ContentsInv, NEW t \in Threads, th' = [th EXCEPT ![t] = Idle],
         \A u \in Threads \ {t} : pins'[u] = pins[u],
         \A u \in Threads \ {t} : th[u].blk \in Blocks =>
            /\ mem[th[u].blk].owned => mem'[th[u].blk].owned
            /\ th[u].op = "allocate" => mem'[th[u].blk].life = "none"
  PROVE  Wanted'
  <1>1. th'[t] = Idle /\ \A u \in Threads \ {t} : th'[u] = th[u]
    BY ThreadStep, IdleFormed
  <1>2. Temporary \subseteq Blocks
    BY DEF Blocks
  <1>3. \A u \in Threads : th'[u].pc = "enqueue" \/ th'[u].op \in {"allocate", "pin"} =>
          u # t /\ th'[u] = th[u] /\ th[u].blk \in Blocks
    BY <1>1, IdleFormed DEF Types, WellFormed
  <1>. QED BY <1>2, <1>3 DEF ContentsInv, Wanted

LEMMA AllocatedContents ==
  ASSUME Types, ContentsInv, NEW t \in Threads, Allocated(t)
  PROVE  ContentsInv'
  <1>0. PICK b : b = th[t].blk
    OBVIOUS
  <1>1. /\ b \in Temporary /\ b \in Blocks /\ mem[b].life = "none"
        /\ \A u \in Threads \ {t} : th[u].op = "allocate" => th[u].blk # b
    BY <1>0 DEF Allocated, ContentsInv, Wanted, Blocks
  <1>2. mem[b] = Absent
    BY <1>1 DEF ContentsInv, Owned
  <1>3. ~mem[b].owned /\ ~mem[b].loaded
    BY <1>2 DEF Absent
  <1>4. /\ UNCHANGED <<spilled, dying>> /\ th' = [th EXCEPT ![t] = Idle]
        /\ pins' = [pins EXCEPT ![t] = @ \cup {b}]
    BY <1>0 DEF Allocated
  <1>5. \A a \in Blocks \ {b} : mem'[a] = mem[a]
    BY <1>0 DEF Allocated, Types
  <1>6. /\ mem'[b].life = "live" /\ mem'[b].owned /\ mem'[b].loaded
        /\ mem'[b].readers = 1
    BY <1>0, <1>1 DEF Allocated, Types, Absent
  <1>7. \A u \in Threads : b \notin pins[u] /\ pins[u] \subseteq Blocks
    BY <1>3 DEF ContentsInv, Owned, Types
  <1>8. /\ Cardinality(Pinners(b)') = Cardinality(Pinners(b)) + 1
        /\ \A a \in Blocks \ {b} : Pinners(a)' = Pinners(a)
    BY <1>1, <1>4, <1>7, PinAdded
  <1>9. Cardinality(Pinners(b)) = 0
    <2>1. Pinners(b) = {}
      BY <1>7 DEF Pinners
    <2>. QED BY <2>1, FS_EmptySet
  <1>10. \A u \in Threads : dying[u] # b
    BY <1>1, PoolAssumption DEF ContentsInv, Dying
  <1>11. Owned'
    <2>1. \A a \in Blocks : mem'[a].owned =>
            /\ mem'[a].life = "live" /\ mem'[a].readers = Cardinality(Pinners(a)')
            /\ \A u \in Threads : dying[u] # a
      BY <1>5, <1>6, <1>8, <1>9, <1>10 DEF ContentsInv, Owned
    <2>2. \A a \in Blocks : mem'[a].life = "none" => mem'[a] = Absent
      BY <1>5, <1>6 DEF ContentsInv, Owned
    <2>3. \A u \in Threads : \A a \in pins'[u] : a = b \/ a \in pins[u]
      BY <1>4 DEF Types
    <2>4. \A u \in Threads : \A a \in pins'[u] : mem'[a].owned /\ mem'[a].loaded
      BY <1>5, <1>6, <1>7, <2>3 DEF ContentsInv, Owned
    <2>. QED BY <1>4, <2>1, <2>2, <2>4 DEF Owned
  <1>12. Dying'
    BY <1>1, <1>4, <1>5, <1>6, DyingIdle
  <1>13. Wanted'
    <2>1. \A u \in Threads \ {t} : th[u].blk \in Blocks =>
            /\ mem[th[u].blk].owned => mem'[th[u].blk].owned
            /\ th[u].op = "allocate" => mem'[th[u].blk].life = "none"
      BY <1>1, <1>5, <1>6 DEF ContentsInv, Wanted
    <2>2. \A u \in Threads \ {t} : pins'[u] = pins[u]
      BY <1>4 DEF Types
    <2>. QED BY <1>4, <2>1, <2>2, WantedIdle
  <1>14. Spilled'
    <2>1. spilled \subseteq Temporary /\ Temporary \subseteq Blocks /\ b \notin spilled
      BY <1>1 DEF Types, Blocks, ContentsInv, Spilled
    <2>. QED BY <1>4, <1>5, <1>6, <2>1 DEF ContentsInv, Spilled
  <1>. QED BY <1>11, <1>12, <1>13, <1>14 DEF ContentsInv

\* What one more pin of b does.
LEMMA OwnedPinned ==
  ASSUME Types, ContentsInv, UNCHANGED dying, NEW t \in Threads, NEW b \in Blocks,
         b \notin pins[t], mem[b].owned,
         pins' = [pins EXCEPT ![t] = @ \cup {b}],
         \A a \in Blocks \ {b} : mem'[a] = mem[a],
         mem'[b].owned, mem'[b].life = mem[b].life, mem'[b].loaded,
         mem'[b].readers = Cardinality(Pinners(b)) + 1
  PROVE  Owned'
  <1>1. /\ Cardinality(Pinners(b)') = Cardinality(Pinners(b)) + 1
        /\ \A a \in Blocks \ {b} : Pinners(a)' = Pinners(a)
    BY PinAdded
  <1>2. \A a \in Blocks : mem'[a].owned =>
          /\ mem'[a].life = "live" /\ mem'[a].readers = Cardinality(Pinners(a)')
          /\ \A u \in Threads : dying[u] # a
    BY <1>1 DEF ContentsInv, Owned
  <1>3. \A a \in Blocks : mem'[a].life = "none" => mem'[a] = Absent
    BY DEF ContentsInv, Owned
  <1>4. \A u \in Threads : \A a \in pins'[u] : a = b \/ (a \in pins[u] /\ a \in Blocks)
    BY DEF Types
  <1>5. \A u \in Threads : \A a \in pins'[u] : mem'[a].owned /\ mem'[a].loaded
    BY <1>4 DEF ContentsInv, Owned
  <1>. QED BY <1>2, <1>3, <1>5 DEF Owned

\* A loaded block is pinned, at once or after an eviction that was not needed.
LEMMA PinnedEffect ==
  ASSUME Types, ContentsInv, NEW t \in Threads, NEW b \in Blocks, Pinned(t, b),
         mem[b].owned, mem[b].loaded
  PROVE  /\ \A a \in Blocks \ {b} : mem'[a] = mem[a]
         /\ mem'[b].owned /\ mem'[b].life = mem[b].life /\ mem'[b].loaded
         /\ mem'[b].upon = mem[b].upon
         /\ mem'[b].readers = Cardinality(Pinners(b)) + 1
  <1>1. mem[b] \in MemoryType /\ mem[b].readers = Cardinality(Pinners(b))
    BY DEF Types, ContentsInv, Owned
  <1>2. \A a \in Blocks \ {b} : mem'[a] = mem[a]
    BY DEF Pinned, Types
  <1>3. mem'[b] = [mem[b] EXCEPT !.readers = @ + 1]
    BY DEF Pinned, Types
  <1>. QED BY <1>1, <1>2, <1>3 DEF MemoryType

\* Pinning a loaded block leaves the temporary files alone.
LEMMA SpilledPinned ==
  ASSUME Types, ContentsInv, UNCHANGED spilled, NEW b \in Blocks,
         mem[b].owned, mem[b].loaded,
         \A a \in Blocks \ {b} : mem'[a] = mem[a],
         mem'[b].owned, mem'[b].life = mem[b].life, mem'[b].loaded,
         mem'[b].upon = mem[b].upon
  PROVE  Spilled'
  <1>1. spilled \subseteq Temporary /\ Temporary \subseteq Blocks
    BY DEF Types, Blocks
  <1>. QED BY <1>1 DEF ContentsInv, Spilled

LEMMA PinContents ==
  ASSUME Types, ContentsInv, NEW t \in Threads, NEW b \in Blocks, Pin(t, b)
  PROVE  ContentsInv'
  <1>1. mem[b].owned /\ b \notin pins[t] /\ UNCHANGED <<spilled, dying>>
        /\ th[t].pc = "idle"
    BY DEF Pin, At
  <1>2. CASE mem[b].loaded /\ Pinned(t, b) /\ UNCHANGED th
    <2>1. /\ \A a \in Blocks \ {b} : mem'[a] = mem[a]
          /\ mem'[b].owned /\ mem'[b].life = mem[b].life /\ mem'[b].loaded
          /\ mem'[b].upon = mem[b].upon
          /\ mem'[b].readers = Cardinality(Pinners(b)) + 1
      BY <1>1, <1>2, PinnedEffect
    <2>2. pins' = [pins EXCEPT ![t] = @ \cup {b}]
      BY <1>2 DEF Pinned
    <2>3. Owned'
      BY <1>1, <2>1, <2>2, OwnedPinned
    <2>4. Dying'
      BY <1>1, <1>2, <2>1, DyingKept
    <2>5. Wanted'
      <3>1. \A u \in Threads : pins'[u] \subseteq pins[u] \/ th[u].op # "pin"
        BY <1>1, <2>2 DEF Types, WellFormed, Evicting
      <3>2. \A u \in Threads : th[u].blk \in Blocks =>
              /\ mem[th[u].blk].owned => mem'[th[u].blk].owned
              /\ th[u].blk \in Temporary /\ mem[th[u].blk].life = "none" =>
                   mem'[th[u].blk].life = "none"
        BY <2>1
      <3>. QED BY <1>2, <3>1, <3>2, WantedKept
    <2>6. Spilled'
      BY <1>1, <1>2, <2>1, SpilledPinned
    <2>. QED BY <2>3, <2>4, <2>5, <2>6 DEF ContentsInv
  <1>3. CASE StartEviction(t, "pin", b, Size[b], limit, 0) /\ UNCHANGED <<mem, pins>>
    BY <1>1, <1>3, StartContents
  <1>. QED BY <1>2, <1>3 DEF Pin

LEMMA PinLoadedContents ==
  ASSUME Types, ContentsInv, NEW t \in Threads, PinLoaded(t)
  PROVE  ContentsInv'
  <1>0. PICK b : b = th[t].blk
    OBVIOUS
  <1>1. /\ b \in Blocks /\ mem[b].owned /\ b \notin pins[t] /\ mem[b].loaded
        /\ Pinned(t, b) /\ UNCHANGED <<spilled, dying>>
        /\ th' = [th EXCEPT ![t] = Idle]
    BY <1>0 DEF PinLoaded, ContentsInv, Wanted
  <1>2. /\ \A a \in Blocks \ {b} : mem'[a] = mem[a]
        /\ mem'[b].owned /\ mem'[b].life = mem[b].life /\ mem'[b].loaded
        /\ mem'[b].upon = mem[b].upon
        /\ mem'[b].readers = Cardinality(Pinners(b)) + 1
    BY <1>1, PinnedEffect
  <1>3. pins' = [pins EXCEPT ![t] = @ \cup {b}]
    BY <1>1 DEF Pinned
  <1>4. Owned'
    BY <1>1, <1>2, <1>3, OwnedPinned
  <1>5. Dying'
    BY <1>1, <1>2, DyingIdle
  <1>6. Wanted'
    <2>1. \A u \in Threads \ {t} : th[u].blk \in Blocks =>
            /\ mem[th[u].blk].owned => mem'[th[u].blk].owned
            /\ th[u].op = "allocate" => mem'[th[u].blk].life = "none"
      BY <1>2 DEF ContentsInv, Wanted
    <2>2. \A u \in Threads \ {t} : pins'[u] = pins[u]
      BY <1>3 DEF Types
    <2>. QED BY <1>1, <2>1, <2>2, WantedIdle
  <1>7. Spilled'
    BY <1>1, <1>2, SpilledPinned
  <1>. QED BY <1>4, <1>5, <1>6, <1>7 DEF ContentsInv

LEMMA PinLoadContents ==
  ASSUME Types, ContentsInv, NEW t \in Threads, PinLoad(t)
  PROVE  ContentsInv'
  <1>0. PICK b : b = th[t].blk
    OBVIOUS
  <1>1. /\ b \in Blocks /\ mem[b].owned /\ b \notin pins[t] /\ ~mem[b].loaded
        /\ UNCHANGED dying /\ th' = [th EXCEPT ![t] = Idle]
        /\ spilled' = spilled \ {b}
        /\ pins' = [pins EXCEPT ![t] = @ \cup {b}]
    BY <1>0 DEF PinLoad, ContentsInv, Wanted
  <1>2. \A a \in Blocks \ {b} : mem'[a] = mem[a]
    BY <1>0 DEF PinLoad, Types
  <1>3. /\ mem'[b].owned /\ mem'[b].life = mem[b].life /\ mem'[b].loaded
        /\ mem'[b].upon = mem[b].upon /\ mem'[b].readers = 1
    <2>1. mem'[b] = [mem[b] EXCEPT !.loaded = TRUE, !.readers = 1,
                                   !.charge = th[t].res]
      BY <1>0, <1>1 DEF PinLoad, Types
    <2>2. mem[b] \in MemoryType
      BY <1>1 DEF Types
    <2>. QED BY <1>1, <2>1, <2>2 DEF MemoryType
  <1>4. Cardinality(Pinners(b)) = 0
    <2>1. Pinners(b) = {}
      BY <1>1 DEF Pinners, ContentsInv, Owned
    <2>. QED BY <2>1, FS_EmptySet
  <1>5. Owned'
    <2>1. mem'[b].readers = Cardinality(Pinners(b)) + 1
      BY <1>3, <1>4
    <2>. QED BY <1>1, <1>2, <1>3, <2>1, OwnedPinned
  <1>6. Dying'
    BY <1>1, <1>2, <1>3, DyingIdle
  <1>7. Wanted'
    <2>1. \A u \in Threads \ {t} : th[u].blk \in Blocks =>
            /\ mem[th[u].blk].owned => mem'[th[u].blk].owned
            /\ th[u].op = "allocate" => mem'[th[u].blk].life = "none"
      BY <1>2, <1>3 DEF ContentsInv, Wanted
    <2>2. \A u \in Threads \ {t} : pins'[u] = pins[u]
      BY <1>1 DEF Types
    <2>. QED BY <1>1, <2>1, <2>2, WantedIdle
  <1>8. Spilled'
    <2>1. spilled \subseteq Temporary /\ Temporary \subseteq Blocks
      BY DEF Types, Blocks
    <2>. QED BY <1>1, <1>2, <1>3, <2>1 DEF ContentsInv, Spilled
  <1>. QED BY <1>5, <1>6, <1>7, <1>8 DEF ContentsInv

\* One pin of b less; its buffer stays unless it was the last and b is not
\* wanted any more.
LEMMA UnpinEffect ==
  ASSUME Types, ContentsInv, NEW t \in Threads, NEW b \in Blocks, Release(t, b)
  PROVE  /\ mem[b].owned /\ mem[b].loaded /\ mem[b].readers = Cardinality(Pinners(b))
         /\ mem[b].life = "live" /\ mem[b].readers > 0
         /\ \A a \in Blocks \ {b} : mem'[a] = mem[a]
         /\ mem'[b].owned /\ mem'[b].life = "live" /\ mem'[b].upon = mem[b].upon
         /\ mem'[b].readers = mem[b].readers - 1
         /\ mem'[b].loaded \/ (mem[b].readers = 1 /\ mem[b].upon = "UNPIN")
         /\ mem'[b].seq = mem[b].seq /\ mem'[b].entry = mem[b].entry
  <1>1. b \in pins[t]
    BY DEF Release
  <1>2. /\ mem[b].owned /\ mem[b].loaded /\ mem[b].life = "live"
        /\ mem[b].readers = Cardinality(Pinners(b))
    BY <1>1 DEF ContentsInv, Owned
  <1>3. mem[b] \in MemoryType /\ mem[b].readers > 0
    BY DEF Types, MemoryType, Release
  <1>4. \A a \in Blocks \ {b} : mem'[a] = mem[a]
    BY DEF Release, Types
  <1>5. CASE mem' = [mem EXCEPT ![b].readers = @ - 1]
    <2>1. mem'[b] = [mem[b] EXCEPT !.readers = @ - 1]
      BY <1>5 DEF Types
    <2>2. /\ mem'[b].owned = mem[b].owned /\ mem'[b].life = mem[b].life
          /\ mem'[b].upon = mem[b].upon /\ mem'[b].readers = mem[b].readers - 1
          /\ mem'[b].loaded = mem[b].loaded
          /\ mem'[b].seq = mem[b].seq /\ mem'[b].entry = mem[b].entry
      BY <1>3, <2>1 DEF MemoryType
    <2>. QED BY <1>2, <1>3, <1>4, <2>2
  <1>6. CASE /\ mem' = [[mem EXCEPT ![b].readers = @ - 1] EXCEPT ![b] = Unloaded(@)]
             /\ mem[b].readers = 1 /\ mem[b].upon = "UNPIN"
    <2>1. mem'[b] = Unloaded([mem[b] EXCEPT !.readers = @ - 1])
      BY <1>6 DEF Types
    <2>2. /\ mem'[b].owned = mem[b].owned /\ mem'[b].life = mem[b].life
          /\ mem'[b].upon = mem[b].upon /\ mem'[b].readers = mem[b].readers - 1
          /\ mem'[b].seq = mem[b].seq /\ mem'[b].entry = mem[b].entry
      BY <1>3, <2>1 DEF MemoryType, Unloaded
    <2>. QED BY <1>2, <1>3, <1>4, <1>6, <2>2
  <1>. QED BY <1>5, <1>6 DEF Release

LEMMA UnpinMoves ==
  ASSUME Types, NEW t \in Threads, NEW b \in Blocks, Release(t, b)
  PROVE  \/ UNCHANGED th
         \/ \E s : /\ WellFormed(s) /\ th' = [th EXCEPT ![t] = s]
                   /\ s.pc = "enqueue" /\ s.op = "none" /\ s.blk = b /\ InHand(s) = {}
  <1>1. CASE th' = [th EXCEPT ![t].pc = "enqueue", ![t].blk = b]
    <2>1. th[t].pc = "idle"
      BY DEF Release, At
    <2>2. \E s : /\ WellFormed(s) /\ th' = [th EXCEPT ![t] = s]
                 /\ s.pc = "enqueue" /\ s.op = "none" /\ s.blk = b /\ InHand(s) = {}
      BY <1>1, <2>1, EnqueueStarts
    <2>. QED BY <2>2
  <1>. QED BY <1>1 DEF Release

LEMMA UnpinContents ==
  ASSUME Types, ContentsInv, NEW t \in Threads, NEW b \in Blocks, Release(t, b)
  PROVE  ContentsInv'
  <1>1. /\ b \in pins[t] /\ UNCHANGED <<spilled, dying>>
        /\ pins' = [pins EXCEPT ![t] = @ \ {b}] /\ th[t].pc = "idle"
    BY DEF Release, At
  <1>2. /\ mem[b].owned /\ mem[b].loaded /\ mem[b].readers = Cardinality(Pinners(b))
        /\ mem[b].life = "live" /\ mem[b].readers > 0
        /\ \A a \in Blocks \ {b} : mem'[a] = mem[a]
        /\ mem'[b].owned /\ mem'[b].life = "live" /\ mem'[b].upon = mem[b].upon
        /\ mem'[b].readers = mem[b].readers - 1
        /\ mem'[b].loaded \/ (mem[b].readers = 1 /\ mem[b].upon = "UNPIN")
    BY UnpinEffect
  <1>3. /\ Cardinality(Pinners(b)') = Cardinality(Pinners(b)) - 1
        /\ \A a \in Blocks \ {b} : Pinners(a)' = Pinners(a)
    BY <1>1, PinRemoved
  <1>4. \A u \in Threads : pins'[u] \subseteq pins[u] /\ pins[u] \subseteq Blocks
    BY <1>1 DEF Types
  <1>5. Owned'
    <2>1. \A a \in Blocks : mem'[a].owned =>
            /\ mem'[a].life = "live" /\ mem'[a].readers = Cardinality(Pinners(a)')
            /\ \A u \in Threads : dying[u] # a
      BY <1>2, <1>3 DEF ContentsInv, Owned
    <2>2. \A a \in Blocks : mem'[a].life = "none" => mem'[a] = Absent
      BY <1>2 DEF ContentsInv, Owned
    <2>3. mem'[b].loaded \/ \A u \in Threads : b \notin pins'[u]
      <3>1. CASE mem[b].readers = 1
        <4>1. Pinners(b) = {t}
          BY <1>1, <3>1, OneReader DEF ContentsInv
        <4>. QED BY <1>1, <4>1 DEF Pinners, Types
      <3>. QED BY <1>2, <3>1
    <2>4. \A u \in Threads : \A a \in pins'[u] : mem'[a].owned /\ mem'[a].loaded
      BY <1>2, <1>4, <2>3 DEF ContentsInv, Owned
    <2>. QED BY <1>1, <2>1, <2>2, <2>4 DEF Owned
  <1>6. \/ UNCHANGED th
        \/ \E s : /\ th'[t] = s /\ \A u \in Threads \ {t} : th'[u] = th[u]
                  /\ s.pc = "enqueue" /\ s.op = "none" /\ s.blk = b
    BY UnpinMoves, ThreadStep
  <1>7. Dying'
    BY <1>1, <1>2, <1>6, DyingKept
  <1>8. Wanted'
    <2>1. \A a \in Blocks : (mem'[a].owned <=> mem[a].owned) /\ mem'[a].life = mem[a].life
      BY <1>2
    <2>2. Temporary \subseteq Blocks
      BY DEF Blocks
    <2>. QED BY <1>1, <1>2, <1>4, <1>6, <2>1, <2>2 DEF ContentsInv, Wanted
  <1>9. Spilled'
    <2>1. spilled \subseteq Temporary /\ Temporary \subseteq Blocks
      BY DEF Types, Blocks
    <2>. QED BY <1>1, <1>2, <2>1 DEF ContentsInv, Spilled
  <1>. QED BY <1>5, <1>7, <1>8, <1>9 DEF ContentsInv

LEMMA ConvertContents ==
  ASSUME Types, ContentsInv, NEW t \in Threads, NEW b \in Blocks,
         NEW p \in Persistent, ConvertToPersistent(t, b, p)
  PROVE  ContentsInv'
  <1>1. b \in pins[t] /\ UNCHANGED <<spilled, pins, dying>>
    BY DEF ConvertToPersistent, Convertible
  <1>2. mem[b].life = "live" /\ mem[b] \in MemoryType
    BY <1>1 DEF ContentsInv, Owned, Types
  <1>3. BlocksKept
    <2>1. CASE UNCHANGED mem
      BY <2>1 DEF BlocksKept
    <2>2. CASE mem' = [mem EXCEPT ![b].charge = 0]
      BY <1>2, <2>2 DEF BlocksKept, Types, MemoryType
    <2>. QED BY <2>1, <2>2 DEF ConvertToPersistent
  <1>. QED
    BY <1>1, <1>3, ConvertStarts, ContentsPassing

\* What the end of a conversion does to the two blocks.
LEMMA ConvertedEffect ==
  ASSUME Types, ContentsInv, Converting, NEW t \in Threads, Converted(t),
         NEW b, b = th[t].blk, NEW p, p = th[t].node[1]
  PROVE  /\ b \in Blocks /\ b \in Temporary /\ p \in Persistent
         /\ p \in Blocks /\ p # b /\ p \notin Temporary /\ mem[p] = Absent
         /\ b \in pins[t] /\ Pinners(b) = {t} /\ Size[b] = Size[p]
         /\ mem[b].owned /\ mem[b].loaded /\ mem[b].life = "live"
         /\ \A a \in Blocks \ {b, p} : mem'[a] = mem[a]
         /\ mem'[b].life = "live" /\ ~mem'[b].owned /\ ~mem'[b].loaded
         /\ mem'[b].seq = mem[b].seq /\ mem'[b].entry = mem[b].entry
         /\ mem'[b].charge = 0
         /\ mem'[p].life = "live" /\ mem'[p].owned /\ mem'[p].loaded
         /\ mem'[p].readers = 0 /\ mem'[p].seq = 0 /\ ~mem'[p].entry
         /\ mem'[p].charge = Size[p]
  <1>0. th[t].pc = "convert" /\ WellFormed(th[t])
    BY DEF Converted, At, Types
  <1>1. /\ b \in Temporary /\ p \in Persistent /\ b \in pins[t] /\ mem[p].life = "none"
        /\ Size[b] = Size[p] /\ \A u \in Threads \ {t} : b \notin pins[u]
    BY <1>0 DEF WellFormed, Converting
  <1>2. b \in Blocks /\ p \in Blocks /\ p # b /\ p \notin Temporary
    BY <1>1, PoolAssumption DEF Blocks
  <1>3. mem[p] = Absent /\ Pinners(b) = {t}
    BY <1>1, <1>2 DEF ContentsInv, Owned, Pinners
  <1>4. mem[b].owned /\ mem[b].loaded /\ mem[b].life = "live" /\ mem[b] \in MemoryType
    BY <1>1, <1>2 DEF ContentsInv, Owned, Types
  <1>. DEFINE x == [Absent EXCEPT !.life = "live", !.owned = TRUE, !.loaded = TRUE,
                                  !.charge = Size[b]]
  <1>5. mem' = [mem EXCEPT ![p] = x, ![b] = [Unloaded(@) EXCEPT !.owned = FALSE]]
    BY DEF Converted
  <1>6. /\ x.life = "live" /\ x.owned /\ x.loaded /\ x.readers = 0 /\ x.seq = 0
        /\ ~x.entry /\ x.charge = Size[b]
    BY DEF Absent
  <1>. HIDE DEF x
  <1>7. /\ \A a \in Blocks \ {b, p} : mem'[a] = mem[a]
        /\ mem'[p] = x /\ mem'[b] = [Unloaded(mem[b]) EXCEPT !.owned = FALSE]
    BY <1>2, <1>5 DEF Types
  <1>8. /\ mem'[b].life = "live" /\ ~mem'[b].owned /\ ~mem'[b].loaded
        /\ mem'[b].seq = mem[b].seq /\ mem'[b].entry = mem[b].entry
        /\ mem'[b].charge = 0
    BY <1>4, <1>7 DEF MemoryType, Unloaded
  <1>. QED BY <1>1, <1>2, <1>3, <1>4, <1>6, <1>7, <1>8

LEMMA ConvertedContents ==
  ASSUME Types, ContentsInv, Converting, NEW t \in Threads, Converted(t)
  PROVE  ContentsInv'
  <1>0. PICK b, p : b = th[t].blk /\ p = th[t].node[1]
    OBVIOUS
  <1>1. /\ b \in Blocks /\ p \in Blocks /\ p # b /\ p \notin Temporary /\ mem[p] = Absent
        /\ Pinners(b) = {t}
        /\ mem[b].owned /\ mem[b].loaded /\ mem[b].life = "live"
        /\ \A a \in Blocks \ {b, p} : mem'[a] = mem[a]
        /\ mem'[b].life = "live" /\ ~mem'[b].owned /\ ~mem'[b].loaded
        /\ mem'[p].life = "live" /\ mem'[p].owned /\ mem'[p].loaded
        /\ mem'[p].readers = 0
    BY <1>0, ConvertedEffect
  <1>2. /\ pins' = [pins EXCEPT ![t] = @ \ {b}] /\ spilled' = spilled
        /\ dying[t] = NoBlock
        /\ \A u \in Threads \ {t} :
             th[u].op = "pin" \/ th[u].pc = "enqueue" => th[u].blk # b
    BY <1>0 DEF Converted, At, Converting
  <1>3. mem[p].life = "none" /\ ~mem[p].owned
    BY <1>1 DEF Absent
  <1>4. \A u \in Threads : /\ dying[u] # b /\ dying[u] # p
                           /\ p \notin pins[u] /\ b \notin pins'[u]
                           /\ pins'[u] \subseteq pins[u] /\ pins[u] \subseteq Blocks
    <2>1. \A u \in Threads : dying[u] # b /\ dying[u] # p /\ p \notin pins[u]
      BY <1>1, <1>3, PoolAssumption DEF ContentsInv, Owned, Dying
    <2>2. \A u \in Threads : b \notin pins'[u] /\ pins'[u] \subseteq pins[u]
                             /\ pins[u] \subseteq Blocks
      BY <1>1, <1>2 DEF Pinners, Types
    <2>. QED BY <2>1, <2>2
  <1>5. \A u \in Threads : \/ dying'[u] = dying[u]
                           \/ u = t /\ dying'[u] = b /\ ~Referenced(b, Threads)
    BY <1>0 DEF Converted, DropReference, Types
  <1>6. PICK s : /\ WellFormed(s) /\ th' = [th EXCEPT ![t] = s]
                 /\ s.pc = "enqueue" /\ s.op = "none" /\ s.blk = p
    BY <1>0, ConvertedMoves
  <1>7. th'[t] = s /\ \A u \in Threads \ {t} : th'[u] = th[u]
    BY <1>6, ThreadStep
  <1>8. Owned'
    <2>1. /\ \A a \in Blocks \ {b} : Pinners(a)' = Pinners(a)
      BY <1>2 DEF Pinners, Types
    <2>2. Cardinality(Pinners(p)) = 0
      <3>1. Pinners(p) = {}
        BY <1>4 DEF Pinners
      <3>. QED BY <3>1, FS_EmptySet
    <2>3. \A a \in Blocks : mem'[a].owned =>
            /\ mem'[a].life = "live" /\ mem'[a].readers = Cardinality(Pinners(a)')
            /\ \A u \in Threads : dying'[u] # a
      BY <1>1, <1>4, <1>5, <2>1, <2>2 DEF ContentsInv, Owned
    <2>4. \A a \in Blocks : mem'[a].life = "none" => mem'[a] = Absent
      <3>1. \A a \in Blocks \ {b, p} : mem[a].life = "none" => mem[a] = Absent
        BY DEF ContentsInv, Owned
      <3>. QED BY <1>1, <3>1
    <2>5. \A u \in Threads : \A a \in pins'[u] : mem'[a].owned /\ mem'[a].loaded
      BY <1>1, <1>4 DEF ContentsInv, Owned
    <2>. QED BY <2>3, <2>4, <2>5 DEF Owned
  <1>9. \A u \in Threads : th'[u].pc = "visit" =>
          u # t /\ th[u].pc = "visit" /\ th'[u].node = th[u].node
    BY <1>6, <1>7
  <1>10. Dying'
    <2>1. \A u \in Threads : dying'[u] # NoBlock =>
            dying'[u] \in Blocks /\ mem'[dying'[u]].life = "live"
      BY <1>1, <1>4, <1>5 DEF Types, ContentsInv, Dying
    <2>2. \A u \in Threads : dying'[u] # NoBlock =>
            ~\E v \in Threads : th'[v].pc = "visit" /\ th'[v].node[1] = dying'[u]
      BY <1>5, <1>9 DEF ContentsInv, Dying, Referenced
    <2>3. \A u, v \in Threads : dying'[u] # NoBlock /\ dying'[u] = dying'[v] => u = v
      BY <1>4, <1>5 DEF ContentsInv, Dying
    <2>4. \A u \in Threads : th'[u].pc = "visit" => mem'[th'[u].node[1]].life = "live"
      <3>1. \A u \in Threads : th[u].pc = "visit" => th[u].node[1] \in Blocks
        BY DEF Types, WellFormed
      <3>. QED BY <1>1, <1>9, <3>1 DEF ContentsInv, Dying
    <2>. QED BY <2>1, <2>2, <2>3, <2>4 DEF Dying, Referenced
  <1>11. Wanted'
    <2>1. \A u \in Threads \ {t} :
            th'[u].pc = "enqueue" \/ th'[u].op \in {"allocate", "pin"} =>
              th'[u] = th[u] /\ th[u].blk \in Blocks /\ pins'[u] \subseteq pins[u]
      BY <1>4, <1>7 DEF Types, WellFormed
    <2>2. \A a \in Blocks \ {b} : /\ mem[a].owned => mem'[a].owned
                                  /\ a \in Temporary => mem'[a].life = mem[a].life
      BY <1>1, <1>3
    <2>3. \A u \in Threads : th'[u].op = "allocate" =>
             /\ th'[u].blk \in Temporary /\ mem'[th'[u].blk].life = "none"
             /\ \A v \in Threads : 
                  th'[v].op = "allocate" /\ th'[v].blk = th'[u].blk => v = u
      <3>1. \A u \in Threads : th'[u].op = "allocate" =>
              /\ u # t /\ th'[u] = th[u] /\ th[u].op = "allocate"
              /\ th[u].blk \in Blocks \ {b} /\ th[u].blk \in Temporary
        BY <1>1, <1>6, <1>7, <2>1 DEF ContentsInv, Wanted
      <3>. QED BY <2>2, <3>1 DEF ContentsInv, Wanted
    <2>4. \A u \in Threads : th'[u].op = "pin" =>
             th'[u].blk \in Blocks /\ mem'[th'[u].blk].owned /\ th'[u].blk \notin pins'[u]
      BY <1>2, <1>6, <1>7, <2>1, <2>2 DEF ContentsInv, Wanted
    <2>5. \A u \in Threads : th'[u].pc = "enqueue" =>
             th'[u].blk \in Blocks /\ mem'[th'[u].blk].owned
      BY <1>1, <1>2, <1>6, <1>7, <2>1, <2>2 DEF ContentsInv, Wanted
    <2>. QED BY <2>3, <2>4, <2>5 DEF Wanted
  <1>12. Spilled'
    <2>1. spilled \subseteq Temporary /\ Temporary \subseteq Blocks
      BY DEF Types, Blocks
    <2>. QED BY <1>1, <1>2, <2>1 DEF ContentsInv, Spilled
  <1>. QED BY <1>8, <1>10, <1>11, <1>12 DEF ContentsInv

\* Every step keeps ContentsInv.
LEMMA ContentsStep == Types /\ ContentsInv /\ Converting /\ [Next]_vars => ContentsInv'
  <1>. SUFFICES ASSUME Types, ContentsInv, Converting, [Next]_vars PROVE ContentsInv'
    OBVIOUS
  <1>1. CASE UNCHANGED vars
    BY <1>1, ContentsUnchanged DEF vars
  <1>2. CASE SetTemporaryDirectory
    BY <1>2, ContentsUnchanged DEF SetTemporaryDirectory
  <1>3. ASSUME NEW t \in Threads, Evict(t) \/ PinEnds(t) \/ PurgeStep(t)
        PROVE  ContentsInv'
    BY <1>3, ContentsThreadSteps, EvictVisitContents, PinLoadedContents,
       PinLoadContents DEF Evict, PinEnds
  <1>4. ASSUME NEW t \in Threads,
               \/ Allocated(t) \/ Enqueue(t) \/ Destroy(t) \/ Converted(t)
               \/ SetLimit(t) \/ LimitChanged(t) \/ LimitKept(t)
        PROVE  ContentsInv'
    BY <1>4, AllocatedContents, EnqueueContents, DestroyContents, ConvertedContents,
       ContentsThreadSteps
  <1>5. ASSUME NEW t \in Threads, NEW b \in Blocks,
               \/ RegisterBlock(t, b) \/ Allocate(t, b) \/ Pin(t, b)
               \/ Unpin(t, b) \/ SetDestroyBufferUpon(t, b) \/ DropHandle(t, b)
               \/ \E p \in Persistent : \/ ConvertToPersistent(t, b, p)
                                        \/ ConvertFails(t, b, p)
        PROVE  ContentsInv'
    BY <1>5, RegisterContents, AllocateContents, PinContents, UnpinContents,
       SetDestroyContents, DropHandleContents, ConvertContents
       DEF Unpin, ConvertFails
  <1>. QED
    BY <1>1, <1>2, <1>3, <1>4, <1>5 DEF Next

-----------------------------------------------------------------------------
(* Conversions: <action>Converting says that the action keeps Converting *)

\* A step of t, which converts nothing after it.
LEMMA ConvertingKept ==
  ASSUME Types, Converting, NEW t \in Threads, NEW s, WellFormed(s),
         th' = [th EXCEPT ![t] = s], s.pc # "convert",
         \A u \in Threads \ {t} : pins'[u] = pins[u],
         \A u \in Threads \ {t} : th[u].pc = "convert" =>
            /\ th[u].blk \notin pins'[t]
            /\ s.op = "pin" \/ s.pc = "enqueue" => s.blk # th[u].blk
            /\ mem'[th[u].node[1]].life = "none"
  PROVE  Converting'
  <1>1. th'[t] = s /\ \A u \in Threads \ {t} : th'[u] = th[u]
    BY ThreadStep
  <1>. QED BY <1>1 DEF Converting

\* No block comes into being.
NoneNew == \A a \in Blocks : mem[a].life = "none" => mem'[a].life = "none"

\* The block that a conversion creates is one of the blocks.
LEMMA ConvertingBlocks ==
  ASSUME Types, NEW u \in Threads, th[u].pc = "convert"
  PROVE  /\ th[u].blk \in Temporary /\ th[u].blk \in Blocks
         /\ th[u].node[1] \in Persistent /\ th[u].node[1] \in Blocks
  BY DEF Types, WellFormed, Blocks

\* Steps that pin nothing: t goes on, or ends what it does.
LEMMA ConvertingPassing ==
  ASSUME Types, Converting, NoneNew, UNCHANGED pins,
         NEW t \in Threads, NEW s, WellFormed(s), th' = [th EXCEPT ![t] = s],
         s.pc \notin {"enqueue", "convert"},
         \/ s.op = th[t].op /\ s.blk = th[t].blk
         \/ s.op \in {"none", "allocate", "limit1", "limit2"}
  PROVE  Converting'
  BY ConvertingKept, ConvertingBlocks DEF Converting, NoneNew

LEMMA ConvertingResumes ==
  ASSUME Types, Converting, NoneNew, UNCHANGED pins,
         NEW t \in Threads, \E s : Resumes(t, s)
  PROVE  Converting'
  <1>1. PICK s : Resumes(t, s)
    OBVIOUS
  <1>. QED BY <1>1, ConvertingPassing DEF Resumes

\* Steps that leave the threads where they are.
LEMMA ConvertingStill ==
  ASSUME Types, Converting, UNCHANGED <<th, pins>>,
         \A u \in Threads : th[u].pc = "convert" => mem'[th[u].node[1]].life = "none"
  PROVE  Converting'
  BY DEF Converting

LEMMA ConvertingThreadSteps ==
  ASSUME Types, Converting, NEW t \in Threads,
         \/ EvictReserve(t) \/ EvictDequeue(t) \/ EvictExhausted(t)
         \/ PinFails(t) \/ PurgeStep(t)
         \/ SetLimit(t) \/ LimitChanged(t) \/ LimitKept(t)
  PROVE  Converting'
  <1>1. UNCHANGED <<mem, pins>>
    BY DEF EvictReserve, EvictDequeue, EvictExhausted, PinFails, PurgeStep, Purge,
           PurgeDequeue, PurgeJudge, PurgeFinish, SetLimit, LimitChanged, LimitKept
  <1>2. NoneNew
    BY <1>1 DEF NoneNew
  <1>3. CASE \E s : Resumes(t, s)
    BY <1>1, <1>2, <1>3, ConvertingResumes
  <1>4. CASE EvictDequeue(t)
    <2>1. CASE UNCHANGED th
      BY <1>1, <2>1, ConvertingStill DEF Converting
    <2>. QED BY <1>1, <1>2, <1>4, <2>1, DequeueMoves, ConvertingPassing
  <1>5. CASE PurgeDequeue(t)
    BY <1>1, <1>2, <1>5, PurgeDequeueMoves, ConvertingPassing
  <1>6. CASE PurgeJudge(t)
    BY <1>1, <1>2, <1>6, JudgeMoves, ConvertingPassing
  <1>. QED
    BY <1>3, <1>4, <1>5, <1>6, ReserveMoves, ExhaustedMoves, PurgeMoves,
       PurgeFinishMoves, SetLimitMoves, ResumesIdle
       DEF PinFails, PurgeStep, LimitKept

\* A visit and an insertion create no block.
LEMMA EntriesConverting ==
  ASSUME Types, ContentsInv, Converting, NEW t \in Threads, EvictVisit(t) \/ Enqueue(t)
  PROVE  Converting'
  <1>1. CASE EvictVisit(t)
    <2>1. NoneNew
      BY <1>1, VisitEffect DEF NoneNew
    <2>. QED BY <1>1, <2>1, VisitMoves, ConvertingResumes DEF EvictVisit
  <1>2. CASE Enqueue(t)
    <2>1. th[t].blk \in Blocks
      BY <1>2 DEF Enqueue, At, Types, WellFormed
    <2>2. NoneNew
      BY <1>2, <2>1 DEF Enqueue, NoneNew, Types, MemoryType
    <2>. QED BY <1>2, <2>1, <2>2, InsertMoves, ConvertingResumes DEF Enqueue
  <1>. QED BY <1>1, <1>2

\* A pin, and the end of one, is not of a block in conversion.
LEMMA PinsConverting ==
  ASSUME Types, ContentsInv, Converting, NEW t \in Threads, NEW b \in Blocks,
         pins' = [pins EXCEPT ![t] = @ \cup {b}],
         \A u \in Threads \ {t} : th[u].pc = "convert" =>
            th[u].blk # b /\ mem'[th[u].node[1]].life = "none",
         \/ th' = [th EXCEPT ![t] = Idle]
         \/ UNCHANGED th /\ th[t].pc = "idle"
  PROVE  Converting'
  <1>1. /\ \A u \in Threads \ {t} : pins'[u] = pins[u]
        /\ pins'[t] = pins[t] \cup {b}
    BY DEF Types
  <1>2. CASE th' = [th EXCEPT ![t] = Idle]
    <2>1. WellFormed(Idle) /\ Idle.pc = "idle" /\ Idle.op = "none"
      BY IdleFormed
    <2>2. \A u \in Threads \ {t} : th[u].pc = "convert" => th[u].blk \notin pins'[t]
      BY <1>1 DEF Converting
    <2>3. PICK s : s = Idle
      OBVIOUS
    <2>4. WellFormed(s) /\ th' = [th EXCEPT ![t] = s] /\ s.pc = "idle" /\ s.op = "none"
      BY <1>2, <2>1, <2>3, Zenon
    <2>. QED BY <1>1, <2>2, <2>4, ConvertingKept
  <1>3. CASE UNCHANGED th /\ th[t].pc = "idle"
    BY <1>1, <1>3 DEF Converting
  <1>. QED BY <1>2, <1>3

LEMMA PinConverting ==
  ASSUME Types, ContentsInv, Converting, NEW t \in Threads, NEW b \in Blocks, Pin(t, b)
  PROVE  Converting'
  <1>1. /\ th[t].pc = "idle" /\ mem[b].owned
        /\ \A u \in Threads : th[u].pc = "convert" => th[u].blk # b
    BY DEF Pin, At, Locked
  <1>2. mem[b].life = "live"
    BY <1>1 DEF ContentsInv, Owned
  <1>3. CASE mem[b].loaded /\ Pinned(t, b) /\ UNCHANGED th
    <2>1. /\ \A a \in Blocks \ {b} : mem'[a] = mem[a]
          /\ pins' = [pins EXCEPT ![t] = @ \cup {b}]
      BY <1>3 DEF Pinned, Types
    <2>2. \A u \in Threads \ {t} : th[u].pc = "convert" =>
            mem'[th[u].node[1]].life = "none"
      BY <1>2, <2>1, ConvertingBlocks DEF Converting
    <2>3. \A u \in Threads \ {t} : th[u].pc = "convert" =>
            th[u].blk # b /\ mem'[th[u].node[1]].life = "none"
      BY <1>1, <2>2
    <2>4. UNCHANGED th /\ th[t].pc = "idle"
      BY <1>1, <1>3
    <2>. QED BY <2>1, <2>3, <2>4, PinsConverting, Zenon
  <1>4. CASE ~mem[b].loaded /\ UNCHANGED <<mem, pins>>
             /\ StartEviction(t, "pin", b, Size[b], limit, 0)
    <2>1. PICK s : /\ WellFormed(s) /\ th' = [th EXCEPT ![t] = s]
                   /\ s.pc = "reserve" /\ s.op = "pin" /\ s.blk = b
      BY <1>4, BlockEvictionMoves
    <2>. QED BY <1>1, <1>4, <2>1, ConvertingKept DEF Converting
  <1>. QED BY <1>3, <1>4 DEF Pin

LEMMA PinEndsConverting ==
  ASSUME Types, ContentsInv, Converting, NEW t \in Threads,
         PinLoaded(t) \/ PinLoad(t) \/ Allocated(t)
  PROVE  Converting'
  <1>0. PICK b : b = th[t].blk
    OBVIOUS
  <1>1. /\ b \in Blocks /\ th' = [th EXCEPT ![t] = Idle]
        /\ pins' = [pins EXCEPT ![t] = @ \cup {b}]
        /\ \A a \in Blocks \ {b} : mem'[a] = mem[a]
    BY <1>0 DEF PinLoaded, PinLoad, Allocated, Pinned, Types, WellFormed
  <1>2. \A u \in Threads \ {t} : th[u].pc = "convert" => th[u].blk # b
    <2>1. CASE PinLoaded(t) \/ PinLoad(t)
      BY <1>0, <2>1 DEF PinLoaded, PinLoad, Converting
    <2>2. CASE Allocated(t)
      <3>1. mem[b].life = "none"
        BY <1>0, <2>2 DEF Allocated, ContentsInv, Wanted
      <3>2. \A u \in Threads : th[u].pc = "convert" => mem[th[u].blk].life = "live"
        BY ConvertingBlocks DEF Converting, ContentsInv, Owned
      <3>. QED BY <3>1, <3>2
    <2>. QED BY <2>1, <2>2
  <1>3. \A u \in Threads \ {t} : th[u].pc = "convert" => th[u].node[1] # b
    <2>1. CASE PinLoaded(t) \/ PinLoad(t)
      BY <1>0, <2>1 DEF PinLoaded, PinLoad, Converting, ContentsInv, Wanted, Owned
    <2>2. CASE Allocated(t)
      <3>1. b \in Temporary
        BY <1>0, <2>2 DEF Allocated, ContentsInv, Wanted
      <3>. QED BY <3>1, ConvertingBlocks, PoolAssumption
    <2>. QED BY <2>1, <2>2
  <1>4. \A u \in Threads \ {t} : th[u].pc = "convert" =>
          mem'[th[u].node[1]].life = "none"
    BY <1>1, <1>3, ConvertingBlocks DEF Converting
  <1>. QED BY <1>1, <1>2, <1>4, PinsConverting

LEMMA ReleaseConverting ==
  ASSUME Types, ContentsInv, Converting, NEW t \in Threads, NEW b \in Blocks,
         Release(t, b)
  PROVE  Converting'
  <1>1. /\ b \in pins[t] /\ th[t].pc = "idle"
        /\ pins' = [pins EXCEPT ![t] = @ \ {b}]
    BY DEF Release, At
  <1>2. /\ \A u \in Threads \ {t} : pins'[u] = pins[u]
        /\ pins'[t] \subseteq pins[t]
    BY <1>1 DEF Types
  <1>3. \A u \in Threads \ {t} : th[u].pc = "convert" =>
          th[u].blk # b /\ th[u].blk \notin pins'[t] /\ mem'[th[u].node[1]].life = "none"
    <2>1. /\ mem[b].life = "live" /\ mem'[b].life = "live"
          /\ \A a \in Blocks \ {b} : mem'[a] = mem[a]
      BY UnpinEffect
    <2>. QED BY <1>1, <1>2, <2>1, ConvertingBlocks DEF Converting
  <1>4. CASE UNCHANGED th
    BY <1>1, <1>2, <1>3, <1>4 DEF Converting
  <1>5. CASE \E s : /\ WellFormed(s) /\ th' = [th EXCEPT ![t] = s]
                    /\ s.pc = "enqueue" /\ s.op = "none" /\ s.blk = b
    <2>1. PICK s : /\ WellFormed(s) /\ th' = [th EXCEPT ![t] = s]
                   /\ s.pc = "enqueue" /\ s.op = "none" /\ s.blk = b
      BY <1>5
    <2>2. s.pc # "convert"
      BY <2>1
    <2>. QED BY <1>2, <1>3, <2>1, <2>2, ConvertingKept
  <1>. QED BY <1>4, <1>5, UnpinMoves

\* Handles that come and go, and destructors.
LEMMA HandlesConverting ==
  ASSUME Types, ContentsInv, Converting, NEW t \in Threads, NEW b \in Blocks,
         RegisterBlock(t, b) \/ SetDestroyBufferUpon(t, b) \/ DropHandle(t, b)
  PROVE  Converting'
  <1>1. UNCHANGED <<th, pins>> /\ \A a \in Blocks \ {b} : mem'[a] = mem[a]
    BY DEF RegisterBlock, SetDestroyBufferUpon, DropHandle, Types
  <1>2. CASE RegisterBlock(t, b)
    <2>1. \A u \in Threads : th[u].node[1] # b
      BY <1>2 DEF RegisterBlock
    <2>. QED BY <1>1, <2>1, ConvertingBlocks, ConvertingStill DEF Converting
  <1>3. CASE SetDestroyBufferUpon(t, b) \/ DropHandle(t, b)
    <2>1. mem[b].owned
      BY <1>3 DEF SetDestroyBufferUpon, DropHandle
    <2>2. mem[b].life = "live"
      BY <2>1 DEF ContentsInv, Owned
    <2>. QED BY <1>1, <2>2, ConvertingBlocks, ConvertingStill DEF Converting
  <1>. QED BY <1>2, <1>3

LEMMA DestroyConverting ==
  ASSUME Types, ContentsInv, Converting, NEW t \in Threads, Destroy(t)
  PROVE  Converting'
  <1>0. PICK b : b = dying[t]
    OBVIOUS
  <1>1. /\ b \in Blocks /\ UNCHANGED <<th, pins>> /\ mem[b].life = "live"
        /\ \A a \in Blocks \ {b} : mem'[a] = mem[a]
    BY <1>0 DEF Destroy, Types, ContentsInv, Dying
  <1>. QED BY <1>1, ConvertingBlocks, ConvertingStill DEF Converting

LEMMA AllocateConverting ==
  ASSUME Types, Converting, NEW t \in Threads, NEW b \in Blocks, Allocate(t, b)
  PROVE  Converting'
  <1>1. NoneNew /\ UNCHANGED pins
    BY DEF Allocate, NoneNew
  <1>2. \E s : /\ WellFormed(s) /\ th' = [th EXCEPT ![t] = s]
               /\ s.pc = "reserve" /\ s.op = "allocate"
    BY BlockEvictionMoves DEF Allocate
  <1>. QED BY <1>1, <1>2, ConvertingPassing

LEMMA ConvertConverting ==
  ASSUME Types, ContentsInv, Converting, NEW t \in Threads, NEW b \in Blocks,
         NEW p \in Persistent, ConvertToPersistent(t, b, p)
  PROVE  Converting'
  <1>1. PICK s : /\ WellFormed(s) /\ th' = [th EXCEPT ![t] = s]
                 /\ s.pc = "convert" /\ s.op = "none" /\ s.blk = b
                 /\ s.node = <<p, 0>>
    BY ConvertStarts
  <1>2. th'[t] = s /\ \A u \in Threads \ {t} : th'[u] = th[u]
    BY <1>1, ThreadStep
  <1>3. /\ b \in pins[t] /\ mem[b].readers = 1 /\ mem[p].life = "none"
        /\ Size[b] = Size[p] /\ UNCHANGED pins
        /\ \A u \in Threads : th[u].blk # b /\ th[u].node[1] # p
    BY DEF ConvertToPersistent, Convertible
  <1>4. \A u \in Threads \ {t} : b \notin pins[u]
    <2>1. Pinners(b) = {t}
      BY <1>3, OneReader DEF ContentsInv
    <2>. QED BY <2>1 DEF Pinners
  <1>5. \A a \in Blocks : mem'[a].life = mem[a].life
    <2>1. CASE UNCHANGED mem
      BY <2>1
    <2>2. CASE mem' = [mem EXCEPT ![b].charge = 0]
      BY <2>2 DEF Types, MemoryType
    <2>. QED BY <2>1, <2>2 DEF ConvertToPersistent
  <1>6. p \in Blocks /\ \A u \in Threads : th[u].pc = "convert" => th[u].node[1] \in Blocks
    BY ConvertingBlocks DEF Blocks
  <1>. QED BY <1>1, <1>2, <1>3, <1>4, <1>5, <1>6 DEF Converting

LEMMA ConvertedConverting ==
  ASSUME Types, ContentsInv, Converting, NEW t \in Threads, Converted(t)
  PROVE  Converting'
  <1>0. PICK b, p : b = th[t].blk /\ p = th[t].node[1]
    OBVIOUS
  <1>1. /\ b \in Temporary /\ p \in Persistent /\ mem[b].life = "live"
        /\ \A a \in Blocks \ {b, p} : mem'[a] = mem[a]
    BY <1>0, ConvertedEffect
  <1>2. th[t].pc = "convert" /\ pins' = [pins EXCEPT ![t] = @ \ {b}]
    BY <1>0 DEF Converted, At
  <1>3. /\ \A u \in Threads \ {t} : pins'[u] = pins[u]
        /\ pins'[t] \subseteq pins[t]
    BY <1>2 DEF Types
  <1>4. PICK s : /\ WellFormed(s) /\ th' = [th EXCEPT ![t] = s]
                 /\ s.pc = "enqueue" /\ s.op = "none" /\ s.blk = p
    BY <1>0, ConvertedMoves
  <1>5. \A u \in Threads \ {t} : th[u].pc = "convert" =>
          /\ th[u].blk \notin pins'[t] /\ th[u].blk # p
          /\ mem'[th[u].node[1]].life = "none"
    BY <1>0, <1>1, <1>2, <1>3, ConvertingBlocks, PoolAssumption DEF Converting
  <1>. QED BY <1>3, <1>4, <1>5, ConvertingKept

\* Every step keeps Converting.
LEMMA ConvertingStep == Types /\ ContentsInv /\ Converting /\ [Next]_vars => Converting'
  <1>. SUFFICES ASSUME Types, ContentsInv, Converting, [Next]_vars PROVE Converting'
    OBVIOUS
  <1>1. CASE UNCHANGED vars
    BY <1>1, ConvertingStill DEF vars, Converting
  <1>2. CASE SetTemporaryDirectory
    BY <1>2, ConvertingStill DEF SetTemporaryDirectory, Converting
  <1>3. ASSUME NEW t \in Threads, Evict(t) \/ PinEnds(t) \/ PurgeStep(t)
        PROVE  Converting'
    BY <1>3, ConvertingThreadSteps, EntriesConverting, PinEndsConverting
       DEF Evict, PinEnds
  <1>4. ASSUME NEW t \in Threads,
               \/ Allocated(t) \/ Enqueue(t) \/ Destroy(t) \/ Converted(t)
               \/ SetLimit(t) \/ LimitChanged(t) \/ LimitKept(t)
        PROVE  Converting'
    BY <1>4, PinEndsConverting, EntriesConverting, DestroyConverting,
       ConvertedConverting, ConvertingThreadSteps
  <1>5. ASSUME NEW t \in Threads, NEW b \in Blocks,
               \/ RegisterBlock(t, b) \/ Allocate(t, b) \/ Pin(t, b)
               \/ Unpin(t, b) \/ SetDestroyBufferUpon(t, b) \/ DropHandle(t, b)
               \/ \E p \in Persistent : \/ ConvertToPersistent(t, b, p)
                                        \/ ConvertFails(t, b, p)
        PROVE  Converting'
    BY <1>5, HandlesConverting, AllocateConverting, PinConverting, ReleaseConverting,
       ConvertConverting DEF Unpin, ConvertFails
  <1>. QED
    BY <1>1, <1>2, <1>3, <1>4, <1>5 DEF Next

-----------------------------------------------------------------------------
(* The invariant at the start, and what follows from it *)

\* ContentsInv is strong enough.
LEMMA ContentsFollow == Types /\ ContentsInv => ContentsKept
  <1>. SUFFICES ASSUME Types, ContentsInv PROVE ContentsKept
    OBVIOUS
  <1>1. \A t \in Threads : pins[t] \subseteq Blocks
    BY DEF Types
  <1>2. \A t \in Threads : \A b \in pins[t] : mem[b].loaded /\ Alive(b)
    BY <1>1 DEF ContentsInv, Owned, Alive
  <1>. QED BY <1>2 DEF ContentsInv, Spilled, ContentsKept

\* The invariant holds initially.
LEMMA PoolInit == Init => Types /\ ContentsInv /\ Converting /\ QueueInv
  <1>. SUFFICES ASSUME Init PROVE Types /\ ContentsInv /\ Converting /\ QueueInv
    OBVIOUS
  <1>1. Absent \in MemoryType /\ Absent.life = "none" /\ ~Absent.owned
    BY DEF Absent, MemoryType, Lives, Upons
  <1>2. limit \in Nat
    BY LimitsHaveMax DEF Init
  <1>3. \A q \in 1..3 : queues[q] = {}
    BY DEF Init
  <1>4. \A b \in Blocks : mem[b] = Absent
    BY DEF Init
  <1>5. \A t \in Threads : th[t] = Idle /\ pins[t] = {} /\ dying[t] = NoBlock
    BY DEF Init
  <1>6. Types
    <2>1. Idle \in ThreadType
      BY IdleFormed DEF WellFormed
    <2>. QED BY <1>1, <1>2, <1>3, <1>5, <2>1, IdleFormed, FS_EmptySet DEF Init, Types
  <1>7. spilled = {}
    BY DEF Init
  <1>8. ContentsInv
    <2>1. Temporary \subseteq Blocks
      BY DEF Blocks
    <2>2. Owned
      BY <1>1, <1>4, <1>5 DEF Owned
    <2>3. Dying
      BY <1>5, IdleFormed DEF Dying
    <2>4. Wanted
      BY <1>5, IdleFormed DEF Wanted
    <2>5. Spilled
      BY <1>1, <1>4, <1>7, <2>1 DEF Spilled
    <2>. QED BY <2>2, <2>3, <2>4, <2>5 DEF ContentsInv
  <1>9. QueueInv
    <2>1. EntriesApart /\ EntriesMade
      BY <1>3, <1>5, IdleFormed DEF EntriesApart, EntriesMade
    <2>2. EvictableQueued
      BY <1>1, <1>4 DEF EvictableQueued
    <2>. QED BY <2>1, <2>2 DEF QueueInv
  <1>10. Converting
    BY <1>5, IdleFormed DEF Converting
  <1>. QED BY <1>6, <1>8, <1>9, <1>10

-----------------------------------------------------------------------------
(* Queue entries: <action>Queue says that the action keeps QueueInv *)

\* The entry n is in one of the queues qs or in the hands of a thread of ts.
HeldIn(n, qs, ts) == \/ \E q \in 1..3 : n \in qs[q]
                     \/ \E t \in Threads : n \in InHand(ts[t])

\* EvictableQueued for one block.
Evictable(b) ==
    mem[b].life = "live" =>
        /\ Alive(b) => (mem[b].entry <=> HeldIn(<<b, mem[b].seq>>, queues, th))
        /\ mem[b].loaded /\ mem[b].readers = 0 => mem[b].entry \/ Locked(b)

\* Entries is what the queues and the threads hold.
LEMMA EntriesHeld == \A n : n \in Entries <=> HeldIn(n, queues, th)
  <1>. SUFFICES ASSUME NEW n PROVE n \in Entries <=> HeldIn(n, queues, th)
    OBVIOUS
  <1>. DEFINE A == UNION {queues[q] : q \in 1..3}
              B == UNION {th[t].batch \cup th[t].alive : t \in Threads}
              C == {th[t].node : t \in {u \in Threads : th[u].pc = "visit"}}
  <1>1. n \in A <=> \E q \in 1..3 : n \in queues[q]
    OBVIOUS
  <1>2. n \in B <=> \E t \in Threads : n \in th[t].batch \cup th[t].alive
    OBVIOUS
  <1>3. n \in C <=> \E t \in Threads : th[t].pc = "visit" /\ n = th[t].node
    OBVIOUS
  <1>4. \A t \in Threads : n \in InHand(th[t]) <=>
          (n \in th[t].batch \cup th[t].alive) \/ (th[t].pc = "visit" /\ n = th[t].node)
    BY DEF InHand
  <1>5. Entries = (A \cup B) \cup C
    BY DEF Entries
  <1>. HIDE DEF A, B, C
  <1>. QED BY <1>1, <1>2, <1>3, <1>4, <1>5 DEF HeldIn

\* EvictableQueued, block by block.
LEMMA EvictableIs == EvictableQueued <=> \A b \in Blocks : Evictable(b)
  BY EntriesHeld DEF EvictableQueued, Evictable, Node

\* The same, after the step.
LEMMA EvictableIsPrimed ==
  EvictableQueued' <=> (\A b \in Blocks : Evictable(b))'
  BY EvictableIs, PTL

\* A step moves no entry.
EntriesKept ==
    /\ \A q \in 1..3 : queues'[q] = queues[q]
    /\ \A u \in Threads : InHand(th'[u]) = InHand(th[u])

\* A step that moves no entry changes nothing about who holds it.
LEMMA HeldKept ==
  ASSUME EntriesKept
  PROVE  \A n : HeldIn(n, queues', th') <=> HeldIn(n, queues, th)
  BY DEF HeldIn, EntriesKept

\* Queues and threads hold nodes.
LEMMA EntriesAreNodes ==
  ASSUME Types
  PROVE  /\ \A q \in 1..3 : queues[q] \subseteq Nodes
         /\ \A u \in Threads : InHand(th[u]) \subseteq Nodes
  <1>1. \A q \in 1..3 : queues[q] \subseteq Nodes
    BY DEF Types
  <1>2. ASSUME NEW u \in Threads PROVE InHand(th[u]) \subseteq Nodes
    <2>1. th[u] \in ThreadType /\ WellFormed(th[u])
      BY DEF Types
    <2>2. th[u].pc = "visit" => th[u].node \in Nodes
      BY <2>1 DEF WellFormed, ThreadType, Nodes
    <2>3. th[u].batch \subseteq Nodes /\ th[u].alive \subseteq Nodes
      BY <2>1 DEF ThreadType
    <2>. QED BY <2>2, <2>3 DEF InHand
  <1>. QED BY <1>1, <1>2

\* An entry that is held was made for its block.
LEMMA HeldMade ==
  ASSUME EntriesMade, NEW n, HeldIn(n, queues, th)
  PROVE  Made(n)
  BY DEF EntriesMade, HeldIn

\* Steps that move no entry and rewrite no block's sequence number.
LEMMA QueueKept ==
  ASSUME Types, QueueInv, EntriesKept,
         \A a \in Blocks : mem[a].life # "none" =>
            mem'[a].life # "none" /\ mem'[a].seq = mem[a].seq,
         \A a \in Blocks : Evictable(a)'
  PROVE  QueueInv'
  <1>1. EntriesApart'
    BY DEF QueueInv, EntriesApart, EntriesKept
  <1>3. \A n \in Nodes : Made(n) => Made(n)'
    BY DEF Made, Nodes
  <1>4. EntriesMade'
    BY EntriesAreNodes, <1>3 DEF QueueInv, EntriesMade, EntriesKept
  <1>5. EvictableQueued'
    BY EvictableIsPrimed
  <1>. QED BY <1>1, <1>4, <1>5 DEF QueueInv

\* A block whose entry the step leaves alone.
LEMMA EvictableKept ==
  ASSUME EntriesKept, NEW a \in Blocks, Evictable(a),
         mem'[a].seq = mem[a].seq, mem'[a].entry <=> mem[a].entry,
         mem'[a].life = "live" => mem[a].life = "live",
         Alive(a)' => Alive(a),
         mem'[a].life = "live" /\ mem'[a].loaded /\ mem'[a].readers = 0 =>
            \/ mem[a].loaded /\ mem[a].readers = 0 /\ (Locked(a) => Locked(a)')
            \/ Locked(a)'
  PROVE  Evictable(a)'
  <1>1. HeldIn(<<a, mem'[a].seq>>, queues', th') <=> HeldIn(<<a, mem[a].seq>>, queues, th)
    BY HeldKept
  <1>. QED BY <1>1 DEF Evictable

\* A new block has no entry.
LEMMA EvictableNew ==
  ASSUME EntriesKept, EntriesMade, NEW a \in Blocks, mem[a].life = "none",
         ~mem'[a].entry, mem'[a].loaded /\ mem'[a].readers = 0 => Locked(a)'
  PROVE  Evictable(a)'
  <1>1. ~HeldIn(<<a, mem'[a].seq>>, queues', th')
    <2>. DEFINE n == <<a, mem'[a].seq>>
    <2>1. n[1] = a
      OBVIOUS
    <2>2. HeldIn(n, queues', th') => HeldIn(n, queues, th)
      BY HeldKept
    <2>. HIDE DEF n
    <2>3. ~HeldIn(n, queues, th)
      BY <2>1, HeldMade DEF Made
    <2>. QED BY <2>2, <2>3 DEF n
  <1>. QED BY <1>1 DEF Evictable

\* Only a thread that visits or judges holds entries.
LEMMA EmptyHands ==
  ASSUME Types, NEW t \in Threads, th[t].pc \notin {"visit", "judge"}
  PROVE  InHand(th[t]) = {}
  BY DEF Types, WellFormed, InHand

\* A step of a thread with empty hands moves no entry.
LEMMA HandsKept ==
  ASSUME Types, UNCHANGED queues, NEW t \in Threads, NEW s, WellFormed(s),
         th' = [th EXCEPT ![t] = s], InHand(s) = {},
         th[t].pc \notin {"visit", "judge"}
  PROVE  EntriesKept
  <1>1. th'[t] = s /\ \A u \in Threads \ {t} : th'[u] = th[u]
    BY ThreadStep
  <1>. QED BY <1>1, EmptyHands DEF EntriesKept

\* Only the ends of AddToEvictionQueue and of a conversion release a lock that
\* is held across steps.
LEMMA LockedKept ==
  ASSUME Types, NEW t \in Threads, NEW s, WellFormed(s),
         th' = [th EXCEPT ![t] = s], th[t].pc \notin {"enqueue", "convert"},
         NEW a, Locked(a)
  PROVE  Locked(a)'
  <1>1. \A u \in Threads \ {t} : th'[u] = th[u]
    BY ThreadStep
  <1>. QED BY <1>1 DEF Locked

\* Steps of a thread with empty hands that change no block.
LEMMA QueuePassing ==
  ASSUME Types, QueueInv, UNCHANGED <<mem, dying, queues>>,
         NEW t \in Threads, NEW s, WellFormed(s), th' = [th EXCEPT ![t] = s],
         InHand(s) = {}, th[t].pc \notin {"visit", "judge", "enqueue", "convert"}
  PROVE  QueueInv'
  <1>1. EntriesKept
    BY HandsKept
  <1>2. ASSUME NEW a \in Blocks PROVE Evictable(a)'
    <2>1. Evictable(a)
      BY EvictableIs DEF QueueInv
    <2>2. Alive(a)' => Alive(a)
      BY DEF Alive
    <2>3. Locked(a) => Locked(a)'
      BY LockedKept
    <2>. QED BY <1>1, <2>1, <2>2, <2>3, EvictableKept
  <1>. QED BY <1>1, <1>2, QueueKept

\* Steps that change nothing QueueInv speaks of.
LEMMA QueueUnchanged ==
  ASSUME QueueInv, UNCHANGED <<mem, dying, queues, th>>
  PROVE  QueueInv'
  <1>1. EntriesApart' /\ EntriesMade'
    BY DEF QueueInv, EntriesApart, EntriesMade, Made
  <1>2. EvictableQueued'
    BY DEF QueueInv, EvictableQueued, Alive, Node, Locked, Entries
  <1>. QED BY <1>1, <1>2 DEF QueueInv

LEMMA QueueResumes ==
  ASSUME Types, QueueInv, UNCHANGED <<mem, dying, queues>>,
         NEW t \in Threads, \E s : Resumes(t, s),
         th[t].pc \notin {"visit", "judge", "enqueue", "convert"}
  PROVE  QueueInv'
  <1>1. PICK s : Resumes(t, s)
    OBVIOUS
  <1>2. InHand(s) = {} /\ WellFormed(s) /\ th' = [th EXCEPT ![t] = s]
    BY <1>1, ResumesNothing DEF Resumes
  <1>. QED BY <1>2, QueuePassing

\* Reservations, queues that are exhausted, limits, a pin that fails and a
\* purge that starts.
LEMMA QueueThreadSteps ==
  ASSUME Types, QueueInv, NEW t \in Threads,
         \/ EvictReserve(t) \/ EvictExhausted(t) \/ PinFails(t) \/ Purge(t)
         \/ SetLimit(t) \/ LimitChanged(t) \/ LimitKept(t)
  PROVE  QueueInv'
  <1>1. UNCHANGED <<mem, dying, queues>>
    BY DEF EvictReserve, EvictExhausted, PinFails, Purge, SetLimit, LimitChanged,
           LimitKept, poolVars
  <1>2. th[t].pc \notin {"visit", "judge", "enqueue", "convert"}
    BY DEF EvictReserve, EvictExhausted, PinFails, Purge, SetLimit, LimitChanged,
           LimitKept, At
  <1>3. \E s : Resumes(t, s)
    BY ReserveMoves, ExhaustedMoves, PurgeMoves, SetLimitMoves, ResumesIdle
       DEF PinFails, LimitKept
  <1>. QED BY <1>1, <1>2, <1>3, QueueResumes

\* An eviction for a block starts.
LEMMA QueueStarts ==
  ASSUME Types, QueueInv, NEW t \in Threads, NEW b \in Blocks,
         NEW op \in {"pin", "allocate"}, UNCHANGED <<mem, dying, queues>>,
         th[t].pc = "idle", StartEviction(t, op, b, Size[b], limit, 0)
  PROVE  QueueInv'
  <1>1. PICK s : /\ WellFormed(s) /\ th' = [th EXCEPT ![t] = s]
                 /\ s.pc = "reserve" /\ s.op = op /\ s.blk = b
    BY BlockEvictionMoves
  <1>2. InHand(s) = {}
    BY <1>1 DEF InHand, WellFormed
  <1>. QED BY <1>1, <1>2, QueuePassing

LEMMA AllocateQueue ==
  ASSUME Types, QueueInv, NEW t \in Threads, NEW b \in Blocks, Allocate(t, b)
  PROVE  QueueInv'
  BY QueueStarts DEF Allocate, At, poolVars

\* Steps that change one block and move no entry.
LEMMA QueueOneBlock ==
  ASSUME Types, QueueInv, EntriesKept, NEW b \in Blocks,
         \A a \in Blocks \ {b} : mem'[a] = mem[a],
         \A a \in Blocks \ {b} : (Alive(a)' => Alive(a)) /\ (Locked(a) => Locked(a)'),
         mem[b].life # "none" => mem'[b].life # "none" /\ mem'[b].seq = mem[b].seq,
         Evictable(b)'
  PROVE  QueueInv'
  <1>1. ASSUME NEW a \in Blocks, a # b PROVE Evictable(a)'
    <2>1. Evictable(a) /\ mem'[a] = mem[a]
      BY <1>1, EvictableIs DEF QueueInv
    <2>. QED BY <1>1, <2>1, EvictableKept
  <1>2. \A a \in Blocks : Evictable(a)'
    BY <1>1
  <1>3. \A a \in Blocks : mem[a].life # "none" =>
            mem'[a].life # "none" /\ mem'[a].seq = mem[a].seq
    OBVIOUS
  <1>. QED BY <1>2, <1>3, QueueKept

LEMMA RegisterQueue ==
  ASSUME Types, ContentsInv, QueueInv, NEW t \in Threads, NEW b \in Blocks,
         RegisterBlock(t, b)
  PROVE  QueueInv'
  <1>1. mem[b].life = "none" /\ UNCHANGED <<queues, dying, th>>
    BY DEF RegisterBlock, poolVars
  <1>2. \A a \in Blocks \ {b} : mem'[a] = mem[a]
    BY DEF RegisterBlock, Types
  <1>3. ~mem'[b].entry /\ ~mem'[b].loaded
    <2>1. mem[b] = Absent
      BY <1>1 DEF ContentsInv, Owned
    <2>2. mem'[b] = [Absent EXCEPT !.life = "live", !.owned = TRUE]
      BY <2>1 DEF RegisterBlock, Types
    <2>. QED BY <2>2 DEF Absent
  <1>4. EntriesKept
    BY <1>1 DEF EntriesKept
  <1>5. Evictable(b)'
    BY <1>1, <1>3, <1>4, EvictableNew DEF QueueInv
  <1>6. \A a \in Blocks \ {b} : (Alive(a)' => Alive(a)) /\ (Locked(a) => Locked(a)')
    BY <1>1, <1>2 DEF Alive, Locked
  <1>. QED BY <1>1, <1>2, <1>4, <1>5, <1>6, QueueOneBlock

LEMMA AllocatedQueue ==
  ASSUME Types, ContentsInv, QueueInv, NEW t \in Threads, Allocated(t)
  PROVE  QueueInv'
  <1>0. PICK b : b = th[t].blk
    OBVIOUS
  <1>1. b \in Blocks /\ mem[b].life = "none" /\ UNCHANGED <<queues, dying>>
    BY <1>0 DEF Allocated, ContentsInv, Wanted, Blocks, poolVars
  <1>2. \A a \in Blocks \ {b} : mem'[a] = mem[a]
    BY <1>0 DEF Allocated, Types
  <1>3. ~mem'[b].entry /\ mem'[b].readers = 1
    <2>1. mem'[b] = [Absent EXCEPT !.life = "live", !.owned = TRUE,
                                   !.loaded = TRUE, !.readers = 1,
                                   !.charge = th[t].res,
                                   !.upon = IF b \in CanDestroy THEN "EVICTION"
                                            ELSE "BLOCK"]
      BY <1>0, <1>1 DEF Allocated, Types
    <2>. QED BY <2>1 DEF Absent
  <1>4. th[t].pc = "granted" /\ th' = [th EXCEPT ![t] = Idle]
    BY DEF Allocated, At
  <1>5. EntriesKept
    BY <1>1, <1>4, IdleFormed, HandsKept
  <1>6. Evictable(b)'
    BY <1>1, <1>3, <1>5, EvictableNew DEF QueueInv
  <1>7. \A a \in Blocks \ {b} : (Alive(a)' => Alive(a)) /\ (Locked(a) => Locked(a)')
    BY <1>1, <1>2, <1>4, LockedKept, IdleFormed DEF Alive
  <1>. QED BY <1>1, <1>2, <1>5, <1>6, <1>7, QueueOneBlock

\* A block is pinned: it has a reader, which keeps it from being evicted.
LEMMA QueuePinned ==
  ASSUME Types, QueueInv, EntriesKept, UNCHANGED dying, NEW b \in Blocks,
         \A a \in Blocks \ {b} : mem'[a] = mem[a],
         \A a \in Blocks : Locked(a) => Locked(a)',
         mem'[b].life = mem[b].life, mem'[b].seq = mem[b].seq,
         mem'[b].entry <=> mem[b].entry, mem'[b].readers # 0
  PROVE  QueueInv'
  <1>1. \A a \in Blocks : Alive(a)' => Alive(a)
    BY DEF Alive
  <1>2. Evictable(b)
    BY EvictableIs DEF QueueInv
  <1>3. Evictable(b)'
    BY <1>1, <1>2, EvictableKept
  <1>. QED BY <1>1, <1>3, QueueOneBlock

LEMMA PinnedQueue ==
  ASSUME Types, QueueInv, EntriesKept, UNCHANGED dying, NEW b \in Blocks, NEW t,
         Pinned(t, b), \A a \in Blocks : Locked(a) => Locked(a)'
  PROVE  QueueInv'
  <1>1. \A a \in Blocks \ {b} : mem'[a] = mem[a]
    BY DEF Pinned, Types
  <1>2. /\ mem'[b].life = mem[b].life /\ mem'[b].seq = mem[b].seq
        /\ mem'[b].entry <=> mem[b].entry
        /\ mem'[b].readers # 0
    <2>1. mem'[b] = [mem[b] EXCEPT !.readers = @ + 1] /\ mem[b] \in MemoryType
      BY DEF Pinned, Types
    <2>. QED BY <2>1 DEF MemoryType
  <1>. QED BY <1>1, <1>2, QueuePinned

LEMMA PinQueue ==
  ASSUME Types, QueueInv, NEW t \in Threads, NEW b \in Blocks, Pin(t, b)
  PROVE  QueueInv'
  <1>1. UNCHANGED <<queues, dying>> /\ th[t].pc = "idle"
    BY DEF Pin, poolVars, At
  <1>2. CASE Pinned(t, b) /\ UNCHANGED th
    <2>1. EntriesKept /\ \A a \in Blocks : Locked(a) => Locked(a)'
      BY <1>1, <1>2 DEF EntriesKept, Locked
    <2>. QED BY <1>1, <1>2, <2>1, PinnedQueue
  <1>3. CASE UNCHANGED <<mem, pins>> /\ StartEviction(t, "pin", b, Size[b], limit, 0)
    BY <1>1, <1>3, QueueStarts
  <1>. QED BY <1>2, <1>3 DEF Pin

LEMMA PinLoadedQueue ==
  ASSUME Types, QueueInv, NEW t \in Threads, PinLoaded(t)
  PROVE  QueueInv'
  <1>1. /\ UNCHANGED <<queues, dying>> /\ th[t].pc = "granted" /\ th[t].op = "pin"
        /\ th' = [th EXCEPT ![t] = Idle] /\ Pinned(t, th[t].blk)
    BY DEF PinLoaded, At
  <1>2. th[t].blk \in Blocks
    BY <1>1 DEF Types, WellFormed
  <1>3. EntriesKept /\ \A a \in Blocks : Locked(a) => Locked(a)'
    BY <1>1, IdleFormed, HandsKept, LockedKept
  <1>. QED BY <1>1, <1>2, <1>3, PinnedQueue

LEMMA PinLoadQueue ==
  ASSUME Types, QueueInv, NEW t \in Threads, PinLoad(t)
  PROVE  QueueInv'
  <1>0. PICK b : b = th[t].blk
    OBVIOUS
  <1>1. /\ UNCHANGED <<queues, dying>> /\ th[t].pc = "granted" /\ th[t].op = "pin"
        /\ th' = [th EXCEPT ![t] = Idle]
        /\ mem' = [mem EXCEPT ![b].loaded = TRUE, ![b].readers = 1, ![b].charge = th[t].res]
    BY <1>0 DEF PinLoad, At, poolVars
  <1>2. b \in Blocks
    BY <1>0, <1>1 DEF Types, WellFormed
  <1>3. EntriesKept /\ \A a \in Blocks : Locked(a) => Locked(a)'
    BY <1>1, IdleFormed, HandsKept, LockedKept
  <1>4. \A a \in Blocks \ {b} : mem'[a] = mem[a]
    BY <1>1 DEF Types
  <1>5. /\ mem'[b].life = mem[b].life /\ mem'[b].seq = mem[b].seq
        /\ mem'[b].entry <=> mem[b].entry
        /\ mem'[b].readers # 0
    <2>1. /\ mem'[b] = [mem[b] EXCEPT !.loaded = TRUE, !.readers = 1, !.charge = th[t].res]
          /\ mem[b] \in MemoryType
      BY <1>1, <1>2 DEF Types
    <2>. QED BY <2>1 DEF MemoryType
  <1>. QED BY <1>1, <1>2, <1>3, <1>4, <1>5, QueuePinned

\* The last unpin locks the block until its entry is published.
LEMMA UnpinQueue ==
  ASSUME Types, ContentsInv, QueueInv, NEW t \in Threads, NEW b \in Blocks,
         Release(t, b)
  PROVE  QueueInv'
  <1>1. UNCHANGED <<queues, dying>> /\ th[t].pc = "idle" /\ ~Locked(b)
    BY DEF Release, At
  <1>2. /\ mem[b].life = "live" /\ mem[b].readers > 0 /\ mem[b].readers \in Nat
        /\ \A a \in Blocks \ {b} : mem'[a] = mem[a]
        /\ mem'[b].life = "live" /\ mem'[b].readers = mem[b].readers - 1
        /\ mem'[b].seq = mem[b].seq /\ mem'[b].entry = mem[b].entry
    BY UnpinEffect DEF Types, MemoryType
  <1>3. EntriesKept /\ \A a \in Blocks : Locked(a) => Locked(a)'
    <2>1. CASE UNCHANGED th
      BY <1>1, <2>1 DEF EntriesKept, Locked
    <2>2. CASE \E s : /\ WellFormed(s) /\ th' = [th EXCEPT ![t] = s]
                      /\ s.pc = "enqueue" /\ s.blk = b /\ InHand(s) = {}
      BY <1>1, <2>2, HandsKept, LockedKept
    <2>. QED BY <2>1, <2>2, UnpinMoves
  <1>4. \A a \in Blocks : Alive(a)' => Alive(a)
    BY <1>1, <1>2 DEF Alive
  <1>5. mem'[b].loaded /\ mem'[b].readers = 0 => Locked(b)'
    <2>1. CASE UNCHANGED th /\ (mem[b].readers > 1 \/ ~mem'[b].loaded)
      BY <1>2, <2>1
    <2>2. CASE \E s : /\ WellFormed(s) /\ th' = [th EXCEPT ![t] = s]
                      /\ s.pc = "enqueue" /\ s.blk = b
      BY <2>2, ThreadStep DEF Locked
    <2>3. UNCHANGED th => mem[b].readers > 1 \/ ~mem'[b].loaded
      <3>1. CASE mem[b].readers > 1
        BY <3>1
      <3>2. CASE th' = [th EXCEPT ![t].pc = "enqueue", ![t].blk = b]
        <4>0. th[t].pc = "idle"
          BY <1>1
        <4>1. \E s : /\ WellFormed(s) /\ th' = [th EXCEPT ![t] = s]
                     /\ s.pc = "enqueue" /\ s.op = "none" /\ s.blk = b /\ InHand(s) = {}
          BY <3>2, <4>0, EnqueueStarts
        <4>2. th'[t].pc = "enqueue"
          BY <4>1, ThreadStep
        <4>. QED BY <1>1, <4>2
      <3>3. CASE mem' = [[mem EXCEPT ![b].readers = @ - 1] EXCEPT ![b] = Unloaded(@)]
        <4>1. mem'[b] = Unloaded([mem[b] EXCEPT !.readers = @ - 1]) /\ mem[b] \in MemoryType
          BY <3>3 DEF Types
        <4>. QED BY <4>1 DEF MemoryType, Unloaded
      <3>. QED BY <3>1, <3>2, <3>3 DEF Release
    <2>. QED BY <2>1, <2>2, <2>3, UnpinMoves
  <1>6. Evictable(b)
    BY EvictableIs DEF QueueInv
  <1>7. Evictable(b)'
    BY <1>2, <1>3, <1>4, <1>5, <1>6, EvictableKept
  <1>. QED BY <1>2, <1>3, <1>4, <1>7, QueueOneBlock

LEMMA SetDestroyQueue ==
  ASSUME Types, QueueInv, NEW t \in Threads, NEW b \in Blocks,
         SetDestroyBufferUpon(t, b)
  PROVE  QueueInv'
  <1>1. UNCHANGED <<queues, dying, th>>
    BY DEF SetDestroyBufferUpon, poolVars
  <1>2. \A a \in Blocks \ {b} : mem'[a] = mem[a]
    BY DEF SetDestroyBufferUpon, Types
  <1>3. /\ mem'[b].life = mem[b].life /\ mem'[b].seq = mem[b].seq
        /\ mem'[b].entry <=> mem[b].entry
        /\ mem'[b].loaded <=> mem[b].loaded
        /\ mem'[b].readers = mem[b].readers
    <2>1. /\ mem'[b] = [mem[b] EXCEPT !.upon = IF b \in Temporary THEN "UNPIN"
                                               ELSE "EVICTION"]
          /\ mem[b] \in MemoryType
      BY DEF SetDestroyBufferUpon, Types
    <2>. QED BY <2>1 DEF MemoryType
  <1>4. EntriesKept /\ \A a \in Blocks : (Alive(a)' => Alive(a)) /\ (Locked(a) => Locked(a)')
    BY <1>1, <1>2, <1>3 DEF EntriesKept, Alive, Locked
  <1>5. Evictable(b)
    BY EvictableIs DEF QueueInv
  <1>6. Evictable(b)'
    BY <1>3, <1>4, <1>5, EvictableKept
  <1>. QED BY <1>2, <1>3, <1>4, <1>6, QueueOneBlock

LEMMA DropHandleQueue ==
  ASSUME Types, ContentsInv, QueueInv, NEW t \in Threads, NEW b \in Blocks,
         DropHandle(t, b)
  PROVE  QueueInv'
  <1>1. UNCHANGED <<queues, th>> /\ dying[t] = NoBlock
    BY DEF DropHandle, poolVars, At
  <1>2. \A a \in Blocks \ {b} : mem'[a] = mem[a]
    BY DEF DropHandle, Types
  <1>3. /\ mem'[b].life = mem[b].life /\ mem'[b].seq = mem[b].seq
        /\ mem'[b].entry <=> mem[b].entry
        /\ mem'[b].loaded <=> mem[b].loaded
        /\ mem'[b].readers = mem[b].readers
    <2>1. mem'[b] = [mem[b] EXCEPT !.owned = FALSE] /\ mem[b] \in MemoryType
      BY DEF DropHandle, Types
    <2>. QED BY <2>1 DEF MemoryType
  <1>4. dying' = dying \/ dying' = [dying EXCEPT ![t] = b]
    BY DEF DropHandle, DropReference
  <1>5. \A a \in Blocks : Alive(a)' => Alive(a)
    <2>1. \A a \in Blocks : mem'[a].life = mem[a].life
      BY <1>2, <1>3
    <2>2. \A a \in Blocks, u \in Threads : dying[u] = a => dying'[u] = a
      BY <1>1, <1>4, PoolAssumption DEF Types
    <2>. QED BY <2>1, <2>2 DEF Alive
  <1>6. EntriesKept /\ \A a \in Blocks : Locked(a) => Locked(a)'
    BY <1>1 DEF EntriesKept, Locked
  <1>7. Evictable(b)
    BY EvictableIs DEF QueueInv
  <1>8. Evictable(b)'
    BY <1>3, <1>5, <1>6, <1>7, EvictableKept
  <1>. QED BY <1>2, <1>3, <1>5, <1>6, <1>8, QueueOneBlock

LEMMA DestroyQueue ==
  ASSUME Types, QueueInv, NEW t \in Threads, Destroy(t)
  PROVE  QueueInv'
  <1>0. PICK b : b = dying[t]
    OBVIOUS
  <1>1. b \in Blocks /\ UNCHANGED <<queues, th>> /\ dying' = [dying EXCEPT ![t] = NoBlock]
    BY <1>0 DEF Destroy, Types
  <1>2. \A a \in Blocks \ {b} : mem'[a] = mem[a]
    BY <1>0 DEF Destroy, Types
  <1>3. mem'[b].life = "gone" /\ mem'[b].seq = mem[b].seq
    <2>1. mem'[b] = [Unloaded(mem[b]) EXCEPT !.life = "gone"] /\ mem[b] \in MemoryType
      BY <1>0, <1>1 DEF Destroy, Types
    <2>. QED BY <2>1 DEF MemoryType, Unloaded
  <1>4. \A a \in Blocks \ {b} : Alive(a)' => Alive(a)
    <2>1. \A a \in Blocks \ {b}, u \in Threads : dying[u] = a => dying'[u] = a
      BY <1>0, <1>1 DEF Types
    <2>. QED BY <1>2, <2>1 DEF Alive
  <1>5. EntriesKept /\ \A a \in Blocks : Locked(a) => Locked(a)'
    BY <1>1 DEF EntriesKept, Locked
  <1>6. Evictable(b)'
    BY <1>3 DEF Evictable
  <1>. QED BY <1>1, <1>2, <1>3, <1>4, <1>5, <1>6, QueueOneBlock

\* Thread t and queue q exchange entries, or lose some; t goes on as s.
Exchange(t, q, s) ==
    /\ q \in 1..3 /\ WellFormed(s) /\ th' = [th EXCEPT ![t] = s]
    /\ \A r \in 1..3 : r # q => queues'[r] = queues[r]
    /\ queues'[q] \cup InHand(s) \subseteq queues[q] \cup InHand(th[t])
    /\ queues'[q] \cap InHand(s) = {}

\* An exchange leaves every entry in one place, and those that t and q had are
\* the only ones that can be lost.
LEMMA ExchangeApart ==
  ASSUME Types, EntriesApart, NEW t \in Threads, NEW q, NEW s, Exchange(t, q, s)
  PROVE  /\ EntriesApart'
         /\ \A n : HeldIn(n, queues', th') <=>
              /\ HeldIn(n, queues, th)
              /\ n \in queues[q] \cup InHand(th[t]) => n \in queues'[q] \cup InHand(s)
  <1>1. th'[t] = s /\ \A u \in Threads \ {t} : th'[u] = th[u]
    BY ThreadStep DEF Exchange
  <1>2. /\ q \in 1..3 /\ \A r \in 1..3 : r # q => queues'[r] = queues[r]
        /\ queues'[q] \cup InHand(s) \subseteq queues[q] \cup InHand(th[t])
        /\ queues'[q] \cap InHand(s) = {}
    BY DEF Exchange
  <1>3. /\ \A r \in 1..3 : r # q => \A n \in queues[r] : n \notin queues[q] \cup InHand(th[t])
        /\ \A u \in Threads : u # t => \A n \in InHand(th[u]) : n \notin queues[q] \cup InHand(th[t])
    BY <1>2 DEF EntriesApart
  <1>4. EntriesApart'
    <2>1. \A r, w \in 1..3 : r # w => queues'[r] \cap queues'[w] = {}
      BY <1>2, <1>3 DEF EntriesApart
    <2>2. \A r \in 1..3, u \in Threads : queues'[r] \cap InHand(th'[u]) = {}
      BY <1>1, <1>2, <1>3 DEF EntriesApart
    <2>3. \A u, v \in Threads : u # v => InHand(th'[u]) \cap InHand(th'[v]) = {}
      BY <1>1, <1>2, <1>3 DEF EntriesApart
    <2>. QED BY <2>1, <2>2, <2>3 DEF EntriesApart
  <1>5. ASSUME NEW n
        PROVE  HeldIn(n, queues', th') <=>
                 /\ HeldIn(n, queues, th)
                 /\ n \in queues[q] \cup InHand(th[t]) => n \in queues'[q] \cup InHand(s)
    <2>1. CASE n \in queues[q] \cup InHand(th[t])
      BY <1>1, <1>2, <1>3, <2>1 DEF HeldIn
    <2>2. CASE n \notin queues[q] \cup InHand(th[t])
      BY <1>1, <1>2, <2>2 DEF HeldIn
    <2>. QED BY <2>1, <2>2
  <1>. QED BY <1>4, <1>5

\* The entries of an exchange were made before.
LEMMA ExchangeMade ==
  ASSUME Types, EntriesMade, NEW t \in Threads, NEW q, NEW s, Exchange(t, q, s),
         \A a \in Blocks : mem[a].life # "none" =>
            mem'[a].life # "none" /\ mem'[a].seq = mem[a].seq
  PROVE  EntriesMade'
  <1>1. th'[t] = s /\ \A u \in Threads \ {t} : th'[u] = th[u]
    BY ThreadStep DEF Exchange
  <1>2. /\ q \in 1..3 /\ \A r \in 1..3 : r # q => queues'[r] = queues[r]
        /\ queues'[q] \cup InHand(s) \subseteq queues[q] \cup InHand(th[t])
    BY DEF Exchange
  <1>3. \A n \in Nodes : Made(n) => Made(n)'
    BY DEF Made, Nodes
  <1>4. \A r \in 1..3 : \A n \in queues[r] : Made(n)'
    BY <1>3, EntriesAreNodes DEF EntriesMade
  <1>5. \A u \in Threads : \A n \in InHand(th[u]) : Made(n)'
    BY <1>3, EntriesAreNodes DEF EntriesMade
  <1>6. \A r \in 1..3 : \A n \in queues'[r] : Made(n)'
    BY <1>2, <1>4, <1>5
  <1>7. \A u \in Threads : \A n \in InHand(th'[u]) : Made(n)'
    BY <1>1, <1>2, <1>4, <1>5
  <1>. QED BY <1>6, <1>7 DEF EntriesMade

\* A block that the exchange does not change, and whose live entry is not lost.
LEMMA EvictableMoved ==
  ASSUME Types, EntriesApart, NEW t \in Threads, NEW q, NEW s, Exchange(t, q, s),
         NEW a \in Blocks, Evictable(a), mem'[a] = mem[a],
         Alive(a)' => Alive(a), Locked(a) => Locked(a)',
         Alive(a) /\ <<a, mem[a].seq>> \in queues[q] \cup InHand(th[t]) =>
            <<a, mem[a].seq>> \in queues'[q] \cup InHand(s)
  PROVE  Evictable(a)'
  <1>1. Alive(a) => (HeldIn(<<a, mem[a].seq>>, queues', th') <=>
                     HeldIn(<<a, mem[a].seq>>, queues, th))
    BY ExchangeApart
  <1>. QED BY <1>1 DEF Evictable

\* Steps that only move entries, and lose none but dead ones.
LEMMA QueueMoves ==
  ASSUME Types, QueueInv, NEW t \in Threads, NEW q, NEW s, Exchange(t, q, s),
         UNCHANGED <<mem, dying>>, th[t].pc \notin {"enqueue", "convert"},
         \A n \in queues[q] \cup InHand(th[t]) :
            n \in queues'[q] \cup InHand(s) \/ IsDeadNode(n)
  PROVE  QueueInv'
  <1>1. EntriesApart' /\ EntriesMade'
    BY ExchangeApart, ExchangeMade DEF QueueInv
  <1>2. ASSUME NEW a \in Blocks PROVE Evictable(a)'
    <2>1. Evictable(a)
      BY EvictableIs DEF QueueInv
    <2>2. Alive(a)' => Alive(a)
      BY DEF Alive
    <2>3. Locked(a) => Locked(a)'
      BY LockedKept DEF Exchange
    <2>4. Alive(a) => ~IsDeadNode(<<a, mem[a].seq>>)
      BY DEF IsDeadNode, Node
    <2>5. mem'[a] = mem[a] /\ EntriesApart
      BY DEF QueueInv
    <2>6. Alive(a) /\ <<a, mem[a].seq>> \in queues[q] \cup InHand(th[t]) =>
             <<a, mem[a].seq>> \in queues'[q] \cup InHand(s)
      BY <2>4
    <2>. QED BY <2>1, <2>2, <2>3, <2>5, <2>6, EvictableMoved
  <1>. QED BY <1>1, <1>2, EvictableIsPrimed DEF QueueInv

\* A dequeue loses no live entry: the thread has it in its hands.
LEMMA EvictDequeueQueue ==
  ASSUME Types, QueueInv, NEW t \in Threads, EvictDequeue(t)
  PROVE  QueueInv'
  <1>0. PICK q : q = th[t].q
    OBVIOUS
  <1>1. UNCHANGED <<mem, dying>> /\ th[t].pc = "iterate"
    BY DEF EvictDequeue, At
  <1>2. PICK n \in queues[q] :
          /\ q \in 1..3 /\ n \in Nodes
          /\ queues' = [queues EXCEPT ![q] = @ \ {n}]
          /\ \/ \E s : WellFormed(s) /\ th' = [th EXCEPT ![t] = s] /\ InHand(s) = {n}
             \/ ~Alive(n[1]) /\ UNCHANGED th
    BY <1>0, DequeueMoves
  <1>3. InHand(th[t]) = {}
    BY <1>1, EmptyHands
  <1>4. queues'[q] = queues[q] \ {n} /\ \A r \in 1..3 : r # q => queues'[r] = queues[r]
    BY <1>2 DEF Types
  <1>5. CASE \E s : WellFormed(s) /\ th' = [th EXCEPT ![t] = s] /\ InHand(s) = {n}
    <2>1. PICK s : WellFormed(s) /\ th' = [th EXCEPT ![t] = s] /\ InHand(s) = {n}
      BY <1>5
    <2>2. Exchange(t, q, s)
      BY <1>2, <1>3, <1>4, <2>1 DEF Exchange
    <2>3. \A m \in queues[q] \cup InHand(th[t]) : m \in queues'[q] \cup InHand(s)
      BY <1>3, <1>4, <2>1
    <2>. QED BY <1>1, <2>2, <2>3, QueueMoves
  <1>6. CASE ~Alive(n[1]) /\ UNCHANGED th
    <2>1. th' = [th EXCEPT ![t] = th[t]] /\ WellFormed(th[t])
      BY <1>6 DEF Types
    <2>2. Exchange(t, q, th[t])
      BY <1>2, <1>3, <1>4, <2>1 DEF Exchange
    <2>3. \A m \in queues[q] \cup InHand(th[t]) :
             m \in queues'[q] \cup InHand(th[t]) \/ IsDeadNode(m)
      BY <1>3, <1>4, <1>6 DEF IsDeadNode
    <2>. QED BY <1>1, <2>2, <2>3, QueueMoves
  <1>. QED BY <1>2, <1>5, <1>6

\* A purge loses no live entry.
LEMMA PurgeQueue ==
  ASSUME Types, QueueInv, NEW t \in Threads,
         PurgeDequeue(t) \/ PurgeJudge(t) \/ PurgeFinish(t)
  PROVE  QueueInv'
  <1>0. PICK q : q = th[t].q
    OBVIOUS
  <1>1. /\ UNCHANGED <<mem, dying>> /\ th[t].pc \in {"bulk", "judge"}
        /\ th[t].pc \notin {"enqueue", "convert"}
    BY DEF PurgeDequeue, PurgeJudge, PurgeFinish, At
  <1>2. q \in 1..3 /\ WellFormed(th[t])
    BY <1>0, <1>1 DEF Types, WellFormed, Purging
  <1>3. CASE PurgeDequeue(t)
    <2>1. PICK batch \in SUBSET queues[q] :
             /\ queues' = [queues EXCEPT ![q] = @ \ batch]
             /\ \E s : WellFormed(s) /\ th' = [th EXCEPT ![t] = s] /\ InHand(s) = batch
      BY <1>0, <1>3, PurgeDequeueMoves
    <2>2. PICK s : WellFormed(s) /\ th' = [th EXCEPT ![t] = s] /\ InHand(s) = batch
      BY <2>1
    <2>3. queues'[q] = queues[q] \ batch /\ \A r \in 1..3 : r # q => queues'[r] = queues[r]
      BY <1>2, <2>1 DEF Types
    <2>4. InHand(th[t]) = {}
      BY <1>3, EmptyHands DEF PurgeDequeue, At
    <2>5. Exchange(t, q, s)
      BY <1>2, <2>1, <2>2, <2>3, <2>4 DEF Exchange
    <2>6. \A m \in queues[q] \cup InHand(th[t]) : m \in queues'[q] \cup InHand(s)
      BY <2>2, <2>3, <2>4
    <2>. QED BY <1>1, <2>5, <2>6, QueueMoves
  <1>4. CASE PurgeJudge(t)
    <2>1. PICK s : /\ WellFormed(s) /\ th' = [th EXCEPT ![t] = s]
                   /\ InHand(s) \subseteq InHand(th[t])
                   /\ \A m \in InHand(th[t]) : m \in InHand(s) \/ IsDeadNode(m)
      BY <1>4, JudgeMoves
    <2>2. UNCHANGED queues
      BY <1>4 DEF PurgeJudge, poolVars
    <2>3. queues[q] \cap InHand(th[t]) = {}
      BY <1>2 DEF QueueInv, EntriesApart
    <2>4. Exchange(t, q, s)
      BY <1>2, <2>1, <2>2, <2>3 DEF Exchange
    <2>5. \A m \in queues[q] \cup InHand(th[t]) :
             m \in queues'[q] \cup InHand(s) \/ IsDeadNode(m)
      BY <2>1, <2>2
    <2>. QED BY <1>1, <2>4, <2>5, QueueMoves
  <1>5. CASE PurgeFinish(t)
    <2>1. /\ queues' = [queues EXCEPT ![q] = @ \cup th[t].alive]
          /\ th[t].pc = "judge" /\ th[t].batch = {}
      BY <1>0, <1>5 DEF PurgeFinish, At
    <2>2. PICK s : Resumes(t, s)
      BY <1>5, PurgeFinishMoves
    <2>3. InHand(s) = {} /\ WellFormed(s) /\ th' = [th EXCEPT ![t] = s]
      BY <2>2, ResumesNothing DEF Resumes
    <2>4. InHand(th[t]) = th[t].alive
      BY <2>1 DEF InHand
    <2>5. /\ queues'[q] = queues[q] \cup th[t].alive
          /\ \A r \in 1..3 : r # q => queues'[r] = queues[r]
      BY <1>2, <2>1 DEF Types
    <2>6. Exchange(t, q, s)
      BY <1>2, <2>3, <2>4, <2>5 DEF Exchange
    <2>7. \A m \in queues[q] \cup InHand(th[t]) : m \in queues'[q] \cup InHand(s)
      BY <2>4, <2>5
    <2>. QED BY <1>1, <2>6, <2>7, QueueMoves
  <1>. QED BY <1>3, <1>4, <1>5

\* The visit of a block: what happens to its entry, and to nothing else.
LEMMA VisitEntry ==
  ASSUME Types, NEW t \in Threads, NEW b \in Blocks, b = th[t].node[1], EvictVisit(t)
  PROVE  \/ /\ th[t].node # <<b, mem[b].seq>> /\ UNCHANGED <<mem, queues>>
         \/ /\ th[t].node = <<b, mem[b].seq>>
            /\ \A a \in Blocks \ {b} : mem'[a] = mem[a]
            /\ mem'[b].life = mem[b].life /\ mem'[b].seq = mem[b].seq
            /\ \/ /\ ~mem'[b].entry /\ ~(mem'[b].loaded /\ mem'[b].readers = 0)
                  /\ UNCHANGED queues
               \/ /\ mem'[b].entry
                  /\ queues' = [queues EXCEPT ![th[t].q] = @ \cup {th[t].node}]
  <1>1. mem[b] \in MemoryType /\ mem \in [Blocks -> MemoryType]
    BY DEF Types
  <1>2. CASE VisitStale(t, b)
    BY <1>2 DEF VisitStale, Node
  <1>3. CASE VisitUnevictable(t, b)
    <2>1. /\ \A a \in Blocks \ {b} : mem'[a] = mem[a]
          /\ mem'[b] = [mem[b] EXCEPT !.entry = FALSE]
      BY <1>1, <1>3 DEF VisitUnevictable
    <2>2. /\ mem'[b].life = mem[b].life /\ mem'[b].seq = mem[b].seq /\ ~mem'[b].entry
          /\ mem'[b].readers = mem[b].readers /\ (mem'[b].loaded <=> mem[b].loaded)
      BY <1>1, <2>1 DEF MemoryType
    <2>3. ~(mem[b].loaded /\ mem[b].readers = 0)
      <3>. SUFFICES ASSUME mem[b].loaded, mem[b].readers = 0 PROVE FALSE
        OBVIOUS
      <3>1. ~(mem[b].readers > 0) /\ mem[b].loaded
        OBVIOUS
      <3>2. CanUnload(b) \in {"NO_TEMP_DIRECTORY", "CAN_UNLOAD"}
        BY <3>1 DEF CanUnload
      <3>. QED BY <1>3, <3>2 DEF VisitUnevictable
    <2>4. th[t].node = <<b, mem[b].seq>> /\ UNCHANGED queues
      BY <1>3 DEF VisitUnevictable, Node
    <2>. QED BY <2>1, <2>2, <2>3, <2>4
  <1>4. CASE VisitUnload(t, b)
    <2>1. /\ \A a \in Blocks \ {b} : mem'[a] = mem[a]
          /\ mem'[b] = [Unloaded(mem[b]) EXCEPT !.entry = FALSE]
      BY <1>1, <1>4 DEF VisitUnload
    <2>2. /\ mem'[b].life = mem[b].life /\ mem'[b].seq = mem[b].seq /\ ~mem'[b].entry
          /\ ~mem'[b].loaded
      BY <1>1, <2>1 DEF MemoryType, Unloaded
    <2>3. th[t].node = <<b, mem[b].seq>> /\ UNCHANGED queues
      BY <1>4 DEF VisitUnload, Node
    <2>. QED BY <2>1, <2>2, <2>3
  <1>5. CASE VisitNoTempDirectory(t, b) \/ VisitWriteFails(t, b)
    <2>0. /\ mem' = [mem EXCEPT ![b].entry = TRUE]
          /\ th[t].node = <<b, mem[b].seq>>
          /\ queues' = [queues EXCEPT ![th[t].q] = @ \cup {th[t].node}]
      BY <1>5 DEF VisitNoTempDirectory, VisitWriteFails, Node
    <2>1. /\ \A a \in Blocks \ {b} : mem'[a] = mem[a]
          /\ mem'[b] = [mem[b] EXCEPT !.entry = TRUE]
      BY <1>1, <2>0
    <2>2. mem'[b].life = mem[b].life /\ mem'[b].seq = mem[b].seq /\ mem'[b].entry
      BY <1>1, <2>1 DEF MemoryType
    <2>. QED BY <2>0, <2>1, <2>2
  <1>. QED BY <1>2, <1>3, <1>4, <1>5 DEF EvictVisit

\* A visited entry is dropped with has_queue_entry, or put back with it.
LEMMA EvictVisitQueue ==
  ASSUME Types, ContentsInv, QueueInv, NEW t \in Threads, EvictVisit(t)
  PROVE  QueueInv'
  <1>0. PICK q, b, n : q = th[t].q /\ b = th[t].node[1] /\ n = th[t].node
    OBVIOUS
  <1>1. /\ th[t].pc = "visit" /\ q \in 1..3 /\ b \in Blocks /\ dying[t] = NoBlock
    BY <1>0 DEF EvictVisit, At, Types, WellFormed, Evicting
  <1>2. PICK s : Resumes(t, s)
    BY VisitMoves
  <1>3. InHand(s) = {} /\ WellFormed(s) /\ th' = [th EXCEPT ![t] = s]
    BY <1>2, ResumesNothing DEF Resumes
  <1>4. InHand(th[t]) = {n} /\ n \notin queues[q]
    <2>1. InHand(th[t]) = {n}
      BY <1>0, <1>1 DEF InHand, Types, WellFormed
    <2>. QED BY <1>1, <2>1 DEF QueueInv, EntriesApart
  <1>5. /\ \A a \in Blocks : mem'[a].life = mem[a].life
        /\ dying' = dying \/ dying' = [dying EXCEPT ![t] = b]
    BY <1>0, VisitEffect DEF EvictVisit, DropReference
  <1>6. \A a \in Blocks : Alive(a)' => Alive(a)
    <2>1. \A a \in Blocks, u \in Threads : dying[u] = a => dying'[u] = a
      BY <1>1, <1>5, PoolAssumption DEF Types
    <2>. QED BY <1>5, <2>1 DEF Alive
  <1>7. \A a \in Blocks : Locked(a) => Locked(a)'
    BY <1>1, <1>3, LockedKept
  <1>8. \A a \in Blocks : Evictable(a)
    BY EvictableIs DEF QueueInv
  <1>9. CASE n # <<b, mem[b].seq>> /\ UNCHANGED <<mem, queues>>
    <2>1. Exchange(t, q, s)
      BY <1>1, <1>3, <1>4, <1>9 DEF Exchange
    <2>2. EntriesApart' /\ EntriesMade'
      BY <1>9, <2>1, ExchangeApart, ExchangeMade DEF QueueInv
    <2>3. ASSUME NEW a \in Blocks PROVE Evictable(a)'
      <3>1. <<a, mem[a].seq>> # n
        BY <1>0, <1>9
      <3>2. <<a, mem[a].seq>> \in queues[q] \cup InHand(th[t]) =>
              <<a, mem[a].seq>> \in queues'[q] \cup InHand(s)
        BY <1>4, <1>9, <3>1
      <3>3. mem'[a] = mem[a] /\ EntriesApart
        BY <1>9 DEF QueueInv
      <3>. QED BY <1>6, <1>7, <1>8, <2>1, <3>2, <3>3, EvictableMoved
    <2>. QED BY <2>2, <2>3, EvictableIsPrimed DEF QueueInv
  <1>10. ASSUME n = <<b, mem[b].seq>>, \A a \in Blocks \ {b} : mem'[a] = mem[a],
                mem'[b].life = mem[b].life, mem'[b].seq = mem[b].seq,
                Exchange(t, q, s),
                \A m \in queues[q] : m \in queues'[q],
                mem'[b].entry <=> n \in queues'[q],
                mem'[b].loaded /\ mem'[b].readers = 0 => mem'[b].entry
         PROVE  QueueInv'
    <2>1. /\ EntriesApart' /\ EntriesMade'
          /\ \A m : HeldIn(m, queues', th') <=>
               /\ HeldIn(m, queues, th)
               /\ m \in queues[q] \cup InHand(th[t]) => m \in queues'[q] \cup InHand(s)
      <3>1. \A a \in Blocks : mem[a].life # "none" =>
               mem'[a].life # "none" /\ mem'[a].seq = mem[a].seq
        BY <1>10
      <3>. QED BY <1>10, <3>1, ExchangeApart, ExchangeMade DEF QueueInv
    <2>2. HeldIn(n, queues', th') <=> n \in queues'[q]
      BY <1>1, <1>3, <1>4, <2>1 DEF HeldIn
    <2>3. Evictable(b)'
      BY <1>10, <2>2 DEF Evictable
    <2>4. ASSUME NEW a \in Blocks, a # b PROVE Evictable(a)'
      <3>1. <<a, mem[a].seq>> # n
        BY <1>10, <2>4
      <3>2. <<a, mem[a].seq>> \in queues[q] \cup InHand(th[t]) =>
              <<a, mem[a].seq>> \in queues'[q] \cup InHand(s)
        BY <1>4, <1>10, <3>1
      <3>3. mem'[a] = mem[a] /\ EntriesApart
        BY <1>10, <2>4 DEF QueueInv
      <3>. QED BY <1>6, <1>7, <1>8, <1>10, <3>2, <3>3, EvictableMoved
    <2>5. \A a \in Blocks : Evictable(a)'
      BY <2>3, <2>4
    <2>. QED BY <2>1, <2>5, EvictableIsPrimed DEF QueueInv
  <1>11. CASE /\ n = <<b, mem[b].seq>>
              /\ \A a \in Blocks \ {b} : mem'[a] = mem[a]
              /\ mem'[b].life = mem[b].life /\ mem'[b].seq = mem[b].seq
              /\ ~mem'[b].entry /\ ~(mem'[b].loaded /\ mem'[b].readers = 0)
              /\ UNCHANGED queues
    <2>1. Exchange(t, q, s)
      BY <1>1, <1>3, <1>4, <1>11 DEF Exchange
    <2>2. n \notin queues'[q] /\ \A m \in queues[q] : m \in queues'[q]
      BY <1>4, <1>11
    <2>. QED BY <1>10, <1>11, <2>1, <2>2
  <1>12. CASE /\ n = <<b, mem[b].seq>>
              /\ \A a \in Blocks \ {b} : mem'[a] = mem[a]
              /\ mem'[b].life = mem[b].life /\ mem'[b].seq = mem[b].seq
              /\ mem'[b].entry
              /\ queues' = [queues EXCEPT ![q] = @ \cup {n}]
    <2>1. queues'[q] = queues[q] \cup {n} /\ \A r \in 1..3 : r # q => queues'[r] = queues[r]
      BY <1>1, <1>12 DEF Types
    <2>2. Exchange(t, q, s)
      BY <1>1, <1>3, <1>4, <2>1 DEF Exchange
    <2>3. n \in queues'[q] /\ \A m \in queues[q] : m \in queues'[q]
      BY <2>1
    <2>. QED BY <1>10, <1>12, <2>2, <2>3
  <1>. QED
    <2>1. \/ /\ n # <<b, mem[b].seq>> /\ UNCHANGED <<mem, queues>>
          \/ /\ n = <<b, mem[b].seq>>
             /\ \A a \in Blocks \ {b} : mem'[a] = mem[a]
             /\ mem'[b].life = mem[b].life /\ mem'[b].seq = mem[b].seq
             /\ \/ /\ ~mem'[b].entry /\ ~(mem'[b].loaded /\ mem'[b].readers = 0)
                   /\ UNCHANGED queues
                \/ /\ mem'[b].entry
                   /\ queues' = [queues EXCEPT ![q] = @ \cup {n}]
      BY <1>0, <1>1, VisitEntry
    <2>. QED BY <1>9, <1>11, <1>12, <2>1

\* A new entry for b: it was in no queue and in nobody's hands.
LEMMA InsertEntry ==
  ASSUME Types, EntriesApart, EntriesMade, NEW t \in Threads, NEW b \in Blocks,
         Insert(t, b), th[t].pc \notin {"visit", "judge"},
         \A a \in Blocks : mem[a].life # "none" =>
            mem'[a].life # "none" /\ mem'[a].seq \in Nat /\ mem[a].seq <= mem'[a].seq,
         mem'[b].life # "none", mem'[b].seq = mem[b].seq + 1
  PROVE  /\ EntriesApart' /\ EntriesMade'
         /\ \A m : HeldIn(m, queues', th') <=>
               HeldIn(m, queues, th) \/ m = <<b, mem[b].seq + 1>>
         /\ \A u \in Threads \ {t} : th'[u] = th[u]
  <1>0. PICK n, q : n = <<b, mem[b].seq + 1>> /\ q = QueueOf(b)
    OBVIOUS
  <1>1. q \in 1..3 /\ mem[b].seq \in Nat
    BY <1>0 DEF QueueOf, BlockQueue, ManagedQueue, Types, MemoryType
  <1>2. queues'[q] = queues[q] \cup {n} /\ \A r \in 1..3 : r # q => queues'[r] = queues[r]
    <2>1. queues' = [queues EXCEPT ![q] = @ \cup {n}]
      BY <1>0 DEF Insert
    <2>. QED BY <1>1, <2>1 DEF Types
  <1>3. PICK s : Resumes(t, s)
    BY InsertMoves
  <1>4. InHand(s) = {} /\ WellFormed(s) /\ th' = [th EXCEPT ![t] = s]
    BY <1>3, ResumesNothing DEF Resumes
  <1>5. th'[t] = s /\ \A u \in Threads \ {t} : th'[u] = th[u]
    BY <1>4, ThreadStep
  <1>6. \A u \in Threads : InHand(th'[u]) = InHand(th[u])
    BY <1>4, <1>5, EmptyHands
  <1>7. ~HeldIn(n, queues, th)
    <2>1. n[1] = b /\ n[2] = mem[b].seq + 1
      BY <1>0
    <2>2. ~Made(n)
      BY <1>1, <2>1 DEF Made
    <2>. QED BY <2>2, HeldMade
  <1>8. /\ \A r \in 1..3 : n \notin queues[r]
        /\ \A u \in Threads : n \notin InHand(th[u])
    BY <1>7 DEF HeldIn
  <1>9. EntriesApart'
    <2>1. \A r, w \in 1..3 : r # w => queues'[r] \cap queues'[w] = {}
      BY <1>2, <1>8 DEF EntriesApart
    <2>2. \A r \in 1..3, u \in Threads : queues'[r] \cap InHand(th'[u]) = {}
      BY <1>2, <1>6, <1>8 DEF EntriesApart
    <2>3. \A u, v \in Threads : u # v => InHand(th'[u]) \cap InHand(th'[v]) = {}
      BY <1>6 DEF EntriesApart
    <2>. QED BY <2>1, <2>2, <2>3 DEF EntriesApart
  <1>10. EntriesMade'
    <2>1. ASSUME NEW m \in Nodes, Made(m) PROVE Made(m)'
      <3>1. m[1] \in Blocks /\ mem[m[1]].seq \in Nat
        BY DEF Nodes, Types, MemoryType
      <3>2. /\ mem'[m[1]].life # "none" /\ mem'[m[1]].seq \in Nat
            /\ mem[m[1]].seq <= mem'[m[1]].seq
        BY <2>1, <3>1 DEF Made
      <3>. QED BY <2>1, <3>1, <3>2 DEF Made
    <2>2. Made(n)'
      <3>1. n[1] = b /\ n[2] = mem[b].seq + 1
        BY <1>0
      <3>. QED BY <1>1, <3>1 DEF Made
    <2>3. \A r \in 1..3 : \A m \in queues'[r] : Made(m)'
      BY <1>2, <2>1, <2>2, EntriesAreNodes DEF EntriesMade
    <2>4. \A u \in Threads : \A m \in InHand(th'[u]) : Made(m)'
      BY <1>6, <2>1, EntriesAreNodes DEF EntriesMade
    <2>. QED BY <2>3, <2>4 DEF EntriesMade
  <1>11. \A m : HeldIn(m, queues', th') <=> HeldIn(m, queues, th) \/ m = n
    BY <1>1, <1>2, <1>6 DEF HeldIn
  <1>. QED BY <1>0, <1>5, <1>9, <1>10, <1>11

\* A block that the insertion for another one leaves with its entry.
LEMMA EvictableInsert ==
  ASSUME NEW n, \A m : HeldIn(m, queues', th') <=> HeldIn(m, queues, th) \/ m = n,
         NEW a \in Blocks, a # n[1], Evictable(a),
         mem'[a].seq = mem[a].seq, mem'[a].entry <=> mem[a].entry,
         mem'[a].life = "live" => mem[a].life = "live",
         Alive(a)' => Alive(a), Locked(a) => Locked(a)',
         mem'[a].loaded /\ mem'[a].readers = 0 => mem[a].loaded /\ mem[a].readers = 0
  PROVE  Evictable(a)'
  <1>1. HeldIn(<<a, mem'[a].seq>>, queues', th') <=> HeldIn(<<a, mem[a].seq>>, queues, th)
    <2>1. <<a, mem[a].seq>> # n
      OBVIOUS
    <2>. QED BY <2>1
  <1>. QED BY <1>1 DEF Evictable

\* AddToEvictionQueue publishes the entry of the sequence number it sets.
LEMMA EnqueueQueue ==
  ASSUME Types, ContentsInv, QueueInv, NEW t \in Threads, Enqueue(t)
  PROVE  QueueInv'
  <1>0. PICK b : b = th[t].blk
    OBVIOUS
  <1>1. /\ b \in Blocks /\ th[t].pc = "enqueue" /\ Insert(t, b) /\ UNCHANGED dying
        /\ mem[b].life = "live" /\ mem[b] \in MemoryType
    BY <1>0 DEF Enqueue, At, Types, ContentsInv, Wanted, Owned
  <1>2. \A a \in Blocks \ {b} : mem'[a] = mem[a]
    BY <1>0 DEF Enqueue, Types
  <1>3. /\ mem'[b].life = "live" /\ mem'[b].seq = mem[b].seq + 1 /\ mem'[b].entry
        /\ mem[b].seq \in Nat
    <2>1. mem'[b] = [mem[b] EXCEPT !.seq = @ + 1, !.entry = TRUE]
      BY <1>0, <1>1 DEF Enqueue, Types
    <2>. QED BY <1>1, <2>1 DEF MemoryType
  <1>4. \A a \in Blocks : mem[a].life # "none" =>
           mem'[a].life # "none" /\ mem'[a].seq \in Nat /\ mem[a].seq <= mem'[a].seq
    BY <1>2, <1>3 DEF Types, MemoryType
  <1>5. PICK n : n = <<b, mem[b].seq + 1>>
    OBVIOUS
  <1>6. /\ EntriesApart' /\ EntriesMade'
        /\ \A m : HeldIn(m, queues', th') <=> HeldIn(m, queues, th) \/ m = n
        /\ \A u \in Threads \ {t} : th'[u] = th[u]
    BY <1>1, <1>3, <1>4, <1>5, InsertEntry DEF QueueInv
  <1>7. Evictable(b)'
    <2>1. HeldIn(<<b, mem'[b].seq>>, queues', th')
      BY <1>3, <1>5, <1>6
    <2>. QED BY <1>3, <2>1 DEF Evictable
  <1>8. ASSUME NEW a \in Blocks, a # b PROVE Evictable(a)'
    <2>1. mem'[a] = mem[a] /\ Evictable(a) /\ a # n[1]
      BY <1>2, <1>5, <1>8, EvictableIs DEF QueueInv
    <2>2. Alive(a)' => Alive(a)
      BY <1>1, <2>1 DEF Alive
    <2>3. Locked(a) => Locked(a)'
      BY <1>0, <1>6, <1>8 DEF Locked
    <2>. QED BY <1>6, <2>1, <2>2, <2>3, EvictableInsert
  <1>9. \A a \in Blocks : Evictable(a)'
    BY <1>7, <1>8
  <1>. QED BY <1>6, <1>9, EvictableIsPrimed DEF QueueInv

LEMMA ConvertQueue ==
  ASSUME Types, ContentsInv, QueueInv, NEW t \in Threads, NEW b \in Blocks,
         NEW p \in Persistent, ConvertToPersistent(t, b, p)
  PROVE  QueueInv'
  <1>1. /\ UNCHANGED <<queues, dying>> /\ th[t].pc = "idle" /\ mem[b].readers = 1
        /\ b \in pins[t]
    BY DEF ConvertToPersistent, Convertible, At
  <1>2. /\ \A a \in Blocks \ {b} : mem'[a] = mem[a]
        /\ mem'[b].life = mem[b].life /\ mem'[b].seq = mem[b].seq
        /\ mem'[b].entry = mem[b].entry /\ mem'[b].readers = 1
    <2>1. CASE UNCHANGED mem
      BY <1>1, <2>1
    <2>2. CASE mem' = [mem EXCEPT ![b].charge = 0]
      <3>1. mem[b] \in MemoryType /\ mem'[b] = [mem[b] EXCEPT !.charge = 0]
        BY <2>2 DEF Types
      <3>2. \A a \in Blocks \ {b} : mem'[a] = mem[a]
        BY <2>2 DEF Types
      <3>. QED BY <1>1, <3>1, <3>2 DEF MemoryType
    <2>. QED BY <2>1, <2>2 DEF ConvertToPersistent
  <1>3. EntriesKept /\ \A a \in Blocks : Locked(a) => Locked(a)'
    BY <1>1, ConvertStarts, HandsKept, LockedKept
  <1>4. \A a \in Blocks : Alive(a)' => Alive(a)
    BY <1>1, <1>2 DEF Alive
  <1>5. Evictable(b)
    BY EvictableIs DEF QueueInv
  <1>6. Evictable(b)'
    BY <1>2, <1>3, <1>4, <1>5, EvictableKept
  <1>. QED BY <1>2, <1>3, <1>4, <1>6, QueueOneBlock

\* The new block has no entry yet, and its lock is held until it has one.
LEMMA ConvertedQueue ==
  ASSUME Types, ContentsInv, Converting, QueueInv, NEW t \in Threads, Converted(t)
  PROVE  QueueInv'
  <1>0. PICK b, p : b = th[t].blk /\ p = th[t].node[1]
    OBVIOUS
  <1>1. /\ b \in Blocks /\ p \in Blocks /\ p # b /\ mem[p] = Absent
        /\ mem[b].life = "live"
        /\ \A a \in Blocks \ {b, p} : mem'[a] = mem[a]
        /\ mem'[b].life = "live" /\ ~mem'[b].loaded
        /\ mem'[b].seq = mem[b].seq /\ mem'[b].entry = mem[b].entry
        /\ mem'[p].life = "live" /\ mem'[p].seq = 0 /\ ~mem'[p].entry
    BY <1>0, ConvertedEffect
  <1>2. th[t].pc = "convert" /\ dying[t] = NoBlock /\ UNCHANGED queues
    BY DEF Converted, At
  <1>3. mem[p].life = "none"
    BY <1>1 DEF Absent
  <1>4. PICK s : /\ WellFormed(s) /\ th' = [th EXCEPT ![t] = s]
                 /\ s.pc = "enqueue" /\ s.blk = p /\ InHand(s) = {}
    BY <1>0, ConvertedMoves
  <1>5. th'[t] = s /\ \A u \in Threads \ {t} : th'[u] = th[u]
    BY <1>4, ThreadStep
  <1>6. EntriesKept
    BY <1>2, <1>4, HandsKept
  <1>7. Evictable(p)'
    <2>1. Locked(p)'
      BY <1>4, <1>5 DEF Locked
    <2>. QED BY <1>1, <1>3, <1>6, <2>1, EvictableNew DEF QueueInv
  <1>8. dying' = dying \/ dying' = [dying EXCEPT ![t] = b]
    BY <1>0 DEF Converted, DropReference
  <1>9. ASSUME NEW a \in Blocks, a # p PROVE Evictable(a)'
    <2>1. /\ mem'[a].seq = mem[a].seq /\ (mem'[a].entry <=> mem[a].entry)
          /\ mem'[a].life = mem[a].life
          /\ mem'[a].loaded /\ mem'[a].readers = 0 =>
               mem[a].loaded /\ mem[a].readers = 0 /\ a # b
      BY <1>1, <1>9
    <2>2. Evictable(a)
      BY EvictableIs DEF QueueInv
    <2>3. Alive(a)' => Alive(a)
      <3>1. \A u \in Threads : dying[u] = a => dying'[u] = a
        BY <1>2, <1>8, PoolAssumption DEF Types
      <3>. QED BY <2>1, <3>1 DEF Alive
    <2>4. a # b /\ Locked(a) => Locked(a)'
      BY <1>0, <1>5 DEF Locked
    <2>. QED BY <1>6, <2>1, <2>2, <2>3, <2>4, EvictableKept
  <1>10. \A a \in Blocks : Evictable(a)'
    BY <1>7, <1>9
  <1>11. \A a \in Blocks : mem[a].life # "none" =>
            mem'[a].life # "none" /\ mem'[a].seq = mem[a].seq
    BY <1>1, <1>3
  <1>. QED BY <1>6, <1>10, <1>11, QueueKept

\* Every step keeps QueueInv.
LEMMA QueueInvStep ==
  Types /\ ContentsInv /\ Converting /\ QueueInv /\ [Next]_vars => QueueInv'
  <1>. SUFFICES ASSUME Types, ContentsInv, Converting, QueueInv, [Next]_vars PROVE QueueInv'
    OBVIOUS
  <1>1. CASE UNCHANGED vars
    BY <1>1, QueueUnchanged DEF vars, poolVars
  <1>2. CASE SetTemporaryDirectory
    BY <1>2, QueueUnchanged DEF SetTemporaryDirectory, poolVars
  <1>3. ASSUME NEW t \in Threads, Evict(t) \/ PinEnds(t) \/ PurgeStep(t)
        PROVE  QueueInv'
    BY <1>3, QueueThreadSteps, EvictDequeueQueue, EvictVisitQueue, PinLoadedQueue,
       PinLoadQueue, PurgeQueue DEF Evict, PinEnds, PurgeStep
  <1>4. ASSUME NEW t \in Threads,
               \/ Allocated(t) \/ Enqueue(t) \/ Destroy(t) \/ Converted(t)
               \/ SetLimit(t) \/ LimitChanged(t) \/ LimitKept(t)
        PROVE  QueueInv'
    BY <1>4, AllocatedQueue, EnqueueQueue, DestroyQueue, ConvertedQueue,
       QueueThreadSteps
  <1>5. ASSUME NEW t \in Threads, NEW b \in Blocks,
               \/ RegisterBlock(t, b) \/ Allocate(t, b) \/ Pin(t, b)
               \/ Unpin(t, b) \/ SetDestroyBufferUpon(t, b) \/ DropHandle(t, b)
               \/ \E p \in Persistent : \/ ConvertToPersistent(t, b, p)
                                        \/ ConvertFails(t, b, p)
        PROVE  QueueInv'
    BY <1>5, RegisterQueue, AllocateQueue, PinQueue, UnpinQueue, SetDestroyQueue,
       DropHandleQueue, ConvertQueue DEF Unpin, ConvertFails
  <1>. QED
    BY <1>1, <1>2, <1>3, <1>4, <1>5 DEF Next

-----------------------------------------------------------------------------
(* The theorems *)

\* The inductive invariant of the buffer pool holds in every reachable state:
\* every operation of StandardBufferManager, BlockMemory and BufferPool keeps
\* its parts together.
THEOREM PoolCorrect == Spec => []PoolInv
  <1>1. Init => PoolInv
    BY PoolInit DEF PoolInv
  <1>2. PoolInv /\ [Next]_vars => PoolInv'
    BY TypesStep, ContentsStep, ConvertingStep, QueueInvStep DEF PoolInv
  <1>. QED BY <1>1, <1>2, PTL DEF Spec

\* BlockMemory::CanUnload, WriteTemporaryBuffer and Load: a pinned block stays
\* loaded whatever is evicted around it, and the contents of a temporary block
\* that is still needed are in memory or in its temporary file, never in both
\* and never in neither.
THEOREM ContentsAreKept == Spec => []ContentsKept
  <1>1. PoolInv => ContentsKept
    BY ContentsFollow DEF PoolInv
  <1>. QED BY <1>1, PoolCorrect, PTL

\* BufferPool::AddToEvictionQueue, the eviction and the purge: a loaded block
\* without readers can always be found for eviction, and has_queue_entry tells
\* whether a live entry for it exists.
THEOREM EvictableIsQueued == Spec => []EvictableQueued
  <1>1. PoolInv => EvictableQueued
    BY DEF PoolInv, QueueInv
  <1>. QED BY <1>1, PoolCorrect, PTL
=============================================================================
