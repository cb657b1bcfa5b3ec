------------------------ MODULE BufferAccountProofs ------------------------
(***************************************************************************)
(* What the buffer pool counts, for any set of blocks and threads, any      *)
(* sizes, limits and bounds: memory_usage is what the blocks in memory and  *)
(* the pending reservations amount to (MemoryAccounted), what was granted   *)
(* stays within the limit it was checked against (WithinLimit), and         *)
(* total_dead_nodes is the number of dead entries of a queue                *)
(* (DeadNodesCounted).                                                      *)
(***************************************************************************)
EXTENDS BufferPoolProofs

-----------------------------------------------------------------------------
(* The inductive invariant *)

\* What a thread has reserved at each point of its operation, and for what.
Reserved(s) ==
    /\ s.res = IF s.pc \in {"iterate", "visit", "granted"} THEN s.need ELSE 0
    /\ s.op \in {"pin", "allocate"} => s.need = Size[s.blk]
    /\ s.op \in {"limit1", "limit2"} => s.need = 0 /\ s.lim \in Limits
    /\ s.op = "limit2" => s.old \in Limits
Reservations == \A t \in Threads : Reserved(th[t])

\* A block is charged for its buffer, but for a conversion that resized it.
Charges ==
    \A b \in Blocks :
       mem[b].charge = IF mem[b].loaded /\ b \notin Uncharged THEN Size[b] ELSE 0

\* What the buffer of b, whose memory is m, takes.
Buffered(m, b) == IF m.loaded THEN Size[b] ELSE 0

GrantedTo(s) == IF s.pc = "granted" THEN s.res ELSE 0

InMemory == Sum([b \in Blocks |-> mem[b].charge], Blocks)
InBuffers == Sum([b \in Blocks |-> Buffered(mem[b], b)], Blocks)
Pending == Sum([t \in Threads |-> th[t].res], Threads)
Promised == Sum([t \in Threads |-> GrantedTo(th[t])], Threads)

Balance == used = InMemory + Pending
Bounded == /\ assured \in Nat /\ overdraft \in Nat
           /\ InBuffers + Promised <= assured + overdraft
Settings == limit \in Limits /\ tempDir \in {"unset", "set", "used"}

\* The threads that may still add an entry for b to its queue.
Queueing(b) ==
    {t \in Threads :
       \/ b \in pins[t]
       \/ th[t].blk = b /\ (th[t].pc = "enqueue" \/ th[t].op \in {"pin", "allocate"})}
Sequenced ==
    /\ \A t \in Threads : th[t].pc = "enqueue" => th[t].blk \notin pins[t]
    /\ \A b \in Blocks : mem[b].seq + Cardinality(Queueing(b))
                            <= MaxInserts + Cardinality(Threads)

AccountInv ==
    Reservations /\ Charges /\ Balance /\ Bounded /\ Settings /\ Sequenced

\* Entries are in the queue of their block, or taken from it.
Placed ==
    /\ \A q \in 1..3 : \A n \in queues[q] : QueueOf(n[1]) = q
    /\ \A t \in Threads : \A n \in InHand(th[t]) : QueueOf(n[1]) = th[t].q

\* One thread at a time holds the lock of a block.
LockedOnce ==
    \A t, u \in Threads :
       th[t].pc = "enqueue" /\ th[u].pc = "enqueue" /\ th[t].blk = th[u].blk => t = u

DeadEntries(q) == {n \in Entries : QueueOf(n[1]) = q /\ IsDeadNode(n)}

\* The entries a purge found dead and has not yet subtracted from the counter.
JudgedBy(s, q) == IF s.pc = "judge" /\ s.q = q THEN s.deadCount ELSE 0
Judged(q) == Sum([t \in Threads |-> JudgedBy(th[t], q)], Threads)
JudgedStart ==
    \A t \in Threads : /\ th[t].pc \in {"purge", "bulk"} => th[t].deadCount = 0
                       /\ th[t].pc = "judge" => th[t].batch \cap th[t].alive = {}

\* The threads that counted a live entry as dead: it is about to be superseded.
Superseding(q) ==
    {t \in Threads : /\ th[t].pc = "enqueue" /\ QueueOf(th[t].blk) = q
                     /\ mem[th[t].blk].entry}

\* The threads that have yet to count the entry of a block that they destroy.
Destroying(q) ==
    {t \in Threads : /\ dying[t] # NoBlock /\ QueueOf(dying[t]) = q
                     /\ mem[dying[t]].entry}

Counted ==
    /\ dead \in [1..3 -> Int]
    /\ \A q \in 1..3 :
         dead[q] + Cardinality(Destroying(q)) =
           Cardinality(DeadEntries(q)) + Judged(q) + Cardinality(Superseding(q))

CountInv == Placed /\ LockedOnce /\ JudgedStart /\ Counted

-----------------------------------------------------------------------------
(* Sums *)

\* The units of finitely many numbers are finitely many.
LEMMA UnitsFinite ==
  ASSUME NEW S, IsFiniteSet(S), NEW f, \A x \in S : f[x] \in Nat
  PROVE  IsFiniteSet(Units(f, S))
  <1>. DEFINE T == {{x} \X (1..f[x]) : x \in S}
              h == [x \in S |-> {x} \X (1..f[x])]
  <1>1. h \in Surjection(S, T)
    BY DEF Surjection
  <1>2. IsFiniteSet(T)
    BY <1>1, FS_Surjection
  <1>3. \A x \in S : IsFiniteSet({x} \X (1..f[x]))
    <2>. TAKE x \in S
    <2>1. f[x] \in Int /\ 1 \in Int
      OBVIOUS
    <2>2. IsFiniteSet({x})
      BY FS_Singleton
    <2>3. IsFiniteSet(1..f[x])
      BY <2>1, FS_Interval
    <2>. QED BY <2>2, <2>3, FS_Product
  <1>4. \A U \in T : IsFiniteSet(U)
    BY <1>3
  <1>. HIDE DEF T
  <1>5. IsFiniteSet(UNION T)
    BY <1>2, <1>4, FS_UNION
  <1>. QED
    BY <1>5 DEF T, Units

\* One number stands for as many units as it says.
LEMMA UnitsOfOne ==
  ASSUME NEW x, NEW n \in Nat
  PROVE  IsFiniteSet({x} \X (1..n)) /\ Cardinality({x} \X (1..n)) = n
  <1>1. IsFiniteSet({x}) /\ Cardinality({x}) = 1
    BY FS_Singleton
  <1>2. IsFiniteSet(1..n) /\ Cardinality(1..n) = n
    BY FS_Interval
  <1>3. /\ IsFiniteSet({x} \X (1..n))
        /\ Cardinality({x} \X (1..n)) = Cardinality({x}) * Cardinality(1..n)
    BY <1>1, <1>2, FS_Product
  <1>. QED
    BY <1>1, <1>2, <1>3

\* A sum is one of its numbers and the sum of the others.
LEMMA SumSplit ==
  ASSUME NEW S, IsFiniteSet(S), NEW f, \A y \in S : f[y] \in Nat, NEW x \in S
  PROVE  /\ Sum(f, S) \in Nat /\ Sum(f, S \ {x}) \in Nat
         /\ Sum(f, S) = Sum(f, S \ {x}) + f[x]
  <1>. DEFINE U == Units(f, S)
              R == Units(f, S \ {x})
              X == {x} \X (1..f[x])
  <1>1. IsFiniteSet(S \ {x}) /\ \A y \in S \ {x} : f[y] \in Nat
    BY FS_RemoveElement
  <1>2. IsFiniteSet(U) /\ IsFiniteSet(R)
    BY <1>1, UnitsFinite
  <1>3. IsFiniteSet(X) /\ Cardinality(X) = f[x]
    BY UnitsOfOne
  <1>4. U = R \cup X
    BY DEF Units
  <1>5. R \cap X = {}
    BY DEF Units
  <1>. HIDE DEF U, R, X
  <1>6. Cardinality(U) = Cardinality(R) + Cardinality(X) - Cardinality(R \cap X)
    BY <1>2, <1>3, <1>4, FS_Union
  <1>7. Cardinality(R \cap X) = 0 /\ Cardinality(R) \in Nat /\ Cardinality(U) \in Nat
    BY <1>2, <1>5, FS_EmptySet, FS_CardinalityType
  <1>8. Cardinality(U) = Cardinality(R) + f[x]
    BY <1>3, <1>6, <1>7
  <1>. QED
    BY <1>7, <1>8 DEF Sum, U, R

\* The sum of finitely many numbers is a number.
LEMMA SumNat ==
  ASSUME NEW S, IsFiniteSet(S), NEW f, \A x \in S : f[x] \in Nat
  PROVE  Sum(f, S) \in Nat
  BY UnitsFinite, FS_CardinalityType DEF Sum

\* Functions that agree on S have the same sum.
LEMMA SumSame ==
  ASSUME NEW S, NEW f, NEW g, \A x \in S : g[x] = f[x]
  PROVE  Sum(g, S) = Sum(f, S)
  <1>1. Units(g, S) = Units(f, S)
    BY DEF Units
  <1>. QED BY <1>1 DEF Sum

\* Changing one number changes the sum by as much.
LEMMA SumOne ==
  ASSUME NEW S, IsFiniteSet(S), NEW f, NEW g, NEW x \in S,
         \A y \in S : f[y] \in Nat /\ g[y] \in Nat,
         \A y \in S \ {x} : g[y] = f[y]
  PROVE  /\ Sum(f, S) \in Nat /\ Sum(g, S) \in Nat
         /\ Sum(g, S) + f[x] = Sum(f, S) + g[x]
  <1>1. Sum(g, S \ {x}) = Sum(f, S \ {x})
    BY SumSame
  <1>2. /\ Sum(f, S) \in Nat /\ Sum(f, S \ {x}) \in Nat
        /\ Sum(f, S) = Sum(f, S \ {x}) + f[x]
    BY SumSplit
  <1>3. /\ Sum(g, S) \in Nat /\ Sum(g, S \ {x}) \in Nat
        /\ Sum(g, S) = Sum(g, S \ {x}) + g[x]
    BY SumSplit
  <1>4. f[x] \in Nat /\ g[x] \in Nat
    OBVIOUS
  <1>. QED
    BY <1>1, <1>2, <1>3, <1>4

\* No number is larger than the sum.
LEMMA SumAtLeast ==
  ASSUME NEW S, IsFiniteSet(S), NEW f, \A y \in S : f[y] \in Nat, NEW x \in S
  PROVE  f[x] <= Sum(f, S)
  <1>1. /\ Sum(f, S) \in Nat /\ Sum(f, S \ {x}) \in Nat
        /\ Sum(f, S) = Sum(f, S \ {x}) + f[x]
    BY SumSplit
  <1>. QED BY <1>1

\* Smaller numbers have a smaller sum.
LEMMA SumLess ==
  ASSUME NEW S, IsFiniteSet(S), NEW f, NEW g,
         \A y \in S : f[y] \in Nat /\ g[y] \in Nat /\ f[y] <= g[y]
  PROVE  Sum(f, S) <= Sum(g, S)
  <1>1. IsFiniteSet(Units(g, S))
    BY UnitsFinite
  <1>2. \A y \in S : 1..f[y] \subseteq 1..g[y]
    OBVIOUS
  <1>3. Units(f, S) \subseteq Units(g, S)
    BY <1>2 DEF Units
  <1>. QED
    BY <1>1, <1>3, FS_Subset DEF Sum

\* One number goes and another comes.
LEMMA SumMoves ==
  ASSUME NEW S, IsFiniteSet(S), NEW f, NEW g, NEW x \in S, NEW z \in S, x # z,
         \A y \in S : f[y] \in Nat /\ g[y] \in Nat,
         \A y \in S \ {x, z} : g[y] = f[y], f[z] = 0, g[x] = 0
  PROVE  Sum(g, S) + f[x] = Sum(f, S) + g[z]
  <1>. DEFINE h == [y \in S |-> IF y = z THEN g[z] ELSE f[y]]
  <1>1. /\ \A y \in S : h[y] \in Nat
        /\ \A y \in S \ {z} : h[y] = f[y]
        /\ \A y \in S \ {x} : g[y] = h[y]
        /\ h[z] = g[z] /\ h[x] = f[x]
    OBVIOUS
  <1>. HIDE DEF h
  <1>5. IsFiniteSet(S) /\ x \in S /\ z \in S /\ \A y \in S : f[y] \in Nat /\ g[y] \in Nat
    OBVIOUS
  <1>6. /\ \A y \in S : f[y] \in Nat /\ h[y] \in Nat
        /\ \A y \in S \ {z} : h[y] = f[y]
    BY <1>1
  <1>7. /\ \A y \in S : h[y] \in Nat /\ g[y] \in Nat
        /\ \A y \in S \ {x} : g[y] = h[y]
    BY <1>1
  <1>2. /\ Sum(f, S) \in Nat /\ Sum(h, S) \in Nat
        /\ Sum(h, S) + f[z] = Sum(f, S) + h[z]
    BY ONLY <1>5, <1>6, SumOne
  <1>3. /\ Sum(g, S) \in Nat
        /\ Sum(g, S) + h[x] = Sum(h, S) + g[x]
    BY ONLY <1>5, <1>7, SumOne
  <1>4. f[x] \in Nat /\ g[z] \in Nat
    OBVIOUS
  <1>. QED BY <1>1, <1>2, <1>3, <1>4

\* A sum is that of a part and that of the rest.
LEMMA SumParts ==
  ASSUME NEW S, IsFiniteSet(S), NEW f, \A y \in S : f[y] \in Nat, NEW A \in SUBSET S
  PROVE  /\ Sum(f, A) \in Nat /\ Sum(f, S \ A) \in Nat
         /\ Sum(f, S) = Sum(f, A) + Sum(f, S \ A)
  <1>. DEFINE U == Units(f, S)
              R == Units(f, S \ A)
              X == Units(f, A)
  <1>1. /\ IsFiniteSet(A) /\ IsFiniteSet(S \ A)
        /\ \A y \in A : f[y] \in Nat
        /\ \A y \in S \ A : f[y] \in Nat
    BY FS_Subset
  <1>2. IsFiniteSet(R) /\ IsFiniteSet(X)
    BY <1>1, UnitsFinite
  <1>3. U = R \cup X
    BY DEF Units
  <1>4. R \cap X = {}
    BY DEF Units
  <1>. HIDE DEF U, R, X
  <1>5. Cardinality(U) = Cardinality(R) + Cardinality(X) - Cardinality(R \cap X)
    BY <1>2, <1>3, FS_Union
  <1>6. Cardinality(R \cap X) = 0 /\ Cardinality(R) \in Nat /\ Cardinality(X) \in Nat
    BY <1>2, <1>4, FS_EmptySet, FS_CardinalityType
  <1>7. Cardinality(U) = Cardinality(X) + Cardinality(R)
    BY <1>5, <1>6
  <1>. QED
    BY <1>6, <1>7 DEF Sum, U, R, X

\* Nothing adds up to nothing.
LEMMA SumZero ==
  ASSUME NEW S, NEW f, \A x \in S : f[x] = 0
  PROVE  Sum(f, S) = 0
  <1>1. \A x \in S : 1..f[x] = {}
    OBVIOUS
  <1>2. Units(f, S) = {}
    BY <1>1 DEF Units
  <1>. QED BY <1>2, FS_EmptySet DEF Sum

-----------------------------------------------------------------------------
(* Memory *)

\* The sums are numbers, and what is granted is part of what is reserved.
LEMMA MemorySums ==
  ASSUME Types
  PROVE  /\ InMemory \in Nat /\ Pending \in Nat /\ Promised \in Nat
         /\ Promised <= Pending
  <1>. DEFINE c == [b \in Blocks |-> mem[b].charge]
              r == [t \in Threads |-> th[t].res]
              g == [t \in Threads |-> GrantedTo(th[t])]
  <1>1. \A b \in Blocks : c[b] \in Nat
    BY DEF Types, MemoryType
  <1>2. \A t \in Threads : r[t] \in Nat
    BY DEF Types, ThreadType
  <1>3. \A t \in Threads : g[t] \in Nat /\ g[t] <= r[t]
    BY <1>2 DEF GrantedTo
  <1>. HIDE DEF c, r, g
  <1>4. Sum(c, Blocks) \in Nat
    BY <1>1, SumNat, PoolAssumption
  <1>5. Sum(r, Threads) \in Nat /\ Sum(g, Threads) \in Nat
    BY <1>2, <1>3, SumNat, PoolAssumption
  <1>6. Sum(g, Threads) <= Sum(r, Threads)
    BY <1>2, <1>3, SumLess, PoolAssumption
  <1>. QED
    BY <1>4, <1>5, <1>6 DEF InMemory, Pending, Promised, c, r, g

LEMMA MemorySumsPrimed ==
  ASSUME Types'
  PROVE  /\ InMemory' \in Nat /\ Pending' \in Nat /\ Promised' \in Nat
         /\ Promised' <= Pending'
  <1>. DEFINE c == [b \in Blocks |-> mem'[b].charge]
              r == [t \in Threads |-> th'[t].res]
              g == [t \in Threads |-> GrantedTo(th'[t])]
  <1>1. \A b \in Blocks : c[b] \in Nat
    BY DEF Types, MemoryType
  <1>2. \A t \in Threads : r[t] \in Nat
    BY DEF Types, ThreadType
  <1>3. \A t \in Threads : g[t] \in Nat /\ g[t] <= r[t]
    BY <1>2 DEF GrantedTo
  <1>. HIDE DEF c, r, g
  <1>4. Sum(c, Blocks) \in Nat
    BY <1>1, SumNat, PoolAssumption
  <1>5. Sum(r, Threads) \in Nat /\ Sum(g, Threads) \in Nat
    BY <1>2, <1>3, SumNat, PoolAssumption
  <1>6. Sum(g, Threads) <= Sum(r, Threads)
    BY <1>2, <1>3, SumLess, PoolAssumption
  <1>. QED
    BY <1>4, <1>5, <1>6 DEF InMemory, Pending, Promised, c, r, g

\* Only the charge of c changes.
LEMMA InMemoryStep ==
  ASSUME Types, Types', NEW c \in Blocks,
         \A a \in Blocks \ {c} : mem'[a].charge = mem[a].charge
  PROVE  InMemory' + mem[c].charge = InMemory + mem'[c].charge
  <1>. DEFINE f == [b \in Blocks |-> mem[b].charge]
              g == [b \in Blocks |-> mem'[b].charge]
  <1>1. \A b \in Blocks : f[b] \in Nat /\ g[b] \in Nat
    BY DEF Types, MemoryType
  <1>2. /\ \A b \in Blocks \ {c} : g[b] = f[b]
        /\ f[c] = mem[c].charge /\ g[c] = mem'[c].charge
    OBVIOUS
  <1>. HIDE DEF f, g
  <1>3. Sum(g, Blocks) + f[c] = Sum(f, Blocks) + g[c]
    BY <1>1, <1>2, SumOne, PoolAssumption
  <1>. QED
    BY <1>2, <1>3 DEF InMemory, f, g

LEMMA InMemorySame ==
  ASSUME \A a \in Blocks : mem'[a].charge = mem[a].charge
  PROVE  InMemory' = InMemory
  <1>. DEFINE f == [b \in Blocks |-> mem[b].charge]
              g == [b \in Blocks |-> mem'[b].charge]
  <1>1. \A b \in Blocks : g[b] = f[b]
    OBVIOUS
  <1>. HIDE DEF f, g
  <1>2. Sum(g, Blocks) = Sum(f, Blocks)
    BY <1>1, SumSame
  <1>. QED
    BY <1>2 DEF InMemory, f, g

\* Only what t has reserved changes.
LEMMA PendingStep ==
  ASSUME Types, Types', NEW t \in Threads,
         \A u \in Threads \ {t} : th'[u] = th[u]
  PROVE  /\ Pending' + th[t].res = Pending + th'[t].res
         /\ Promised' + GrantedTo(th[t]) = Promised + GrantedTo(th'[t])
  <1>. DEFINE f == [u \in Threads |-> th[u].res]
              g == [u \in Threads |-> th'[u].res]
              p == [u \in Threads |-> GrantedTo(th[u])]
              q == [u \in Threads |-> GrantedTo(th'[u])]
  <1>1. \A u \in Threads : f[u] \in Nat /\ g[u] \in Nat
    BY DEF Types, ThreadType
  <1>2. \A u \in Threads : p[u] \in Nat /\ q[u] \in Nat
    BY <1>1 DEF GrantedTo
  <1>3. /\ \A u \in Threads \ {t} : g[u] = f[u]
        /\ \A u \in Threads \ {t} : q[u] = p[u]
        /\ f[t] = th[t].res /\ g[t] = th'[t].res
        /\ p[t] = GrantedTo(th[t]) /\ q[t] = GrantedTo(th'[t])
    OBVIOUS
  <1>. HIDE DEF f, g, p, q
  <1>0. IsFiniteSet(Threads) /\ t \in Threads
    BY PoolAssumption
  <1>4. Sum(g, Threads) + f[t] = Sum(f, Threads) + g[t]
    BY ONLY <1>0, <1>1, <1>3, SumOne
  <1>5. Sum(q, Threads) + p[t] = Sum(p, Threads) + q[t]
    BY SMTT(40), <1>0, <1>2, <1>3, SumOne
  <1>. QED
    BY <1>3, <1>4, <1>5 DEF Pending, Promised, f, g, p, q

\* Only the buffer of c comes or goes.
LEMMA BuffersStep ==
  ASSUME NEW c \in Blocks,
         \A a \in Blocks \ {c} : mem'[a].loaded = mem[a].loaded
  PROVE  /\ InBuffers \in Nat /\ InBuffers' \in Nat
         /\ InBuffers' + Buffered(mem[c], c) = InBuffers + Buffered(mem'[c], c)
  <1>. DEFINE f == [b \in Blocks |-> Buffered(mem[b], b)]
              g == [b \in Blocks |-> Buffered(mem'[b], b)]
  <1>1. \A b \in Blocks : f[b] \in Nat /\ g[b] \in Nat
    BY PoolAssumption DEF Buffered
  <1>2. /\ \A b \in Blocks \ {c} : g[b] = f[b]
        /\ f[c] = Buffered(mem[c], c) /\ g[c] = Buffered(mem'[c], c)
    BY DEF Buffered
  <1>. HIDE DEF f, g
  <1>3. /\ Sum(f, Blocks) \in Nat /\ Sum(g, Blocks) \in Nat
        /\ Sum(g, Blocks) + f[c] = Sum(f, Blocks) + g[c]
    BY <1>1, <1>2, SumOne, PoolAssumption
  <1>. QED
    BY <1>2, <1>3 DEF InBuffers, f, g

LEMMA BuffersSame ==
  ASSUME \A a \in Blocks : mem'[a].loaded = mem[a].loaded
  PROVE  InBuffers' = InBuffers /\ InBuffers \in Nat
  <1>. DEFINE f == [b \in Blocks |-> Buffered(mem[b], b)]
              g == [b \in Blocks |-> Buffered(mem'[b], b)]
  <1>1. \A b \in Blocks : g[b] = f[b] /\ f[b] \in Nat
    BY PoolAssumption DEF Buffered
  <1>. HIDE DEF f, g
  <1>2. Sum(g, Blocks) = Sum(f, Blocks) /\ Sum(f, Blocks) \in Nat
    BY <1>1, SumSame, SumNat, PoolAssumption
  <1>. QED
    BY <1>2 DEF InBuffers, f, g

\* Buffers are charged, but for those in U.
LEMMA ChargedBuffers ==
  ASSUME NEW m, NEW U \in SUBSET Blocks,
         \A b \in Blocks :
            m[b].charge = IF m[b].loaded /\ b \notin U THEN Size[b] ELSE 0
  PROVE  /\ Sum(Size, U) \in Nat
         /\ Sum([b \in Blocks |-> Buffered(m[b], b)], Blocks)
              <= Sum([b \in Blocks |-> m[b].charge], Blocks) + Sum(Size, U)
  <1>. DEFINE f == [b \in Blocks |-> Buffered(m[b], b)]
              g == [b \in Blocks |-> m[b].charge]
  <1>1. \A b \in Blocks : /\ Size[b] \in Nat /\ f[b] \in Nat /\ g[b] \in Nat
                          /\ f[b] <= Size[b] /\ (b \notin U => f[b] = g[b])
    BY PoolAssumption DEF Buffered
  <1>. HIDE DEF f, g
  <1>2. IsFiniteSet(Blocks) /\ IsFiniteSet(U)
    BY PoolAssumption, FS_Subset
  <1>3. /\ Sum(f, U) \in Nat /\ Sum(f, Blocks \ U) \in Nat
        /\ Sum(f, Blocks) = Sum(f, U) + Sum(f, Blocks \ U)
    BY <1>1, <1>2, SumParts
  <1>4. /\ Sum(g, U) \in Nat /\ Sum(g, Blocks \ U) \in Nat
        /\ Sum(g, Blocks) = Sum(g, U) + Sum(g, Blocks \ U)
    BY <1>1, <1>2, SumParts
  <1>5. Sum(f, Blocks \ U) = Sum(g, Blocks \ U)
    BY <1>1, SumSame
  <1>6. Sum(f, U) <= Sum(Size, U)
    BY <1>1, <1>2, SumLess
  <1>7. Sum(Size, U) \in Nat
    BY <1>1, <1>2, SumNat
  <1>8. Sum(f, Blocks) <= Sum(g, Blocks) + Sum(Size, U)
    BY <1>3, <1>4, <1>5, <1>6, <1>7
  <1>. QED BY <1>7, <1>8 DEF f, g

\* What was checked against the limit, and what the check left out.
Assures ==
    assured' \in Nat /\ used' <= assured' /\ overdraft' = Sum(Size, Uncharged')

\* A grant that was checked makes the bound good.
LEMMA AssuredBound ==
  ASSUME Types', Charges', Assures, used' = InMemory' + Pending'
  PROVE  Bounded'
  <1>1. Uncharged' \in SUBSET Blocks
    <2>1. \A u \in Threads : th'[u].pc = "convert" => th'[u].blk \in Blocks
      BY DEF Types, WellFormed, Blocks
    <2>. QED BY <2>1 DEF Uncharged
  <1>2. /\ Sum(Size, Uncharged') \in Nat
        /\ InBuffers' <= InMemory' + Sum(Size, Uncharged')
    <2>1. \A b \in Blocks :
             mem'[b].charge = IF mem'[b].loaded /\ b \notin Uncharged'
                              THEN Size[b] ELSE 0
      BY DEF Charges
    <2>2. PICK U \in SUBSET Blocks : U = Uncharged'
      BY <1>1
    <2>3. PICK m : m = mem'
      OBVIOUS
    <2>4. /\ Sum(Size, U) \in Nat
          /\ Sum([b \in Blocks |-> Buffered(m[b], b)], Blocks)
               <= Sum([b \in Blocks |-> m[b].charge], Blocks) + Sum(Size, U)
      BY <2>1, <2>2, <2>3, ChargedBuffers
    <2>. QED BY <2>2, <2>3, <2>4 DEF InBuffers, InMemory
  <1>3. /\ InMemory' \in Nat /\ Pending' \in Nat /\ Promised' \in Nat
        /\ Promised' <= Pending'
    BY MemorySumsPrimed
  <1>4. InBuffers' \in Nat
    BY BuffersStep, SumNat, PoolAssumption DEF InBuffers, Buffered
  <1>5. /\ assured' \in Nat /\ InMemory' + Pending' <= assured'
        /\ overdraft' = Sum(Size, Uncharged')
    BY DEF Assures
  <1>6. InBuffers' + Promised' <= assured' + overdraft'
    <2>1. PICK i, m, s, r, g, a : /\ i = InBuffers' /\ m = InMemory'
                                  /\ s = Sum(Size, Uncharged') /\ r = Pending'
                                  /\ g = Promised' /\ a = assured'
      OBVIOUS
    <2>2. /\ i \in Nat /\ m \in Nat /\ s \in Nat /\ r \in Nat /\ g \in Nat /\ a \in Nat
          /\ i <= m + s /\ g <= r /\ m + r <= a
      BY <1>2, <1>3, <1>4, <1>5, <2>1
    <2>3. i + g <= a + s
      BY ONLY <2>2
    <2>. QED BY <2>1, <2>3, <1>5
  <1>. QED BY <1>2, <1>5, <1>6 DEF Bounded

\* A thread that does not convert leaves the conversions alone.
LEMMA UnchargedSame ==
  ASSUME NEW t \in Threads, \A u \in Threads \ {t} : th'[u] = th[u],
         th[t].pc # "convert", th'[t].pc # "convert",
         \A u \in Threads : th[u].pc = "convert" =>
            mem'[th[u].blk].charge = mem[th[u].blk].charge
  PROVE  Uncharged' = Uncharged
  BY DEF Uncharged

\* Moving a term to the other side.
LEMMA Solve ==
  ASSUME NEW x \in Int, NEW a \in Int, NEW y \in Int, x + a = y
  PROVE  x = y - a
  OBVIOUS

\* A step whose change to used is the change to the charge of c and to the
\* reservation of t keeps the balance, and the bound if it grants nothing that
\* was not in memory, or grants what it checked.
LEMMA BalanceStep ==
  ASSUME Types, Types', AccountInv, Charges', NEW t \in Threads, NEW c \in Blocks,
         \A u \in Threads \ {t} : th'[u] = th[u],
         \A a \in Blocks \ {c} : /\ mem'[a].charge = mem[a].charge
                                 /\ mem'[a].loaded = mem[a].loaded,
         used' + mem[c].charge + th[t].res = used + mem'[c].charge + th'[t].res,
         used' \in Int,
         \/ /\ history' = history
            /\ Buffered(mem'[c], c) + GrantedTo(th'[t])
                 <= Buffered(mem[c], c) + GrantedTo(th[t])
         \/ Assures
  PROVE  Balance' /\ Bounded'
  <1>1. InMemory' + mem[c].charge = InMemory + mem'[c].charge
    BY InMemoryStep
  <1>2. /\ Pending' + th[t].res = Pending + th'[t].res
        /\ Promised' + GrantedTo(th[t]) = Promised + GrantedTo(th'[t])
    BY PendingStep
  <1>3. /\ InMemory \in Nat /\ Pending \in Nat /\ Promised \in Nat
        /\ InMemory' \in Nat /\ Pending' \in Nat /\ Promised' \in Nat
    BY MemorySums, MemorySumsPrimed
  <1>4. /\ mem[c].charge \in Nat /\ mem'[c].charge \in Nat
        /\ th[t].res \in Nat /\ th'[t].res \in Nat
    BY DEF Types, MemoryType, ThreadType
  <1>5. GrantedTo(th[t]) \in Nat /\ GrantedTo(th'[t]) \in Nat
    BY <1>4 DEF GrantedTo
  <1>6. /\ used = InMemory + Pending /\ assured \in Nat /\ overdraft \in Nat
        /\ InBuffers + Promised <= assured + overdraft
    BY DEF AccountInv, Balance, Bounded
  <1>0. /\ used' + mem[c].charge + th[t].res = used + mem'[c].charge + th'[t].res
        /\ used' \in Int
    OBVIOUS
  <1>7. used' = InMemory' + Pending'
    <2>1. used' + mem[c].charge + th[t].res
            = (InMemory + Pending) + mem'[c].charge + th'[t].res
      BY <1>0, <1>6
    <2>2. InMemory' = (InMemory + mem'[c].charge) - mem[c].charge
      BY ONLY <1>1, <1>3, <1>4, Solve
    <2>3. Pending' = (Pending + th'[t].res) - th[t].res
      BY ONLY <1>2, <1>3, <1>4, Solve
    <2>4. used' \in Int
      BY <1>0
    <2>. QED BY ONLY <2>1, <2>2, <2>3, <2>4, <1>3, <1>4
  <1>8. CASE /\ history' = history
             /\ Buffered(mem'[c], c) + GrantedTo(th'[t])
                  <= Buffered(mem[c], c) + GrantedTo(th[t])
    <2>1. /\ InBuffers \in Nat /\ InBuffers' \in Nat
          /\ InBuffers' + Buffered(mem[c], c) = InBuffers + Buffered(mem'[c], c)
      BY BuffersStep
    <2>2. Buffered(mem[c], c) \in Nat /\ Buffered(mem'[c], c) \in Nat
      BY PoolAssumption DEF Buffered
    <2>3. PICK m, m2, p, p2 : /\ m = InBuffers /\ m2 = InBuffers'
                              /\ p = Promised /\ p2 = Promised'
      OBVIOUS
    <2>4. PICK x, x2, g, g2, a :
            /\ x = Buffered(mem[c], c) /\ x2 = Buffered(mem'[c], c)
            /\ g = GrantedTo(th[t]) /\ g2 = GrantedTo(th'[t])
            /\ a = assured + overdraft
      OBVIOUS
    <2>5. /\ m \in Nat /\ m2 \in Nat /\ p \in Nat /\ p2 \in Nat
          /\ x \in Nat /\ x2 \in Nat /\ g \in Nat /\ g2 \in Nat /\ a \in Nat
      BY <1>3, <1>5, <1>6, <2>1, <2>2, <2>3, <2>4
    <2>6. m2 + x = m + x2 /\ p2 + g = p + g2 /\ x2 + g2 <= x + g /\ m + p <= a
      BY <1>2, <1>6, <1>8, <2>1, <2>3, <2>4
    <2>7. m2 + p2 <= a
      BY ONLY <2>5, <2>6
    <2>8. assured' = assured /\ overdraft' = overdraft
      BY <1>8 DEF history
    <2>. QED BY <1>6, <1>7, <2>3, <2>4, <2>7, <2>8 DEF Balance, Bounded
  <1>9. CASE Assures
    BY <1>7, <1>9, AssuredBound DEF Balance
  <1>. QED
    BY <1>8, <1>9

\* The same for a step that changes no charge.
LEMMA BalanceThread ==
  ASSUME Types, Types', AccountInv, Charges', NEW t \in Threads,
         \A u \in Threads \ {t} : th'[u] = th[u],
         \A a \in Blocks : /\ mem'[a].charge = mem[a].charge
                           /\ mem'[a].loaded = mem[a].loaded,
         used' + th[t].res = used + th'[t].res, used' \in Int,
         \/ history' = history /\ GrantedTo(th'[t]) <= GrantedTo(th[t])
         \/ Assures
  PROVE  Balance' /\ Bounded'
  <1>1. InMemory' = InMemory
    BY InMemorySame
  <1>2. /\ Pending' + th[t].res = Pending + th'[t].res
        /\ Promised' + GrantedTo(th[t]) = Promised + GrantedTo(th'[t])
    BY PendingStep
  <1>3. /\ InMemory \in Nat /\ Pending \in Nat /\ Promised \in Nat
        /\ InMemory' \in Nat /\ Pending' \in Nat /\ Promised' \in Nat
    BY MemorySums, MemorySumsPrimed
  <1>4. th[t].res \in Nat /\ th'[t].res \in Nat
    BY DEF Types, ThreadType
  <1>5. GrantedTo(th[t]) \in Nat /\ GrantedTo(th'[t]) \in Nat
    BY <1>4 DEF GrantedTo
  <1>6. /\ used = InMemory + Pending /\ assured \in Nat /\ overdraft \in Nat
        /\ InBuffers + Promised <= assured + overdraft
    BY DEF AccountInv, Balance, Bounded
  <1>0. used' + th[t].res = used + th'[t].res /\ used' \in Int
    OBVIOUS
  <1>7. used' = InMemory' + Pending'
    <2>1. used' + th[t].res = (InMemory + Pending) + th'[t].res
      BY <1>0, <1>6
    <2>3. Pending' = (Pending + th'[t].res) - th[t].res
      BY ONLY <1>2, <1>3, <1>4, Solve
    <2>4. used' \in Int
      BY <1>0
    <2>5. PICK m, x, x2, r, r2, v : /\ m = InMemory /\ x = Pending /\ x2 = Pending'
                                    /\ r = th[t].res /\ r2 = th'[t].res /\ v = used'
      OBVIOUS
    <2>6. /\ m \in Nat /\ x \in Nat /\ x2 \in Nat /\ r \in Nat /\ r2 \in Nat
          /\ v \in Int /\ v + r = (m + x) + r2 /\ x2 = (x + r2) - r
      BY <2>1, <2>3, <2>4, <2>5, <1>3, <1>4
    <2>7. v = m + x2
      BY ONLY <2>6
    <2>. QED BY <2>5, <2>7, <1>1
  <1>8. CASE history' = history /\ GrantedTo(th'[t]) <= GrantedTo(th[t])
    <2>1. InBuffers' = InBuffers /\ InBuffers \in Nat
      BY BuffersSame
    <2>2. assured' = assured /\ overdraft' = overdraft
      BY <1>8 DEF history
    <2>3. InBuffers + Promised' <= assured + overdraft
      <3>1. PICK i, x, x2, g, g2, a :
              /\ i = InBuffers /\ x = Promised /\ x2 = Promised'
              /\ g = GrantedTo(th[t]) /\ g2 = GrantedTo(th'[t])
              /\ a = assured + overdraft
        OBVIOUS
      <3>2. /\ i \in Nat /\ x \in Nat /\ x2 \in Nat /\ g \in Nat /\ g2 \in Nat /\ a \in Nat
            /\ x2 + g = x + g2 /\ g2 <= g /\ i + x <= a
        BY <1>2, <1>3, <1>5, <1>6, <1>8, <2>1, <3>1
      <3>3. i + x2 <= a
        BY ONLY <3>2
      <3>. QED BY <3>1, <3>3
    <2>. QED BY <1>6, <1>7, <2>1, <2>2, <2>3 DEF Balance, Bounded
  <1>9. CASE Assures
    BY <1>7, <1>9, AssuredBound DEF Balance
  <1>. QED
    BY <1>8, <1>9

-----------------------------------------------------------------------------
(* Sequence numbers *)

\* A block is queued as often as threads had pinned it.
LEMMA SequencedStep ==
  ASSUME Types, Types', Sequenced,
         \A t \in Threads : th'[t].pc = "enqueue" => th'[t].blk \notin pins'[t],
         \A b \in Blocks :
           \/ mem'[b].seq = mem[b].seq /\ Queueing(b)' \subseteq Queueing(b)
           \/ mem'[b].seq <= MaxInserts
           \/ \E t \in Queueing(b) : /\ mem'[b].seq = mem[b].seq + 1
                                     /\ Queueing(b)' \subseteq Queueing(b) \ {t}
  PROVE  Sequenced'
  <1>. SUFFICES ASSUME NEW b \in Blocks
                PROVE  mem'[b].seq + Cardinality(Queueing(b)')
                         <= MaxInserts + Cardinality(Threads)
    BY DEF Sequenced
  <1>. DEFINE Q == Queueing(b)
              R == Queueing(b)'
  <1>1. /\ IsFiniteSet(Threads) /\ Cardinality(Threads) \in Nat /\ MaxInserts \in Nat
        /\ Q \subseteq Threads /\ R \subseteq Threads
    BY PoolAssumption, FS_CardinalityType DEF Queueing
  <1>2. mem[b].seq \in Nat /\ mem'[b].seq \in Nat
    BY DEF Types, MemoryType
  <1>3. mem[b].seq + Cardinality(Q) <= MaxInserts + Cardinality(Threads)
    BY DEF Sequenced
  <1>. HIDE DEF Q, R
  <1>4. /\ IsFiniteSet(Q) /\ IsFiniteSet(R)
        /\ Cardinality(Q) <= Cardinality(Threads)
        /\ Cardinality(R) <= Cardinality(Threads)
    BY <1>1, FS_Subset
  <1>5. Cardinality(Q) \in Nat /\ Cardinality(R) \in Nat
    BY <1>4, FS_CardinalityType
  <1>6. CASE mem'[b].seq = mem[b].seq /\ R \subseteq Q
    <2>1. Cardinality(R) <= Cardinality(Q)
      BY <1>4, <1>6, FS_Subset
    <2>. QED BY <2>1, <1>1, <1>2, <1>3, <1>5, <1>6 DEF R
  <1>7. CASE mem'[b].seq <= MaxInserts
    BY <1>1, <1>2, <1>4, <1>5, <1>7 DEF R
  <1>8. CASE \E t \in Q : mem'[b].seq = mem[b].seq + 1 /\ R \subseteq Q \ {t}
    <2>1. PICK t \in Q : mem'[b].seq = mem[b].seq + 1 /\ R \subseteq Q \ {t}
      BY <1>8
    <2>2. IsFiniteSet(Q \ {t}) /\ Cardinality(Q \ {t}) = Cardinality(Q) - 1
      BY <1>4, FS_RemoveElement
    <2>3. Cardinality(R) <= Cardinality(Q) - 1
      BY <2>1, <2>2, FS_Subset
    <2>. QED BY <2>1, <2>3, <1>1, <1>2, <1>3, <1>5 DEF R
  <1>. QED
    BY <1>6, <1>7, <1>8 DEF Q, R

\* Nothing is queued more often by a step that pins nothing and starts nothing.
LEMMA SequencedKept ==
  ASSUME Types, Types', Sequenced, NEW t \in Threads,
         \A u \in Threads \ {t} : th'[u] = th[u] /\ pins'[u] \subseteq pins[u],
         pins'[t] \subseteq pins[t], th'[t].pc # "enqueue",
         th'[t].op \in {"pin", "allocate"} =>
            th'[t].op = th[t].op /\ th'[t].blk = th[t].blk,
         \A b \in Blocks : mem'[b].seq = mem[b].seq
  PROVE  Sequenced'
  <1>1. \A u \in Threads : th'[u].pc = "enqueue" => th'[u].blk \notin pins'[u]
    BY DEF Sequenced
  <1>2. \A b \in Blocks : Queueing(b)' \subseteq Queueing(b)
    BY DEF Queueing
  <1>. QED
    BY <1>1, <1>2, SequencedStep

\* A step of one thread that changes no buffer.
LEMMA AccountThread ==
  ASSUME Types, Types', AccountInv, NEW t \in Threads,
         \A u \in Threads \ {t} : th'[u] = th[u],
         \A a \in Blocks : /\ mem'[a].charge = mem[a].charge
                           /\ mem'[a].loaded = mem[a].loaded
                           /\ mem'[a].seq = mem[a].seq,
         th[t].pc # "convert", th'[t].pc # "convert",
         UNCHANGED pins, limit' \in Limits, tempDir' \in {"unset", "set", "used"},
         Reserved(th'[t]), th'[t].pc # "enqueue",
         th'[t].op \in {"pin", "allocate"} =>
            th'[t].op = th[t].op /\ th'[t].blk = th[t].blk,
         used' + th[t].res = used + th'[t].res, used' \in Int,
         \/ history' = history /\ GrantedTo(th'[t]) <= GrantedTo(th[t])
         \/ Assures
  PROVE  AccountInv'
  <1>1. Reservations'
    BY DEF AccountInv, Reservations
  <1>2. Charges'
    <2>1. \A u \in Threads : th[u].pc = "convert" => th[u].blk \in Blocks
      BY DEF Types, WellFormed, Blocks
    <2>2. Uncharged' = Uncharged
      BY <2>1, UnchargedSame
    <2>. QED BY <2>2 DEF AccountInv, Charges
  <1>3. Balance' /\ Bounded'
    BY <1>2, BalanceThread
  <1>4. Sequenced'
    BY SequencedKept DEF AccountInv
  <1>. QED
    BY <1>1, <1>2, <1>3, <1>4 DEF AccountInv, Settings

-----------------------------------------------------------------------------
(* <action>Account says that the action keeps AccountInv *)

\* The numbers of the pool.
LEMMA AccountNumbers ==
  ASSUME Types, AccountInv
  PROVE  /\ used \in Nat /\ assured \in Nat
         /\ \A t \in Threads : /\ th[t].res \in Nat /\ th[t].need \in Nat
                               /\ th[t].lim \in Nat
         /\ \A b \in Blocks : mem[b].charge \in Nat
  <1>1. used \in Nat
    BY MemorySums DEF AccountInv, Balance
  <1>. QED
    BY <1>1 DEF AccountInv, Bounded, Types, ThreadType, MemoryType

LEMMA MaxOfTwo ==
  ASSUME NEW a \in Nat, NEW b \in Nat
  PROVE  Max({a, b}) \in Nat /\ b <= Max({a, b})
  <1>1. \E x \in {a, b} : \A y \in {a, b} : x >= y
    OBVIOUS
  <1>2. Max({a, b}) \in {a, b} /\ \A y \in {a, b} : Max({a, b}) >= y
    BY <1>1 DEF Max
  <1>. QED
    BY <1>2

\* The fields of a thread that moves on.
LEMMA MovesFields ==
  ASSUME Types, NEW t \in Threads, NEW pc, NEW node, NEW res, NEW q,
         MovesTo(t, pc, node, res, q)
  PROVE  /\ \A u \in Threads \ {t} : th'[u] = th[u]
         /\ th'[t].pc = pc /\ th'[t].res = res
         /\ th'[t].op = th[t].op /\ th'[t].blk = th[t].blk
         /\ th'[t].need = th[t].need /\ th'[t].lim = th[t].lim
         /\ th'[t].old = th[t].old
  BY DEF Types, ThreadType, MovesTo

LEMMA GrantIs ==
  ASSUME Types, NEW t \in Threads, Grant(t)
  PROVE  MovesTo(t, "granted", Idle.node, th[t].need, th[t].q)
  BY DEF Grant, MovesTo, Types, ThreadType

LEMMA IterateIs ==
  ASSUME Types, NEW t \in Threads,
         th' = [th EXCEPT ![t].pc = "iterate", ![t].node = Idle.node]
  PROVE  MovesTo(t, "iterate", Idle.node, th[t].res, th[t].q)
  BY DEF MovesTo, Types, ThreadType

LEMMA VisitIs ==
  ASSUME Types, NEW t \in Threads, NEW n,
         th' = [th EXCEPT ![t].pc = "visit", ![t].node = n]
  PROVE  MovesTo(t, "visit", n, th[t].res, th[t].q)
  BY DEF MovesTo, Types, ThreadType

LEMMA NextQueueIs ==
  ASSUME Types, NEW t \in Threads, NextQueue(t)
  PROVE  MovesTo(t, "reserve", Idle.node, 0, th[t].q + 1)
  BY DEF NextQueue, MovesTo, Types, ThreadType

\* A thread that moves on with its eviction.
LEMMA AccountMoves ==
  ASSUME Types, Types', AccountInv, NEW t \in Threads,
         NEW pc \in Evicting, NEW node, NEW res \in Nat, NEW q, th[t].pc # "convert",
         MovesTo(t, pc, node, res, q),
         res = IF pc \in {"iterate", "visit", "granted"} THEN th[t].need ELSE 0,
         \A a \in Blocks : /\ mem'[a].charge = mem[a].charge
                           /\ mem'[a].loaded = mem[a].loaded
                           /\ mem'[a].seq = mem[a].seq,
         UNCHANGED <<pins, limit>>, tempDir' \in {"unset", "set", "used"},
         used' + th[t].res = used + res, used' \in Int,
         \/ history' = history /\ (pc # "granted" \/ th[t].pc = "granted")
         \/ Assures
  PROVE  AccountInv'
  <1>1. /\ \A u \in Threads \ {t} : th'[u] = th[u]
        /\ th'[t].pc = pc /\ th'[t].res = res
        /\ th'[t].op = th[t].op /\ th'[t].blk = th[t].blk
        /\ th'[t].need = th[t].need /\ th'[t].lim = th[t].lim
        /\ th'[t].old = th[t].old
    BY MovesFields
  <1>2. Reserved(th[t])
    BY DEF AccountInv, Reservations
  <1>3. Reserved(th'[t]) /\ pc # "enqueue" /\ pc # "convert"
    BY <1>1, <1>2 DEF Reserved, Evicting
  <1>4. th[t].res \in Nat /\ th[t].need \in Nat
    BY AccountNumbers
  <1>5. \/ history' = history /\ GrantedTo(th'[t]) <= GrantedTo(th[t])
        \/ Assures
    <2>1. CASE pc # "granted"
      <3>1. GrantedTo(th'[t]) = 0 /\ GrantedTo(th[t]) \in Nat
        BY <1>1, <1>4, <2>1 DEF GrantedTo
      <3>. QED BY <3>1
    <2>2. CASE th[t].pc = "granted" /\ pc = "granted"
      <3>1. GrantedTo(th'[t]) = th[t].need /\ GrantedTo(th[t]) = th[t].need
        BY <1>1, <1>2, <2>2 DEF GrantedTo, Reserved
      <3>. QED BY <3>1, <1>4
    <2>. QED BY <2>1, <2>2
  <1>6. limit' \in Limits
    BY DEF AccountInv, Settings
  <1>. QED
    BY <1>1, <1>3, <1>5, <1>6, AccountThread

\* A thread that ends its operation returns what it had reserved.
LEMMA AccountIdle ==
  ASSUME Types, Types', AccountInv, NEW t \in Threads,
         th[t].pc # "convert", th' = [th EXCEPT ![t] = Idle],
         \A a \in Blocks : /\ mem'[a].charge = mem[a].charge
                           /\ mem'[a].loaded = mem[a].loaded
                           /\ mem'[a].seq = mem[a].seq,
         UNCHANGED <<pins, history>>, limit' \in Limits,
         tempDir' \in {"unset", "set", "used"},
         used' = used - th[t].res
  PROVE  AccountInv'
  <1>1. th'[t] = Idle /\ \A u \in Threads \ {t} : th'[u] = th[u]
    BY DEF Types
  <1>2. /\ Idle.pc = "idle" /\ Idle.op = "none" /\ Idle.res = 0
        /\ Reserved(Idle) /\ GrantedTo(Idle) = 0
    BY DEF Idle, Reserved, GrantedTo
  <1>3. used \in Nat /\ th[t].res \in Nat
    BY AccountNumbers
  <1>4. used' + th[t].res = used + 0 /\ used' \in Int
    BY <1>3
  <1>5. GrantedTo(th[t]) \in Nat
    BY <1>3 DEF GrantedTo
  <1>. QED
    BY <1>1, <1>2, <1>4, <1>5, AccountThread

\* The limit that was checked is the one that is assured.
LEMMA GrantAssures ==
  ASSUME Types, AccountInv, NEW t \in Threads, Grant(t), used' \in Int,
         used' <= th[t].lim, Uncharged' = Uncharged
  PROVE  Assures
  <1>1. th[t].lim \in Nat /\ assured \in Nat
    BY AccountNumbers
  <1>2. Max({assured, th[t].lim}) \in Nat /\ th[t].lim <= Max({assured, th[t].lim})
    BY <1>1, MaxOfTwo
  <1>3. /\ assured' = th[t].lim \/ assured' = Max({assured, th[t].lim})
        /\ overdraft' = Sum(Size, Uncharged)
    BY DEF Grant
  <1>. QED
    BY <1>1, <1>2, <1>3 DEF Assures

LEMMA EvictReserveAccount ==
  ASSUME Types, Types', AccountInv, NEW t \in Threads, EvictReserve(t)
  PROVE  AccountInv'
  <1>1. th[t].pc = "reserve" /\ used' = used + th[t].need
    BY DEF EvictReserve, At
  <1>2. UNCHANGED <<mem, pins, limit, tempDir>>
    BY DEF EvictReserve
  <1>3. used \in Nat /\ th[t].need \in Nat /\ th[t].res = 0
    BY <1>1, AccountNumbers DEF AccountInv, Reservations, Reserved
  <1>4. used' + th[t].res = used + th[t].need /\ used' \in Int
    BY <1>1, <1>3
  <1>5. CASE Grant(t) /\ used' <= th[t].lim
    <2>1. MovesTo(t, "granted", Idle.node, th[t].need, th[t].q)
      BY <1>5, GrantIs
    <2>2. Uncharged' = Uncharged
      BY <1>1, <1>2, <2>1, MovesFields, UnchargedSame
    <2>3. Assures
      BY <1>4, <1>5, <2>2, GrantAssures
    <2>. QED
      BY <2>1, <2>3, <1>1, <1>2, <1>3, <1>4, AccountMoves DEF Evicting, AccountInv, Settings
  <1>6. CASE /\ th' = [th EXCEPT ![t].pc = "iterate", ![t].res = th[t].need]
             /\ history' = history
    <2>1. MovesTo(t, "iterate", th[t].node, th[t].need, th[t].q)
      BY ZenonT(60), <1>6 DEF MovesTo, Types, ThreadType
    <2>. QED
      BY <2>1, <1>1, <1>2, <1>3, <1>4, <1>6, AccountMoves
         DEF Evicting, AccountInv, Settings
  <1>. QED
    BY <1>5, <1>6 DEF EvictReserve

LEMMA EvictDequeueAccount ==
  ASSUME Types, Types', AccountInv, NEW t \in Threads, EvictDequeue(t)
  PROVE  AccountInv'
  <1>1. th[t].pc = "iterate" /\ UNCHANGED <<mem, pins, limit, tempDir, used, history>>
    BY DEF EvictDequeue, At
  <1>2. used \in Nat /\ th[t].need \in Nat /\ th[t].res = th[t].need
    BY <1>1, AccountNumbers DEF AccountInv, Reservations, Reserved
  <1>3. used' + th[t].res = used + th[t].need /\ used' \in Int
    BY <1>1, <1>2
  <1>4. CASE \E n : th' = [th EXCEPT ![t].pc = "visit", ![t].node = n]
    <2>1. PICK n : th' = [th EXCEPT ![t].pc = "visit", ![t].node = n]
      BY <1>4
    <2>2. MovesTo(t, "visit", n, th[t].need, th[t].q)
      BY <2>1, <1>2, VisitIs
    <2>. QED
      BY <2>2, <1>1, <1>2, <1>3, AccountMoves DEF Evicting, AccountInv, Settings
  <1>5. CASE UNCHANGED th
    <2>1. MovesTo(t, "iterate", th[t].node, th[t].need, th[t].q)
      BY <1>1, <1>2, <1>5 DEF MovesTo, Types, ThreadType
    <2>. QED
      BY <2>1, <1>1, <1>2, <1>3, AccountMoves DEF Evicting, AccountInv, Settings
  <1>. QED
    BY <1>4, <1>5 DEF EvictDequeue

\* SetLimit that gives up goes back to a limit.
LEMMA GiveUpAccount ==
  ASSUME Types, Types', AccountInv, NEW t \in Threads, NEW thrown, GiveUp(t, thrown),
         \A a \in Blocks : /\ mem'[a].charge = mem[a].charge
                           /\ mem'[a].loaded = mem[a].loaded
                           /\ mem'[a].seq = mem[a].seq,
         UNCHANGED <<pins, history>>, tempDir' \in {"unset", "set", "used"},
         th[t].pc # "convert", used' = used - th[t].res
  PROVE  AccountInv'
  <1>1. limit' \in Limits
    BY DEF GiveUp, AccountInv, Reservations, Reserved, Settings
  <1>. QED
    BY <1>1, AccountIdle DEF GiveUp

LEMMA NextQueueAccount ==
  ASSUME Types, Types', AccountInv, NEW t \in Threads, NextQueue(t),
         \A a \in Blocks : /\ mem'[a].charge = mem[a].charge
                           /\ mem'[a].loaded = mem[a].loaded
                           /\ mem'[a].seq = mem[a].seq,
         UNCHANGED <<pins, history>>, tempDir' \in {"unset", "set", "used"},
         th[t].pc # "convert", used' = used - th[t].res
  PROVE  AccountInv'
  <1>1. MovesTo(t, "reserve", Idle.node, 0, th[t].q + 1)
    BY NextQueueIs
  <1>2. used \in Nat /\ th[t].res \in Nat
    BY AccountNumbers
  <1>3. used' + th[t].res = used + 0 /\ used' \in Int
    BY <1>2
  <1>4. limit' = limit
    BY DEF NextQueue
  <1>. QED
    BY <1>1, <1>3, <1>4, AccountMoves DEF Evicting

LEMMA EvictExhaustedAccount ==
  ASSUME Types, Types', AccountInv, NEW t \in Threads, EvictExhausted(t)
  PROVE  AccountInv'
  <1>1. /\ UNCHANGED <<mem, pins, history>> /\ used' = used - th[t].res
        /\ th[t].pc = "iterate" /\ tempDir' \in {"unset", "set", "used"}
    BY DEF EvictExhausted, At, AccountInv, Settings
  <1>2. CASE NextQueue(t)
    BY <1>1, <1>2, NextQueueAccount
  <1>3. CASE GiveUp(t, FALSE)
    BY <1>1, <1>3, GiveUpAccount
  <1>. QED
    BY <1>2, <1>3 DEF EvictExhausted

\* A change of has_queue_entry is no change of a buffer.
LEMMA EntryChange ==
  ASSUME Types, NEW b \in Blocks, NEW e, mem' = [mem EXCEPT ![b].entry = e]
  PROVE  \A a \in Blocks : /\ mem'[a].charge = mem[a].charge
                           /\ mem'[a].loaded = mem[a].loaded
                           /\ mem'[a].seq = mem[a].seq
  BY DEF Types, MemoryType

\* Unloading b, then going on or taking what was asked for.
LEMMA VisitUnloadAccount ==
  ASSUME Types, Types', AccountInv, NEW t \in Threads, th[t].pc = "visit",
         NEW b \in Blocks, VisitUnload(t, b), ~Locked(b), UNCHANGED pins
  PROVE  AccountInv'
  <1>1. /\ \A a \in Blocks \ {b} : mem'[a] = mem[a]
        /\ mem'[b] = [Unloaded(mem[b]) EXCEPT !.entry = FALSE]
        /\ mem[b].loaded /\ limit' = limit /\ used' = used - mem[b].charge
        /\ tempDir' \in {tempDir, "used"}
    BY DEF VisitUnload, AfterUnload, CanUnload, Types, MemoryType
  <1>2. mem'[b].loaded = FALSE /\ mem'[b].charge = 0 /\ mem'[b].seq = mem[b].seq
    BY <1>1 DEF Types, MemoryType, Unloaded
  <1>3. /\ used \in Nat /\ th[t].need \in Nat /\ mem[b].charge \in Nat
        /\ assured \in Nat
    BY AccountNumbers
  <1>0. b \notin Uncharged /\ \A u \in Threads : th[u].pc = "convert" => th[u].blk # b
    BY DEF Locked, Uncharged
  <1>4. Reserved(th[t]) /\ th[t].res = th[t].need /\ mem[b].charge = Size[b]
    BY <1>0, <1>1 DEF AccountInv, Reservations, Reserved, Charges
  <1>5. Uncharged' = Uncharged
    <2>1. /\ \A u \in Threads \ {t} : th'[u] = th[u]
          /\ th'[t].pc \in {"granted", "iterate"}
      BY DEF VisitUnload, AfterUnload, Grant, Types, ThreadType
    <2>2. \A u \in Threads : th[u].pc = "convert" => th[u].blk \in Blocks
      BY DEF Types, WellFormed, Blocks
    <2>. QED BY <1>0, <1>1, <2>1, <2>2, UnchargedSame
  <1>15. Charges'
    BY <1>1, <1>2, <1>5 DEF AccountInv, Charges
  <1>6. used' \in Int /\ used' + mem[b].charge + th[t].need = used + 0 + th[t].need
    BY <1>1, <1>3
  <1>7. PICK pc \in {"iterate", "granted"} :
           /\ MovesTo(t, pc, Idle.node, th[t].need, th[t].q)
           /\ \/ history' = history /\ pc = "granted" /\ th[t].need = mem[b].charge
              \/ history' = history /\ pc = "iterate"
              \/ Assures
    <2>1. CASE /\ TakesBuffer(t, b) /\ history' = history
               /\ th' = [th EXCEPT ![t].pc = "granted", ![t].node = Idle.node]
      <3>1. MovesTo(t, "granted", Idle.node, th[t].res, th[t].q)
        BY ZenonT(60), <2>1 DEF MovesTo, Types, ThreadType
      <3>. QED BY <3>1, <2>1, <1>4 DEF TakesBuffer
    <2>2. CASE used' <= th[t].lim /\ Grant(t)
      BY <2>2, <1>5, <1>6, GrantIs, GrantAssures
    <2>3. CASE /\ history' = history
               /\ th' = [th EXCEPT ![t].pc = "iterate", ![t].node = Idle.node]
      BY <2>3, <1>4, IterateIs
    <2>. QED
      BY <2>1, <2>2, <2>3 DEF VisitUnload, AfterUnload
  <1>8. /\ \A u \in Threads \ {t} : th'[u] = th[u]
        /\ th'[t].pc = pc /\ th'[t].res = th[t].need
        /\ th'[t].op = th[t].op /\ th'[t].blk = th[t].blk
        /\ th'[t].need = th[t].need /\ th'[t].lim = th[t].lim
        /\ th'[t].old = th[t].old
    BY <1>7, MovesFields
  <1>9. Reserved(th'[t])
    BY <1>4, <1>8 DEF Reserved
  <1>10. Reservations'
    BY <1>8, <1>9 DEF AccountInv, Reservations
  <1>11. GrantedTo(th[t]) = 0
    BY DEF GrantedTo
  <1>16. Buffered(mem[b], b) = mem[b].charge /\ Buffered(mem'[b], b) = 0
    BY <1>1, <1>2, <1>4 DEF Buffered
  <1>12. \/ /\ history' = history
            /\ Buffered(mem'[b], b) + GrantedTo(th'[t])
                 <= Buffered(mem[b], b) + GrantedTo(th[t])
         \/ Assures
    <2>1. CASE pc = "granted" /\ history' = history /\ th[t].need = mem[b].charge
      <3>1. GrantedTo(th'[t]) = mem[b].charge
        BY <2>1, <1>8 DEF GrantedTo
      <3>. QED BY <3>1, <2>1, <1>2, <1>3, <1>11, <1>16
    <2>2. CASE pc = "iterate" /\ history' = history
      <3>1. GrantedTo(th'[t]) = 0
        BY <2>2, <1>8 DEF GrantedTo
      <3>. QED BY <3>1, <2>2, <1>2, <1>3, <1>11, <1>16
    <2>. QED BY <1>7, <2>1, <2>2
  <1>13. Balance' /\ Bounded'
    <2>1. used' + mem[b].charge + th[t].res = used + mem'[b].charge + th'[t].res
      BY <1>2, <1>4, <1>6, <1>8
    <2>2. \A a \in Blocks \ {b} : /\ mem'[a].charge = mem[a].charge
                                  /\ mem'[a].loaded = mem[a].loaded
      BY <1>1
    <2>3. used' \in Int /\ \A u \in Threads \ {t} : th'[u] = th[u]
      BY <1>6, <1>8
    <2>. QED BY <2>1, <2>2, <2>3, <1>12, <1>15, BalanceStep
  <1>14. Sequenced'
    BY <1>1, <1>2, <1>8, SequencedKept DEF AccountInv
  <1>. QED
    BY <1>1, <1>15, <1>10, <1>13, <1>14 DEF AccountInv, Settings

LEMMA EvictVisitAccount ==
  ASSUME Types, Types', AccountInv, NEW t \in Threads, EvictVisit(t)
  PROVE  AccountInv'
  <1>. DEFINE b == th[t].node[1]
  <1>1. b \in Blocks /\ th[t].pc = "visit" /\ ~Locked(b) /\ UNCHANGED pins
    BY DEF EvictVisit, At, Types, WellFormed
  <1>9. tempDir \in {"unset", "set", "used"}
    BY DEF AccountInv, Settings
  <1>. HIDE DEF b
  <1>2. used \in Nat /\ th[t].need \in Nat /\ th[t].res = th[t].need
    BY <1>1, AccountNumbers DEF AccountInv, Reservations, Reserved
  <1>3. CASE /\ \A a \in Blocks : /\ mem'[a].charge = mem[a].charge
                                  /\ mem'[a].loaded = mem[a].loaded
                                  /\ mem'[a].seq = mem[a].seq
             /\ th' = [th EXCEPT ![t].pc = "iterate", ![t].node = Idle.node]
             /\ UNCHANGED <<used, limit, tempDir, history>>
    <2>1. MovesTo(t, "iterate", Idle.node, th[t].need, th[t].q)
      BY <1>2, <1>3, IterateIs
    <2>2. used' + th[t].res = used + th[t].need /\ used' \in Int
      BY <1>2, <1>3
    <2>. QED
      BY <2>1, <2>2, <1>1, <1>2, <1>3, <1>9, AccountMoves DEF Evicting
  <1>4. CASE VisitStale(t, b)
    BY <1>3, <1>4 DEF VisitStale
  <1>5. CASE VisitUnevictable(t, b)
    BY <1>1, <1>3, <1>5, EntryChange DEF VisitUnevictable
  <1>6. CASE VisitNoTempDirectory(t, b)
    BY <1>1, <1>6, <1>9, EntryChange, NextQueueAccount DEF VisitNoTempDirectory
  <1>7. CASE VisitUnload(t, b)
    BY <1>1, <1>7, VisitUnloadAccount
  <1>8. CASE VisitWriteFails(t, b)
    BY <1>1, <1>8, <1>9, EntryChange, GiveUpAccount DEF VisitWriteFails
  <1>. QED
    BY <1>4, <1>5, <1>6, <1>7, <1>8 DEF EvictVisit, b

\* A step that changes no thread and no buffer.
LEMMA AccountStill ==
  ASSUME Types, Types', AccountInv,
         \A a \in Blocks : /\ mem'[a].charge = mem[a].charge
                           /\ mem'[a].loaded = mem[a].loaded
                           /\ mem'[a].seq = mem[a].seq,
         UNCHANGED <<th, pins, used, limit, history>>, tempDir' \in {"unset", "set", "used"}
  PROVE  AccountInv'
  <1>1. InMemory' = InMemory
    BY InMemorySame
  <1>2. Pending' = Pending /\ Promised' = Promised
    BY DEF Pending, Promised
  <1>0. InBuffers' = InBuffers
    BY BuffersSame
  <1>3. Balance' /\ Bounded'
    BY <1>0, <1>1, <1>2 DEF AccountInv, Balance, Bounded, history
  <1>4. Reservations'
    BY DEF AccountInv, Reservations
  <1>5. Charges'
    <2>1. \A u \in Threads : th[u].pc = "convert" => th[u].blk \in Blocks
      BY DEF Types, WellFormed, Blocks
    <2>2. Uncharged' = Uncharged
      BY <2>1 DEF Uncharged
    <2>. QED BY <2>2 DEF AccountInv, Charges
  <1>6. \A b \in Blocks : Queueing(b)' \subseteq Queueing(b)
    BY DEF Queueing
  <1>7. Sequenced'
    BY <1>6, SequencedStep DEF AccountInv, Sequenced
  <1>. QED
    BY <1>3, <1>4, <1>5, <1>7 DEF AccountInv, Settings

LEMMA TemporaryDirectoryAccount ==
  ASSUME Types, Types', AccountInv, SetTemporaryDirectory
  PROVE  AccountInv'
  <1>1. /\ UNCHANGED <<mem, th, pins, used, limit, history>>
        /\ tempDir' \in {"unset", "set", "used"}
    BY DEF SetTemporaryDirectory, poolVars
  <1>. QED BY <1>1, AccountStill

LEMMA RegisterAccount ==
  ASSUME Types, Types', AccountInv, NEW t \in Threads, NEW b \in Blocks,
         RegisterBlock(t, b)
  PROVE  AccountInv'
  <1>1. \A a \in Blocks : /\ mem'[a].charge = mem[a].charge
                          /\ mem'[a].loaded = mem[a].loaded
                          /\ mem'[a].seq = mem[a].seq
    BY DEF RegisterBlock, Types, MemoryType
  <1>. QED
    BY <1>1, AccountStill DEF RegisterBlock, poolVars, AccountInv, Settings

LEMMA SetDestroyAccount ==
  ASSUME Types, Types', AccountInv, NEW t \in Threads, NEW b \in Blocks,
         SetDestroyBufferUpon(t, b)
  PROVE  AccountInv'
  <1>1. \A a \in Blocks : /\ mem'[a].charge = mem[a].charge
                          /\ mem'[a].loaded = mem[a].loaded
                          /\ mem'[a].seq = mem[a].seq
    BY DEF SetDestroyBufferUpon, Types, MemoryType
  <1>. QED
    BY <1>1, AccountStill DEF SetDestroyBufferUpon, poolVars, AccountInv, Settings

LEMMA DropHandleAccount ==
  ASSUME Types, Types', AccountInv, NEW t \in Threads, NEW b \in Blocks,
         DropHandle(t, b)
  PROVE  AccountInv'
  <1>1. \A a \in Blocks : /\ mem'[a].charge = mem[a].charge
                          /\ mem'[a].loaded = mem[a].loaded
                          /\ mem'[a].seq = mem[a].seq
    BY DEF DropHandle, Types, MemoryType
  <1>. QED
    BY <1>1, AccountStill DEF DropHandle, poolVars, AccountInv, Settings

\* The bound on the sequence numbers of blocks that are pinned.
LEMMA MoreInsertsBound ==
  ASSUME Types, MoreInserts, NEW b \in Blocks
  PROVE  mem[b].seq \in Nat /\ mem[b].seq <= MaxInserts
  <1>. DEFINE f == [a \in Blocks |-> mem[a].seq]
  <1>1. \A a \in Blocks : f[a] \in Nat
    BY DEF Types, MemoryType
  <1>2. Sum(f, Blocks) < MaxInserts /\ f[b] = mem[b].seq
    BY DEF MoreInserts
  <1>. HIDE DEF f
  <1>3. f[b] <= Sum(f, Blocks) /\ Sum(f, Blocks) \in Nat
    BY <1>1, SumAtLeast, SumNat, PoolAssumption
  <1>. QED
    BY <1>1, <1>2, <1>3, PoolAssumption

\* A thread pins b, or starts to.
LEMMA SequencedPinning ==
  ASSUME Types, Types', Sequenced, NEW t \in Threads, NEW b \in Blocks,
         mem[b].seq <= MaxInserts,
         \A u \in Threads \ {t} : th'[u] = th[u] /\ pins'[u] = pins[u],
         pins'[t] \subseteq pins[t] \cup {b}, th'[t].pc # "enqueue",
         th'[t].op \in {"pin", "allocate"} => th'[t].blk = b,
         \A a \in Blocks : mem'[a].seq = mem[a].seq
  PROVE  Sequenced'
  <1>1. \A u \in Threads : th'[u].pc = "enqueue" => th'[u].blk \notin pins'[u]
    BY DEF Sequenced
  <1>2. \A a \in Blocks \ {b} : Queueing(a)' \subseteq Queueing(a)
    BY DEF Queueing
  <1>. QED
    BY <1>1, <1>2, SequencedStep

\* The thread as StartEviction leaves it.
LEMMA StartFields ==
  ASSUME Types, NEW t \in Threads, NEW op, NEW b, NEW need, NEW lim, NEW old,
         StartEviction(t, op, b, need, lim, old)
  PROVE  /\ \A u \in Threads \ {t} : th'[u] = th[u]
         /\ th'[t].pc = "reserve" /\ th'[t].op = op /\ th'[t].blk = b
         /\ th'[t].need = need /\ th'[t].lim = lim /\ th'[t].old = old
         /\ th'[t].res = 0
  <1>. DEFINE s == [Idle EXCEPT !.pc = "reserve", !.op = op, !.blk = b,
                                !.need = need, !.lim = lim,
                                !.old = old, !.q = BlockQueue]
  <1>1. /\ s.pc = "reserve" /\ s.op = op /\ s.blk = b
        /\ s.need = need /\ s.lim = lim /\ s.old = old /\ s.res = 0
    BY DEF Idle
  <1>2. th' = [th EXCEPT ![t] = s]
    BY DEF StartEviction
  <1>. HIDE DEF s
  <1>3. th'[t] = s /\ \A u \in Threads \ {t} : th'[u] = th[u]
    BY <1>2 DEF Types
  <1>. QED BY <1>1, <1>3

\* An eviction for the limit starts.
LEMMA LimitStartAccount ==
  ASSUME Types, Types', AccountInv, NEW t \in Threads, th[t].res = 0,
         th[t].pc # "convert", NEW op \in {"limit1", "limit2"}, NEW lim \in Limits, NEW old,
         op = "limit2" => old \in Limits,
         StartEviction(t, op, NoBlock, 0, lim, old),
         UNCHANGED <<mem, pins, tempDir, used, history>>, limit' \in Limits
  PROVE  AccountInv'
  <1>1. /\ \A u \in Threads \ {t} : th'[u] = th[u]
        /\ th'[t].pc = "reserve" /\ th'[t].op = op /\ th'[t].blk = NoBlock
        /\ th'[t].need = 0 /\ th'[t].lim = lim /\ th'[t].old = old
        /\ th'[t].res = 0
    BY StartFields
  <1>2. Reserved(th'[t])
    BY <1>1 DEF Reserved
  <1>3. GrantedTo(th'[t]) = 0 /\ GrantedTo(th[t]) = 0 /\ used \in Nat
    BY <1>1, AccountNumbers DEF GrantedTo
  <1>4. tempDir' \in {"unset", "set", "used"}
    BY DEF AccountInv, Settings
  <1>. QED
    BY <1>1, <1>2, <1>3, <1>4, AccountThread

LEMMA LimitAccount ==
  ASSUME Types, Types', AccountInv, NEW t \in Threads,
         SetLimit(t) \/ LimitChanged(t) \/ LimitKept(t)
  PROVE  AccountInv'
  <1>1. CASE SetLimit(t)
    <2>1. th[t].res = 0 /\ th[t].pc = "idle"
      BY <1>1 DEF SetLimit, At, AccountInv, Reservations, Reserved
    <2>2. PICK l \in Limits : StartEviction(t, "limit1", NoBlock, 0, l, 0)
      BY <1>1 DEF SetLimit
    <2>. QED
      BY <1>1, <2>1, <2>2, LimitStartAccount DEF SetLimit, poolVars, AccountInv, Settings
  <1>2. CASE LimitChanged(t)
    <2>1. th[t].res = 0 /\ th[t].lim \in Limits /\ th[t].pc = "granted"
      BY <1>2 DEF LimitChanged, At, AccountInv, Reservations, Reserved
    <2>. QED
      BY <1>2, <2>1, LimitStartAccount DEF LimitChanged, AccountInv, Settings
  <1>3. CASE LimitKept(t)
    <2>1. th[t].res = 0 /\ used \in Nat /\ th[t].pc = "granted"
      BY <1>3, AccountNumbers DEF LimitKept, At, AccountInv, Reservations, Reserved
    <2>2. used' = used - th[t].res
      BY <1>3, <2>1 DEF LimitKept, poolVars
    <2>. QED
      BY <1>3, <2>1, <2>2, AccountIdle DEF LimitKept, poolVars, AccountInv, Settings
  <1>. QED
    BY <1>1, <1>2, <1>3

\* An eviction for a block starts.
LEMMA BlockStartAccount ==
  ASSUME Types, Types', AccountInv, NEW t \in Threads, th[t].pc = "idle",
         NEW op \in {"pin", "allocate"}, NEW b \in Blocks, MoreInserts,
         StartEviction(t, op, b, Size[b], limit, 0),
         UNCHANGED <<mem, pins, poolVars, tempDir, history>>
  PROVE  AccountInv'
  <1>1. /\ \A u \in Threads \ {t} : th'[u] = th[u]
        /\ th'[t].pc = "reserve" /\ th'[t].op = op /\ th'[t].blk = b
        /\ th'[t].need = Size[b] /\ th'[t].res = 0
    BY StartFields
  <1>2. th[t].res = 0
    BY DEF AccountInv, Reservations, Reserved
  <1>3. Reserved(th'[t])
    BY <1>1 DEF Reserved
  <1>4. Reservations'
    BY <1>1, <1>3 DEF AccountInv, Reservations
  <1>5. GrantedTo(th'[t]) = 0 /\ GrantedTo(th[t]) = 0 /\ used \in Nat
    BY <1>1, AccountNumbers DEF GrantedTo
  <1>6. used' = used /\ UNCHANGED <<limit, tempDir, history>>
    BY DEF poolVars
  <1>10. Uncharged' = Uncharged
    BY <1>1, UnchargedSame
  <1>11. Charges'
    BY <1>10 DEF AccountInv, Charges
  <1>7. Balance' /\ Bounded'
    BY <1>1, <1>2, <1>5, <1>6, <1>11, BalanceThread
  <1>8. mem[b].seq <= MaxInserts
    BY MoreInsertsBound
  <1>9. Sequenced'
    BY <1>1, <1>8, SequencedPinning DEF AccountInv
  <1>. QED
    BY <1>4, <1>6, <1>7, <1>9, <1>11 DEF AccountInv, Settings

LEMMA AllocateAccount ==
  ASSUME Types, Types', AccountInv, NEW t \in Threads, NEW b \in Blocks, Allocate(t, b)
  PROVE  AccountInv'
  BY BlockStartAccount DEF Allocate, At

\* Another reader is no change of a buffer.
LEMMA ReadersChange ==
  ASSUME Types, NEW t \in Threads, NEW b \in Blocks, Pinned(t, b)
  PROVE  /\ \A a \in Blocks : /\ mem'[a].charge = mem[a].charge
                              /\ mem'[a].loaded = mem[a].loaded
                              /\ mem'[a].seq = mem[a].seq
         /\ pins'[t] = pins[t] \cup {b}
         /\ \A u \in Threads \ {t} : pins'[u] = pins[u]
  BY DEF Pinned, Types, MemoryType

LEMMA PinAccount ==
  ASSUME Types, Types', AccountInv, NEW t \in Threads, NEW b \in Blocks, Pin(t, b)
  PROVE  AccountInv'
  <1>1. CASE mem[b].loaded /\ Pinned(t, b) /\ UNCHANGED th
    <2>1. th[t].pc = "idle" /\ UNCHANGED <<used, limit, tempDir, history>> /\ MoreInserts
      BY DEF Pin, At, poolVars
    <2>2. th[t].op = "none"
      BY <2>1 DEF Types, WellFormed, Evicting
    <2>3. /\ \A a \in Blocks : /\ mem'[a].charge = mem[a].charge
                               /\ mem'[a].loaded = mem[a].loaded
                               /\ mem'[a].seq = mem[a].seq
          /\ pins'[t] = pins[t] \cup {b}
          /\ \A u \in Threads \ {t} : pins'[u] = pins[u]
      BY <1>1, ReadersChange
    <2>9. \A u \in Threads : th[u].pc = "convert" => th[u].blk \in Blocks
      BY DEF Types, WellFormed, Blocks
    <2>10. Uncharged' = Uncharged
      BY <1>1, <2>3, <2>9 DEF Uncharged
    <2>4. Reservations' /\ Charges'
      BY <1>1, <2>3, <2>10 DEF AccountInv, Reservations, Charges
    <2>5. used \in Nat /\ th[t].res \in Nat /\ GrantedTo(th[t]) \in Nat
      BY AccountNumbers DEF GrantedTo
    <2>6. /\ used' + th[t].res = used + th'[t].res /\ used' \in Int
          /\ GrantedTo(th'[t]) <= GrantedTo(th[t])
      BY <1>1, <2>1, <2>5
    <2>7. Balance' /\ Bounded'
      BY <1>1, <2>1, <2>3, <2>4, <2>6, BalanceThread
    <2>8. Sequenced'
      BY <1>1, <2>1, <2>2, <2>3, MoreInsertsBound, SequencedPinning DEF AccountInv
    <2>. QED
      BY <2>1, <2>4, <2>7, <2>8 DEF AccountInv, Settings
  <1>2. CASE UNCHANGED <<mem, pins>> /\ StartEviction(t, "pin", b, Size[b], limit, 0)
    BY <1>2, BlockStartAccount DEF Pin, At
  <1>. QED
    BY <1>1, <1>2 DEF Pin

\* A thread that was granted the memory of b has it pinned and is done.
LEMMA PinnedAccount ==
  ASSUME Types, Types', AccountInv, NEW t \in Threads, NEW b \in Blocks,
         th[t].pc = "granted", th[t].op \in {"pin", "allocate"}, th[t].blk = b,
         th' = [th EXCEPT ![t] = Idle],
         pins' = [pins EXCEPT ![t] = @ \cup {b}],
         \A a \in Blocks \ {b} : mem'[a] = mem[a],
         \A u \in Threads : th[u].pc = "convert" => th[u].blk # b,
         mem'[b].charge = IF mem'[b].loaded THEN Size[b] ELSE 0,
         mem'[b].seq = mem[b].seq,
         UNCHANGED <<limit, tempDir, history>>, used' \in Int,
         used' + mem[b].charge + th[t].res = used + mem'[b].charge + 0,
         mem'[b].charge <= mem[b].charge + th[t].res
  PROVE  AccountInv'
  <1>1. th'[t] = Idle /\ \A u \in Threads \ {t} : th'[u] = th[u]
    BY DEF Types
  <1>2. /\ Idle.pc = "idle" /\ Idle.op = "none" /\ Idle.res = 0
        /\ Reserved(Idle) /\ GrantedTo(Idle) = 0
    BY DEF Idle, Reserved, GrantedTo
  <1>8. Uncharged' = Uncharged /\ b \notin Uncharged
    <2>1. \A u \in Threads : th[u].pc = "convert" => th[u].blk \in Blocks
      BY DEF Types, WellFormed, Blocks
    <2>2. Uncharged' = Uncharged
      BY <1>1, <1>2, <2>1, UnchargedSame
    <2>. QED BY <2>2 DEF Uncharged
  <1>3. Reservations' /\ Charges'
    BY <1>1, <1>2, <1>8 DEF AccountInv, Reservations, Charges
  <1>4. GrantedTo(th[t]) = th[t].res
    BY DEF GrantedTo
  <1>5. Buffered(mem'[b], b) + GrantedTo(th'[t]) <= Buffered(mem[b], b) + GrantedTo(th[t])
    <2>1. mem'[b].charge \in Nat
      BY DEF Types, MemoryType
    <2>2. Buffered(mem'[b], b) = mem'[b].charge /\ Buffered(mem[b], b) = mem[b].charge
      BY <1>8 DEF Buffered, AccountInv, Charges
    <2>. QED BY <2>1, <2>2, <1>1, <1>2, <1>4
  <1>6. Balance' /\ Bounded'
    <2>1. used' + mem[b].charge + th[t].res = used + mem'[b].charge + th'[t].res
      BY <1>1, <1>2
    <2>2. \A a \in Blocks \ {b} : /\ mem'[a].charge = mem[a].charge
                                  /\ mem'[a].loaded = mem[a].loaded
      OBVIOUS
    <2>. QED BY <2>1, <2>2, <1>1, <1>3, <1>5, BalanceStep
  <1>7. Sequenced'
    <2>1. \A u \in Threads : th'[u].pc = "enqueue" => th'[u].blk \notin pins'[u]
      BY <1>1, <1>2 DEF AccountInv, Sequenced, Types
    <2>2. \A a \in Blocks : Queueing(a)' \subseteq Queueing(a)
      BY <1>1, <1>2 DEF Queueing, Types
    <2>3. \A a \in Blocks : mem'[a].seq = mem[a].seq
      OBVIOUS
    <2>. QED BY <2>1, <2>2, <2>3, SequencedStep DEF AccountInv
  <1>. QED
    BY <1>3, <1>6, <1>7 DEF AccountInv, Settings

LEMMA AllocatedAccount ==
  ASSUME Types, Types', ContentsInv, Converting, AccountInv, NEW t \in Threads,
         Allocated(t)
  PROVE  AccountInv'
  <1>. DEFINE b == th[t].blk
              m == [Absent EXCEPT !.life = "live", !.owned = TRUE,
                                  !.loaded = TRUE, !.readers = 1,
                                  !.charge = th[t].res,
                                  !.upon = IF b \in CanDestroy THEN "EVICTION"
                                           ELSE "BLOCK"]
  <1>1. /\ b \in Blocks /\ th[t].pc = "granted" /\ th[t].op = "allocate"
        /\ mem[b] = Absent
    BY DEF Allocated, At, ContentsInv, Wanted, Owned, Types, WellFormed
  <1>2. m.loaded = TRUE /\ m.charge = th[t].res /\ m.seq = 0
    BY DEF Absent
  <1>3. mem' = [mem EXCEPT ![b] = m]
    BY DEF Allocated
  <1>. HIDE DEF b, m
  <1>4. mem'[b] = m /\ \A a \in Blocks \ {b} : mem'[a] = mem[a]
    BY <1>1, <1>3 DEF Types
  <1>5. mem[b].charge = 0 /\ mem[b].seq = 0
    BY <1>1 DEF Absent
  <1>6. th[t].res = Size[b]
    BY <1>1 DEF AccountInv, Reservations, Reserved, b
  <1>7. /\ th' = [th EXCEPT ![t] = Idle] /\ pins' = [pins EXCEPT ![t] = @ \cup {b}]
        /\ UNCHANGED <<used, limit, tempDir, history>>
    BY DEF Allocated, poolVars, b
  <1>8. used \in Nat /\ th[t].res \in Nat
    BY AccountNumbers
  <1>9. /\ used' + mem[b].charge + th[t].res = used + mem'[b].charge + 0
        /\ used' \in Int /\ mem'[b].charge <= mem[b].charge + th[t].res
    BY <1>2, <1>4, <1>5, <1>7, <1>8
  <1>10. mem'[b].charge = IF mem'[b].loaded THEN Size[b] ELSE 0
    BY <1>2, <1>4, <1>6
  <1>11. \A u \in Threads : th[u].pc = "convert" => th[u].blk # b
    <2>1. \A u \in Threads : b \notin pins[u]
      BY <1>1 DEF ContentsInv, Owned, Absent
    <2>. QED BY <2>1 DEF Converting
  <1>. QED
    BY <1>1, <1>2, <1>4, <1>5, <1>7, <1>9, <1>10, <1>11, PinnedAccount DEF b

LEMMA PinEndsAccount ==
  ASSUME Types, Types', AccountInv, NEW t \in Threads, PinEnds(t)
  PROVE  AccountInv'
  <1>. DEFINE b == th[t].blk
  <1>1. /\ b \in Blocks /\ th[t].pc = "granted" /\ th[t].op = "pin"
        /\ th' = [th EXCEPT ![t] = Idle]
        /\ UNCHANGED <<limit, tempDir, history>>
    BY DEF PinEnds, PinLoaded, PinLoad, PinFails, At, Types, WellFormed, poolVars
  <1>2. used \in Nat /\ th[t].res \in Nat /\ mem[b].charge \in Nat
    BY <1>1, AccountNumbers
  <1>7. b \notin Uncharged /\ \A u \in Threads : th[u].pc = "convert" => th[u].blk # b
    BY DEF PinEnds, PinLoaded, PinLoad, PinFails, Locked, Uncharged
  <1>3. th[t].res = Size[b] /\ mem[b].charge = IF mem[b].loaded THEN Size[b] ELSE 0
    BY <1>1, <1>7 DEF AccountInv, Reservations, Reserved, Charges
  <1>. HIDE DEF b
  <1>4. CASE PinLoaded(t)
    <2>1. Pinned(t, b) /\ used' = used - th[t].res
      BY <1>4 DEF PinLoaded, b
    <2>2. /\ \A a \in Blocks \ {b} : mem'[a] = mem[a]
          /\ mem'[b].loaded = mem[b].loaded /\ mem'[b].charge = mem[b].charge
          /\ mem'[b].seq = mem[b].seq
          /\ pins' = [pins EXCEPT ![t] = @ \cup {b}]
      BY <1>1, <2>1 DEF Pinned, Types, MemoryType
    <2>3. /\ used' + mem[b].charge + th[t].res = used + mem'[b].charge + 0
          /\ used' \in Int /\ mem'[b].charge <= mem[b].charge + th[t].res
      BY <1>2, <2>1, <2>2
    <2>4. mem'[b].charge = IF mem'[b].loaded THEN Size[b] ELSE 0
      BY <1>3, <2>2
    <2>. QED
      BY <1>1, <1>7, <2>2, <2>3, <2>4, PinnedAccount DEF b
  <1>5. CASE PinLoad(t)
    <2>1. /\ ~mem[b].loaded /\ used' = used
          /\ mem' = [mem EXCEPT ![b].loaded = TRUE, ![b].readers = 1,
                                ![b].charge = th[t].res]
          /\ pins' = [pins EXCEPT ![t] = @ \cup {b}]
      BY <1>5 DEF PinLoad, b, poolVars
    <2>2. /\ \A a \in Blocks \ {b} : mem'[a] = mem[a]
          /\ mem'[b].loaded = TRUE /\ mem'[b].charge = th[t].res
          /\ mem'[b].seq = mem[b].seq
      BY <1>1, <2>1 DEF Types, MemoryType
    <2>3. mem[b].charge = 0
      BY <1>3, <2>1
    <2>4. /\ used' + mem[b].charge + th[t].res = used + mem'[b].charge + 0
          /\ used' \in Int /\ mem'[b].charge <= mem[b].charge + th[t].res
      BY <1>2, <2>1, <2>2, <2>3
    <2>5. mem'[b].charge = IF mem'[b].loaded THEN Size[b] ELSE 0
      BY <1>3, <2>2
    <2>. QED
      BY <1>1, <1>7, <2>1, <2>5, <2>2, <2>4, PinnedAccount DEF b
  <1>6. CASE PinFails(t)
    BY <1>1, <1>6, AccountIdle DEF PinFails, AccountInv, Settings
  <1>. QED
    BY <1>4, <1>5, <1>6 DEF PinEnds

\* A purging thread has reserved nothing.
LEMMA PurgeAccount ==
  ASSUME Types, Types', AccountInv, NEW t \in Threads, th[t].pc \in Purging,
         NEW s, th' = [th EXCEPT ![t] = s],
         \/ s = Idle
         \/ s.pc \in Purging /\ s.op = "none" /\ s.res = th[t].res,
         UNCHANGED <<mem, pins, tempDir, history, used, limit>>
  PROVE  AccountInv'
  <1>1. th[t].res = 0
    BY DEF AccountInv, Reservations, Reserved, Purging
  <1>2. /\ s.pc \in Purging \cup {"idle"} /\ s.op = "none" /\ s.res = 0
    BY <1>1 DEF Idle
  <1>3. th'[t] = s /\ \A u \in Threads \ {t} : th'[u] = th[u]
    BY DEF Types
  <1>4. /\ Reserved(s) /\ GrantedTo(s) = 0 /\ s.pc # "enqueue" /\ s.pc # "convert"
        /\ th[t].pc # "convert"
    BY <1>2 DEF Reserved, GrantedTo, Purging
  <1>5. used \in Nat /\ GrantedTo(th[t]) = 0
    BY <1>1, AccountNumbers DEF GrantedTo
  <1>6. used' + th[t].res = used + th'[t].res /\ used' \in Int
    BY <1>1, <1>2, <1>3, <1>5
  <1>. QED
    BY <1>2, <1>3, <1>4, <1>5, <1>6, AccountThread DEF AccountInv, Settings

LEMMA PurgeStepAccount ==
  ASSUME Types, Types', AccountInv, NEW t \in Threads, PurgeStep(t)
  PROVE  AccountInv'
  <1>1. /\ th[t].pc \in Purging /\ UNCHANGED <<mem, pins, tempDir, history, used, limit>>
    BY DEF PurgeStep, Purge, PurgeDequeue, PurgeJudge, PurgeFinish, At, Purging, poolVars
  <1>2. th[t] \in ThreadType /\ th[t].op = "none" /\ th \in [Threads -> ThreadType]
    BY <1>1 DEF Types, WellFormed, Evicting, Purging
  <1>3. CASE Purge(t)
    <2>1. PICK left : \/ th' = [th EXCEPT ![t] = Idle]
                      \/ th' = [th EXCEPT ![t].pc = "bulk", ![t].left = left]
      BY <1>3, Zenon DEF Purge
    <2>2. CASE th' = [th EXCEPT ![t].pc = "bulk", ![t].left = left]
      <3>. DEFINE s == [th[t] EXCEPT !.pc = "bulk", !.left = left]
      <3>1. s.pc = "bulk" /\ s.op = "none" /\ s.res = th[t].res
        BY <1>2 DEF ThreadType
      <3>2. th' = [th EXCEPT ![t] = s]
        BY <1>2, <2>2
      <3>. HIDE DEF s
      <3>. QED BY <1>1, <3>1, <3>2, PurgeAccount DEF Purging
    <2>. QED BY <2>1, <2>2, <1>1, PurgeAccount
  <1>4. CASE PurgeDequeue(t)
    <2>1. PICK batch : th' = [th EXCEPT ![t].pc = "judge", ![t].batch = batch]
      BY <1>4 DEF PurgeDequeue
    <2>. DEFINE s == [th[t] EXCEPT !.pc = "judge", !.batch = batch]
    <2>2. s.pc = "judge" /\ s.op = "none" /\ s.res = th[t].res
      BY <1>2 DEF ThreadType
    <2>3. th' = [th EXCEPT ![t] = s]
      BY <1>2, <2>1
    <2>. HIDE DEF s
    <2>. QED BY <1>1, <2>2, <2>3, PurgeAccount DEF Purging
  <1>5. CASE PurgeJudge(t)
    <2>1. PICK batch, alive, count :
            th' = [th EXCEPT ![t].batch = batch, ![t].alive = alive,
                             ![t].deadCount = count]
      BY <1>5 DEF PurgeJudge
    <2>. DEFINE s == [th[t] EXCEPT !.batch = batch, !.alive = alive, !.deadCount = count]
    <2>2. s.pc = th[t].pc /\ s.op = "none" /\ s.res = th[t].res
      BY <1>2 DEF ThreadType
    <2>3. th' = [th EXCEPT ![t] = s]
      BY <1>2, <2>1
    <2>. HIDE DEF s
    <2>. QED BY <1>1, <2>2, <2>3, PurgeAccount
  <1>6. CASE PurgeFinish(t)
    <2>1. \/ th' = [th EXCEPT ![t].pc = "bulk", ![t].left = @ - 1,
                              ![t].alive = {}, ![t].deadCount = 0]
          \/ th' = [th EXCEPT ![t] = Idle]
      BY <1>6, Zenon DEF PurgeFinish
    <2>2. CASE th' = [th EXCEPT ![t].pc = "bulk", ![t].left = @ - 1,
                                ![t].alive = {}, ![t].deadCount = 0]
      <3>. DEFINE s == [th[t] EXCEPT !.pc = "bulk", !.left = @ - 1, !.alive = {},
                                     !.deadCount = 0]
      <3>1. s.pc = "bulk" /\ s.op = "none" /\ s.res = th[t].res
        BY <1>2 DEF ThreadType
      <3>2. th' = [th EXCEPT ![t] = s]
        BY <1>2, <2>2
      <3>. HIDE DEF s
      <3>. QED BY <1>1, <3>1, <3>2, PurgeAccount DEF Purging
    <2>. QED BY <2>1, <2>2, <1>1, PurgeAccount
  <1>. QED
    BY <1>3, <1>4, <1>5, <1>6 DEF PurgeStep

\* The last reader queues the block or drops its buffer.
LEMMA UnpinAccount ==
  ASSUME Types, Types', AccountInv, NEW t \in Threads, NEW b \in Blocks, Release(t, b)
  PROVE  AccountInv'
  <1>1. /\ th[t].pc = "idle" /\ b \in pins[t]
        /\ pins' = [pins EXCEPT ![t] = @ \ {b}]
        /\ UNCHANGED <<limit, tempDir, history>>
    BY DEF Release, At
  <1>2. th[t].op = "none" /\ th[t].res = 0 /\ th[t] \in ThreadType
    BY <1>1 DEF Types, WellFormed, Evicting, AccountInv, Reservations, Reserved
  <1>3. pins'[t] = pins[t] \ {b} /\ \A u \in Threads \ {t} : pins'[u] = pins[u]
    BY <1>1 DEF Types
  <1>4. PICK s : /\ th' = [th EXCEPT ![t] = s]
                 /\ s.res = 0 /\ s.op = "none" /\ s.pc \in {"idle", "enqueue"}
                 /\ s.pc = "enqueue" => s.blk = b
    <2>1. CASE UNCHANGED th
      <3>1. th' = [th EXCEPT ![t] = th[t]]
        BY <2>1 DEF Types
      <3>. QED BY <3>1, <1>1, <1>2
    <2>2. CASE th' = [th EXCEPT ![t].pc = "enqueue", ![t].blk = b]
      <3>. DEFINE s == [th[t] EXCEPT !.pc = "enqueue", !.blk = b]
      <3>1. s.pc = "enqueue" /\ s.blk = b /\ s.op = "none" /\ s.res = 0
        BY <1>2 DEF ThreadType
      <3>2. th' = [th EXCEPT ![t] = s]
        BY <2>2 DEF Types
      <3>. HIDE DEF s
      <3>. QED BY <3>1, <3>2
    <2>. QED BY <2>1, <2>2 DEF Release
  <1>5. th'[t] = s /\ \A u \in Threads \ {t} : th'[u] = th[u]
    BY <1>4 DEF Types
  <1>6. /\ \A a \in Blocks \ {b} : mem'[a] = mem[a]
        /\ mem'[b].seq = mem[b].seq
        /\ \/ /\ mem'[b].loaded = mem[b].loaded /\ mem'[b].charge = mem[b].charge
              /\ used' = used
           \/ /\ mem'[b].loaded = FALSE /\ mem'[b].charge = 0
              /\ used' = used - mem[b].charge
    <2>1. mem \in [Blocks -> MemoryType] /\ mem[b] \in MemoryType
      BY DEF Types
    <2>2. CASE mem' = [mem EXCEPT ![b].readers = @ - 1] /\ used' = used
      BY <2>1, <2>2 DEF MemoryType
    <2>3. CASE /\ mem' = [[mem EXCEPT ![b].readers = @ - 1]
                            EXCEPT ![b] = Unloaded(@)]
               /\ used' = used - mem[b].charge
      BY <2>1, <2>3 DEF MemoryType, Unloaded
    <2>. QED BY <2>2, <2>3 DEF Release
  <1>7. Reservations'
    BY <1>4, <1>5 DEF AccountInv, Reservations, Reserved
  <1>14. Uncharged' = Uncharged /\ b \notin Uncharged
    <2>1. \A u \in Threads : th[u].pc = "convert" => th[u].blk \in Blocks /\ th[u].blk # b
      BY DEF Types, WellFormed, Blocks, Release, Locked
    <2>2. Uncharged' = Uncharged
      BY <1>1, <1>4, <1>5, <1>6, <2>1, UnchargedSame
    <2>. QED BY <2>1, <2>2 DEF Uncharged
  <1>8. Charges'
    BY <1>6, <1>14 DEF AccountInv, Charges
  <1>9. used \in Nat /\ mem[b].charge \in Nat
    BY AccountNumbers
  <1>10. GrantedTo(th[t]) = 0 /\ GrantedTo(th'[t]) = 0
    BY <1>2, <1>4, <1>5 DEF GrantedTo
  <1>11. /\ used' + mem[b].charge + th[t].res = used + mem'[b].charge + th'[t].res
         /\ used' \in Int
    BY <1>2, <1>4, <1>5, <1>6, <1>9, <1>10
  <1>15. Buffered(mem'[b], b) + GrantedTo(th'[t]) <= Buffered(mem[b], b) + GrantedTo(th[t])
    BY <1>6, <1>10, PoolAssumption DEF Buffered
  <1>12. Balance' /\ Bounded'
    <2>1. \A a \in Blocks \ {b} : /\ mem'[a].charge = mem[a].charge
                                  /\ mem'[a].loaded = mem[a].loaded
      BY <1>6
    <2>. QED BY <2>1, <1>1, <1>5, <1>8, <1>11, <1>15, BalanceStep
  <1>13. Sequenced'
    <2>1. \A u \in Threads : th'[u].pc = "enqueue" => th'[u].blk \notin pins'[u]
      BY <1>3, <1>4, <1>5 DEF AccountInv, Sequenced
    <2>2. \A a \in Blocks : Queueing(a)' \subseteq Queueing(a)
      BY <1>1, <1>3, <1>4, <1>5 DEF Queueing
    <2>3. \A a \in Blocks : mem'[a].seq = mem[a].seq
      BY <1>6
    <2>. QED BY <2>1, <2>2, <2>3, SequencedStep DEF AccountInv
  <1>. QED
    BY <1>1, <1>7, <1>8, <1>12, <1>13 DEF AccountInv, Settings

\* A thread after an insertion.
LEMMA InsertFields ==
  ASSUME Types, NEW t \in Threads, NEW b \in Blocks, Insert(t, b)
  PROVE  /\ \A u \in Threads \ {t} : th'[u] = th[u]
         /\ th'[t].pc \in {"idle", "purge"} /\ th'[t].op = "none"
         /\ th'[t].res = 0 /\ Reserved(th'[t]) /\ GrantedTo(th'[t]) = 0
         /\ th'[t].deadCount = 0
  <1>. DEFINE s == [Idle EXCEPT !.pc = "purge", !.blk = b, !.q = QueueOf(b)]
  <1>1. s.pc = "purge" /\ s.op = "none" /\ s.res = 0 /\ s.deadCount = 0
    BY DEF Idle
  <1>2. Idle.pc = "idle" /\ Idle.op = "none" /\ Idle.res = 0 /\ Idle.deadCount = 0
    BY DEF Idle
  <1>3. th' = [th EXCEPT ![t] = s] \/ th' = [th EXCEPT ![t] = Idle]
    BY DEF Insert
  <1>. HIDE DEF s
  <1>4. th'[t] \in {s, Idle} /\ \A u \in Threads \ {t} : th'[u] = th[u]
    BY <1>3 DEF Types
  <1>5. /\ th'[t].pc \in {"idle", "purge"} /\ th'[t].op = "none" /\ th'[t].res = 0
        /\ th'[t].deadCount = 0
    BY <1>1, <1>2, <1>4
  <1>6. Reserved(th'[t]) /\ GrantedTo(th'[t]) = 0
    BY <1>5 DEF Reserved, GrantedTo
  <1>. QED BY <1>4, <1>5, <1>6

LEMMA EnqueueAccount ==
  ASSUME Types, Types', AccountInv, NEW t \in Threads, Enqueue(t)
  PROVE  AccountInv'
  <1>0. PICK b \in Blocks : b = th[t].blk
    BY DEF Enqueue, At, Types, WellFormed
  <1>1. /\ th[t].pc = "enqueue" /\ Insert(t, b)
        /\ mem' = [mem EXCEPT ![b].seq = @ + 1, ![b].entry = TRUE]
        /\ UNCHANGED <<used, limit, tempDir, pins, history>>
    BY <1>0 DEF Enqueue, At
  <1>2. /\ \A u \in Threads \ {t} : th'[u] = th[u]
        /\ th'[t].pc \in {"idle", "purge"} /\ th'[t].op = "none"
        /\ th'[t].res = 0 /\ Reserved(th'[t]) /\ GrantedTo(th'[t]) = 0
    BY <1>1, InsertFields
  <1>3. /\ \A a \in Blocks \ {b} : mem'[a] = mem[a]
        /\ mem'[b].loaded = mem[b].loaded /\ mem'[b].charge = mem[b].charge
        /\ mem'[b].seq = mem[b].seq + 1
    BY <1>1 DEF Types, MemoryType
  <1>4. th[t].res = 0 /\ used \in Nat /\ GrantedTo(th[t]) = 0
    BY <1>1, AccountNumbers DEF AccountInv, Reservations, Reserved, GrantedTo
  <1>8. Uncharged' = Uncharged
    <2>1. \A u \in Threads : th[u].pc = "convert" => th[u].blk \in Blocks
      BY DEF Types, WellFormed, Blocks
    <2>. QED BY <1>1, <1>2, <1>3, <2>1, UnchargedSame
  <1>5. Reservations' /\ Charges'
    BY <1>2, <1>3, <1>8 DEF AccountInv, Reservations, Charges
  <1>6. Balance' /\ Bounded'
    <2>1. \A a \in Blocks : /\ mem'[a].charge = mem[a].charge
                            /\ mem'[a].loaded = mem[a].loaded
      BY <1>3
    <2>2. /\ used' + th[t].res = used + th'[t].res /\ used' \in Int
          /\ GrantedTo(th'[t]) <= GrantedTo(th[t])
      BY <1>1, <1>2, <1>4
    <2>. QED BY <2>1, <2>2, <1>1, <1>2, <1>5, BalanceThread
  <1>7. Sequenced'
    <2>1. \A u \in Threads : th'[u].pc = "enqueue" => th'[u].blk \notin pins'[u]
      BY <1>1, <1>2 DEF AccountInv, Sequenced
    <2>2. \A a \in Blocks : Queueing(a)' \subseteq Queueing(a)
      BY <1>1, <1>2 DEF Queueing
    <2>3. t \in Queueing(b)
      BY <1>0, <1>1 DEF Queueing
    <2>4. t \notin Queueing(b)'
      BY <1>0, <1>1, <1>2 DEF Queueing, AccountInv, Sequenced
    <2>5. Queueing(b)' \subseteq Queueing(b) \ {t}
      BY <2>2, <2>4
    <2>. QED BY <2>1, <2>2, <2>3, <2>5, <1>3, SequencedStep DEF AccountInv
  <1>. QED
    BY <1>1, <1>5, <1>6, <1>7 DEF AccountInv, Settings

LEMMA DestroyAccount ==
  ASSUME Types, Types', ContentsInv, Converting, AccountInv, NEW t \in Threads,
         Destroy(t)
  PROVE  AccountInv'
  <1>0. PICK b \in Blocks : b = dying[t]
    BY DEF Destroy, Types
  <1>1. /\ used' = used - mem[b].charge
        /\ mem' = [mem EXCEPT ![b] = [Unloaded(@) EXCEPT !.life = "gone"]]
        /\ UNCHANGED <<th, limit, tempDir, pins, history>>
    BY <1>0 DEF Destroy
  <1>2. /\ \A a \in Blocks \ {b} : mem'[a] = mem[a]
        /\ mem'[b].loaded = FALSE /\ mem'[b].charge = 0 /\ mem'[b].seq = mem[b].seq
    BY <1>1 DEF Types, MemoryType, Unloaded
  <1>8. Uncharged' = Uncharged /\ b \notin Uncharged
    <2>1. \A u \in Threads : b \notin pins[u]
      BY <1>0 DEF Destroy, ContentsInv, Owned
    <2>2. \A u \in Threads : th[u].pc = "convert" => th[u].blk \in Blocks /\ th[u].blk # b
      BY <2>1 DEF Types, WellFormed, Blocks, Converting
    <2>. QED BY <1>1, <1>2, <2>2 DEF Uncharged
  <1>3. Reservations' /\ Charges'
    BY <1>1, <1>2, <1>8 DEF AccountInv, Reservations, Charges
  <1>4. used \in Nat /\ mem[b].charge \in Nat /\ th[t].res \in Nat
    BY <1>1, AccountNumbers
  <1>5. GrantedTo(th[t]) \in Nat
    BY <1>4 DEF GrantedTo
  <1>6. Balance' /\ Bounded'
    <2>1. \A a \in Blocks \ {b} : /\ mem'[a].charge = mem[a].charge
                                  /\ mem'[a].loaded = mem[a].loaded
      BY <1>2
    <2>4. /\ used' + mem[b].charge + th[t].res = used + mem'[b].charge + th'[t].res
          /\ used' \in Int
      BY <1>1, <1>2, <1>4
    <2>5. Buffered(mem'[b], b) = 0 /\ Buffered(mem[b], b) \in Nat
      BY <1>2, PoolAssumption DEF Buffered
    <2>2. Buffered(mem'[b], b) + GrantedTo(th'[t]) <= Buffered(mem[b], b) + GrantedTo(th[t])
      BY <1>1, <1>5, <2>5
    <2>3. \A u \in Threads \ {t} : th'[u] = th[u]
      BY <1>1
    <2>. QED BY <2>1, <2>2, <2>3, <2>4, <1>1, <1>3, BalanceStep
  <1>7. Sequenced'
    <2>1. \A u \in Threads : th'[u].pc = "enqueue" => th'[u].blk \notin pins'[u]
      BY <1>1 DEF AccountInv, Sequenced
    <2>2. \A a \in Blocks : Queueing(a)' \subseteq Queueing(a)
      BY <1>1 DEF Queueing
    <2>3. \A a \in Blocks : mem'[a].seq = mem[a].seq
      BY <1>2
    <2>. QED BY <2>1, <2>2, <2>3, SequencedStep DEF AccountInv
  <1>. QED
    BY <1>1, <1>3, <1>6, <1>7 DEF AccountInv, Settings

\* The charge of b goes and p is charged.
LEMMA InMemoryMoves ==
  ASSUME Types, Types', NEW b \in Blocks, NEW p \in Blocks, b # p,
         \A a \in Blocks \ {b, p} : mem'[a].charge = mem[a].charge,
         mem[p].charge = 0, mem'[b].charge = 0
  PROVE  InMemory' + mem[b].charge = InMemory + mem'[p].charge
  <1>. DEFINE f == [a \in Blocks |-> mem[a].charge]
              g == [a \in Blocks |-> mem'[a].charge]
  <1>1. \A a \in Blocks : f[a] \in Nat /\ g[a] \in Nat
    BY DEF Types, MemoryType
  <1>2. /\ \A a \in Blocks \ {b, p} : g[a] = f[a]
        /\ f[p] = 0 /\ g[p] = mem'[p].charge /\ f[b] = mem[b].charge /\ g[b] = 0
    OBVIOUS
  <1>. HIDE DEF f, g
  <1>3. IsFiniteSet(Blocks) /\ b \in Blocks /\ p \in Blocks /\ b # p
    BY PoolAssumption
  <1>4. Sum(g, Blocks) + f[b] = Sum(f, Blocks) + g[p]
    BY ONLY <1>1, <1>2, <1>3, SumMoves
  <1>. QED
    BY <1>2, <1>4 DEF InMemory, f, g

\* The buffer of b goes and p has one of the same size.
LEMMA BuffersMove ==
  ASSUME NEW b \in Blocks, NEW p \in Blocks, b # p, Size[b] = Size[p],
         \A a \in Blocks \ {b, p} : mem'[a].loaded = mem[a].loaded,
         mem[b].loaded, ~mem[p].loaded, ~mem'[b].loaded, mem'[p].loaded
  PROVE  InBuffers' = InBuffers
  <1>. DEFINE f == [a \in Blocks |-> Buffered(mem[a], a)]
              g == [a \in Blocks |-> Buffered(mem'[a], a)]
  <1>1. \A a \in Blocks : f[a] \in Nat /\ g[a] \in Nat
    BY PoolAssumption DEF Buffered
  <1>2. /\ \A a \in Blocks \ {b, p} : g[a] = f[a]
        /\ f[p] = 0 /\ g[p] = f[b] /\ g[b] = 0
    BY DEF Buffered
  <1>. HIDE DEF f, g
  <1>3. IsFiniteSet(Blocks) /\ b \in Blocks /\ p \in Blocks /\ b # p
    BY PoolAssumption
  <1>4. Sum(g, Blocks) + f[b] = Sum(f, Blocks) + g[p]
    BY ONLY <1>1, <1>2, <1>3, SumMoves
  <1>5. Sum(g, Blocks) \in Nat /\ Sum(f, Blocks) \in Nat /\ f[b] \in Nat
    BY <1>1, <1>3, SumNat
  <1>6. Sum(g, Blocks) = Sum(f, Blocks)
    BY ONLY <1>2, <1>4, <1>5
  <1>. QED
    BY <1>6 DEF InBuffers, f, g

\* The charge of a block in conversion may be resized to zero.
LEMMA ConvertAccount ==
  ASSUME Types, Types', ContentsInv, AccountInv, NEW t \in Threads, NEW b \in Blocks,
         NEW p \in Persistent, ConvertToPersistent(t, b, p)
  PROVE  AccountInv'
  <1>1. PICK s : /\ th' = [th EXCEPT ![t] = s]
                 /\ s.pc = "convert" /\ s.op = "none" /\ s.blk = b
                 /\ s.res = th[t].res
    BY ConvertStarts
  <1>2. th'[t] = s /\ \A u \in Threads \ {t} : th'[u] = th[u]
    BY <1>1 DEF Types
  <1>3. /\ th[t].pc = "idle" /\ b \in pins[t] /\ ~Locked(b)
        /\ UNCHANGED <<pins, limit, tempDir, history>>
    BY DEF ConvertToPersistent, Convertible, At
  <1>4. /\ \A a \in Blocks : mem'[a].loaded = mem[a].loaded /\ mem'[a].seq = mem[a].seq
        /\ \A a \in Blocks \ {b} : mem'[a] = mem[a]
        /\ \/ mem'[b].charge = mem[b].charge /\ used' = used
           \/ mem'[b].charge = 0 /\ used' = used - mem[b].charge
    <2>1. mem \in [Blocks -> MemoryType] /\ mem[b] \in MemoryType
      BY DEF Types
    <2>2. CASE mem' = mem /\ used' = used
      BY <2>2
    <2>3. CASE mem' = [mem EXCEPT ![b].charge = 0] /\ used' = used - mem[b].charge
      BY <2>1, <2>3 DEF MemoryType
    <2>. QED BY <2>2, <2>3 DEF ConvertToPersistent
  <1>5. /\ mem[b].loaded /\ mem[b].charge = Size[b] /\ Size[b] \in Nat \ {0}
        /\ \A u \in Threads : th[u].pc = "convert" => th[u].blk # b
    <2>1. mem[b].loaded
      BY <1>3 DEF ContentsInv, Owned
    <2>2. b \notin Uncharged /\ \A u \in Threads : th[u].pc = "convert" => th[u].blk # b
      BY <1>3 DEF Locked, Uncharged
    <2>. QED BY <2>1, <2>2, PoolAssumption DEF AccountInv, Charges
  <1>6. th[t].res = 0 /\ used \in Nat /\ GrantedTo(th[t]) = 0
    BY <1>3, AccountNumbers DEF AccountInv, Reservations, Reserved, GrantedTo
  <1>7. Reserved(th'[t]) /\ GrantedTo(th'[t]) = 0
    BY <1>1, <1>2, <1>6 DEF Reserved, GrantedTo
  <1>8. Reservations'
    BY <1>2, <1>7 DEF AccountInv, Reservations
  <1>9. Charges'
    <2>1. \A a \in Blocks \ {b} : a \in Uncharged' <=> a \in Uncharged
      BY <1>1, <1>2, <1>3, <1>4, <1>5 DEF Uncharged
    <2>2. b \in Uncharged' <=> mem'[b].charge = 0
      BY <1>1, <1>2, <1>5 DEF Uncharged
    <2>3. mem'[b].charge \in {0, Size[b]} /\ mem'[b].loaded
      BY <1>4, <1>5
    <2>4. mem'[b].charge = IF mem'[b].loaded /\ b \notin Uncharged' THEN Size[b] ELSE 0
      BY <1>5, <2>2, <2>3
    <2>. QED BY <1>4, <2>1, <2>4 DEF AccountInv, Charges
  <1>10. Balance' /\ Bounded'
    <2>1. used' + mem[b].charge + th[t].res = used + mem'[b].charge + th'[t].res
      BY <1>1, <1>2, <1>4, <1>5, <1>6
    <2>2. Buffered(mem'[b], b) + GrantedTo(th'[t]) <= Buffered(mem[b], b) + GrantedTo(th[t])
      BY <1>4, <1>5, <1>6, <1>7 DEF Buffered
    <2>3. used' \in Int
      BY <1>4, <1>5, <1>6
    <2>4. history' = history
      BY <1>3
    <2>. QED BY <2>1, <2>2, <2>3, <2>4, <1>2, <1>4, <1>9, BalanceStep
  <1>11. Sequenced'
    BY <1>1, <1>2, <1>3, <1>4, SequencedKept DEF AccountInv
  <1>. QED
    BY <1>3, <1>8, <1>9, <1>10, <1>11 DEF AccountInv, Settings

\* The new block is charged, whatever the old one was charged.
LEMMA ConvertedAccount ==
  ASSUME Types, Types', ContentsInv, Converting, AccountInv, NEW t \in Threads,
         Converted(t)
  PROVE  AccountInv'
  <1>0. PICK b, p : b = th[t].blk /\ p = th[t].node[1]
    OBVIOUS
  <1>1. /\ b \in Blocks /\ p \in Blocks /\ p # b /\ mem[p] = Absent
        /\ Size[b] = Size[p] /\ mem[b].loaded
        /\ \A a \in Blocks \ {b, p} : mem'[a] = mem[a]
        /\ ~mem'[b].loaded /\ mem'[b].seq = mem[b].seq /\ mem'[b].charge = 0
        /\ mem'[p].loaded /\ mem'[p].seq = 0 /\ mem'[p].charge = Size[p]
    BY <1>0, ConvertedEffect
  <1>2. /\ th[t].pc = "convert" /\ used' = used + (Size[b] - mem[b].charge)
        /\ pins' = [pins EXCEPT ![t] = @ \ {b}]
        /\ UNCHANGED <<limit, tempDir, history>>
    BY <1>0 DEF Converted, At
  <1>3. PICK s : /\ th' = [th EXCEPT ![t] = s]
                 /\ s.pc = "enqueue" /\ s.op = "none" /\ s.blk = p /\ s.res = 0
    BY <1>0, ConvertedMoves
  <1>4. th'[t] = s /\ \A u \in Threads \ {t} : th'[u] = th[u]
    BY <1>3 DEF Types
  <1>5. th[t].res = 0 /\ used \in Nat /\ GrantedTo(th[t]) = 0 /\ mem[b].charge \in Nat
    BY <1>1, <1>2, AccountNumbers DEF AccountInv, Reservations, Reserved, GrantedTo
  <1>6. Reserved(th'[t]) /\ GrantedTo(th'[t]) = 0
    BY <1>3, <1>4 DEF Reserved, GrantedTo
  <1>7. Reservations'
    BY <1>4, <1>6 DEF AccountInv, Reservations
  <1>8. \A u \in Threads \ {t} : th[u].pc = "convert" => th[u].blk # b /\ th[u].blk # p
    <2>1. \A u \in Threads \ {t} : th[u].pc = "convert" => th[u].blk # b
      BY <1>0, <1>2 DEF Converting
    <2>2. \A u \in Threads : p \notin pins[u]
      BY <1>1 DEF ContentsInv, Owned, Absent
    <2>. QED BY <2>1, <2>2 DEF Converting
  <1>9. Charges'
    <2>1. b \notin Uncharged' /\ p \notin Uncharged'
      BY <1>3, <1>4, <1>8 DEF Uncharged
    <2>2. \A a \in Blocks \ {b, p} : a \in Uncharged' <=> a \in Uncharged
      BY <1>0, <1>1, <1>2, <1>3, <1>4 DEF Uncharged
    <2>. QED BY <1>1, <2>1, <2>2 DEF AccountInv, Charges
  <1>10. Balance' /\ Bounded'
    <2>1. mem[p].charge = 0 /\ ~mem[p].loaded
      BY <1>1 DEF Absent
    <2>2. InMemory' + mem[b].charge = InMemory + Size[p]
      BY <1>1, <2>1, InMemoryMoves
    <2>3. InBuffers' = InBuffers
      BY <1>1, <2>1, BuffersMove
    <2>4. Pending' + 0 = Pending + 0 /\ Promised' + 0 = Promised + 0
      BY <1>3, <1>4, <1>5, <1>6, PendingStep
    <2>5. /\ Pending' = Pending /\ Promised' = Promised
          /\ InMemory \in Nat /\ InMemory' \in Nat /\ Pending \in Nat
      BY <2>4, MemorySums, MemorySumsPrimed
    <2>6. Size[p] \in Nat
      BY <1>1, PoolAssumption
    <2>7. used' = InMemory' + Pending'
      <3>1. PICK m, m2, r, c, z, v :
              /\ m = InMemory /\ m2 = InMemory' /\ r = Pending
              /\ c = mem[b].charge /\ z = Size[p] /\ v = used'
        OBVIOUS
      <3>2. /\ m \in Nat /\ m2 \in Nat /\ r \in Nat /\ c \in Nat /\ z \in Nat
            /\ m2 + c = m + z /\ v = (m + r) + (z - c)
        BY <1>1, <1>2, <1>5, <2>2, <2>5, <2>6, <3>1 DEF AccountInv, Balance
      <3>3. v = m2 + r
        BY ONLY <3>2
      <3>. QED BY <3>1, <3>3, <2>5
    <2>. QED
      BY <1>2, <2>3, <2>5, <2>7 DEF AccountInv, Balance, Bounded, history
  <1>11. pins'[t] = pins[t] \ {b} /\ \A u \in Threads \ {t} : pins'[u] = pins[u]
    BY <1>2 DEF Types
  <1>12. Sequenced'
    <2>1. \A u \in Threads : th'[u].pc = "enqueue" => th'[u].blk \notin pins'[u]
      <3>1. p \notin pins[t]
        BY <1>1 DEF ContentsInv, Owned, Absent
      <3>. QED BY <1>3, <1>4, <1>11, <3>1 DEF AccountInv, Sequenced
    <2>2. \A a \in Blocks \ {p} : Queueing(a)' \subseteq Queueing(a)
      BY <1>3, <1>4, <1>11 DEF Queueing
    <2>3. mem'[p].seq <= MaxInserts
      BY <1>1, PoolAssumption
    <2>. QED BY <1>1, <2>1, <2>2, <2>3, SequencedStep DEF AccountInv
  <1>. QED
    BY <1>2, <1>7, <1>9, <1>10, <1>12 DEF AccountInv, Settings

\* Every step keeps the accounts.
LEMMA AccountStep ==
  Types /\ Types' /\ ContentsInv /\ Converting /\ AccountInv /\ [Next]_vars
     => AccountInv'
  <1>. SUFFICES ASSUME Types, Types', ContentsInv, Converting, AccountInv, [Next]_vars
                PROVE  AccountInv'
    OBVIOUS
  <1>1. CASE UNCHANGED vars
    <2>1. UNCHANGED <<mem, th, pins, used, limit, history, tempDir>>
      BY <1>1 DEF vars, poolVars
    <2>. QED BY <2>1, AccountStill DEF AccountInv, Settings
  <1>2. CASE SetTemporaryDirectory
    BY <1>2, TemporaryDirectoryAccount
  <1>3. ASSUME NEW t \in Threads,
               \/ Evict(t) \/ Allocated(t) \/ PinEnds(t) \/ Enqueue(t)
               \/ PurgeStep(t) \/ Destroy(t) \/ Converted(t)
               \/ SetLimit(t) \/ LimitChanged(t) \/ LimitKept(t)
        PROVE  AccountInv'
    <2>1. CASE Evict(t)
      BY <2>1, EvictReserveAccount, EvictDequeueAccount, EvictExhaustedAccount,
         EvictVisitAccount DEF Evict
    <2>2. CASE Allocated(t)
      BY <2>2, AllocatedAccount
    <2>3. CASE PinEnds(t)
      BY <2>3, PinEndsAccount
    <2>4. CASE Enqueue(t)
      BY <2>4, EnqueueAccount
    <2>5. CASE PurgeStep(t)
      BY <2>5, PurgeStepAccount
    <2>6. CASE Destroy(t)
      BY <2>6, DestroyAccount
    <2>7. CASE SetLimit(t) \/ LimitChanged(t) \/ LimitKept(t)
      BY <2>7, LimitAccount
    <2>8. CASE Converted(t)
      BY <2>8, ConvertedAccount
    <2>. QED BY <1>3, <2>1, <2>2, <2>3, <2>4, <2>5, <2>6, <2>7, <2>8
  <1>4. ASSUME NEW t \in Threads, NEW b \in Blocks,
               \/ RegisterBlock(t, b) \/ Allocate(t, b) \/ Pin(t, b)
               \/ Unpin(t, b) \/ SetDestroyBufferUpon(t, b) \/ DropHandle(t, b)
               \/ \E p \in Persistent : \/ ConvertToPersistent(t, b, p)
                                        \/ ConvertFails(t, b, p)
        PROVE  AccountInv'
    <2>1. CASE Unpin(t, b) \/ \E p \in Persistent : ConvertFails(t, b, p)
      BY <2>1, UnpinAccount DEF Unpin, ConvertFails
    <2>. QED
      BY <1>4, <2>1, RegisterAccount, AllocateAccount, PinAccount,
         SetDestroyAccount, DropHandleAccount, ConvertAccount
  <1>. QED
    BY <1>1, <1>2, <1>3, <1>4 DEF Next

\* Nothing is in memory at the start.
LEMMA AccountInit == Init => AccountInv
  <1>. SUFFICES ASSUME Init PROVE AccountInv
    OBVIOUS
  <1>1. /\ \A t \in Threads : th[t] = Idle /\ pins[t] = {}
        /\ \A b \in Blocks : mem[b] = Absent
        /\ used = 0 /\ limit = Max(Limits) /\ assured = Max(Limits) /\ overdraft = 0
        /\ tempDir \in {"unset", "set", "used"}
    BY DEF Init
  <1>2. /\ Idle.pc = "idle" /\ Idle.op = "none" /\ Idle.res = 0
        /\ Reserved(Idle) /\ GrantedTo(Idle) = 0
    BY DEF Idle, Reserved, GrantedTo
  <1>3. Absent.charge = 0 /\ Absent.loaded = FALSE /\ Absent.seq = 0
    BY DEF Absent
  <1>4. Reservations /\ Charges
    BY <1>1, <1>2, <1>3 DEF Reservations, Charges
  <1>5. InMemory = 0
    <2>. DEFINE f == [b \in Blocks |-> mem[b].charge]
    <2>1. \A b \in Blocks : f[b] = 0
      BY <1>1, <1>3
    <2>. HIDE DEF f
    <2>2. Sum(f, Blocks) = 0
      BY <2>1, SumZero
    <2>. QED BY <2>2 DEF InMemory, f
  <1>6. Pending = 0
    <2>. DEFINE f == [t \in Threads |-> th[t].res]
    <2>1. \A t \in Threads : f[t] = 0
      BY <1>1, <1>2
    <2>. HIDE DEF f
    <2>2. Sum(f, Threads) = 0
      BY <2>1, SumZero
    <2>. QED BY <2>2 DEF Pending, f
  <1>7. Promised = 0
    <2>. DEFINE f == [t \in Threads |-> GrantedTo(th[t])]
    <2>1. \A t \in Threads : f[t] = 0
      BY <1>1, <1>2
    <2>. HIDE DEF f
    <2>2. Sum(f, Threads) = 0
      BY <2>1, SumZero
    <2>. QED BY <2>2 DEF Promised, f
  <1>11. InBuffers = 0
    <2>. DEFINE f == [b \in Blocks |-> Buffered(mem[b], b)]
    <2>1. \A b \in Blocks : f[b] = 0
      BY <1>1, <1>3 DEF Buffered
    <2>. HIDE DEF f
    <2>2. Sum(f, Blocks) = 0
      BY <2>1, SumZero
    <2>. QED BY <2>2 DEF InBuffers, f
  <1>8. Balance /\ Bounded
    BY <1>1, <1>5, <1>6, <1>7, <1>11, LimitsHaveMax DEF Balance, Bounded
  <1>9. limit \in Limits
    <2>1. PICK most \in Limits : \A l \in Limits : l <= most
      BY PoolAssumption
    <2>2. \A y \in Limits : most >= y
      BY <2>1, PoolAssumption
    <2>. QED BY <1>1, <2>1, <2>2 DEF Max
  <1>10. Sequenced
    <2>1. \A b \in Blocks : Queueing(b) = {}
      BY <1>1, <1>2 DEF Queueing
    <2>2. Cardinality(Threads) \in Nat /\ MaxInserts \in Nat
      BY PoolAssumption, FS_CardinalityType
    <2>3. \A b \in Blocks : mem[b].seq + Cardinality(Queueing(b))
                              <= MaxInserts + Cardinality(Threads)
      BY <1>1, <1>3, <2>1, <2>2, FS_EmptySet
    <2>. QED BY <1>1, <1>2, <2>3 DEF Sequenced
  <1>. QED
    BY <1>1, <1>4, <1>8, <1>9, <1>10 DEF AccountInv, Settings

\* The accounts imply what the runs check of them.
LEMMA AccountFollows ==
  Types /\ ContentsInv /\ AccountInv => MemoryAccounted /\ WithinLimit
  <1>. SUFFICES ASSUME Types, ContentsInv, AccountInv
                PROVE  MemoryAccounted /\ WithinLimit
    OBVIOUS
  <1>1. TypeOK
    <2>1. \A b \in Blocks : mem[b].life \in {"none", "live", "gone"}
                            /\ mem[b].upon \in {"BLOCK", "EVICTION", "UNPIN"}
      BY DEF Types, MemoryType, Lives, Upons
    <2>2. \A b \in Blocks : mem[b].seq \in 0..(MaxInserts + Cardinality(Threads))
      <3>. TAKE b \in Blocks
      <3>1. mem[b].seq \in Nat
        BY DEF Types, MemoryType
      <3>2. MaxInserts \in Nat /\ Cardinality(Threads) \in Nat
        BY PoolAssumption, FS_CardinalityType
      <3>3. IsFiniteSet(Queueing(b)) /\ Cardinality(Queueing(b)) \in Nat
        BY PoolAssumption, FS_Subset, FS_CardinalityType DEF Queueing
      <3>4. mem[b].seq + Cardinality(Queueing(b)) <= MaxInserts + Cardinality(Threads)
        BY DEF AccountInv, Sequenced
      <3>. QED BY <3>1, <3>2, <3>3, <3>4
    <2>3. \A b \in Blocks : mem[b].owned =>
            mem[b].readers = Cardinality({t \in Threads : b \in pins[t]})
      BY DEF ContentsInv, Owned, Pinners
    <2>4. \A t \in Threads : th[t].pc \in Pcs /\ th[t].op \in Ops
      BY DEF Types, ThreadType
    <2>. QED
      BY <2>1, <2>2, <2>3, <2>4 DEF TypeOK, Types, AccountInv, Settings
  <1>2. MemoryAccounted
    BY <1>1 DEF MemoryAccounted, AccountInv, Balance, Charges, InMemory, Pending
  <1>3. WithinLimit
    <2>. DEFINE c == [b \in Blocks |-> mem[b].charge]
                f == [b \in Blocks |-> Buffered(mem[b], b)]
    <2>1. \A b \in Blocks : c[b] \in Nat /\ f[b] \in Nat /\ c[b] <= f[b]
      BY PoolAssumption DEF AccountInv, Charges, Buffered
    <2>. HIDE DEF c, f
    <2>2. Sum(c, Blocks) <= Sum(f, Blocks) /\ Sum(c, Blocks) \in Nat /\ Sum(f, Blocks) \in Nat
      BY <2>1, SumLess, SumNat, PoolAssumption
    <2>3. InMemory <= InBuffers /\ InMemory \in Nat /\ InBuffers \in Nat
      BY <2>2 DEF InMemory, InBuffers, c, f
    <2>4. Promised \in Nat
      BY MemorySums
    <2>5. /\ assured \in Nat /\ overdraft \in Nat
          /\ InBuffers + Promised <= assured + overdraft
      BY DEF AccountInv, Bounded
    <2>6. InMemory + Promised <= assured + overdraft
      BY <2>3, <2>4, <2>5
    <2>. QED BY <2>6 DEF WithinLimit, InMemory, Promised, GrantedTo
  <1>. QED BY <1>2, <1>3

\* Whatever is pinned, evicted, converted and destroyed by any number of
\* threads, the reservations, charges and sequence numbers stay consistent.
THEOREM AccountsCorrect == Spec => []AccountInv
  <1>1. Init => AccountInv
    BY AccountInit
  <1>2. PoolInv /\ PoolInv' /\ AccountInv /\ [Next]_vars => AccountInv'
    BY AccountStep DEF PoolInv
  <1>3. Spec => []PoolInv
    BY PoolCorrect
  <1>. QED
    BY <1>1, <1>2, <1>3, PTL DEF Spec

\* memory_usage is what the blocks in memory are charged and what threads have
\* reserved, at every step of every interleaving.
THEOREM MemoryIsAccounted == Spec => []MemoryAccounted
  <1>1. PoolInv /\ AccountInv => MemoryAccounted
    BY AccountFollows DEF PoolInv
  <1>. QED
    BY <1>1, PoolCorrect, AccountsCorrect, PTL

\* What is in memory and what is granted stay within the limit the grants were
\* checked against, however many threads reserve memory at once, up to what
\* conversions had uncharged when memory was last granted.
THEOREM LimitIsKept == Spec => []WithinLimit
  <1>1. PoolInv /\ AccountInv => WithinLimit
    BY AccountFollows DEF PoolInv
  <1>. QED
    BY <1>1, PoolCorrect, AccountsCorrect, PTL

-----------------------------------------------------------------------------
(* Dead nodes: <action>Count says that the action keeps CountInv *)

Bit(p) == IF p THEN 1 ELSE 0

\* Two sets that differ by one element at most.
LEMMA OneElement ==
  ASSUME NEW S, NEW T, IsFiniteSet(S), IsFiniteSet(T), NEW x,
         \A y : y # x => (y \in T <=> y \in S)
  PROVE  /\ Cardinality(S) \in Nat /\ Cardinality(T) \in Nat
         /\ Cardinality(T) + Bit(x \in S) = Cardinality(S) + Bit(x \in T)
  <1>1. Cardinality(S) \in Nat /\ Cardinality(T) \in Nat
    BY FS_CardinalityType
  <1>2. CASE (x \in S) <=> (x \in T)
    <2>1. S = T
      BY <1>2
    <2>. QED BY <1>1, <2>1
  <1>3. CASE x \in S /\ x \notin T
    <2>1. T = S \ {x}
      BY <1>3
    <2>2. Cardinality(T) = Cardinality(S) - 1
      BY <1>3, <2>1, FS_RemoveElement
    <2>. QED BY <1>1, <1>3, <2>2 DEF Bit
  <1>4. CASE x \notin S /\ x \in T
    <2>1. T = S \cup {x}
      BY <1>4
    <2>2. Cardinality(T) = Cardinality(S) + 1
      BY <1>4, <2>1, FS_AddElement
    <2>. QED BY <1>1, <1>4, <2>2 DEF Bit
  <1>. QED BY <1>2, <1>3, <1>4

\* The entries are finitely many.
LEMMA EntriesFinite == Types => IsFiniteSet(Entries)
  <1>. SUFFICES ASSUME Types PROVE IsFiniteSet(Entries)
    OBVIOUS
  <1>. DEFINE Q == {queues[q] : q \in 1..3}
              H == {InHand(th[t]) : t \in Threads}
  <1>1. \A q \in 1..3 : IsFiniteSet(queues[q])
    BY DEF Types
  <1>2. ASSUME NEW t \in Threads PROVE IsFiniteSet(InHand(th[t]))
    <2>1. IsFiniteSet(th[t].batch) /\ IsFiniteSet(th[t].alive)
      BY DEF Types, WellFormed
    <2>2. IsFiniteSet({th[t].node}) /\ IsFiniteSet({})
      BY FS_Singleton, FS_EmptySet
    <2>3. IsFiniteSet(th[t].batch \cup th[t].alive)
      BY <2>1, FS_Union
    <2>4. CASE th[t].pc = "visit"
      <3>1. InHand(th[t]) = (th[t].batch \cup th[t].alive) \cup {th[t].node}
        BY <2>4 DEF InHand
      <3>. QED BY <2>2, <2>3, <3>1, FS_Union
    <2>5. CASE th[t].pc # "visit"
      <3>1. InHand(th[t]) = th[t].batch \cup th[t].alive
        BY <2>5 DEF InHand
      <3>. QED BY <2>3, <3>1
    <2>. QED BY <2>4, <2>5
  <1>3. IsFiniteSet(Q)
    <2>. DEFINE h == [q \in 1..3 |-> queues[q]]
    <2>1. h \in Surjection(1..3, Q)
      BY DEF Surjection
    <2>2. IsFiniteSet(1..3)
      <3>1. 1 \in Int /\ 3 \in Int
        OBVIOUS
      <3>. QED BY <3>1, FS_Interval
    <2>. QED BY <2>1, <2>2, FS_Surjection
  <1>4. IsFiniteSet(H)
    <2>. DEFINE h == [t \in Threads |-> InHand(th[t])]
    <2>1. h \in Surjection(Threads, H)
      BY DEF Surjection
    <2>. QED BY <2>1, PoolAssumption, FS_Surjection
  <1>5. (\A U \in Q : IsFiniteSet(U)) /\ \A U \in H : IsFiniteSet(U)
    BY <1>1, <1>2
  <1>6. \A n : n \in Entries <=> n \in (UNION Q) \cup (UNION H)
    BY EntriesHeld DEF HeldIn
  <1>. HIDE DEF Q, H
  <1>7. IsFiniteSet(UNION Q) /\ IsFiniteSet(UNION H)
    BY <1>3, <1>4, <1>5, FS_UNION
  <1>8. IsFiniteSet((UNION Q) \cup (UNION H))
    BY <1>7, FS_Union
  <1>9. Entries = (UNION Q) \cup (UNION H)
    BY <1>6
  <1>. QED BY <1>8, <1>9

\* What the counters are made of is finite.
CountsFinite ==
    \A q \in 1..3 : /\ IsFiniteSet(DeadEntries(q)) /\ IsFiniteSet(Destroying(q))
                    /\ IsFiniteSet(Superseding(q))
                    /\ \A t \in Threads : JudgedBy(th[t], q) \in Nat

LEMMA CountsAreFinite == Types => CountsFinite
  <1>. SUFFICES ASSUME Types, NEW q \in 1..3
                PROVE  /\ IsFiniteSet(DeadEntries(q)) /\ IsFiniteSet(Destroying(q))
                       /\ IsFiniteSet(Superseding(q))
                       /\ \A t \in Threads : JudgedBy(th[t], q) \in Nat
    BY DEF CountsFinite
  <1>1. IsFiniteSet(DeadEntries(q))
    <2>1. DeadEntries(q) \subseteq Entries
      BY DEF DeadEntries
    <2>. QED BY <2>1, EntriesFinite, FS_Subset
  <1>2. IsFiniteSet(Destroying(q)) /\ IsFiniteSet(Superseding(q))
    <2>1. Destroying(q) \subseteq Threads /\ Superseding(q) \subseteq Threads
      BY DEF Destroying, Superseding
    <2>. QED BY <2>1, PoolAssumption, FS_Subset
  <1>3. \A t \in Threads : JudgedBy(th[t], q) \in Nat
    BY DEF JudgedBy, Types, ThreadType
  <1>. QED BY <1>1, <1>2, <1>3

LEMMA CountsAreFinitePrimed == Types' => CountsFinite'
  BY CountsAreFinite, PTL

\* The counters balance after a step of t when what t changes balances.
LEMMA CountedStep ==
  ASSUME Types, Types', Counted, NEW t \in Threads, dead' \in [1..3 -> Int],
         \A u \in Threads \ {t} : th'[u] = th[u] /\ dying'[u] = dying[u],
         \A u \in Threads \ {t} : th[u].pc = "enqueue" =>
            mem'[th[u].blk].entry = mem[th[u].blk].entry,
         \A u \in Threads \ {t} : dying[u] # NoBlock =>
            mem'[dying[u]].entry = mem[dying[u]].entry,
         \A q \in 1..3 :
            dead'[q] + Bit(t \in Destroying(q)') + Cardinality(DeadEntries(q))
              + JudgedBy(th[t], q) + Bit(t \in Superseding(q))
            = dead[q] + Bit(t \in Destroying(q)) + Cardinality(DeadEntries(q)')
              + JudgedBy(th'[t], q) + Bit(t \in Superseding(q)')
  PROVE  Counted'
  <1>. SUFFICES ASSUME NEW q \in 1..3
                PROVE  dead'[q] + Cardinality(Destroying(q)') =
                         Cardinality(DeadEntries(q)') + Judged(q)'
                           + Cardinality(Superseding(q)')
    BY DEF Counted
  <1>0. CountsFinite /\ CountsFinite' /\ IsFiniteSet(Threads)
    BY CountsAreFinite, CountsAreFinitePrimed, PoolAssumption
  <1>1. \A u : u # t => (u \in Destroying(q)' <=> u \in Destroying(q))
    BY DEF Destroying
  <1>2. \A u : u # t => (u \in Superseding(q)' <=> u \in Superseding(q))
    BY DEF Superseding
  <1>3. PICK ds : ds = Destroying(q)'
    OBVIOUS
  <1>4. PICK ss : ss = Superseding(q)'
    OBVIOUS
  <1>5. /\ IsFiniteSet(ds) /\ IsFiniteSet(ss) /\ IsFiniteSet(DeadEntries(q)')
        /\ \A u \in Threads : JudgedBy(th'[u], q) \in Nat
    BY <1>0, <1>3, <1>4 DEF CountsFinite
  <1>6. /\ IsFiniteSet(Destroying(q)) /\ IsFiniteSet(Superseding(q))
        /\ IsFiniteSet(DeadEntries(q))
        /\ \A u \in Threads : JudgedBy(th[u], q) \in Nat
    BY <1>0 DEF CountsFinite
  <1>7. /\ Cardinality(Destroying(q)) \in Nat /\ Cardinality(ds) \in Nat
        /\ Cardinality(ds) + Bit(t \in Destroying(q))
             = Cardinality(Destroying(q)) + Bit(t \in ds)
    BY <1>1, <1>3, <1>5, <1>6, OneElement
  <1>8. /\ Cardinality(Superseding(q)) \in Nat /\ Cardinality(ss) \in Nat
        /\ Cardinality(ss) + Bit(t \in Superseding(q))
             = Cardinality(Superseding(q)) + Bit(t \in ss)
    BY <1>2, <1>4, <1>5, <1>6, OneElement
  <1>9. /\ Judged(q) \in Nat /\ Judged(q)' \in Nat
        /\ Judged(q)' + JudgedBy(th[t], q) = Judged(q) + JudgedBy(th'[t], q)
    <2>1. PICK f : f = [u \in Threads |-> JudgedBy(th[u], q)]
      OBVIOUS
    <2>2. PICK g : g = [u \in Threads |-> JudgedBy(th'[u], q)]
      OBVIOUS
    <2>3. \A u \in Threads : f[u] \in Nat /\ g[u] \in Nat
      BY <1>5, <1>6, <2>1, <2>2
    <2>4. \A u \in Threads \ {t} : g[u] = f[u]
      BY <2>1, <2>2
    <2>5. /\ Sum(f, Threads) \in Nat /\ Sum(g, Threads) \in Nat
          /\ Sum(g, Threads) + f[t] = Sum(f, Threads) + g[t]
      <3>1. IsFiniteSet(Threads) /\ t \in Threads
        BY <1>0
      <3>. QED BY ONLY <2>3, <2>4, <3>1, SumOne
    <2>6. f[t] = JudgedBy(th[t], q) /\ g[t] = JudgedBy(th'[t], q)
      BY <2>1, <2>2
    <2>7. Judged(q) = Sum(f, Threads)
      BY <2>1 DEF Judged
    <2>8. Judged(q)' = Sum(g, Threads)
      BY <2>2 DEF Judged
    <2>. QED BY <2>5, <2>6, <2>7, <2>8
  <1>10. PICK d, e, s, j : /\ d = Cardinality(DeadEntries(q)) /\ j = Judged(q)
                           /\ e = Cardinality(Destroying(q))
                           /\ s = Cardinality(Superseding(q))
    OBVIOUS
  <1>11. PICK d2, e2, s2, j2 : /\ d2 = Cardinality(DeadEntries(q)') /\ j2 = Judged(q)'
                               /\ e2 = Cardinality(ds) /\ s2 = Cardinality(ss)
    OBVIOUS
  <1>12. PICK a, a2, c, c2 : /\ a = Bit(t \in Destroying(q)) /\ a2 = Bit(t \in ds)
                             /\ c = Bit(t \in Superseding(q)) /\ c2 = Bit(t \in ss)
    OBVIOUS
  <1>13. PICK k, k2, x, x2 : /\ k = JudgedBy(th[t], q) /\ k2 = JudgedBy(th'[t], q)
                             /\ x = dead[q] /\ x2 = dead'[q]
    OBVIOUS
  <1>14. /\ d \in Nat /\ e \in Nat /\ s \in Nat /\ j \in Nat
         /\ d2 \in Nat /\ e2 \in Nat /\ s2 \in Nat /\ j2 \in Nat
    BY <1>5, <1>6, <1>7, <1>8, <1>9, <1>10, <1>11, FS_CardinalityType
  <1>15. /\ a \in Int /\ a2 \in Int /\ c \in Int /\ c2 \in Int
         /\ k \in Int /\ k2 \in Int /\ x \in Int /\ x2 \in Int
    BY <1>5, <1>6, <1>12, <1>13 DEF Bit, Counted
  <1>16. e2 + a = e + a2 /\ s2 + c = s + c2 /\ j2 + k = j + k2
    BY <1>7, <1>8, <1>9, <1>10, <1>11, <1>12, <1>13
  <1>17. x2 + a2 + d + k + c = x + a + d2 + k2 + c2
    BY <1>3, <1>4, <1>10, <1>11, <1>12, <1>13
  <1>18. x + e = d + j + s
    BY <1>10, <1>13 DEF Counted
  <1>19. x2 + e2 = d2 + j2 + s2
    BY ONLY <1>14, <1>15, <1>16, <1>17, <1>18
  <1>. QED BY <1>3, <1>4, <1>11, <1>13, <1>19

\* Which entries are dead.
LEMMA DeadIs ==
  \A q, n : n \in DeadEntries(q) <=>
     HeldIn(n, queues, th) /\ QueueOf(n[1]) = q /\ (~Alive(n[1]) \/ n # Node(n[1]))
  BY EntriesHeld DEF DeadEntries, IsDeadNode

DeadWhere ==
    \A q, n : n \in DeadEntries(q) <=>
       HeldIn(n, queues, th) /\ QueueOf(n[1]) = q /\ (~Alive(n[1]) \/ n # Node(n[1]))

LEMMA DeadIsPrimed == DeadWhere'
  <1>1. DeadWhere
    BY DeadIs DEF DeadWhere
  <1>. QED BY <1>1, PTL

\* What CountInv says of a thread and of the queues, after a step of t.
LEMMA CountParts ==
  ASSUME Placed, LockedOnce, JudgedStart, NEW t \in Threads,
         \A u \in Threads \ {t} : th'[u] = th[u],
         \A q \in 1..3 : \A n \in queues'[q] : n \in queues[q] \/ QueueOf(n[1]) = q,
         \A n \in InHand(th'[t]) : QueueOf(n[1]) = th'[t].q,
         th'[t].pc = "enqueue" => th'[t] = th[t] \/ ~Locked(th'[t].blk),
         th'[t].pc \in {"purge", "bulk"} => th'[t].deadCount = 0,
         th'[t].pc = "judge" =>
            th'[t] = th[t] \/ th'[t].batch \cap th'[t].alive = {}
  PROVE  Placed' /\ LockedOnce' /\ JudgedStart'
  <1>1. Placed'
    BY DEF Placed
  <1>2. LockedOnce'
    <2>. SUFFICES ASSUME NEW u \in Threads, NEW v \in Threads,
                         th'[u].pc = "enqueue", th'[v].pc = "enqueue",
                         th'[u].blk = th'[v].blk
                  PROVE  u = v
      BY DEF LockedOnce
    <2>. QED BY DEF LockedOnce, Locked
  <1>3. JudgedStart'
    BY DEF JudgedStart
  <1>. QED BY <1>1, <1>2, <1>3

\* Steps that move no entry, and neither queue nor destroy a block.
LEMMA CountPassing ==
  ASSUME Types, Types', QueueInv, CountInv, EntriesKept, UNCHANGED <<dead, dying>>,
         NEW t \in Threads, \A u \in Threads \ {t} : th'[u] = th[u],
         \/ th'[t] = th[t]
         \/ /\ th[t].pc \notin {"visit", "enqueue", "judge"}
            /\ th'[t].pc \notin {"visit", "enqueue", "judge"}
            /\ th'[t].pc \in {"purge", "bulk"} => th'[t].deadCount = 0,
         \A a \in Blocks : mem'[a].entry = mem[a].entry,
         \A a \in Blocks : mem[a].life # "none" =>
            mem'[a].life = mem[a].life /\ mem'[a].seq = mem[a].seq
  PROVE  CountInv'
  <1>1. Placed /\ LockedOnce /\ JudgedStart /\ Counted /\ EntriesMade
    BY DEF CountInv, QueueInv
  <1>2. \A n \in InHand(th'[t]) : QueueOf(n[1]) = th'[t].q
    <2>1. CASE th'[t] = th[t]
      BY <1>1, <2>1 DEF Placed
    <2>2. CASE th[t].pc \notin {"visit", "enqueue", "judge"}
      <3>1. InHand(th'[t]) = {}
        BY <2>2, EmptyHands DEF EntriesKept
      <3>. QED BY <3>1
    <2>. QED BY <2>1, <2>2
  <1>3. Placed' /\ LockedOnce' /\ JudgedStart'
    <2>1. \A q \in 1..3 : \A n \in queues'[q] : n \in queues[q]
      BY DEF EntriesKept
    <2>2. th'[t].pc \in {"enqueue", "judge"} => th'[t] = th[t]
      OBVIOUS
    <2>3. th'[t].pc \in {"purge", "bulk"} => th'[t].deadCount = 0
      BY <1>1 DEF JudgedStart
    <2>. QED BY <1>1, <1>2, <2>1, <2>2, <2>3, CountParts
  <1>4. ASSUME NEW n, HeldIn(n, queues, th)
        PROVE  /\ Alive(n[1])' <=> Alive(n[1])
               /\ Node(n[1])' = Node(n[1])
    <2>1. n \in Nodes /\ Made(n)
      BY <1>1, <1>4, HeldMade, EntriesAreNodes DEF HeldIn
    <2>2. n[1] \in Blocks /\ mem[n[1]].life # "none"
      BY <2>1 DEF Nodes, Made
    <2>. QED BY <2>2 DEF Alive, Node
  <1>5. ASSUME NEW q \in 1..3 PROVE DeadEntries(q)' = DeadEntries(q)
    <2>1. \A n : n \in DeadEntries(q)' <=> n \in DeadEntries(q)
      BY <1>4, DeadIs, DeadIsPrimed, HeldKept DEF DeadWhere
    <2>. QED BY <2>1
  <1>6. \A u \in Threads : /\ th[u].pc = "enqueue" => th[u].blk \in Blocks
                           /\ dying[u] # NoBlock => dying[u] \in Blocks
    BY DEF Types, WellFormed
  <1>7. ASSUME NEW q \in 1..3
        PROVE  /\ t \in Destroying(q)' <=> t \in Destroying(q)
               /\ t \in Superseding(q)' <=> t \in Superseding(q)
               /\ JudgedBy(th'[t], q) = JudgedBy(th[t], q)
    <2>1. t \in Destroying(q)' <=> t \in Destroying(q)
      BY <1>6 DEF Destroying
    <2>2. t \in Superseding(q)' <=> t \in Superseding(q)
      BY <1>6 DEF Superseding
    <2>3. JudgedBy(th'[t], q) = JudgedBy(th[t], q)
      BY DEF JudgedBy
    <2>. QED BY <2>1, <2>2, <2>3
  <1>8. Counted'
    <2>1. \A q \in 1..3 :
            dead'[q] + Bit(t \in Destroying(q)') + Cardinality(DeadEntries(q))
              + JudgedBy(th[t], q) + Bit(t \in Superseding(q))
            = dead[q] + Bit(t \in Destroying(q)) + Cardinality(DeadEntries(q)')
              + JudgedBy(th'[t], q) + Bit(t \in Superseding(q)')
      BY <1>5, <1>7 DEF Bit
    <2>2. dead' \in [1..3 -> Int]
      BY <1>1 DEF Counted
    <2>3. \A u \in Threads \ {t} : th[u].pc = "enqueue" =>
            mem'[th[u].blk].entry = mem[th[u].blk].entry
      BY <1>6
    <2>4. \A u \in Threads \ {t} : dying[u] # NoBlock =>
            mem'[dying[u]].entry = mem[dying[u]].entry
      BY <1>6
    <2>. QED BY <1>1, <2>1, <2>2, <2>3, <2>4, CountedStep
  <1>. QED BY <1>3, <1>8 DEF CountInv

\* Steps that change nothing CountInv speaks of.
LEMMA CountStill ==
  ASSUME CountInv, UNCHANGED <<mem, dying, queues, th, dead>>
  PROVE  CountInv'
  <1>1. Placed' /\ LockedOnce' /\ JudgedStart'
    BY DEF CountInv, Placed, LockedOnce, JudgedStart
  <1>2. Counted'
    <2>1. Entries' = Entries
      BY DEF Entries
    <2>2. \A n : IsDeadNode(n)' <=> IsDeadNode(n)
      BY DEF IsDeadNode, Alive, Node
    <2>3. \A q \in 1..3 : DeadEntries(q)' = DeadEntries(q)
      BY <2>1, <2>2 DEF DeadEntries
    <2>4. \A q \in 1..3 : /\ Destroying(q)' = Destroying(q)
                          /\ Superseding(q)' = Superseding(q) /\ Judged(q)' = Judged(q)
      BY DEF Destroying, Superseding, Judged
    <2>. QED BY <2>3, <2>4 DEF CountInv, Counted
  <1>. QED BY <1>1, <1>2 DEF CountInv

\* A thread that goes on with its eviction, or ends what it does.
LEMMA CountGoesOn ==
  ASSUME Types, Types', QueueInv, CountInv, UNCHANGED <<queues, dead, dying>>,
         NEW t \in Threads, \A u \in Threads \ {t} : th'[u] = th[u],
         th[t].pc \notin {"visit", "enqueue", "judge"},
         th'[t].pc \notin {"visit", "enqueue", "judge", "purge", "bulk"},
         \A a \in Blocks : mem'[a].entry = mem[a].entry,
         \A a \in Blocks : mem[a].life # "none" =>
            mem'[a].life = mem[a].life /\ mem'[a].seq = mem[a].seq
  PROVE  CountInv'
  <1>1. InHand(th[t]) = {}
    BY EmptyHands
  <1>2. InHand(th'[t]) = {}
    BY DEF Types, WellFormed, InHand
  <1>3. EntriesKept
    BY <1>1, <1>2 DEF EntriesKept
  <1>. QED BY <1>3, CountPassing

LEMMA IdleFields ==
  ASSUME Types, NEW t \in Threads, th' = [th EXCEPT ![t] = Idle]
  PROVE  /\ \A u \in Threads \ {t} : th'[u] = th[u]
         /\ th'[t] = Idle /\ th'[t].pc = "idle" /\ th'[t].op = "none"
  BY DEF Types, Idle

LEMMA EvictCount ==
  ASSUME Types, Types', QueueInv, CountInv, NEW t \in Threads,
         EvictReserve(t) \/ EvictExhausted(t)
  PROVE  CountInv'
  <1>1. UNCHANGED <<mem, queues, dead, dying>>
    BY DEF EvictReserve, EvictExhausted
  <1>2. th[t].pc \notin {"visit", "enqueue", "judge"}
    BY DEF EvictReserve, EvictExhausted, At
  <1>3. /\ \A u \in Threads \ {t} : th'[u] = th[u]
        /\ th'[t].pc \in {"idle", "reserve", "iterate", "granted"}
    <2>1. CASE th' = [th EXCEPT ![t].pc = "iterate", ![t].res = th[t].need]
      BY <2>1 DEF Types, ThreadType
    <2>2. CASE Grant(t)
      BY <2>2, GrantIs, MovesFields
    <2>3. CASE NextQueue(t)
      BY <2>3, NextQueueIs, MovesFields
    <2>4. CASE GiveUp(t, FALSE)
      BY <2>4, IdleFields DEF GiveUp
    <2>. QED BY <2>1, <2>2, <2>3, <2>4 DEF EvictReserve, EvictExhausted
  <1>. QED BY <1>1, <1>2, <1>3, CountGoesOn

LEMMA LimitCount ==
  ASSUME Types, Types', QueueInv, CountInv, NEW t \in Threads,
         SetLimit(t) \/ LimitChanged(t) \/ LimitKept(t) \/ PinFails(t)
  PROVE  CountInv'
  <1>1. UNCHANGED <<mem, queues, dead, dying>>
    BY DEF SetLimit, LimitChanged, LimitKept, PinFails, poolVars
  <1>2. th[t].pc \notin {"visit", "enqueue", "judge"}
    BY DEF SetLimit, LimitChanged, LimitKept, PinFails, At
  <1>3. /\ \A u \in Threads \ {t} : th'[u] = th[u]
        /\ th'[t].pc \in {"idle", "reserve"}
    <2>1. CASE SetLimit(t) \/ LimitChanged(t)
      BY <2>1, StartFields DEF SetLimit, LimitChanged
    <2>2. CASE LimitKept(t) \/ PinFails(t)
      BY <2>2, IdleFields DEF LimitKept, PinFails
    <2>. QED BY <2>1, <2>2
  <1>. QED BY <1>1, <1>2, <1>3, CountGoesOn

LEMMA AllocateCount ==
  ASSUME Types, Types', QueueInv, CountInv, NEW t \in Threads, NEW b \in Blocks,
         Allocate(t, b)
  PROVE  CountInv'
  <1>1. UNCHANGED <<mem, queues, dead, dying>> /\ th[t].pc = "idle"
    BY DEF Allocate, poolVars, At
  <1>2. (\A u \in Threads \ {t} : th'[u] = th[u]) /\ th'[t].pc = "reserve"
    BY StartFields DEF Allocate
  <1>. QED BY <1>1, <1>2, CountGoesOn

LEMMA RegisterCount ==
  ASSUME Types, Types', ContentsInv, QueueInv, CountInv, NEW t \in Threads,
         NEW b \in Blocks, RegisterBlock(t, b)
  PROVE  CountInv'
  <1>1. UNCHANGED <<queues, dead, dying, th>> /\ th[t].pc = "idle" /\ mem[b].life = "none"
    BY DEF RegisterBlock, poolVars, At
  <1>2. \A a \in Blocks \ {b} : mem'[a] = mem[a]
    BY DEF RegisterBlock, Types
  <1>3. mem'[b].entry = mem[b].entry
    BY DEF RegisterBlock, Types, MemoryType
  <1>. QED BY <1>1, <1>2, <1>3, CountGoesOn

LEMMA AllocatedCount ==
  ASSUME Types, Types', ContentsInv, QueueInv, CountInv, NEW t \in Threads,
         Allocated(t)
  PROVE  CountInv'
  <1>0. PICK b : b = th[t].blk
    OBVIOUS
  <1>1. /\ b \in Blocks /\ mem[b].life = "none" /\ mem[b] = Absent
        /\ UNCHANGED <<queues, dead, dying>>
    BY <1>0 DEF Allocated, ContentsInv, Wanted, Owned, Blocks, poolVars
  <1>2. \A a \in Blocks \ {b} : mem'[a] = mem[a]
    BY <1>0 DEF Allocated, Types
  <1>3. mem'[b].entry = mem[b].entry
    <2>1. mem'[b] = [Absent EXCEPT !.life = "live", !.owned = TRUE,
                                   !.loaded = TRUE, !.readers = 1,
                                   !.charge = th[t].res,
                                   !.upon = IF b \in CanDestroy THEN "EVICTION"
                                            ELSE "BLOCK"]
      BY <1>0, <1>1 DEF Allocated, Types
    <2>. QED BY <1>1, <2>1 DEF Absent
  <1>4. th[t].pc = "granted" /\ th' = [th EXCEPT ![t] = Idle]
    BY DEF Allocated, At
  <1>5. (\A u \in Threads \ {t} : th'[u] = th[u]) /\ th'[t].pc = "idle"
    BY <1>4, IdleFields
  <1>. QED BY <1>1, <1>2, <1>3, <1>4, <1>5, CountGoesOn

\* A change of a block's readers, buffer, charge or flags.
LEMMA ReadersEntry ==
  ASSUME Types, NEW b \in Blocks, NEW loaded, NEW readers, NEW charge, NEW upon,
         \/ mem' = [mem EXCEPT ![b].readers = @ + 1]
         \/ mem' = [mem EXCEPT ![b].loaded = loaded, ![b].readers = readers,
                               ![b].charge = charge]
         \/ mem' = [mem EXCEPT ![b].upon = upon]
  PROVE  \A a \in Blocks : /\ mem'[a].entry = mem[a].entry
                           /\ mem'[a].life = mem[a].life
                           /\ mem'[a].seq = mem[a].seq
  BY DEF Types, MemoryType

LEMMA PinCount ==
  ASSUME Types, Types', QueueInv, CountInv, NEW t \in Threads, NEW b \in Blocks,
         Pin(t, b)
  PROVE  CountInv'
  <1>1. UNCHANGED <<queues, dead, dying>> /\ th[t].pc = "idle"
    BY DEF Pin, poolVars, At
  <1>2. CASE Pinned(t, b) /\ UNCHANGED th
    <2>1. \A a \in Blocks : /\ mem'[a].entry = mem[a].entry
                            /\ mem'[a].life = mem[a].life
                            /\ mem'[a].seq = mem[a].seq
      BY <1>2, ReadersEntry DEF Pinned
    <2>. QED BY <1>1, <1>2, <2>1, CountGoesOn
  <1>3. CASE UNCHANGED <<mem, pins>> /\ StartEviction(t, "pin", b, Size[b], limit, 0)
    <2>1. (\A u \in Threads \ {t} : th'[u] = th[u]) /\ th'[t].pc = "reserve"
      BY <1>3, StartFields
    <2>. QED BY <1>1, <1>3, <2>1, CountGoesOn
  <1>. QED BY <1>2, <1>3 DEF Pin

LEMMA PinEndsCount ==
  ASSUME Types, Types', QueueInv, CountInv, NEW t \in Threads,
         PinLoaded(t) \/ PinLoad(t)
  PROVE  CountInv'
  <1>0. PICK b : b = th[t].blk
    OBVIOUS
  <1>1. /\ UNCHANGED <<queues, dead, dying>> /\ th[t].pc = "granted"
        /\ th' = [th EXCEPT ![t] = Idle] /\ th[t].op = "pin"
    BY DEF PinLoaded, PinLoad, poolVars, At
  <1>2. b \in Blocks
    BY <1>0, <1>1 DEF Types, WellFormed
  <1>3. \A a \in Blocks : /\ mem'[a].entry = mem[a].entry
                          /\ mem'[a].life = mem[a].life
                          /\ mem'[a].seq = mem[a].seq
    <2>1. CASE PinLoaded(t)
      BY <1>0, <1>2, <2>1, ReadersEntry DEF PinLoaded, Pinned
    <2>2. CASE PinLoad(t)
      <3>1. mem' = [mem EXCEPT ![b].loaded = TRUE, ![b].readers = 1,
                               ![b].charge = th[t].res]
        BY <1>0, <2>2 DEF PinLoad
      <3>. QED BY <1>2, <3>1 DEF Types, MemoryType
    <2>. QED BY <2>1, <2>2
  <1>4. (\A u \in Threads \ {t} : th'[u] = th[u]) /\ th'[t].pc = "idle"
    BY <1>1, IdleFields
  <1>. QED BY <1>1, <1>3, <1>4, CountGoesOn

LEMMA SetDestroyCount ==
  ASSUME Types, Types', QueueInv, CountInv, NEW t \in Threads, NEW b \in Blocks,
         SetDestroyBufferUpon(t, b)
  PROVE  CountInv'
  <1>1. UNCHANGED <<queues, dead, dying, th>> /\ th[t].pc = "idle"
    BY DEF SetDestroyBufferUpon, poolVars, At
  <1>2. \A a \in Blocks : /\ mem'[a].entry = mem[a].entry
                          /\ mem'[a].life = mem[a].life
                          /\ mem'[a].seq = mem[a].seq
    <2>1. PICK upon : mem' = [mem EXCEPT ![b].upon = upon]
      BY DEF SetDestroyBufferUpon
    <2>. QED BY <2>1, ReadersEntry
  <1>. QED BY <1>1, <1>2, CountGoesOn

LEMMA PurgeCount ==
  ASSUME Types, Types', QueueInv, CountInv, NEW t \in Threads, Purge(t)
  PROVE  CountInv'
  <1>1. UNCHANGED <<mem, queues, dead, dying>> /\ th[t].pc = "purge"
    BY DEF Purge, At
  <1>2. CASE th' = [th EXCEPT ![t] = Idle]
    BY <1>1, <1>2, IdleFields, CountGoesOn
  <1>3. ASSUME NEW left, th' = [th EXCEPT ![t].pc = "bulk", ![t].left = left]
        PROVE  CountInv'
    <2>1. /\ \A u \in Threads \ {t} : th'[u] = th[u]
          /\ th'[t].pc = "bulk" /\ th'[t].deadCount = th[t].deadCount
      BY <1>3 DEF Types, ThreadType
    <2>2. th[t].deadCount = 0
      BY <1>1 DEF CountInv, JudgedStart
    <2>3. InHand(th[t]) = {}
      BY <1>1, EmptyHands
    <2>4. InHand(th'[t]) = {}
      BY <2>1 DEF Types, WellFormed, InHand
    <2>5. EntriesKept
      BY <1>1, <2>1, <2>3, <2>4 DEF EntriesKept
    <2>. QED BY <1>1, <2>1, <2>2, <2>5, CountPassing
  <1>. QED BY <1>2, <1>3 DEF Purge

\* The number of dead entries after a step that concerns one entry.
LEMMA DeadOne ==
  ASSUME Types, Types', NEW n, NEW q \in 1..3,
         \A k : k # n => (k \in DeadEntries(q)' <=> k \in DeadEntries(q))
  PROVE  /\ Cardinality(DeadEntries(q)) \in Nat /\ Cardinality(DeadEntries(q)') \in Nat
         /\ Cardinality(DeadEntries(q)') + Bit(n \in DeadEntries(q))
              = Cardinality(DeadEntries(q)) + Bit(n \in DeadEntries(q)')
  <1>1. PICK S : S = DeadEntries(q)
    OBVIOUS
  <1>2. PICK T : T = DeadEntries(q)'
    OBVIOUS
  <1>3. IsFiniteSet(S) /\ IsFiniteSet(T)
    BY <1>1, <1>2, CountsAreFinite, CountsAreFinitePrimed DEF CountsFinite
  <1>4. \A k : k # n => (k \in T <=> k \in S)
    BY <1>1, <1>2
  <1>5. /\ Cardinality(S) \in Nat /\ Cardinality(T) \in Nat
        /\ Cardinality(T) + Bit(n \in S) = Cardinality(S) + Bit(n \in T)
    BY <1>3, <1>4, OneElement
  <1>. QED BY <1>1, <1>2, <1>5

\* The last reader counts the entry that it is about to supersede.
LEMMA UnpinCount ==
  ASSUME Types, Types', ContentsInv, QueueInv, CountInv, NEW t \in Threads,
         NEW b \in Blocks, Release(t, b)
  PROVE  CountInv'
  <1>1. /\ UNCHANGED <<queues, dying>> /\ th[t].pc = "idle" /\ ~Locked(b)
        /\ dying[t] = NoBlock
    BY DEF Release, At
  <1>2. \A a \in Blocks : /\ mem'[a].entry = mem[a].entry
                          /\ mem'[a].life = mem[a].life
                          /\ mem'[a].seq = mem[a].seq
    BY UnpinEffect
  <1>3. CASE UNCHANGED <<dead, th>>
    BY <1>1, <1>2, <1>3, CountGoesOn
  <1>4. CASE /\ dead' = [dead EXCEPT ![QueueOf(b)] = @ + CountSuperseded(b)]
             /\ th' = [th EXCEPT ![t].pc = "enqueue", ![t].blk = b]
    <2>1. /\ \A u \in Threads \ {t} : th'[u] = th[u]
          /\ th'[t].pc = "enqueue" /\ th'[t].blk = b
      BY <1>4 DEF Types, ThreadType
    <2>2. InHand(th[t]) = {}
      BY <1>1, EmptyHands
    <2>3. InHand(th'[t]) = {}
      BY <2>1 DEF Types, WellFormed, InHand
    <2>4. EntriesKept
      BY <1>1, <2>1, <2>2, <2>3 DEF EntriesKept
    <2>5. Placed /\ LockedOnce /\ JudgedStart /\ Counted
      BY DEF CountInv
    <2>6. Placed' /\ LockedOnce' /\ JudgedStart'
      <3>1. \A q \in 1..3 : \A n \in queues'[q] : n \in queues[q]
        BY <1>1
      <3>. QED BY <1>1, <2>1, <2>3, <2>5, <3>1, CountParts
    <2>7. ASSUME NEW q \in 1..3 PROVE DeadEntries(q)' = DeadEntries(q)
      <3>1. ASSUME NEW n, HeldIn(n, queues, th)
            PROVE  /\ Alive(n[1])' <=> Alive(n[1])
                   /\ Node(n[1])' = Node(n[1])
        <4>1. n[1] \in Blocks
          BY <3>1, EntriesAreNodes DEF HeldIn, Nodes
        <4>. QED BY <1>1, <1>2, <4>1 DEF Alive, Node
      <3>2. \A n : n \in DeadEntries(q)' <=> n \in DeadEntries(q)
        BY <2>4, <3>1, DeadIs, DeadIsPrimed, HeldKept DEF DeadWhere
      <3>. QED BY <3>2
    <2>8. ASSUME NEW q \in 1..3
          PROVE  /\ t \notin Destroying(q)' /\ t \notin Destroying(q)
                 /\ t \notin Superseding(q)
                 /\ t \in Superseding(q)' <=> QueueOf(b) = q /\ mem[b].entry
                 /\ JudgedBy(th[t], q) = 0 /\ JudgedBy(th'[t], q) = 0
      <3>1. t \notin Destroying(q)' /\ t \notin Destroying(q)
        BY <1>1 DEF Destroying
      <3>2. /\ t \notin Superseding(q)
            /\ t \in Superseding(q)' <=> QueueOf(b) = q /\ mem[b].entry
        BY <1>1, <1>2, <2>1 DEF Superseding
      <3>3. JudgedBy(th[t], q) = 0 /\ JudgedBy(th'[t], q) = 0
        BY <1>1, <2>1 DEF JudgedBy
      <3>. QED BY <3>1, <3>2, <3>3
    <2>9. QueueOf(b) \in 1..3 /\ dead \in [1..3 -> Int] /\ CountSuperseded(b) \in Nat
      BY <2>5 DEF QueueOf, BlockQueue, ManagedQueue, Counted, CountSuperseded
    <2>10. dead' \in [1..3 -> Int]
      BY <1>4, <2>9
    <2>11. ASSUME NEW q \in 1..3
           PROVE  dead'[q] = dead[q] + Bit(t \in Superseding(q)')
      <3>1. dead[q] \in Int
        BY <2>9
      <3>2. CASE QueueOf(b) = q
        <4>1. dead'[q] = dead[q] + CountSuperseded(b)
          BY <1>4, <2>9, <3>2
        <4>2. Bit(t \in Superseding(q)') = CountSuperseded(b)
          BY <2>8, <3>2 DEF Bit, CountSuperseded
        <4>. QED BY <4>1, <4>2
      <3>3. CASE QueueOf(b) # q
        <4>1. dead'[q] = dead[q]
          BY <1>4, <2>9, <3>3
        <4>2. Bit(t \in Superseding(q)') = 0
          BY <2>8, <3>3 DEF Bit
        <4>. QED BY <3>1, <4>1, <4>2
      <3>. QED BY <3>2, <3>3
    <2>12. ASSUME NEW q \in 1..3
           PROVE  dead'[q] + Bit(t \in Destroying(q)') + Cardinality(DeadEntries(q))
                    + JudgedBy(th[t], q) + Bit(t \in Superseding(q))
                  = dead[q] + Bit(t \in Destroying(q)) + Cardinality(DeadEntries(q)')
                    + JudgedBy(th'[t], q) + Bit(t \in Superseding(q)')
      <3>1. PICK d : d = Cardinality(DeadEntries(q))
        OBVIOUS
      <3>2. d \in Int /\ Cardinality(DeadEntries(q)') = d /\ dead[q] \in Int
        BY SMTT(40), <2>7, <2>9, <3>1, CountsAreFinite, FS_CardinalityType DEF CountsFinite
      <3>3. Bit(t \in Destroying(q)') = 0 /\ Bit(t \in Destroying(q)) = 0
            /\ Bit(t \in Superseding(q)) = 0 /\ Bit(t \in Superseding(q)') \in Int
        BY <2>8 DEF Bit
      <3>4. JudgedBy(th[t], q) = 0 /\ JudgedBy(th'[t], q) = 0
        BY <2>8
      <3>. QED BY <2>11, <3>1, <3>2, <3>3, <3>4
    <2>13. Counted'
      <3>1. \A u \in Threads : /\ th[u].pc = "enqueue" => th[u].blk \in Blocks
                               /\ dying[u] # NoBlock => dying[u] \in Blocks
        BY DEF Types, WellFormed
      <3>. QED BY <1>1, <1>2, <2>1, <2>5, <2>10, <2>12, <3>1, CountedStep
    <2>. QED BY <2>6, <2>13 DEF CountInv
  <1>. QED BY <1>3, <1>4 DEF Release

\* What t and the entry n contribute to the two sides of the count.
Owed(t, n, q) ==
    Bit(n \in DeadEntries(q)) + JudgedBy(th[t], q) + Bit(t \in Superseding(q))

\* A step that concerns t and one entry n.
LEMMA CountedOne ==
  ASSUME Types, Types', Counted, NEW t \in Threads, dead' \in [1..3 -> Int],
         \A u \in Threads \ {t} : th'[u] = th[u] /\ dying'[u] = dying[u],
         \A u \in Threads \ {t} : th[u].pc = "enqueue" =>
            mem'[th[u].blk].entry = mem[th[u].blk].entry,
         \A u \in Threads \ {t} : dying[u] # NoBlock =>
            mem'[dying[u]].entry = mem[dying[u]].entry,
         NEW n,
         \A q \in 1..3 : \A k : k # n => (k \in DeadEntries(q)' <=> k \in DeadEntries(q)),
         \A q \in 1..3 :
            dead'[q] + Bit(t \in Destroying(q)') + Owed(t, n, q)
            = dead[q] + Bit(t \in Destroying(q)) + Owed(t, n, q)'
  PROVE  Counted'
  <1>1. ASSUME NEW q \in 1..3
        PROVE  dead'[q] + Bit(t \in Destroying(q)') + Cardinality(DeadEntries(q))
                 + JudgedBy(th[t], q) + Bit(t \in Superseding(q))
               = dead[q] + Bit(t \in Destroying(q)) + Cardinality(DeadEntries(q)')
                 + JudgedBy(th'[t], q) + Bit(t \in Superseding(q)')
    <2>1. PICK d, d2, i, i2 : /\ d = Cardinality(DeadEntries(q))
                              /\ d2 = Cardinality(DeadEntries(q)')
                              /\ i = Bit(n \in DeadEntries(q))
                              /\ i2 = Bit(n \in DeadEntries(q)')
      OBVIOUS
    <2>2. PICK a, a2, s, s2 : /\ a = Bit(t \in Destroying(q))
                              /\ a2 = Bit(t \in Destroying(q)')
                              /\ s = Bit(t \in Superseding(q))
                              /\ s2 = Bit(t \in Superseding(q)')
      OBVIOUS
    <2>3. PICK k, k2, x, x2 : /\ k = JudgedBy(th[t], q) /\ k2 = JudgedBy(th'[t], q)
                              /\ x = dead[q] /\ x2 = dead'[q]
      OBVIOUS
    <2>4. d \in Nat /\ d2 \in Nat /\ d2 + i = d + i2
      BY <2>1, DeadOne
    <2>5. /\ i \in Int /\ i2 \in Int /\ a \in Int /\ a2 \in Int /\ s \in Int /\ s2 \in Int
      BY <2>1, <2>2 DEF Bit
    <2>6. /\ k \in Int /\ k2 \in Int /\ x \in Int /\ x2 \in Int
      BY <2>3, CountsAreFinite, CountsAreFinitePrimed DEF CountsFinite, Counted
    <2>7. x2 + a2 + (i + k + s) = x + a + (i2 + k2 + s2)
      BY <2>1, <2>2, <2>3 DEF Owed
    <2>8. x2 + a2 + d + k + s = x + a + d2 + k2 + s2
      BY ONLY <2>4, <2>5, <2>6, <2>7
    <2>. QED BY <2>1, <2>2, <2>3, <2>8
  <1>. QED BY <1>1, CountedStep

\* AddToEvictionQueue supersedes the entry that it counted.
LEMMA EnqueueCount ==
  ASSUME Types, Types', ContentsInv, QueueInv, CountInv, NEW t \in Threads, Enqueue(t)
  PROVE  CountInv'
  <1>0. PICK b : b = th[t].blk
    OBVIOUS
  <1>1. /\ b \in Blocks /\ th[t].pc = "enqueue" /\ Insert(t, b)
        /\ UNCHANGED <<dead, dying>> /\ dying[t] = NoBlock
        /\ mem[b].life = "live" /\ mem[b].owned /\ mem[b] \in MemoryType
    BY <1>0 DEF Enqueue, At, Types, ContentsInv, Wanted, Owned
  <1>2. \A a \in Blocks \ {b} : mem'[a] = mem[a]
    BY <1>0 DEF Enqueue, Types
  <1>3. /\ mem'[b].life = "live" /\ mem'[b].seq = mem[b].seq + 1 /\ mem'[b].entry
        /\ mem[b].seq \in Nat
    <2>1. mem'[b] = [mem[b] EXCEPT !.seq = @ + 1, !.entry = TRUE]
      BY <1>0, <1>1 DEF Enqueue, Types
    <2>. QED BY <1>1, <2>1 DEF MemoryType
  <1>4. \A a \in Blocks : mem[a].life # "none" =>
           mem'[a].life # "none" /\ mem'[a].seq \in Nat /\ mem[a].seq <= mem'[a].seq
    BY <1>2, <1>3 DEF Types, MemoryType
  <1>5. PICK n, m : n = <<b, mem[b].seq>> /\ m = <<b, mem[b].seq + 1>>
    OBVIOUS
  <1>6. \A k : HeldIn(k, queues', th') <=> HeldIn(k, queues, th) \/ k = m
    BY <1>1, <1>3, <1>4, <1>5, InsertEntry DEF QueueInv
  <1>7. /\ \A u \in Threads \ {t} : th'[u] = th[u]
        /\ th'[t].pc \in {"idle", "purge"} /\ th'[t].deadCount = 0
    BY <1>1, InsertFields
  <1>8. Alive(b) /\ Alive(b)'
    BY <1>1, <1>3 DEF Alive, ContentsInv, Owned
  <1>9. HeldIn(n, queues, th) <=> mem[b].entry
    <2>1. Evictable(b)
      BY <1>1, EvictableIs DEF QueueInv
    <2>. QED BY <1>1, <1>5, <1>8, <2>1 DEF Evictable
  <1>10. n[1] = b /\ m[1] = b /\ Node(b) = n /\ Node(b)' = m /\ n # m
    BY <1>3, <1>5 DEF Node
  <1>11. Placed /\ LockedOnce /\ JudgedStart /\ Counted /\ EntriesMade
    BY DEF CountInv, QueueInv
  <1>12. Placed' /\ LockedOnce' /\ JudgedStart'
    <2>1. InHand(th'[t]) = {}
      BY <1>7 DEF Types, WellFormed, InHand
    <2>2. \A q \in 1..3 : \A k \in queues'[q] : k \in queues[q] \/ QueueOf(k[1]) = q
      <3>1. queues' = [queues EXCEPT ![QueueOf(b)] = @ \cup {m}]
        BY <1>1, <1>5 DEF Insert
      <3>2. QueueOf(b) \in 1..3
        BY DEF QueueOf, BlockQueue, ManagedQueue
      <3>. QED BY <1>10, <3>1, <3>2 DEF Types
    <2>. QED BY <1>7, <1>11, <2>1, <2>2, CountParts
  <1>13. ASSUME NEW q \in 1..3, NEW k, k # n
         PROVE  k \in DeadEntries(q)' <=> k \in DeadEntries(q)
    <2>1. CASE k = m
      <3>1. k \notin DeadEntries(q)'
        BY <1>8, <1>10, <2>1, DeadIsPrimed DEF DeadWhere
      <3>2. ~HeldIn(m, queues, th)
        <4>1. ~Made(m)
          BY <1>3, <1>5 DEF Made
        <4>. QED BY <1>11, <4>1, HeldMade
      <3>. QED BY <2>1, <3>1, <3>2, DeadIs
    <2>2. CASE k # m /\ HeldIn(k, queues, th)
      <3>1. k[1] \in Blocks
        BY <2>2, EntriesAreNodes DEF HeldIn, Nodes
      <3>2. CASE k[1] = b
        BY <1>6, <1>10, <1>13, <2>2, <3>2, DeadIs, DeadIsPrimed DEF DeadWhere
      <3>3. CASE k[1] # b
        <4>1. /\ Alive(k[1])' <=> Alive(k[1])
              /\ Node(k[1])' = Node(k[1])
          BY <1>1, <1>2, <3>1, <3>3 DEF Alive, Node
        <4>. QED BY <1>6, <2>2, <4>1, DeadIs, DeadIsPrimed DEF DeadWhere
      <3>. QED BY <3>2, <3>3
    <2>3. CASE k # m /\ ~HeldIn(k, queues, th)
      BY <1>6, <2>3, DeadIs, DeadIsPrimed DEF DeadWhere
    <2>. QED BY <2>1, <2>2, <2>3
  <1>14. ASSUME NEW q \in 1..3
         PROVE  dead'[q] + Bit(t \in Destroying(q)') + Owed(t, n, q)
                  = dead[q] + Bit(t \in Destroying(q)) + Owed(t, n, q)'
    <2>1. t \notin Destroying(q) /\ t \notin Destroying(q)'
      BY <1>1 DEF Destroying
    <2>2. n \notin DeadEntries(q)
      BY <1>8, <1>10, DeadIs
    <2>3. n \in DeadEntries(q)' <=> QueueOf(b) = q /\ mem[b].entry
      BY <1>6, <1>9, <1>10, DeadIsPrimed DEF DeadWhere
    <2>4. t \in Superseding(q) <=> QueueOf(b) = q /\ mem[b].entry
      BY <1>0, <1>1 DEF Superseding
    <2>5. t \notin Superseding(q)'
      BY <1>7 DEF Superseding
    <2>6. JudgedBy(th[t], q) = 0 /\ JudgedBy(th'[t], q) = 0
      BY <1>1, <1>7 DEF JudgedBy
    <2>7. Owed(t, n, q)' = Bit(n \in DeadEntries(q)') + JudgedBy(th'[t], q)
                             + Bit(t \in Superseding(q)')
      BY DEF Owed
    <2>8. Owed(t, n, q)' = Owed(t, n, q)
      BY <2>2, <2>3, <2>4, <2>5, <2>6, <2>7 DEF Owed, Bit
    <2>9. Bit(t \in Destroying(q)') = Bit(t \in Destroying(q)) /\ dead'[q] = dead[q]
      BY <1>1, <2>1 DEF Bit
    <2>. QED BY <2>8, <2>9
  <1>15. Counted'
    <2>1. \A u \in Threads : /\ th[u].pc = "enqueue" => th[u].blk \in Blocks
                             /\ dying[u] # NoBlock => dying[u] \in Blocks
      BY DEF Types, WellFormed
    <2>2. \A u \in Threads \ {t} : th[u].pc = "enqueue" => th[u].blk # b
      BY <1>0, <1>1, <1>11 DEF LockedOnce
    <2>3. \A u \in Threads : dying[u] # b
      BY <1>8 DEF Alive
    <2>4. \A u \in Threads \ {t} : th[u].pc = "enqueue" =>
            mem'[th[u].blk].entry = mem[th[u].blk].entry
      BY <1>2, <2>1, <2>2
    <2>5. \A u \in Threads \ {t} : dying[u] # NoBlock =>
            mem'[dying[u]].entry = mem[dying[u]].entry
      BY <1>2, <2>1, <2>3
    <2>6. dead' \in [1..3 -> Int]
      BY <1>1, <1>11 DEF Counted
    <2>. QED BY <1>1, <1>7, <1>11, <1>13, <1>14, <2>4, <2>5, <2>6, CountedOne
  <1>. QED BY <1>12, <1>15 DEF CountInv

\* The destructor counts the entry of its block.
LEMMA DestroyCount ==
  ASSUME Types, Types', ContentsInv, QueueInv, CountInv, NEW t \in Threads, Destroy(t)
  PROVE  CountInv'
  <1>0. PICK b : b = dying[t]
    OBVIOUS
  <1>1. /\ b \in Blocks /\ b # NoBlock /\ UNCHANGED <<queues, th>>
        /\ dying' = [dying EXCEPT ![t] = NoBlock]
    BY <1>0 DEF Destroy, Types
  <1>2. \A a \in Blocks \ {b} : mem'[a] = mem[a]
    BY <1>0 DEF Destroy, Types
  <1>3. mem'[b].life = "gone" /\ mem'[b].seq = mem[b].seq /\ mem'[b].entry = mem[b].entry
    <2>1. mem'[b] = [Unloaded(mem[b]) EXCEPT !.life = "gone"] /\ mem[b] \in MemoryType
      BY <1>0, <1>1 DEF Destroy, Types
    <2>. QED BY <2>1 DEF MemoryType, Unloaded
  <1>4. dying'[t] = NoBlock /\ \A u \in Threads \ {t} : dying'[u] = dying[u]
    BY <1>1 DEF Types
  <1>5. \A a \in Blocks : (Alive(a)' <=> Alive(a)) /\ Node(a)' = Node(a)
    <2>1. ~Alive(b) /\ ~Alive(b)'
      BY <1>0, <1>3 DEF Alive
    <2>2. ASSUME NEW a \in Blocks, a # b PROVE Alive(a)' <=> Alive(a)
      <3>1. dying[t] # a /\ dying'[t] # a
        BY <1>0, <1>4, <2>2, PoolAssumption
      <3>. QED BY <1>2, <1>4, <2>2, <3>1 DEF Alive
    <2>3. \A a \in Blocks : Node(a)' = Node(a)
      BY <1>2, <1>3 DEF Node
    <2>. QED BY <2>1, <2>2, <2>3
  <1>6. ASSUME NEW q \in 1..3, NEW k
        PROVE  k \in DeadEntries(q)' <=> k \in DeadEntries(q)
    <2>1. HeldIn(k, queues', th') <=> HeldIn(k, queues, th)
      BY <1>1
    <2>2. HeldIn(k, queues, th) => k[1] \in Blocks
      BY EntriesAreNodes DEF HeldIn, Nodes
    <2>. QED BY <1>5, <2>1, <2>2, DeadIs, DeadIsPrimed DEF DeadWhere
  <1>7. Placed /\ LockedOnce /\ JudgedStart /\ Counted
    BY DEF CountInv
  <1>8. Placed' /\ LockedOnce' /\ JudgedStart'
    BY <1>1, <1>7 DEF Placed, LockedOnce, JudgedStart
  <1>9. QueueOf(b) \in 1..3 /\ dead \in [1..3 -> Int]
    BY <1>7 DEF QueueOf, BlockQueue, ManagedQueue, Counted
  <1>10. dead' = [dead EXCEPT ![QueueOf(b)] = IF mem[b].entry THEN @ + 1 ELSE @]
    BY <1>0 DEF Destroy
  <1>11. dead' \in [1..3 -> Int]
    BY <1>9, <1>10
  <1>12. PICK n : n = <<b, mem[b].seq>>
    OBVIOUS
  <1>13. ASSUME NEW q \in 1..3
         PROVE  dead'[q] + Bit(t \in Destroying(q)') + Owed(t, n, q)
                  = dead[q] + Bit(t \in Destroying(q)) + Owed(t, n, q)'
    <2>1. t \notin Destroying(q)'
      BY <1>4 DEF Destroying
    <2>2. t \in Destroying(q) <=> QueueOf(b) = q /\ mem[b].entry
      BY <1>0, <1>1 DEF Destroying
    <2>3. t \in Superseding(q)' <=> t \in Superseding(q)
      <3>1. th[t].pc = "enqueue" => th[t].blk \in Blocks
        BY DEF Types, WellFormed
      <3>2. \A a \in Blocks : mem'[a].entry = mem[a].entry
        BY <1>2, <1>3
      <3>. QED BY <1>1, <3>1, <3>2 DEF Superseding
    <2>4. Owed(t, n, q)' = Bit(n \in DeadEntries(q)') + JudgedBy(th'[t], q)
                             + Bit(t \in Superseding(q)')
      BY DEF Owed
    <2>5. Owed(t, n, q)' = Owed(t, n, q)
      BY <1>1, <1>6, <2>3, <2>4 DEF Owed, Bit
    <2>6. dead'[q] = dead[q] + Bit(t \in Destroying(q))
      <3>1. dead[q] \in Int
        BY <1>9
      <3>2. CASE QueueOf(b) = q /\ mem[b].entry
        BY <1>9, <1>10, <2>2, <3>1, <3>2 DEF Bit
      <3>3. CASE QueueOf(b) = q /\ ~mem[b].entry
        BY <1>9, <1>10, <2>2, <3>1, <3>3 DEF Bit
      <3>4. CASE QueueOf(b) # q
        BY <1>9, <1>10, <2>2, <3>1, <3>4 DEF Bit
      <3>. QED BY <3>2, <3>3, <3>4
    <2>7. dead'[q] \in Int /\ Bit(t \in Destroying(q)') = 0
      BY <1>11, <2>1 DEF Bit
    <2>8. dead'[q] + Bit(t \in Destroying(q)') = dead[q] + Bit(t \in Destroying(q))
      BY <2>6, <2>7
    <2>. QED BY <2>5, <2>8
  <1>14. Counted'
    <2>1. \A u \in Threads : /\ th[u].pc = "enqueue" => th[u].blk \in Blocks
                             /\ dying[u] # NoBlock => dying[u] \in Blocks
      BY DEF Types, WellFormed
    <2>2. \A a \in Blocks : mem'[a].entry = mem[a].entry
      BY <1>2, <1>3
    <2>. QED BY <1>1, <1>4, <1>6, <1>7, <1>11, <1>13, <2>1, <2>2, CountedOne
  <1>. QED BY <1>8, <1>14 DEF CountInv

\* A block whose last reference goes: its entry, if it has one, is dead from
\* now on and counted by the destructor.
LEMMA DropCount ==
  ASSUME Types, Types', QueueInv, CountInv, NEW t \in Threads, NEW b \in Blocks,
         Alive(b), dying[t] = NoBlock,
         th[t].pc \notin {"enqueue", "judge"}, th'[t].pc # "judge",
         th'[t].pc = "enqueue" => ~mem'[th'[t].blk].entry,
         \A u \in Threads \ {t} : th'[u] = th[u],
         UNCHANGED dead, dying' = dying \/ dying' = [dying EXCEPT ![t] = b],
         \A a \in Blocks \ {b} : mem[a].life # "none" =>
             /\ mem'[a].life = mem[a].life /\ mem'[a].seq = mem[a].seq
             /\ mem'[a].entry = mem[a].entry,
         mem'[b].life = mem[b].life, mem'[b].seq = mem[b].seq,
         mem'[b].entry = mem[b].entry, ContentsInv,
         \A u \in Threads : th[u].pc = "enqueue" => th[u].blk # b,
         \A k : HeldIn(k, queues, th) => HeldIn(k, queues', th'),
         \A k : HeldIn(k, queues', th') =>
            HeldIn(k, queues, th) \/ (Alive(k[1])' /\ k = Node(k[1])')
  PROVE  Counted'
  <1>0. PICK n : n = <<b, mem[b].seq>>
    OBVIOUS
  <1>1. mem[b].life = "live" /\ \A u \in Threads : dying[u] # b
    BY DEF Alive
  <1>2. \A u \in Threads \ {t} : dying'[u] = dying[u]
    BY DEF Types
  <1>3. dying'[t] \in {NoBlock, b}
    BY DEF Types
  <1>4. n[1] = b /\ Node(b) = n /\ Node(b)' = n
    BY <1>0 DEF Node
  <1>5. Alive(b)' <=> dying'[t] # b
    BY <1>1, <1>2 DEF Alive
  <1>6. HeldIn(n, queues, th) <=> mem[b].entry
    <2>1. Evictable(b)
      BY EvictableIs DEF QueueInv
    <2>. QED BY <1>0, <1>1, <2>1 DEF Evictable
  <1>7. HeldIn(n, queues', th') /\ ~Alive(b)' <=> mem[b].entry /\ ~Alive(b)'
    BY <1>4, <1>6
  <1>8. ASSUME NEW k, HeldIn(k, queues, th), k[1] # b
        PROVE  (Alive(k[1])' <=> Alive(k[1])) /\ Node(k[1])' = Node(k[1])
    <2>1. k \in Nodes /\ Made(k)
      BY <1>8, EntriesAreNodes, HeldMade DEF HeldIn, QueueInv
    <2>2. k[1] \in Blocks /\ mem[k[1]].life # "none"
      BY <2>1 DEF Nodes, Made
    <2>3. dying[t] # k[1] /\ dying'[t] # k[1]
      BY <1>3, <1>8, <2>2, PoolAssumption
    <2>. QED BY <1>2, <1>8, <2>2, <2>3 DEF Alive, Node
  <1>9. ASSUME NEW q \in 1..3, NEW k, k # n
        PROVE  k \in DeadEntries(q)' <=> k \in DeadEntries(q)
    <2>1. CASE HeldIn(k, queues, th) /\ k[1] # b
      BY <1>8, <2>1, DeadIs, DeadIsPrimed DEF DeadWhere
    <2>2. CASE HeldIn(k, queues, th) /\ k[1] = b
      BY <1>4, <1>9, <2>2, DeadIs, DeadIsPrimed DEF DeadWhere
    <2>3. CASE ~HeldIn(k, queues, th)
      BY <2>3, DeadIs, DeadIsPrimed DEF DeadWhere
    <2>. QED BY <2>1, <2>2, <2>3
  <1>10. ASSUME NEW q \in 1..3
         PROVE  dead'[q] + Bit(t \in Destroying(q)') + Owed(t, n, q)
                  = dead[q] + Bit(t \in Destroying(q)) + Owed(t, n, q)'
    <2>1. t \notin Destroying(q)
      BY DEF Destroying
    <2>2. t \in Destroying(q)' <=> QueueOf(b) = q /\ mem[b].entry /\ ~Alive(b)'
      BY <1>3, <1>5, PoolAssumption DEF Destroying
    <2>3. n \notin DeadEntries(q)
      BY <1>4, DeadIs
    <2>4. n \in DeadEntries(q)' <=> QueueOf(b) = q /\ mem[b].entry /\ ~Alive(b)'
      BY <1>4, <1>7, DeadIsPrimed DEF DeadWhere
    <2>5. t \notin Superseding(q) /\ t \notin Superseding(q)'
      BY DEF Superseding
    <2>6. JudgedBy(th[t], q) = 0 /\ JudgedBy(th'[t], q) = 0
      BY DEF JudgedBy
    <2>7. Owed(t, n, q)' = Bit(n \in DeadEntries(q)') + JudgedBy(th'[t], q)
                             + Bit(t \in Superseding(q)')
      BY DEF Owed
    <2>8. Owed(t, n, q) = 0 /\ Owed(t, n, q)' = Bit(t \in Destroying(q)')
      BY <2>2, <2>3, <2>4, <2>5, <2>6, <2>7 DEF Owed, Bit
    <2>9. Bit(t \in Destroying(q)') \in Int /\ Bit(t \in Destroying(q)) = 0
      BY <2>1 DEF Bit
    <2>10. dead'[q] = dead[q] /\ dead[q] \in Int
      BY DEF CountInv, Counted
    <2>. QED BY <2>8, <2>9, <2>10
  <1>11. \A u \in Threads \ {t} : th[u].pc = "enqueue" =>
            mem'[th[u].blk].entry = mem[th[u].blk].entry
    <2>1. ASSUME NEW u \in Threads \ {t}, th[u].pc = "enqueue"
          PROVE  mem'[th[u].blk].entry = mem[th[u].blk].entry
      <3>1. th[u].blk \in Blocks /\ mem[th[u].blk].owned /\ th[u].blk # b
        BY <2>1 DEF ContentsInv, Wanted
      <3>2. mem[th[u].blk].life # "none"
        BY <3>1 DEF ContentsInv, Owned
      <3>. QED BY <3>1, <3>2
    <2>. QED BY <2>1
  <1>12. \A u \in Threads \ {t} : dying[u] # NoBlock =>
            mem'[dying[u]].entry = mem[dying[u]].entry
    BY <1>1 DEF Types, ContentsInv, Dying
  <1>13. dead' \in [1..3 -> Int] /\ Counted
    BY DEF CountInv, Counted
  <1>. QED BY <1>2, <1>9, <1>10, <1>11, <1>12, <1>13, CountedOne

LEMMA DropHandleCount ==
  ASSUME Types, Types', ContentsInv, QueueInv, CountInv, NEW t \in Threads,
         NEW b \in Blocks, DropHandle(t, b)
  PROVE  CountInv'
  <1>1. /\ UNCHANGED <<queues, th, dead>> /\ dying[t] = NoBlock /\ th[t].pc = "idle"
        /\ mem[b].owned /\ \A u \in Threads : th[u].blk # b
    BY DEF DropHandle, poolVars, At
  <1>2. \A a \in Blocks \ {b} : mem'[a] = mem[a]
    BY DEF DropHandle, Types
  <1>3. mem'[b].life = mem[b].life /\ mem'[b].seq = mem[b].seq /\ mem'[b].entry = mem[b].entry
    <2>1. mem'[b] = [mem[b] EXCEPT !.owned = FALSE] /\ mem[b] \in MemoryType
      BY DEF DropHandle, Types
    <2>. QED BY <2>1 DEF MemoryType
  <1>4. dying' = dying \/ dying' = [dying EXCEPT ![t] = b]
    BY DEF DropHandle, DropReference
  <1>5. Alive(b)
    BY <1>1 DEF ContentsInv, Owned, Alive
  <1>6. \A k : HeldIn(k, queues', th') <=> HeldIn(k, queues, th)
    BY <1>1
  <1>7. Counted'
    BY <1>1, <1>2, <1>3, <1>4, <1>5, <1>6, DropCount
  <1>8. Placed' /\ LockedOnce' /\ JudgedStart'
    BY <1>1 DEF CountInv, Placed, LockedOnce, JudgedStart
  <1>. QED BY <1>7, <1>8 DEF CountInv

LEMMA ConvertCount ==
  ASSUME Types, Types', QueueInv, CountInv, NEW t \in Threads,
         NEW b \in Blocks, NEW p \in Persistent, ConvertToPersistent(t, b, p)
  PROVE  CountInv'
  <1>1. th[t].pc = "idle" /\ UNCHANGED <<queues, dead, dying>>
    BY DEF ConvertToPersistent, Convertible, At
  <1>2. th'[t].pc = "convert" /\ \A u \in Threads \ {t} : th'[u] = th[u]
    BY ConvertStarts DEF Types
  <1>3. \A a \in Blocks : /\ mem'[a].entry = mem[a].entry /\ mem'[a].seq = mem[a].seq
                          /\ mem'[a].life = mem[a].life
    <2>1. mem \in [Blocks -> MemoryType] /\ mem[b] \in MemoryType
      BY DEF Types
    <2>2. CASE mem' = mem
      BY <2>2
    <2>3. CASE mem' = [mem EXCEPT ![b].charge = 0]
      BY <2>1, <2>3 DEF MemoryType
    <2>. QED BY <2>2, <2>3 DEF ConvertToPersistent
  <1>. QED BY <1>1, <1>2, <1>3, CountGoesOn

\* The new block has no entry yet, that of the old one dies with it.
LEMMA ConvertedCount ==
  ASSUME Types, Types', ContentsInv, Converting, QueueInv, CountInv, NEW t \in Threads,
         Converted(t)
  PROVE  CountInv'
  <1>0. PICK b, p : b = th[t].blk /\ p = th[t].node[1]
    OBVIOUS
  <1>1. /\ b \in Blocks /\ p \in Blocks /\ p # b /\ mem[p] = Absent
        /\ mem[b].life = "live" /\ mem[b].owned
        /\ \A a \in Blocks \ {b, p} : mem'[a] = mem[a]
        /\ mem'[b].life = "live" /\ mem'[b].seq = mem[b].seq
        /\ mem'[b].entry = mem[b].entry /\ ~mem'[p].entry
    BY <1>0, ConvertedEffect
  <1>2. /\ th[t].pc = "convert" /\ dying[t] = NoBlock /\ UNCHANGED <<queues, dead>>
        /\ dying' = dying \/ dying' = [dying EXCEPT ![t] = b]
    BY <1>0 DEF Converted, At, DropReference
  <1>3. PICK s : /\ th' = [th EXCEPT ![t] = s]
                 /\ s.pc = "enqueue" /\ s.blk = p /\ InHand(s) = {}
    BY <1>0, ConvertedMoves
  <1>4. th'[t] = s /\ \A u \in Threads \ {t} : th'[u] = th[u]
    BY <1>3 DEF Types
  <1>5. InHand(th[t]) = {} /\ InHand(th'[t]) = {}
    BY <1>2, <1>3, <1>4, EmptyHands
  <1>6. \A k : HeldIn(k, queues', th') <=> HeldIn(k, queues, th)
    BY <1>2, <1>4, <1>5, HeldKept DEF EntriesKept
  <1>7. Alive(b)
    BY <1>1 DEF ContentsInv, Owned, Alive
  <1>8. \A u \in Threads : th[u].pc = "enqueue" => th[u].blk # b
    BY <1>0, <1>2 DEF Converting
  <1>9. ~Locked(p)
    <2>1. ~mem[p].owned
      BY <1>1 DEF Absent
    <2>2. \A u \in Threads : p \notin pins[u] /\ (th[u].pc = "enqueue" => th[u].blk # p)
      BY <1>1, <2>1 DEF ContentsInv, Owned, Wanted
    <2>. QED BY <2>2 DEF Locked, Converting
  <1>10. Counted'
    <2>1. \A a \in Blocks \ {b} : mem[a].life # "none" =>
             /\ mem'[a].life = mem[a].life /\ mem'[a].seq = mem[a].seq
             /\ mem'[a].entry = mem[a].entry
      <3>1. \A a \in Blocks \ {b} : mem[a].life # "none" => mem'[a] = mem[a]
        BY <1>1 DEF Absent
      <3>. QED BY <3>1
    <2>2. /\ th[t].pc \notin {"enqueue", "judge"} /\ th'[t].pc # "judge"
          /\ ~mem'[th'[t].blk].entry /\ mem'[b].life = mem[b].life
      BY <1>1, <1>2, <1>3, <1>4
    <2>. QED
      BY <1>1, <1>2, <1>4, <1>6, <1>7, <1>8, <2>1, <2>2, DropCount
  <1>11. Placed' /\ LockedOnce' /\ JudgedStart'
    BY <1>2, <1>3, <1>4, <1>5, <1>9, CountParts DEF CountInv
  <1>. QED BY <1>10, <1>11 DEF CountInv

\* A step that moves entries and changes no block leaves the dead ones dead.
LEMMA DeadMoved ==
  ASSUME UNCHANGED <<mem, dying>>
  PROVE  \A q, k : k \in DeadEntries(q)' <=>
           HeldIn(k, queues', th') /\ QueueOf(k[1]) = q
             /\ (~Alive(k[1]) \/ k # Node(k[1]))
  <1>1. \A a : (Alive(a)' <=> Alive(a)) /\ Node(a)' = Node(a)
    BY DEF Alive, Node
  <1>. QED BY <1>1, DeadIsPrimed DEF DeadWhere

\* Steps of t that move entries, without losing one or changing a block.
LEMMA CountMoved ==
  ASSUME Types, Types', Counted, UNCHANGED <<mem, dying>>, NEW t \in Threads,
         \A u \in Threads \ {t} : th'[u] = th[u],
         \A k : HeldIn(k, queues', th') <=> HeldIn(k, queues, th),
         th[t].pc # "enqueue", th'[t].pc # "enqueue", dead' \in [1..3 -> Int],
         \A q \in 1..3 : dead'[q] + JudgedBy(th[t], q) = dead[q] + JudgedBy(th'[t], q)
  PROVE  Counted'
  <1>0. PICK n : n = <<NoBlock, 0>>
    OBVIOUS
  <1>1. ASSUME NEW q \in 1..3, NEW k
        PROVE  k \in DeadEntries(q)' <=> k \in DeadEntries(q)
    BY DeadMoved, DeadIs
  <1>2. ASSUME NEW q \in 1..3
        PROVE  dead'[q] + Bit(t \in Destroying(q)') + Owed(t, n, q)
                 = dead[q] + Bit(t \in Destroying(q)) + Owed(t, n, q)'
    <2>1. PICK a, i, k, k2, x, x2 :
            /\ a = Bit(t \in Destroying(q)) /\ i = Bit(n \in DeadEntries(q))
            /\ k = JudgedBy(th[t], q) /\ k2 = JudgedBy(th'[t], q)
            /\ x = dead[q] /\ x2 = dead'[q]
      OBVIOUS
    <2>2. Bit(t \in Destroying(q)') = a
      BY <2>1 DEF Destroying
    <2>3. Bit(n \in DeadEntries(q)') = i
      BY <1>1, <2>1 DEF Bit
    <2>4. Bit(t \in Superseding(q)) = 0 /\ Bit(t \in Superseding(q)') = 0
      BY DEF Superseding, Bit
    <2>5. Owed(t, n, q)' = Bit(n \in DeadEntries(q)') + JudgedBy(th'[t], q)
                             + Bit(t \in Superseding(q)')
      BY DEF Owed
    <2>6. Owed(t, n, q) = i + k + 0 /\ Owed(t, n, q)' = i + k2 + 0
      BY <2>1, <2>3, <2>4, <2>5 DEF Owed
    <2>7. a \in Int /\ i \in Int /\ x \in Int /\ x2 \in Int /\ k \in Int /\ k2 \in Int
      BY <2>1, CountsAreFinite, CountsAreFinitePrimed DEF CountsFinite, Counted, Bit
    <2>8. x2 + k = x + k2
      BY <2>1
    <2>9. x2 + a + (i + k + 0) = x + a + (i + k2 + 0)
      BY ONLY <2>7, <2>8
    <2>. QED BY <2>1, <2>2, <2>6, <2>9
  <1>. QED BY <1>1, <1>2, CountedOne

\* A dequeue finds the entry of a destroyed block and takes it off the count.
LEMMA EvictDequeueCount ==
  ASSUME Types, Types', QueueInv, CountInv, NEW t \in Threads, EvictDequeue(t)
  PROVE  CountInv'
  <1>0. PICK q : q = th[t].q
    OBVIOUS
  <1>1. UNCHANGED <<mem, dying>> /\ th[t].pc = "iterate"
    BY DEF EvictDequeue, At
  <1>2. q \in 1..3 /\ InHand(th[t]) = {}
    BY <1>0, <1>1, AtEvicting, EmptyHands DEF Evicting
  <1>3. PICK n \in queues[q] :
          /\ queues' = [queues EXCEPT ![q] = @ \ {n}]
          /\ \/ Alive(n[1]) /\ UNCHANGED dead
                /\ th' = [th EXCEPT ![t].pc = "visit", ![t].node = n]
             \/ ~Alive(n[1]) /\ UNCHANGED th /\ dead' = [dead EXCEPT ![q] = @ - 1]
    BY <1>0 DEF EvictDequeue
  <1>4. queues'[q] = queues[q] \ {n} /\ \A r \in 1..3 : r # q => queues'[r] = queues[r]
    BY <1>2, <1>3 DEF Types
  <1>5. Placed /\ LockedOnce /\ JudgedStart /\ Counted /\ EntriesApart
    BY DEF CountInv, QueueInv
  <1>6. QueueOf(n[1]) = q
    BY <1>2, <1>3, <1>5 DEF Placed
  <1>7. \A r \in 1..3 : \A k \in queues'[r] : k \in queues[r]
    BY <1>4
  <1>8. CASE /\ UNCHANGED dead
             /\ th' = [th EXCEPT ![t].pc = "visit", ![t].node = n]
    <2>1. /\ \A u \in Threads \ {t} : th'[u] = th[u]
          /\ th'[t].pc = "visit" /\ th'[t].node = n /\ th'[t].q = q
      BY <1>0, <1>8 DEF Types, ThreadType
    <2>2. InHand(th'[t]) = {n}
      BY <2>1 DEF Types, WellFormed, InHand
    <2>3. \A k : HeldIn(k, queues', th') <=> HeldIn(k, queues, th)
      <3>1. ASSUME NEW k, HeldIn(k, queues', th') PROVE HeldIn(k, queues, th)
        BY <1>2, <1>3, <1>7, <2>1, <2>2, <3>1 DEF HeldIn
      <3>2. ASSUME NEW k, HeldIn(k, queues, th) PROVE HeldIn(k, queues', th')
        <4>1. CASE \E r \in 1..3 : k \in queues[r]
          BY <1>4, <2>2, <4>1 DEF HeldIn
        <4>2. CASE \E u \in Threads : k \in InHand(th[u])
          BY <1>2, <2>1, <4>2 DEF HeldIn
        <4>. QED BY <3>2, <4>1, <4>2 DEF HeldIn
      <3>. QED BY <3>1, <3>2
    <2>4. Placed' /\ LockedOnce' /\ JudgedStart'
      BY <1>5, <1>6, <1>7, <2>1, <2>2, CountParts
    <2>5. Counted'
      <3>1. ASSUME NEW r \in 1..3
            PROVE  dead'[r] + JudgedBy(th[t], r) = dead[r] + JudgedBy(th'[t], r)
        BY <1>1, <1>8, <2>1 DEF JudgedBy
      <3>2. dead' \in [1..3 -> Int]
        BY <1>5, <1>8 DEF Counted
      <3>. QED BY <1>1, <1>5, <2>1, <2>3, <3>1, <3>2, CountMoved
    <2>. QED BY <2>4, <2>5 DEF CountInv
  <1>9. CASE ~Alive(n[1]) /\ UNCHANGED th /\ dead' = [dead EXCEPT ![q] = @ - 1]
    <2>1. \A k : HeldIn(k, queues', th') <=> HeldIn(k, queues, th) /\ k # n
      <3>1. \A r \in 1..3 : n \notin queues'[r]
        BY <1>2, <1>4, <1>5 DEF EntriesApart
      <3>2. \A u \in Threads : n \notin InHand(th[u])
        BY <1>2, <1>5 DEF EntriesApart
      <3>. QED BY <1>4, <1>9, <3>1, <3>2 DEF HeldIn
    <2>2. ASSUME NEW r \in 1..3, NEW k, k # n
          PROVE  k \in DeadEntries(r)' <=> k \in DeadEntries(r)
      BY <1>1, <2>1, <2>2, DeadMoved, DeadIs
    <2>3. Placed' /\ LockedOnce' /\ JudgedStart'
      BY <1>5, <1>7, <1>9 DEF Placed, LockedOnce, JudgedStart
    <2>4. dead \in [1..3 -> Int] /\ dead' \in [1..3 -> Int]
      BY <1>2, <1>5, <1>9 DEF Counted
    <2>5. ASSUME NEW r \in 1..3
          PROVE  dead'[r] + Bit(t \in Destroying(r)') + Owed(t, n, r)
                   = dead[r] + Bit(t \in Destroying(r)) + Owed(t, n, r)'
      <3>1. PICK a, i, x, x2 :
              /\ a = Bit(t \in Destroying(r)) /\ i = Bit(n \in DeadEntries(r))
              /\ x = dead[r] /\ x2 = dead'[r]
        OBVIOUS
      <3>2. Bit(t \in Destroying(r)') = a
        BY <1>1, <3>1 DEF Destroying
      <3>3. Bit(n \in DeadEntries(r)') = 0
        BY <1>1, <2>1, DeadMoved DEF Bit
      <3>4. Bit(t \in Superseding(r)) = 0 /\ Bit(t \in Superseding(r)') = 0
        BY <1>1, <1>9 DEF Superseding, Bit
      <3>5. JudgedBy(th[t], r) = 0 /\ JudgedBy(th'[t], r) = 0
        BY <1>1, <1>9 DEF JudgedBy
      <3>6. Owed(t, n, r)' = Bit(n \in DeadEntries(r)') + JudgedBy(th'[t], r)
                               + Bit(t \in Superseding(r)')
        BY DEF Owed
      <3>7. a \in Int /\ i \in Int /\ x \in Int /\ x2 \in Int
        BY <2>4, <3>1 DEF Bit
      <3>8. Owed(t, n, r) = i /\ Owed(t, n, r)' = 0
        BY <3>1, <3>3, <3>4, <3>5, <3>6, <3>7 DEF Owed
      <3>9. n \in DeadEntries(r) <=> r = q
        BY <1>2, <1>3, <1>6, <1>9, DeadIs DEF HeldIn
      <3>10. x2 = x - i
        BY <1>2, <1>9, <2>4, <3>1, <3>7, <3>9 DEF Bit
      <3>11. x2 + a + i = x + a + 0
        BY ONLY <3>7, <3>10
      <3>. QED BY <3>1, <3>2, <3>8, <3>11
    <2>6. Counted'
      BY <1>1, <1>5, <1>9, <2>2, <2>4, <2>5, CountedOne
    <2>. QED BY <2>3, <2>6 DEF CountInv
  <1>. QED BY <1>3, <1>8, <1>9

LEMMA PurgeDequeueCount ==
  ASSUME Types, Types', QueueInv, CountInv, NEW t \in Threads, PurgeDequeue(t)
  PROVE  CountInv'
  <1>0. PICK q : q = th[t].q
    OBVIOUS
  <1>1. UNCHANGED <<mem, dying, dead>> /\ th[t].pc = "bulk"
    BY DEF PurgeDequeue, At
  <1>2. q \in 1..3 /\ InHand(th[t]) = {} /\ th[t].alive = {} /\ th[t] \in ThreadType
    BY <1>0, <1>1, EmptyHands DEF Types, WellFormed, Purging
  <1>3. PICK batch \in SUBSET queues[q] : queues' = [queues EXCEPT ![q] = @ \ batch]
                   /\ th' = [th EXCEPT ![t].pc = "judge", ![t].batch = batch]
    <2>1. PICK n : \E batch \in kSubset(n, queues[q]) :
            /\ queues' = [queues EXCEPT ![q] = @ \ batch]
            /\ th' = [th EXCEPT ![t].pc = "judge", ![t].batch = batch]
      BY <1>0 DEF PurgeDequeue
    <2>. QED BY <2>1 DEF kSubset
  <1>4. queues'[q] = queues[q] \ batch /\ \A r \in 1..3 : r # q => queues'[r] = queues[r]
    BY <1>2, <1>3 DEF Types
  <1>5. /\ \A u \in Threads \ {t} : th'[u] = th[u]
        /\ th'[t].pc = "judge" /\ th'[t].batch = batch /\ th'[t].alive = {}
        /\ th'[t].q = q /\ th'[t].deadCount = th[t].deadCount
    BY <1>0, <1>2, <1>3 DEF Types, ThreadType
  <1>6. InHand(th'[t]) = batch
    BY <1>5 DEF InHand
  <1>7. Placed /\ LockedOnce /\ JudgedStart /\ Counted
    BY DEF CountInv
  <1>8. \A k : HeldIn(k, queues', th') <=> HeldIn(k, queues, th)
    <2>1. ASSUME NEW k, HeldIn(k, queues', th') PROVE HeldIn(k, queues, th)
      <3>1. CASE \E r \in 1..3 : k \in queues'[r]
        BY <1>4, <3>1 DEF HeldIn
      <3>2. CASE \E u \in Threads : k \in InHand(th'[u])
        BY <1>2, <1>5, <1>6, <3>2 DEF HeldIn
      <3>. QED BY <2>1, <3>1, <3>2 DEF HeldIn
    <2>2. ASSUME NEW k, HeldIn(k, queues, th) PROVE HeldIn(k, queues', th')
      <3>1. CASE \E r \in 1..3 : k \in queues[r]
        BY <1>4, <1>6, <3>1 DEF HeldIn
      <3>2. CASE \E u \in Threads : k \in InHand(th[u])
        BY <1>2, <1>5, <3>2 DEF HeldIn
      <3>. QED BY <2>2, <3>1, <3>2 DEF HeldIn
    <2>. QED BY <2>1, <2>2
  <1>9. Placed' /\ LockedOnce' /\ JudgedStart'
    <2>1. \A r \in 1..3 : \A k \in queues'[r] : k \in queues[r]
      BY <1>4
    <2>2. \A k \in InHand(th'[t]) : QueueOf(k[1]) = th'[t].q
      BY <1>2, <1>5, <1>6, <1>7 DEF Placed
    <2>3. th'[t].pc = "judge" => th'[t].batch \cap th'[t].alive = {}
      BY <1>5
    <2>. QED BY <1>5, <1>7, <2>1, <2>2, <2>3, CountParts
  <1>10. Counted'
    <2>1. ASSUME NEW r \in 1..3
          PROVE  dead'[r] + JudgedBy(th[t], r) = dead[r] + JudgedBy(th'[t], r)
      <3>1. th[t].deadCount = 0
        BY <1>1, <1>7 DEF JudgedStart
      <3>2. JudgedBy(th[t], r) = 0 /\ JudgedBy(th'[t], r) = 0
        BY <1>1, <1>5, <3>1 DEF JudgedBy
      <3>. QED BY <1>1, <3>2
    <2>2. dead' \in [1..3 -> Int]
      BY <1>1, <1>7 DEF Counted
    <2>. QED BY <1>1, <1>5, <1>7, <1>8, <2>1, <2>2, CountMoved
  <1>. QED BY <1>9, <1>10 DEF CountInv

\* A finished iteration takes what it found dead off the count.
LEMMA PurgeFinishCount ==
  ASSUME Types, Types', QueueInv, CountInv, NEW t \in Threads, PurgeFinish(t)
  PROVE  CountInv'
  <1>0. PICK q : q = th[t].q
    OBVIOUS
  <1>1. /\ UNCHANGED <<mem, dying>> /\ th[t].pc = "judge" /\ th[t].batch = {}
        /\ dead' = [dead EXCEPT ![q] = @ - th[t].deadCount]
        /\ queues' = [queues EXCEPT ![q] = @ \cup th[t].alive]
    BY <1>0 DEF PurgeFinish, At
  <1>2. q \in 1..3 /\ InHand(th[t]) = th[t].alive /\ th[t] \in ThreadType
    BY <1>0, <1>1 DEF Types, WellFormed, Purging, InHand
  <1>3. /\ queues'[q] = queues[q] \cup th[t].alive
        /\ \A r \in 1..3 : r # q => queues'[r] = queues[r]
    BY <1>1, <1>2 DEF Types
  <1>4. /\ \A u \in Threads \ {t} : th'[u] = th[u]
        /\ th'[t].pc \in {"idle", "bulk"}
        /\ th'[t].pc = "bulk" => th'[t].deadCount = 0
    <2>1. \/ th' = [th EXCEPT ![t].pc = "bulk", ![t].left = @ - 1,
                              ![t].alive = {}, ![t].deadCount = 0]
          \/ th' = [th EXCEPT ![t] = Idle]
      BY Zenon DEF PurgeFinish
    <2>2. CASE th' = [th EXCEPT ![t] = Idle]
      BY <2>2, IdleFields
    <2>3. CASE th' = [th EXCEPT ![t].pc = "bulk", ![t].left = @ - 1,
                                ![t].alive = {}, ![t].deadCount = 0]
      BY <2>3 DEF Types, ThreadType
    <2>. QED BY <2>1, <2>2, <2>3
  <1>5. InHand(th'[t]) = {}
    BY <1>4 DEF Types, WellFormed, InHand
  <1>6. Placed /\ LockedOnce /\ JudgedStart /\ Counted
    BY DEF CountInv
  <1>7. \A k : HeldIn(k, queues', th') <=> HeldIn(k, queues, th)
    <2>1. ASSUME NEW k, HeldIn(k, queues', th') PROVE HeldIn(k, queues, th)
      <3>1. CASE \E r \in 1..3 : k \in queues'[r]
        BY <1>2, <1>3, <3>1 DEF HeldIn
      <3>2. CASE \E u \in Threads : k \in InHand(th'[u])
        BY <1>4, <1>5, <3>2 DEF HeldIn
      <3>. QED BY <2>1, <3>1, <3>2 DEF HeldIn
    <2>2. ASSUME NEW k, HeldIn(k, queues, th) PROVE HeldIn(k, queues', th')
      <3>1. CASE \E r \in 1..3 : k \in queues[r]
        BY <1>3, <3>1 DEF HeldIn
      <3>2. CASE \E u \in Threads : k \in InHand(th[u])
        BY <1>2, <1>3, <1>4, <3>2 DEF HeldIn
      <3>. QED BY <2>2, <3>1, <3>2 DEF HeldIn
    <2>. QED BY <2>1, <2>2
  <1>8. Placed' /\ LockedOnce' /\ JudgedStart'
    <2>1. \A r \in 1..3 : \A k \in queues'[r] : k \in queues[r] \/ QueueOf(k[1]) = r
      <3>1. \A k \in th[t].alive : QueueOf(k[1]) = q
        BY <1>0, <1>2, <1>6 DEF Placed
      <3>. QED BY <1>3, <3>1
    <2>. QED BY <1>4, <1>5, <1>6, <2>1, CountParts
  <1>9. Counted'
    <2>1. dead \in [1..3 -> Int] /\ th[t].deadCount \in Int
      BY <1>2, <1>6 DEF Counted, ThreadType
    <2>2. dead' \in [1..3 -> Int]
      BY <1>1, <1>2, <2>1
    <2>3. ASSUME NEW r \in 1..3
          PROVE  dead'[r] + JudgedBy(th[t], r) = dead[r] + JudgedBy(th'[t], r)
      <3>1. JudgedBy(th'[t], r) = 0
        BY <1>4 DEF JudgedBy
      <3>2. dead[r] \in Int
        BY <2>1
      <3>3. CASE r = q
        <4>1. JudgedBy(th[t], r) = th[t].deadCount
          BY <1>0, <1>1, <3>3 DEF JudgedBy
        <4>2. dead'[r] = dead[r] - th[t].deadCount
          BY <1>1, <1>2, <2>1, <3>3
        <4>. QED BY <2>1, <3>1, <3>2, <4>1, <4>2
      <3>4. CASE r # q
        <4>1. JudgedBy(th[t], r) = 0
          BY <1>0, <3>4 DEF JudgedBy
        <4>2. dead'[r] = dead[r]
          BY <1>1, <1>2, <2>1, <3>4
        <4>. QED BY <3>1, <3>2, <4>1, <4>2
      <3>. QED BY <3>3, <3>4
    <2>4. th[t].pc # "enqueue" /\ th'[t].pc # "enqueue"
      BY <1>1, <1>4
    <2>. QED BY <1>1, <1>4, <1>6, <1>7, <2>2, <2>3, <2>4, CountMoved
  <1>. QED BY <1>8, <1>9 DEF CountInv

\* A dead entry of a batch is found once, and no longer held.
LEMMA PurgeJudgeCount ==
  ASSUME Types, Types', QueueInv, CountInv, NEW t \in Threads, PurgeJudge(t)
  PROVE  CountInv'
  <1>0. PICK q : q = th[t].q
    OBVIOUS
  <1>1. UNCHANGED <<mem, dying, queues, dead>> /\ th[t].pc = "judge"
    BY DEF PurgeJudge, At, poolVars
  <1>2. q \in 1..3 /\ InHand(th[t]) = th[t].batch \cup th[t].alive /\ th[t] \in ThreadType
    BY <1>0, <1>1 DEF Types, WellFormed, Purging, InHand
  <1>3. PICK n \in th[t].batch :
          th' = [th EXCEPT ![t].batch = @ \ {n},
                           ![t].alive = IF IsDeadNode(n) THEN @ ELSE @ \cup {n},
                           ![t].deadCount = IF IsDeadNode(n) THEN @ + 1 ELSE @]
    BY DEF PurgeJudge
  <1>4. /\ \A u \in Threads \ {t} : th'[u] = th[u]
        /\ th'[t].pc = "judge" /\ th'[t].q = q /\ n \in th[t].batch
        /\ th'[t].batch = th[t].batch \ {n}
        /\ th'[t].alive = IF IsDeadNode(n) THEN th[t].alive ELSE th[t].alive \cup {n}
        /\ th'[t].deadCount = IF IsDeadNode(n) THEN th[t].deadCount + 1
                              ELSE th[t].deadCount
    BY <1>0, <1>1, <1>2, <1>3 DEF Types, ThreadType
  <1>5. InHand(th'[t]) = th'[t].batch \cup th'[t].alive
    BY <1>4 DEF InHand
  <1>6. Placed /\ LockedOnce /\ JudgedStart /\ Counted /\ EntriesApart
    BY DEF CountInv, QueueInv
  <1>7. th[t].batch \cap th[t].alive = {} /\ QueueOf(n[1]) = q
    BY <1>0, <1>1, <1>2, <1>3, <1>6 DEF JudgedStart, Placed
  <1>8. Placed' /\ LockedOnce' /\ JudgedStart'
    <2>1. InHand(th'[t]) \subseteq InHand(th[t])
      BY <1>2, <1>4, <1>5
    <2>2. \A k \in InHand(th'[t]) : QueueOf(k[1]) = th'[t].q
      BY <1>0, <1>4, <1>6, <2>1 DEF Placed
    <2>3. th'[t].batch \cap th'[t].alive = {}
      BY <1>4, <1>7
    <2>. QED BY <1>1, <1>4, <1>6, <2>2, <2>3, CountParts
  <1>9. CASE ~IsDeadNode(n)
    <2>1. InHand(th'[t]) = InHand(th[t])
      BY <1>2, <1>4, <1>5, <1>9
    <2>2. \A k : HeldIn(k, queues', th') <=> HeldIn(k, queues, th)
      BY <1>1, <1>4, <2>1 DEF HeldIn
    <2>3. \A r \in 1..3 : dead'[r] + JudgedBy(th[t], r) = dead[r] + JudgedBy(th'[t], r)
      BY <1>0, <1>1, <1>4, <1>9 DEF JudgedBy
    <2>4. dead' \in [1..3 -> Int] /\ th'[t].pc # "enqueue" /\ th[t].pc # "enqueue"
      BY <1>1, <1>4, <1>6 DEF Counted
    <2>5. Counted'
      BY <1>1, <1>4, <1>6, <2>2, <2>3, <2>4, CountMoved
    <2>. QED BY <1>8, <2>5 DEF CountInv
  <1>10. CASE IsDeadNode(n)
    <2>1. InHand(th'[t]) = InHand(th[t]) \ {n}
      BY <1>2, <1>4, <1>5, <1>7, <1>10
    <2>2. \A k : HeldIn(k, queues', th') <=> HeldIn(k, queues, th) /\ k # n
      <3>1. \A r \in 1..3 : n \notin queues[r]
        BY <1>2, <1>6 DEF EntriesApart
      <3>2. \A u \in Threads \ {t} : n \notin InHand(th[u])
        BY <1>2, <1>6 DEF EntriesApart
      <3>. QED BY <1>1, <1>4, <2>1, <3>1, <3>2 DEF HeldIn
    <2>3. ASSUME NEW r \in 1..3, NEW k, k # n
          PROVE  k \in DeadEntries(r)' <=> k \in DeadEntries(r)
      BY <1>1, <2>2, <2>3, DeadMoved, DeadIs
    <2>4. dead' \in [1..3 -> Int]
      BY <1>1, <1>6 DEF Counted
    <2>5. ASSUME NEW r \in 1..3
          PROVE  dead'[r] + Bit(t \in Destroying(r)') + Owed(t, n, r)
                   = dead[r] + Bit(t \in Destroying(r)) + Owed(t, n, r)'
      <3>1. PICK i, k, k2 : /\ i = Bit(n \in DeadEntries(r))
                            /\ k = JudgedBy(th[t], r) /\ k2 = JudgedBy(th'[t], r)
        OBVIOUS
      <3>2. Bit(t \in Destroying(r)') = Bit(t \in Destroying(r)) /\ dead'[r] = dead[r]
        BY <1>1 DEF Destroying
      <3>3. Bit(n \in DeadEntries(r)') = 0
        BY <1>1, <2>2, DeadMoved DEF Bit
      <3>4. Bit(t \in Superseding(r)) = 0 /\ Bit(t \in Superseding(r)') = 0
        BY <1>1, <1>4 DEF Superseding, Bit
      <3>5. Owed(t, n, r)' = Bit(n \in DeadEntries(r)') + JudgedBy(th'[t], r)
                               + Bit(t \in Superseding(r)')
        BY DEF Owed
      <3>6. n \in DeadEntries(r) <=> r = q
        <4>1. HeldIn(n, queues, th)
          BY <1>2 DEF HeldIn
        <4>. QED BY <1>7, <1>10, <4>1, DeadIs DEF IsDeadNode
      <3>7. k \in Int /\ i \in Int /\ k2 = k + i
        <4>1. th[t].deadCount \in Nat
          BY <1>2 DEF ThreadType
        <4>2. CASE r = q
          BY <1>0, <1>1, <1>4, <1>10, <3>1, <3>6, <4>1, <4>2 DEF JudgedBy, Bit
        <4>3. CASE r # q
          BY <1>0, <1>4, <3>1, <3>6, <4>3 DEF JudgedBy, Bit
        <4>. QED BY <4>2, <4>3
      <3>8. Owed(t, n, r) = i + k + 0 /\ Owed(t, n, r)' = 0 + k2 + 0
        BY <3>1, <3>3, <3>4, <3>5 DEF Owed
      <3>9. Owed(t, n, r) = Owed(t, n, r)'
        BY <3>7, <3>8
      <3>. QED BY <3>2, <3>9
    <2>6. Counted'
      BY <1>1, <1>4, <1>6, <2>3, <2>4, <2>5, CountedOne
    <2>. QED BY <1>8, <2>6 DEF CountInv
  <1>. QED BY <1>9, <1>10

\* A step that concerns t and two entries.
LEMMA CountedTwo ==
  ASSUME Types, Types', Counted, NEW t \in Threads, dead' \in [1..3 -> Int],
         \A u \in Threads \ {t} : th'[u] = th[u] /\ dying'[u] = dying[u],
         UNCHANGED mem, NEW n, NEW m, n # m,
         \A q \in 1..3 : \A k : k # n /\ k # m =>
            (k \in DeadEntries(q)' <=> k \in DeadEntries(q)),
         \A q \in 1..3 :
            dead'[q] + Bit(t \in Destroying(q)') + (Owed(t, n, q) + Bit(m \in DeadEntries(q)))
            = dead[q] + Bit(t \in Destroying(q))
                + (Owed(t, n, q)' + Bit(m \in DeadEntries(q)'))
  PROVE  Counted'
  <1>1. ASSUME NEW q \in 1..3
        PROVE  dead'[q] + Bit(t \in Destroying(q)') + Cardinality(DeadEntries(q))
                 + JudgedBy(th[t], q) + Bit(t \in Superseding(q))
               = dead[q] + Bit(t \in Destroying(q)) + Cardinality(DeadEntries(q)')
                 + JudgedBy(th'[t], q) + Bit(t \in Superseding(q)')
    <2>1. PICK S, T : S = DeadEntries(q) /\ T = DeadEntries(q)'
      OBVIOUS
    <2>2. PICK M : M = (S \ {n}) \cup (T \cap {n})
      OBVIOUS
    <2>3. IsFiniteSet(S) /\ IsFiniteSet(T)
      BY <2>1, CountsAreFinite, CountsAreFinitePrimed DEF CountsFinite
    <2>4. IsFiniteSet(M)
      <3>1. M \subseteq S \cup T
        BY <2>2
      <3>. QED BY <2>3, <3>1, FS_Union, FS_Subset
    <2>5. /\ Cardinality(S) \in Nat /\ Cardinality(M) \in Nat
          /\ Cardinality(M) + Bit(n \in S) = Cardinality(S) + Bit(n \in M)
      <3>1. \A y : y # n => (y \in M <=> y \in S)
        BY <2>2
      <3>. QED BY <2>3, <2>4, <3>1, OneElement
    <2>6. /\ Cardinality(T) \in Nat
          /\ Cardinality(T) + Bit(m \in M) = Cardinality(M) + Bit(m \in T)
      <3>1. \A y : y # m => (y \in T <=> y \in M)
        BY <2>1, <2>2
      <3>. QED BY <2>3, <2>4, <3>1, OneElement
    <2>7. Bit(n \in M) = Bit(n \in T) /\ Bit(m \in M) = Bit(m \in S)
      BY <2>2 DEF Bit
    <2>8. PICK d, e, d2, i, i2, j, j2 :
             /\ d = Cardinality(S) /\ e = Cardinality(M) /\ d2 = Cardinality(T)
             /\ i = Bit(n \in S) /\ i2 = Bit(n \in T)
             /\ j = Bit(m \in S) /\ j2 = Bit(m \in T)
      OBVIOUS
    <2>9. PICK a, a2, s, s2 : /\ a = Bit(t \in Destroying(q))
                              /\ a2 = Bit(t \in Destroying(q)')
                              /\ s = Bit(t \in Superseding(q))
                              /\ s2 = Bit(t \in Superseding(q)')
      OBVIOUS
    <2>10. PICK k, k2, x, x2 : /\ k = JudgedBy(th[t], q) /\ k2 = JudgedBy(th'[t], q)
                               /\ x = dead[q] /\ x2 = dead'[q]
      OBVIOUS
    <2>11. d \in Nat /\ e \in Nat /\ d2 \in Nat /\ e + i = d + i2 /\ d2 + j = e + j2
      BY <2>5, <2>6, <2>7, <2>8
    <2>12. /\ i \in Int /\ i2 \in Int /\ j \in Int /\ j2 \in Int
           /\ a \in Int /\ a2 \in Int /\ s \in Int /\ s2 \in Int
      BY <2>8, <2>9 DEF Bit
    <2>13. /\ k \in Int /\ k2 \in Int /\ x \in Int /\ x2 \in Int
      BY <2>10, CountsAreFinite, CountsAreFinitePrimed DEF CountsFinite, Counted
    <2>14. x2 + a2 + ((i + k + s) + j) = x + a + ((i2 + k2 + s2) + j2)
      BY <2>1, <2>8, <2>9, <2>10 DEF Owed
    <2>15. x2 + a2 + d + k + s = x + a + d2 + k2 + s2
      BY ONLY <2>11, <2>12, <2>13, <2>14
    <2>. QED BY <2>1, <2>8, <2>9, <2>10, <2>15
  <1>. QED BY <1>1, CountedStep

\* Where a visit leaves the thread, and what it does to the count.
LEMMA VisitThread ==
  ASSUME Types, NEW t \in Threads, NEW b \in Blocks, b = th[t].node[1], EvictVisit(t)
  PROVE  /\ \A u \in Threads \ {t} : th'[u] = th[u]
         /\ th'[t].pc \in {"idle", "reserve", "iterate", "granted"}
         /\ \/ th[t].node # <<b, mem[b].seq>> /\ dead' = [dead EXCEPT ![th[t].q] = @ - 1]
            \/ th[t].node = <<b, mem[b].seq>> /\ UNCHANGED dead
  <1>1. CASE VisitStale(t, b)
    <2>1. th' = [th EXCEPT ![t].pc = "iterate", ![t].node = Idle.node]
          /\ th[t].node # <<b, mem[b].seq>> /\ dead' = [dead EXCEPT ![th[t].q] = @ - 1]
      BY <1>1 DEF VisitStale, Node
    <2>. QED BY <2>1, IterateIs, MovesFields
  <1>2. CASE VisitUnevictable(t, b)
    <2>1. th' = [th EXCEPT ![t].pc = "iterate", ![t].node = Idle.node]
          /\ th[t].node = <<b, mem[b].seq>> /\ UNCHANGED dead
      BY <1>2 DEF VisitUnevictable, Node
    <2>. QED BY <2>1, IterateIs, MovesFields
  <1>3. CASE VisitNoTempDirectory(t, b)
    <2>1. NextQueue(t) /\ th[t].node = <<b, mem[b].seq>> /\ UNCHANGED dead
      BY <1>3 DEF VisitNoTempDirectory, Node
    <2>. QED BY <2>1, NextQueueIs, MovesFields
  <1>4. CASE VisitUnload(t, b)
    <2>1. AfterUnload(t, b) /\ th[t].node = <<b, mem[b].seq>> /\ UNCHANGED dead
      BY <1>4 DEF VisitUnload, Node
    <2>2. CASE th' = [th EXCEPT ![t].pc = "granted", ![t].node = Idle.node]
      BY <2>1, <2>2 DEF Types, ThreadType
    <2>3. CASE Grant(t)
      BY <2>1, <2>3, GrantIs, MovesFields
    <2>4. CASE th' = [th EXCEPT ![t].pc = "iterate", ![t].node = Idle.node]
      BY <2>1, <2>4, IterateIs, MovesFields
    <2>. QED BY <2>1, <2>2, <2>3, <2>4 DEF AfterUnload
  <1>5. CASE VisitWriteFails(t, b)
    <2>1. th' = [th EXCEPT ![t] = Idle] /\ th[t].node = <<b, mem[b].seq>> /\ UNCHANGED dead
      BY <1>5 DEF VisitWriteFails, GiveUp, Node
    <2>. QED BY <2>1, IdleFields
  <1>. QED BY <1>1, <1>2, <1>3, <1>4, <1>5 DEF EvictVisit

\* A visit takes a stale entry off the count; a live entry was not counted,
\* and is not unless it is put back and its block is then destroyed.
LEMMA EvictVisitCount ==
  ASSUME Types, Types', ContentsInv, QueueInv, CountInv, NEW t \in Threads,
         EvictVisit(t)
  PROVE  CountInv'
  <1>0. PICK q, b, n : q = th[t].q /\ b = th[t].node[1] /\ n = th[t].node
    OBVIOUS
  <1>1. /\ th[t].pc = "visit" /\ q \in 1..3 /\ b \in Blocks /\ dying[t] = NoBlock
        /\ ~Locked(b)
    BY <1>0 DEF EvictVisit, At, Types, WellFormed, Evicting
  <1>2. PICK m : m = <<b, mem[b].seq>>
    OBVIOUS
  <1>3. /\ \A u \in Threads \ {t} : th'[u] = th[u]
        /\ th'[t].pc \in {"idle", "reserve", "iterate", "granted"}
        /\ \/ n # m /\ dead' = [dead EXCEPT ![q] = @ - 1]
           \/ n = m /\ UNCHANGED dead
    BY <1>0, <1>1, <1>2, VisitThread
  <1>4. /\ InHand(th[t]) = {n} /\ InHand(th'[t]) = {} /\ n[1] = b /\ m[1] = b
        /\ QueueOf(b) = q
    <2>1. InHand(th[t]) = {n}
      BY <1>0, <1>1 DEF InHand, Types, WellFormed
    <2>2. InHand(th'[t]) = {}
      BY <1>3 DEF InHand, Types, WellFormed
    <2>3. QueueOf(n[1]) = q
      BY <1>0, <2>1 DEF CountInv, Placed
    <2>. QED BY <1>0, <1>2, <2>1, <2>2, <2>3
  <1>5. Placed /\ LockedOnce /\ JudgedStart /\ Counted /\ EntriesApart
    BY DEF CountInv, QueueInv
  <1>6. /\ mem[b].life = "live" /\ \A u \in Threads : dying[u] # b
        /\ \A a \in Blocks : mem'[a].life = mem[a].life
        /\ dying' = dying \/ dying' = [dying EXCEPT ![t] = b]
    BY <1>0, VisitEffect DEF EvictVisit, DropReference
  <1>7. dying'[t] \in {NoBlock, b} /\ \A u \in Threads \ {t} : dying'[u] = dying[u]
    BY <1>1, <1>6 DEF Types
  <1>8. /\ \A a \in Blocks : mem'[a].seq = mem[a].seq
        /\ \A a \in Blocks \ {b} : mem'[a] = mem[a]
    BY <1>0, <1>1, VisitEntry
  <1>9. /\ Alive(b) /\ Node(b) = m /\ Node(b)' = m
        /\ Alive(b)' <=> dying'[t] # b
    BY <1>1, <1>2, <1>6, <1>7, <1>8 DEF Alive, Node
  <1>10. \A a \in Blocks \ {b} : (Alive(a)' <=> Alive(a)) /\ Node(a)' = Node(a)
    <2>1. \A a \in Blocks \ {b} : dying[t] # a /\ dying'[t] # a
      BY <1>1, <1>7, PoolAssumption
    <2>. QED BY <1>7, <1>8, <2>1 DEF Alive, Node
  <1>11. HeldIn(m, queues, th) <=> mem[b].entry
    <2>1. Evictable(b)
      BY <1>1, EvictableIs DEF QueueInv
    <2>. QED BY <1>2, <1>6, <1>9, <2>1 DEF Evictable
  <1>12. \A r \in 1..3 : n \notin queues[r]
    BY <1>4, <1>5 DEF EntriesApart
  <1>13. \A u \in Threads \ {t} : n \notin InHand(th[u])
    BY <1>4, <1>5 DEF EntriesApart
  <1>14. HeldIn(n, queues, th)
    BY <1>4 DEF HeldIn
  <1>15. \A k : HeldIn(k, queues, th) => k[1] \in Blocks
    BY EntriesAreNodes DEF HeldIn, Nodes
  <1>16. ASSUME NEW k, k # n, k # m, HeldIn(k, queues', th') <=> HeldIn(k, queues, th),
                NEW r \in 1..3
         PROVE  k \in DeadEntries(r)' <=> k \in DeadEntries(r)
    <2>1. CASE HeldIn(k, queues, th) /\ k[1] # b
      BY <1>10, <1>15, <1>16, <2>1, DeadIs, DeadIsPrimed DEF DeadWhere
    <2>2. CASE HeldIn(k, queues, th) /\ k[1] = b
      BY <1>9, <1>16, <2>2, DeadIs, DeadIsPrimed DEF DeadWhere
    <2>3. CASE ~HeldIn(k, queues, th)
      BY <1>16, <2>3, DeadIs, DeadIsPrimed DEF DeadWhere
    <2>. QED BY <2>1, <2>2, <2>3
  <1>17. ASSUME NEW r \in 1..3
         PROVE  /\ Bit(t \in Destroying(r)) = 0
                /\ Bit(t \in Superseding(r)) = 0 /\ Bit(t \in Superseding(r)') = 0
                /\ JudgedBy(th[t], r) = 0 /\ JudgedBy(th'[t], r) = 0
                /\ t \in Destroying(r)' <=> QueueOf(b) = r /\ mem'[b].entry /\ ~Alive(b)'
                /\ Bit(m \in DeadEntries(r)) = 0
    <2>1. Bit(t \in Destroying(r)) = 0
      BY <1>1 DEF Destroying, Bit
    <2>2. Bit(t \in Superseding(r)) = 0 /\ Bit(t \in Superseding(r)') = 0
      BY <1>1, <1>3 DEF Superseding, Bit
    <2>3. JudgedBy(th[t], r) = 0 /\ JudgedBy(th'[t], r) = 0
      BY <1>1, <1>3 DEF JudgedBy
    <2>4. t \in Destroying(r)' <=> QueueOf(b) = r /\ mem'[b].entry /\ ~Alive(b)'
      BY <1>1, <1>7, <1>9, PoolAssumption DEF Destroying
    <2>5. Bit(m \in DeadEntries(r)) = 0
      BY <1>4, <1>9, DeadIs DEF Bit
    <2>. QED BY <2>1, <2>2, <2>3, <2>4, <2>5
  <1>18. ASSUME NEW r \in 1..3
         PROVE  /\ Owed(t, n, r) = Bit(n \in DeadEntries(r))
                /\ Owed(t, n, r)' = Bit(n \in DeadEntries(r)')
    <2>1. Bit(n \in DeadEntries(r)) \in Int /\ Bit(n \in DeadEntries(r)') \in Int
      BY DEF Bit
    <2>2. Owed(t, n, r)' = Bit(n \in DeadEntries(r)') + JudgedBy(th'[t], r)
                             + Bit(t \in Superseding(r)')
      BY DEF Owed
    <2>. QED BY <1>17, <2>1, <2>2 DEF Owed
  <1>19. \A u \in Threads \ {t} : th[u].pc = "enqueue" =>
            mem'[th[u].blk].entry = mem[th[u].blk].entry
    BY <1>1, <1>8 DEF Locked, Types, WellFormed
  <1>20. \A u \in Threads \ {t} : dying[u] # NoBlock =>
            mem'[dying[u]].entry = mem[dying[u]].entry
    BY <1>6, <1>8 DEF Types
  <1>21. dead \in [1..3 -> Int] /\ dead' \in [1..3 -> Int]
    BY <1>1, <1>3, <1>5 DEF Counted
  <1>22. ASSUME n # m /\ UNCHANGED <<mem, queues>> PROVE Counted'
    <2>1. \A k : HeldIn(k, queues', th') <=> HeldIn(k, queues, th) /\ k # n
      BY <1>3, <1>4, <1>12, <1>13, <1>22 DEF HeldIn
    <2>2. ASSUME NEW r \in 1..3, NEW k, k # n, k # m
          PROVE  k \in DeadEntries(r)' <=> k \in DeadEntries(r)
      BY <1>16, <2>1, <2>2
    <2>3. ASSUME NEW r \in 1..3
          PROVE  dead'[r] + Bit(t \in Destroying(r)')
                   + (Owed(t, n, r) + Bit(m \in DeadEntries(r)))
                 = dead[r] + Bit(t \in Destroying(r))
                   + (Owed(t, n, r)' + Bit(m \in DeadEntries(r)'))
      <3>1. PICK i, a, x, x2 :
              /\ i = Bit(n \in DeadEntries(r)) /\ a = Bit(t \in Destroying(r)')
              /\ x = dead[r] /\ x2 = dead'[r]
        OBVIOUS
      <3>2. Bit(n \in DeadEntries(r)') = 0
        BY <2>1, DeadIsPrimed DEF DeadWhere, Bit
      <3>3. n \in DeadEntries(r) <=> r = q
        BY <1>4, <1>9, <1>14, <1>22, DeadIs
      <3>4. m \in DeadEntries(r)' <=> t \in Destroying(r)'
        BY <1>4, <1>9, <1>11, <1>17, <1>22, <2>1, DeadIsPrimed DEF DeadWhere
      <3>5. Bit(m \in DeadEntries(r)') = a
        BY <3>1, <3>4 DEF Bit
      <3>6. a \in Int /\ i \in Int /\ x \in Int /\ x2 \in Int
        BY <1>21, <3>1 DEF Bit
      <3>7. x2 = x - i
        BY <1>1, <1>3, <1>21, <1>22, <3>1, <3>3, <3>6 DEF Bit
      <3>8. x2 + a + (i + 0) = x + 0 + (0 + a)
        BY ONLY <3>6, <3>7
      <3>. QED BY <1>17, <1>18, <3>1, <3>2, <3>5, <3>8
    <2>. QED BY <1>3, <1>5, <1>7, <1>21, <1>22, <2>2, <2>3, CountedTwo
  <1>23. ASSUME n = m, UNCHANGED dead,
                \A k : k # n => (HeldIn(k, queues', th') <=> HeldIn(k, queues, th)),
                HeldIn(n, queues', th') <=> mem'[b].entry
         PROVE  Counted'
    <2>1. ASSUME NEW r \in 1..3, NEW k, k # n
          PROVE  k \in DeadEntries(r)' <=> k \in DeadEntries(r)
      BY <1>16, <1>23, <2>1
    <2>2. ASSUME NEW r \in 1..3
          PROVE  dead'[r] + Bit(t \in Destroying(r)') + Owed(t, n, r)
                   = dead[r] + Bit(t \in Destroying(r)) + Owed(t, n, r)'
      <3>1. PICK a, x : a = Bit(t \in Destroying(r)') /\ x = dead[r]
        OBVIOUS
      <3>2. n \in DeadEntries(r)' <=> t \in Destroying(r)'
        BY <1>4, <1>9, <1>17, <1>23, DeadIsPrimed DEF DeadWhere
      <3>3. Bit(n \in DeadEntries(r)') = a
        BY <3>1, <3>2 DEF Bit
      <3>4. a \in Int /\ x \in Int
        BY <1>21, <3>1 DEF Bit
      <3>5. x + a + 0 = x + 0 + a
        BY ONLY <3>4
      <3>. QED BY <1>17, <1>18, <1>23, <3>1, <3>3, <3>5
    <2>. QED BY <1>3, <1>5, <1>7, <1>19, <1>20, <1>21, <2>1, <2>2, CountedOne
  <1>24. ASSUME n = m /\ ~mem'[b].entry /\ UNCHANGED queues
         PROVE  Counted'
    <2>1. \A k : HeldIn(k, queues', th') <=> HeldIn(k, queues, th) /\ k # n
      BY <1>3, <1>4, <1>12, <1>13, <1>24 DEF HeldIn
    <2>. QED BY <1>3, <1>23, <1>24, <2>1
  <1>25. ASSUME n = m /\ mem'[b].entry /\ queues' = [queues EXCEPT ![q] = @ \cup {n}]
         PROVE  Counted'
    <2>1. queues'[q] = queues[q] \cup {n} /\ \A r \in 1..3 : r # q => queues'[r] = queues[r]
      BY <1>1, <1>25 DEF Types
    <2>2. \A k : k # n => (HeldIn(k, queues', th') <=> HeldIn(k, queues, th))
      BY <1>3, <1>4, <2>1 DEF HeldIn
    <2>3. HeldIn(n, queues', th')
      BY <1>1, <2>1 DEF HeldIn
    <2>. QED BY <1>3, <1>23, <1>25, <2>2, <2>3
  <1>26. \/ n # m /\ UNCHANGED <<mem, queues>>
         \/ n = m /\ ~mem'[b].entry /\ UNCHANGED queues
         \/ n = m /\ mem'[b].entry /\ queues' = [queues EXCEPT ![q] = @ \cup {n}]
    BY <1>0, <1>1, <1>2, VisitEntry
  <1>27. Counted'
    BY <1>22, <1>24, <1>25, <1>26
  <1>28. Placed' /\ LockedOnce' /\ JudgedStart'
    <2>1. \A r \in 1..3 : \A k \in queues'[r] : k \in queues[r] \/ QueueOf(k[1]) = r
      BY <1>1, <1>4, <1>26 DEF Types
    <2>. QED BY <1>3, <1>4, <1>5, <2>1, CountParts
  <1>. QED BY <1>27, <1>28 DEF CountInv

\* Every step keeps the counters.
LEMMA CountInvStep ==
  Types /\ Types' /\ ContentsInv /\ Converting /\ QueueInv /\ CountInv /\ [Next]_vars
     => CountInv'
  <1>. SUFFICES ASSUME Types, Types', ContentsInv, Converting, QueueInv, CountInv,
                       [Next]_vars
                PROVE  CountInv'
    OBVIOUS
  <1>1. CASE UNCHANGED vars \/ SetTemporaryDirectory
    <2>1. UNCHANGED <<mem, dying, queues, th, dead>>
      BY <1>1 DEF vars, poolVars, SetTemporaryDirectory
    <2>. QED BY <2>1, CountStill
  <1>2. ASSUME NEW t \in Threads,
               \/ Evict(t) \/ Allocated(t) \/ PinEnds(t) \/ Enqueue(t)
               \/ PurgeStep(t) \/ Destroy(t) \/ Converted(t)
               \/ SetLimit(t) \/ LimitChanged(t) \/ LimitKept(t)
        PROVE  CountInv'
    <2>1. CASE Evict(t)
      BY <2>1, EvictCount, EvictDequeueCount, EvictVisitCount DEF Evict
    <2>2. CASE Allocated(t)
      BY <2>2, AllocatedCount
    <2>3. CASE PinEnds(t)
      BY <2>3, PinEndsCount, LimitCount DEF PinEnds
    <2>4. CASE Enqueue(t)
      BY <2>4, EnqueueCount
    <2>5. CASE PurgeStep(t)
      BY <2>5, PurgeCount, PurgeDequeueCount, PurgeJudgeCount, PurgeFinishCount
         DEF PurgeStep
    <2>6. CASE Destroy(t)
      BY <2>6, DestroyCount
    <2>7. CASE SetLimit(t) \/ LimitChanged(t) \/ LimitKept(t)
      BY <2>7, LimitCount
    <2>8. CASE Converted(t)
      BY <2>8, ConvertedCount
    <2>. QED BY <1>2, <2>1, <2>2, <2>3, <2>4, <2>5, <2>6, <2>7, <2>8
  <1>3. ASSUME NEW t \in Threads, NEW b \in Blocks,
               \/ RegisterBlock(t, b) \/ Allocate(t, b) \/ Pin(t, b)
               \/ Unpin(t, b) \/ SetDestroyBufferUpon(t, b) \/ DropHandle(t, b)
               \/ \E p \in Persistent : \/ ConvertToPersistent(t, b, p)
                                        \/ ConvertFails(t, b, p)
        PROVE  CountInv'
    <2>1. CASE Unpin(t, b) \/ \E p \in Persistent : ConvertFails(t, b, p)
      BY <2>1, UnpinCount DEF Unpin, ConvertFails
    <2>. QED
      BY <1>3, <2>1, RegisterCount, AllocateCount, PinCount,
         SetDestroyCount, DropHandleCount, ConvertCount
  <1>. QED
    BY <1>1, <1>2, <1>3 DEF Next

\* No finding of a purge is outstanding while no thread purges.
LEMMA NoneJudged ==
  ASSUME NEW q, \A t \in Threads : th[t].pc # "judge"
  PROVE  Judged(q) = 0
  <1>1. PICK f : f = [t \in Threads |-> JudgedBy(th[t], q)]
    OBVIOUS
  <1>2. \A t \in Threads : f[t] = 0
    BY <1>1 DEF JudgedBy
  <1>3. Sum(f, Threads) = 0
    BY <1>2, SumZero
  <1>. QED BY <1>1, <1>3 DEF Judged

\* The queues are empty at the start.
LEMMA CountInit == Init => CountInv
  <1>. SUFFICES ASSUME Init PROVE CountInv
    OBVIOUS
  <1>1. /\ \A t \in Threads : th[t] = Idle /\ dying[t] = NoBlock
        /\ \A q \in 1..3 : queues[q] = {} /\ dead[q] = 0
        /\ dead \in [1..3 -> Int]
    BY DEF Init
  <1>2. Idle.pc = "idle" /\ InHand(Idle) = {}
    BY IdleFormed DEF Idle, InHand
  <1>3. Placed /\ LockedOnce /\ JudgedStart
    BY <1>1, <1>2 DEF Placed, LockedOnce, JudgedStart
  <1>4. ASSUME NEW q \in 1..3
        PROVE  dead[q] + Cardinality(Destroying(q)) =
                 Cardinality(DeadEntries(q)) + Judged(q) + Cardinality(Superseding(q))
    <2>1. Destroying(q) = {} /\ Superseding(q) = {}
      BY <1>1, <1>2 DEF Destroying, Superseding
    <2>2. \A n : n \notin DeadEntries(q)
      BY <1>1, <1>2, DeadIs DEF HeldIn
    <2>3. DeadEntries(q) = {}
      BY <2>2
    <2>4. Judged(q) = 0
      BY <1>1, <1>2, NoneJudged
    <2>. QED BY <1>1, <2>1, <2>3, <2>4, FS_EmptySet
  <1>. QED BY <1>1, <1>3, <1>4 DEF CountInv, Counted

\* The balance of the counters implies what the runs check of them.
LEMMA CountFollows ==
  Types /\ CountInv => DeadNodesCounted
  <1>. SUFFICES ASSUME Types, CountInv PROVE DeadNodesCounted
    OBVIOUS
  <1>0. dead \in [1..3 -> Int] /\ CountsFinite
    BY CountsAreFinite DEF CountInv, Counted
  <1>1. ASSUME \A t \in Threads : th[t] = Idle /\ dying[t] = NoBlock,
               NEW q \in 1..3
        PROVE  dead[q] = Cardinality({n \in queues[q] : IsDeadNode(n)})
    <2>1. Idle.pc = "idle" /\ InHand(Idle) = {}
      BY IdleFormed DEF Idle, InHand
    <2>2. Destroying(q) = {} /\ Superseding(q) = {}
      BY <1>1, <2>1 DEF Destroying, Superseding
    <2>3. Judged(q) = 0
      BY <1>1, <2>1, NoneJudged
    <2>4. \A n : HeldIn(n, queues, th) <=> \E r \in 1..3 : n \in queues[r]
      BY <1>1, <2>1 DEF HeldIn
    <2>5. \A n : n \in DeadEntries(q) <=> n \in queues[q] /\ IsDeadNode(n)
      BY <2>4, EntriesHeld DEF DeadEntries, CountInv, Placed
    <2>6. DeadEntries(q) = {n \in queues[q] : IsDeadNode(n)}
      BY <2>5
    <2>7. dead[q] + 0 = Cardinality(DeadEntries(q)) + 0 + 0
      BY <2>2, <2>3, FS_EmptySet DEF CountInv, Counted
    <2>8. Cardinality(DeadEntries(q)) \in Nat /\ dead[q] \in Int
      BY <1>0, FS_CardinalityType DEF CountsFinite
    <2>. QED BY <2>6, <2>7, <2>8
  <1>2. ASSUME NEW q \in 1..3
        PROVE  dead[q] >= -Cardinality({t \in Threads : /\ dying[t] # NoBlock
                                                        /\ QueueOf(dying[t]) = q})
    <2>1. PICK D : D = {t \in Threads : dying[t] # NoBlock /\ QueueOf(dying[t]) = q}
      OBVIOUS
    <2>2. Destroying(q) \subseteq D /\ D \subseteq Threads
      BY <2>1 DEF Destroying
    <2>3. IsFiniteSet(D)
      BY <2>2, PoolAssumption, FS_Subset
    <2>4. Cardinality(Destroying(q)) <= Cardinality(D)
      BY <2>2, <2>3, FS_Subset
    <2>5. Judged(q) \in Nat
      <3>1. PICK f : f = [t \in Threads |-> JudgedBy(th[t], q)]
        OBVIOUS
      <3>2. \A t \in Threads : f[t] \in Nat
        BY <1>0, <3>1 DEF CountsFinite
      <3>. QED BY <3>1, <3>2, PoolAssumption, SumNat DEF Judged
    <2>6. PICK x, y, z, d, e : /\ x = Cardinality(DeadEntries(q)) /\ y = Judged(q)
                               /\ z = Cardinality(Superseding(q))
                               /\ d = Cardinality(D) /\ e = Cardinality(Destroying(q))
      OBVIOUS
    <2>7. /\ x \in Nat /\ y \in Nat /\ z \in Nat /\ d \in Nat /\ e \in Nat
          /\ dead[q] \in Int
      BY <1>0, <2>3, <2>5, <2>6, FS_CardinalityType DEF CountsFinite
    <2>8. dead[q] + e = x + y + z
      BY <2>6 DEF CountInv, Counted
    <2>9. dead[q] >= -d
      BY <2>4, <2>6, <2>7, <2>8
    <2>. QED BY <2>1, <2>6, <2>9
  <1>. QED BY <1>1, <1>2 DEF DeadNodesCounted

\* The counter of dead nodes of an EvictionQueue (total_dead_nodes, changed by
\* unpins, destructors, evictions and purges that each hold other locks) is
\* exact whenever the pool is at rest, and is never lower than the destructions
\* that have yet to count their node.
THEOREM DeadNodesAreCounted == Spec => []DeadNodesCounted
  <1>1. Init => CountInv
    BY CountInit
  <1>2. PoolInv /\ PoolInv' /\ CountInv /\ [Next]_vars => CountInv'
    BY CountInvStep DEF PoolInv
  <1>3. Spec => []PoolInv
    BY PoolCorrect
  <1>4. PoolInv /\ CountInv => DeadNodesCounted
    BY CountFollows DEF PoolInv
  <1>. QED
    BY <1>1, <1>2, <1>3, <1>4, PTL DEF Spec
=============================================================================
